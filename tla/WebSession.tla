----------------------------- MODULE WebSession -----------------------------
(***************************************************************************)
(* The session of a researcher's browser: two cookies that only the server *)
(* of the web application reads, the renewal of the short-lived one, and   *)
(* what each tab believes of it.                                           *)
(*                                                                         *)
(* The cookies are shared by the tabs; what a call carries is what they    *)
(* were when it was sent, and its answer sets or clears them whenever it   *)
(* arrives.  A tab has at most one call of each kind under way.            *)
(***************************************************************************)
EXTENDS Naturals, FiniteSets

CONSTANTS
  Tabs,        \* the tabs of one browser
  MaxLoads,    \* bound: pages loaded
  MaxFaults    \* bound: calls that fail or get lost

ASSUME WebSessionAssumption == IsFiniteSet(Tabs) /\ MaxLoads \in Nat /\ MaxFaults \in Nat

VARIABLES
  jar,     \* the cookies there are: "access", "refresh"
  tab,     \* per tab: the page, and the AuthProvider mounted in it
  calls,   \* per tab and kind: the call under way
  lock,    \* per tab: refreshInFlight
  story,   \* what has happened to the session so far
  loads,
  faults

vars == <<jar, tab, calls, lock, story, loads, faults>>

Kinds     == {"me", "data", "renew", "login", "logout"}
Session   == {"access", "refresh"}
MaxRetries == 3
-----------------------------------------------------------------------------
Idle         == [st |-> "idle", tries |-> 0, carries |-> {}]
Out(n, j)    == [st |-> "out", tries |-> n, carries |-> j]
Quiet        == [k \in Kinds |-> Idle]
Free         == [st |-> "free", carries |-> {}]

\* AuthProvider as a page mounts it: without cookies the visitor is a guest.
Mounted(p, j) == [page |-> p, status |-> IF j = {} THEN "guest" ELSE "loading", retries |-> 0, timer |-> "off"]

\* The pages with a form of their own have no provider.
LoginPage  == [page |-> "login", status |-> "none", retries |-> 0, timer |-> "off"]
SignupPage == [LoginPage EXCEPT !.page = "signup"]

\* The initial effect: /me if there is an access cookie, else a renewal of its
\* own, else nothing.
FirstCall(j) ==
  CASE "access" \in j -> [Quiet EXCEPT !["me"] = Out(1, j)]
    [] j = {"refresh"} -> [Quiet EXCEPT !["renew"] = Out(1, j)]
    [] OTHER           -> Quiet

\* The provider hears auth:expired: a protected page goes to the login page, a
\* public one shows a guest.
Bounced(b) ==
  CASE b.page = "app"    -> LoginPage
    [] b.page = "public" -> [b EXCEPT !.status = "guest"]
    [] OTHER             -> b

\* Mutant of MeFailed: any failure of /me makes a guest.
MeFailedAsGuest(b) == IF b.status = "none" THEN b ELSE [b EXCEPT !.status = "guest"]

\* refresh(): a failure that is no 401 proves nothing, and is tried again.
MeFailed(b) ==
  LET kept == [b EXCEPT !.status = IF @ = "guest" THEN "loading" ELSE @]
  IN IF b.status # "none" /\ b.retries < MaxRetries
     THEN [kept EXCEPT !.retries = @ + 1, !.timer = "set"] ELSE kept

MeOk(b) == IF b.status = "none" THEN b ELSE [b EXCEPT !.status = "authenticated", !.retries = 0]

MeDenied(b) ==
  IF b.status = "none" THEN b ELSE [b EXCEPT !.status = "guest", !.retries = 0]

Init ==
  /\ jar = Session
  /\ tab = [t \in Tabs |-> [LoginPage EXCEPT !.page = "none"]]
  /\ calls = [t \in Tabs |-> Quiet]
  /\ lock = [t \in Tabs |-> Free]
  /\ story = {} /\ loads = 0 /\ faults = 0

-----------------------------------------------------------------------------
(* The browser.                                                            *)

\* A page is loaded: the middleware lets a protected one through if there is a
\* cookie.  What the tab was waiting for is dropped.
Visit(t, p) ==
  /\ loads < MaxLoads /\ loads' = loads + 1
  /\ tab' = [tab EXCEPT ![t] = IF p = "signup" THEN SignupPage
                               ELSE IF p = "app" /\ jar = {} THEN LoginPage ELSE Mounted(p, jar)]
  /\ calls' = [calls EXCEPT ![t] = IF p = "signup" THEN Quiet ELSE FirstCall(jar)]
  /\ lock' = [lock EXCEPT ![t] = Free]
  /\ UNCHANGED <<jar, story, faults>>

\* The access cookie lives as long as its token, which is longer than a renewal
\* and the call after it take; after thirty days without a renewal the other one
\* is gone too.
AccessExpires ==
  /\ "access" \in jar /\ jar' = jar \ {"access"}
  /\ \A t \in Tabs : lock[t].st = "free" /\ \A k \in Kinds : calls[t][k].tries < 2
  /\ UNCHANGED <<tab, calls, lock, story, faults, loads>>
SessionExpires ==
  /\ jar = {"refresh"} /\ jar' = {}
  /\ story' = story \cup {"ended"}
  /\ UNCHANGED <<tab, calls, lock, faults, loads>>

-----------------------------------------------------------------------------
(* Calls.                                                                  *)

\* A page asks for data.
Ask(t) ==
  /\ tab[t].page = "app" /\ calls[t]["data"].st = "idle"
  /\ calls' = [calls EXCEPT ![t]["data"] = Out(1, jar)]
  /\ UNCHANGED <<jar, tab, lock, story, faults, loads>>

\* Without an access cookie the answer is 401; a call may also fail, or be lost,
\* which includes the client's deadline.
Failing == IF faults < MaxFaults THEN {"5xx", "lost"} ELSE {}
Fault(o) == faults' = faults + (IF o \in {"5xx", "lost"} THEN 1 ELSE 0)

Ended(t, k) == [calls EXCEPT ![t][k] = Idle]

\* What the kind of a call makes of its last answer.
Outcome(k, o, b) ==
  CASE k = "data" -> b
    [] o = "ok"   -> MeOk(b)
    [] o = "401"  -> MeDenied(b)
    [] OTHER      -> MeFailed(b)

\* A first 401 waits for the one renewal of the tab: it starts it, joins it, or
\* finds the result of one that has just ended.  A second one means that the
\* session has expired.
Unauthorized(t, k) ==
  \/ /\ calls[t][k].tries = 1 /\ lock[t].st \in {"free", "out"}
     /\ calls' = [calls EXCEPT ![t][k].st = "waits"]
     /\ lock' = IF lock[t].st = "out" THEN lock
                ELSE [lock EXCEPT ![t] = [st |-> "out", carries |-> jar]]
     /\ UNCHANGED tab
  \/ /\ calls[t][k].tries = 1 /\ lock[t].st = "renewed"
     /\ calls' = [calls EXCEPT ![t][k] = Out(2, jar)]
     /\ UNCHANGED <<tab, lock>>
  \/ /\ calls[t][k].tries = 2 \/ lock[t].st = "refused"
     /\ calls' = Ended(t, k)
     /\ tab' = [tab EXCEPT ![t] = Outcome(k, "401", Bounced(@))]
     /\ UNCHANGED lock

\* /me and the calls of a page go through requestWithAuthRetry.
Answered(t, k) ==
  /\ k \in {"me", "data"} /\ calls[t][k].st = "out"
  /\ \E o \in {IF "access" \in calls[t][k].carries THEN "ok" ELSE "401"} \cup Failing :
       /\ Fault(o)
       /\ IF o = "401" THEN Unauthorized(t, k)
          ELSE calls' = Ended(t, k) /\ tab' = [tab EXCEPT ![t] = Outcome(k, o, @)] /\ UNCHANGED lock
  /\ UNCHANGED <<jar, story, loads>>

\* Mutant of Released: only one call that waits is released.
ReleasedOne(t, renewed, j) ==
  [k \in Kinds |-> IF calls[t][k].st = "waits" /\ (k = "me" \/ calls[t]["me"].st # "waits")
                   THEN IF renewed THEN Out(2, j) ELSE Idle
                   ELSE calls[t][k]]

\* The calls that wait are sent again, with the cookies there are now, or end.
Released(t, renewed, j) ==
  [k \in Kinds |-> IF calls[t][k].st = "waits" THEN IF renewed THEN Out(2, j) ELSE Idle ELSE calls[t][k]]

\* The refresh route: whatever goes wrong upstream, the cookies are cleared.
Renewal(o) ==
  /\ jar' = CASE o = "ok"   -> Session
              [] o = "lost" -> jar
              [] OTHER      -> {}
  /\ story' = story \cup (IF o \in {"5xx", "lost"} THEN {"renewal failed"} ELSE {})
RenewalOutcomes(carries) == {IF "refresh" \in carries THEN "ok" ELSE "401"} \cup Failing

\* refreshOnce() is done: every call that waited goes on before anything else
\* happens, and its result is kept until the next tick.
RefreshAnswered(t) ==
  /\ lock[t].st = "out"
  /\ \E o \in RenewalOutcomes(lock[t].carries) :
       /\ Fault(o) /\ Renewal(o)
       /\ lock' = [lock EXCEPT ![t] = [st |-> IF o = "ok" THEN "renewed" ELSE "refused", carries |-> {}]]
       /\ calls' = [calls EXCEPT ![t] = Released(t, o = "ok", jar')]
       /\ tab' = IF o = "ok" \/ \A k \in Kinds : calls[t][k].st # "waits" THEN tab
                 ELSE [tab EXCEPT ![t] =
                         IF calls[t]["me"].st = "waits" THEN MeDenied(Bounced(@)) ELSE Bounced(@)]
  /\ UNCHANGED loads

NextTick(t) ==
  /\ lock[t].st \in {"renewed", "refused"}
  /\ lock' = [lock EXCEPT ![t] = Free]
  /\ UNCHANGED <<jar, tab, calls, story, faults, loads>>

\* The initial renewal is not the tab's shared one: /me follows it in any case
\* but a 401.
RenewAnswered(t) ==
  /\ calls[t]["renew"].st = "out"
  /\ \E o \in RenewalOutcomes(calls[t]["renew"].carries) :
       /\ Fault(o) /\ Renewal(o)
       /\ calls' = [calls EXCEPT ![t]["renew"] = Idle,
                                 ![t]["me"] = IF o = "401" \/ tab[t].status = "none" THEN @ ELSE Out(1, jar')]
       /\ tab' = IF o = "401" THEN [tab EXCEPT ![t] = MeDenied(@)] ELSE tab
  /\ UNCHANGED <<lock, loads>>

\* Mutant of RetryMe: the timer fires and nothing is asked.
RetryMeForgotten(t) ==
  /\ tab[t].timer = "set"
  /\ tab' = [tab EXCEPT ![t].timer = "off"]
  /\ UNCHANGED <<jar, calls, lock, story, faults, loads>>

\* The retry timer of refresh().
RetryMe(t) ==
  /\ tab[t].timer = "set" /\ calls[t]["me"].st = "idle"
  /\ tab' = [tab EXCEPT ![t].timer = "off"]
  /\ calls' = [calls EXCEPT ![t]["me"] = Out(1, jar)]
  /\ UNCHANGED <<jar, lock, story, faults, loads>>

-----------------------------------------------------------------------------
(* Signing up, in and out.  By the time a form is sent the calls of the    *)
(* page before have been answered.                                         *)

\* The form of a new account; the route that answers sets the cookies like a
\* login.
Register(t) ==
  /\ tab[t].page = "signup" /\ calls[t] = Quiet
  /\ calls' = [calls EXCEPT ![t]["login"] = Out(1, jar)]
  /\ UNCHANGED <<jar, tab, lock, story, faults, loads>>

Submit(t) ==
  /\ tab[t].page = "login" /\ calls[t] = Quiet
  /\ calls' = [calls EXCEPT ![t]["login"] = Out(1, jar)]
  /\ UNCHANGED <<jar, tab, lock, story, faults, loads>>

\* The cookies are set and the application is entered, or the form says what
\* was wrong.
LoggedIn(t) ==
  /\ calls[t]["login"].st = "out"
  /\ \E o \in {"ok", "401"} \cup Failing :
       /\ Fault(o)
       /\ IF o = "ok"
          THEN /\ jar' = Session
               /\ tab' = [tab EXCEPT ![t] = Mounted("app", Session)]
               /\ calls' = [calls EXCEPT ![t] = FirstCall(Session)]
          ELSE calls' = Ended(t, "login") /\ UNCHANGED <<jar, tab>>
  /\ UNCHANGED <<lock, story, loads>>

SignOut(t) ==
  /\ tab[t].status = "authenticated" /\ calls[t]["logout"].st = "idle"
  /\ calls' = [calls EXCEPT ![t]["logout"] = Out(1, jar)]
  /\ UNCHANGED <<jar, tab, lock, story, faults, loads>>

\* The route clears the cookies whatever the server says; without an answer the
\* tab stays as it is.
SignedOut(t) ==
  /\ calls[t]["logout"].st = "out"
  /\ \E o \in {"ok"} \cup Failing :
       /\ Fault(o)
       /\ calls' = Ended(t, "logout")
       /\ tab' = IF o = "ok" THEN [tab EXCEPT ![t] = LoginPage] ELSE tab
       /\ jar' = IF o = "ok" THEN {} ELSE jar
       /\ story' = story \cup (IF o = "ok" THEN {"ended"} ELSE {})
  /\ UNCHANGED <<lock, loads>>

-----------------------------------------------------------------------------
Next ==
  \/ AccessExpires \/ SessionExpires
  \/ \E t \in Tabs :
       \/ \E p \in {"app", "public", "signup"} : Visit(t, p)
       \/ Ask(t) \/ \E k \in {"me", "data"} : Answered(t, k)
       \/ RefreshAnswered(t) \/ NextTick(t) \/ RenewAnswered(t) \/ RetryMe(t)
       \/ Register(t) \/ Submit(t) \/ LoggedIn(t) \/ SignOut(t) \/ SignedOut(t)

\* Calls are answered or fail, and timers fire.
Fairness ==
  \A t \in Tabs :
    /\ WF_vars(Answered(t, "me")) /\ WF_vars(RefreshAnswered(t)) /\ WF_vars(RenewAnswered(t))
    /\ WF_vars(NextTick(t)) /\ WF_vars(RetryMe(t))

Spec == Init /\ [][Next]_vars /\ Fairness
-----------------------------------------------------------------------------
Statuses   == {"none", "loading", "authenticated", "guest"}
TabStates  == [page : {"none", "public", "app", "login", "signup"}, status : Statuses,
               retries : 0 .. MaxRetries, timer : {"off", "set"}]
CallStates == [st : {"idle", "out", "waits"}, tries : 0 .. 2, carries : SUBSET Session]
LockStates == [st : {"free", "out", "renewed", "refused"}, carries : SUBSET Session]

TypeOK ==
  /\ jar \in SUBSET Session
  /\ tab \in [Tabs -> TabStates]
  /\ calls \in [Tabs -> [Kinds -> CallStates]]
  /\ lock \in [Tabs -> LockStates]
  /\ story \subseteq {"ended", "renewal failed"} /\ loads \in 0 .. MaxLoads /\ faults \in 0 .. MaxFaults

\* As long as the session has not ended and no renewal has failed, no tab takes
\* its researcher for a guest or shows them the login page, however often the
\* access token expires, calls fail, and the tabs renew side by side.
SignOutHasCause ==
  story = {} => \A t \in Tabs : tab[t].status # "guest" /\ tab[t].page # "login"

\* A call that waits for the renewal of its tab waits for one that is under way.
WaitersHaveRenewal ==
  \A t \in Tabs : (\E k \in Kinds : calls[t][k].st = "waits") => lock[t].st = "out"

\* The shell of a page that is loading is decided, by /me or by its retries.
LoadingSettles ==
  \A t \in Tabs : tab[t].status = "loading" ~> tab[t].status # "loading"
=============================================================================
