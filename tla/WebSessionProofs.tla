-------------------------- MODULE WebSessionProofs --------------------------
(***************************************************************************)
(* Proofs about WebSession, for any number of tabs, page loads and failed  *)
(* calls.                                                                  *)
(*                                                                         *)
(* Until something has happened to the session the refresh cookie stays,   *)
(* every renewal carries it and so succeeds, and a call that is sent for   *)
(* the second time carries the access cookie of a renewal (Sound).  Hence  *)
(* no call is refused for good.                                            *)
(***************************************************************************)
EXTENDS WebSession, TLAPS

CallSound(k, c) ==
  /\ k = "renew" /\ c.st = "out" => "refresh" \in c.carries
  /\ c.tries = 2 => "access" \in c.carries

LockSound(l, j) ==
  /\ l.st # "refused"
  /\ l.st = "out" => "refresh" \in l.carries
  /\ l.st = "renewed" => "access" \in j

TabSound(b) == b.status # "guest" /\ b.page # "login"

Sound ==
  /\ "refresh" \in jar
  /\ \A t \in Tabs : TabSound(tab[t]) /\ LockSound(lock[t], jar)
  /\ \A t \in Tabs : \A k \in Kinds : CallSound(k, calls[t][k])

IInv == TypeOK /\ WaitersHaveRenewal /\ (story = {} => Sound)

-----------------------------------------------------------------------------
(* What the operators return.                                              *)

\* A call that starts or ends.
LEMMA CallsAre ==
  ASSUME NEW j \in SUBSET Session
  PROVE  /\ Idle \in CallStates /\ Idle.st = "idle" /\ Idle.tries = 0
         /\ \A n \in {1, 2} : /\ Out(n, j) \in CallStates
                              /\ Out(n, j).st = "out" /\ Out(n, j).tries = n /\ Out(n, j).carries = j
         /\ Quiet \in [Kinds -> CallStates] /\ \A k \in Kinds : Quiet[k] = Idle
<1>1. Idle \in CallStates /\ Idle.st = "idle" /\ Idle.tries = 0
  BY DEF Idle, CallStates
<1>2. ASSUME NEW n \in {1, 2}
      PROVE  /\ Out(n, j) \in CallStates
             /\ Out(n, j).st = "out" /\ Out(n, j).tries = n /\ Out(n, j).carries = j
  BY DEF Out, CallStates
<1>3. Quiet \in [Kinds -> CallStates] /\ \A k \in Kinds : Quiet[k] = Idle
  BY <1>1 DEF Quiet
<1>4. QED
  BY <1>1, <1>2, <1>3

LEMMA FirstCallIs ==
  ASSUME NEW j \in SUBSET Session
  PROVE  /\ FirstCall(j) \in [Kinds -> CallStates]
         /\ \A k \in Kinds : FirstCall(j)[k].st # "waits"
         /\ "refresh" \in j => \A k \in Kinds : CallSound(k, FirstCall(j)[k])
<1>1. CASE "access" \in j
  BY <1>1, CallsAre DEF FirstCall, Kinds, CallSound
<1>2. CASE j = {"refresh"}
  BY <1>2, CallsAre DEF FirstCall, Kinds, CallSound
<1>3. CASE "access" \notin j /\ j # {"refresh"}
  BY <1>3, CallsAre DEF FirstCall, Kinds, CallSound
<1>4. QED
  BY <1>1, <1>2, <1>3

\* The pages a tab may load.
LEMMA PagesAre ==
  ASSUME NEW j, NEW p \in {"app", "public"}
  PROVE  /\ Mounted(p, j) \in TabStates /\ (j # {} => TabSound(Mounted(p, j)))
         /\ LoginPage \in TabStates /\ SignupPage \in TabStates /\ TabSound(SignupPage)
<1>1. Mounted(p, j) \in TabStates /\ (j # {} => TabSound(Mounted(p, j)))
  BY DEF Mounted, TabStates, Statuses, TabSound, MaxRetries
<1>2. LoginPage \in TabStates
  BY DEF LoginPage, TabStates, Statuses, MaxRetries
<1>3. SignupPage = [page |-> "signup", status |-> "none", retries |-> 0, timer |-> "off"]
  BY DEF LoginPage, SignupPage
<1>4. SignupPage \in TabStates /\ TabSound(SignupPage)
  BY <1>3 DEF TabStates, Statuses, TabSound, MaxRetries
<1>5. QED
  BY <1>1, <1>2, <1>4

\* What becomes of a tab.
LEMMA TabsAre ==
  ASSUME NEW b \in TabStates
  PROVE  /\ Bounced(b) \in TabStates /\ MeDenied(b) \in TabStates
         /\ MeFailed(b) \in TabStates /\ (TabSound(b) => TabSound(MeFailed(b)))
         /\ MeOk(b) \in TabStates /\ (TabSound(b) => TabSound(MeOk(b)))
<1>1. Bounced(b) \in TabStates
  BY PagesAre DEF Bounced, TabStates, Statuses
<1>2. ASSUME NEW s \in Statuses, NEW n \in 0 .. MaxRetries, NEW w \in {"off", "set"}
      PROVE  /\ [b EXCEPT !.status = s] \in TabStates
             /\ [b EXCEPT !.status = s, !.retries = n] \in TabStates
             /\ [b EXCEPT !.status = s, !.retries = n, !.timer = w] \in TabStates
             /\ s # "guest" /\ b.page # "login" =>
                  /\ TabSound([b EXCEPT !.status = s])
                  /\ TabSound([b EXCEPT !.status = s, !.retries = n])
                  /\ TabSound([b EXCEPT !.status = s, !.retries = n, !.timer = w])
  BY DEF TabStates, TabSound, Statuses
<1>3. 0 \in 0 .. MaxRetries /\ b.status \in Statuses /\ b.retries \in 0 .. MaxRetries
  BY DEF TabStates, Statuses, MaxRetries
<1>4. MeDenied(b) \in TabStates
  BY <1>2, <1>3 DEF MeDenied, Statuses
<1>5. MeOk(b) \in TabStates /\ (TabSound(b) => TabSound(MeOk(b)))
  BY <1>2, <1>3 DEF MeOk, Statuses, TabSound
<1>6. ASSUME NEW c \in TabStates, NEW n \in 0 .. MaxRetries
       PROVE  /\ [c EXCEPT !.retries = n, !.timer = "set"] \in TabStates
              /\ TabSound(c) => TabSound([c EXCEPT !.retries = n, !.timer = "set"])
  BY DEF TabStates, TabSound
<1>7. MeFailed(b) \in TabStates /\ (TabSound(b) => TabSound(MeFailed(b)))
  <2> DEFINE s == IF b.status = "guest" THEN "loading" ELSE b.status
             kept == [b EXCEPT !.status = s]
  <2>1. s \in Statuses /\ (TabSound(b) => s # "guest" /\ b.page # "login")
    BY <1>3 DEF Statuses, TabSound
  <2>2. kept \in TabStates /\ (TabSound(b) => TabSound(kept))
    BY <2>1, <1>2, <1>3
  <2> HIDE DEF kept
  <2>3. CASE b.status # "none" /\ b.retries < MaxRetries
    <3>1. b.retries + 1 \in 0 .. MaxRetries
      BY <2>3, <1>3 DEF MaxRetries
    <3>2. kept.retries = b.retries
      BY DEF kept, TabStates
    <3>3. MeFailed(b) = [kept EXCEPT !.retries = b.retries + 1, !.timer = "set"]
      BY <2>3, <3>2 DEF MeFailed, kept
    <3>4. QED
      BY <3>1, <3>3, <2>2, <1>6
  <2>4. CASE ~(b.status # "none" /\ b.retries < MaxRetries)
    BY <2>4, <2>2 DEF MeFailed, kept
  <2>5. QED
    BY <2>3, <2>4
<1>8. QED
  BY <1>1, <1>4, <1>5, <1>7

\* A call's answer leaves a sound tab sound, unless it is a refusal.
LEMMA OutcomeIs ==
  ASSUME NEW b \in TabStates, NEW k, NEW o
  PROVE  /\ Outcome(k, o, b) \in TabStates
         /\ TabSound(b) /\ o # "401" => TabSound(Outcome(k, o, b))
  BY TabsAre DEF Outcome

\* A call that fails is counted against the bound.
LEMMA FaultIs ==
  ASSUME TypeOK, NEW o, o \in {"ok", "401"} \cup Failing, Fault(o)
  PROVE  faults' \in 0 .. MaxFaults
<1>1. MaxFaults \in Nat /\ faults \in 0 .. MaxFaults
  BY WebSessionAssumption DEF TypeOK
<1>2. o \in {"5xx", "lost"} => faults < MaxFaults
  BY DEF Failing
<1>3. QED
  BY <1>1, <1>2 DEF Fault

\* A renewal leaves cookies of the session, and fails, if it carried the
\* refresh cookie, with a cause on record.
LEMMA RenewalIs ==
  ASSUME TypeOK, NEW carries \in SUBSET Session, NEW o \in RenewalOutcomes(carries), Renewal(o)
  PROVE  /\ jar' \subseteq Session /\ story' \subseteq {"ended", "renewal failed"} /\ story \subseteq story'
         /\ o \in {"ok", "401"} \cup Failing
         /\ story' = {} /\ "refresh" \in carries => o = "ok"
         /\ o = "ok" => jar' = Session
<1>1. jar' \subseteq Session /\ (o = "ok" => jar' = Session)
  BY DEF Renewal, TypeOK, Session
<1>2. story' \subseteq {"ended", "renewal failed"} /\ story \subseteq story'
  BY DEF Renewal, TypeOK
<1>3. o \in {"ok", "401"} \cup Failing
  BY DEF RenewalOutcomes
<1>4. story' = {} /\ "refresh" \in carries => o = "ok"
  BY DEF Renewal, RenewalOutcomes, Failing
<1>5. QED
  BY <1>1, <1>2, <1>3, <1>4

\* What a step does at one tab decides whether the invariant survives it.
LEMMA StepAt ==
  ASSUME IInv, TypeOK', NEW t \in Tabs,
         \A u \in Tabs \ {t} : tab'[u] = tab[u] /\ calls'[u] = calls[u] /\ lock'[u] = lock[u],
         story \subseteq story',
         (\E k \in Kinds : calls'[t][k].st = "waits") => lock'[t].st = "out",
         story' = {} /\ Sound =>
           /\ "refresh" \in jar' /\ ("access" \in jar => "access" \in jar')
           /\ TabSound(tab'[t]) /\ LockSound(lock'[t], jar')
           /\ \A k \in Kinds : CallSound(k, calls'[t][k])
  PROVE  IInv'
<1>1. WaitersHaveRenewal'
  BY DEF IInv, WaitersHaveRenewal
<1>2. ASSUME story' = {}
      PROVE  Sound'
  <2>1. Sound
    BY <1>2 DEF IInv
  <2>2. \A u \in Tabs : TabSound(tab'[u]) /\ LockSound(lock'[u], jar')
    BY <1>2, <2>1 DEF Sound, LockSound
  <2>3. \A u \in Tabs : \A k \in Kinds : CallSound(k, calls'[u][k])
    BY <1>2, <2>1 DEF Sound
  <2>4. QED
    BY <1>2, <2>1, <2>2, <2>3 DEF Sound
<1>3. QED
  BY <1>1, <1>2 DEF IInv

-----------------------------------------------------------------------------
(* The invariant.                                                          *)

LEMMA InitInv == Init => IInv
<1> SUFFICES ASSUME Init PROVE IInv
  OBVIOUS
<1>1. TypeOK
  <2>1. [LoginPage EXCEPT !.page = "none"] \in TabStates
    BY DEF LoginPage, TabStates, Statuses, MaxRetries
  <2>2. Free \in LockStates
    BY DEF Free, LockStates
  <2>3. Quiet \in [Kinds -> CallStates]
    BY CallsAre
  <2>4. QED
    BY <2>1, <2>2, <2>3, WebSessionAssumption DEF Init, TypeOK, Session
<1>2. WaitersHaveRenewal
  BY CallsAre DEF Init, WaitersHaveRenewal
<1>3. Sound
  <2>1. \A t \in Tabs : TabSound(tab[t]) /\ LockSound(lock[t], jar)
    BY DEF Init, TabSound, LockSound, LoginPage, Free
  <2>2. \A t \in Tabs : \A k \in Kinds : CallSound(k, calls[t][k])
    BY CallsAre DEF Init, CallSound
  <2>3. QED
    BY <2>1, <2>2 DEF Init, Sound, Session
<1>4. QED
  BY <1>1, <1>2, <1>3 DEF IInv

LEMMA BrowserInv ==
  ASSUME IInv, AccessExpires \/ SessionExpires
  PROVE  IInv'
<1>1. CASE AccessExpires
  <2>1. TypeOK'
    BY <1>1 DEF AccessExpires, IInv, TypeOK
  <2>2. WaitersHaveRenewal'
    BY <1>1 DEF AccessExpires, IInv, WaitersHaveRenewal
  <2>3. story' = {} => Sound'
    <3>1. ASSUME Sound
          PROVE  Sound'
      BY <1>1, <3>1 DEF AccessExpires, Sound, LockSound
    <3>2. QED
      BY <1>1, <3>1 DEF AccessExpires, IInv
  <2>4. QED
    BY <2>1, <2>2, <2>3 DEF IInv
<1>2. CASE SessionExpires
  <2>1. TypeOK'
    BY <1>2 DEF SessionExpires, IInv, TypeOK
  <2>2. WaitersHaveRenewal' /\ story' # {}
    BY <1>2 DEF SessionExpires, IInv, WaitersHaveRenewal
  <2>3. QED
    BY <2>1, <2>2 DEF IInv
<1>3. QED
  BY <1>1, <1>2

\* One call of one tab changes.
LEMMA CallChanges ==
  ASSUME TypeOK, NEW t \in Tabs, NEW k \in Kinds, NEW c \in CallStates,
         calls' = [calls EXCEPT ![t][k] = c]
  PROVE  /\ calls' \in [Tabs -> [Kinds -> CallStates]]
         /\ \A u \in Tabs \ {t} : calls'[u] = calls[u]
         /\ \A i \in Kinds : calls'[t][i] = IF i = k THEN c ELSE calls[t][i]
  BY DEF TypeOK

LEMMA VisitInv ==
  ASSUME IInv, NEW t \in Tabs, NEW p \in {"app", "public", "signup"}, Visit(t, p)
  PROVE  IInv'
<1> DEFINE b == IF p = "signup" THEN SignupPage
                ELSE IF p = "app" /\ jar = {} THEN LoginPage ELSE Mounted(p, jar)
           c == IF p = "signup" THEN Quiet ELSE FirstCall(jar)
<1>1. TypeOK /\ jar \in SUBSET Session
  BY DEF IInv, TypeOK
<1>2. b \in TabStates /\ (jar # {} => TabSound(b))
  BY PagesAre DEF IInv, TypeOK
<1>3. /\ c \in [Kinds -> CallStates] /\ \A k \in Kinds : c[k].st # "waits"
      /\ "refresh" \in jar => \A k \in Kinds : CallSound(k, c[k])
  <2>1. CASE p = "signup"
    BY <2>1, <1>1, CallsAre DEF CallSound
  <2>2. CASE p # "signup"
    BY <2>2, <1>1, FirstCallIs
  <2>3. QED
    BY <2>1, <2>2
<1>4. Free \in LockStates /\ Free.st = "free" /\ \A j : LockSound(Free, j)
  BY DEF Free, LockStates, LockSound
<1>5. /\ tab' = [tab EXCEPT ![t] = b] /\ calls' = [calls EXCEPT ![t] = c]
      /\ lock' = [lock EXCEPT ![t] = Free] /\ UNCHANGED <<jar, story, faults>>
      /\ loads' \in 0 .. MaxLoads
  <2>1. loads < MaxLoads /\ loads' = loads + 1
    BY DEF Visit
  <2>2. loads' \in 0 .. MaxLoads
    <3>1. loads \in 0 .. MaxLoads /\ MaxLoads \in Nat
      BY <1>1, WebSessionAssumption DEF TypeOK
    <3>2. QED
      BY <2>1, <3>1
  <2>3. QED
    BY <2>2 DEF Visit
<1> HIDE DEF b, c
<1>6. TypeOK'
  BY <1>1, <1>2, <1>3, <1>4, <1>5 DEF TypeOK
<1>7. /\ tab'[t] = b /\ calls'[t] = c /\ lock'[t] = Free
      /\ \A u \in Tabs \ {t} : tab'[u] = tab[u] /\ calls'[u] = calls[u] /\ lock'[u] = lock[u]
  BY <1>1, <1>5 DEF TypeOK
<1>8. story' = {} /\ Sound =>
        /\ "refresh" \in jar' /\ ("access" \in jar => "access" \in jar')
        /\ TabSound(tab'[t]) /\ LockSound(lock'[t], jar')
        /\ \A k \in Kinds : CallSound(k, calls'[t][k])
  BY <1>2, <1>3, <1>4, <1>5, <1>7 DEF Sound
<1>9. QED
  BY <1>3, <1>5, <1>6, <1>7, <1>8, StepAt

\* A call is sent with the cookies there are.
LEMMA SendInv ==
  ASSUME IInv, NEW t \in Tabs, NEW k \in Kinds, k # "renew",
         calls' = [calls EXCEPT ![t][k] = Out(1, jar)],
         UNCHANGED <<jar, tab, lock, story, faults, loads>>
  PROVE  IInv'
<1>1. TypeOK /\ jar \in SUBSET Session
  BY DEF IInv, TypeOK
<1>2. Out(1, jar) \in CallStates /\ Out(1, jar).st = "out" /\ CallSound(k, Out(1, jar))
  BY <1>1, CallsAre DEF CallSound
<1>3. /\ calls' \in [Tabs -> [Kinds -> CallStates]]
      /\ \A u \in Tabs \ {t} : calls'[u] = calls[u]
      /\ \A i \in Kinds : calls'[t][i] = IF i = k THEN Out(1, jar) ELSE calls[t][i]
  BY <1>1, <1>2, CallChanges
<1>4. TypeOK'
  BY <1>1, <1>3 DEF TypeOK
<1>5. (\E i \in Kinds : calls'[t][i].st = "waits") => lock'[t].st = "out"
  BY <1>2, <1>3 DEF IInv, WaitersHaveRenewal
<1>6. Sound => \A i \in Kinds : CallSound(i, calls'[t][i])
  BY <1>2, <1>3 DEF Sound
<1>7. QED
  BY <1>3, <1>4, <1>5, <1>6, StepAt DEF Sound

\* A call whose answer is no refusal ends, and the tab makes of it what it may.
LEMMA EndedInv ==
  ASSUME IInv, NEW t \in Tabs, NEW k \in Kinds, NEW b \in TabStates,
         TabSound(tab[t]) => TabSound(b),
         calls' = Ended(t, k), tab' = [tab EXCEPT ![t] = b],
         faults' \in 0 .. MaxFaults, UNCHANGED <<jar, lock, story, loads>>
  PROVE  IInv'
<1>1. TypeOK
  BY DEF IInv
<1>2. Idle \in CallStates /\ Idle.st = "idle" /\ CallSound(k, Idle)
  BY CallsAre DEF CallSound
<1>3. /\ calls' \in [Tabs -> [Kinds -> CallStates]]
      /\ \A u \in Tabs \ {t} : calls'[u] = calls[u]
      /\ \A i \in Kinds : calls'[t][i] = IF i = k THEN Idle ELSE calls[t][i]
  BY <1>1, <1>2, CallChanges DEF Ended
<1>4. TypeOK' /\ tab'[t] = b /\ \A u \in Tabs \ {t} : tab'[u] = tab[u]
  BY <1>1, <1>3 DEF TypeOK
<1>5. (\E i \in Kinds : calls'[t][i].st = "waits") => lock'[t].st = "out"
  BY <1>2, <1>3 DEF IInv, WaitersHaveRenewal
<1>6. Sound => \A i \in Kinds : CallSound(i, calls'[t][i])
  BY <1>2, <1>3 DEF Sound
<1>7. QED
  BY <1>3, <1>4, <1>5, <1>6, StepAt DEF Sound

\* A refusal is final only if the call was sent with the cookie of a renewal, or
\* a renewal has been refused; neither happens before a cause.
LEMMA UnauthorizedInv ==
  ASSUME IInv, NEW t \in Tabs, NEW k \in {"me", "data"}, Unauthorized(t, k),
         calls[t][k].st = "out", "access" \notin calls[t][k].carries,
         faults' \in 0 .. MaxFaults, UNCHANGED <<jar, story, loads>>
  PROVE  IInv'
<1>1. TypeOK /\ jar \in SUBSET Session /\ tab[t] \in TabStates /\ lock[t] \in LockStates /\ k \in Kinds
  BY DEF IInv, TypeOK, Kinds
<1>2. CASE /\ calls[t][k].tries = 1 /\ lock[t].st \in {"free", "out"}
           /\ calls' = [calls EXCEPT ![t][k].st = "waits"]
           /\ lock' = IF lock[t].st = "out" THEN lock
                      ELSE [lock EXCEPT ![t] = [st |-> "out", carries |-> jar]]
           /\ UNCHANGED tab
  <2> DEFINE c == [calls[t][k] EXCEPT !.st = "waits"]
             l == IF lock[t].st = "out" THEN lock[t] ELSE [st |-> "out", carries |-> jar]
  <2>1. c \in CallStates /\ c.tries = 1
    <3>1. calls[t][k] \in CallStates
      BY <1>1 DEF TypeOK
    <3>2. QED
      BY <3>1, <1>2 DEF CallStates
  <2>2. l \in LockStates /\ l.st = "out"
    BY <1>1 DEF LockStates
  <2>3. Sound => LockSound(l, jar)
    BY DEF Sound, LockSound
  <2>4. CallSound(k, c)
    BY <2>1 DEF CallSound
  <2>5. calls' = [calls EXCEPT ![t][k] = c]
    BY <1>2
  <2>6. lock' = [lock EXCEPT ![t] = l]
    BY <1>1, <1>2 DEF TypeOK
  <2> HIDE DEF c, l
  <2>7. /\ calls' \in [Tabs -> [Kinds -> CallStates]]
        /\ \A u \in Tabs \ {t} : calls'[u] = calls[u]
        /\ \A i \in Kinds : calls'[t][i] = IF i = k THEN c ELSE calls[t][i]
    BY <1>1, <2>1, <2>5, CallChanges
  <2>8. TypeOK' /\ lock'[t] = l /\ \A u \in Tabs \ {t} : lock'[u] = lock[u]
    <3>1. lock' \in [Tabs -> LockStates] /\ lock'[t] = l /\ \A u \in Tabs \ {t} : lock'[u] = lock[u]
      BY <1>1, <2>2, <2>6 DEF TypeOK
    <3>2. tab' \in [Tabs -> TabStates]
      BY <1>1, <1>2 DEF TypeOK
    <3>3. QED
      BY <1>1, <2>7, <3>1, <3>2 DEF TypeOK
  <2>9. Sound => \A i \in Kinds : CallSound(i, calls'[t][i])
    BY <2>4, <2>7 DEF Sound
  <2>10. QED
    BY <1>2, <2>2, <2>3, <2>7, <2>8, <2>9, StepAt DEF Sound
<1>3. CASE /\ calls[t][k].tries = 1 /\ lock[t].st = "renewed"
           /\ calls' = [calls EXCEPT ![t][k] = Out(2, jar)]
           /\ UNCHANGED <<tab, lock>>
  <2>1. /\ Out(2, jar) \in CallStates /\ Out(2, jar).st = "out"
        /\ "access" \in jar => CallSound(k, Out(2, jar))
    BY <1>1, CallsAre DEF CallSound
  <2>2. /\ calls' \in [Tabs -> [Kinds -> CallStates]]
        /\ \A u \in Tabs \ {t} : calls'[u] = calls[u]
        /\ \A i \in Kinds : calls'[t][i] = IF i = k THEN Out(2, jar) ELSE calls[t][i]
    BY <1>1, <1>3, <2>1, CallChanges
  <2>3. TypeOK'
    BY <1>1, <1>3, <2>2 DEF TypeOK
  <2>4. (\E i \in Kinds : calls'[t][i].st = "waits") => lock'[t].st = "out"
    BY <1>3, <2>1, <2>2 DEF IInv, WaitersHaveRenewal
  <2>5. Sound => \A i \in Kinds : CallSound(i, calls'[t][i])
    BY <1>3, <2>1, <2>2 DEF Sound, LockSound
  <2>6. QED
    BY <1>3, <2>2, <2>3, <2>4, <2>5, StepAt DEF Sound
<1>4. CASE /\ calls[t][k].tries = 2 \/ lock[t].st = "refused"
           /\ calls' = Ended(t, k)
           /\ tab' = [tab EXCEPT ![t] = Outcome(k, "401", Bounced(@))]
           /\ UNCHANGED lock
  <2>1. story # {}
    BY <1>1, <1>4 DEF IInv, Sound, LockSound, CallSound
  <2>2. Idle \in CallStates /\ Idle.st = "idle"
    BY CallsAre
  <2>3. /\ calls' \in [Tabs -> [Kinds -> CallStates]]
        /\ \A u \in Tabs \ {t} : calls'[u] = calls[u]
        /\ \A i \in Kinds : calls'[t][i] = IF i = k THEN Idle ELSE calls[t][i]
    BY <1>1, <1>4, <2>2, CallChanges DEF Ended
  <2>4. Outcome(k, "401", Bounced(tab[t])) \in TabStates
    BY <1>1, TabsAre, OutcomeIs
  <2>5. TypeOK' /\ \A u \in Tabs \ {t} : tab'[u] = tab[u]
    BY <1>1, <1>4, <2>3, <2>4 DEF TypeOK
  <2>6. (\E i \in Kinds : calls'[t][i].st = "waits") => lock'[t].st = "out"
    BY <1>4, <2>2, <2>3 DEF IInv, WaitersHaveRenewal
  <2>7. QED
    BY <1>4, <2>1, <2>3, <2>5, <2>6, StepAt
<1>5. QED
  BY <1>2, <1>3, <1>4 DEF Unauthorized

LEMMA AnsweredInv ==
  ASSUME IInv, NEW t \in Tabs, NEW k \in {"me", "data"}, Answered(t, k)
  PROVE  IInv'
<1>1. PICK o \in {IF "access" \in calls[t][k].carries THEN "ok" ELSE "401"} \cup Failing :
        /\ Fault(o)
        /\ IF o = "401" THEN Unauthorized(t, k)
           ELSE calls' = Ended(t, k) /\ tab' = [tab EXCEPT ![t] = Outcome(k, o, @)] /\ UNCHANGED lock
  BY DEF Answered
<1>2. TypeOK /\ tab[t] \in TabStates /\ k \in Kinds
  BY DEF IInv, TypeOK, Kinds
<1>3. faults' \in 0 .. MaxFaults
  BY <1>1, <1>2, FaultIs
<1>4. CASE o = "401"
  <2>1. "access" \notin calls[t][k].carries
    BY <1>1, <1>4 DEF Failing
  <2>2. QED
    BY <1>1, <1>3, <1>4, <2>1, UnauthorizedInv DEF Answered
<1>5. CASE o # "401"
  <2>1. /\ Outcome(k, o, tab[t]) \in TabStates
        /\ TabSound(tab[t]) => TabSound(Outcome(k, o, tab[t]))
    BY <1>2, <1>5, OutcomeIs
  <2>2. QED
    BY <1>1, <1>2, <1>3, <1>5, <2>1, EndedInv DEF Answered
<1>6. QED
  BY <1>4, <1>5

LEMMA RefreshAnsweredInv ==
  ASSUME IInv, NEW t \in Tabs, RefreshAnswered(t)
  PROVE  IInv'
<1>1. TypeOK /\ tab[t] \in TabStates /\ lock[t].carries \in SUBSET Session /\ lock[t].st = "out"
  BY DEF IInv, TypeOK, LockStates, RefreshAnswered
<1>2. PICK o \in RenewalOutcomes(lock[t].carries) :
        /\ Fault(o) /\ Renewal(o)
        /\ lock' = [lock EXCEPT ![t] = [st |-> IF o = "ok" THEN "renewed" ELSE "refused", carries |-> {}]]
        /\ calls' = [calls EXCEPT ![t] = Released(t, o = "ok", jar')]
        /\ tab' = IF o = "ok" \/ \A k \in Kinds : calls[t][k].st # "waits" THEN tab
                  ELSE [tab EXCEPT ![t] =
                          IF calls[t]["me"].st = "waits" THEN MeDenied(Bounced(@)) ELSE Bounced(@)]
  BY DEF RefreshAnswered
<1> DEFINE c == Released(t, o = "ok", jar')
           l == [st |-> IF o = "ok" THEN "renewed" ELSE "refused", carries |-> {}]
<1>3. /\ jar' \in SUBSET Session /\ story' \subseteq {"ended", "renewal failed"} /\ story \subseteq story'
      /\ story' = {} /\ "refresh" \in lock[t].carries => o = "ok"
      /\ o = "ok" => jar' = Session
      /\ faults' \in 0 .. MaxFaults
  BY <1>1, <1>2, RenewalIs, FaultIs
<1>4. /\ c \in [Kinds -> CallStates]
      /\ \A k \in Kinds : c[k].st # "waits"
      /\ o = "ok" => \A k \in Kinds : CallSound(k, calls[t][k]) => CallSound(k, c[k])
  <2>1. \A k \in Kinds : calls[t][k] \in CallStates
    BY <1>1 DEF TypeOK
  <2>2. /\ Idle \in CallStates /\ Idle.st = "idle"
        /\ Out(2, jar') \in CallStates /\ Out(2, jar').st = "out" /\ Out(2, jar').carries = jar'
    BY <1>3, CallsAre
  <2>3. o = "ok" => \A k \in Kinds : CallSound(k, Out(2, jar'))
    BY <1>3, <2>2 DEF CallSound, Session
  <2>4. QED
    BY <2>1, <2>2, <2>3 DEF Released
<1>5. l \in LockStates /\ (o = "ok" => LockSound(l, jar'))
  BY <1>3 DEF LockStates, LockSound, Session
<1> HIDE DEF c, l
<1>6. /\ calls' \in [Tabs -> [Kinds -> CallStates]] /\ calls'[t] = c
      /\ \A u \in Tabs \ {t} : calls'[u] = calls[u]
  BY <1>1, <1>2, <1>4 DEF TypeOK, c
<1>7. lock' \in [Tabs -> LockStates] /\ lock'[t] = l /\ \A u \in Tabs \ {t} : lock'[u] = lock[u]
  BY <1>1, <1>2, <1>5 DEF TypeOK, l
<1>8. /\ tab' \in [Tabs -> TabStates] /\ \A u \in Tabs \ {t} : tab'[u] = tab[u]
      /\ o = "ok" => tab'[t] = tab[t]
  <2>1. Bounced(tab[t]) \in TabStates /\ MeDenied(Bounced(tab[t])) \in TabStates
    BY <1>1, TabsAre
  <2>2. QED
    BY <1>1, <1>2, <2>1 DEF TypeOK
<1>9. TypeOK'
  BY <1>1, <1>3, <1>6, <1>7, <1>8 DEF TypeOK, RefreshAnswered
<1>10. ASSUME story' = {}, Sound
       PROVE  /\ "refresh" \in jar' /\ ("access" \in jar => "access" \in jar')
              /\ TabSound(tab'[t]) /\ LockSound(lock'[t], jar')
              /\ \A k \in Kinds : CallSound(k, calls'[t][k])
  <2>1. o = "ok" /\ jar' = Session
    BY <1>1, <1>3, <1>10 DEF Sound, LockSound
  <2>2. QED
    BY <1>4, <1>5, <1>6, <1>7, <1>8, <1>10, <2>1 DEF Sound, Session
<1>11. QED
  BY <1>3, <1>4, <1>6, <1>7, <1>8, <1>9, <1>10, StepAt

\* The result of a renewal is forgotten.
LEMMA NextTickInv ==
  ASSUME IInv, NEW t \in Tabs, NextTick(t)
  PROVE  IInv'
<1>1. TypeOK /\ Free \in LockStates /\ LockSound(Free, jar)
  BY DEF IInv, Free, LockStates, LockSound
<1>2. TypeOK' /\ lock'[t] = Free /\ \A u \in Tabs \ {t} : lock'[u] = lock[u]
  BY <1>1 DEF NextTick, TypeOK
<1>3. ~ \E k \in Kinds : calls'[t][k].st = "waits"
  BY DEF IInv, WaitersHaveRenewal, NextTick
<1>4. QED
  BY <1>1, <1>2, <1>3, StepAt DEF NextTick, Sound

LEMMA RenewAnsweredInv ==
  ASSUME IInv, NEW t \in Tabs, RenewAnswered(t)
  PROVE  IInv'
<1>1. /\ TypeOK /\ tab[t] \in TabStates /\ calls[t]["renew"].carries \in SUBSET Session
      /\ calls[t]["renew"].st = "out" /\ \A k \in Kinds : calls[t][k] \in CallStates
  <2>1. TypeOK /\ calls[t]["renew"].st = "out"
    BY DEF IInv, RenewAnswered
  <2>2. tab[t] \in TabStates /\ \A k \in Kinds : calls[t][k] \in CallStates
    BY <2>1 DEF TypeOK
  <2>3. calls[t]["renew"].carries \in SUBSET Session
    BY <2>2 DEF CallStates, Kinds
  <2>4. QED
    BY <2>1, <2>2, <2>3
<1>2. PICK o \in RenewalOutcomes(calls[t]["renew"].carries) :
        /\ Fault(o) /\ Renewal(o)
        /\ calls' = [calls EXCEPT ![t]["renew"] = Idle,
                                  ![t]["me"] = IF o = "401" \/ tab[t].status = "none" THEN @ ELSE Out(1, jar')]
        /\ tab' = IF o = "401" THEN [tab EXCEPT ![t] = MeDenied(@)] ELSE tab
  BY DEF RenewAnswered
<1>3. /\ jar' \in SUBSET Session /\ story' \subseteq {"ended", "renewal failed"} /\ story \subseteq story'
      /\ story' = {} /\ "refresh" \in calls[t]["renew"].carries => o = "ok"
      /\ o = "ok" => jar' = Session
      /\ faults' \in 0 .. MaxFaults
  BY <1>1, <1>2, RenewalIs, FaultIs
<1> DEFINE m == IF o = "401" \/ tab[t].status = "none" THEN calls[t]["me"] ELSE Out(1, jar')
<1>4. /\ Idle \in CallStates /\ Idle.st = "idle" /\ CallSound("renew", Idle)
      /\ m \in CallStates /\ (m.st = "waits" => calls[t]["me"].st = "waits")
      /\ CallSound("me", calls[t]["me"]) => CallSound("me", m)
  <2>1. Idle \in CallStates /\ Idle.st = "idle" /\ CallSound("renew", Idle)
    BY CallsAre DEF CallSound
  <2>2. Out(1, jar') \in CallStates /\ Out(1, jar').st = "out" /\ CallSound("me", Out(1, jar'))
    <3>1. /\ Out(1, jar') \in CallStates /\ Out(1, jar').st = "out"
          /\ Out(1, jar').tries = 1
      BY <1>3, CallsAre
    <3>2. QED
      BY <3>1 DEF CallSound
  <2>3. calls[t]["me"] \in CallStates
    BY <1>1 DEF Kinds
  <2>4. QED
    BY <2>1, <2>2, <2>3
<1> HIDE DEF m
<1>5. /\ calls' \in [Tabs -> [Kinds -> CallStates]]
      /\ \A u \in Tabs \ {t} : calls'[u] = calls[u]
      /\ \A k \in Kinds : calls'[t][k] = IF k = "renew" THEN Idle ELSE IF k = "me" THEN m ELSE calls[t][k]
  <2>1. calls' = [calls EXCEPT ![t]["renew"] = Idle, ![t]["me"] = m]
    BY <1>1, <1>2 DEF m, TypeOK, Kinds
  <2>2. QED
    BY <1>1, <1>4, <2>1 DEF TypeOK, Kinds
<1>6. /\ tab' \in [Tabs -> TabStates] /\ \A u \in Tabs \ {t} : tab'[u] = tab[u]
      /\ o = "ok" => tab'[t] = tab[t]
  BY <1>1, <1>2, TabsAre DEF TypeOK
<1>7. TypeOK'
  BY <1>1, <1>3, <1>5, <1>6 DEF TypeOK, RenewAnswered
<1>8. (\E k \in Kinds : calls'[t][k].st = "waits") => lock'[t].st = "out"
  BY <1>4, <1>5 DEF IInv, WaitersHaveRenewal, RenewAnswered, Kinds
<1>9. ASSUME story' = {}, Sound
      PROVE  /\ "refresh" \in jar' /\ ("access" \in jar => "access" \in jar')
             /\ TabSound(tab'[t]) /\ LockSound(lock'[t], jar')
             /\ \A k \in Kinds : CallSound(k, calls'[t][k])
  <2>1. o = "ok" /\ jar' = Session
    BY <1>1, <1>3, <1>9 DEF Sound, CallSound, Kinds
  <2>2. LockSound(lock'[t], jar')
    BY <1>9, <2>1 DEF Sound, LockSound, Session, RenewAnswered
  <2>3. \A k \in Kinds : CallSound(k, calls'[t][k])
    BY <1>4, <1>5, <1>9 DEF Sound, Kinds
  <2>4. QED
    BY <1>6, <1>9, <2>1, <2>2, <2>3 DEF Sound, Session
<1>10. QED
  BY <1>3, <1>5, <1>6, <1>7, <1>8, <1>9, StepAt DEF RenewAnswered

LEMMA RetryMeInv ==
  ASSUME IInv, NEW t \in Tabs, RetryMe(t)
  PROVE  IInv'
<1> DEFINE b == [tab[t] EXCEPT !.timer = "off"]
<1>1. TypeOK /\ jar \in SUBSET Session /\ "me" \in Kinds /\ tab[t] \in TabStates
  BY DEF IInv, TypeOK, Kinds
<1>2. b \in TabStates /\ (TabSound(tab[t]) => TabSound(b))
  BY <1>1 DEF TabStates, TabSound
<1>3. Out(1, jar) \in CallStates /\ Out(1, jar).st = "out" /\ CallSound("me", Out(1, jar))
  BY <1>1, CallsAre DEF CallSound
<1>4. tab' = [tab EXCEPT ![t] = b] /\ calls' = [calls EXCEPT ![t]["me"] = Out(1, jar)]
  BY DEF RetryMe
<1> HIDE DEF b
<1>5. /\ calls' \in [Tabs -> [Kinds -> CallStates]]
      /\ \A u \in Tabs \ {t} : calls'[u] = calls[u]
      /\ \A i \in Kinds : calls'[t][i] = IF i = "me" THEN Out(1, jar) ELSE calls[t][i]
  BY <1>1, <1>3, <1>4, CallChanges
<1>6. TypeOK' /\ tab'[t] = b /\ \A u \in Tabs \ {t} : tab'[u] = tab[u]
  BY <1>1, <1>2, <1>4, <1>5 DEF TypeOK, RetryMe
<1>7. (\E i \in Kinds : calls'[t][i].st = "waits") => lock'[t].st = "out"
  BY <1>3, <1>5 DEF IInv, WaitersHaveRenewal, RetryMe
<1>8. QED
  BY <1>2, <1>3, <1>5, <1>6, <1>7, StepAt DEF Sound, RetryMe

LEMMA LoggedInInv ==
  ASSUME IInv, NEW t \in Tabs, LoggedIn(t)
  PROVE  IInv'
<1>1. PICK o \in {"ok", "401"} \cup Failing :
        /\ Fault(o)
        /\ IF o = "ok"
           THEN /\ jar' = Session
                /\ tab' = [tab EXCEPT ![t] = Mounted("app", Session)]
                /\ calls' = [calls EXCEPT ![t] = FirstCall(Session)]
           ELSE calls' = Ended(t, "login") /\ UNCHANGED <<jar, tab>>
  BY DEF LoggedIn
<1>2. TypeOK /\ tab[t] \in TabStates /\ "login" \in Kinds
  BY DEF IInv, TypeOK, Kinds
<1>3. faults' \in 0 .. MaxFaults
  BY <1>1, <1>2, FaultIs
<1>4. CASE o = "ok"
  <2>1. Mounted("app", Session) \in TabStates /\ TabSound(Mounted("app", Session))
    BY PagesAre DEF Session
  <2>2. /\ FirstCall(Session) \in [Kinds -> CallStates]
        /\ \A k \in Kinds : FirstCall(Session)[k].st # "waits" /\ CallSound(k, FirstCall(Session)[k])
    BY FirstCallIs DEF Session
  <2>3. TypeOK'
    BY <1>1, <1>2, <1>3, <1>4, <2>1, <2>2 DEF TypeOK, LoggedIn
  <2>4. /\ tab'[t] = Mounted("app", Session) /\ calls'[t] = FirstCall(Session) /\ UNCHANGED <<lock, story>>
        /\ \A u \in Tabs \ {t} : tab'[u] = tab[u] /\ calls'[u] = calls[u]
    BY <1>1, <1>2, <1>4 DEF TypeOK, LoggedIn
  <2>5. Sound => LockSound(lock'[t], jar')
    BY <1>1, <1>4, <2>4 DEF Sound, LockSound, Session
  <2>6. QED
    BY <1>1, <1>4, <2>1, <2>2, <2>3, <2>4, <2>5, StepAt DEF Session
<1>5. CASE o # "ok"
  <2>1. tab' = [tab EXCEPT ![t] = tab[t]]
    BY <1>1, <1>2, <1>5 DEF TypeOK
  <2>2. QED
    BY <1>1, <1>2, <1>3, <1>5, <2>1, EndedInv DEF LoggedIn
<1>6. QED
  BY <1>4, <1>5

LEMMA SignedOutInv ==
  ASSUME IInv, NEW t \in Tabs, SignedOut(t)
  PROVE  IInv'
<1>1. PICK o \in {"ok"} \cup Failing :
        /\ Fault(o)
        /\ calls' = Ended(t, "logout")
        /\ tab' = IF o = "ok" THEN [tab EXCEPT ![t] = LoginPage] ELSE tab
        /\ jar' = IF o = "ok" THEN {} ELSE jar
        /\ story' = story \cup (IF o = "ok" THEN {"ended"} ELSE {})
  BY DEF SignedOut
<1>2. TypeOK /\ tab[t] \in TabStates /\ "logout" \in Kinds
  BY DEF IInv, TypeOK, Kinds
<1>3. faults' \in 0 .. MaxFaults
  BY <1>1, <1>2, FaultIs
<1>4. CASE o = "ok"
  <2>1. Idle \in CallStates /\ Idle.st = "idle"
    BY CallsAre
  <2>2. /\ calls' \in [Tabs -> [Kinds -> CallStates]]
        /\ \A u \in Tabs \ {t} : calls'[u] = calls[u]
        /\ \A i \in Kinds : calls'[t][i] = IF i = "logout" THEN Idle ELSE calls[t][i]
    BY <1>1, <1>2, <2>1, CallChanges DEF Ended
  <2>3. LoginPage \in TabStates
    BY PagesAre
  <2>4. TypeOK' /\ \A u \in Tabs \ {t} : tab'[u] = tab[u]
    BY <1>1, <1>2, <1>3, <1>4, <2>2, <2>3 DEF TypeOK, SignedOut
  <2>5. story' # {} /\ story \subseteq story'
    BY <1>1, <1>4
  <2>6. (\E i \in Kinds : calls'[t][i].st = "waits") => lock'[t].st = "out"
    BY <2>1, <2>2 DEF IInv, WaitersHaveRenewal, SignedOut
  <2>7. QED
    BY <2>2, <2>4, <2>5, <2>6, StepAt DEF SignedOut
<1>5. CASE o # "ok"
  <2>1. tab' = [tab EXCEPT ![t] = tab[t]] /\ UNCHANGED <<jar, story>>
    BY <1>1, <1>2, <1>5 DEF TypeOK
  <2>2. QED
    BY <1>1, <1>2, <1>3, <1>5, <2>1, EndedInv DEF SignedOut
<1>6. QED
  BY <1>4, <1>5

LEMMA StepInv == IInv /\ [Next]_vars => IInv'
<1> SUFFICES ASSUME IInv, [Next]_vars PROVE IInv'
  OBVIOUS
<1>1. CASE UNCHANGED vars
  <2>1. TypeOK' /\ WaitersHaveRenewal' /\ (story' = {} => Sound')
    BY <1>1 DEF vars, IInv, TypeOK, WaitersHaveRenewal, Sound
  <2>2. QED
    BY <2>1 DEF IInv
<1>2. CASE AccessExpires \/ SessionExpires
  BY <1>2, BrowserInv
<1>3. ASSUME NEW t \in Tabs, NEW p \in {"app", "public", "signup"}, Visit(t, p)
      PROVE  IInv'
  BY <1>3, VisitInv
<1>4. ASSUME NEW t \in Tabs, Ask(t) \/ Register(t) \/ Submit(t) \/ SignOut(t)
      PROVE  IInv'
  <2>1. \E k \in {"data", "login", "logout"} :
          /\ calls' = [calls EXCEPT ![t][k] = Out(1, jar)]
          /\ UNCHANGED <<jar, tab, lock, story, faults, loads>>
    BY <1>4 DEF Ask, Register, Submit, SignOut
  <2>2. QED
    BY <2>1, SendInv DEF Kinds
<1>5. ASSUME NEW t \in Tabs, NEW k \in {"me", "data"}, Answered(t, k)
      PROVE  IInv'
  BY <1>5, AnsweredInv
<1>6. ASSUME NEW t \in Tabs, RefreshAnswered(t) \/ NextTick(t) \/ RenewAnswered(t) \/ RetryMe(t)
      PROVE  IInv'
  BY <1>6, RefreshAnsweredInv, NextTickInv, RenewAnsweredInv, RetryMeInv
<1>7. ASSUME NEW t \in Tabs, LoggedIn(t) \/ SignedOut(t)
      PROVE  IInv'
  BY <1>7, LoggedInInv, SignedOutInv
<1>8. QED
  BY <1>1, <1>2, <1>3, <1>4, <1>5, <1>6, <1>7 DEF Next

LEMMA Invariant == Spec => []IInv
<1>1. Init => IInv
  BY InitInv
<1>2. IInv /\ [Next]_vars => IInv'
  BY StepInv
<1>3. QED
  BY <1>1, <1>2, PTL DEF Spec

-----------------------------------------------------------------------------
(* What is claimed.                                                        *)

\* Every state is well typed: the retries of a tab and the attempts of a call
\* keep their limits (AuthProvider.tsx:79-93, http.ts:98-136).
THEOREM TypeCorrect == Spec => []TypeOK
<1>1. IInv => TypeOK
  BY DEF IInv
<1>2. QED
  BY <1>1, Invariant, PTL

\* However many tabs there are, nobody is taken for a guest or shown the login
\* page before the session has ended or a renewal has failed
\* (AuthProvider.tsx:61-140, http.ts:70-136).
THEOREM SignOutCaused == Spec => []SignOutHasCause
<1>1. IInv => SignOutHasCause
  BY DEF IInv, Sound, TabSound, SignOutHasCause
<1>2. QED
  BY <1>1, Invariant, PTL

\* However many tabs there are, no call waits for a renewal that is over
\* (refreshOnce, http.ts:70-96).
THEOREM WaitersAwaited == Spec => []WaitersHaveRenewal
<1>1. IInv => WaitersHaveRenewal
  BY DEF IInv
<1>2. QED
  BY <1>1, Invariant, PTL
=============================================================================
