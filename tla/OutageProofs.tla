---------------------------- MODULE OutageProofs ----------------------------
(***************************************************************************)
(* Proofs about Outage, for every set of objects, every configuration and  *)
(* every bound.  First what the operators of Hostinfo return, then the     *)
(* type invariant, then that an outage is announced at most once.          *)
(*                                                                         *)
(* Then who is told what, and when: what a paging step and a check result  *)
(* do to the fields the other properties read, what a step of the daemon   *)
(* does to one object, and one small invariant per property.               *)
(***************************************************************************)
EXTENDS Outage, TLAPS

\* Zenon proves the steps that name no other prover.
USE ZenonT(30)

-----------------------------------------------------------------------------
(***************************************************************************)
(* What paging steps return.                                               *)
(***************************************************************************)

\* d and e differ at most in who was told and when.
SameButTold(d, e) ==
  /\ e.lastcheck = d.lastcheck
  /\ e.downct = d.downct
  /\ e.upct = d.upct
  /\ e.acked = d.acked
  /\ e.deathtime = d.deathtime
  /\ e.next_queuetime = d.next_queuetime

\* p is r after a paging step about newstate: nothing but contacted and
\* lastcontacted changed, the object was not unmarked, and a message that
\* was sent left it marked.
PagingEffect(r, p, newstate) ==
  /\ p \in PagingType
  /\ SameButTold(r.d, p.d)
  /\ r.d.contacted => p.d.contacted
  /\ p.sent # r.sent =>
       p.d.contacted /\ p.sent = [r.sent EXCEPT ![newstate] = @ + 1]

\* page_someone changes contacted and lastcontacted and counts at most one
\* message, of the kind it was asked for; it never unmarks an object.
LEMMA PageSomeoneEffect ==
  ASSUME NEW o \in Objects, NEW r \in PagingType,
         NEW newstate \in {"UP", "DOWN"}, NEW t \in Nat, NEW m
  PROVE  PagingEffect(r, PageSomeone(o, r, newstate, t, m), newstate)
<1> DEFINE told == [r.d EXCEPT !.contacted = TRUE, !.lastcontacted = t]
           mark == [r.d EXCEPT !.contacted = TRUE]
           out  == [r.sent EXCEPT ![newstate] = @ + 1]
           p    == PageSomeone(o, r, newstate, t, m)
<1>1. r.d \in HostinfoType /\ r.sent \in [{"UP", "DOWN"} -> Nat]
  BY DEF PagingType
<1>2. told \in HostinfoType /\ told.contacted /\ SameButTold(r.d, told)
  BY <1>1 DEF HostinfoType, SameButTold
<1>3. mark \in HostinfoType /\ mark.contacted /\ SameButTold(r.d, mark)
  BY <1>1 DEF HostinfoType, SameButTold
<1>4. out \in [{"UP", "DOWN"} -> Nat]
  BY SMTT(30), <1>1
<1>5. \/ p = r
      \/ p = [d |-> told, sent |-> out]
      \/ p = [d |-> told, sent |-> r.sent]
      \/ p = [d |-> mark, sent |-> r.sent]
  BY DEF PageSomeone
<1>6. SameButTold(r.d, r.d)
  BY DEF SameButTold
<1> HIDE DEF told, mark, out, p
<1>7. /\ p \in PagingType
      /\ SameButTold(r.d, p.d)
      /\ r.d.contacted => p.d.contacted
      /\ p.sent # r.sent => p.d.contacted /\ p.sent = out
  BY SMTT(30), <1>1, <1>2, <1>3, <1>4, <1>5, <1>6 DEF PagingType
<1> QED BY <1>7 DEF p, out, PagingEffect

\* The threshold test in front of a DOWN page.
LEMMA PageIfDownLongEnoughEffect ==
  ASSUME NEW o \in Objects, NEW r \in PagingType, NEW t \in Nat, NEW m
  PROVE  LET p == PageIfDownLongEnough(o, r, t, m)
         IN  /\ PagingEffect(r, p, "DOWN")
             /\ p.sent # r.sent => ~r.d.contacted
<1> DEFINE q == PageSomeone(o, r, "DOWN", t, m)
<1>1. PagingEffect(r, q, "DOWN")
  BY PageSomeoneEffect
<1>2. PagingEffect(r, r, "DOWN")
  BY DEF SameButTold, PagingEffect
<1>3. \/ PageIfDownLongEnough(o, r, t, m) = r
      \/ ~r.d.contacted /\ PageIfDownLongEnough(o, r, t, m) = q
  BY DEF PageIfDownLongEnough
<1> HIDE DEF q
<1> QED BY <1>1, <1>2, <1>3

-----------------------------------------------------------------------------
(***************************************************************************)
(* What handle_retval returns.                                             *)
(***************************************************************************)

\* The recovery branch returns a well-typed state and leaves everything alone
\* when the result is a failure.
LEMMA RecoveryEffect ==
  ASSUME NEW o \in Objects, NEW r \in PagingType, NEW retval \in Results,
         NEW t \in Nat, NEW m
  PROVE  LET p == Recovery(o, r, retval, t, m)
         IN  /\ p \in PagingType
             /\ retval # SYSM_OK => p = r
<1> DEFINE up == [r EXCEPT !.d.lastcheck = SYSM_OK]
           q  == PageSomeone(o, up, "UP", t, m)
<1>1. up \in PagingType
  BY DEF PagingType, HostinfoType, Results
<1> HIDE DEF up
<1>2. q \in PagingType
  BY <1>1, PageSomeoneEffect DEF PagingEffect
<1> HIDE DEF q
<1>3. /\ [up EXCEPT !.d.contacted = FALSE] \in PagingType
      /\ [q EXCEPT !.d.contacted = FALSE] \in PagingType
  BY <1>1, <1>2 DEF PagingType, HostinfoType
<1>4. \/ Recovery(o, r, retval, t, m) = r
      \/ /\ retval = SYSM_OK
         /\ \/ Recovery(o, r, retval, t, m) = [up EXCEPT !.d.contacted = FALSE]
            \/ Recovery(o, r, retval, t, m) = [q EXCEPT !.d.contacted = FALSE]
  BY DEF Recovery, up, q
<1> QED BY <1>3, <1>4

\* A failure branch: the paging step on an object whose counters, kind and
\* clock were just updated, or nothing.
LEMMA StillDownEffect ==
  ASSUME NEW o \in Objects, NEW r \in PagingType, NEW retval \in Results,
         NEW t \in Nat, NEW m
  PROVE  LET p == StillDown(o, r, retval, t, m)
         IN  /\ p \in PagingType
             /\ p.d.lastcheck = r.d.lastcheck
             /\ r.d.contacted => p.d.contacted
             /\ p.sent # r.sent =>
                  /\ ~r.d.contacted /\ p.d.contacted
                  /\ p.sent = [r.sent EXCEPT !["DOWN"] = @ + 1]
                  /\ r.d.lastcheck = retval
<1> DEFINE c == [r EXCEPT !.d.downct = @ + 1]
           q == PageIfDownLongEnough(o, c, t, m)
<1>1. /\ c \in PagingType
      /\ c.d.lastcheck = r.d.lastcheck
      /\ c.d.contacted = r.d.contacted
      /\ c.sent = r.sent
  BY SMTT(30) DEF PagingType, HostinfoType
<1> HIDE DEF c
<1>2. PagingEffect(c, q, "DOWN") /\ (q.sent # c.sent => ~c.d.contacted)
  BY <1>1, PageIfDownLongEnoughEffect
<1> HIDE DEF q
<1>3. \/ StillDown(o, r, retval, t, m) = r
      \/ r.d.lastcheck = retval /\ StillDown(o, r, retval, t, m) = q
  BY DEF StillDown, c, q
<1> QED BY <1>1, <1>2, <1>3 DEF PagingEffect, SameButTold

\* The state-change block does nothing when the result is the last one, and
\* otherwise pages at most once, and only an unmarked object.
LEMMA StateChangedEffect ==
  ASSUME NEW o \in Objects, NEW r \in PagingType, NEW retval \in Results,
         NEW t \in Nat, NEW m
  PROVE  LET p == StateChanged(o, r, retval, t, m)
         IN  /\ p \in PagingType
             /\ r.d.contacted => p.d.contacted
             /\ r.d.lastcheck = retval => p = r
             /\ p.sent # r.sent =>
                  /\ ~r.d.contacted /\ p.d.contacted
                  /\ p.sent = [r.sent EXCEPT !["DOWN"] = @ + 1]
<1> DEFINE up == [r EXCEPT !.d.upct = 0, !.d.lastcheck = SYSM_OK, !.d.downct = 0]
           dead == IF r.d.lastcheck = SYSM_OK \/ r.d.deathtime = 0
                     THEN t ELSE r.d.deathtime
           c == [r EXCEPT !.d.upct = 0, !.d.lastcheck = retval, !.d.downct = 1,
                          !.d.deathtime = dead]
           q == PageIfDownLongEnough(o, c, t, m)
<1>1. /\ up \in PagingType
      /\ up.d.contacted = r.d.contacted
      /\ up.sent = r.sent
  BY DEF PagingType, HostinfoType, Results
<1>2. dead \in Nat
  BY DEF PagingType, HostinfoType
<1>3. \/ StateChanged(o, r, retval, t, m) = r
      \/ /\ r.d.lastcheck # retval
         /\ \/ StateChanged(o, r, retval, t, m) = up
            \/ StateChanged(o, r, retval, t, m) = q
  BY DEF StateChanged
<1> HIDE DEF up, dead
<1>4. /\ c \in PagingType
      /\ c.d.contacted = r.d.contacted
      /\ c.sent = r.sent
  BY <1>2 DEF PagingType, HostinfoType, Results
<1> HIDE DEF c
<1>5. PagingEffect(c, q, "DOWN") /\ (q.sent # c.sent => ~c.d.contacted)
  BY <1>4, PageIfDownLongEnoughEffect
<1> HIDE DEF q
<1> QED BY <1>1, <1>3, <1>4, <1>5 DEF PagingEffect

\* The last block leaves a failing result alone.
LEMMA CameUpEffect ==
  ASSUME NEW o \in Objects, NEW r \in PagingType, NEW retval \in Results,
         NEW t \in Nat, NEW m
  PROVE  LET p == CameUp(o, r, retval, t, m)
         IN  /\ p \in PagingType
             /\ retval # SYSM_OK => p = r
<1> DEFINE up == [r EXCEPT !.d.upct = @ + 1, !.d.downct = 0, !.d.acked = FALSE]
           q == PageSomeone(o, up, "UP", t, m)
<1>0. r.d.upct \in Nat /\ r.d.upct + 1 \in Nat
  BY SMTT(30) DEF PagingType, HostinfoType
<1>1. up \in PagingType
  BY <1>0 DEF PagingType, HostinfoType
<1>2. \/ CameUp(o, r, retval, t, m) = r
      \/ /\ retval = SYSM_OK
         /\ CameUp(o, r, retval, t, m) \in {up, q}
  BY DEF CameUp
<1> HIDE DEF up
<1>3. q \in PagingType
  BY <1>1, PageSomeoneEffect DEF PagingEffect
<1> QED BY <1>1, <1>2, <1>3

\* handle_retval as a whole.  A failing result sends at most one message, a
\* DOWN one, only when the object was not marked, and leaves it marked; it
\* never unmarks.
LEMMA HandleRetvalEffect ==
  ASSUME NEW o \in Objects, NEW d \in HostinfoType, NEW retval \in Results,
         NEW t \in Nat, NEW m
  PROVE  LET p == HandleRetval(o, d, retval, t, m)
         IN  /\ p \in PagingType
             /\ retval # SYSM_OK =>
                  /\ d.contacted => p.d.contacted
                  /\ p.sent["DOWN"] \in {0, 1}
                  /\ p.sent["DOWN"] = 1 => ~d.contacted /\ p.d.contacted
<1> DEFINE r0 == [d |-> [d EXCEPT !.next_queuetime = t + QueueTime], sent |-> NoneSent]
           r1 == Recovery(o, r0, retval, t, m)
           r2 == StillDown(o, r1, retval, t, m)
           r3 == StateChanged(o, r2, retval, t, m)
           r4 == CameUp(o, r3, retval, t, m)
<1>1. r0 \in PagingType /\ r0.d.contacted = d.contacted /\ r0.sent = NoneSent
  BY SMTT(30), ConfigAssumption DEF PagingType, HostinfoType, NoneSent, ConfigAssumption
<1>2. HandleRetval(o, d, retval, t, m) = r4
  BY DEF HandleRetval
<1> HIDE DEF r0
<1>3. r1 \in PagingType /\ (retval # SYSM_OK => r1 = r0)
  BY SMTT(30), <1>1, RecoveryEffect
<1> HIDE DEF r1
<1>4. /\ r2 \in PagingType
      /\ r2.d.lastcheck = r1.d.lastcheck
      /\ r1.d.contacted => r2.d.contacted
      /\ r2.sent # r1.sent =>
           /\ ~r1.d.contacted /\ r2.d.contacted
           /\ r2.sent = [r1.sent EXCEPT !["DOWN"] = @ + 1]
           /\ r1.d.lastcheck = retval
  BY SMTT(30), <1>3, StillDownEffect
<1> HIDE DEF r2
<1>5. /\ r3 \in PagingType
      /\ r2.d.contacted => r3.d.contacted
      /\ r2.d.lastcheck = retval => r3 = r2
      /\ r3.sent # r2.sent =>
           /\ ~r2.d.contacted /\ r3.d.contacted
           /\ r3.sent = [r2.sent EXCEPT !["DOWN"] = @ + 1]
  BY <1>4, StateChangedEffect
<1> HIDE DEF r3
<1>6. r4 \in PagingType /\ (retval # SYSM_OK => r4 = r3)
  BY SMTT(30), <1>5, CameUpEffect
<1> HIDE DEF r4
<1>7. ASSUME retval # SYSM_OK
      PROVE  /\ d.contacted => r4.d.contacted
             /\ r4.sent["DOWN"] \in {0, 1}
             /\ r4.sent["DOWN"] = 1 => ~d.contacted /\ r4.d.contacted
  <2>1. r4 = r3 /\ r1 = r0
    BY <1>3, <1>6, <1>7
  <2>2. r0.sent["DOWN"] = 0 /\ r0.sent \in [{"UP", "DOWN"} -> Nat]
    BY <1>1 DEF NoneSent, PagingType
  <2>3. CASE r2.sent # r1.sent
    <3>1. r3.sent["DOWN"] = 1 /\ ~d.contacted /\ r3.d.contacted
      <4>1. r2.d.contacted /\ ~d.contacted /\ r2.sent = [r0.sent EXCEPT !["DOWN"] = @ + 1]
        BY <1>1, <1>4, <2>1, <2>3
      <4>2. r2.sent["DOWN"] = 1
        BY SMTT(30), <4>1, <2>2
      <4>3. r3.sent = r2.sent /\ r3.d.contacted
        BY <1>5, <4>1
      <4> QED BY <4>1, <4>2, <4>3
    <3> QED BY <2>1, <3>1
  <2>4. CASE r2.sent = r1.sent
    <3>1. CASE r3.sent = r2.sent
      BY SMTT(30), <1>1, <1>4, <1>5, <2>1, <2>2, <2>4, <3>1
    <3>2. CASE r3.sent # r2.sent
      <4>1. /\ r3.d.contacted /\ ~r2.d.contacted
            /\ r3.sent = [r0.sent EXCEPT !["DOWN"] = @ + 1]
        BY <1>5, <2>1, <2>4, <3>2
      <4>2. r3.sent["DOWN"] = 1
        BY SMTT(30), <4>1, <2>2
      <4>3. ~d.contacted
        BY <1>1, <1>4, <2>1, <4>1
      <4> QED BY <2>1, <4>1, <4>2, <4>3
    <3> QED BY <3>1, <3>2
  <2> QED BY <2>3, <2>4
<1> QED BY <1>2, <1>6, <1>7

-----------------------------------------------------------------------------
(***************************************************************************)
(* Type correctness.                                                       *)
(***************************************************************************)

\* The history operators stay within HistType.
LEMMA RecordPagesType ==
  ASSUME NEW h \in HistType, NEW sent \in [{"UP", "DOWN"} -> Nat], now \in Nat
  PROVE  RecordPages(h, sent) \in HistType
<1>1. h.down \in Nat /\ sent["DOWN"] \in Nat
  BY DEF HistType
<1>2. h.down + sent["DOWN"] \in Nat
  BY SMTT(30), <1>1
<1>3. [h EXCEPT !.down = h.down + sent["DOWN"], !.downat = now] \in HistType
  BY <1>2 DEF HistType
<1> QED BY <1>3 DEF RecordPages

\* Likewise for the history of a check result.
LEMMA RecordResultType ==
  ASSUME NEW h \in HistType, NEW sent \in [{"UP", "DOWN"} -> Nat], now \in Nat,
         NEW retval \in Results
  PROVE  RecordResult(h, retval, sent) \in HistType
<1> DEFINE f == [h EXCEPT !.fails = @ + 1, !.up = 0]
<1>0. /\ h.fails \in Nat /\ h.fails + 1 \in Nat
      /\ h.up \in Nat /\ sent["UP"] \in Nat
  BY SMTT(30) DEF HistType
<1>1. f \in HistType
  BY <1>0 DEF HistType
<1> HIDE DEF f
<1>2. RecordPages(f, sent) \in HistType
  BY <1>1, RecordPagesType
<1>3. h.up + sent["UP"] \in Nat
  BY SMTT(30), <1>0
<1>4. [NoHist EXCEPT !.up = h.up + sent["UP"]] \in HistType
  BY <1>3 DEF HistType, NoHist
<1> QED BY <1>2, <1>4 DEF RecordResult, f

\* load_state leaves a whole hostinfo, whether or not the file is used.
LEMMA LoadStateType ==
  ASSUME TypeOK, NEW o \in Objects
  PROVE  LoadState(o) \in HostinfoType
<1> DEFINE saved == disk.data[o]
<1>1. saved \in HostinfoType
  BY DEF TypeOK
<1>2. NewHostinfo \in HostinfoType
  BY DEF NewHostinfo, HostinfoType, Results
<1>3. \/ LoadState(o) = [saved EXCEPT !.next_queuetime = 0]
      \/ LoadState(o) = NewHostinfo
  BY DEF LoadState
<1> HIDE DEF saved
<1>4. [saved EXCEPT !.next_queuetime = 0] \in HostinfoType
  BY <1>1 DEF HostinfoType
<1> QED BY <1>2, <1>3, <1>4

\* Every step of the daemon, of time and of its restarts keeps every
\* variable in its type: the counters of handle_retval never leave the
\* naturals and what load_state and hard_copy restore is a whole hostinfo.
LEMMA TypeStep == TypeOK /\ [Next]_vars => TypeOK'
<1> SUFFICES ASSUME TypeOK, [Next]_vars PROVE TypeOK'
  OBVIOUS
<1> USE DEF TypeOK
<1>n. now \in Nat
  OBVIOUS
<1>z. NewHostinfo \in HostinfoType /\ NoHist \in HistType
  BY DEF NewHostinfo, HostinfoType, NoHist, HistType, Results
<1>1. ASSUME NEW o \in Objects, NEW retval \in Results, NEW m \in MailOutcomes,
             Check(o, retval, m)
      PROVE  TypeOK'
  <2> DEFINE r == HandleRetval(o, obj[o], retval, now, m)
  <2>1. r \in PagingType
    BY SMTT(30), <1>n, HandleRetvalEffect
  <2> HIDE DEF r
  <2>2. r.d \in HostinfoType /\ r.sent \in [{"UP", "DOWN"} -> Nat]
    BY <2>1 DEF PagingType
  <2>3. RecordResult(hist[o], retval, r.sent) \in HistType
    BY <1>n, <2>2, RecordResultType
  <2>4. obj' = [obj EXCEPT ![o] = r.d]
        /\ hist' = [hist EXCEPT ![o] = RecordResult(hist[o], retval, r.sent)]
        /\ UNCHANGED <<now, running, disk, last, boots>>
    BY <1>1 DEF Check, r
  <2> QED BY <2>2, <2>3, <2>4
<1>2. ASSUME NEW o \in Objects, NEW a \in BOOLEAN, SetAcked(o, a)
      PROVE  TypeOK'
  BY SMTT(30), <1>2 DEF SetAcked, HostinfoType
<1>3. ASSUME NEW R \in SUBSET Objects, NEW S \in SUBSET Objects,
             NEW m \in MailOutcomes, DoTreePeriodic(R, S, m)
      PROVE  TypeOK'
  <2> DEFINE d(o) == PeriodicRewalk(o, o \in R)
             r(o) == IF PageInterval # 0 /\ o \in S THEN Reminder(o, d(o), m)
                                                  ELSE [d |-> d(o), sent |-> NoneSent]
  <2>1. ASSUME NEW o \in Objects
        PROVE  r(o).d \in HostinfoType /\ r(o).sent \in [{"UP", "DOWN"} -> Nat]
    <3>1. d(o) \in HostinfoType
      BY SMTT(30) DEF PeriodicRewalk, HostinfoType, Results
    <3> HIDE DEF d
    <3>2. [d |-> d(o), sent |-> NoneSent] \in PagingType
      BY <3>1 DEF PagingType, NoneSent
    <3>3. PageSomeone(o, [d |-> d(o), sent |-> NoneSent], "DOWN", now, m) \in PagingType
      BY <1>n, <3>2, PageSomeoneEffect DEF PagingEffect
    <3>4. Reminder(o, d(o), m) \in PagingType
      BY <3>2, <3>3 DEF Reminder
    <3>5. r(o) \in PagingType
      BY <3>2, <3>4
    <3> QED BY <3>5 DEF PagingType
  <2>2. /\ obj' = [o \in Objects |-> r(o).d]
        /\ hist' = [o \in Objects |-> RecordPages(hist[o], r(o).sent)]
        /\ UNCHANGED <<now, running, disk, last, boots>>
    BY <1>3 DEF DoTreePeriodic
  <2> HIDE DEF r
  <2>3. \A o \in Objects : RecordPages(hist[o], r(o).sent) \in HistType
    BY <1>n, <2>1, RecordPagesType
  <2> QED BY <2>1, <2>2, <2>3
<1>4. ASSUME NEW ok \in WriteOutcomes, CheckpointState(ok)
      PROVE  TypeOK'
  BY SMTT(30), <1>4, <1>n DEF CheckpointState, WriteState
<1>5. ASSUME NEW ok \in WriteOutcomes, StopIt(ok)
      PROVE  TypeOK'
  BY <1>5, <1>n DEF StopIt, WriteState
<1>6. CASE Crash
  BY <1>6 DEF Crash
<1>7. CASE Start
  <2>1. \A o \in Objects : LoadState(o) \in HostinfoType
    BY LoadStateType
  <2>2. \A o \in Objects : [hist[o] EXCEPT !.forgot =
           @ \/ ~SameKnowledge(LoadState(o), obj[o])] \in HistType
    <3>1. ASSUME NEW h \in HistType, NEW b
          PROVE  [h EXCEPT !.forgot = @ \/ ~b] \in HistType
      BY DEF HistType
    <3> QED
      BY <3>1
  <2> QED BY SMTT(30), <1>7, <2>1, <2>2 DEF Start
<1>8. ASSUME NEW S \in SUBSET Objects, Reload(S)
      PROVE  TypeOK'
  <2>1. \A o \in Objects : HardCopy(obj[o]) \in HostinfoType
    BY SMTT(30) DEF HardCopy, HostinfoType
  <2> QED BY SMTT(30), <1>8, <1>z, <2>1 DEF Reload
<1>9. CASE Tick
  BY SMTT(30), <1>9 DEF Tick
<1>10. CASE UNCHANGED vars
  BY <1>10 DEF vars
<1> QED
  BY <1>1, <1>2, <1>3, <1>4, <1>5, <1>6, <1>7, <1>8, <1>9, <1>10 DEF Next

\* Every reachable state is well typed.
THEOREM TypeCorrect == Spec => []TypeOK
<1>1. Init => TypeOK
  BY SMTT(30) DEF Init, TypeOK, NewHostinfo, HostinfoType, NoHist, HistType, Results
<1> QED BY <1>1, TypeStep, PTL DEF Spec

-----------------------------------------------------------------------------
(***************************************************************************)
(* One announcement per outage.  The count of messages is not inductive by *)
(* itself: what keeps it at one is that an announced outage is marked.     *)
(***************************************************************************)

\* An object whose state was not lost was announced at most once in its
\* present outage, and is marked contacted if it was.
AnnouncedOnce(o) ==
  ~hist[o].forgot => /\ hist[o].down <= 1
                     /\ hist[o].down >= 1 => obj[o].contacted

AnnouncedInv == PageInterval = 0 => \A o \in Objects : AnnouncedOnce(o)

\* A check result keeps the inductive invariant: a good one ends the outage,
\* a failing one pages only an unmarked object and marks it.
LEMMA CheckAnnounces ==
  ASSUME TypeOK, NEW o \in Objects, NEW retval \in Results, NEW m,
         Check(o, retval, m), AnnouncedOnce(o)
  PROVE  AnnouncedOnce(o)'
<1> DEFINE r == HandleRetval(o, obj[o], retval, now, m)
<1>1. obj[o] \in HostinfoType /\ now \in Nat /\ hist[o] \in HistType
  BY DEF TypeOK
<1>2. /\ r \in PagingType
      /\ retval # SYSM_OK =>
           /\ obj[o].contacted => r.d.contacted
           /\ r.sent["DOWN"] \in {0, 1}
           /\ r.sent["DOWN"] = 1 => ~obj[o].contacted /\ r.d.contacted
  BY <1>1, HandleRetvalEffect
<1>3. obj'[o] = r.d /\ hist'[o] = RecordResult(hist[o], retval, r.sent)
  BY DEF Check, TypeOK
<1> HIDE DEF r
<1>4. CASE retval = SYSM_OK
  <2>1. hist'[o].down = 0
    BY <1>3, <1>4 DEF RecordResult, NoHist
  <2> QED BY SMTT(30), <2>1 DEF AnnouncedOnce
<1>5. CASE retval # SYSM_OK /\ r.sent["DOWN"] = 0
  <2>1. hist'[o].down = hist[o].down /\ hist'[o].forgot = hist[o].forgot
    BY <1>1, <1>3, <1>5 DEF RecordResult, RecordPages, HistType
  <2> QED BY <1>2, <1>3, <1>5, <2>1 DEF AnnouncedOnce
<1>6. CASE retval # SYSM_OK /\ r.sent["DOWN"] = 1
  <2>1. hist'[o].down = hist[o].down + 1 /\ hist'[o].forgot = hist[o].forgot
    BY SMTT(30), <1>1, <1>3, <1>6 DEF RecordResult, RecordPages, HistType
  <2>2. ~obj[o].contacted /\ obj'[o].contacted
    BY <1>2, <1>3, <1>6
  <2>3. hist[o].down \in Nat
    BY <1>1 DEF HistType
  <2> QED BY SMTT(30), <2>1, <2>2, <2>3 DEF AnnouncedOnce
<1> QED BY <1>2, <1>4, <1>5, <1>6

\* Every step keeps the inductive invariant.
LEMMA AnnouncedStep == TypeOK /\ AnnouncedInv /\ [Next]_vars => AnnouncedInv'
<1> SUFFICES ASSUME TypeOK, AnnouncedInv, [Next]_vars, PageInterval = 0,
                    NEW p \in Objects
             PROVE  AnnouncedOnce(p)'
  BY DEF AnnouncedInv
<1>0. AnnouncedOnce(p)
  BY DEF AnnouncedInv
<1>1. ASSUME NEW o \in Objects, NEW retval \in Results, NEW m \in MailOutcomes,
             Check(o, retval, m)
      PROVE  AnnouncedOnce(p)'
  <2>1. CASE p = o
    BY <1>0, <1>1, <2>1, CheckAnnounces
  <2>2. CASE p # o
    <3>1. obj'[p] = obj[p] /\ hist'[p] = hist[p]
      BY <1>1, <2>2 DEF Check, TypeOK
    <3> QED BY <1>0, <3>1 DEF AnnouncedOnce
  <2> QED BY <2>1, <2>2
<1>2. ASSUME NEW o \in Objects, NEW a \in BOOLEAN, SetAcked(o, a)
      PROVE  AnnouncedOnce(p)'
  <2>1. obj'[p].contacted = obj[p].contacted /\ hist'[p] = hist[p]
    BY <1>2 DEF SetAcked, TypeOK, HostinfoType
  <2> QED BY <1>0, <2>1 DEF AnnouncedOnce
<1>3. ASSUME NEW R \in SUBSET Objects, NEW S \in SUBSET Objects,
             NEW m \in MailOutcomes, DoTreePeriodic(R, S, m)
      PROVE  AnnouncedOnce(p)'
  <2>1. /\ obj'[p] = PeriodicRewalk(p, p \in R)
        /\ hist'[p] = RecordPages(hist[p], NoneSent)
    BY <1>3 DEF DoTreePeriodic
  <2>2. obj'[p].contacted = obj[p].contacted
    BY <2>1 DEF PeriodicRewalk, TypeOK, HostinfoType
  <2>3. hist'[p] = hist[p]
    BY <2>1 DEF RecordPages, NoneSent
  <2> QED BY <1>0, <2>2, <2>3 DEF AnnouncedOnce
<1>4. CASE \/ \E ok \in WriteOutcomes : CheckpointState(ok) \/ StopIt(ok)
           \/ Crash \/ Tick \/ UNCHANGED vars
  <2>1. obj' = obj /\ hist' = hist
    BY <1>4 DEF CheckpointState, StopIt, Crash, Tick, vars
  <2> QED BY <1>0, <2>1 DEF AnnouncedOnce
<1>5. CASE Start
  <2> DEFINE same == SameKnowledge(LoadState(p), obj[p])
  <2>1. /\ obj'[p] = LoadState(p)
        /\ hist'[p] = [hist[p] EXCEPT !.forgot = @ \/ ~same]
    BY <1>5 DEF Start
  <2>2. LoadState(p) \in HostinfoType /\ obj[p] \in HostinfoType
    BY LoadStateType DEF TypeOK
  <2>3. same => LoadState(p).contacted = obj[p].contacted
    BY <2>2 DEF SameKnowledge, HostinfoType
  <2> HIDE DEF same
  <2>4. /\ hist'[p].down = hist[p].down
        /\ ~hist'[p].forgot => ~hist[p].forgot /\ same
    <3>1. hist[p] \in HistType
      BY DEF TypeOK
    <3>2. hist'[p].down = hist[p].down
      BY <2>1, <3>1 DEF HistType
    <3>3. hist'[p].forgot = (hist[p].forgot \/ ~same)
      BY <2>1, <3>1 DEF HistType
    <3> QED
      BY <3>2, <3>3
  <2> QED BY <1>0, <2>1, <2>3, <2>4 DEF AnnouncedOnce
<1>6. ASSUME NEW S \in SUBSET Objects, Reload(S)
      PROVE  AnnouncedOnce(p)'
  <2>1. CASE p \in S
    <3>1. obj'[p].contacted = obj[p].contacted /\ hist'[p] = hist[p]
      BY <1>6, <2>1 DEF Reload, HardCopy, TypeOK, HostinfoType
    <3> QED BY <1>0, <3>1 DEF AnnouncedOnce
  <2>2. CASE p \notin S
    BY SMTT(30), <1>6, <2>2 DEF Reload, NoHist, AnnouncedOnce
  <2> QED BY <2>1, <2>2
<1> QED BY <1>1, <1>2, <1>3, <1>4, <1>5, <1>6 DEF Next

\* Without reminders an outage is announced at most once, through any
\* interleaving of checks, acks, rewalks, checkpoints, stops, crashes,
\* restarts and reloads, unless a restart lost the object's state.
THEOREM AnnouncedAtMostOnce == Spec => []OnePagePerOutage
<1>1. Init => AnnouncedInv
  BY SMTT(30) DEF Init, AnnouncedInv, AnnouncedOnce, NoHist
<1>2. AnnouncedInv => OnePagePerOutage
  BY DEF AnnouncedInv, AnnouncedOnce, OnePagePerOutage
<1> QED BY <1>1, <1>2, AnnouncedStep, TypeCorrect, PTL DEF Spec

-----------------------------------------------------------------------------
(***************************************************************************)
(* What page_someone and handle_retval do, field by field.                 *)
(***************************************************************************)
Wanted(o, newstate) == Donotify /\ newstate \in ContactWhen[o]

\* Nothing in the configuration can ever tell anybody about o: page_someone
\* only marks it.
Silent(o) == "mail" \notin Contact[o] /\ ("spawn" \notin Contact[o] \/ ~Donotify)

\* d becomes e, and n messages are sent, when page_someone is called about a
\* state that is wanted or not: somebody was told (a mail that could not be
\* piped counts as told, and is not sent), the object was only marked, or
\* nothing happened.
PageOutcome(o, d, e, wanted, t, m, n) ==
  \/ /\ wanted /\ Contact[o] # {}
     /\ e.contacted /\ e.lastcontacted = t
     /\ n = 1 \/ (n = 0 /\ m = "nopipe")
  \/ /\ "mail" \notin Contact[o] /\ ~("spawn" \in Contact[o] /\ wanted)
     /\ e.contacted /\ e.lastcontacted = d.lastcontacted /\ n = 0
  \/ /\ "mail" \in Contact[o] /\ ~("spawn" \in Contact[o] /\ wanted)
     /\ ~wanted \/ m = "nopw"
     /\ e.contacted = d.contacted /\ e.lastcontacted = d.lastcontacted /\ n = 0

\* page_someone, with what it leaves alone.
LEMMA PageSomeoneOutcome ==
  ASSUME NEW o \in Objects, NEW r \in PagingType, NEW t \in Nat, NEW m \in MailOutcomes,
         NEW k \in {"UP", "DOWN"}
  PROVE  LET p == PageSomeone(o, r, k, t, m)
         IN  /\ p \in PagingType /\ SameButTold(r.d, p.d)
             /\ PageOutcome(o, r.d, p.d, Wanted(o, k), t, m, p.sent[k] - r.sent[k])
             /\ \A j \in {"UP", "DOWN"} : j # k => p.sent[j] = r.sent[j]
<1> DEFINE told == [r.d EXCEPT !.contacted = TRUE, !.lastcontacted = t]
           mark == [r.d EXCEPT !.contacted = TRUE]
           out  == [r.sent EXCEPT ![k] = @ + 1]
           p    == PageSomeone(o, r, k, t, m)
           spawned == "spawn" \in Contact[o] /\ Wanted(o, k)
<1>1. r.d \in HostinfoType /\ r.sent \in [{"UP", "DOWN"} -> Nat]
  BY DEF PagingType
<1>2. told.contacted /\ told.lastcontacted = t
  BY <1>1 DEF HostinfoType
<1>3. mark.contacted /\ mark.lastcontacted = r.d.lastcontacted
  BY <1>1 DEF HostinfoType
<1>4. out[k] = r.sent[k] + 1 /\ r.sent[k] \in Nat
      /\ \A j \in {"UP", "DOWN"} : j # k => out[j] = r.sent[j]
  BY <1>1
<1>5. p \in PagingType /\ SameButTold(r.d, p.d)
  BY PageSomeoneEffect DEF PagingEffect
<1>6. m \in {"sent", "nopw", "nopipe"} /\ Contact[o] \subseteq {"mail", "spawn"}
  BY ConfigAssumption
<1>7. \/ spawned /\ p = [d |-> told, sent |-> out]
      \/ ~spawned /\ "mail" \notin Contact[o] /\ p = [d |-> mark, sent |-> r.sent]
      \/ /\ ~spawned /\ "mail" \in Contact[o] /\ Wanted(o, k) /\ m # "nopw"
         /\ p = [d |-> told, sent |-> IF m = "sent" THEN out ELSE r.sent]
      \/ /\ ~spawned /\ "mail" \in Contact[o] /\ (~Wanted(o, k) \/ m = "nopw")
         /\ p = r
  BY DEF PageSomeone, Wanted
<1> HIDE DEF told, mark, out, p
<1>8. PageOutcome(o, r.d, p.d, Wanted(o, k), t, m, p.sent[k] - r.sent[k])
  <2>1. CASE spawned /\ p = [d |-> told, sent |-> out]
    <3>1. p.d = told /\ p.sent[k] - r.sent[k] = 1 /\ Contact[o] # {}
      BY SMTT(30), <1>4, <2>1
    <3> QED
      BY <1>2, <2>1, <3>1 DEF PageOutcome
  <2>2. CASE ~spawned /\ "mail" \notin Contact[o] /\ p = [d |-> mark, sent |-> r.sent]
    <3>1. p.d = mark /\ p.sent[k] - r.sent[k] = 0
      BY SMTT(30), <1>4, <2>2
    <3> QED
      BY <1>3, <2>2, <3>1 DEF PageOutcome
  <2>3. CASE /\ ~spawned /\ "mail" \in Contact[o] /\ Wanted(o, k) /\ m # "nopw"
             /\ p = [d |-> told, sent |-> IF m = "sent" THEN out ELSE r.sent]
    <3>1. p.d = told /\ Contact[o] # {}
      BY <2>3
    <3>2. p.sent[k] - r.sent[k] = 1 \/ (p.sent[k] - r.sent[k] = 0 /\ m = "nopipe")
      BY SMTT(30), <1>4, <1>6, <2>3
    <3> QED
      BY <1>2, <2>3, <3>1, <3>2 DEF PageOutcome
  <2>4. CASE /\ ~spawned /\ "mail" \in Contact[o] /\ (~Wanted(o, k) \/ m = "nopw")
             /\ p = r
    <3>1. p.d = r.d /\ p.sent[k] - r.sent[k] = 0
      BY SMTT(30), <1>4, <2>4
    <3> QED
      BY <2>4, <3>1 DEF PageOutcome
  <2> QED
    BY <1>7, <2>1, <2>2, <2>3, <2>4
<1>9. \A j \in {"UP", "DOWN"} : j # k => p.sent[j] = r.sent[j]
  BY SMTT(30), <1>4, <1>7
<1> QED
  BY <1>5, <1>8, <1>9 DEF p

\* A failing result that is due for a page, or not, after d failed with
\* retval again or anew.
FailCount(d, retval) == IF d.lastcheck = retval THEN d.downct + 1 ELSE 1

PageDue(o, d, retval) ==
  /\ FailCount(d, retval) >= MaxDown[o]
  /\ ~d.contacted /\ "DOWN" \in ContactWhen[o]

\* handle_retval with a failing result: the count, the kind and the time of
\* death, and one call of page_someone when it is due.
LEMMA FailingResult ==
  ASSUME NEW o \in Objects, NEW d \in HostinfoType, NEW retval \in Failures,
         NEW t \in Nat, NEW m \in MailOutcomes
  PROVE  LET p == HandleRetval(o, d, retval, t, m)
             e == p.d
         IN  /\ e.lastcheck = retval
             /\ e.downct = FailCount(d, retval)
             /\ e.deathtime = IF \/ d.lastcheck = retval
                                 \/ d.lastcheck # SYSM_OK /\ d.deathtime # 0
                                THEN d.deathtime ELSE t
             /\ PageDue(o, d, retval) =>
                  PageOutcome(o, d, e, Wanted(o, "DOWN"), t, m, p.sent["DOWN"])
             /\ ~PageDue(o, d, retval) =>
                  e.contacted = d.contacted /\ e.lastcontacted = d.lastcontacted
                  /\ p.sent["DOWN"] = 0
             /\ p.sent["UP"] = 0
<1> DEFINE q  == [d EXCEPT !.next_queuetime = t + QueueTime]
           dead == IF d.lastcheck = SYSM_OK \/ d.deathtime = 0 THEN t ELSE d.deathtime
           c1 == [q EXCEPT !.downct = @ + 1]
           c2 == [q EXCEPT !.upct = 0, !.lastcheck = retval, !.downct = 1,
                           !.deathtime = dead]
           c  == IF d.lastcheck = retval THEN c1 ELSE c2
           r  == [d |-> c, sent |-> NoneSent]
           p  == HandleRetval(o, d, retval, t, m)
<1>1. retval # SYSM_OK /\ retval \in Results /\ QueueTime \in Nat
  BY ConfigAssumption DEF Results
<1>2. q \in HostinfoType /\ q.lastcheck = d.lastcheck /\ q.downct = d.downct
      /\ q.contacted = d.contacted /\ q.lastcontacted = d.lastcontacted
      /\ q.deathtime = d.deathtime
  BY SMTT(30), <1>1 DEF HostinfoType
<1> DEFINE r0 == [d |-> q, sent |-> NoneSent]
<1>3. p = StateChanged(o, StillDown(o, r0, retval, t, m), retval, t, m)
  BY <1>1 DEF HandleRetval, Recovery, CameUp
<1>4. r0.d = q /\ r0.sent = NoneSent
  OBVIOUS
<1> HIDE DEF q
<1>5. dead \in Nat
  BY DEF HostinfoType
<1>6. c \in HostinfoType
  <2>1. q.downct + 1 \in Nat
    BY SMTT(30), <1>2 DEF HostinfoType
  <2>2. c1 \in HostinfoType
    BY <1>2, <2>1 DEF HostinfoType
  <2> HIDE DEF dead
  <2>3. c2 \in HostinfoType
    BY <1>1, <1>2, <1>5 DEF HostinfoType
  <2> QED
    BY <2>2, <2>3
<1>7. /\ c.lastcheck = retval /\ c.downct = FailCount(d, retval)
      /\ c.contacted = d.contacted /\ c.lastcontacted = d.lastcontacted
      /\ c.deathtime = IF d.lastcheck = retval THEN d.deathtime ELSE dead
  BY <1>2 DEF HostinfoType, FailCount
<1> HIDE DEF c, dead
<1>8. r \in PagingType /\ r.d = c /\ r.sent["UP"] = 0 /\ r.sent["DOWN"] = 0
  BY <1>6 DEF PagingType, NoneSent
<1>9. p = PageIfDownLongEnough(o, r, t, m)
  <2>1. CASE d.lastcheck = retval
    <3>1. [r0 EXCEPT !.d.downct = @ + 1] = r
      BY SMTT(30), <1>4, <2>1 DEF c
    <3>2. StillDown(o, r0, retval, t, m) = PageIfDownLongEnough(o, r, t, m)
      BY <1>1, <1>2, <1>4, <2>1, <3>1 DEF StillDown
    <3>3. PagingEffect(r, PageIfDownLongEnough(o, r, t, m), "DOWN")
      BY <1>8, PageIfDownLongEnoughEffect
    <3>4. PageIfDownLongEnough(o, r, t, m).d.lastcheck = retval
      BY <1>7, <1>8, <3>3 DEF PagingEffect, SameButTold
    <3> QED
      BY <1>3, <3>2, <3>4 DEF StateChanged
  <2>2. CASE d.lastcheck # retval
    <3>1. StillDown(o, r0, retval, t, m) = r0
      BY <1>2, <1>4, <2>2 DEF StillDown
    <3> DEFINE dead0 == IF r0.d.lastcheck = SYSM_OK \/ r0.d.deathtime = 0
                          THEN t ELSE r0.d.deathtime
               n == [r0 EXCEPT !.d.upct = 0, !.d.lastcheck = retval, !.d.downct = 1,
                               !.d.deathtime = dead0]
    <3>2. r0.d.lastcheck # retval
      BY <1>2, <1>4, <2>2
    <3> HIDE DEF r0
    <3>3. StateChanged(o, r0, retval, t, m) = PageIfDownLongEnough(o, n, t, m)
      BY <1>1, <3>2, Zenon DEF StateChanged
    <3>4. dead0 = dead
      BY <1>2, <1>4 DEF dead
    <3> HIDE DEF dead0
    <3>5. n = r
      <4> DEFINE n1 == [r0 EXCEPT !.d.upct = 0]
                 n2 == [n1 EXCEPT !.d.lastcheck = retval]
                 n3 == [n2 EXCEPT !.d.downct = 1]
                 n4 == [n3 EXCEPT !.d.deathtime = dead0]
                 e1 == [q EXCEPT !.upct = 0]
                 e2 == [e1 EXCEPT !.lastcheck = retval]
                 e3 == [e2 EXCEPT !.downct = 1]
                 e4 == [e3 EXCEPT !.deathtime = dead]
      <4>0. n = n4 /\ c2 = e4
        OBVIOUS
      <4>1. n1 = [d |-> e1, sent |-> NoneSent]
        BY SMTT(30) DEF r0
      <4> HIDE DEF n1, e1
      <4>2. n2 = [d |-> e2, sent |-> NoneSent]
        BY SMTT(30), <4>1
      <4> HIDE DEF n2, e2
      <4>3. n3 = [d |-> e3, sent |-> NoneSent]
        BY SMTT(30), <4>2
      <4> HIDE DEF n3, e3
      <4>4. n4 = [d |-> e4, sent |-> NoneSent]
        BY SMTT(30), <4>3, <3>4
      <4> QED
        BY <2>2, <4>0, <4>4 DEF c
    <3> QED
      BY <1>3, <3>1, <3>3, <3>5
  <2> QED
    BY <2>1, <2>2
<1> HIDE DEF r
<1>10. CASE PageDue(o, d, retval)
  <2>1. p = PageSomeone(o, r, "DOWN", t, m)
    BY <1>7, <1>8, <1>9, <1>10 DEF PageIfDownLongEnough, PageDue
  <2>2. /\ SameButTold(r.d, p.d)
        /\ PageOutcome(o, r.d, p.d, Wanted(o, "DOWN"), t, m, p.sent["DOWN"] - r.sent["DOWN"])
        /\ p.sent["UP"] = r.sent["UP"] /\ p \in PagingType
    BY SMTT(30), <1>8, <2>1, PageSomeoneOutcome
  <2>3. p.sent["DOWN"] - r.sent["DOWN"] = p.sent["DOWN"]
    BY SMTT(30), <1>8, <2>2 DEF PagingType
  <2>4. PageOutcome(o, d, p.d, Wanted(o, "DOWN"), t, m, p.sent["DOWN"])
    BY <1>7, <1>8, <2>2, <2>3 DEF PageOutcome
  <2> HIDE DEF p
  <2>5. /\ p.d.lastcheck = retval
        /\ p.d.downct = FailCount(d, retval)
        /\ p.d.deathtime = c.deathtime
    BY <1>7, <1>8, <2>2 DEF SameButTold
  <2> QED
    BY <1>7, <1>8, <1>10, <2>2, <2>4, <2>5 DEF p, dead
<1>11. CASE ~PageDue(o, d, retval)
  <2>1. p = r
    BY <1>7, <1>8, <1>9, <1>11 DEF PageIfDownLongEnough, PageDue
  <2> HIDE DEF p
  <2> QED
    BY <1>7, <1>8, <1>11, <2>1 DEF p, dead
<1> QED
  BY <1>10, <1>11

\* The recovery branch on a good result: it unmarks, and says so to the people
\* who want to hear of it, only an object that was marked and down.
LEMMA RecoveryGood ==
  ASSUME NEW o \in Objects, NEW r \in PagingType, NEW t \in Nat, NEW m \in MailOutcomes,
         r.sent = NoneSent
  PROVE  LET p == Recovery(o, r, SYSM_OK, t, m)
         IN  /\ p \in PagingType
             /\ p.d.contacted = (r.d.contacted /\ r.d.lastcheck = SYSM_OK)
             /\ p.d.contacted \/ Silent(o) => p.d.lastcontacted = r.d.lastcontacted
             /\ p.sent["DOWN"] = 0 /\ p.sent["UP"] \in {0, 1}
             /\ p.sent["UP"] = 1 =>
                  r.d.contacted /\ r.d.lastcheck # SYSM_OK /\ Donotify /\ Contact[o] # {}
<1> DEFINE up == [r EXCEPT !.d.lastcheck = SYSM_OK]
           q  == PageSomeone(o, up, "UP", t, m)
           p  == Recovery(o, r, SYSM_OK, t, m)
<1>0. r.d \in HostinfoType /\ r.sent \in [{"UP", "DOWN"} -> Nat]
      /\ r.sent["UP"] = 0 /\ r.sent["DOWN"] = 0
  BY DEF PagingType, NoneSent
<1>1. up \in PagingType /\ up.d.lastcontacted = r.d.lastcontacted /\ up.sent = r.sent
  BY DEF PagingType, HostinfoType, Results
<1>2. CASE ~(r.d.contacted /\ r.d.lastcheck # SYSM_OK)
  <2>1. p = r
    BY <1>2 DEF Recovery
  <2>2. p.d.contacted = (r.d.contacted /\ r.d.lastcheck = SYSM_OK)
    BY <1>0, <1>2, <2>1 DEF HostinfoType
  <2> HIDE DEF p
  <2> QED
    BY SMTT(30), <1>0, <2>1, <2>2 DEF p
<1>3. CASE r.d.contacted /\ r.d.lastcheck # SYSM_OK /\ Wanted(o, "UP")
  <2>1. p = [q EXCEPT !.d.contacted = FALSE]
    BY <1>3 DEF Recovery, Wanted
  <2> HIDE DEF up
  <2>2. /\ q \in PagingType
        /\ PageOutcome(o, up.d, q.d, Wanted(o, "UP"), t, m, q.sent["UP"] - up.sent["UP"])
        /\ q.sent["DOWN"] = up.sent["DOWN"]
    BY SMTT(30), <1>1, PageSomeoneOutcome
  <2> HIDE DEF q
  <2>3. p \in PagingType /\ p.d.contacted = FALSE
        /\ p.d.lastcontacted = q.d.lastcontacted /\ p.sent = q.sent
    <3>1. q \in PagingType /\ q.d \in HostinfoType
      BY <2>2 DEF PagingType
    <3> DEFINE g == [q.d EXCEPT !.contacted = FALSE]
    <3>2. p = [q EXCEPT !.d = g]
      BY <2>1
    <3>3. /\ g \in HostinfoType /\ g.contacted = FALSE
          /\ g.lastcontacted = q.d.lastcontacted
      BY <3>1 DEF HostinfoType
    <3> HIDE DEF g
    <3>4. p.d = g /\ p.sent = q.sent
      BY <3>1, <3>2 DEF PagingType
    <3>5. p \in PagingType
      BY <3>1, <3>2, <3>3 DEF PagingType
    <3> QED
      BY <3>3, <3>4, <3>5
  <2> HIDE DEF p
  <2>4. q.sent["UP"] - up.sent["UP"] = q.sent["UP"]
    BY SMTT(30), <1>0, <1>1, <2>2 DEF PagingType
  <2>5. PageOutcome(o, up.d, q.d, Wanted(o, "UP"), t, m, q.sent["UP"])
    BY <2>2, <2>4
  <2>6. p.sent["UP"] \in {0, 1} /\ p.sent["DOWN"] = 0
    BY <1>0, <1>1, <2>2, <2>3, <2>5 DEF PageOutcome
  <2>7. p.sent["UP"] = 1 => Contact[o] # {}
    BY SMTT(30), <2>3, <2>5 DEF PageOutcome
  <2>8. Silent(o) => p.d.lastcontacted = r.d.lastcontacted
    BY SMTT(30), <1>1, <1>3, <2>3, <2>5, ConfigAssumption DEF PageOutcome, Silent, Wanted
  <2> QED
    BY <1>3, <2>3, <2>6, <2>7, <2>8 DEF p, Wanted
<1>4. CASE r.d.contacted /\ r.d.lastcheck # SYSM_OK /\ ~Wanted(o, "UP")
  <2>1. p = [up EXCEPT !.d.contacted = FALSE]
    BY <1>4 DEF Recovery, Wanted
  <2> HIDE DEF up
  <2>2. p \in PagingType /\ p.d.contacted = FALSE
        /\ p.d.lastcontacted = up.d.lastcontacted /\ p.sent = up.sent
    <3>1. up \in PagingType /\ up.d \in HostinfoType
      BY <1>1 DEF PagingType
    <3> DEFINE g == [up.d EXCEPT !.contacted = FALSE]
    <3>2. p = [up EXCEPT !.d = g]
      BY <2>1
    <3>3. /\ g \in HostinfoType /\ g.contacted = FALSE
          /\ g.lastcontacted = up.d.lastcontacted
      BY <3>1 DEF HostinfoType
    <3> HIDE DEF g
    <3>4. p.d = g /\ p.sent = up.sent
      BY <3>1, <3>2 DEF PagingType
    <3>5. p \in PagingType
      BY <3>1, <3>2, <3>3 DEF PagingType
    <3> QED
      BY <3>3, <3>4, <3>5
  <2> HIDE DEF p
  <2>3. p.d.contacted = (r.d.contacted /\ r.d.lastcheck = SYSM_OK)
    BY <1>4, <2>2
  <2>4. p.sent["UP"] = 0 /\ p.sent["DOWN"] = 0
    BY <1>0, <1>1, <2>2
  <2> QED
    BY SMTT(30), <1>1, <2>2, <2>3, <2>4 DEF p
<1> QED
  BY <1>2, <1>3, <1>4

\* The last block on a good result: only an object whose contact wants to hear
\* of recoveries and nothing else is paged here.
LEMMA CameUpGood ==
  ASSUME NEW o \in Objects, NEW r \in PagingType, NEW t \in Nat, NEW m \in MailOutcomes
  PROVE  LET p == CameUp(o, r, SYSM_OK, t, m)
         IN  /\ p \in PagingType
             /\ p.d.lastcheck = r.d.lastcheck
             /\ p.sent["DOWN"] = r.sent["DOWN"]
             /\ ContactWhen[o] # {"UP"} => p.sent = r.sent
             /\ Silent(o) => p.d.lastcontacted = r.d.lastcontacted
             /\ p.d.contacted =>
                  \/ r.d.contacted /\ p.d.lastcontacted = r.d.lastcontacted
                  \/ ContactWhen[o] = {"UP"} /\ (p.d.lastcontacted = t \/ Silent(o))
<1> DEFINE up == [r EXCEPT !.d.upct = @ + 1, !.d.downct = 0, !.d.acked = FALSE]
           q  == PageSomeone(o, up, "UP", t, m)
           p  == CameUp(o, r, SYSM_OK, t, m)
<1>0. r.d.upct \in Nat /\ r.d.upct + 1 \in Nat
  BY SMTT(30) DEF PagingType, HostinfoType
<1>1. /\ up \in PagingType /\ up.sent = r.sent
      /\ up.d.contacted = r.d.contacted /\ up.d.lastcontacted = r.d.lastcontacted
      /\ up.d.lastcheck = r.d.lastcheck
  BY <1>0 DEF PagingType, HostinfoType
<1>2. \/ p = up
      \/ ~up.d.contacted /\ ContactWhen[o] = {"UP"} /\ p = q
  BY DEF CameUp
<1> HIDE DEF up
<1>3. /\ q \in PagingType /\ SameButTold(up.d, q.d)
      /\ PageOutcome(o, up.d, q.d, Wanted(o, "UP"), t, m, q.sent["UP"] - up.sent["UP"])
      /\ q.sent["DOWN"] = up.sent["DOWN"]
  BY SMTT(30), <1>1, PageSomeoneOutcome
<1> HIDE DEF q, p
<1>4. CASE p = up
  BY <1>1, <1>4 DEF p
<1>5. CASE ~up.d.contacted /\ ContactWhen[o] = {"UP"} /\ p = q
  <2>1. Silent(o) => p.d.lastcontacted = r.d.lastcontacted
    BY SMTT(30), <1>1, <1>3, <1>5, ConfigAssumption DEF PageOutcome, Silent, Wanted
  <2>2. p.d.contacted => p.d.lastcontacted = t \/ Silent(o)
    BY <1>3, <1>5 DEF PageOutcome, Silent, Wanted
  <2> QED
    BY <1>1, <1>3, <1>5, <2>1, <2>2 DEF p, SameButTold
<1> QED
  BY <1>2, <1>4, <1>5

\* handle_retval with a good result.
LEMMA GoodResult ==
  ASSUME NEW o \in Objects, NEW d \in HostinfoType, NEW t \in Nat, NEW m \in MailOutcomes
  PROVE  LET p == HandleRetval(o, d, SYSM_OK, t, m)
             e == p.d
         IN  /\ e.lastcheck = SYSM_OK
             /\ p.sent["DOWN"] = 0
             /\ Silent(o) => e.lastcontacted = d.lastcontacted
             /\ e.contacted =>
                  \/ /\ d.contacted /\ d.lastcheck = SYSM_OK
                     /\ e.lastcontacted = d.lastcontacted
                  \/ ContactWhen[o] = {"UP"} /\ (e.lastcontacted = t \/ Silent(o))
             /\ ContactWhen[o] # {"UP"} =>
                  /\ p.sent["UP"] \in {0, 1}
                  /\ p.sent["UP"] = 1 => /\ d.contacted /\ d.lastcheck # SYSM_OK
                                         /\ Donotify /\ Contact[o] # {}
<1> DEFINE q  == [d EXCEPT !.next_queuetime = t + QueueTime]
           r0 == [d |-> q, sent |-> NoneSent]
           r1 == Recovery(o, r0, SYSM_OK, t, m)
           r3 == StateChanged(o, r1, SYSM_OK, t, m)
           p  == HandleRetval(o, d, SYSM_OK, t, m)
<1>1. p = CameUp(o, r3, SYSM_OK, t, m)
  BY DEF HandleRetval, StillDown
<1>2. q \in HostinfoType /\ q.lastcheck = d.lastcheck
      /\ q.contacted = d.contacted /\ q.lastcontacted = d.lastcontacted
  BY SMTT(30), ConfigAssumption DEF HostinfoType
<1> HIDE DEF q
<1>3. r0 \in PagingType /\ r0.sent = NoneSent /\ r0.d = q
  BY <1>2 DEF PagingType, NoneSent
<1> HIDE DEF r0
<1>4. /\ r1 \in PagingType
      /\ r1.d.contacted = (d.contacted /\ d.lastcheck = SYSM_OK)
      /\ r1.d.contacted \/ Silent(o) => r1.d.lastcontacted = d.lastcontacted
      /\ r1.sent["DOWN"] = 0 /\ r1.sent["UP"] \in {0, 1}
      /\ r1.sent["UP"] = 1 =>
           d.contacted /\ d.lastcheck # SYSM_OK /\ Donotify /\ Contact[o] # {}
  BY SMTT(30), <1>2, <1>3, RecoveryGood
<1> HIDE DEF r1
<1>5. /\ r3 \in PagingType /\ r3.sent = r1.sent /\ r3.d.lastcheck = SYSM_OK
      /\ r3.d.contacted = r1.d.contacted /\ r3.d.lastcontacted = r1.d.lastcontacted
  <2> DEFINE n == [r1 EXCEPT !.d.upct = 0, !.d.lastcheck = SYSM_OK, !.d.downct = 0]
  <2>1. \/ r3 = r1 /\ r1.d.lastcheck = SYSM_OK
        \/ r3 = n
    BY DEF StateChanged
  <2>2. /\ n \in PagingType /\ n.sent = r1.sent /\ n.d.lastcheck = SYSM_OK
        /\ n.d.contacted = r1.d.contacted /\ n.d.lastcontacted = r1.d.lastcontacted
    <3> DEFINE g == [r1.d EXCEPT !.upct = 0, !.lastcheck = SYSM_OK, !.downct = 0]
    <3>1. r1 \in PagingType /\ r1.d \in HostinfoType
      BY <1>4 DEF PagingType
    <3>2. g \in HostinfoType
      BY <3>1 DEF HostinfoType, Results
    <3>3. /\ g.lastcheck = SYSM_OK /\ g.contacted = r1.d.contacted
          /\ g.lastcontacted = r1.d.lastcontacted
      BY <3>1 DEF HostinfoType
    <3>4. n = [r1 EXCEPT !.d = g]
      BY <3>1 DEF PagingType, HostinfoType
    <3> HIDE DEF n, g
    <3>5. n \in PagingType /\ n.d = g /\ n.sent = r1.sent
      BY <3>1, <3>2, <3>4 DEF PagingType
    <3> QED
      BY <3>3, <3>5
  <2> HIDE DEF n, r3
  <2> QED
    BY <1>4, <2>1, <2>2
<1> HIDE DEF r3
<1>6. /\ p.d.lastcheck = r3.d.lastcheck
      /\ p.sent["DOWN"] = r3.sent["DOWN"]
      /\ ContactWhen[o] # {"UP"} => p.sent = r3.sent
      /\ Silent(o) => p.d.lastcontacted = r3.d.lastcontacted
      /\ p.d.contacted =>
           \/ r3.d.contacted /\ p.d.lastcontacted = r3.d.lastcontacted
           \/ ContactWhen[o] = {"UP"} /\ (p.d.lastcontacted = t \/ Silent(o))
  BY SMTT(30), <1>1, <1>5, CameUpGood
<1> HIDE DEF p
<1>7. Silent(o) => p.d.lastcontacted = d.lastcontacted
  BY <1>4, <1>5, <1>6
<1>8. p.d.contacted =>
        \/ d.contacted /\ d.lastcheck = SYSM_OK /\ p.d.lastcontacted = d.lastcontacted
        \/ ContactWhen[o] = {"UP"} /\ (p.d.lastcontacted = t \/ Silent(o))
  BY <1>4, <1>5, <1>6
<1>9. ContactWhen[o] # {"UP"} =>
        /\ p.sent["UP"] \in {0, 1}
        /\ p.sent["UP"] = 1 => /\ d.contacted /\ d.lastcheck # SYSM_OK
                               /\ Donotify /\ Contact[o] # {}
  BY <1>4, <1>5, <1>6
<1> QED
  BY <1>4, <1>5, <1>6, <1>7, <1>8, <1>9 DEF p

-----------------------------------------------------------------------------
(***************************************************************************)
(* What one step of the daemon does to one object: it failed, it was found *)
(* up, it was reminded of, it was loaded, it was parsed afresh, or it was  *)
(* left alone.                                                             *)
(***************************************************************************)
\* DOWN messages about o in this step.
Downs(o) == hist'[o].down - hist[o].down

Failed(o) ==
  \E retval \in Failures, m \in MailOutcomes :
    /\ obj'[o].lastcheck = retval
    /\ obj'[o].downct = FailCount(obj[o], retval)
    /\ obj'[o].deathtime = IF \/ obj[o].lastcheck = retval
                              \/ obj[o].lastcheck # SYSM_OK /\ obj[o].deathtime # 0
                             THEN obj[o].deathtime ELSE now
    /\ PageDue(o, obj[o], retval) =>
         PageOutcome(o, obj[o], obj'[o], Wanted(o, "DOWN"), now, m, Downs(o))
    /\ ~PageDue(o, obj[o], retval) =>
         /\ obj'[o].contacted = obj[o].contacted
         /\ obj'[o].lastcontacted = obj[o].lastcontacted
         /\ Downs(o) = 0
    /\ hist'[o].fails = hist[o].fails + 1 /\ hist'[o].up = 0
    /\ hist'[o].forgot = hist[o].forgot
    /\ hist'[o].downat = IF Downs(o) = 0 THEN hist[o].downat ELSE now
    /\ UNCHANGED <<now, running, disk, last>> /\ running

FoundUp(o) ==
  /\ obj'[o].lastcheck = SYSM_OK
  /\ Silent(o) => obj'[o].lastcontacted = obj[o].lastcontacted
  /\ obj'[o].contacted =>
       \/ /\ obj[o].contacted /\ obj[o].lastcheck = SYSM_OK
          /\ obj'[o].lastcontacted = obj[o].lastcontacted
       \/ ContactWhen[o] = {"UP"} /\ (obj'[o].lastcontacted = now \/ Silent(o))
  /\ ContactWhen[o] # {"UP"} /\ hist'[o].up > hist[o].up =>
       /\ obj[o].contacted /\ obj[o].lastcheck # SYSM_OK
       /\ Donotify /\ Contact[o] # {}
       /\ hist'[o].up = hist[o].up + 1
  /\ hist'[o].fails = 0 /\ hist'[o].down = 0 /\ hist'[o].downat = 0
  /\ hist'[o].forgot = FALSE
  /\ UNCHANGED <<now, running, disk, last>> /\ running

\* periodic_rewalk may have taken a name that did not resolve for up.
Rewalked(o) ==
  \/ obj'[o].lastcheck = obj[o].lastcheck
  \/ obj[o].lastcheck = SYSM_NODNS /\ obj'[o].lastcheck = SYSM_OK

Reminded(o) ==
  \E m \in MailOutcomes :
    /\ PageInterval # 0
    /\ obj[o].contacted /\ now - obj[o].lastcontacted > EffectivePageInterval(o)
    /\ PageOutcome(o, obj[o], obj'[o], Wanted(o, "DOWN"), now, m, Downs(o))
    /\ Rewalked(o)
    /\ obj'[o].downct = obj[o].downct /\ obj'[o].deathtime = obj[o].deathtime
    /\ hist'[o].fails = hist[o].fails /\ hist'[o].up = hist[o].up
    /\ hist'[o].forgot = hist[o].forgot
    /\ hist'[o].downat = IF Downs(o) = 0 THEN hist[o].downat ELSE now
    /\ UNCHANGED <<now, running, disk, last>> /\ running

LeftAlone(o) ==
  /\ Rewalked(o)
  /\ obj'[o].downct = obj[o].downct /\ obj'[o].deathtime = obj[o].deathtime
  /\ obj'[o].contacted = obj[o].contacted
  /\ obj'[o].lastcontacted = obj[o].lastcontacted
  /\ hist'[o] = hist[o]

\* load_state: what it restores is what was known, or the object is marked as
\* forgotten.
Loaded(o) ==
  /\ ~running /\ last' = 0 /\ UNCHANGED <<now, disk>>
  /\ obj'[o] = LoadState(o)
  /\ hist'[o].fails = hist[o].fails /\ hist'[o].up = hist[o].up
  /\ hist'[o].down = hist[o].down /\ hist'[o].downat = hist[o].downat
  /\ ~hist'[o].forgot =>
       /\ ~hist[o].forgot
       /\ obj'[o].lastcheck = obj[o].lastcheck
       /\ obj'[o].downct = obj[o].downct /\ obj'[o].deathtime = obj[o].deathtime
       /\ obj'[o].contacted = obj[o].contacted
       /\ obj'[o].lastcontacted = obj[o].lastcontacted

Afresh(o) ==
  /\ obj'[o] = NewHostinfo /\ hist'[o] = NoHist
  /\ UNCHANGED <<now, running, disk, last>> /\ running

ObjectStep(o) ==
  Failed(o) \/ FoundUp(o) \/ Reminded(o) \/ LeftAlone(o) \/ Loaded(o) \/ Afresh(o)

\* A check of o makes one of the first two.
LEMMA CheckIsObjectStep ==
  ASSUME TypeOK, NEW o \in Objects, NEW retval \in Results, NEW m \in MailOutcomes,
         Check(o, retval, m)
  PROVE  Failed(o) \/ FoundUp(o)
<1> DEFINE r == HandleRetval(o, obj[o], retval, now, m)
<1>1. obj[o] \in HostinfoType /\ now \in Nat /\ hist[o] \in HistType
  BY DEF TypeOK
<1>2. r \in PagingType
  BY <1>1, HandleRetvalEffect
<1>3. /\ obj'[o] = r.d /\ hist'[o] = RecordResult(hist[o], retval, r.sent)
      /\ UNCHANGED <<now, running, disk, last>> /\ running
  BY DEF Check, TypeOK
<1>4. CASE retval = SYSM_OK
  <2>1. /\ r.d.lastcheck = SYSM_OK
        /\ Silent(o) => r.d.lastcontacted = obj[o].lastcontacted
        /\ r.d.contacted =>
             \/ /\ obj[o].contacted /\ obj[o].lastcheck = SYSM_OK
                /\ r.d.lastcontacted = obj[o].lastcontacted
             \/ ContactWhen[o] = {"UP"} /\ (r.d.lastcontacted = now \/ Silent(o))
        /\ ContactWhen[o] # {"UP"} =>
             /\ r.sent["UP"] \in {0, 1}
             /\ r.sent["UP"] = 1 => /\ obj[o].contacted /\ obj[o].lastcheck # SYSM_OK
                                    /\ Donotify /\ Contact[o] # {}
    BY SMTT(30), <1>1, <1>4, GoodResult
  <2> HIDE DEF r
  <2>2. /\ hist'[o].fails = 0 /\ hist'[o].down = 0 /\ hist'[o].downat = 0
        /\ hist'[o].forgot = FALSE /\ hist'[o].up = hist[o].up + r.sent["UP"]
    BY <1>3, <1>4 DEF RecordResult, NoHist
  <2>3. hist[o].up \in Nat /\ r.sent["UP"] \in Nat
    BY <1>1, <1>2 DEF HistType, PagingType
  <2>4. hist'[o].up > hist[o].up /\ r.sent["UP"] \in {0, 1} => r.sent["UP"] = 1
    BY SMTT(30), <2>2, <2>3
  <2>5. ContactWhen[o] # {"UP"} /\ hist'[o].up > hist[o].up =>
          /\ obj[o].contacted /\ obj[o].lastcheck # SYSM_OK
          /\ Donotify /\ Contact[o] # {}
          /\ hist'[o].up = hist[o].up + 1
    BY <2>1, <2>2, <2>4
  <2> QED
    BY <1>3, <2>1, <2>2, <2>5 DEF FoundUp
<1>5. CASE retval \in Failures
  <2>1. /\ r.d.lastcheck = retval
        /\ r.d.downct = FailCount(obj[o], retval)
        /\ r.d.deathtime = IF \/ obj[o].lastcheck = retval
                              \/ obj[o].lastcheck # SYSM_OK /\ obj[o].deathtime # 0
                             THEN obj[o].deathtime ELSE now
        /\ PageDue(o, obj[o], retval) =>
             PageOutcome(o, obj[o], r.d, Wanted(o, "DOWN"), now, m, r.sent["DOWN"])
        /\ ~PageDue(o, obj[o], retval) =>
             r.d.contacted = obj[o].contacted /\ r.d.lastcontacted = obj[o].lastcontacted
             /\ r.sent["DOWN"] = 0
    BY SMTT(30), <1>1, <1>5, FailingResult
  <2> HIDE DEF r
  <2>2. retval # SYSM_OK /\ r.sent["DOWN"] \in Nat
    BY <1>2, <1>5, ConfigAssumption DEF PagingType
  <2>3. /\ hist'[o].fails = hist[o].fails + 1 /\ hist'[o].up = 0
        /\ hist'[o].forgot = hist[o].forgot
        /\ hist'[o].down = hist[o].down + r.sent["DOWN"]
        /\ hist'[o].downat = IF r.sent["DOWN"] = 0 THEN hist[o].downat ELSE now
    BY SMTT(30), <1>1, <1>3, <2>2 DEF RecordResult, RecordPages, HistType
  <2>4. Downs(o) = r.sent["DOWN"]
    BY SMTT(30), <1>1, <2>2, <2>3 DEF Downs, HistType
  <2> QED
    BY SMTT(30), <1>3, <1>5, <2>1, <2>3, <2>4 DEF Failed
<1> QED
  BY <1>4, <1>5 DEF Results

\* The minute's rewalk and reminders.
LEMMA PeriodicIsObjectStep ==
  ASSUME TypeOK, NEW o \in Objects, NEW R \in SUBSET Objects, NEW S \in SUBSET Objects,
         NEW m \in MailOutcomes, DoTreePeriodic(R, S, m)
  PROVE  Reminded(o) \/ LeftAlone(o)
<1> DEFINE d == PeriodicRewalk(o, o \in R)
           r == IF PageInterval # 0 /\ o \in S THEN Reminder(o, d, m)
                                               ELSE [d |-> d, sent |-> NoneSent]
           q == [d |-> d, sent |-> NoneSent]
<1>1. obj[o] \in HostinfoType /\ now \in Nat /\ hist[o] \in HistType
  BY DEF TypeOK
<1>2. /\ d \in HostinfoType /\ d.downct = obj[o].downct
      /\ d.deathtime = obj[o].deathtime /\ d.contacted = obj[o].contacted
      /\ d.lastcontacted = obj[o].lastcontacted
      /\ \/ d.lastcheck = obj[o].lastcheck
         \/ obj[o].lastcheck = SYSM_NODNS /\ d.lastcheck = SYSM_OK
  BY <1>1 DEF PeriodicRewalk, HostinfoType, Results
<1>3. /\ obj'[o] = r.d /\ hist'[o] = RecordPages(hist[o], r.sent)
      /\ UNCHANGED <<now, running, disk, last>> /\ running
  BY DEF DoTreePeriodic
<1>4. \/ r = q
      \/ /\ PageInterval # 0 /\ d.contacted
         /\ now - d.lastcontacted > EffectivePageInterval(o)
         /\ r = PageSomeone(o, q, "DOWN", now, m)
  BY DEF Reminder
<1> HIDE DEF d, r
<1>5. q \in PagingType /\ q.d = d /\ q.sent = NoneSent /\ q.sent["DOWN"] = 0
  BY <1>2 DEF PagingType, NoneSent
<1> HIDE DEF q
<1>6. CASE r = q
  <2>1. hist'[o] = hist[o] /\ obj'[o] = d
    BY <1>3, <1>5, <1>6 DEF RecordPages
  <2> QED
    BY <1>2, <2>1 DEF LeftAlone, Rewalked
<1>7. CASE /\ PageInterval # 0 /\ d.contacted
           /\ now - d.lastcontacted > EffectivePageInterval(o)
           /\ r = PageSomeone(o, q, "DOWN", now, m)
  <2>1. /\ r \in PagingType /\ SameButTold(d, r.d)
        /\ PageOutcome(o, d, r.d, Wanted(o, "DOWN"), now, m, r.sent["DOWN"] - q.sent["DOWN"])
    BY <1>1, <1>5, <1>7, PageSomeoneOutcome
  <2>2. r.sent["DOWN"] \in Nat /\ r.sent["DOWN"] - q.sent["DOWN"] = r.sent["DOWN"]
    BY SMTT(30), <1>5, <2>1 DEF PagingType
  <2>3. /\ hist'[o].fails = hist[o].fails /\ hist'[o].up = hist[o].up
        /\ hist'[o].forgot = hist[o].forgot
        /\ hist'[o].down = hist[o].down + r.sent["DOWN"]
        /\ hist'[o].downat = IF r.sent["DOWN"] = 0 THEN hist[o].downat ELSE now
    BY SMTT(30), <1>1, <1>3, <2>2 DEF RecordPages, HistType
  <2>4. Downs(o) = r.sent["DOWN"]
    BY SMTT(30), <1>1, <2>2, <2>3 DEF Downs, HistType
  <2>5. PageOutcome(o, obj[o], obj'[o], Wanted(o, "DOWN"), now, m, Downs(o))
    BY <1>2, <1>3, <2>1, <2>2, <2>4 DEF PageOutcome
  <2>6. obj'[o].lastcheck = d.lastcheck /\ obj'[o].downct = d.downct
        /\ obj'[o].deathtime = d.deathtime
    BY <1>3, <2>1 DEF SameButTold
  <2> QED
    BY <1>2, <1>3, <1>7, <2>3, <2>4, <2>5, <2>6 DEF Reminded, Rewalked
<1> QED
  BY <1>4, <1>6, <1>7

\* Every step of the daemon is such a step of every object.
LEMMA EveryObjectSteps ==
  ASSUME TypeOK, [Next]_vars, NEW o \in Objects
  PROVE  ObjectStep(o)
<1>0. obj[o] \in HostinfoType /\ hist[o] \in HistType
  BY DEF TypeOK
<1>1. ASSUME NEW p \in Objects, NEW retval \in Results, NEW m \in MailOutcomes,
             Check(p, retval, m)
      PROVE  ObjectStep(o)
  <2>1. CASE p = o
    BY <1>1, <2>1, CheckIsObjectStep DEF ObjectStep
  <2>2. CASE p # o
    <3>1. obj'[o] = obj[o] /\ hist'[o] = hist[o]
      BY <1>1, <2>2 DEF Check, TypeOK
    <3> QED
      BY <3>1 DEF ObjectStep, LeftAlone, Rewalked
  <2> QED
    BY <2>1, <2>2
<1>2. ASSUME NEW p \in Objects, NEW a \in BOOLEAN, SetAcked(p, a) PROVE ObjectStep(o)
  <2>1. /\ obj'[o].lastcheck = obj[o].lastcheck /\ obj'[o].downct = obj[o].downct
        /\ obj'[o].deathtime = obj[o].deathtime /\ obj'[o].contacted = obj[o].contacted
        /\ obj'[o].lastcontacted = obj[o].lastcontacted /\ hist'[o] = hist[o]
    BY SMTT(30), <1>2 DEF SetAcked, TypeOK, HostinfoType
  <2> QED
    BY <2>1 DEF ObjectStep, LeftAlone, Rewalked
<1>3. ASSUME NEW R \in SUBSET Objects, NEW S \in SUBSET Objects,
             NEW m \in MailOutcomes, DoTreePeriodic(R, S, m)
      PROVE  ObjectStep(o)
  BY <1>3, PeriodicIsObjectStep DEF ObjectStep
<1>4. CASE \/ \E ok \in WriteOutcomes : CheckpointState(ok) \/ StopIt(ok)
           \/ Crash \/ Tick \/ UNCHANGED vars
  <2>1. obj' = obj /\ hist' = hist
    BY <1>4 DEF CheckpointState, StopIt, Crash, Tick, vars
  <2> QED
    BY <2>1 DEF ObjectStep, LeftAlone, Rewalked
<1>5. CASE Start
  <2> DEFINE same == SameKnowledge(LoadState(o), obj[o])
  <2>1. /\ obj'[o] = LoadState(o)
        /\ hist'[o] = [hist[o] EXCEPT !.forgot = @ \/ ~same]
        /\ ~running /\ last' = 0 /\ UNCHANGED <<now, disk>>
    BY <1>5 DEF Start
  <2>2. LoadState(o) \in HostinfoType
    BY LoadStateType
  <2>3. same => /\ LoadState(o).contacted = obj[o].contacted
                /\ LoadState(o).lastcheck = obj[o].lastcheck
                /\ LoadState(o).downct = obj[o].downct
                /\ LoadState(o).deathtime = obj[o].deathtime
                /\ LoadState(o).lastcontacted = obj[o].lastcontacted
    BY <1>0, <2>2 DEF SameKnowledge, HostinfoType
  <2> HIDE DEF same
  <2>4. /\ hist'[o].fails = hist[o].fails /\ hist'[o].up = hist[o].up
        /\ hist'[o].down = hist[o].down /\ hist'[o].downat = hist[o].downat
        /\ ~hist'[o].forgot => ~hist[o].forgot /\ same
    BY <1>0, <2>1 DEF HistType
  <2> QED
    BY <2>1, <2>3, <2>4 DEF ObjectStep, Loaded
<1>6. ASSUME NEW S \in SUBSET Objects, Reload(S) PROVE ObjectStep(o)
  <2>1. CASE o \in S
    <3>1. /\ obj'[o].lastcheck = obj[o].lastcheck /\ obj'[o].downct = obj[o].downct
          /\ obj'[o].deathtime = obj[o].deathtime /\ obj'[o].contacted = obj[o].contacted
          /\ obj'[o].lastcontacted = obj[o].lastcontacted /\ hist'[o] = hist[o]
      BY <1>0, <1>6, <2>1 DEF Reload, HardCopy, HostinfoType
    <3> QED
      BY <3>1 DEF ObjectStep, LeftAlone, Rewalked
  <2>2. CASE o \notin S
    BY <1>6, <2>2 DEF Reload, ObjectStep, Afresh
  <2> QED
    BY <2>1, <2>2
<1> QED
  BY <1>1, <1>2, <1>3, <1>4, <1>5, <1>6 DEF Next

\* Time does not go back, and the file is what it was or what the daemon knows.
LEMMA ClockAndFile ==
  ASSUME TypeOK, [Next]_vars
  PROVE  now' >= now /\ disk'.data \in {disk.data, obj}
<1>1. now \in Nat
  BY DEF TypeOK
<1>2. now' = now \/ now' = now + 1
  BY DEF Next, vars, Check, SetAcked, DoTreePeriodic, CheckpointState, StopIt, Crash,
     Start, Reload, Tick
<1>3. disk' = disk \/ disk' = [written |-> now, data |-> obj]
  BY DEF Next, vars, Check, SetAcked, DoTreePeriodic, CheckpointState, StopIt, Crash,
     Start, Reload, Tick, WriteState
<1> QED
  BY SMTT(30), <1>1, <1>2, <1>3

-----------------------------------------------------------------------------
(***************************************************************************)
(* Reminders keep their distance, in every configuration.  What the code   *)
(* compares is lastcontacted; what the people see is the last message.     *)
(***************************************************************************)
AnnouncedMarked(o) ==
  (~hist[o].forgot /\ hist[o].down >= 1) =>
    obj[o].contacted /\ hist[o].downat <= obj[o].lastcontacted /\ hist[o].downat <= now

\* What counters and clocks do.
LEMMA Counting ==
  ASSUME NEW a \in Nat, NEW b \in Nat
  PROVE  /\ a + 1 > 0 /\ a + 1 >= 1 /\ ~(0 >= 1)
         /\ b - a = 0 => b = a
         /\ \A c \in Nat : a <= b /\ c >= b => a <= c
BY SMTT(30)

\* A counter that grew.
LEMMA Grew ==
  ASSUME NEW a \in Nat, NEW b \in Nat, b > a
  PROVE  b # 0 /\ b # a /\ b - a # 0
BY SMTT(30)

\* No step of an object breaks AnnouncedMarked.
LEMMA AnnouncedMarkedStep ==
  ASSUME TypeOK, TypeOK', [Next]_vars, NEW o \in Objects, AnnouncedMarked(o)
  PROVE  AnnouncedMarked(o)'
<1>0. /\ now \in Nat /\ now' \in Nat /\ now' >= now
      /\ hist[o].down \in Nat /\ hist'[o].down \in Nat
      /\ hist[o].downat \in Nat /\ hist'[o].downat \in Nat
      /\ obj[o].lastcontacted \in Nat /\ obj'[o].lastcontacted \in Nat
  BY ClockAndFile DEF TypeOK, HistType, HostinfoType
<1>1. CASE Failed(o)
  <2>1. CASE Downs(o) = 0
    <3>1. hist'[o].down = hist[o].down /\ hist'[o].forgot = hist[o].forgot
          /\ hist'[o].downat = hist[o].downat
      <4>1. hist'[o].down = hist[o].down
        BY <1>0, <2>1, Counting DEF Downs
      <4> QED
        BY <1>1, <2>1, <4>1 DEF Failed
    <3>2. obj[o].contacted => obj'[o].contacted /\ obj'[o].lastcontacted = obj[o].lastcontacted
      BY <1>1 DEF Failed, PageDue
    <3> QED
      <4> SUFFICES ASSUME ~hist'[o].forgot, hist'[o].down >= 1
                   PROVE  /\ obj'[o].contacted /\ hist'[o].downat <= obj'[o].lastcontacted
                          /\ hist'[o].downat <= now'
        BY DEF AnnouncedMarked
      <4>1. obj[o].contacted /\ hist[o].downat <= obj[o].lastcontacted /\ hist[o].downat <= now
        BY <3>1 DEF AnnouncedMarked
      <4>2. hist[o].downat <= now'
        BY <1>0, <4>1, Counting
      <4> QED
        BY <3>1, <3>2, <4>1, <4>2
  <2>2. CASE Downs(o) # 0
    <3>1. hist'[o].downat = now /\ now' = now
      BY <1>1, <2>2 DEF Failed
    <3>2. obj'[o].contacted /\ obj'[o].lastcontacted = now
      BY <1>1, <2>2 DEF Failed, PageOutcome
    <3> QED
      BY <1>0, <3>1, <3>2 DEF AnnouncedMarked
  <2> QED
    BY <2>1, <2>2
<1>2. CASE FoundUp(o) \/ Afresh(o)
  <2>1. hist'[o].down = 0
    BY SMTT(30), <1>2 DEF FoundUp, Afresh, NoHist
  <2> QED
    BY SMTT(30), <2>1 DEF AnnouncedMarked
<1>3. CASE Reminded(o)
  <2>1. /\ hist'[o].forgot = hist[o].forgot /\ now' = now
        /\ hist'[o].downat = IF Downs(o) = 0 THEN hist[o].downat ELSE now
    BY <1>3 DEF Reminded
  <2>2. obj[o].contacted /\ obj'[o].contacted
        /\ (obj'[o].lastcontacted = now \/
              (obj'[o].lastcontacted = obj[o].lastcontacted /\ Downs(o) = 0))
    BY <1>3 DEF Reminded, PageOutcome
  <2>3. Downs(o) = 0 => hist'[o].down = hist[o].down
    BY SMTT(30), <1>0 DEF Downs
  <2> QED
    BY <1>0, <2>1, <2>2, <2>3 DEF AnnouncedMarked
<1>4. CASE LeftAlone(o)
  <2>1. hist'[o] = hist[o] /\ obj'[o].contacted = obj[o].contacted
        /\ obj'[o].lastcontacted = obj[o].lastcontacted
    BY <1>4 DEF LeftAlone
  <2> QED
    BY SMTT(30), <1>0, <2>1 DEF AnnouncedMarked
<1>5. CASE Loaded(o)
  BY <1>0, <1>5 DEF Loaded, AnnouncedMarked
<1> QED
  BY <1>1, <1>2, <1>3, <1>4, <1>5, EveryObjectSteps DEF ObjectStep

\* A second message about an outage is a reminder, at least the object's page
\* interval after the one before it: for any thresholds, contacts and
\* intervals, whatever mails fail, and through stops, starts and reloads.
THEOREM RemindersKeepTheirDistance == Spec => RemindersSpaced
<1> DEFINE Inv == \A o \in Objects : AnnouncedMarked(o)
           A == \A o \in Objects :
                  (hist[o].down >= 1 /\ ~hist[o].forgot /\ hist'[o].down > hist[o].down)
                    => PageInterval # 0 /\ now - hist[o].downat > EffectivePageInterval(o)
<1>1. Init => Inv
  BY SMTT(30) DEF Init, NoHist, AnnouncedMarked
<1>2. TypeOK /\ TypeOK' /\ Inv /\ [Next]_vars => Inv'
  BY AnnouncedMarkedStep
<1>3. TypeOK /\ TypeOK' /\ Inv /\ [Next]_vars => [A]_vars
  <2> SUFFICES ASSUME TypeOK, TypeOK', Inv, Next, NEW o \in Objects,
                      hist[o].down >= 1, ~hist[o].forgot, hist'[o].down > hist[o].down
               PROVE  PageInterval # 0 /\ now - hist[o].downat > EffectivePageInterval(o)
    OBVIOUS
  <2>1. /\ now \in Nat /\ hist[o].down \in Nat /\ hist'[o].down \in Nat
        /\ hist[o].downat \in Nat /\ obj[o].lastcontacted \in Nat
        /\ EffectivePageInterval(o) \in Int
    BY SMTT(30), ClockAssumption DEF TypeOK, HistType, HostinfoType, EffectivePageInterval
  <2>2. AnnouncedMarked(o) /\ Downs(o) # 0
    BY SMTT(30), <2>1 DEF Downs
  <2>3. obj[o].contacted /\ hist[o].downat <= obj[o].lastcontacted
    BY <2>2 DEF AnnouncedMarked
  <2>4. ~Failed(o)
    BY <2>2, <2>3 DEF Failed, PageDue
  <2>5. ~FoundUp(o) /\ ~Afresh(o) /\ ~LeftAlone(o) /\ ~Loaded(o)
    <3>1. ~LeftAlone(o) /\ ~Loaded(o)
      BY SMTT(30), <2>1 DEF LeftAlone, Loaded
    <3>2. ~FoundUp(o)
      BY SMTT(30), <2>1 DEF FoundUp
    <3>3. ~Afresh(o)
      BY SMTT(30), <2>1 DEF Afresh, NoHist
    <3> QED
      BY <3>1, <3>2, <3>3
  <2>6. Reminded(o)
    BY <2>4, <2>5, EveryObjectSteps DEF ObjectStep
  <2>7. PageInterval # 0 /\ now - obj[o].lastcontacted > EffectivePageInterval(o)
    BY <2>6 DEF Reminded
  <2> QED
    BY SMTT(30), <2>1, <2>3, <2>7
<1> QED
  BY <1>1, <1>2, <1>3, TypeCorrect, PTL DEF Spec, RemindersSpaced

-----------------------------------------------------------------------------
(***************************************************************************)
(* Only what is down is marked, and the history counts the failures.  Both *)
(* hold as long as names resolve: periodic_rewalk takes an object for up   *)
(* without going through handle_retval.                                    *)
(***************************************************************************)
NamesResolve == SYSM_NODNS \notin Failures

\* An object whose contacts hear of failures is not marked while it is up,
\* in memory or in the file that a restart would load.
MarkedIsDown(o) ==
  "DOWN" \in ContactWhen[o] =>
    /\ obj[o].lastcheck = SYSM_OK => ~obj[o].contacted
    /\ disk.data[o].lastcheck = SYSM_OK => ~disk.data[o].contacted

Counted(o) ==
  ~hist[o].forgot =>
    /\ obj[o].lastcheck # SYSM_OK <=> hist[o].fails > 0
    /\ obj[o].lastcheck # SYSM_OK => obj[o].deathtime > 0 /\ hist[o].up = 0

\* While names resolve, the rewalk changes nothing.
LEMMA NoRewalk ==
  ASSUME NamesResolve, TypeOK, NEW o \in Objects, Rewalked(o)
  PROVE  obj'[o].lastcheck = obj[o].lastcheck
<1>1. obj[o].lastcheck \in Failures \cup {SYSM_OK}
  BY DEF TypeOK, HostinfoType, Results
<1>2. SYSM_NODNS \notin Failures \cup {SYSM_OK}
  BY DEF NamesResolve, SYSM_NODNS, SYSM_OK
<1> QED
  BY <1>1, <1>2 DEF Rewalked

\* No step of an object breaks MarkedIsDown.
LEMMA MarkedIsDownStep ==
  ASSUME NamesResolve, TypeOK, TypeOK', [Next]_vars, NEW o \in Objects, MarkedIsDown(o)
  PROVE  MarkedIsDown(o)'
<1> SUFFICES ASSUME "DOWN" \in ContactWhen[o]
             PROVE  /\ obj'[o].lastcheck = SYSM_OK => ~obj'[o].contacted
                    /\ disk'.data[o].lastcheck = SYSM_OK => ~disk'.data[o].contacted
  BY DEF MarkedIsDown
<1>0. /\ obj[o].lastcheck = SYSM_OK => ~obj[o].contacted
      /\ disk.data[o].lastcheck = SYSM_OK => ~disk.data[o].contacted
  BY DEF MarkedIsDown
<1>1. disk'.data[o].lastcheck = SYSM_OK => ~disk'.data[o].contacted
  <2>1. disk'.data = disk.data \/ disk'.data = obj
    BY ClockAndFile
  <2> QED
    BY <1>0, <2>1
<1>2. CASE Failed(o)
  BY SMTT(30), <1>1, <1>2, ConfigAssumption DEF Failed
<1>3. CASE FoundUp(o)
  <2>1. obj'[o].contacted =>
          (obj[o].contacted /\ obj[o].lastcheck = SYSM_OK) \/ ContactWhen[o] = {"UP"}
    BY <1>3 DEF FoundUp
  <2>2. ~obj'[o].contacted
    BY SMTT(30), <1>0, <2>1
  <2> QED
    BY <1>1, <2>2
<1>4. CASE Reminded(o)
  <2>1. obj[o].contacted /\ obj'[o].lastcheck = obj[o].lastcheck
    BY <1>4, NoRewalk DEF Reminded
  <2> QED
    BY <1>0, <1>1, <2>1
<1>5. CASE LeftAlone(o)
  <2>1. obj'[o].contacted = obj[o].contacted /\ obj'[o].lastcheck = obj[o].lastcheck
    BY <1>5, NoRewalk DEF LeftAlone
  <2> QED
    BY <1>0, <1>1, <2>1
<1>6. CASE Loaded(o)
  <2>1. \/ obj'[o] = [disk.data[o] EXCEPT !.next_queuetime = 0]
        \/ obj'[o] = NewHostinfo
    BY <1>6 DEF Loaded, LoadState
  <2>2. disk.data[o] \in HostinfoType
    BY DEF TypeOK
  <2>3. \/ /\ obj'[o].lastcheck = disk.data[o].lastcheck
           /\ obj'[o].contacted = disk.data[o].contacted
        \/ obj'[o].contacted = FALSE
    BY SMTT(30), <2>1, <2>2 DEF HostinfoType, NewHostinfo
  <2> QED
    BY <1>0, <1>1, <2>3
<1>7. CASE Afresh(o)
  <2>1. obj'[o].contacted = FALSE
    BY SMTT(30), <1>7 DEF Afresh, NewHostinfo
  <2> QED
    BY <1>1, <2>1
<1> QED
  BY <1>2, <1>3, <1>4, <1>5, <1>6, <1>7, EveryObjectSteps DEF ObjectStep

\* No step of an object breaks Counted.
LEMMA CountedStep ==
  ASSUME NamesResolve, TypeOK, TypeOK', [Next]_vars, NEW o \in Objects, Counted(o)
  PROVE  Counted(o)'
<1>0. /\ now \in Nat \ {0} /\ hist[o].fails \in Nat /\ hist'[o].fails \in Nat
      /\ obj[o].deathtime \in Nat
  BY DEF TypeOK, HistType, HostinfoType
<1>1. CASE Failed(o)
  <2>1. /\ obj'[o].lastcheck # SYSM_OK /\ hist'[o].fails = hist[o].fails + 1
        /\ hist'[o].up = 0 /\ hist'[o].forgot = hist[o].forgot
    BY <1>1, ConfigAssumption DEF Failed
  <2>2. \/ obj[o].lastcheck # SYSM_OK /\ obj'[o].deathtime = obj[o].deathtime
        \/ obj'[o].deathtime = now
    BY <1>1, ConfigAssumption DEF Failed
  <2>3. hist'[o].fails > 0
    BY SMTT(30), <1>0, <2>1
  <2>4. ~hist'[o].forgot => obj'[o].deathtime > 0
    <3>1. now > 0
      BY SMTT(30), <1>0
    <3> QED
      BY <2>1, <2>2, <3>1 DEF Counted
  <2> QED
    BY <2>1, <2>3, <2>4 DEF Counted
<1>2. CASE FoundUp(o)
  BY SMTT(30), <1>2 DEF FoundUp, Counted
<1>3. CASE Reminded(o) \/ LeftAlone(o)
  <2>1. /\ obj'[o].lastcheck = obj[o].lastcheck
        /\ obj'[o].deathtime = obj[o].deathtime /\ hist'[o].fails = hist[o].fails
        /\ hist'[o].up = hist[o].up /\ hist'[o].forgot = hist[o].forgot
    BY <1>3, NoRewalk DEF Reminded, LeftAlone
  <2> QED
    BY <2>1 DEF Counted
<1>4. CASE Loaded(o)
  BY <1>4 DEF Loaded, Counted
<1>5. CASE Afresh(o)
  <2>1. obj'[o] = NewHostinfo /\ hist'[o] = NoHist
    BY <1>5 DEF Afresh
  <2>2. NewHostinfo.lastcheck = SYSM_OK /\ NoHist.fails = 0
    BY DEF NewHostinfo, NoHist
  <2>3. obj'[o].lastcheck = SYSM_OK /\ ~(hist'[o].fails > 0)
    BY SMTT(30), <2>1, <2>2
  <2> QED
    BY <2>3 DEF Counted
<1> QED
  BY <1>1, <1>2, <1>3, <1>4, <1>5, EveryObjectSteps DEF ObjectStep

DownInv == \A o \in Objects : MarkedIsDown(o) /\ Counted(o)

\* DownInv is an invariant while names resolve.
LEMMA DownInvariant == NamesResolve /\ Spec => [](TypeOK /\ DownInv)
<1> SUFFICES ASSUME NamesResolve PROVE Spec => [](TypeOK /\ DownInv)
  OBVIOUS
<1>1. Init => DownInv
  <2> SUFFICES ASSUME Init, NEW o \in Objects PROVE MarkedIsDown(o) /\ Counted(o)
    BY DEF DownInv
  <2>1. /\ obj[o] = NewHostinfo /\ disk.data[o] = NewHostinfo
        /\ hist[o].fails = 0
    BY DEF Init, NoHist
  <2>2. NewHostinfo.lastcheck = SYSM_OK /\ NewHostinfo.contacted = FALSE
    BY DEF NewHostinfo
  <2> QED
    BY SMTT(30), <2>1, <2>2 DEF MarkedIsDown, Counted
<1>2. TypeOK /\ TypeOK' /\ DownInv /\ [Next]_vars => DownInv'
  BY MarkedIsDownStep, CountedStep DEF DownInv
<1> QED
  BY <1>1, <1>2, TypeCorrect, PTL DEF Spec

\* A DOWN message, a reminder too, is about an object whose latest check
\* failed, for every configuration, as long as names resolve (with names that
\* do not, periodic_rewalk leaves an object marked that it takes for up).
THEOREM DownMessagesTrue == NamesResolve /\ Spec => DownMessagesAreTrue
<1> DEFINE A == \A o \in Objects :
                  ~hist[o].forgot /\ hist'[o].down > hist[o].down => hist'[o].fails > 0
<1> SUFFICES ASSUME NamesResolve PROVE Spec => [][A]_vars
  BY DEF DownMessagesAreTrue
<1>1. (TypeOK /\ DownInv) /\ (TypeOK /\ DownInv)' /\ [Next]_vars => [A]_vars
  <2> SUFFICES ASSUME TypeOK, TypeOK', DownInv, Next, NEW o \in Objects,
                      ~hist[o].forgot, hist'[o].down > hist[o].down
               PROVE  hist'[o].fails > 0
    OBVIOUS
  <2>1. /\ hist[o].down \in Nat /\ hist'[o].down \in Nat /\ hist[o].fails \in Nat
    BY DEF TypeOK, HistType
  <2>0. hist'[o].down # 0 /\ hist'[o].down # hist[o].down /\ Downs(o) # 0
    BY <2>1, Grew DEF Downs
  <2>2. Downs(o) # 0 /\ MarkedIsDown(o) /\ Counted(o)
    BY <2>0 DEF DownInv
  <2>3. ~FoundUp(o) /\ ~Afresh(o) /\ ~LeftAlone(o) /\ ~Loaded(o)
    <3>1. ~LeftAlone(o) /\ ~Loaded(o) /\ ~FoundUp(o)
      BY <2>0 DEF LeftAlone, Loaded, FoundUp
    <3>2. NoHist.down = 0
      BY DEF NoHist
    <3>3. ~Afresh(o)
      BY <2>0, <3>2 DEF Afresh
    <3> QED
      BY <3>1, <3>3
  <2>4. CASE Failed(o)
    <3>1. hist'[o].fails = hist[o].fails + 1
      BY <2>4 DEF Failed
    <3> QED
      BY <2>1, <3>1, Counting
  <2>5. CASE Reminded(o)
    <3>1. obj[o].contacted /\ "DOWN" \in ContactWhen[o]
          /\ hist'[o].fails = hist[o].fails
      BY <2>2, <2>5 DEF Reminded, PageOutcome, Wanted
    <3> QED
      BY <2>2, <3>1 DEF MarkedIsDown, Counted
  <2> QED
    BY <2>3, <2>4, <2>5, EveryObjectSteps DEF ObjectStep
<1> QED
  BY <1>1, DownInvariant, PTL DEF Spec

\* Between two failing results deathtime stays where the first one put it: a
\* change of failure kind, a reminder, an ack, a checkpoint or a reload does
\* not move it, as long as names resolve.
THEOREM DeathtimeStays == NamesResolve /\ Spec => DeathtimeStable
<1> DEFINE A == \A o \in Objects :
                  /\ running /\ ~hist[o].forgot
                  /\ hist[o].fails > 0 /\ hist'[o].fails > 0
                  => obj'[o].deathtime = obj[o].deathtime
<1> SUFFICES ASSUME NamesResolve PROVE Spec => [][A]_vars
  BY DEF DeathtimeStable
<1>1. (TypeOK /\ DownInv) /\ [Next]_vars => [A]_vars
  <2> SUFFICES ASSUME TypeOK, DownInv, Next, NEW o \in Objects, running,
                      ~hist[o].forgot, hist[o].fails > 0, hist'[o].fails > 0
               PROVE  obj'[o].deathtime = obj[o].deathtime
    OBVIOUS
  <2>1. obj[o].lastcheck # SYSM_OK /\ obj[o].deathtime # 0
    BY SMTT(30) DEF DownInv, Counted
  <2>2. ~FoundUp(o) /\ ~Afresh(o) /\ ~Loaded(o)
    <3>1. hist'[o].fails # 0 /\ NoHist.fails = 0
      BY SMTT(30) DEF NoHist
    <3> QED
      BY <3>1 DEF FoundUp, Afresh, Loaded
  <2>3. CASE Failed(o)
    BY <2>1, <2>3 DEF Failed
  <2>4. CASE Reminded(o) \/ LeftAlone(o)
    BY <2>4 DEF Reminded, LeftAlone
  <2> QED
    BY <2>2, <2>3, <2>4, EveryObjectSteps DEF ObjectStep
<1> QED
  BY <1>1, DownInvariant, PTL DEF Spec

-----------------------------------------------------------------------------
(***************************************************************************)
(* The mark says whether somebody was told.  send_an_alert marks an object *)
(* after a popen that failed as well, so this holds where popen does not   *)
(* fail.                                                                   *)
(***************************************************************************)
MailIsPiped == "nopipe" \notin MailOutcomes

Told(o) ==
  Notifies(o) /\ ~hist[o].forgot => (obj[o].contacted <=> hist[o].down >= 1)

\* Where o has someone to tell, a page either tells and is counted, or does
\* nothing at all.
LEMMA PageTellsOrNothing ==
  ASSUME MailIsPiped, NEW o \in Objects, Notifies(o), NEW d, NEW e, NEW t, NEW n,
         NEW m \in MailOutcomes, PageOutcome(o, d, e, Wanted(o, "DOWN"), t, m, n)
  PROVE  \/ e.contacted /\ n = 1
         \/ e.contacted = d.contacted /\ n = 0 /\ m = "nopw"
BY ConfigAssumption DEF MailIsPiped, Notifies, PageOutcome, Wanted

\* No step of an object breaks Told.
LEMMA ToldStep ==
  ASSUME NamesResolve, MailIsPiped, TypeOK, TypeOK', [Next]_vars,
         NEW o \in Objects, MarkedIsDown(o)', Told(o)
  PROVE  Told(o)'
<1> SUFFICES ASSUME Notifies(o), ~hist'[o].forgot
             PROVE  obj'[o].contacted <=> hist'[o].down >= 1
  BY DEF Told
<1>0. /\ hist[o].down \in Nat /\ hist'[o].down \in Nat
      /\ obj[o].contacted \in BOOLEAN /\ obj'[o].contacted \in BOOLEAN
  BY DEF TypeOK, HistType, HostinfoType
<1>1. ~hist[o].forgot => (obj[o].contacted <=> hist[o].down >= 1)
  BY DEF Told
<1>2. CASE Failed(o)
  <2>1. \/ obj'[o].contacted /\ Downs(o) = 1
        \/ obj'[o].contacted = obj[o].contacted /\ Downs(o) = 0
    <3>1. PICK retval \in Failures, m \in MailOutcomes :
            /\ PageDue(o, obj[o], retval) =>
                 PageOutcome(o, obj[o], obj'[o], Wanted(o, "DOWN"), now, m, Downs(o))
            /\ ~PageDue(o, obj[o], retval) =>
                 obj'[o].contacted = obj[o].contacted /\ Downs(o) = 0
      BY <1>2 DEF Failed
    <3>2. CASE PageDue(o, obj[o], retval)
      BY SMTT(30), <3>1, <3>2, PageTellsOrNothing
    <3> QED
      BY <3>1, <3>2
  <2>2. ~hist[o].forgot
    BY <1>2 DEF Failed
  <2>3. \/ obj'[o].contacted /\ hist'[o].down = hist[o].down + 1
        \/ obj'[o].contacted = obj[o].contacted /\ hist'[o].down = hist[o].down
    BY SMTT(30), <1>0, <2>1 DEF Downs
  <2>4. CASE obj'[o].contacted /\ hist'[o].down = hist[o].down + 1
    BY SMTT(30), <1>0, <2>4, Counting
  <2>5. CASE obj'[o].contacted = obj[o].contacted /\ hist'[o].down = hist[o].down
    BY <1>1, <2>2, <2>5
  <2> QED
    BY <2>3, <2>4, <2>5
<1>3. CASE FoundUp(o)
  <2>1. obj'[o].lastcheck = SYSM_OK /\ hist'[o].down = 0
    BY <1>3 DEF FoundUp
  <2>2. ~obj'[o].contacted
    BY <2>1 DEF MarkedIsDown, Notifies
  <2> QED
    BY <1>0, <2>1, <2>2, Counting
<1>4. CASE Reminded(o)
  <2>1. \/ obj'[o].contacted /\ Downs(o) = 1
        \/ obj'[o].contacted = obj[o].contacted /\ Downs(o) = 0
    <3>1. PICK m \in MailOutcomes :
            PageOutcome(o, obj[o], obj'[o], Wanted(o, "DOWN"), now, m, Downs(o))
      BY <1>4 DEF Reminded
    <3> QED
      BY SMTT(30), <3>1, PageTellsOrNothing
  <2>2. ~hist[o].forgot
    BY <1>4 DEF Reminded
  <2>3. \/ obj'[o].contacted /\ hist'[o].down = hist[o].down + 1
        \/ obj'[o].contacted = obj[o].contacted /\ hist'[o].down = hist[o].down
    BY SMTT(30), <1>0, <2>1 DEF Downs
  <2> QED
    BY SMTT(30), <1>0, <1>1, <2>2, <2>3
<1>5. CASE LeftAlone(o)
  BY <1>1, <1>5 DEF LeftAlone
<1>6. CASE Loaded(o)
  BY <1>1, <1>6 DEF Loaded
<1>7. CASE Afresh(o)
  BY SMTT(30), <1>7 DEF Afresh, NewHostinfo, NoHist
<1> QED
  BY <1>2, <1>3, <1>4, <1>5, <1>6, <1>7, EveryObjectSteps DEF ObjectStep

ToldInv == \A o \in Objects : Told(o)

\* ToldInv is an invariant where names resolve and mail is piped.
LEMMA ToldInvariant == NamesResolve /\ MailIsPiped /\ Spec => []ToldInv
<1> SUFFICES ASSUME NamesResolve, MailIsPiped PROVE Spec => []ToldInv
  OBVIOUS
<1>0. Spec => [](TypeOK /\ DownInv)
  BY DownInvariant
<1>1. Init => ToldInv
  BY SMTT(30) DEF Init, ToldInv, Told, NewHostinfo, NoHist
<1>2. (TypeOK /\ DownInv) /\ (TypeOK /\ DownInv)' /\ ToldInv /\ [Next]_vars => ToldInv'
  BY ToldStep DEF DownInv, ToldInv
<1> QED
  BY <1>0, <1>1, <1>2, PTL DEF Spec

\* While an object is down, it is marked exactly when somebody was told of the
\* outage, for every configuration, where names resolve and popen does not
\* fail.
THEOREM MarkedIffTold == NamesResolve /\ MailIsPiped /\ Spec => []ContactedIffTold
<1> SUFFICES ASSUME NamesResolve, MailIsPiped PROVE Spec => []ContactedIffTold
  OBVIOUS
<1>1. ToldInv => ContactedIffTold
  BY DEF ToldInv, Told, ContactedIffTold
<1> QED
  BY <1>1, ToldInvariant, PTL

\* Under the same two conditions an UP message ends an outage that was
\* announced, and there is one of it: the recovery branch of handle_retval
\* relies on the mark alone.
THEOREM UpEndsAnAnnouncedOutage == NamesResolve /\ MailIsPiped /\ Spec => UpFollowsDown
<1> DEFINE A == \A o \in Objects :
                  /\ ContactWhen[o] = {"UP", "DOWN"}
                  /\ ~hist[o].forgot
                  /\ hist'[o].up > hist[o].up
                  => hist[o].down >= 1 /\ hist'[o].up = 1
<1> SUFFICES ASSUME NamesResolve, MailIsPiped PROVE Spec => [][A]_vars
  BY DEF UpFollowsDown
<1>0. Spec => [](TypeOK /\ DownInv)
  BY DownInvariant
<1>1. (TypeOK /\ DownInv) /\ (TypeOK /\ DownInv)' /\ ToldInv /\ [Next]_vars => [A]_vars
  <2> SUFFICES ASSUME TypeOK, TypeOK', DownInv, ToldInv, Next, NEW o \in Objects,
                      ContactWhen[o] = {"UP", "DOWN"}, ~hist[o].forgot,
                      hist'[o].up > hist[o].up
               PROVE  hist[o].down >= 1 /\ hist'[o].up = 1
    OBVIOUS
  <2>1. hist[o].up \in Nat /\ hist'[o].up \in Nat
    BY DEF TypeOK, HistType
  <2>2. hist'[o].up # 0 /\ hist'[o].up # hist[o].up
    BY <2>1, Grew
  <2>3. ~Failed(o) /\ ~Reminded(o) /\ ~LeftAlone(o) /\ ~Loaded(o) /\ ~Afresh(o)
    <3>1. ~Failed(o)
      BY <2>2 DEF Failed
    <3>2. ~Reminded(o) /\ ~LeftAlone(o) /\ ~Loaded(o)
      BY <2>2 DEF Reminded, LeftAlone, Loaded
    <3>3. NoHist.up = 0
      BY DEF NoHist
    <3>4. ~Afresh(o)
      BY <2>2, <3>3 DEF Afresh
    <3> QED
      BY <3>1, <3>2, <3>4
  <2>4. FoundUp(o)
    BY <2>3, EveryObjectSteps DEF ObjectStep
  <2>5. ContactWhen[o] # {"UP"} /\ "DOWN" \in ContactWhen[o]
    BY SMTT(30)
  <2>6. /\ obj[o].contacted /\ obj[o].lastcheck # SYSM_OK
        /\ Donotify /\ Contact[o] # {} /\ hist'[o].up = hist[o].up + 1
    BY <2>4, <2>5 DEF FoundUp
  <2>7. hist[o].up = 0
    BY <2>6 DEF DownInv, Counted
  <2>8. hist[o].down >= 1
    BY <2>5, <2>6 DEF ToldInv, Told, Notifies
  <2> QED
    BY SMTT(30), <2>6, <2>7, <2>8
<1> QED
  BY <1>0, <1>1, ToldInvariant, PTL DEF Spec

-----------------------------------------------------------------------------
(***************************************************************************)
(* max_down failures are enough.  handle_retval starts the count again     *)
(* when the failure changes its kind, and gives the page up when getpwuid  *)
(* fails, so this holds for one kind of failure and users that exist.      *)
(***************************************************************************)
OneFailureKind == \A f, g \in Failures : f = g

UsersExist == "nopw" \notin MailOutcomes

Streak(o) ==
  Notifies(o) /\ ~hist[o].forgot =>
    /\ obj[o].lastcheck # SYSM_OK => obj[o].downct = hist[o].fails
    /\ hist[o].fails > 0 /\ hist[o].fails >= MaxDown[o] => obj[o].contacted

\* Where users exist, a page to someone always marks the object.
LEMMA PageMarks ==
  ASSUME UsersExist, NEW o \in Objects, Notifies(o), NEW d, NEW e, NEW t, NEW n,
         NEW m \in MailOutcomes, PageOutcome(o, d, e, Wanted(o, "DOWN"), t, m, n)
  PROVE  e.contacted
BY ConfigAssumption DEF UsersExist, Notifies, PageOutcome, Wanted

\* No step of an object breaks Streak.
LEMMA StreakStep ==
  ASSUME NamesResolve, OneFailureKind, UsersExist, TypeOK, TypeOK', [Next]_vars,
         NEW o \in Objects, Counted(o), Streak(o)
  PROVE  Streak(o)'
<1> SUFFICES ASSUME Notifies(o), ~hist'[o].forgot
             PROVE  /\ obj'[o].lastcheck # SYSM_OK => obj'[o].downct = hist'[o].fails
                    /\ hist'[o].fails > 0 /\ hist'[o].fails >= MaxDown[o]
                         => obj'[o].contacted
  BY DEF Streak
<1>0. /\ hist[o].fails \in Nat /\ hist'[o].fails \in Nat /\ obj[o].downct \in Nat
      /\ obj[o].lastcheck \in Failures \cup {SYSM_OK} /\ MaxDown[o] \in Nat
  BY ConfigAssumption DEF TypeOK, HistType, HostinfoType, Results
<1>1. ~hist[o].forgot =>
        /\ obj[o].lastcheck # SYSM_OK => obj[o].downct = hist[o].fails
        /\ hist[o].fails > 0 /\ hist[o].fails >= MaxDown[o] => obj[o].contacted
  BY DEF Streak
<1>2. CASE Failed(o)
  <2>1. PICK retval \in Failures, m \in MailOutcomes :
          /\ obj'[o].downct = FailCount(obj[o], retval)
          /\ PageDue(o, obj[o], retval) =>
               PageOutcome(o, obj[o], obj'[o], Wanted(o, "DOWN"), now, m, Downs(o))
          /\ ~PageDue(o, obj[o], retval) => obj'[o].contacted = obj[o].contacted
          /\ hist'[o].fails = hist[o].fails + 1 /\ hist'[o].forgot = hist[o].forgot
    BY <1>2 DEF Failed
  <2>2. obj[o].lastcheck # SYSM_OK => obj[o].lastcheck = retval
    BY <1>0 DEF OneFailureKind
  <2>3. FailCount(obj[o], retval) = hist'[o].fails
    <3>1. CASE obj[o].lastcheck # SYSM_OK
      <4>1. obj[o].downct = hist[o].fails /\ obj[o].lastcheck = retval
            /\ hist'[o].fails = hist[o].fails + 1
        BY <1>1, <2>1, <2>2, <3>1
      <4> QED
        BY <3>1, <4>1 DEF FailCount
    <3>2. CASE obj[o].lastcheck = SYSM_OK
      <4>1. hist[o].fails = 0
        <5>1. ~(hist[o].fails > 0)
          BY <2>1, <3>2 DEF Counted
        <5> QED
          BY SMTT(30), <1>0, <5>1
      <4>2. hist'[o].fails = hist[o].fails + 1
        BY <2>1
      <4>3. FailCount(obj[o], retval) = 1
        <5>1. retval # SYSM_OK
          BY ConfigAssumption
        <5> QED
          BY <3>2, <5>1 DEF FailCount
      <4> QED
        BY SMTT(30), <4>1, <4>2, <4>3
    <3> QED
      BY <3>1, <3>2
  <2>4. CASE PageDue(o, obj[o], retval)
    <3>1. PageOutcome(o, obj[o], obj'[o], Wanted(o, "DOWN"), now, m, Downs(o))
          /\ obj'[o].downct = hist'[o].fails
      BY <2>1, <2>3, <2>4
    <3>2. obj'[o].contacted
      BY <3>1, PageMarks
    <3> QED
      BY <3>1, <3>2
  <2>5. CASE ~PageDue(o, obj[o], retval)
    <3>1. hist'[o].fails >= MaxDown[o] => obj[o].contacted
      BY <2>3, <2>5 DEF PageDue, Notifies
    <3>2. obj'[o].contacted = obj[o].contacted /\ obj'[o].downct = hist'[o].fails
      BY <2>1, <2>3, <2>5
    <3> QED
      BY <3>1, <3>2
  <2> QED
    BY <2>4, <2>5
<1>3. CASE FoundUp(o)
  <2>1. obj'[o].lastcheck = SYSM_OK /\ hist'[o].fails = 0 /\ hist'[o].forgot = FALSE
    BY <1>3 DEF FoundUp
  <2> QED
    BY SMTT(30), <2>1
<1>4. CASE Reminded(o)
  <2>1. PICK m \in MailOutcomes :
          PageOutcome(o, obj[o], obj'[o], Wanted(o, "DOWN"), now, m, Downs(o))
    BY <1>4 DEF Reminded
  <2>2. obj'[o].contacted
    BY <2>1, PageMarks
  <2>3. obj'[o].lastcheck = obj[o].lastcheck /\ obj'[o].downct = obj[o].downct
        /\ hist'[o].fails = hist[o].fails /\ hist'[o].forgot = hist[o].forgot
    BY <1>4, NoRewalk DEF Reminded
  <2> QED
    BY <1>1, <2>2, <2>3
<1>5. CASE LeftAlone(o)
  <2>1. obj'[o].lastcheck = obj[o].lastcheck
    BY <1>5, NoRewalk DEF LeftAlone
  <2> QED
    BY <1>1, <1>5, <2>1 DEF LeftAlone
<1>6. CASE Loaded(o)
  BY <1>1, <1>6 DEF Loaded
<1>7. CASE Afresh(o)
  <2>1. obj'[o] = NewHostinfo /\ hist'[o] = NoHist
    BY <1>7 DEF Afresh
  <2>2. /\ NewHostinfo.lastcheck = SYSM_OK /\ ~NewHostinfo.contacted /\ NewHostinfo.downct = 0
        /\ NoHist.fails = 0 /\ NoHist.forgot = FALSE
    BY DEF NewHostinfo, NoHist
  <2> QED
    BY SMTT(30), <2>1, <2>2
<1> QED
  BY <1>2, <1>3, <1>4, <1>5, <1>6, <1>7, EveryObjectSteps DEF ObjectStep

\* numfailures failing results in a row are enough for somebody to be told,
\* for every configuration with one kind of failure, names that resolve and
\* users that exist; what happens without each of the three is in the README.
THEOREM MaxDownFailuresAreEnough ==
  NamesResolve /\ OneFailureKind /\ UsersExist /\ Spec => []ToldAfterMaxDown
<1> DEFINE Inv == \A o \in Objects : Streak(o)
<1> SUFFICES ASSUME NamesResolve, OneFailureKind, UsersExist
             PROVE  Spec => []ToldAfterMaxDown
  OBVIOUS
<1>0. Spec => [](TypeOK /\ DownInv)
  BY DownInvariant
<1>1. Init => Inv
  BY SMTT(30) DEF Init, Streak, NewHostinfo, NoHist
<1>2. (TypeOK /\ DownInv) /\ (TypeOK /\ DownInv)' /\ Inv /\ [Next]_vars => Inv'
  BY StreakStep DEF DownInv
<1>3. Inv => ToldAfterMaxDown
  BY DEF Streak, ToldAfterMaxDown
<1> QED
  BY <1>0, <1>1, <1>2, <1>3, PTL DEF Spec

-----------------------------------------------------------------------------
(***************************************************************************)
(* What the checkpoint file knows.                                         *)
(***************************************************************************)
\* What a step does to the clock, the file and checkpoint_state's last.
FileStep ==
  \/ UNCHANGED <<now, running, disk, last>>
  \/ /\ now' = now + 1 /\ UNCHANGED <<running, obj, disk, last>>
     /\ running => last # 0 /\ now - last < CheckpointSecs
  \/ /\ running /\ last' = now /\ UNCHANGED <<now, running, obj>>
     /\ \/ last = 0 /\ disk' = disk
        \/ disk'.data = obj
        \/ FALSE \in WriteOutcomes
  \/ running' = FALSE
  \/ /\ last' = 0 /\ UNCHANGED <<now, disk>>
     /\ obj' = [o \in Objects |-> LoadState(o)]

\* Every step is one of these.
LEMMA EveryFileStep ==
  ASSUME TypeOK, [Next]_vars
  PROVE  FileStep
<1>1. CASE UNCHANGED vars
  BY <1>1 DEF vars, FileStep
<1>2. CASE \E o \in Objects, retval \in Results, m \in MailOutcomes : Check(o, retval, m)
  BY <1>2 DEF Check, FileStep
<1>3. CASE \E o \in Objects, acked \in BOOLEAN : SetAcked(o, acked)
  BY SMTT(30), <1>3 DEF SetAcked, FileStep
<1>4. CASE \E resolving, walked \in SUBSET Objects, m \in MailOutcomes :
             DoTreePeriodic(resolving, walked, m)
  BY <1>4 DEF DoTreePeriodic, FileStep
<1>5. CASE \E ok \in WriteOutcomes : CheckpointState(ok)
  <2>1. PICK ok \in WriteOutcomes : CheckpointState(ok)
    BY <1>5
  <2>2. ok = TRUE \/ FALSE \in WriteOutcomes
    BY ClockAssumption
  <2>3. (last = 0 /\ disk' = disk) \/ disk'.data = obj \/ FALSE \in WriteOutcomes
    <3>1. CASE last = 0
      BY <2>1, <3>1 DEF CheckpointState
    <3>2. CASE last # 0 /\ ok = TRUE
      <4>1. disk' = [written |-> now, data |-> obj]
        BY <2>1, <3>2 DEF CheckpointState, WriteState
      <4> QED
        BY <4>1
    <3> QED
      BY <2>2, <3>1, <3>2
  <2> QED
    BY <2>1, <2>3 DEF CheckpointState, FileStep
<1>6. CASE Crash \/ \E ok \in WriteOutcomes : StopIt(ok)
  BY <1>6 DEF Crash, StopIt, FileStep
<1>7. CASE Start
  BY <1>7 DEF Start, FileStep
<1>8. CASE \E matched \in SUBSET Objects : Reload(matched)
  BY <1>8 DEF Reload, FileStep
<1>9. CASE Tick
  <2>1. now - last \in Int /\ CheckpointSecs \in Int
    BY SMTT(30), ClockAssumption DEF TypeOK
  <2>2. running => last # 0 /\ now - last < CheckpointSecs
    BY SMTT(30), <1>9, <2>1 DEF Tick, CheckpointDue
  <2> QED
    BY <1>9, <2>2 DEF Tick, FileStep
<1> QED
  BY <1>1, <1>2, <1>3, <1>4, <1>5, <1>6, <1>7, <1>8, <1>9 DEF Next

\* The loop's last checkpoint is at most one interval old.
Recent == running /\ last # 0 => last <= now /\ now - last <= CheckpointSecs

\* Nothing was ever said about an object that nobody hears of.
NeverSaid(o) ==
  Silent(o) => obj[o].lastcontacted = 0 /\ disk.data[o].lastcontacted = 0

\* What the file misses was said since the last checkpoint, or in this very
\* second if there was none since the start.
Kept(o) ==
  /\ running /\ obj[o].contacted /\ obj[o].lastcontacted > 0
  /\ ~disk.data[o].contacted
  => IF last = 0 THEN obj[o].lastcontacted = now ELSE obj[o].lastcontacted >= last

\* No step breaks Recent.
LEMMA RecentStep ==
  ASSUME TypeOK, TypeOK', [Next]_vars, Recent
  PROVE  Recent'
<1>1. now \in Nat /\ last \in Nat /\ CheckpointSecs \in Nat /\ now' \in Nat /\ last' \in Nat
  BY ClockAssumption DEF TypeOK
<1>2. FileStep
  BY EveryFileStep
<1>3. CASE UNCHANGED <<now, running, disk, last>>
  BY <1>3 DEF Recent
<1>4. CASE /\ now' = now + 1 /\ UNCHANGED <<running, obj, disk, last>>
           /\ running => last # 0 /\ now - last < CheckpointSecs
  BY SMTT(30), <1>1, <1>4 DEF Recent
<1>5. CASE last' = now /\ now' = now
  BY SMTT(30), <1>1, <1>5 DEF Recent
<1>6. CASE running' = FALSE \/ last' = 0
  BY <1>6 DEF Recent
<1> QED
  BY <1>2, <1>3, <1>4, <1>5, <1>6 DEF FileStep

\* No step breaks NeverSaid: page_someone only marks such an object.
LEMMA NeverSaidStep ==
  ASSUME TypeOK, TypeOK', [Next]_vars, NEW o \in Objects, NeverSaid(o)
  PROVE  NeverSaid(o)'
<1> SUFFICES ASSUME Silent(o)
             PROVE  obj'[o].lastcontacted = 0 /\ disk'.data[o].lastcontacted = 0
  BY DEF NeverSaid
<1>0. obj[o].lastcontacted = 0 /\ disk.data[o].lastcontacted = 0
  BY DEF NeverSaid
<1>1. disk'.data[o].lastcontacted = 0
  <2>1. disk'.data = disk.data \/ disk'.data = obj
    BY ClockAndFile
  <2> QED
    BY <1>0, <2>1
<1>2. ~(Wanted(o, "DOWN") /\ Contact[o] # {})
  BY ConfigAssumption DEF Silent, Wanted
<1>3. CASE Failed(o)
  BY <1>0, <1>1, <1>2, <1>3 DEF Failed, PageOutcome
<1>4. CASE FoundUp(o)
  BY <1>0, <1>1, <1>4 DEF FoundUp
<1>5. CASE Reminded(o)
  <2>1. obj'[o].lastcontacted = obj[o].lastcontacted
    BY <1>2, <1>5 DEF Reminded, PageOutcome
  <2> QED
    BY <1>0, <1>1, <2>1
<1>6. CASE LeftAlone(o)
  BY <1>0, <1>1, <1>6 DEF LeftAlone
<1>7. CASE Loaded(o)
  <2>1. obj'[o] = [disk.data[o] EXCEPT !.next_queuetime = 0] \/ obj'[o] = NewHostinfo
    BY <1>7 DEF Loaded, LoadState
  <2>2. disk.data[o] \in HostinfoType
    BY DEF TypeOK
  <2>3. obj'[o].lastcontacted = disk.data[o].lastcontacted \/ obj'[o].lastcontacted = 0
    <3>1. NewHostinfo.lastcontacted = 0
      BY DEF NewHostinfo
    <3>2. [disk.data[o] EXCEPT !.next_queuetime = 0].lastcontacted = disk.data[o].lastcontacted
      BY SMTT(30), <2>2 DEF HostinfoType
    <3> QED
      BY <2>1, <3>1, <3>2
  <2> QED
    BY <1>0, <1>1, <2>3
<1>8. CASE Afresh(o)
  <2>1. obj'[o] = NewHostinfo
    BY <1>8 DEF Afresh
  <2>2. NewHostinfo.lastcontacted = 0 /\ ~NewHostinfo.contacted
    BY DEF NewHostinfo
  <2> QED
    BY <1>1, <2>1, <2>2
<1> QED
  BY <1>3, <1>4, <1>5, <1>6, <1>7, <1>8, EveryObjectSteps DEF ObjectStep

\* No step of an object breaks Kept, as long as the writes succeed.
LEMMA KeptStep ==
  ASSUME FALSE \notin WriteOutcomes, TypeOK, TypeOK', [Next]_vars, Recent,
         NEW o \in Objects, NeverSaid(o), NeverSaid(o)', Kept(o)
  PROVE  Kept(o)'
<1> SUFFICES ASSUME running', obj'[o].contacted, obj'[o].lastcontacted > 0,
                    ~disk'.data[o].contacted
             PROVE  IF last' = 0 THEN obj'[o].lastcontacted = now'
                                 ELSE obj'[o].lastcontacted >= last'
  BY DEF Kept
<1>0. /\ now \in Nat /\ last \in Nat /\ obj[o].lastcontacted \in Nat
      /\ obj'[o].lastcontacted \in Nat /\ obj[o].contacted \in BOOLEAN
      /\ disk.data[o] \in HostinfoType
  BY DEF TypeOK, HostinfoType
<1>1. running /\ obj[o].contacted /\ obj[o].lastcontacted > 0 /\ ~disk.data[o].contacted
        => IF last = 0 THEN obj[o].lastcontacted = now ELSE obj[o].lastcontacted >= last
  BY DEF Kept
<1>2. FileStep
  BY EveryFileStep
<1>3. CASE UNCHANGED <<now, running, disk, last>>
  <2>1. \/ obj'[o].lastcontacted = now
        \/ obj[o].contacted /\ obj'[o].lastcontacted = obj[o].lastcontacted
    <3>0. ~Silent(o)
      BY SMTT(30) DEF NeverSaid
    <3>1. CASE Failed(o)
      <4>1. PICK retval \in Failures, m \in MailOutcomes :
              /\ PageDue(o, obj[o], retval) =>
                   PageOutcome(o, obj[o], obj'[o], Wanted(o, "DOWN"), now, m, Downs(o))
              /\ ~PageDue(o, obj[o], retval) =>
                   /\ obj'[o].contacted = obj[o].contacted
                   /\ obj'[o].lastcontacted = obj[o].lastcontacted
        BY <3>1 DEF Failed
      <4>2. CASE PageDue(o, obj[o], retval)
        <5>1. Wanted(o, "DOWN") <=> Donotify
          BY <4>2 DEF PageDue, Wanted
        <5>2. "mail" \in Contact[o] \/ ("spawn" \in Contact[o] /\ Wanted(o, "DOWN"))
          BY <3>0, <5>1 DEF Silent
        <5> QED
          BY <4>1, <4>2, <5>2 DEF PageOutcome
      <4> QED
        BY <4>1, <4>2
    <3>2. CASE FoundUp(o)
      BY <3>0, <3>2 DEF FoundUp
    <3>3. CASE Reminded(o)
      BY <3>3 DEF Reminded, PageOutcome
    <3>4. CASE LeftAlone(o)
      BY <3>4 DEF LeftAlone
    <3>5. ~Loaded(o) /\ ~Afresh(o)
      <4>1. NewHostinfo.contacted = FALSE
        BY DEF NewHostinfo
      <4> QED
        BY <1>3, <4>1 DEF Loaded, Afresh
    <3> QED
      BY <3>1, <3>2, <3>3, <3>4, <3>5, EveryObjectSteps DEF ObjectStep
  <2>2. CASE obj'[o].lastcontacted = now
    BY <1>0, <1>3, <2>2 DEF Recent
  <2>3. CASE obj[o].contacted /\ obj'[o].lastcontacted = obj[o].lastcontacted
    BY <1>1, <1>3, <2>3
  <2> QED
    BY <2>1, <2>2, <2>3
<1>4. CASE /\ now' = now + 1 /\ UNCHANGED <<running, obj, disk, last>>
           /\ running => last # 0 /\ now - last < CheckpointSecs
  BY <1>1, <1>4
<1>5. CASE /\ running /\ last' = now /\ UNCHANGED <<now, running, obj>>
           /\ (last = 0 /\ disk' = disk) \/ disk'.data = obj
  <2>1. last = 0 /\ disk' = disk
    BY <1>5
  <2>2. obj[o].lastcontacted = now
    BY <1>1, <1>5, <2>1
  <2> QED
    BY SMTT(30), <1>0, <1>5, <2>2
<1>6. CASE /\ last' = 0 /\ UNCHANGED <<now, disk>>
           /\ obj' = [p \in Objects |-> LoadState(p)]
  <2>1. obj'[o] = [disk.data[o] EXCEPT !.next_queuetime = 0] \/ obj'[o] = NewHostinfo
    BY <1>6 DEF LoadState
  <2>2. obj'[o].contacted = disk.data[o].contacted \/ obj'[o].contacted = FALSE
    <3>1. [disk.data[o] EXCEPT !.next_queuetime = 0].contacted = disk.data[o].contacted
      BY <1>0 DEF HostinfoType
    <3>2. NewHostinfo.contacted = FALSE
      BY DEF NewHostinfo
    <3> QED
      BY <2>1, <3>1, <3>2
  <2> QED
    BY <1>6, <2>2
<1> QED
  BY <1>2, <1>3, <1>4, <1>5, <1>6 DEF FileStep

\* What was said more than one checkpoint interval ago is in the file, for
\* every configuration and every checkpoint interval, as long as the writes
\* succeed: an unclean death then repeats nothing older than that.
THEOREM OldPagesAreOnDisk == Spec => []PagesSurviveCrash
<1> DEFINE Inv == FALSE \notin WriteOutcomes =>
                    Recent /\ \A o \in Objects : NeverSaid(o) /\ Kept(o)
<1>1. Init => Inv
  <2> SUFFICES ASSUME Init, NEW o \in Objects PROVE Recent /\ NeverSaid(o) /\ Kept(o)
    BY DEF Init, Recent
  <2> QED
    BY DEF Init, Recent, NeverSaid, Kept, NewHostinfo
<1>2. TypeOK /\ TypeOK' /\ Inv /\ [Next]_vars => Inv'
  <2> SUFFICES ASSUME TypeOK, TypeOK', [Next]_vars, FALSE \notin WriteOutcomes,
                      Recent, \A o \in Objects : NeverSaid(o) /\ Kept(o)
               PROVE  Recent' /\ \A o \in Objects : NeverSaid(o)' /\ Kept(o)'
    OBVIOUS
  <2> QED
    BY RecentStep, NeverSaidStep, KeptStep
<1>3. TypeOK /\ Inv => PagesSurviveCrash
  <2> SUFFICES ASSUME TypeOK, Recent, running, NEW o \in Objects, Kept(o),
                      obj[o].contacted, obj[o].lastcontacted > 0,
                      now - obj[o].lastcontacted > CheckpointSecs
               PROVE  disk.data[o].contacted
    BY SMTT(30) DEF PagesSurviveCrash
  <2>1. /\ now \in Nat /\ last \in Nat /\ CheckpointSecs \in Nat
        /\ obj[o].lastcontacted \in Nat /\ disk.data[o].contacted \in BOOLEAN
    BY ClockAssumption DEF TypeOK, HostinfoType
  <2> QED
    BY SMTT(30), <2>1 DEF Recent, Kept
<1> QED
  BY <1>1, <1>2, <1>3, TypeCorrect, PTL DEF Spec
=============================================================================
