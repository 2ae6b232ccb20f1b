----------------------------- MODULE DeltaSync ------------------------------
(***************************************************************************)
(* The status deltas of sysmon-web: the revision bookkeeping of service.go *)
(* (storeSnapshotLocked, pruneRemovedLocked, GetDelta) and the clients     *)
(* that keep a copy of the host list by asking ?since=<rev>: the apps'     *)
(* StatusStore and the dashboard's createStatusPoller.                     *)
(*                                                                         *)
(* A host's state is its hostSignature.  Statistics and the daemon block   *)
(* are sent whole in every answer and are not modelled.  Of two requests   *)
(* of a client with the same revision, or two equal answers to it, the     *)
(* second is left out while the first is still on its way.                 *)
(***************************************************************************)
EXTENDS Integers, FiniteSets, Functions

CONSTANTS
  Hosts,         (* the host keys that ever exist                           *)
  States,        (* the signatures a host may have                          *)
  Clients,
  Dashboards,    (* the clients that are dashboards; the others are apps    *)
  Scope,         (* per client, the hosts of the site it selects            *)
  MaxRemovedTracked,
  MaxPending,    (* how many requests a client may have under way           *)
  AcksInFlight,  (* whether invalidate may fall into a request              *)
  MaxRev,        (* bound: revisions                                        *)
  MaxBoots       (* bound: starts of sysmon-web                             *)

Absent == "absent"

ASSUME DeltaAssumption ==
  /\ Absent \notin States
  /\ IsFiniteSet(Hosts)
  /\ Dashboards \subseteq Clients
  /\ Scope \in [Clients -> SUBSET Hosts]
  /\ MaxRemovedTracked \in Nat \ {0}
  /\ MaxPending \in Nat /\ MaxRev \in Nat /\ MaxBoots \in Nat \ {0}
  /\ AcksInFlight \in BOOLEAN

VARIABLES
  snapshot,     (* cachedStatus: per host its state or Absent               *)
  primed,       (* cachedStatus # nil                                       *)
  rev, hostRev, removedAt, minDeltaRev,   (* 0: not in the map              *)
  boot,         (* which process sysmon-web is                              *)
  crev, index,  (* per client: its revision, its copy                       *)
  asked,        (* per client: the revisions of its requests on their way   *)
  answers,      (* per client: the answers on their way back                *)
  synced        (* history, per client: the process its last full list came *)
                (* from, 0 for none                                         *)

server == <<snapshot, primed, rev, hostRev, removedAt, minDeltaRev, boot>>
vars == <<server, crev, index, asked, answers, synced>>

View == [Hosts -> States \cup {Absent}]

\* what: "status" for the plain list, "full" or "delta" for a StatusDelta.
AnswerType ==
  [what : {"status", "full", "delta"}, rev : 0..MaxRev, boot : 1..MaxBoots,
   changed : UNION {[S -> States] : S \in SUBSET Hosts},
   removed : SUBSET Hosts]

TypeOK ==
  /\ snapshot \in View
  /\ primed \in BOOLEAN
  /\ rev \in 0..MaxRev /\ minDeltaRev \in 0..rev
  /\ hostRev \in [Hosts -> 0..rev] /\ removedAt \in [Hosts -> 0..rev]
  /\ boot \in 1..MaxBoots
  /\ crev \in [Clients -> 0..MaxRev]
  /\ index \in [Clients -> View]
  /\ asked \in [Clients -> SUBSET (0..MaxRev)]
  /\ answers \in [Clients -> SUBSET AnswerType]
  /\ synced \in [Clients -> 0..MaxBoots]

Nobody == [h \in Hosts |-> Absent]

Init ==
  /\ snapshot = Nobody /\ primed = FALSE
  /\ rev = 0 /\ minDeltaRev = 0
  /\ hostRev = [h \in Hosts |-> 0] /\ removedAt = [h \in Hosts |-> 0]
  /\ boot = 1
  /\ crev = [c \in Clients |-> 0]
  /\ index = [c \in Clients |-> Nobody]
  /\ asked = [c \in Clients |-> {}] /\ answers = [c \in Clients |-> {}]
  /\ synced = [c \in Clients |-> 0]

-----------------------------------------------------------------------------
(***************************************************************************)
(* The server.                                                             *)
(***************************************************************************)
Tracked(log) == {h \in Hosts : log[h] # 0}

\* revs[len(revs)-maxRemovedTracked] of the sorted revisions: as many of
\* them as are too many lie below it, or at it.
Cutoff(log) ==
  LET excess == Cardinality(Tracked(log)) - MaxRemovedTracked
  IN  CHOOSE r \in {log[h] : h \in Tracked(log)} :
        /\ Cardinality({h \in Tracked(log) : log[h] < r}) <= excess
        /\ Cardinality({h \in Tracked(log) : log[h] <= r}) > excess

\* Mutant: the log is cut and nobody is told.
PruneRemovedQuietly(log) ==
  IF Cardinality(Tracked(log)) <= MaxRemovedTracked
    THEN removedAt' = log /\ UNCHANGED minDeltaRev
    ELSE /\ removedAt' = [h \in Hosts |-> IF log[h] < Cutoff(log) THEN 0 ELSE log[h]]
         /\ UNCHANGED minDeltaRev

\* Mutant: clients that have seen everything are sent the whole list too.
PruneRemovedPast(log) ==
  IF Cardinality(Tracked(log)) <= MaxRemovedTracked
    THEN removedAt' = log /\ UNCHANGED minDeltaRev
    ELSE /\ removedAt' = [h \in Hosts |-> IF log[h] < Cutoff(log) THEN 0 ELSE log[h]]
         /\ minDeltaRev' = Cutoff(log) + 1

\* pruneRemovedLocked
PruneRemoved(log) ==
  IF Cardinality(Tracked(log)) <= MaxRemovedTracked
    THEN removedAt' = log /\ UNCHANGED minDeltaRev
    ELSE /\ removedAt' = [h \in Hosts |-> IF log[h] < Cutoff(log) THEN 0 ELSE log[h]]
         /\ minDeltaRev' = IF Cutoff(log) > minDeltaRev THEN Cutoff(log)
                                                        ELSE minDeltaRev

NextRev == rev + 1

\* Mutant: a host that comes back keeps its tombstone.
TombstonesKept(s) ==
  [h \in Hosts |-> IF s[h] = Absent /\ snapshot[h] # Absent
                     THEN NextRev ELSE removedAt[h]]

\* A host that is here is not removed; one that has just gone is.
Tombstones(s) ==
  [h \in Hosts |-> IF s[h] # Absent THEN 0
                   ELSE IF snapshot[h] # Absent THEN NextRev
                   ELSE removedAt[h]]

\* Refresh, or a GetStatus that fetches: storeSnapshotLocked.  A fetch that
\* fails changes nothing.
StoreSnapshot(s) ==
  /\ rev < MaxRev
  /\ snapshot' = s /\ primed' = TRUE
  /\ IF s = snapshot
       THEN UNCHANGED <<rev, hostRev, removedAt, minDeltaRev>>
       ELSE /\ rev' = NextRev
            /\ hostRev' = [h \in Hosts |-> IF s[h] = Absent THEN 0
                                           ELSE IF s[h] # snapshot[h] THEN NextRev
                                           ELSE hostRev[h]]
            /\ PruneRemoved(Tombstones(s))
  /\ UNCHANGED <<boot, crev, index, asked, answers, synced>>

\* NewService: the bookkeeping is in memory only.  Requests under way fail.
Restart ==
  /\ boot < MaxBoots
  /\ boot' = boot + 1
  /\ snapshot' = Nobody /\ primed' = FALSE
  /\ rev' = 0 /\ minDeltaRev' = 0
  /\ hostRev' = [h \in Hosts |-> 0] /\ removedAt' = [h \in Hosts |-> 0]
  /\ asked' = [c \in Clients |-> {}]
  /\ UNCHANGED <<crev, index, answers, synced>>

Present(c) == {h \in Scope[c] : snapshot[h] # Absent}

Resync(since) == since <= 0 \/ since < minDeltaRev \/ since > rev

Changed(c, since) == {h \in Present(c) : hostRev[h] > since}

Removed(c, since) == {h \in Scope[c] : removedAt[h] > since}

\* GetStatus and FilterSite for a request without ?since, GetDelta for one
\* with it.
Reply(c, since) ==
  LET full == Resync(since)
      sent == IF full THEN Present(c) ELSE Changed(c, since)
  IN  [what |-> IF since = 0 THEN "status" ELSE IF full THEN "full" ELSE "delta",
       rev |-> rev, boot |-> boot,
       changed |-> Restrict(snapshot, sent),
       removed |-> IF full THEN {} ELSE Removed(c, since)]

\* handleMonitoringStatus
Answer(c, since) ==
  /\ primed
  /\ since \in asked[c]
  /\ asked' = [asked EXCEPT ![c] = @ \ {since}]
  /\ answers' = [answers EXCEPT ![c] = @ \cup {Reply(c, since)}]
  /\ UNCHANGED <<server, crev, index, synced>>

-----------------------------------------------------------------------------
(***************************************************************************)
(* The clients.                                                            *)
(***************************************************************************)
Pending(c) == Cardinality(asked[c]) + Cardinality(answers[c])

\* A tick of the poll timer, a refresh by hand.
Poll(c) ==
  /\ Pending(c) < MaxPending
  /\ crev[c] \notin asked[c]
  /\ asked' = [asked EXCEPT ![c] = @ \cup {crev[c]}]
  /\ UNCHANGED <<server, crev, index, answers, synced>>

\* The request or its answer is lost, or the server says 503.
Fail(c) ==
  /\ \/ /\ \E since \in asked[c] : asked' = [asked EXCEPT ![c] = @ \ {since}]
        /\ UNCHANGED answers
     \/ /\ \E a \in answers[c] : answers' = [answers EXCEPT ![c] = @ \ {a}]
        /\ UNCHANGED asked
  /\ UNCHANGED <<server, crev, index, synced>>

\* Whether the client takes the answer for the whole list.  The dashboard
\* asks its own revision again, after the await.
TakenAsFull(c, a) == a.what # "delta" \/ (c \in Dashboards /\ crev[c] = 0)

Listed(a) == [h \in Hosts |-> IF h \in DOMAIN a.changed THEN a.changed[h] ELSE Absent]

Patched(c, a) ==
  [h \in Hosts |-> IF h \in DOMAIN a.changed THEN a.changed[h]
                   ELSE IF h \in a.removed THEN Absent
                   ELSE index[c][h]]

\* Mutant: an answer with removals is refused by the client's decoder.
ApplyUndecoded(c, a) ==
  /\ a \in answers[c]
  /\ answers' = [answers EXCEPT ![c] = @ \ {a}]
  /\ IF a.removed # {} THEN UNCHANGED <<index, crev, synced>>
     ELSE /\ index' = [index EXCEPT ![c] = IF TakenAsFull(c, a) THEN Listed(a)
                                                                 ELSE Patched(c, a)]
          /\ crev' = [crev EXCEPT ![c] = a.rev]
          /\ synced' = [synced EXCEPT ![c] = IF a.what # "delta" THEN a.boot ELSE @]
  /\ UNCHANGED <<server, asked>>

\* The rest of poll(), or of fetch(): applyFull, applyDelta.
Apply(c, a) ==
  /\ a \in answers[c]
  /\ answers' = [answers EXCEPT ![c] = @ \ {a}]
  /\ index' = [index EXCEPT ![c] = IF TakenAsFull(c, a) THEN Listed(a)
                                                         ELSE Patched(c, a)]
  /\ crev' = [crev EXCEPT ![c] = a.rev]
  /\ synced' = [synced EXCEPT ![c] = IF a.what # "delta" THEN a.boot ELSE @]
  /\ UNCHANGED <<server, asked>>

\* invalidate(), after an acknowledgement or a note.
Invalidate(c) ==
  /\ c \in Dashboards
  /\ AcksInFlight \/ Pending(c) = 0
  /\ crev' = [crev EXCEPT ![c] = 0]
  /\ UNCHANGED <<server, index, asked, answers, synced>>

\* reset() on logout, or a reload of the page: the poll under way is
\* cancelled with the rest.
Reset(c) ==
  /\ crev' = [crev EXCEPT ![c] = 0]
  /\ index' = [index EXCEPT ![c] = Nobody]
  /\ asked' = [asked EXCEPT ![c] = {}] /\ answers' = [answers EXCEPT ![c] = {}]
  /\ synced' = [synced EXCEPT ![c] = 0]
  /\ UNCHANGED server

Next ==
  \/ \E s \in View : StoreSnapshot(s)
  \/ Restart
  \/ \E c \in Clients :
       \/ \E since \in asked[c] : Answer(c, since)
       \/ \E a \in answers[c] : Apply(c, a)
       \/ Poll(c) \/ Fail(c) \/ Invalidate(c) \/ Reset(c)

Spec == Init /\ [][Next]_vars

\* The server fetches, clients poll on a timer, and not every request and
\* every answer is lost.
FairSpec ==
  /\ Spec
  /\ WF_vars(\E s \in View : ~primed /\ StoreSnapshot(s))
  /\ \A c \in Clients :
       /\ WF_vars(Poll(c))
       /\ SF_vars(\E since \in asked[c] : Answer(c, since))
       /\ SF_vars(\E a \in answers[c] : Apply(c, a))

-----------------------------------------------------------------------------
(***************************************************************************)
(* Properties.                                                             *)
(***************************************************************************)

\* The client shows every host of its site as the server last saw it.
Current(c) == \A h \in Scope[c] : index[c][h] = snapshot[h]

\* Where a client's copy differs from the snapshot, its next poll repairs
\* it: the revision it will send gets the whole list, or the host is in the
\* delta (GetDelta with the bookkeeping of storeSnapshotLocked and
\* pruneRemovedLocked).  For clients whose list came from this process.
NothingForgotten ==
  \A c \in Clients : synced[c] = boot =>
    \A h \in Scope[c] :
      \/ index[c][h] = snapshot[h]
      \/ Resync(crev[c])
      \/ h \in Changed(c, crev[c]) \cup Removed(c, crev[c])

\* No answer both changes and removes a host ("Deleting on return is what
\* makes the two lists disjoint"): the apps and the dashboard apply the two
\* lists in different orders.
ListsDisjoint ==
  \A c \in Clients : \A a \in answers[c] : DOMAIN a.changed \cap a.removed = {}

\* "`hosts` is always the complete current list": a client that has seen the
\* newest revision of this process, and has nothing under way, holds the
\* newest snapshot.
HostsCompleteCurrent ==
  \A c \in Clients :
    synced[c] = boot /\ crev[c] = rev /\ rev > 0 /\ Pending(c) = 0 => Current(c)

\* Once the fleet stops changing, every client comes to show it, whatever was
\* lost on the way; one that outlived a restart of sysmon-web without getting
\* the whole list again is excepted.  Under FairSpec.
Converges ==
  \A c \in Clients : []<>(Current(c) \/ synced[c] \notin {0, boot})
=============================================================================
