---------------------------- MODULE SourcesProofs ----------------------------
(***************************************************************************)
(* What holds of the source check and of its announcements for any pull    *)
(* requests, issues and commits, however long GitHub and the runs go on:   *)
(* an event is announced at most once and leaves the queue only when it    *)
(* was, every merge is queued or announced, and current evidence is        *)
(* current.                                                                *)
(*                                                                         *)
(* OnceInv says what the records on the branch and in the clone tell of    *)
(* the chat; KnowInv what the state that a scan wrote tells of GitHub, and *)
(* what the two requests of a scan still cover when they are put together. *)
(***************************************************************************)
EXTENDS Sources, TLAPS

Statuses == {"none", "sending", "delivered", "failed", "ambiguous"}
PullStates == {"none", "open", "closed", "merged"}

\* Pull requests at GitHub, and what the bot keeps of them.
PullType == [state : PullStates, head : Heads \cup {NoHead}, created : Times,
             updated : Times, merged : Times]
KnownType == [state : PullStates, head : Heads \cup {NoHead}, updated : Times]

RepositoryType == [initialized : Times, checked : Times, pulls : [Pulls -> KnownType],
                   issues : SUBSET Issues]

\* Events with an identifier.
Events == {e \in [kind : {"opened", "updated", "merged", "issue"}, item : Pulls \cup Issues,
                  head : Heads \cup {NoHead}, at : Times] : Id(e) \in Ids}

States == [baseline : BOOLEAN, repo : RepositoryType, pending : SUBSET Events,
           records : [Ids -> Statuses], page : BOOLEAN]

\* An open pull request, and what a scan reads of the open items.
OpenType == [state : {"open"}, head : Heads, created : Times, updated : Times,
             merged : Times]
Snapshots == [listed : BOOLEAN, pulls : UNION {[S -> OpenType] : S \in SUBSET Pulls},
              issues : SUBSET Issues]

Runs == [at : Times, commit : States, tries : 0..1, page : BOOLEAN, snapshot : Snapshots,
         tried : SUBSET Ids, id : Ids \cup {<<>>}, outcome : Statuses]

Places == {"off", "scoped", "open", "closed", "deliver", "sending", "result",
           "acknowledge", "final"}

\* A pull request that has been opened has a head; a merge is its last update.
Coherent(x) ==
    /\ x.state # "none" => x.head \in Heads
    /\ x.state = "merged" => x.merged = x.updated

GitHubType ==
    /\ clock \in 0..MaxTime
    /\ listed \in BOOLEAN
    /\ pulls \in [Pulls -> PullType] /\ \A p \in Pulls : Coherent(pulls[p])
    /\ issues \in [Issues -> Times]
    /\ changes \in 0..MaxChanges

CloneType ==
    /\ remote \in States /\ disk \in States
    /\ pc \in Places
    /\ run \in Runs
    /\ faults \in 0..MaxFaults

\* The event a delivery is about.
Delivering == pc \in {"sending", "result", "acknowledge"} => run.id \in Ids

TypeOK == GitHubType /\ CloneType /\ posted \in [Ids -> Nat] /\ Delivering

-----------------------------------------------------------------------------
\* What the records of state d tell of the chat ps.
Truthful(d, ps) ==
    \A i \in Ids :
        /\ ps[i] > 0 => d.records[i] \in {"sending", "delivered", "ambiguous"}
        /\ d.records[i] = "delivered" => ps[i] = 1

\* Branch, clone and chat: the clone has lost no event but those announced.
StoreInv ==
    /\ \A i \in Ids : posted[i] <= 1
    /\ Truthful(remote, posted)
    /\ pc # "off" => /\ Truthful(disk, posted)
                     /\ \A e \in remote.pending \ disk.pending : posted[Id(e)] = 1

\* What a run relies on at each place: an intent is pushed before the request
\* to Telegram, an outcome before the acknowledgement.
PlaceInv ==
    /\ pc \notin {"off", "final"} => run.commit.records = disk.records
    /\ pc \in {"sending", "result"} => /\ disk.records[run.id] = "sending"
                                       /\ remote.records[run.id] = "sending"
    /\ pc = "sending" => posted[run.id] = 0
    /\ pc = "result" => /\ run.outcome = "delivered" => posted[run.id] = 1
                        /\ run.outcome = "failed" => posted[run.id] = 0
                        /\ run.outcome \in {"delivered", "failed", "ambiguous"}
    /\ pc = "acknowledge" => disk.records[run.id] = "delivered"

OnceInv == StoreInv /\ PlaceInv

-----------------------------------------------------------------------------
\* State d has a merge of p in the queue, or delivered.
Announced(d, p, h) ==
    \/ d.records[<<"merged", p, h>>] = "delivered"
    \/ \E e \in d.pending : Id(e) = <<"merged", p, h>>

\* What state d knows of pull request p, which is x at GitHub: how it was at the last
\* check, unless it has changed since, and its merge once the check is past it.
Knows(d, p, x) ==
    /\ d.repo.pulls[p].state # "none" => x.state # "none"
    /\ d.repo.pulls[p].state = "merged" => x.state = "merged"
    /\ d.repo.pulls[p].state # "none" /\ x.updated < d.repo.checked
         => d.repo.pulls[p] = Known(x)
    /\ (/\ x.state = "merged"
        /\ d.repo.initialized # Never
        /\ \/ d.repo.pulls[p].state = "merged"
           \/ d.repo.initialized <= x.merged /\ x.merged < d.repo.checked)
       => Announced(d, p, x.head)

Sound(d, gh, t) ==
    /\ d.repo.checked <= t
    /\ \A p \in Pulls : Knows(d, p, gh[p])

\* What a scan that began at time a has read of the open items: each of them is
\* as it was, or has changed since the scan began.
Read(s, gh, a) ==
    /\ \A p \in DOMAIN s.pulls :
          /\ gh[p].state # "none"
          /\ gh[p] = s.pulls[p] \/ gh[p].updated >= a
    /\ s.listed => \A p \in Pulls : gh[p].state = "open" /\ gh[p].updated < a
                                      => p \in DOMAIN s.pulls

KnowInv ==
    /\ Sound(remote, pulls, clock)
    /\ run.at <= clock
    /\ pc # "off" => Sound(disk, pulls, clock)
    /\ pc = "closed" => Read(run.snapshot, pulls, run.at)

-----------------------------------------------------------------------------
(* The types *)

\* An empty repository has its type.
LEMMA NewStateType == NewState \in States
<1>1. Never \in Times /\ Known(NoPull) \in KnownType
  BY DEF Times, Never, Known, NoPull, KnownType, PullStates
<1>2. [p \in Pulls |-> Known(NoPull)] \in [Pulls -> KnownType]
  BY <1>1
<1>3. NoRepository \in RepositoryType
  BY <1>1, <1>2 DEF NoRepository, RepositoryType
<1>4. [i \in Ids |-> "none"] \in [Ids -> Statuses]
  BY DEF Statuses
<1> QED
  BY <1>3, <1>4 DEF NewState, States

\* Nothing has been read.
LEMMA NoSnapshotType == NoSnapshot \in Snapshots
<1>1. <<>> \in [{} -> OpenType]
  OBVIOUS
<1>2. <<>> \in UNION {[S -> OpenType] : S \in SUBSET Pulls}
  BY <1>1
<1> QED
  BY <1>2 DEF NoSnapshot, Snapshots

\* The memory of a run that starts.
LEMMA StartedType ==
    ASSUME NEW d \in States, NEW t \in Times, NEW tries \in 0..1
    PROVE  /\ Started(d, t, tries) \in Runs
           /\ Started(d, t, tries).at = t
           /\ Started(d, t, tries).commit = d
BY NoSnapshotType DEF Started, Runs, Statuses

\* Seconds are times.
LEMMA ClockTime == clock \in 0..MaxTime => clock \in Times
BY DEF Times

\* What a scan reads of the open items.
LEMMA OpenItemsType == GitHubType => OpenItems \in Snapshots
<1> SUFFICES ASSUME GitHubType PROVE OpenItems \in Snapshots
  OBVIOUS
<1> DEFINE S == {x \in Pulls : pulls[x].state = "open"}
<1>1. \A p \in S : pulls[p] \in OpenType
  BY DEF GitHubType, PullType, OpenType, Coherent
<1>2. [p \in S |-> pulls[p]] \in [S -> OpenType] /\ S \in SUBSET Pulls
  BY <1>1
<1>3. [p \in S |-> pulls[p]] \in UNION {[T -> OpenType] : T \in SUBSET Pulls}
  BY <1>2
<1> QED
  BY <1>3, NoSnapshotType DEF OpenItems, Snapshots

\* A snapshot holds pull requests.
LEMMA SnapshotPulls ==
    ASSUME NEW s \in Snapshots
    PROVE  /\ DOMAIN s.pulls \subseteq Pulls
           /\ \A p \in DOMAIN s.pulls : /\ s.pulls[p] \in PullType
                                        /\ s.pulls[p].state = "open"
                                        /\ s.pulls[p].head \in Heads
           /\ s.issues \subseteq Issues /\ s.listed \in BOOLEAN
<1>1. PICK S \in SUBSET Pulls : s.pulls \in [S -> OpenType]
  BY DEF Snapshots
<1>2. \A x \in OpenType : x \in PullType /\ x.state = "open" /\ x.head \in Heads
  BY DEF OpenType, PullType, PullStates
<1> QED
  BY <1>1, <1>2 DEF Snapshots

\* What the bot keeps of a pull request.
LEMMA KnownTyped == ASSUME NEW x \in PullType PROVE Known(x) \in KnownType
BY DEF Known, PullType, KnownType

\* The repository after a silent baseline.
LEMMA BaselineType ==
    ASSUME NEW t \in Times, NEW s \in Snapshots
    PROVE  Baseline(t, s) \in RepositoryType
<1>1. NoRepository \in RepositoryType
  BY NewStateType DEF NewState, States
<1>2. Known(NoPull) \in KnownType
  BY DEF Times, Never, Known, NoPull, KnownType, PullStates
<1>3. [p \in Pulls |-> IF p \in DOMAIN s.pulls THEN Known(s.pulls[p]) ELSE Known(NoPull)]
        \in [Pulls -> KnownType]
  BY <1>2, SnapshotPulls, KnownTyped
<1>4. s.issues \subseteq Issues
  BY SnapshotPulls
<1> QED
  BY <1>1, <1>3, <1>4 DEF Baseline, RepositoryType

\* The recently closed pull requests.
LEMMA ClosedPulls ==
    ASSUME GitHubType, NEW since \in Times
    PROVE  LET closed == RecentlyClosed(since)
           IN  /\ DOMAIN closed = {x \in Pulls : /\ pulls[x].state \in {"closed", "merged"}
                                                 /\ pulls[x].updated >= since}
               /\ \A p \in DOMAIN closed : closed[p] = pulls[p] /\ closed[p] \in PullType
BY DEF GitHubType, RecentlyClosed

\* The repository after a check.
LEMMA RepositoryAfterType ==
    ASSUME GitHubType, disk \in States, NEW s \in Snapshots, NEW t \in Times, NEW since \in Times
    PROVE  RepositoryAfter(s, RecentlyClosed(since), t) \in RepositoryType
<1> DEFINE closed == RecentlyClosed(since)
<1>1. \A p \in DOMAIN closed : closed[p] \in PullType
  BY ClosedPulls
<1> HIDE DEF closed
<1>2. disk.repo \in RepositoryType
  BY DEF States
<1>3. [p \in Pulls |-> IF p \in DOMAIN closed THEN Known(closed[p])
                       ELSE IF p \in DOMAIN s.pulls THEN Known(s.pulls[p])
                       ELSE disk.repo.pulls[p]] \in [Pulls -> KnownType]
  BY <1>1, <1>2, SnapshotPulls, KnownTyped DEF RepositoryType
<1>4. disk.repo.issues \cup s.issues \subseteq Issues
  BY <1>2, SnapshotPulls DEF RepositoryType
<1>5. Reconciled(disk.repo, s, closed, t) \in RepositoryType
  BY <1>2, <1>3, <1>4 DEF Reconciled, RepositoryType
<1> QED
  BY <1>5, BaselineType DEF RepositoryAfter, closed

\* The events of a check.
LEMMA NewEventsType ==
    ASSUME GitHubType, disk \in States, NEW s \in Snapshots, NEW since \in Times
    PROVE  NewEvents(s, RecentlyClosed(since)) \in SUBSET Events
<1> DEFINE closed == RecentlyClosed(since)
<1>1. \A p \in DOMAIN closed : closed[p] = pulls[p] /\ closed[p] \in PullType /\ p \in Pulls
  BY ClosedPulls
<1> HIDE DEF closed
<1>2. ASSUME NEW p \in Pulls, NEW h \in Heads, NEW t \in Times,
             NEW kind \in {"opened", "updated", "merged"}
      PROVE  Event(kind, p, h, t) \in Events
  BY <1>2 DEF Event, Events, Id, Ids
<1>3. ASSUME NEW i \in Issues, NEW t \in Times
      PROVE  Event("issue", i, NoHead, t) \in Events
  BY <1>3 DEF Event, Events, Id, Ids
<1>4. OpenedAndUpdated(disk.repo, s.pulls, closed) \subseteq Events
  <2>1. \A p \in DOMAIN s.pulls : /\ p \in Pulls /\ s.pulls[p].head \in Heads
                                  /\ s.pulls[p].created \in Times /\ s.pulls[p].updated \in Times
    BY SnapshotPulls DEF PullType
  <2> QED
    BY <1>2, <2>1 DEF OpenedAndUpdated
<1>5. Merged(disk.repo, closed) \subseteq Events
  <2>1. \A p \in DOMAIN closed : closed[p].state = "merged"
          => p \in Pulls /\ closed[p].head \in Heads /\ closed[p].merged \in Times
    BY <1>1 DEF GitHubType, Coherent, PullType
  <2> QED
    BY <1>2, <2>1 DEF Merged
<1>6. NewIssues(disk.repo, s.issues) \subseteq Events
  <2>1. \A i \in s.issues : i \in Issues /\ issues[i] \in Times
    BY SnapshotPulls DEF GitHubType
  <2> QED
    BY <1>3, <2>1 DEF NewIssues
<1> QED
  BY <1>4, <1>5, <1>6 DEF NewEvents, closed

-----------------------------------------------------------------------------
(* GitHub *)

\* What may become of pull request x at time t: nothing, or an update, which no
\* merged one gets.
Later(x, y, t) ==
    \/ y = x
    \/ x.state # "merged" /\ y.state # "none" /\ y.updated = t

\* The updates of a pull request: other commits, another state, a merge.
WithHead(x, h, t) == [x EXCEPT !.head = h, !.updated = t]
InState(x, st, t) == [x EXCEPT !.state = st, !.updated = t]
MergedAt(x, t) == [x EXCEPT !.state = "merged", !.updated = t, !.merged = t]

\* An update changes what it names.
LEMMA UpdateEffect ==
    ASSUME NEW x \in PullType, NEW t \in Times
    PROVE  /\ \A h \in Heads : /\ WithHead(x, h, t) \in PullType
                               /\ WithHead(x, h, t).state = x.state
                               /\ WithHead(x, h, t).head = h
                               /\ WithHead(x, h, t).updated = t
           /\ \A st \in PullStates : /\ InState(x, st, t) \in PullType
                                     /\ InState(x, st, t).state = st
                                     /\ InState(x, st, t).head = x.head
                                     /\ InState(x, st, t).updated = t
           /\ MergedAt(x, t) \in PullType
           /\ MergedAt(x, t).state = "merged" /\ MergedAt(x, t).head = x.head
           /\ MergedAt(x, t).updated = t /\ MergedAt(x, t).merged = t
<1>1. ASSUME NEW h \in Heads
      PROVE  /\ WithHead(x, h, t) \in PullType
             /\ WithHead(x, h, t).state = x.state /\ WithHead(x, h, t).head = h
             /\ WithHead(x, h, t).updated = t
  <2> DEFINE y == [x EXCEPT !.head = h]
  <2>1. y \in PullType /\ y.head = h /\ y.state = x.state
    BY DEF PullType
  <2>2. WithHead(x, h, t) = [y EXCEPT !.updated = t]
    BY DEF WithHead
  <2> HIDE DEF y
  <2> QED
    BY <2>1, <2>2 DEF PullType
<1>2. ASSUME NEW st \in PullStates
      PROVE  /\ InState(x, st, t) \in PullType
             /\ InState(x, st, t).state = st /\ InState(x, st, t).head = x.head
             /\ InState(x, st, t).updated = t
  <2> DEFINE y == [x EXCEPT !.state = st]
  <2>1. y \in PullType /\ y.head = x.head /\ y.state = st
    BY DEF PullType
  <2>2. InState(x, st, t) = [y EXCEPT !.updated = t]
    BY DEF InState
  <2> HIDE DEF y
  <2> QED
    BY <2>1, <2>2 DEF PullType
<1>3. /\ MergedAt(x, t) \in PullType
      /\ MergedAt(x, t).state = "merged" /\ MergedAt(x, t).head = x.head
      /\ MergedAt(x, t).updated = t /\ MergedAt(x, t).merged = t
  <2> DEFINE y == InState(x, "merged", t)
  <2>1. y \in PullType /\ y.state = "merged" /\ y.head = x.head /\ y.updated = t
    BY <1>2 DEF PullStates
  <2>2. MergedAt(x, t) = [y EXCEPT !.merged = t]
    BY DEF InState, MergedAt
  <2> HIDE DEF y
  <2> QED
    BY <2>1, <2>2 DEF PullType
<1> QED
  BY <1>1, <1>2, <1>3

\* A step of GitHub.
LEMMA GitHubEffect ==
    ASSUME TypeOK, GitHub
    PROVE  /\ UNCHANGED worker
           /\ GitHubType'
           /\ clock <= clock'
           /\ \A p \in Pulls : Later(pulls[p], pulls'[p], clock)
<1>0. /\ UNCHANGED worker /\ clock \in 0..MaxTime /\ clock \in Times /\ clock \in Int
      /\ pulls \in [Pulls -> PullType] /\ issues \in [Issues -> Times] /\ listed \in BOOLEAN
      /\ changes \in 0..MaxChanges /\ MaxTime \in Nat /\ MaxChanges \in Nat
      /\ \A p \in Pulls : Coherent(pulls[p])
  BY SourcesAssumption, ClockTime DEF GitHub, TypeOK, GitHubType
<1>1. Happens => changes' \in 0..MaxChanges
  BY <1>0 DEF Happens
<1>2. CASE Time
  BY <1>0, <1>2 DEF Time, GitHubType, Later, Times
<1>3. CASE List
  BY <1>0, <1>1, <1>3 DEF List, GitHubType, Later
<1>4. ASSUME NEW i \in Issues, OpenIssue(i)
      PROVE  GitHubType' /\ clock' = clock /\ pulls' = pulls
  BY <1>0, <1>1, <1>4 DEF OpenIssue, GitHubType
<1>5. ASSUME NEW p \in Pulls, NEW to \in PullType, Change(p, to), Later(pulls[p], to, clock),
             Coherent(to)
      PROVE  /\ GitHubType' /\ clock <= clock'
             /\ \A q \in Pulls : Later(pulls[q], pulls'[q], clock)
  <2>1. /\ pulls' = [pulls EXCEPT ![p] = to] /\ UNCHANGED <<clock, listed, issues>> /\ Happens
    BY <1>5 DEF Change
  <2>2. \A q \in Pulls : pulls'[q] = IF q = p THEN to ELSE pulls[q]
    BY <1>0, <2>1
  <2>3. GitHubType'
    BY <1>0, <1>1, <1>5, <2>1, <2>2 DEF GitHubType
  <2> QED
    BY <1>0, <1>5, <2>1, <2>2, <2>3 DEF Later
<1>6. ASSUME NEW p \in Pulls, OpenPull(p) \/ PushCommits(p) \/ ClosePull(p) \/ Reopen(p)
      PROVE  \E to \in PullType : /\ Change(p, to) /\ Later(pulls[p], to, clock)
                                  /\ Coherent(to)
  <2>0. pulls[p] \in PullType /\ Coherent(pulls[p])
    BY <1>0
  <2>1. CASE OpenPull(p)
    <3>1. PICK h \in Heads : Change(p, [state |-> "open", head |-> h, created |-> clock,
                                        updated |-> clock, merged |-> Never])
      BY <2>1 DEF OpenPull
    <3>2. [state |-> "open", head |-> h, created |-> clock, updated |-> clock,
           merged |-> Never] \in PullType
      BY <1>0 DEF PullType, PullStates, Times, Never
    <3> QED
      BY <2>1, <3>1, <3>2 DEF OpenPull, Later, Coherent
  <2>2. CASE PushCommits(p)
    <3>1. PICK h \in Heads : Change(p, WithHead(pulls[p], h, clock))
      BY <2>2 DEF PushCommits, WithHead
    <3>2. pulls[p].state = "open"
      BY <2>2 DEF PushCommits
    <3> DEFINE to == WithHead(pulls[p], h, clock)
    <3>3. /\ to \in PullType /\ to.state = pulls[p].state /\ to.head = h
          /\ to.updated = clock
      BY <1>0, <2>0, UpdateEffect
    <3>4. Later(pulls[p], to, clock) /\ Coherent(to)
      BY <3>2, <3>3 DEF Later, Coherent
    <3> QED
      BY <3>1, <3>3, <3>4
  <2>3. CASE ClosePull(p)
    <3>1. \/ Change(p, InState(pulls[p], "closed", clock))
          \/ Change(p, MergedAt(pulls[p], clock))
      BY <2>3 DEF ClosePull, InState, MergedAt
    <3>2. pulls[p].state = "open" /\ pulls[p].head \in Heads
      BY <2>0, <2>3 DEF ClosePull, Coherent
    <3> DEFINE closed == InState(pulls[p], "closed", clock)
               merged == MergedAt(pulls[p], clock)
    <3>3. /\ closed \in PullType /\ closed.state = "closed"
          /\ closed.head = pulls[p].head /\ closed.updated = clock
      BY <1>0, <2>0, UpdateEffect DEF PullStates
    <3>4. /\ merged \in PullType /\ merged.state = "merged" /\ merged.merged = clock
          /\ merged.head = pulls[p].head /\ merged.updated = clock
      BY <1>0, <2>0, UpdateEffect
    <3>5. /\ Later(pulls[p], closed, clock) /\ Coherent(closed)
          /\ Later(pulls[p], merged, clock) /\ Coherent(merged)
      BY <3>2, <3>3, <3>4 DEF Later, Coherent
    <3> QED
      BY <3>1, <3>3, <3>4, <3>5
  <2>4. CASE Reopen(p)
    <3>1. Change(p, InState(pulls[p], "open", clock))
      BY <2>4 DEF Reopen, InState
    <3>2. pulls[p].state = "closed" /\ pulls[p].head \in Heads
      BY <2>0, <2>4 DEF Reopen, Coherent
    <3> DEFINE to == InState(pulls[p], "open", clock)
    <3>3. /\ to \in PullType /\ to.state = "open" /\ to.head = pulls[p].head
          /\ to.updated = clock
      BY <1>0, <2>0, UpdateEffect DEF PullStates
    <3>4. Later(pulls[p], to, clock) /\ Coherent(to)
      BY <3>2, <3>3 DEF Later, Coherent
    <3> QED
      BY <3>1, <3>3, <3>4
  <2> QED
    BY <1>6, <2>1, <2>2, <2>3, <2>4
<1> QED
  BY <1>0, <1>2, <1>3, <1>4, <1>5, <1>6 DEF GitHub, Later

-----------------------------------------------------------------------------
(* The clone and its checkpoints *)

\* A commit changes nothing else in the memory of the run.
LEMMA CommitEffect ==
    ASSUME NEW r \in Runs, NEW c \in States
    PROVE  LET q == [r EXCEPT !.commit = c]
           IN  /\ q \in Runs /\ q.commit = c
               /\ q.at = r.at /\ q.id = r.id /\ q.outcome = r.outcome /\ q.tries = r.tries
               /\ q.snapshot = r.snapshot /\ q.tried = r.tried /\ q.page = r.page
BY DEF Runs

\* The clone is dropped, and the run is replayed from the head or ends.
Restarted ==
    /\ remote' = remote
    /\ run' \in Runs /\ run'.at = run.at
    /\ \/ pc' = "scoped" /\ disk' = remote /\ run'.commit = remote
       \/ pc' = "off" /\ disk' = NewState

\* The outcomes of a checkpoint that finds d in the working tree.
Saved(d, r, there) ==
    /\ remote' \in {remote, d}
    /\ d # run.commit => remote' = d
    /\ disk' = d /\ pc' = there
    /\ run' = [r EXCEPT !.commit = d]

NotSaved(d, r, elsewhere) ==
    /\ remote' \in {remote, d}
    /\ disk' = d /\ pc' = elsewhere
    /\ \E c \in {run.commit, d} : run' = [r EXCEPT !.commit = c]

\* A fault keeps its count within the bound.
LEMMA FaultType == ASSUME faults \in 0..MaxFaults, Fault PROVE faults' \in 0..MaxFaults
BY SourcesAssumption DEF Fault

\* The clone is dropped at the end of a run.
LEMMA StopEffect ==
    ASSUME run \in Runs, Stop
    PROVE  disk' = NewState /\ pc' = "off" /\ run' \in Runs /\ run'.at = run.at
<1>1. run.at \in Times /\ 0 \in 0..1
  BY DEF Runs
<1> QED
  BY <1>1, NewStateType, StartedType DEF Stop, Goto

\* A refused push replays the run from the head, or ends it.
LEMMA ConflictEffect ==
    ASSUME CloneType, Conflict
    PROVE  Restarted /\ CloneType'
<1>0. run.at \in Times /\ 1 \in 0..1 /\ remote \in States /\ run \in Runs
  BY DEF CloneType, Runs
<1>1. faults' \in 0..MaxFaults /\ remote' = remote
  BY FaultType DEF CloneType, Conflict
<1>2. CASE run.tries = 0
  <2>1. disk' = remote /\ pc' = "scoped" /\ run' = Started(remote, run.at, 1)
    BY <1>2 DEF Conflict, Begin, Goto
  <2>2. run' \in Runs /\ run'.at = run.at /\ run'.commit = remote
    BY <1>0, <2>1, StartedType
  <2> QED
    BY <1>0, <1>1, <2>1, <2>2 DEF Restarted, CloneType, Places
<1>3. CASE run.tries # 0
  <2>1. Stop
    BY <1>3 DEF Conflict
  <2> QED
    BY <1>0, <1>1, <2>1, StopEffect, NewStateType DEF Restarted, CloneType, Places
<1> QED
  BY <1>2, <1>3

\* What a checkpoint can do.
LEMMA CheckpointEffect ==
    ASSUME CloneType, NEW d \in States, NEW r \in Runs, NEW there \in Places,
           NEW elsewhere \in Places, Checkpoint(d, r, there, elsewhere)
    PROVE  /\ Saved(d, r, there) \/ NotSaved(d, r, elsewhere) \/ Restarted
           /\ CloneType'
           /\ UNCHANGED github
<1>0. UNCHANGED github
  BY DEF Checkpoint
<1>1. CASE /\ remote' \in Pushed(d) /\ disk' = d /\ run' = [r EXCEPT !.commit = d]
           /\ Goto(there) /\ UNCHANGED faults
  <2>1. Saved(d, r, there)
    BY <1>1 DEF Saved, Pushed, Goto
  <2> QED
    BY <1>0, <1>1, <2>1, CommitEffect DEF Saved, CloneType
<1>2. CASE /\ Fault /\ remote' \in {remote, d} /\ disk' = d /\ Goto(elsewhere)
           /\ \E commit \in {run.commit, d} :
                 /\ remote' # remote => commit = d
                 /\ run' = [r EXCEPT !.commit = commit]
  <2>1. NotSaved(d, r, elsewhere)
    BY <1>2 DEF NotSaved, Goto
  <2>2. PICK c \in States : run' = [r EXCEPT !.commit = c]
    BY <1>2 DEF CloneType, Runs
  <2> QED
    BY <1>0, <1>2, <2>1, <2>2, CommitEffect, FaultType DEF NotSaved, CloneType
<1>3. CASE Conflict
  BY <1>0, <1>3, ConflictEffect
<1> QED
  BY <1>1, <1>2, <1>3 DEF Checkpoint

\* A worker that dies leaves nothing but the head of the branch.
LEMMA CrashEffect ==
    ASSUME CloneType, Crash
    PROVE  Restarted /\ CloneType'
<1>1. Stop /\ remote' = remote /\ faults' \in 0..MaxFaults
  BY FaultType DEF Crash, CloneType
<1> QED
  BY <1>1, StopEffect, NewStateType DEF Restarted, CloneType, Places

\* deliver writes the record of one announcement and nothing else.
LEMMA RecordedEffect ==
    ASSUME disk \in States, NEW i \in Ids, NEW st \in Statuses
    PROVE  /\ Recorded(i, st) \in States
           /\ Recorded(i, st).repo = disk.repo
           /\ Recorded(i, st).pending = disk.pending
           /\ Recorded(i, st).records = [disk.records EXCEPT ![i] = st]
BY DEF Recorded, States

\* An event that was tried is remembered.
LEMMA TriedEffect ==
    ASSUME run \in Runs, NEW e \in Events
    PROVE  /\ Tried(e) \in Runs /\ Tried(e).at = run.at /\ Tried(e).commit = run.commit
           /\ Trying(e) \in Runs /\ Trying(e).at = run.at /\ Trying(e).commit = run.commit
           /\ Trying(e).id = Id(e) /\ Id(e) \in Ids
<1>1. Id(e) \in Ids
  BY DEF Events
<1> HIDE DEF Id
<1>2. Tried(e) \in Runs /\ Tried(e).at = run.at /\ Tried(e).commit = run.commit
  BY <1>1 DEF Tried, Runs
<1>3. ASSUME NEW r \in Runs
      PROVE  LET q == [r EXCEPT !.id = Id(e)]
             IN  q \in Runs /\ q.at = r.at /\ q.commit = r.commit /\ q.id = Id(e)
  BY <1>1 DEF Runs
<1> QED
  BY <1>1, <1>2, <1>3 DEF Trying

-----------------------------------------------------------------------------
(* The types *)

\* Nothing has happened yet.
LEMMA TypeInit == Init => TypeOK
<1> SUFFICES ASSUME Init PROVE TypeOK
  OBVIOUS
<1>1. 0 \in 0..MaxTime /\ 0 \in 0..MaxChanges /\ 0 \in 0..MaxFaults /\ Never \in Times /\ 0 \in 0..1
  BY SourcesAssumption DEF Times
<1>2. NoPull \in PullType /\ Coherent(NoPull)
  BY <1>1 DEF NoPull, PullType, PullStates, Coherent
<1>3. GitHubType
  BY <1>1, <1>2 DEF Init, GitHubType
<1>4. CloneType
  BY <1>1, NewStateType, StartedType DEF Init, CloneType, Places
<1> QED
  BY <1>3, <1>4 DEF Init, TypeOK, Delivering

\* The unit of work of a source check.
CheckedState(new, closed) ==
    [disk EXCEPT !.repo = RepositoryAfter(run.snapshot, closed, run.at),
                 !.pending = @ \cup new,
                 !.page = Page]

Checked == CheckedState(NewEvents(run.snapshot, RecentlyClosed(disk.repo.checked)),
                        RecentlyClosed(disk.repo.checked))

\* What the unit of work of a source check changes.
LEMMA CheckedEffect ==
    ASSUME TypeOK
    PROVE  LET closed == RecentlyClosed(disk.repo.checked)
           IN  /\ Checked \in States
               /\ Checked.repo = RepositoryAfter(run.snapshot, closed, run.at)
               /\ Checked.pending = disk.pending \cup NewEvents(run.snapshot, closed)
               /\ Checked.records = disk.records
<1> DEFINE closed == RecentlyClosed(disk.repo.checked)
           repo == RepositoryAfter(run.snapshot, closed, run.at)
           new == NewEvents(run.snapshot, closed)
<1>0. /\ GitHubType /\ disk \in States /\ run.snapshot \in Snapshots /\ run.at \in Times
      /\ disk.repo.checked \in Times /\ Page \in BOOLEAN
  BY DEF TypeOK, CloneType, Runs, States, RepositoryType, Page
<1>1. repo \in RepositoryType
  BY <1>0, RepositoryAfterType
<1>2. new \in SUBSET Events
  BY <1>0, NewEventsType
<1>3. Checked = [disk EXCEPT !.repo = repo, !.pending = @ \cup new, !.page = Page]
  BY DEF Checked, CheckedState
<1> HIDE DEF closed, repo, new
<1>4. ASSUME NEW d \in States, NEW pending \in SUBSET Events, NEW page \in BOOLEAN
      PROVE  /\ [d EXCEPT !.repo = repo] \in States
             /\ [d EXCEPT !.repo = repo].repo = repo
             /\ [d EXCEPT !.repo = repo].pending = d.pending
             /\ [d EXCEPT !.repo = repo].records = d.records
             /\ [d EXCEPT !.pending = pending] \in States
             /\ [d EXCEPT !.pending = pending].repo = d.repo
             /\ [d EXCEPT !.pending = pending].pending = pending
             /\ [d EXCEPT !.pending = pending].records = d.records
             /\ [d EXCEPT !.page = page] \in States
             /\ [d EXCEPT !.page = page].repo = d.repo
             /\ [d EXCEPT !.page = page].pending = d.pending
             /\ [d EXCEPT !.page = page].records = d.records
  BY <1>1 DEF States
<1> DEFINE a == [disk EXCEPT !.repo = repo]
           b == [a EXCEPT !.pending = disk.pending \cup new]
           c == [b EXCEPT !.page = Page]
<1>5. a \in States /\ a.repo = repo /\ a.pending = disk.pending /\ a.records = disk.records
  BY <1>0, <1>4
<1>6. disk.pending \cup new \in SUBSET Events
  BY <1>0, <1>2 DEF States
<1>7. Checked = c
  BY <1>0, <1>3 DEF States
<1> HIDE DEF a
<1>8. /\ b \in States /\ b.repo = repo /\ b.pending = disk.pending \cup new
      /\ b.records = disk.records
  BY <1>4, <1>5, <1>6
<1> HIDE DEF b
<1>9. /\ c \in States /\ c.repo = repo /\ c.pending = disk.pending \cup new
      /\ c.records = disk.records
  BY <1>0, <1>4, <1>8
<1> HIDE DEF c
<1> QED
  BY <1>7, <1>9 DEF repo, closed, new

\* The memory of a run after its source check.
Forgotten == [run EXCEPT !.snapshot = NoSnapshot, !.page = FALSE]

\* A run forgets what it read.
LEMMA ForgottenEffect ==
    ASSUME run \in Runs
    PROVE  /\ Forgotten \in Runs /\ Forgotten.at = run.at
           /\ Forgotten.commit = run.commit /\ Forgotten.id = run.id
BY NoSnapshotType DEF Forgotten, Runs

\* A source check is a checkpoint of its unit of work, or nothing.
LEMMA SourceCheckStep ==
    SourceCheck => /\ pc = "closed" /\ UNCHANGED posted
                   /\ \/ Checkpoint(Checked, Forgotten, "deliver", "deliver")
                      \/ Proceed(Forgotten, "deliver")
BY DEF SourceCheck, Checked, CheckedState, Forgotten

\* The queue after an acknowledgement.
Acknowledged == [disk EXCEPT !.pending = {e \in @ : Id(e) # run.id}]

\* An acknowledgement takes events off the queue and changes nothing else.
LEMMA AcknowledgedEffect ==
    ASSUME disk \in States
    PROVE  /\ Acknowledged \in States
           /\ Acknowledged.repo = disk.repo
           /\ Acknowledged.pending = {e \in disk.pending : Id(e) # run.id}
           /\ Acknowledged.records = disk.records
<1>1. Acknowledged = [disk EXCEPT !.pending = {e \in disk.pending : Id(e) # run.id}]
  BY DEF Acknowledged, States
<1>2. {e \in disk.pending : Id(e) # run.id} \in SUBSET Events
  BY DEF States
<1> QED
  BY <1>1, <1>2 DEF States

\* The memory of a run whose delivery is over, or whose attempt is.
LEMMA OutcomeEffect ==
    ASSUME run \in Runs
    PROVE  /\ [run EXCEPT !.outcome = "none"] \in Runs
           /\ [run EXCEPT !.outcome = "none"].at = run.at
           /\ [run EXCEPT !.outcome = "none"].id = run.id
           /\ [run EXCEPT !.outcome = "none", !.id = <<>>] \in Runs
           /\ [run EXCEPT !.outcome = "none", !.id = <<>>].at = run.at
           /\ [run EXCEPT !.id = <<>>] \in Runs
           /\ [run EXCEPT !.id = <<>>].at = run.at
           /\ \A st \in Statuses : /\ [run EXCEPT !.outcome = st] \in Runs
                                   /\ [run EXCEPT !.outcome = st].at = run.at
                                   /\ [run EXCEPT !.outcome = st].id = run.id
                                   /\ [run EXCEPT !.outcome = st].commit = run.commit
                                   /\ [run EXCEPT !.outcome = st].outcome = st
BY DEF Runs, Statuses

\* A step that changes nothing but the memory of the run.
LEMMA ProceedEffect ==
    ASSUME TypeOK, NEW r \in Runs, NEW where \in Places, Proceed(r, where)
    PROVE  /\ run' = r /\ pc' = where
           /\ UNCHANGED <<github, remote, disk, faults>>
           /\ CloneType'
BY DEF TypeOK, CloneType, Proceed, Goto

\* A run starts from the head of the branch.
LEMMA StartEffect ==
    ASSUME TypeOK, Start
    PROVE  /\ pc = "off" /\ pc' = "scoped" /\ disk' = remote
           /\ UNCHANGED <<github, remote, posted, faults>>
           /\ run' \in Runs /\ run'.at = clock /\ run'.commit = remote
           /\ CloneType'
<1>0. clock \in Times /\ 0 \in 0..1 /\ remote \in States
  BY ClockTime DEF TypeOK, GitHubType, CloneType
<1>1. /\ pc = "off" /\ pc' = "scoped" /\ disk' = remote
      /\ UNCHANGED <<github, remote, posted, faults>>
      /\ run' = Started(remote, clock, 0)
  BY DEF Start, Begin, Goto
<1> QED
  BY <1>0, <1>1, StartedType DEF TypeOK, CloneType, Places

\* The first baseline is written between two runs.
LEMMA BootstrapEffect ==
    ASSUME TypeOK, Bootstrap
    PROVE  /\ pc = "off" /\ pc' = "off"
           /\ UNCHANGED <<github, disk, posted, faults>>
           /\ run'.at = clock
           /\ remote'.repo = Baseline(clock, OpenItems)
           /\ remote'.pending = remote.pending /\ remote'.records = remote.records
           /\ CloneType'
<1>0. clock \in Times /\ 0 \in 0..1 /\ remote \in States /\ OpenItems \in Snapshots
  BY ClockTime, OpenItemsType DEF TypeOK, GitHubType, CloneType
<1> DEFINE repo == Baseline(clock, OpenItems)
<1>1. repo \in RepositoryType
  BY <1>0, BaselineType
<1>2. /\ pc = "off" /\ UNCHANGED <<github, disk, pc, posted, faults>>
      /\ remote' = [remote EXCEPT !.baseline = TRUE, !.repo = repo]
      /\ run' = Started(NewState, clock, 0)
  BY DEF Bootstrap
<1> HIDE DEF repo
<1>3. /\ remote' \in States /\ remote'.repo = repo
      /\ remote'.pending = remote.pending /\ remote'.records = remote.records
  BY <1>0, <1>1, <1>2 DEF States
<1>4. run' \in Runs /\ run'.at = clock
  BY <1>0, <1>2, NewStateType, StartedType
<1> QED
  BY <1>2, <1>3, <1>4 DEF TypeOK, CloneType, repo

\* The end of a run pushes what is in its clone, or nothing.
LEMMA FinishEffect ==
    ASSUME TypeOK, Finish
    PROVE  /\ CloneType' /\ UNCHANGED <<github, posted>>
           /\ pc \in {"final", "deliver"}
           /\ \/ Restarted
              \/ /\ remote' \in {remote, disk}
                 /\ pc' = "off" /\ disk' = NewState
                 /\ run'.at = run.at
<1>0. CloneType /\ run \in Runs /\ UNCHANGED <<github, posted>> /\ pc \in {"final", "deliver"}
  BY DEF TypeOK, CloneType, Finish
<1>1. CASE Conflict
  BY <1>0, <1>1, ConflictEffect
<1>2. CASE Stop /\ remote' \in {remote, disk} /\ (UNCHANGED faults \/ Fault)
  <2>1. disk' = NewState /\ pc' = "off" /\ run' \in Runs /\ run'.at = run.at
    BY <1>0, <1>2, StopEffect
  <2>2. faults' \in 0..MaxFaults
    BY <1>0, <1>2, FaultType DEF CloneType
  <2> QED
    BY <1>0, <1>2, <2>1, <2>2, NewStateType DEF CloneType, Places
<1> QED
  BY <1>1, <1>2 DEF Finish, Pushed

\* A scan reads, and goes on to the closed pull requests or to the delivery.
LEMMA ReadOpenEffect ==
    ASSUME TypeOK, ReadOpen
    PROVE  /\ pc = "open"
           /\ UNCHANGED <<github, remote, disk, faults, posted>>
           /\ run' \in Runs /\ run'.at = run.at /\ run'.commit = run.commit
           /\ \/ pc' = "closed" /\ run'.snapshot = OpenItems
              \/ pc' = "deliver"
           /\ CloneType'
<1>0. run \in Runs /\ OpenItems \in Snapshots
  BY OpenItemsType DEF TypeOK, CloneType
<1> DEFINE r == [run EXCEPT !.snapshot = OpenItems]
<1>1. /\ r \in Runs /\ r.at = run.at /\ r.commit = run.commit /\ r.snapshot = OpenItems
  BY <1>0 DEF Runs
<1>2. /\ pc = "open" /\ UNCHANGED posted
      /\ Proceed(r, "closed") \/ Proceed(run, "deliver")
  BY DEF ReadOpen
<1> HIDE DEF r
<1> QED
  BY <1>0, <1>1, <1>2, ProceedEffect DEF Places

\* Another step of the scan that only remembers something.
LEMMA ScanScopedEffect ==
    ASSUME TypeOK, ScanScoped
    PROVE  /\ pc = "scoped" /\ pc' \in {"open", "deliver"}
           /\ UNCHANGED <<github, remote, disk, faults, posted>>
           /\ run' \in Runs /\ run'.at = run.at /\ run'.commit = run.commit
           /\ CloneType'
<1>0. run \in Runs /\ listed \in BOOLEAN
  BY DEF TypeOK, CloneType, GitHubType
<1> DEFINE r == [run EXCEPT !.page = listed]
<1>1. r \in Runs /\ r.at = run.at /\ r.commit = run.commit
  BY <1>0 DEF Runs
<1>2. /\ pc = "scoped" /\ UNCHANGED posted
      /\ Proceed(r, "open") \/ Proceed(run, "deliver")
  BY DEF ScanScoped
<1> HIDE DEF r
<1> QED
  BY <1>0, <1>1, <1>2, ProceedEffect DEF Places

\* An event that is delivered already, or that an operator has to look at.
LEMMA RecallEffect ==
    ASSUME TypeOK, NEW e \in disk.pending, Recall(e) \/ Skip(e)
    PROVE  /\ pc = "deliver" /\ pc' \in {"acknowledge", "deliver"}
           /\ UNCHANGED <<github, remote, disk, faults, posted>>
           /\ run' \in Runs /\ run'.at = run.at /\ run'.commit = run.commit
           /\ pc' = "acknowledge" => /\ run'.id \in Ids
                                     /\ disk.records[run'.id] = "delivered"
           /\ CloneType'
<1>0. run \in Runs /\ e \in Events
  BY DEF TypeOK, CloneType, States
<1> HIDE DEF Id
<1>1. CASE Recall(e)
  <2>1. /\ pc = "deliver" /\ disk.records[Id(e)] = "delivered" /\ UNCHANGED posted
        /\ Proceed(Trying(e), "acknowledge")
    BY <1>1 DEF Recall, Turn
  <2> QED
    BY <1>0, <2>1, TriedEffect, ProceedEffect DEF Places
<1>2. CASE Skip(e)
  <2>1. pc = "deliver" /\ UNCHANGED posted /\ Proceed(Tried(e), "deliver")
    BY <1>2 DEF Skip, Turn
  <2> QED
    BY <1>0, <2>1, TriedEffect, ProceedEffect DEF Places
<1> QED
  BY <1>1, <1>2

\* The request to Telegram.
LEMMA PostEffect ==
    ASSUME TypeOK, Post
    PROVE  /\ pc = "sending" /\ pc' = "result"
           /\ UNCHANGED <<github, remote, disk, faults>>
           /\ run' \in Runs /\ run'.at = run.at /\ run'.commit = run.commit /\ run'.id = run.id
           /\ run'.outcome \in {"delivered", "failed", "ambiguous"}
           /\ \E arrived \in 0..1 :
                 /\ run'.outcome = "delivered" => arrived = 1
                 /\ run'.outcome = "failed" => arrived = 0
                 /\ posted' = [posted EXCEPT ![run.id] = @ + arrived]
           /\ CloneType'
<1>0. run \in Runs
  BY DEF TypeOK, CloneType
<1>1. PICK outcome \in {"delivered", "failed", "ambiguous"}, arrived \in 0..1 :
         /\ outcome = "delivered" => arrived = 1
         /\ outcome = "failed" => arrived = 0
         /\ Proceed([run EXCEPT !.outcome = outcome], "result")
         /\ posted' = [posted EXCEPT ![run.id] = @ + arrived]
  BY DEF Post
<1> DEFINE r == [run EXCEPT !.outcome = outcome]
<1>2. /\ r \in Runs /\ r.at = run.at /\ r.commit = run.commit /\ r.id = run.id
      /\ r.outcome = outcome
  BY <1>0, OutcomeEffect DEF Statuses
<1>3. Proceed(r, "result") /\ pc = "sending"
  BY <1>1 DEF Post
<1> HIDE DEF r
<1>4. /\ run' = r /\ pc' = "result" /\ UNCHANGED <<github, remote, disk, faults>> /\ CloneType'
  BY <1>2, <1>3, ProceedEffect DEF Places
<1> QED
  BY <1>1, <1>2, <1>3, <1>4

\* The intent of an announcement is pushed, or one that a dead worker left is
\* given to an operator.
LEMMA IntendEffect ==
    ASSUME TypeOK, NEW e \in disk.pending, Intend(e)
    PROVE  /\ CloneType' /\ UNCHANGED <<github, posted>> /\ pc = "deliver"
           /\ \/ Restarted
              \/ /\ disk.records[Id(e)] \in {"none", "failed"}
                 /\ \/ Saved(Recorded(Id(e), "sending"), Trying(e), "sending")
                    \/ NotSaved(Recorded(Id(e), "sending"), Trying(e), "final")
              \/ /\ disk.records[Id(e)] = "sending"
                 /\ \/ Saved(Recorded(Id(e), "ambiguous"), Tried(e), "deliver")
                    \/ NotSaved(Recorded(Id(e), "ambiguous"), Tried(e), "final")
<1>0. run \in Runs /\ e \in Events /\ CloneType /\ disk \in States
  BY DEF TypeOK, CloneType, States
<1>1. /\ Id(e) \in Ids /\ Tried(e) \in Runs /\ Trying(e) \in Runs
  BY <1>0, TriedEffect
<1> HIDE DEF Id
<1>2. /\ Recorded(Id(e), "sending") \in States /\ Recorded(Id(e), "ambiguous") \in States
  BY <1>0, <1>1, RecordedEffect DEF Statuses
<1>3. /\ pc = "deliver" /\ UNCHANGED posted
      /\ \/ /\ disk.records[Id(e)] \in {"none", "failed"}
            /\ Checkpoint(Recorded(Id(e), "sending"), Trying(e), "sending", "final")
         \/ /\ disk.records[Id(e)] = "sending"
            /\ Checkpoint(Recorded(Id(e), "ambiguous"), Tried(e), "deliver", "final")
  BY DEF Intend, Turn
<1> QED
  BY <1>0, <1>1, <1>2, <1>3, CheckpointEffect DEF Places

\* The memory of a run after an outcome.
Delivered == [run EXCEPT !.outcome = "none"]
Undelivered == [run EXCEPT !.outcome = "none", !.id = <<>>]

\* The outcome of the request is recorded.
LEMMA OutcomeStep ==
    ASSUME TypeOK, Outcome
    PROVE  /\ CloneType' /\ UNCHANGED <<github, posted>> /\ pc = "result" /\ run.id \in Ids
           /\ \/ Restarted
              \/ /\ run.outcome = "delivered"
                 /\ \/ Saved(Recorded(run.id, run.outcome), Delivered, "acknowledge")
                    \/ NotSaved(Recorded(run.id, run.outcome), Delivered, "final")
              \/ /\ run.outcome # "delivered"
                 /\ \/ Saved(Recorded(run.id, run.outcome), Undelivered, "deliver")
                    \/ NotSaved(Recorded(run.id, run.outcome), Undelivered, "final")
<1>0. run \in Runs /\ CloneType /\ disk \in States /\ run.outcome \in Statuses
  BY DEF TypeOK, CloneType, Runs
<1>1. /\ pc = "result" /\ UNCHANGED posted
      /\ \/ /\ run.outcome = "delivered"
            /\ Checkpoint(Recorded(run.id, run.outcome), Delivered, "acknowledge", "final")
         \/ /\ run.outcome # "delivered"
            /\ Checkpoint(Recorded(run.id, run.outcome), Undelivered, "deliver", "final")
  BY DEF Outcome, Delivered, Undelivered
<1>2. run.id \in Ids
  BY <1>1 DEF TypeOK, Delivering
<1>3. Recorded(run.id, run.outcome) \in States
  BY <1>0, <1>2, RecordedEffect
<1>4. Delivered \in Runs /\ Undelivered \in Runs
  BY <1>0, OutcomeEffect DEF Delivered, Undelivered
<1> QED
  BY <1>0, <1>1, <1>2, <1>3, <1>4, CheckpointEffect DEF Places

\* The memory of a run after an acknowledgement.
Closed == [run EXCEPT !.id = <<>>]

\* An announced event leaves the queue.
LEMMA AcknowledgeStep ==
    ASSUME TypeOK, Acknowledge
    PROVE  /\ CloneType' /\ UNCHANGED <<github, posted>> /\ pc = "acknowledge" /\ run.id \in Ids
           /\ \/ Restarted
              \/ Saved(Acknowledged, Closed, "deliver")
              \/ NotSaved(Acknowledged, Closed, "final")
<1>0. run \in Runs /\ CloneType /\ disk \in States
  BY DEF TypeOK, CloneType
<1>1. /\ pc = "acknowledge" /\ UNCHANGED posted
      /\ Checkpoint(Acknowledged, Closed, "deliver", "final")
  BY DEF Acknowledge, Acknowledged, Closed
<1>2. run.id \in Ids
  BY <1>1 DEF TypeOK, Delivering
<1>3. Acknowledged \in States /\ Closed \in Runs
  BY <1>0, AcknowledgedEffect, OutcomeEffect DEF Closed
<1> QED
  BY <1>0, <1>1, <1>2, <1>3, CheckpointEffect DEF Places

\* State, queue and page of a check.
LEMMA SourceCheckEffect ==
    ASSUME TypeOK, SourceCheck
    PROVE  /\ CloneType' /\ UNCHANGED <<github, posted>> /\ pc = "closed"
           /\ \/ Restarted
              \/ Saved(Checked, Forgotten, "deliver")
              \/ NotSaved(Checked, Forgotten, "deliver")
              \/ run' = Forgotten /\ pc' = "deliver" /\ UNCHANGED <<remote, disk>>
<1>0. /\ run \in Runs /\ CloneType /\ Checked \in States /\ Forgotten \in Runs
      /\ "deliver" \in Places
  BY CheckedEffect, ForgottenEffect DEF TypeOK, CloneType, Places
<1>1. CASE Checkpoint(Checked, Forgotten, "deliver", "deliver")
  BY <1>0, <1>1, CheckpointEffect, SourceCheckStep
<1>2. CASE Proceed(Forgotten, "deliver")
  BY <1>0, <1>2, ProceedEffect, SourceCheckStep
<1> QED
  BY <1>1, <1>2, SourceCheckStep

\* Every step keeps the type.
LEMMA TypeNext == ASSUME TypeOK, [Next]_vars PROVE TypeOK'
<1>0. run \in Runs /\ disk \in States /\ disk.pending \subseteq Events
  BY DEF TypeOK, CloneType, States
<1>1. ASSUME CloneType', UNCHANGED <<github, posted>>, Delivering' PROVE TypeOK'
  BY <1>1 DEF TypeOK, GitHubType, github
<1>2. Restarted => Delivering'
  BY DEF Restarted, Delivering
<1>3. CASE GitHub
  BY <1>3, GitHubEffect DEF TypeOK, CloneType, Delivering, worker
<1>4. CASE Bootstrap \/ Start \/ ScanScoped \/ ReadOpen \/ Finish
  BY <1>1, <1>2, <1>4, BootstrapEffect, StartEffect, ScanScopedEffect, ReadOpenEffect, FinishEffect
  DEF Delivering
<1>5. CASE SourceCheck
  BY <1>1, <1>2, <1>5, SourceCheckEffect DEF Saved, NotSaved, Delivering
<1>6. ASSUME NEW e \in disk.pending, Recall(e) \/ Skip(e) PROVE TypeOK'
  BY <1>1, <1>6, RecallEffect DEF Delivering
<1>7. ASSUME NEW e \in disk.pending, Intend(e) PROVE TypeOK'
  <2>1. /\ Trying(e) \in Runs /\ Trying(e).id \in Ids
    BY <1>0, TriedEffect
  <2>2. \A c \in States : [Trying(e) EXCEPT !.commit = c].id \in Ids
    BY <2>1, CommitEffect
  <2>3. pc' = "sending" => Restarted \/ run'.id \in Ids
    <3>1. disk' \in States
      BY <1>7, IntendEffect DEF CloneType
    <3> QED
      BY <1>7, <2>2, <3>1, IntendEffect DEF Saved, NotSaved
  <2>4. pc' \in {"sending", "deliver", "final"} \/ Restarted
    BY <1>7, IntendEffect DEF Saved, NotSaved
  <2> QED
    BY <1>1, <1>2, <1>7, <2>3, <2>4, IntendEffect DEF Delivering
<1>8. CASE Post
  <2>1. posted' \in [Ids -> Nat]
    <3>1. \A n \in Nat : \A k \in 0..1 : n + k \in Nat
      OBVIOUS
    <3>2. run.id \in Ids
      BY <1>8, PostEffect DEF TypeOK, Delivering
    <3> QED
      BY <1>8, <3>1, <3>2, PostEffect DEF TypeOK
  <2> QED
    BY <1>8, <2>1, PostEffect DEF TypeOK, GitHubType, github, Delivering
<1>9. CASE Outcome
  <2>1. pc' = "acknowledge" => Restarted \/ run'.id \in Ids
    <3>1. disk' \in States /\ Delivered \in Runs /\ Delivered.id = run.id
      BY <1>0, <1>9, OutcomeStep, OutcomeEffect DEF CloneType, Delivered
    <3>2. \A c \in States : [Delivered EXCEPT !.commit = c].id = run.id
      BY <3>1, CommitEffect
    <3> QED
      BY <1>9, <3>1, <3>2, OutcomeStep DEF Saved, NotSaved
  <2>2. pc' \in {"acknowledge", "deliver", "final"} \/ Restarted
    BY <1>9, OutcomeStep DEF Saved, NotSaved
  <2> QED
    BY <1>1, <1>2, <1>9, <2>1, <2>2, OutcomeStep DEF Delivering
<1>10. CASE Acknowledge
  BY <1>1, <1>2, <1>10, AcknowledgeStep DEF Saved, NotSaved, Delivering
<1>11. CASE Crash
  BY <1>1, <1>2, <1>11, CrashEffect DEF TypeOK, Crash
<1>12. CASE UNCHANGED vars
  BY <1>12 DEF vars, worker, github, TypeOK, GitHubType, CloneType, Delivering
<1> QED
  BY <1>3, <1>4, <1>5, <1>6, <1>7, <1>8, <1>9, <1>10, <1>11, <1>12 DEF Next

\* The variables keep their types.
THEOREM TypeCorrect == Spec => []TypeOK
BY TypeInit, TypeNext, PTL DEF Spec

-----------------------------------------------------------------------------
(* Announcements *)

\* No event has left the queue of the branch in this step but those announced.
Acked == \A e \in remote.pending \ remote'.pending : posted[Id(e)] = 1

\* Nothing has been announced.
LEMMA OnceInit == Init => OnceInv
BY DEF Init, NewState, OnceInv, StoreInv, PlaceInv, Truthful

\* A checkpoint whose records are true keeps the branch and the clone right, pushed or
\* not.
LEMMA StoreSaved ==
    ASSUME StoreInv, NEW d, Truthful(d, posted), pc # "off", UNCHANGED posted,
           \A e \in disk.pending \ d.pending : posted[Id(e)] = 1,
           remote' \in {remote, d}, disk' = d
    PROVE  StoreInv' /\ Acked
<1> HIDE DEF Id
<1> QED
  BY DEF StoreInv, Acked, Truthful

\* A replay starts from the branch.
LEMMA OnceRestarted ==
    ASSUME OnceInv, Restarted, UNCHANGED posted
    PROVE  OnceInv' /\ Acked
BY DEF OnceInv, StoreInv, PlaceInv, Truthful, Restarted, Acked

\* The record of an announcement that is not delivered yet, or is.
LEMMA RecordTruthful ==
    ASSUME TypeOK, OnceInv, pc # "off", NEW i \in Ids, NEW st \in Statuses,
           posted[i] > 0 => st \in {"sending", "delivered", "ambiguous"},
           st = "delivered" => posted[i] = 1
    PROVE  /\ Truthful(Recorded(i, st), posted)
           /\ Recorded(i, st).records[i] = st
           /\ Recorded(i, st).pending = disk.pending
<1>1. /\ Recorded(i, st).records = [disk.records EXCEPT ![i] = st]
      /\ Recorded(i, st).pending = disk.pending
      /\ disk.records \in [Ids -> Statuses]
  BY RecordedEffect DEF TypeOK, CloneType, States
<1>2. Truthful(disk, posted)
  BY DEF OnceInv, StoreInv
<1> QED
  BY <1>1, <1>2 DEF Truthful

\* The intent.
LEMMA OnceIntend ==
    ASSUME TypeOK, OnceInv, NEW e \in disk.pending, Intend(e)
    PROVE  OnceInv' /\ Acked
<1>0. /\ run \in Runs /\ disk \in States /\ e \in Events /\ Id(e) \in Ids /\ pc = "deliver"
      /\ UNCHANGED posted /\ posted \in [Ids -> Nat] /\ CloneType'
  BY TriedEffect, IntendEffect DEF TypeOK, CloneType, States
<1>1. CASE Restarted
  BY <1>0, <1>1, OnceRestarted
<1> HIDE DEF Id
<1>2. StoreInv /\ Truthful(disk, posted) /\ run.commit.records = disk.records
  BY <1>0 DEF OnceInv, StoreInv, PlaceInv
<1>3. /\ Tried(e) \in Runs /\ Trying(e) \in Runs /\ Trying(e).id = Id(e)
  BY <1>0, TriedEffect
<1>4. \A c \in States : /\ [Trying(e) EXCEPT !.commit = c].id = Id(e)
                        /\ [Trying(e) EXCEPT !.commit = c].commit = c
                        /\ [Tried(e) EXCEPT !.commit = c].commit = c
  BY <1>3, CommitEffect
<1>5. disk' \in States
  BY <1>0 DEF CloneType
<1>6. CASE /\ disk.records[Id(e)] \in {"none", "failed"}
           /\ \/ Saved(Recorded(Id(e), "sending"), Trying(e), "sending")
              \/ NotSaved(Recorded(Id(e), "sending"), Trying(e), "final")
  <2> DEFINE d == Recorded(Id(e), "sending")
  <2>1. posted[Id(e)] = 0
    BY <1>0, <1>2, <1>6 DEF Truthful
  <2>2. Truthful(d, posted) /\ d.records[Id(e)] = "sending" /\ d.pending = disk.pending
    BY <1>0, <2>1, RecordTruthful DEF Statuses
  <2> HIDE DEF d
  <2>3. Saved(d, Trying(e), "sending") \/ NotSaved(d, Trying(e), "final")
    BY <1>6 DEF d
  <2>4. StoreInv' /\ Acked
    BY <1>0, <1>2, <2>2, <2>3, StoreSaved DEF Saved, NotSaved
  <2>5. CASE Saved(d, Trying(e), "sending")
    <3>1. d # run.commit
      BY <1>2, <1>6, <2>2
    <3>2. /\ remote' = d /\ disk' = d /\ pc' = "sending"
          /\ run' = [Trying(e) EXCEPT !.commit = d]
      BY <2>5, <3>1 DEF Saved
    <3>3. run'.id = Id(e) /\ run'.commit = d
      BY <1>4, <1>5, <3>2
    <3> QED
      BY <1>0, <2>1, <2>2, <2>4, <3>2, <3>3 DEF OnceInv, PlaceInv
  <2>6. CASE NotSaved(d, Trying(e), "final")
    BY <2>4, <2>6 DEF NotSaved, OnceInv, PlaceInv
  <2> QED
    BY <2>3, <2>5, <2>6
<1>7. CASE /\ disk.records[Id(e)] = "sending"
           /\ \/ Saved(Recorded(Id(e), "ambiguous"), Tried(e), "deliver")
              \/ NotSaved(Recorded(Id(e), "ambiguous"), Tried(e), "final")
  <2> DEFINE d == Recorded(Id(e), "ambiguous")
  <2>1. Truthful(d, posted) /\ d.pending = disk.pending
    BY <1>0, RecordTruthful DEF Statuses
  <2> HIDE DEF d
  <2>2. Saved(d, Tried(e), "deliver") \/ NotSaved(d, Tried(e), "final")
    BY <1>7 DEF d
  <2>3. StoreInv' /\ Acked
    BY <1>0, <1>2, <2>1, <2>2, StoreSaved DEF Saved, NotSaved
  <2>4. pc' = "final" \/ (pc' = "deliver" /\ run'.commit = disk')
    BY <1>4, <1>5, <2>2 DEF Saved, NotSaved
  <2> QED
    BY <2>3, <2>4 DEF OnceInv, PlaceInv
<1> QED
  BY <1>1, <1>6, <1>7, IntendEffect

\* The outcome.
LEMMA OnceOutcome ==
    ASSUME TypeOK, OnceInv, Outcome
    PROVE  OnceInv' /\ Acked
<1>0. /\ run \in Runs /\ disk \in States /\ run.id \in Ids /\ pc = "result"
      /\ UNCHANGED posted /\ posted \in [Ids -> Nat] /\ CloneType'
      /\ run.outcome \in {"delivered", "failed", "ambiguous"}
  BY OutcomeStep DEF TypeOK, CloneType, OnceInv, PlaceInv
<1>1. CASE Restarted
  BY <1>0, <1>1, OnceRestarted
<1> DEFINE d == Recorded(run.id, run.outcome)
<1>2. StoreInv
  BY DEF OnceInv
<1>3. /\ run.outcome = "delivered" => posted[run.id] = 1
      /\ run.outcome = "failed" => posted[run.id] = 0
  BY <1>0 DEF OnceInv, PlaceInv
<1>4. Truthful(d, posted) /\ d.records[run.id] = run.outcome /\ d.pending = disk.pending
  BY <1>0, <1>3, RecordTruthful DEF Statuses
<1>5. /\ Delivered \in Runs /\ Undelivered \in Runs /\ Delivered.id = run.id
      /\ disk' \in States
  BY <1>0, OutcomeEffect DEF Delivered, Undelivered, CloneType
<1>6. \A c \in States : /\ [Delivered EXCEPT !.commit = c].id = run.id
                        /\ [Delivered EXCEPT !.commit = c].commit = c
                        /\ [Undelivered EXCEPT !.commit = c].commit = c
  BY <1>5, CommitEffect
<1> HIDE DEF d
<1>7. CASE /\ run.outcome = "delivered"
           /\ Saved(d, Delivered, "acknowledge") \/ NotSaved(d, Delivered, "final")
  <2>1. StoreInv' /\ Acked
    BY <1>0, <1>2, <1>4, <1>7, StoreSaved DEF Saved, NotSaved
  <2>2. \/ pc' = "final"
        \/ /\ pc' = "acknowledge" /\ run'.commit = disk' /\ run'.id = run.id
           /\ disk'.records[run.id] = "delivered"
    BY <1>4, <1>5, <1>6, <1>7 DEF Saved, NotSaved
  <2> QED
    BY <1>0, <2>1, <2>2 DEF OnceInv, PlaceInv
<1>8. CASE /\ run.outcome # "delivered"
           /\ Saved(d, Undelivered, "deliver") \/ NotSaved(d, Undelivered, "final")
  <2>1. StoreInv' /\ Acked
    BY <1>0, <1>2, <1>4, <1>8, StoreSaved DEF Saved, NotSaved
  <2>2. pc' = "final" \/ (pc' = "deliver" /\ run'.commit = disk')
    BY <1>5, <1>6, <1>8 DEF Saved, NotSaved
  <2> QED
    BY <2>1, <2>2 DEF OnceInv, PlaceInv
<1> QED
  BY <1>1, <1>7, <1>8, OutcomeStep DEF d

\* The acknowledgement.
LEMMA OnceAcknowledge ==
    ASSUME TypeOK, OnceInv, Acknowledge
    PROVE  OnceInv' /\ Acked
<1>0. /\ run \in Runs /\ disk \in States /\ run.id \in Ids /\ pc = "acknowledge"
      /\ UNCHANGED posted /\ CloneType'
  BY AcknowledgeStep DEF TypeOK, CloneType
<1>1. CASE Restarted
  BY <1>0, <1>1, OnceRestarted
<1>2. StoreInv /\ Truthful(disk, posted) /\ disk.records[run.id] = "delivered"
  BY <1>0 DEF OnceInv, StoreInv, PlaceInv
<1>3. posted[run.id] = 1
  BY <1>0, <1>2 DEF Truthful
<1>4. /\ Acknowledged.records = disk.records
      /\ Acknowledged.pending = {e \in disk.pending : Id(e) # run.id}
  BY <1>0, AcknowledgedEffect
<1>5. Truthful(Acknowledged, posted)
  BY <1>2, <1>4 DEF Truthful
<1>6. \A e \in disk.pending \ Acknowledged.pending : posted[Id(e)] = 1
  BY <1>3, <1>4
<1>7. Closed \in Runs /\ disk' \in States
  BY <1>0, OutcomeEffect DEF Closed, CloneType
<1>8. \A c \in States : [Closed EXCEPT !.commit = c].commit = c
  BY <1>7, CommitEffect
<1>9. CASE Saved(Acknowledged, Closed, "deliver") \/ NotSaved(Acknowledged, Closed, "final")
  <2>1. StoreInv' /\ Acked
    BY <1>0, <1>2, <1>5, <1>6, <1>9, StoreSaved DEF Saved, NotSaved
  <2>2. pc' = "final" \/ (pc' = "deliver" /\ run'.commit = disk')
    BY <1>7, <1>8, <1>9 DEF Saved, NotSaved
  <2> QED
    BY <2>1, <2>2 DEF OnceInv, PlaceInv
<1> QED
  BY <1>1, <1>9, AcknowledgeStep

\* The source check.
LEMMA OnceSourceCheck ==
    ASSUME TypeOK, OnceInv, SourceCheck
    PROVE  OnceInv' /\ Acked
<1>0. /\ run \in Runs /\ disk \in States /\ pc = "closed" /\ UNCHANGED posted /\ CloneType'
      /\ disk' \in States
  BY SourceCheckEffect DEF TypeOK, CloneType
<1>1. CASE Restarted
  BY <1>0, <1>1, OnceRestarted
<1>2. StoreInv /\ Truthful(disk, posted) /\ run.commit.records = disk.records
  BY <1>0 DEF OnceInv, StoreInv, PlaceInv
<1>3. Checked.records = disk.records /\ disk.pending \subseteq Checked.pending
  BY CheckedEffect
<1>4. Truthful(Checked, posted)
  BY <1>2, <1>3 DEF Truthful
<1>5. Forgotten \in Runs /\ Forgotten.commit = run.commit
  BY <1>0, ForgottenEffect
<1>6. \A c \in States : [Forgotten EXCEPT !.commit = c].commit = c
  BY <1>5, CommitEffect
<1>7. CASE Saved(Checked, Forgotten, "deliver") \/ NotSaved(Checked, Forgotten, "deliver")
  <2>1. StoreInv' /\ Acked
    BY <1>0, <1>2, <1>3, <1>4, <1>7, StoreSaved DEF Saved, NotSaved
  <2>2. run.commit \in States
    BY <1>0 DEF Runs
  <2>3. pc' = "deliver" /\ run'.commit.records = disk'.records
    BY <1>0, <1>2, <1>3, <1>6, <1>7, <2>2 DEF Saved, NotSaved
  <2> QED
    BY <2>1, <2>3 DEF OnceInv, PlaceInv
<1>8. CASE run' = Forgotten /\ pc' = "deliver" /\ UNCHANGED <<remote, disk>>
  BY <1>0, <1>2, <1>5, <1>8 DEF OnceInv, StoreInv, PlaceInv, Truthful, Acked
<1> QED
  BY <1>1, <1>7, <1>8, SourceCheckEffect

\* The request.
LEMMA OncePost ==
    ASSUME TypeOK, OnceInv, Post
    PROVE  OnceInv' /\ Acked
<1>0. /\ pc = "sending" /\ run.id \in Ids /\ posted \in [Ids -> Nat]
      /\ disk.records[run.id] = "sending" /\ remote.records[run.id] = "sending"
      /\ posted[run.id] = 0
  BY PostEffect DEF TypeOK, Delivering, OnceInv, PlaceInv
<1>1. PICK arrived \in 0..1 :
         /\ run'.outcome = "delivered" => arrived = 1
         /\ run'.outcome = "failed" => arrived = 0
         /\ posted' = [posted EXCEPT ![run.id] = @ + arrived]
  BY PostEffect
<1>2. /\ pc' = "result" /\ UNCHANGED <<remote, disk>> /\ run'.id = run.id
      /\ run'.commit = run.commit /\ run'.outcome \in {"delivered", "failed", "ambiguous"}
  BY PostEffect
<1>3. \A i \in Ids : posted'[i] = IF i = run.id THEN arrived ELSE posted[i]
  BY <1>0, <1>1
<1>4. StoreInv'
  <2> HIDE DEF Id
  <2>1. \A i \in Ids : posted'[i] <= 1
    BY <1>3 DEF OnceInv, StoreInv
  <2>2. /\ Truthful(remote, posted) /\ Truthful(disk, posted)
    BY <1>0 DEF OnceInv, StoreInv
  <2>3. Truthful(remote', posted') /\ Truthful(disk', posted')
    BY <1>0, <1>2, <1>3, <2>2 DEF Truthful
  <2>4. \A e \in remote.pending \ disk.pending : posted'[Id(e)] = 1
    <3>1. \A e \in remote.pending : Id(e) \in Ids
      BY DEF TypeOK, CloneType, States, Events
    <3> QED
      BY <1>0, <1>3, <3>1 DEF OnceInv, StoreInv
  <2> QED
    BY <1>2, <2>1, <2>3, <2>4 DEF StoreInv
<1>5. PlaceInv'
  BY <1>0, <1>1, <1>2, <1>3 DEF OnceInv, PlaceInv
<1> QED
  BY <1>2, <1>4, <1>5 DEF OnceInv, Acked

\* Every step keeps the records true.
LEMMA OnceNext == ASSUME TypeOK, OnceInv, [Next]_vars PROVE OnceInv' /\ Acked
<1>1. CASE GitHub \/ UNCHANGED vars
  BY <1>1, GitHubEffect
  DEF vars, worker, OnceInv, StoreInv, PlaceInv, Truthful, Acked
<1>2. CASE Bootstrap
  BY <1>2, BootstrapEffect DEF OnceInv, StoreInv, PlaceInv, Truthful, Acked
<1>3. CASE Start
  BY <1>3, StartEffect DEF OnceInv, StoreInv, PlaceInv, Truthful, Acked
<1>4. CASE ScanScoped
  BY <1>4, ScanScopedEffect DEF OnceInv, StoreInv, PlaceInv, Truthful, Acked
<1>5. CASE ReadOpen
  BY <1>5, ReadOpenEffect DEF OnceInv, StoreInv, PlaceInv, Truthful, Acked
<1>6. ASSUME NEW e \in disk.pending, Recall(e) \/ Skip(e) PROVE OnceInv' /\ Acked
  BY <1>6, RecallEffect DEF OnceInv, StoreInv, PlaceInv, Truthful, Acked
<1>7. CASE Finish
  <2>1. CASE Restarted
    BY <1>7, <2>1, OnceRestarted, FinishEffect
  <2>2. CASE remote' \in {remote, disk} /\ pc' = "off" /\ disk' = NewState
    BY <1>7, <2>2, FinishEffect DEF OnceInv, StoreInv, PlaceInv, Truthful, Acked
  <2> QED
    BY <1>7, <2>1, <2>2, FinishEffect
<1>8. CASE Crash
  BY <1>8, CrashEffect, OnceRestarted DEF Crash, TypeOK
<1> QED
  BY <1>1, <1>2, <1>3, <1>4, <1>5, <1>6, <1>7, <1>8, OnceIntend, OnceOutcome, OnceAcknowledge,
     OnceSourceCheck, OncePost DEF Next

\* What the records tell of the chat is true, on the branch and in the clone.
THEOREM RecordsTell == Spec => []OnceInv
<1>1. TypeOK /\ OnceInv /\ [Next]_vars => OnceInv'
  BY OnceNext
<1> QED
  BY <1>1, OnceInit, TypeCorrect, PTL DEF Spec

\* An announcement reaches the chat at most once, and leaves the queue only when it
\* did.
THEOREM AnnouncedAtMostOnce == Spec => AnnouncedOnce
<1>1. TypeOK /\ OnceInv /\ [Next]_vars
        => [/\ \A i \in Ids : posted'[i] <= 1
            /\ \A e \in remote.pending \ remote'.pending : posted[Id(e)] = 1]_vars
  <2>1. ASSUME TypeOK, OnceInv, [Next]_vars
        PROVE  /\ \A i \in Ids : posted'[i] <= 1
               /\ \A e \in remote.pending \ remote'.pending : posted[Id(e)] = 1
    BY <2>1, OnceNext DEF OnceInv, StoreInv, Acked
  <2> QED
    BY <2>1
<1> QED
  BY <1>1, TypeCorrect, RecordsTell, PTL DEF Spec, AnnouncedOnce

-----------------------------------------------------------------------------
(* What the bot knows of GitHub *)

\* What the bot keeps of a pull request, field by field.
LEMMA KnownFields ==
    ASSUME NEW x
    PROVE  /\ Known(x).state = x.state /\ Known(x).head = x.head
           /\ Known(x).updated = x.updated
BY DEF Known

\* A later update is after the last check, so that what is known needs not cover it.
LEMMA KnowsKept ==
    ASSUME NEW d, NEW p, NEW x \in PullType, NEW y \in PullType, NEW t \in Int,
           d.repo.checked \in Int, Knows(d, p, x), Later(x, y, t), Coherent(y),
           d.repo.checked <= t
    PROVE  Knows(d, p, y)
<1>1. CASE y = x
  BY <1>1
<1>2. CASE x.state # "merged" /\ y.state # "none" /\ y.updated = t
  <2>1. d.repo.pulls[p].state # "merged" /\ ~(y.updated < d.repo.checked)
    BY <1>2 DEF Knows
  <2>2. y.state = "merged" => y.merged = y.updated
    BY DEF Coherent
  <2> QED
    BY <1>2, <2>1, <2>2 DEF Knows
<1> QED
  BY <1>1, <1>2 DEF Later

\* So it stays sound when GitHub moves on.
LEMMA SoundLater ==
    ASSUME NEW d \in States, NEW f \in [Pulls -> PullType], NEW g \in [Pulls -> PullType],
           NEW t \in Int, NEW u \in Int, t <= u, Sound(d, f, t),
           \A p \in Pulls : Later(f[p], g[p], t) /\ Coherent(g[p])
    PROVE  Sound(d, g, u)
<1>1. d.repo.checked \in Int
  BY SourcesAssumption DEF States, RepositoryType, Times, Never
<1> QED
  BY <1>1, KnowsKept DEF Sound

\* What a scan has read covers what happens later.
LEMMA ReadLater ==
    ASSUME NEW s \in Snapshots, NEW f \in [Pulls -> PullType], NEW g \in [Pulls -> PullType],
           NEW t \in Int, NEW a \in Int, a <= t, Read(s, f, a),
           \A p \in Pulls : Later(f[p], g[p], t)
    PROVE  Read(s, g, a)
<1>1. DOMAIN s.pulls \subseteq Pulls
  BY SnapshotPulls
<1> QED
  BY <1>1 DEF Read, Later

\* Queue and records may change as long as no announcement is lost.
LEMMA SoundKept ==
    ASSUME NEW d, NEW e, NEW f, NEW t, Sound(d, f, t), e.repo = d.repo,
           \A i : d.records[i] = "delivered" => e.records[i] = "delivered",
           \A x \in d.pending \ e.pending : e.records[Id(x)] = "delivered"
    PROVE  Sound(e, f, t)
<1> HIDE DEF Id
<1>1. \A p, h : Announced(d, p, h) => Announced(e, p, h)
  BY DEF Announced
<1> QED
  BY <1>1 DEF Sound, Knows

\* A scan that reads now has read what is there.
LEMMA OpenItemsRead ==
    ASSUME GitHubType, NEW a
    PROVE  Read(OpenItems, pulls, a)
<1>1. CASE listed
  <2>1. /\ OpenItems.listed = TRUE
        /\ DOMAIN OpenItems.pulls = {x \in Pulls : pulls[x].state = "open"}
        /\ \A p \in DOMAIN OpenItems.pulls : OpenItems.pulls[p] = pulls[p]
    BY <1>1 DEF OpenItems
  <2> QED
    BY <2>1 DEF Read
<1>2. CASE ~listed
  <2>1. OpenItems.listed = FALSE /\ DOMAIN OpenItems.pulls = {}
    BY <1>2 DEF OpenItems, NoSnapshot
  <2> QED
    BY <2>1 DEF Read
<1> QED
  BY <1>1, <1>2

\* A silent baseline claims nothing that is not so.
LEMMA BaselineSound ==
    ASSUME NEW d, NEW s \in Snapshots, NEW f \in [Pulls -> PullType], NEW a \in Times,
           NEW t \in Nat, a <= t, Read(s, f, a), d.repo = Baseline(a, s)
    PROVE  Sound(d, f, t)
<1>0. Never \in Int /\ Never <= t /\ a \in Int
  BY SourcesAssumption DEF Never, Times
<1>1. CASE ~s.listed
  <2>1. d.repo.initialized = Never /\ d.repo.checked = Never
    BY <1>1 DEF Baseline, NoRepository
  <2>2. \A p \in Pulls : d.repo.pulls[p].state = "none"
    <3>1. d.repo.pulls = [p \in Pulls |-> Known(NoPull)]
      BY <1>1 DEF Baseline, NoRepository
    <3>2. Known(NoPull).state = "none"
      BY DEF Known, NoPull
    <3> QED
      BY <3>1, <3>2
  <2> QED
    BY <1>0, <2>1, <2>2 DEF Sound, Knows
<1>2. CASE s.listed
  <2>1. d.repo.initialized = a /\ d.repo.checked = a
    BY <1>2 DEF Baseline
  <2>2. \A p \in Pulls : d.repo.pulls[p] = IF p \in DOMAIN s.pulls THEN Known(s.pulls[p])
                                           ELSE Known(NoPull)
    <3>1. d.repo.pulls = [p \in Pulls |-> IF p \in DOMAIN s.pulls THEN Known(s.pulls[p])
                                          ELSE Known(NoPull)]
      BY <1>2 DEF Baseline
    <3> QED
      BY <3>1
  <2>3. Known(NoPull).state = "none"
    BY DEF Known, NoPull
  <2>4. ASSUME NEW p \in Pulls PROVE Knows(d, p, f[p])
    <3>0. f[p] \in PullType /\ f[p].updated \in Int /\ f[p].merged \in Int
      BY SourcesAssumption DEF PullType, Times, Never
    <3>1. ~(d.repo.initialized <= f[p].merged /\ f[p].merged < d.repo.checked)
      BY <1>0, <2>1, <3>0
    <3>2. CASE p \in DOMAIN s.pulls
      <4>1. d.repo.pulls[p] = Known(s.pulls[p]) /\ s.pulls[p].state = "open"
        BY <2>2, <3>2, SnapshotPulls
      <4>2. d.repo.pulls[p].state = "open"
        BY <4>1, KnownFields
      <4>3. f[p].state # "none" /\ (f[p] = s.pulls[p] \/ f[p].updated >= a)
        BY <3>2 DEF Read
      <4> QED
        BY <1>0, <2>1, <3>0, <3>1, <4>1, <4>2, <4>3 DEF Knows
    <3>3. CASE p \notin DOMAIN s.pulls
      BY <2>2, <2>3, <3>1, <3>3 DEF Knows
    <3> QED
      BY <3>2, <3>3
  <2> QED
    BY <2>1, <2>4 DEF Sound
<1> QED
  BY <1>1, <1>2, SnapshotPulls

\* A check of a repository that was checked before: what is closed since then is read
\* again, what is open was read since the scan began, and what is neither has not changed
\* since the last check.
LEMMA ReconciledSound ==
    ASSUME TypeOK, Sound(disk, pulls, clock), Read(run.snapshot, pulls, run.at),
           run.at <= clock, Compared(run.snapshot)
    PROVE  Sound(Checked, pulls, clock)
<1> DEFINE closed == RecentlyClosed(disk.repo.checked)
           old == disk.repo
           s == run.snapshot
<1>0. /\ GitHubType /\ s \in Snapshots /\ disk \in States /\ old \in RepositoryType
      /\ old.checked \in Times /\ old.checked \in Int /\ run.at \in Int
      /\ old.initialized # Never /\ s.listed
  BY SourcesAssumption
  DEF TypeOK, CloneType, Runs, States, RepositoryType, Times, Never, Compared
<1>1. /\ Checked.repo = Reconciled(old, s, closed, run.at)
      /\ Checked.pending = disk.pending \cup NewEvents(s, closed)
      /\ Checked.records = disk.records
  BY CheckedEffect DEF RepositoryAfter
<1>2. /\ DOMAIN closed = {x \in Pulls : /\ pulls[x].state \in {"closed", "merged"}
                                        /\ pulls[x].updated >= old.checked}
      /\ \A p \in DOMAIN closed : closed[p] = pulls[p]
  BY <1>0, ClosedPulls
<1>3. Merged(old, closed) \subseteq NewEvents(s, closed)
  BY DEF NewEvents
<1> HIDE DEF closed
<1>4. /\ Checked.repo.initialized = old.initialized /\ Checked.repo.checked = run.at
      /\ \A p \in Pulls : Checked.repo.pulls[p] = IF p \in DOMAIN closed THEN Known(closed[p])
                                                  ELSE IF p \in DOMAIN s.pulls
                                                  THEN Known(s.pulls[p])
                                                  ELSE old.pulls[p]
  BY <1>1 DEF Reconciled
<1>5. \A p, h : Announced(disk, p, h) => Announced(Checked, p, h)
  BY <1>1 DEF Announced
<1>6. ASSUME NEW p \in Pulls PROVE Knows(Checked, p, pulls[p])
  <2> DEFINE x == pulls[p]
             k == Checked.repo.pulls[p]
  <2>0. /\ x \in PullType /\ x.updated \in Int /\ x.merged \in Int /\ Coherent(x)
        /\ x.state \in PullStates
    BY <1>0, SourcesAssumption DEF GitHubType, PullType, Times, Never
  <2>1. Knows(disk, p, x)
    BY DEF Sound
  <2>2. CASE p \in DOMAIN closed
    <3>1. k = Known(x) /\ x.state \in {"closed", "merged"} /\ x.updated >= old.checked
      BY <1>2, <1>4, <2>2
    <3>2. x.state = "merged" => Announced(Checked, p, x.head)
      <4>1. CASE old.pulls[p].state = "merged"
        BY <1>0, <1>5, <2>1, <4>1 DEF Knows
      <4>2. CASE old.pulls[p].state # "merged" /\ x.state = "merged"
        <5> DEFINE e == Event("merged", p, x.head, x.merged)
        <5>1. x.merged >= old.checked
          BY <2>0, <3>1, <4>2 DEF Coherent
        <5>2. e \in Merged(old, closed)
          BY <1>2, <2>2, <4>2, <5>1 DEF Merged
        <5>3. e \in Checked.pending /\ Id(e) = <<"merged", p, x.head>>
          BY <1>1, <1>3, <5>2 DEF Event, Id
        <5> QED
          BY <5>3 DEF Announced
      <4> QED
        BY <4>1, <4>2
    <3> QED
      BY <3>1, <3>2, KnownFields DEF Knows
  <2>3. CASE p \notin DOMAIN closed /\ p \in DOMAIN s.pulls
    <3>1. k = Known(s.pulls[p]) /\ s.pulls[p].state = "open"
      BY <1>0, <1>4, <2>3, SnapshotPulls
    <3>2. k.state = "open"
      BY <3>1, KnownFields
    <3>3. x.state # "none" /\ (x = s.pulls[p] \/ x.updated >= run.at)
      BY <2>3 DEF Read
    <3>4. x.state = "merged" => x.merged < old.checked
      BY <1>0, <1>2, <2>0, <2>3 DEF Coherent
    <3>5. (x.state = "merged" /\ old.initialized <= x.merged) => Announced(Checked, p, x.head)
      BY <1>0, <1>5, <2>1, <3>4 DEF Knows
    <3> QED
      BY <1>0, <1>4, <2>0, <3>1, <3>2, <3>3, <3>5 DEF Knows
  <2>4. CASE p \notin DOMAIN closed /\ p \notin DOMAIN s.pulls
    <3>1. k = old.pulls[p]
      BY <1>4, <2>4
    <3>2. x.state \in {"closed", "merged"} => x.updated < old.checked
      BY <1>0, <1>2, <2>0, <2>4
    <3>3. x.state = "open" => x.updated >= run.at
      BY <1>0, <2>0, <2>4 DEF Read
    <3>4. k.state # "none" /\ x.updated < run.at => k = Known(x)
      BY <1>0, <2>0, <2>1, <3>1, <3>2, <3>3 DEF Knows, PullStates
    <3>5. x.state = "merged" => x.merged < old.checked
      BY <2>0, <3>2 DEF Coherent
    <3>6. (/\ x.state = "merged"
           /\ k.state = "merged" \/ old.initialized <= x.merged) => Announced(Checked, p, x.head)
      BY <1>0, <1>5, <2>1, <3>1, <3>5 DEF Knows
    <3> QED
      BY <1>4, <2>1, <3>1, <3>4, <3>6 DEF Knows
  <2> QED
    BY <2>2, <2>3, <2>4
<1> QED
  BY <1>4, <1>6 DEF Sound

\* The unit of work of a check.
LEMMA CheckedSound ==
    ASSUME TypeOK, Sound(disk, pulls, clock), Read(run.snapshot, pulls, run.at),
           run.at <= clock
    PROVE  Sound(Checked, pulls, clock)
<1>1. CASE Compared(run.snapshot)
  BY <1>1, ReconciledSound
<1>2. CASE ~Compared(run.snapshot)
  <2>1. Checked.repo = Baseline(run.at, run.snapshot)
    BY <1>2, CheckedEffect DEF RepositoryAfter
  <2>2. /\ run.snapshot \in Snapshots /\ run.at \in Times /\ clock \in Nat
        /\ pulls \in [Pulls -> PullType]
    BY SourcesAssumption DEF TypeOK, GitHubType, CloneType, Runs
  <2> QED
    BY <2>1, <2>2, BaselineSound
<1> QED
  BY <1>1, <1>2

\* Nothing is known yet.
LEMMA KnowInit == Init => KnowInv
<1> SUFFICES ASSUME Init PROVE KnowInv
  OBVIOUS
<1>1. NewState.repo = NoRepository
  BY DEF NewState
<1>2. /\ NoRepository.checked = Never /\ NoRepository.initialized = Never
      /\ NoRepository.pulls = [p \in Pulls |-> Known(NoPull)]
  BY DEF NoRepository
<1>3. Known(NoPull).state = "none" /\ Never <= 0
  BY DEF Known, NoPull, Never
<1>4. Sound(NewState, pulls, 0)
  BY <1>1, <1>2, <1>3 DEF Sound, Knows
<1>5. run.at = Never
  BY DEF Init, Started
<1> QED
  BY <1>3, <1>4, <1>5 DEF Init, KnowInv

\* A step of a run that puts nothing unsound on the branch or in the clone.
LEMMA KnowKept ==
    ASSUME KnowInv, UNCHANGED github, run'.at = run.at, pc' # "closed",
           pc' # "off" => Sound(disk', pulls, clock),
           remote' = remote \/ Sound(remote', pulls, clock)
    PROVE  KnowInv'
BY DEF KnowInv, github

\* A checkpoint that finds a sound d in the working tree.
LEMMA KnowSaved ==
    ASSUME KnowInv, UNCHANGED github, NEW d \in States, NEW r \in Runs, NEW there,
           NEW elsewhere, Sound(d, pulls, clock), r.at = run.at, run.commit \in States,
           Saved(d, r, there) \/ NotSaved(d, r, elsewhere),
           there # "closed", elsewhere # "closed"
    PROVE  KnowInv'
<1>1. \A c \in States : [r EXCEPT !.commit = c].at = r.at
  BY CommitEffect
<1>2. run'.at = run.at
  BY <1>1 DEF Saved, NotSaved
<1>3. /\ remote' \in {remote, d} /\ disk' = d /\ pc' \in {there, elsewhere}
  BY DEF Saved, NotSaved
<1> QED
  BY <1>2, <1>3, KnowKept

\* The records of the deliveries do not disturb what is known.
LEMMA KnowRecorded ==
    ASSUME TypeOK, KnowInv, pc # "off", NEW i \in Ids, NEW st \in Statuses,
           disk.records[i] # "delivered"
    PROVE  Recorded(i, st) \in States /\ Sound(Recorded(i, st), pulls, clock)
<1>0. disk \in States /\ disk.records \in [Ids -> Statuses] /\ Sound(disk, pulls, clock)
  BY DEF TypeOK, CloneType, States, KnowInv
<1> DEFINE d == Recorded(i, st)
<1>1. /\ d \in States /\ d.repo = disk.repo /\ d.pending = disk.pending
      /\ d.records = [disk.records EXCEPT ![i] = st]
  BY <1>0, RecordedEffect
<1> HIDE DEF d
<1>2. \A j : disk.records[j] = "delivered" => d.records[j] = "delivered"
  BY <1>0, <1>1
<1>3. Sound(d, pulls, clock)
  BY <1>0, <1>1, <1>2, SoundKept
<1> QED
  BY <1>1, <1>3 DEF d

\* A replay starts from the branch.
LEMMA KnowRestarted ==
    ASSUME KnowInv, Restarted, UNCHANGED github
    PROVE  KnowInv'
<1>1. remote' = remote /\ run'.at = run.at /\ (pc' # "off" => disk' = remote) /\ pc' # "closed"
  BY DEF Restarted
<1> QED
  BY <1>1, KnowKept DEF KnowInv

\* What GitHub does makes nothing false that is known.
LEMMA KnowGitHub == ASSUME TypeOK, KnowInv, GitHub PROVE KnowInv'
<1>0. /\ UNCHANGED worker /\ GitHubType' /\ clock <= clock'
      /\ \A p \in Pulls : Later(pulls[p], pulls'[p], clock)
  BY GitHubEffect
<1>1. /\ clock \in Int /\ clock' \in Int /\ run.at \in Int
      /\ pulls \in [Pulls -> PullType] /\ pulls' \in [Pulls -> PullType]
      /\ \A p \in Pulls : Coherent(pulls'[p])
      /\ remote \in States /\ disk \in States /\ run.snapshot \in Snapshots
  BY <1>0, SourcesAssumption DEF TypeOK, GitHubType, CloneType, Runs, Times, Never
<1>2. Sound(remote, pulls', clock')
  BY <1>0, <1>1, SoundLater DEF KnowInv
<1>3. pc # "off" => Sound(disk, pulls', clock')
  BY <1>0, <1>1, SoundLater DEF KnowInv
<1>4. pc = "closed" => Read(run.snapshot, pulls', run.at)
  BY <1>0, <1>1, ReadLater DEF KnowInv
<1> QED
  BY <1>0, <1>1, <1>2, <1>3, <1>4 DEF KnowInv, worker

\* A delivery changes records only.
LEMMA KnowDelivery ==
    ASSUME TypeOK, OnceInv, KnowInv, (\E e \in disk.pending : Intend(e)) \/ Outcome
    PROVE  KnowInv'
<1>0. run \in Runs /\ disk \in States /\ disk.pending \subseteq Events /\ run.commit \in States
  BY DEF TypeOK, CloneType, States, Runs
<1>1. ASSUME NEW e \in disk.pending, Intend(e) PROVE KnowInv'
  <2>0. /\ UNCHANGED github /\ pc = "deliver" /\ Id(e) \in Ids
        /\ Tried(e) \in Runs /\ Tried(e).at = run.at
        /\ Trying(e) \in Runs /\ Trying(e).at = run.at
    BY <1>0, <1>1, IntendEffect, TriedEffect
  <2> HIDE DEF Id
  <2>1. CASE Restarted
    BY <2>0, <2>1, KnowRestarted
  <2>2. ASSUME NEW st \in {"sending", "ambiguous"}, disk.records[Id(e)] # "delivered"
        PROVE  Recorded(Id(e), st) \in States /\ Sound(Recorded(Id(e), st), pulls, clock)
    BY <2>0, <2>2, KnowRecorded DEF Statuses
  <2>3. CASE /\ disk.records[Id(e)] # "delivered"
             /\ \/ Saved(Recorded(Id(e), "sending"), Trying(e), "sending")
                \/ NotSaved(Recorded(Id(e), "sending"), Trying(e), "final")
    BY <1>0, <2>0, <2>2, <2>3, KnowSaved
  <2>4. CASE /\ disk.records[Id(e)] # "delivered"
             /\ \/ Saved(Recorded(Id(e), "ambiguous"), Tried(e), "deliver")
                \/ NotSaved(Recorded(Id(e), "ambiguous"), Tried(e), "final")
    BY <1>0, <2>0, <2>2, <2>4, KnowSaved
  <2> QED
    BY <1>1, <2>1, <2>3, <2>4, IntendEffect
<1>2. CASE Outcome
  <2>0. /\ UNCHANGED github /\ pc = "result" /\ run.id \in Ids /\ run.outcome \in Statuses
        /\ Delivered \in Runs /\ Delivered.at = run.at
        /\ Undelivered \in Runs /\ Undelivered.at = run.at
    BY <1>0, <1>2, OutcomeStep, OutcomeEffect DEF Runs, Delivered, Undelivered
  <2>1. CASE Restarted
    BY <2>0, <2>1, KnowRestarted
  <2>2. disk.records[run.id] # "delivered"
    BY <2>0 DEF OnceInv, PlaceInv
  <2>3. /\ Recorded(run.id, run.outcome) \in States
        /\ Sound(Recorded(run.id, run.outcome), pulls, clock)
    BY <2>0, <2>2, KnowRecorded
  <2>4. CASE \/ Saved(Recorded(run.id, run.outcome), Delivered, "acknowledge")
             \/ NotSaved(Recorded(run.id, run.outcome), Delivered, "final")
    BY <1>0, <2>0, <2>3, <2>4, KnowSaved
  <2>5. CASE \/ Saved(Recorded(run.id, run.outcome), Undelivered, "deliver")
             \/ NotSaved(Recorded(run.id, run.outcome), Undelivered, "final")
    BY <1>0, <2>0, <2>3, <2>5, KnowSaved
  <2> QED
    BY <1>2, <2>1, <2>4, <2>5, OutcomeStep
<1> QED
  BY <1>1, <1>2

\* A delivered event that leaves the queue is still recorded.
LEMMA KnowAcknowledged ==
    ASSUME disk \in States, disk.records[run.id] = "delivered", NEW f, NEW t,
           Sound(disk, f, t)
    PROVE  Sound(Acknowledged, f, t)
<1> HIDE DEF Id
<1> DEFINE d == Acknowledged
<1>1. /\ d.repo = disk.repo /\ d.records = disk.records
      /\ d.pending = {e \in disk.pending : Id(e) # run.id}
  BY AcknowledgedEffect
<1> HIDE DEF d
<1>2. \A x \in disk.pending \ d.pending : d.records[Id(x)] = "delivered"
  BY <1>1
<1>3. \A i : disk.records[i] = "delivered" => d.records[i] = "delivered"
  BY <1>1
<1>4. Sound(d, f, t)
  BY <1>1, <1>2, <1>3, SoundKept
<1> QED
  BY <1>4 DEF d

\* Every step keeps what is known sound.
LEMMA KnowNext == ASSUME TypeOK, OnceInv, KnowInv, [Next]_vars PROVE KnowInv'
<1>0. /\ run \in Runs /\ disk \in States /\ run.commit \in States /\ run.at \in Int
      /\ clock \in Nat /\ clock \in Times /\ GitHubType /\ pulls \in [Pulls -> PullType]
      /\ OpenItems \in Snapshots
  BY SourcesAssumption, ClockTime, OpenItemsType
  DEF TypeOK, GitHubType, CloneType, Runs, Times, Never
<1>1. CASE Bootstrap
  <2>1. Read(OpenItems, pulls, clock)
    BY <1>0, OpenItemsRead
  <2>2. Sound(remote', pulls, clock)
    BY <1>0, <1>1, <2>1, BootstrapEffect, BaselineSound
  <2> QED
    BY <1>0, <1>1, <2>2, BootstrapEffect DEF KnowInv, github
<1>2. CASE Start
  BY <1>0, <1>2, StartEffect DEF KnowInv, github
<1>3. CASE ScanScoped
  BY <1>3, ScanScopedEffect, KnowKept DEF KnowInv
<1>4. CASE ReadOpen
  <2>1. Read(OpenItems, pulls, run.at)
    BY <1>0, OpenItemsRead
  <2> QED
    BY <1>4, <2>1, ReadOpenEffect DEF KnowInv, github
<1>5. CASE SourceCheck
  <2>0. /\ UNCHANGED github /\ pc = "closed" /\ Checked \in States
        /\ Forgotten \in Runs /\ Forgotten.at = run.at
    BY <1>0, <1>5, SourceCheckEffect, CheckedEffect, ForgottenEffect
  <2>1. CASE Restarted
    BY <2>0, <2>1, KnowRestarted
  <2>2. Sound(Checked, pulls, clock)
    BY <2>0, CheckedSound DEF KnowInv
  <2>3. CASE Saved(Checked, Forgotten, "deliver") \/ NotSaved(Checked, Forgotten, "deliver")
    BY <1>0, <2>0, <2>2, <2>3, KnowSaved
  <2>4. CASE run' = Forgotten /\ pc' = "deliver" /\ UNCHANGED <<remote, disk>>
    BY <2>0, <2>4, KnowKept DEF KnowInv
  <2> QED
    BY <1>5, <2>1, <2>3, <2>4, SourceCheckEffect
<1>6. ASSUME NEW e \in disk.pending, Recall(e) \/ Skip(e) PROVE KnowInv'
  BY <1>6, RecallEffect, KnowKept DEF KnowInv
<1>7. CASE Post
  BY <1>7, PostEffect, KnowKept DEF KnowInv
<1>8. CASE Acknowledge
  <2>0. /\ UNCHANGED github /\ pc = "acknowledge" /\ Acknowledged \in States
        /\ Closed \in Runs /\ Closed.at = run.at
    BY <1>0, <1>8, AcknowledgeStep, AcknowledgedEffect, OutcomeEffect DEF Closed
  <2>1. CASE Restarted
    BY <2>0, <2>1, KnowRestarted
  <2>2. disk.records[run.id] = "delivered" /\ Sound(disk, pulls, clock)
    BY <2>0 DEF OnceInv, PlaceInv, KnowInv
  <2>3. Sound(Acknowledged, pulls, clock)
    BY <1>0, <2>0, <2>2, KnowAcknowledged
  <2>4. CASE Saved(Acknowledged, Closed, "deliver") \/ NotSaved(Acknowledged, Closed, "final")
    <3>1. UNCHANGED github /\ run.commit \in States /\ Closed.at = run.at
      BY <1>0, <2>0
    <3>2. Acknowledged \in States /\ Closed \in Runs
      BY <2>0
    <3> QED
      BY <2>3, <2>4, <3>1, <3>2, KnowSaved
  <2> QED
    BY <1>8, <2>1, <2>4, AcknowledgeStep
<1>9. CASE Finish
  <2>1. CASE Restarted
    BY <1>9, <2>1, FinishEffect, KnowRestarted
  <2>2. CASE remote' \in {remote, disk} /\ pc' = "off" /\ run'.at = run.at
    BY <1>9, <2>2, FinishEffect, KnowKept DEF KnowInv
  <2> QED
    BY <1>9, <2>1, <2>2, FinishEffect
<1>10. CASE Crash
  BY <1>10, CrashEffect, KnowRestarted DEF TypeOK, Crash
<1>11. CASE UNCHANGED vars
  BY <1>11 DEF vars, github, worker, KnowInv
<1> QED
  BY <1>1, <1>2, <1>3, <1>4, <1>5, <1>6, <1>7, <1>8, <1>9, <1>10, <1>11, KnowGitHub, KnowDelivery
  DEF Next

\* What is known is sound on the branch and in the clone.
THEOREM SoundKnowledge == Spec => []KnowInv
<1>1. TypeOK /\ OnceInv /\ KnowInv /\ [Next]_vars => KnowInv'
  BY KnowNext
<1> QED
  BY <1>1, KnowInit, TypeCorrect, RecordsTell, PTL DEF Spec

\* A merge between the baseline and the last check is in the queue or delivered.
THEOREM MergesKept == Spec => []MergesAnnounced
<1>1. KnowInv => MergesAnnounced
  <2>1. ASSUME KnowInv, NEW p \in Pulls, pulls[p].state = "merged",
               remote.repo.initialized # Never, remote.repo.initialized <= pulls[p].merged,
               pulls[p].merged < remote.repo.checked
        PROVE  \/ \E e \in remote.pending : e.kind = "merged" /\ e.item = p
               \/ remote.records[<<"merged", p, pulls[p].head>>] = "delivered"
    BY <2>1 DEF KnowInv, Sound, Knows, Announced, Id
  <2> QED
    BY <2>1 DEF MergesAnnounced
<1> QED
  BY <1>1, SoundKnowledge, PTL

\* What a reply is told as the current state of a pull request is its state, unless it
\* changed within the last MaxAge seconds.
THEOREM CurrentEvidence == Spec => []EvidenceCurrent
<1>1. TypeOK /\ KnowInv => EvidenceCurrent
  <2> SUFFICES ASSUME TypeOK, KnowInv, NEW p \in Pulls, NEW known \in Evidence(p),
                      known.state # "none", pulls[p].updated < clock - MaxAge
               PROVE  known = Known(pulls[p])
    BY DEF EvidenceCurrent
  <2>0. /\ pulls[p].updated \in Int /\ clock \in Int /\ MaxAge \in Int
        /\ remote.repo.checked \in Int
    BY SourcesAssumption
    DEF TypeOK, GitHubType, CloneType, States, RepositoryType, PullType, Times, Never
  <2>1. CASE Fresh(p)
    <3>1. known = remote.repo.pulls[p]
      BY <2>1 DEF Evidence
    <3>2. pulls[p].updated < remote.repo.checked
      BY <2>0, <2>1 DEF Fresh
    <3> QED
      BY <3>1, <3>2 DEF KnowInv, Sound, Knows
  <2>2. CASE ~Fresh(p)
    <3>1. known \in {Known(NoPull), Known(pulls[p])}
      BY <2>2 DEF Evidence, Refreshed
    <3>2. Known(NoPull).state = "none"
      BY DEF Known, NoPull
    <3> QED
      BY <3>1, <3>2
  <2> QED
    BY <2>1, <2>2
<1> QED
  BY <1>1, SoundKnowledge, TypeCorrect, PTL
=============================================================================
