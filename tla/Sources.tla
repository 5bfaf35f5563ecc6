------------------------------ MODULE Sources ------------------------------
(***************************************************************************)
(* The source check and the GitHub announcements: scoped_scanner.py and    *)
(* github_announcements.py, with source_check and the announcement half of *)
(* telegram_delivery of runtime.py.                                        *)
(*                                                                         *)
(* GitHub moves on by itself, also between the requests of one scan, which *)
(* reads open pull requests and recently closed ones apart.  A scan writes *)
(* what it saw and the events it found to the clone in one unit of work;   *)
(* events wait in a queue that is pushed before anything is announced.     *)
(* Announcing uses the records of delivery.py (module Delivery has its     *)
(* steps; here the intent and the outcome are one push each).  One worker  *)
(* runs at a time; it may die or lose its clone to another push.           *)
(*                                                                         *)
(* One repository; titles, authors and the text of an announcement do not  *)
(* change.  A unit of time is one second, the precision of GitHub.         *)
(***************************************************************************)
EXTENDS Integers

CONSTANTS
    Pulls,      \* pull requests
    Issues,     \* issues
    Heads,      \* commits a pull request may point to
    NoHead,
    MaxAge,     \* how old a state may be that is given as current evidence
    MaxTime,    \* bound: the last second
    MaxChanges, \* bound: what happens at GitHub
    MaxFaults   \* bound: refused and failed checkpoints, and deaths of a worker

ASSUME SourcesAssumption ==
    /\ NoHead \notin Heads
    /\ {MaxAge, MaxTime, MaxChanges, MaxFaults} \subseteq Nat

VARIABLES
    clock,      \* the time at GitHub and at the worker
    listed,     \* whether the organization lists the repository as public
    pulls,      \* the pull requests at GitHub
    issues,     \* issue |-> when it was opened
    changes,    \* how much has happened at GitHub
    remote,     \* data/state and the vault at the head of the remote branch
    disk,       \* the same in the clone of the run
    pc,         \* where the run is, "off" between two runs
    run,        \* what the run remembers
    posted,     \* announcement |-> messages that reached the chat
    faults      \* how many checkpoints and workers have failed

github == <<clock, listed, pulls, issues, changes>>
worker == <<remote, disk, pc, run, posted, faults>>
vars == <<github, worker>>

Never == -1
Times == {Never} \cup (0..MaxTime)

NoPull == [state |-> "none", head |-> NoHead, created |-> Never, updated |-> Never,
           merged |-> Never]

\* GitHubPullState: what the bot keeps of a pull request.
Known(p) == [state |-> p.state, head |-> p.head, updated |-> p.updated]

\* GitHubRepositoryState; a repository without a baseline was never checked.
NoRepository ==
    [initialized |-> Never, checked |-> Never, pulls |-> [p \in Pulls |-> Known(NoPull)],
     issues |-> {}]

\* An announcement; the head stands for the discriminator of its event_id.
Event(kind, item, head, at) == [kind |-> kind, item |-> item, head |-> head, at |-> at]
Id(e) == <<e.kind, e.item, e.head>>
Ids == ({"opened", "updated", "merged"} \X Pulls \X Heads)
           \cup ({"issue"} \X Issues \X {NoHead})

\* github-announcement-state.json, pending-github-announcements.json, the
\* entries of delivery-state.json and the page of the repository.
NewState == [baseline |-> FALSE, repo |-> NoRepository, pending |-> {},
             records |-> [i \in Ids |-> "none"], page |-> FALSE]

NoSnapshot == [listed |-> FALSE, pulls |-> <<>>, issues |-> {}]

\* The memory of a run: when it started, whether it is a replay, what it
\* saw, which events it has tried to announce, and what its clone last committed.
Started(d, t, tries) ==
    [at |-> t, commit |-> d, tries |-> tries, page |-> FALSE, snapshot |-> NoSnapshot,
     tried |-> {}, id |-> <<>>, outcome |-> "none"]

Init ==
    /\ clock = 0
    /\ listed = TRUE
    /\ pulls = [p \in Pulls |-> NoPull]
    /\ issues = [i \in Issues |-> Never]
    /\ changes = 0
    /\ remote = NewState
    /\ disk = NewState
    /\ pc = "off"
    /\ run = Started(NewState, Never, 0)
    /\ posted = [i \in Ids |-> 0]
    /\ faults = 0

-----------------------------------------------------------------------------
(* GitHub                                                                  *)

Time ==
    /\ clock < MaxTime
    /\ clock' = clock + 1
    /\ UNCHANGED <<listed, pulls, issues, changes>>

Happens == changes < MaxChanges /\ changes' = changes + 1

\* The repository is published, or made private.
List ==
    /\ Happens
    /\ listed' = ~listed
    /\ UNCHANGED <<clock, pulls, issues>>

Change(p, to) ==
    /\ Happens
    /\ pulls' = [pulls EXCEPT ![p] = to]
    /\ UNCHANGED <<clock, listed, issues>>

OpenPull(p) ==
    /\ pulls[p].state = "none"
    /\ \E h \in Heads : Change(p, [state |-> "open", head |-> h, created |-> clock,
                                   updated |-> clock, merged |-> Never])

PushCommits(p) ==
    /\ pulls[p].state = "open"
    /\ \E h \in Heads \ {pulls[p].head} :
          Change(p, [pulls[p] EXCEPT !.head = h, !.updated = clock])

ClosePull(p) ==
    /\ pulls[p].state = "open"
    /\ \/ Change(p, [pulls[p] EXCEPT !.state = "closed", !.updated = clock])
       \/ Change(p, [pulls[p] EXCEPT !.state = "merged", !.updated = clock, !.merged = clock])

Reopen(p) ==
    /\ pulls[p].state = "closed"
    /\ Change(p, [pulls[p] EXCEPT !.state = "open", !.updated = clock])

OpenIssue(i) ==
    /\ Happens
    /\ issues[i] = Never
    /\ issues' = [issues EXCEPT ![i] = clock]
    /\ UNCHANGED <<clock, listed, pulls>>

GitHub ==
    /\ \/ Time \/ List
       \/ \E p \in Pulls : OpenPull(p) \/ PushCommits(p) \/ ClosePull(p) \/ Reopen(p)
       \/ \E i \in Issues : OpenIssue(i)
    /\ UNCHANGED worker

-----------------------------------------------------------------------------
(* The disposable clone and its checkpoints (as in Tick)                   *)

Goto(where) == pc' = where

Begin(t, tries) ==
    /\ disk' = remote
    /\ run' = Started(remote, t, tries)
    /\ Goto("scoped")

Stop ==
    /\ disk' = NewState
    /\ run' = Started(NewState, run.at, 0)
    /\ Goto("off")

Fault == faults < MaxFaults /\ faults' = faults + 1

\* RepositorySession.run: RepositoryConflict replays the run once.
Conflict ==
    /\ Fault
    /\ IF run.tries = 0 THEN Begin(run.at, 1) ELSE Stop
    /\ UNCHANGED remote

\* What a successful push leaves at the head: d.  With nothing new of what is
\* modelled here it may push nothing at all, not even an earlier commit.
Pushed(d) == IF d = run.commit THEN {remote, d} ELSE {d}

\* The working tree becomes d and commit_operation.sh runs: it pushes, the
\* push is refused, or the script fails (before the commit or after it, and it
\* may have pushed all the same).
Checkpoint(d, r, there, elsewhere) ==
    /\ \/ /\ remote' \in Pushed(d) /\ disk' = d
          /\ run' = [r EXCEPT !.commit = d]
          /\ Goto(there)
          /\ UNCHANGED faults
       \/ /\ Fault
          /\ remote' \in {remote, d} /\ disk' = d
          /\ \E commit \in {run.commit, d} :
                /\ remote' # remote => commit = d
                /\ run' = [r EXCEPT !.commit = commit]
          /\ Goto(elsewhere)
       \/ Conflict
    /\ UNCHANGED github

Proceed(r, where) ==
    /\ run' = r
    /\ Goto(where)
    /\ UNCHANGED <<github, remote, disk, faults>>

\* The cron.
Start ==
    /\ pc = "off" /\ run.at < clock
    /\ Begin(clock, 0)
    /\ UNCHANGED <<github, remote, posted, faults>>

\* bootstrap-github-announcements: open items only, nothing is announced.
Baseline(t, snapshot) ==
    IF ~snapshot.listed THEN NoRepository
    ELSE [initialized |-> t, checked |-> t,
          pulls |-> [p \in Pulls |-> IF p \in DOMAIN snapshot.pulls
                                     THEN Known(snapshot.pulls[p]) ELSE Known(NoPull)],
          issues |-> snapshot.issues]

\* What a scan reads of the open items, while the repository is listed.
OpenItems ==
    IF ~listed THEN NoSnapshot
    ELSE [listed |-> TRUE,
          pulls |-> [p \in {x \in Pulls : pulls[x].state = "open"} |-> pulls[p]],
          issues |-> {i \in Issues : issues[i] # Never}]

Bootstrap ==
    /\ pc = "off" /\ run.at < clock /\ ~remote.baseline
    /\ remote' = [remote EXCEPT !.baseline = TRUE, !.repo = Baseline(clock, OpenItems)]
    /\ run' = Started(NewState, clock, 0)
    /\ UNCHANGED <<github, disk, pc, posted, faults>>

-----------------------------------------------------------------------------
(* source_check                                                            *)

\* ScopedSourceScanner.scan, in a run of L2: any failed source ends the source
\* check.  Runs of the other layers go on to the delivery.
ScanScoped ==
    /\ pc = "scoped"
    /\ \/ Proceed([run EXCEPT !.page = listed], "open")
       \/ Proceed(run, "deliver")
    /\ UNCHANGED posted

\* _load_state, which wants a baseline, and the open items of _snapshot.
ReadOpen ==
    /\ pc = "open"
    /\ \/ disk.baseline /\ Proceed([run EXCEPT !.snapshot = OpenItems], "closed")
       \/ Proceed(run, "deliver")
    /\ UNCHANGED posted

\* Mutant: the boundary second counts as seen.
MutantRecentlyClosed(since) ==
    [p \in {x \in Pulls : pulls[x].state \in {"closed", "merged"}
                            /\ pulls[x].updated > since} |-> pulls[p]]

\* _recently_closed_pulls; the boundary second is read again.
RecentlyClosed(since) ==
    [p \in {x \in Pulls : pulls[x].state \in {"closed", "merged"}
                            /\ pulls[x].updated >= since} |-> pulls[p]]

\* The events of _reconcile_repository.
OpenedAndUpdated(old, open, closed) ==
    {Event("opened", p, open[p].head, open[p].created) :
        p \in {x \in DOMAIN open \ DOMAIN closed :
                 old.pulls[x].state = "none" /\ open[x].created >= old.checked}}
      \cup
    {Event("updated", p, open[p].head, open[p].updated) :
        p \in {x \in DOMAIN open \ DOMAIN closed :
                 old.pulls[x].state # "none" /\ old.pulls[x].head # open[x].head}}

Merged(old, closed) ==
    {Event("merged", p, closed[p].head, closed[p].merged) :
        p \in {x \in DOMAIN closed : /\ closed[x].merged >= old.checked
                                     /\ closed[x].state = "merged"
                                     /\ old.pulls[x].state # "merged"}}

NewIssues(old, seen) ==
    {Event("issue", i, NoHead, issues[i]) :
        i \in {x \in seen \ old.issues : issues[x] >= old.checked}}

\* The state of _reconcile_repository: a closed one overrides an open one, and
\* it is dated when the run started: what happens while the scan reads is later.
Reconciled(old, snapshot, closed, t) ==
    [initialized |-> old.initialized, checked |-> t,
     pulls |-> [p \in Pulls |-> IF p \in DOMAIN closed THEN Known(closed[p])
                                ELSE IF p \in DOMAIN snapshot.pulls
                                THEN Known(snapshot.pulls[p])
                                ELSE old.pulls[p]],
     issues |-> old.issues \cup snapshot.issues]

\* reconcile_announcements: a repository that is new to the bot gets a silent
\* baseline, one that is no longer listed is forgotten.
Compared(snapshot) == disk.repo.initialized # Never /\ snapshot.listed

NewEvents(snapshot, closed) ==
    IF ~Compared(snapshot) THEN {}
    ELSE OpenedAndUpdated(disk.repo, snapshot.pulls, closed)
           \cup Merged(disk.repo, closed) \cup NewIssues(disk.repo, snapshot.issues)

RepositoryAfter(snapshot, closed, t) ==
    IF Compared(snapshot) THEN Reconciled(disk.repo, snapshot, closed, t)
    ELSE Baseline(t, snapshot)

\* _merge_pending: an event that is queued already comes again with another time.
Conflicting(new) == \E e \in disk.pending, f \in new : Id(e) = Id(f) /\ e # f

\* The repository has its page, or gets it (stage_repository_pages).
Page == disk.page \/ run.page

\* The closed pull requests of a repository that was checked before, then the
\* unit of work with the state, the queue and the page.
SourceCheck ==
    LET closed == RecentlyClosed(disk.repo.checked)
        new == NewEvents(run.snapshot, closed)
        done == [run EXCEPT !.snapshot = NoSnapshot, !.page = FALSE]
    IN
    /\ pc = "closed"
    /\ \/ /\ ~Conflicting(new)
          /\ Checkpoint([disk EXCEPT !.repo = RepositoryAfter(run.snapshot, closed, run.at),
                                     !.pending = @ \cup new,
                                     !.page = Page],
                        done, "deliver", "deliver")
       \/ Proceed(done, "deliver")
    /\ UNCHANGED posted

-----------------------------------------------------------------------------
(* telegram_delivery of the announcements                                  *)

Recorded(i, st) == [disk EXCEPT !.records[i] = st]

\* The queue is worked through in the order of the events.
Turn(e) ==
    /\ pc = "deliver"
    /\ e \in disk.pending /\ Id(e) \notin run.tried
    /\ \A f \in disk.pending : Id(f) \in run.tried \/ e.at <= f.at

Tried(e) == [run EXCEPT !.tried = @ \cup {Id(e)}]
Trying(e) == [Tried(e) EXCEPT !.id = Id(e)]

\* An event that is delivered already (its acknowledgement was lost).
Recall(e) ==
    /\ Turn(e) /\ disk.records[Id(e)] = "delivered"
    /\ Proceed(Trying(e), "acknowledge")
    /\ UNCHANGED posted

\* An ambiguous one stays in the queue for an operator.
Skip(e) ==
    /\ Turn(e) /\ disk.records[Id(e)] = "ambiguous"
    /\ Proceed(Tried(e), "deliver")
    /\ UNCHANGED posted

\* Mutant: an intent that a dead worker left behind is sent again.
MutantIntend(e) ==
    /\ Turn(e) /\ disk.records[Id(e)] \in {"none", "failed", "sending"}
    /\ Checkpoint(Recorded(Id(e), "sending"), Trying(e), "sending", "final")
    /\ UNCHANGED posted

Intend(e) ==
    /\ Turn(e)
    /\ \/ /\ disk.records[Id(e)] \in {"none", "failed"}
          /\ Checkpoint(Recorded(Id(e), "sending"), Trying(e), "sending", "final")
       \/ /\ disk.records[Id(e)] = "sending"
          /\ Checkpoint(Recorded(Id(e), "ambiguous"), Tried(e), "deliver", "final")
    /\ UNCHANGED posted

\* Telegram accepts the message, refuses it, or the answer is lost.
Post ==
    /\ pc = "sending"
    /\ \E outcome \in {"delivered", "failed", "ambiguous"}, arrived \in 0..1 :
          /\ outcome = "delivered" => arrived = 1
          /\ outcome = "failed" => arrived = 0
          /\ Proceed([run EXCEPT !.outcome = outcome], "result")
          /\ posted' = [posted EXCEPT ![run.id] = @ + arrived]

Outcome ==
    /\ pc = "result"
    /\ IF run.outcome = "delivered"
       THEN Checkpoint(Recorded(run.id, run.outcome), [run EXCEPT !.outcome = "none"],
                       "acknowledge", "final")
       ELSE Checkpoint(Recorded(run.id, run.outcome),
                       [run EXCEPT !.outcome = "none", !.id = <<>>], "deliver", "final")
    /\ UNCHANGED posted

\* acknowledge, and its checkpoint.
Acknowledge ==
    /\ pc = "acknowledge"
    /\ Checkpoint([disk EXCEPT !.pending = {e \in @ : Id(e) # run.id}],
                  [run EXCEPT !.id = <<>>], "deliver", "final")
    /\ UNCHANGED posted

\* The rest of telegram_delivery, and the last checkpoint of the run.
Finish ==
    /\ pc = "final" \/ (pc = "deliver" /\ \A e \in disk.pending : Id(e) \in run.tried)
    /\ \/ remote' \in Pushed(disk) /\ Stop /\ UNCHANGED faults
       \/ Fault /\ UNCHANGED remote /\ Stop
       \/ Conflict
    /\ UNCHANGED <<github, posted>>

\* The worker dies or runs out of its time.
Crash ==
    /\ pc # "off"
    /\ Fault
    /\ Stop
    /\ UNCHANGED <<github, remote, posted>>

-----------------------------------------------------------------------------
Next ==
    \/ GitHub
    \/ Bootstrap \/ Start
    \/ ScanScoped \/ ReadOpen \/ SourceCheck
    \/ \E e \in disk.pending : Recall(e) \/ Skip(e) \/ Intend(e)
    \/ Post \/ Outcome \/ Acknowledge \/ Finish \/ Crash

Spec == Init /\ [][Next]_vars

-----------------------------------------------------------------------------
(* resolve_referenced_pull_evidence                                        *)

\* Mutant: any state that is known is given.
MutantFresh(p) == remote.repo.pulls[p].state # "none"

Fresh(p) ==
    /\ remote.repo.pulls[p].state # "none"
    /\ remote.repo.checked >= clock - MaxAge

\* What a reply may be told about a pull request: the state of the last scan
\* if it is fresh, otherwise what one request finds, or nothing.
Refreshed(p) == {Known(NoPull), Known(pulls[p])}

Evidence(p) == IF Fresh(p) THEN {remote.repo.pulls[p]} ELSE Refreshed(p)

-----------------------------------------------------------------------------
(* Properties                                                              *)

\* Every merge between the baseline and the last check is in the queue or has
\* been announced, although pull requests are read in two requests, change in
\* between, and a scan may fail, be replayed or lose its clone
\* (_recently_closed_pulls, _reconcile_repository).
MergesAnnounced ==
    \A p \in Pulls :
        (/\ pulls[p].state = "merged"
         /\ remote.repo.initialized # Never
         /\ remote.repo.initialized <= pulls[p].merged
         /\ pulls[p].merged < remote.repo.checked)
        => \/ \E e \in remote.pending : e.kind = "merged" /\ e.item = p
           \/ remote.records[<<"merged", p, pulls[p].head>>] = "delivered"

\* An announcement reaches the chat at most once, and leaves the queue only
\* when it did: acknowledged after the delivery, across crashes in between
\* (telegram_delivery, acknowledge).
AnnouncedOnce ==
    [][/\ \A i \in Ids : posted'[i] <= 1
       /\ \A e \in remote.pending \ remote'.pending : posted[Id(e)] = 1]_vars

\* What a reply is told as the current state of a pull request is its state,
\* unless it changed within the last MaxAge seconds
\* (resolve_referenced_pull_evidence: fresh L2 state).
EvidenceCurrent ==
    \A p \in Pulls : \A known \in Evidence(p) :
        known.state # "none" /\ pulls[p].updated < clock - MaxAge => known = Known(pulls[p])
=============================================================================
