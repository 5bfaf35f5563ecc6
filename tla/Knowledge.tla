----------------------------- MODULE Knowledge -----------------------------
(***************************************************************************)
(* What the bot knows about its sources and how it comes to know more:     *)
(* live_evidence.py, knowledge_jobs.py, knowledge_refresh.py with          *)
(* vault_transaction.py, and the unit of work that writes their files      *)
(* (unit_of_work.py).                                                      *)
(*                                                                         *)
(* Three kinds of run fetch sources: a tick, for each reply that needs     *)
(* evidence; the command check-sources; and the command refresh-knowledge, *)
(* which rewrites the pages.  A source found to have changed is recorded   *)
(* in the registry and queued, and leaves the queue when its page was      *)
(* compiled.  Every run works in a clone of its own and pushes it (module  *)
(* Delivery has the checkpoint script); it compares sources with the       *)
(* registry it read when it began.                                         *)
(*                                                                         *)
(* A source belongs to one ERC, as in knowledge/meta/sources.yml.  Gaps    *)
(* are those of the intent IMPLEMENTATION, the one the commands use.       *)
(* Retry counts and candidates are left out: nothing in src/ defers a      *)
(* job, and candidates only pile up.                                       *)
(***************************************************************************)
EXTENDS Naturals, Sequences, FiniteSets, Functions

CONSTANTS
    Workers,       \* runs that may overlap
    Ercs,
    Sources,
    ErcOf,         \* source |-> its ERC
    KindOf,        \* source |-> its kind of evidence
    RequiredKinds, \* the kinds that must not be missing
    MaxEdits,      \* bound: edits of sources
    ContentOf,     \* revision |-> its content; a later one may restore it
    NoJob,
    Resolved,      \* taken from the queue although the source was not fetched
    NoCheckout,
    NoUnit,
    MaxErcsPerRun, \* ERCs one refresh compiles
    MaxReplies,    \* bound: replies with evidence in a tick (10 in the code)
    MaxStarts,     \* bound: runs
    MaxFaults      \* bound: writes that fail

Revisions == 0..MaxEdits
Contents == {ContentOf[r] : r \in Revisions}

\* The files of a checkout, and what one file may hold.
Observed == [Sources -> Revisions]
GapSets == SUBSET (Ercs \X RequiredKinds)
Queues == [Sources -> Contents \cup {NoJob, Resolved}]
Files == [pages : Observed, registry : Observed, gaps : GapSets, refresh : Queues]
Names == {"pages", "registry", "gaps", "refresh"}

ASSUME KnowledgeAssumption ==
    /\ ErcOf \in [Sources -> Ercs]
    /\ MaxErcsPerRun \in Nat \ {0}
    /\ {MaxReplies, MaxEdits, MaxStarts, MaxFaults} \subseteq Nat
    /\ {NoJob, Resolved} \cap Contents = {} /\ NoJob # Resolved
    /\ NoCheckout \notin Files
    /\ \A names \in SUBSET Names : NoUnit \notin [names -> Observed \cup GapSets \cup Queues]

VARIABLES
    world,    \* source |-> its revision now
    branch,   \* the files at the head of the remote branch
    runs,     \* what each run holds
    fresh,    \* whether its clone still starts from the head of the branch
    starts,   \* how many runs have begun
    faults    \* how many writes have failed

vars == <<world, branch, runs, fresh, starts, faults>>

\* The files of a unit in the order in which they are staged and published.
Order == <<"pages", "registry", "gaps", "refresh">>

NotAfter(f, g) ==
    \E i, k \in DOMAIN Order : i <= k /\ Order[i] = f /\ Order[k] = g

\* pages and registry give the revision a page was compiled from and the one
\* observed last.  refresh is keyed by ERC and source, so that a new content
\* supersedes a queued one; Resolved is history, the file has no entry then.
NewFiles == [pages    |-> [s \in Sources |-> 0],
             registry |-> [s \in Sources |-> 0],
             gaps     |-> {},
             refresh  |-> [s \in Sources |-> NoJob]]

Queued(f) == {s \in Sources : f.refresh[s] \in Contents}

Nothing == [x \in {} |-> x]

\* EvidencePack: what was fetched, which of it differs from the registry, and
\* the jobs a compilation has taken on.
NoPack == [ercs |-> {}, got |-> Nothing, changed |-> {}, jobs |-> Nothing]

Off == [pc |-> "off", files |-> NewFiles, memory |-> NewFiles.registry, todo |-> <<>>,
        scope |-> {}, pack |-> NoPack, unit |-> NoUnit, saved |-> NewFiles, written |-> {}]

Init ==
    /\ world = [s \in Sources |-> 0]
    /\ branch = NewFiles
    /\ runs = [w \in Workers |-> Off]
    /\ fresh = [w \in Workers |-> TRUE]
    /\ starts = 0
    /\ faults = 0

\* A source is edited, which may undo an earlier edit.
Edit(s) ==
    /\ world[s] + 1 \in Revisions
    /\ FoldFunction(+, 0, world) < MaxEdits
    /\ world' = [world EXCEPT ![s] = @ + 1]
    /\ UNCHANGED <<branch, runs, fresh, starts, faults>>

---------------------------------------------------------------------------
(* A run *)

\* The clone and the registry as the run finds them, and its operations.
Start(w, todo, scope) ==
    /\ runs[w].pc = "off"
    /\ starts < MaxStarts
    /\ starts' = starts + 1
    /\ runs' = [runs EXCEPT ![w] =
                   [Off EXCEPT !.pc = "free", !.files = branch, !.memory = branch.registry,
                               !.todo = todo, !.scope = scope]]
    /\ fresh' = [fresh EXCEPT ![w] = TRUE]
    /\ UNCHANGED <<world, branch, faults>>

StartTick(w) == \E n \in 1..MaxReplies : Start(w, [i \in 1..n |-> "reply"], Ercs)

CheckSources(w) ==
    \/ Start(w, <<"check">>, Ercs)
    \/ \E e \in Ercs : Start(w, <<"check">>, {e})

RefreshKnowledge(w) ==
    \/ Start(w, <<"compile">>, Ercs)
    \/ \E e \in Ercs : Start(w, <<"check", "compile">>, {e})

\* Mutant: the branch is overwritten whether or not it has moved on.
MutantPush(w) ==
    /\ runs[w].pc = "free"
    /\ runs[w].todo = <<>>
    /\ runs[w].files # branch
    /\ branch' = runs[w].files
    /\ fresh' = [v \in Workers |-> v = w]
    /\ UNCHANGED <<world, runs, starts, faults>>

\* The checkpoint, after the last reply or at the end of a command.  A clone
\* without changes is not pushed.
Push(w) ==
    /\ runs[w].pc = "free" /\ fresh[w]
    /\ runs[w].todo = <<>>
    /\ runs[w].files # branch
    /\ branch' = runs[w].files
    /\ fresh' = [v \in Workers |-> v = w]
    /\ UNCHANGED <<world, runs, starts, faults>>

\* The run ends: it has nothing left to do, its push was refused, its command
\* failed or it died.  Its clone goes with it.
Stop(w) ==
    /\ runs[w].pc # "off"
    /\ runs' = [runs EXCEPT ![w] = Off]
    /\ UNCHANGED <<world, branch, fresh, starts, faults>>

---------------------------------------------------------------------------
(* Evidence *)

Op(w) == IF runs[w].todo = <<>> THEN "none" ELSE Head(runs[w].todo)

\* The operation is over.
Done(r) == [r EXCEPT !.pc = "free", !.todo = Tail(@), !.pack = NoPack,
                     !.unit = NoUnit, !.written = {}, !.saved = NewFiles]

\* _pending_jobs: whole ERCs, the longest waiting first; here any of them.
PendingErcs(w) == {ErcOf[s] : s \in Queued(runs[w].files)} \cap runs[w].scope

Chosen(w) ==
    CASE Op(w) = "reply"   -> {{e} : e \in Ercs}
      [] Op(w) = "check"   -> {runs[w].scope}
      [] Op(w) = "compile" -> {Q \in SUBSET PendingErcs(w) :
                                  Q # {} /\ Cardinality(Q) <= MaxErcsPerRun}
      [] OTHER             -> {}

\* RestrictedEvidenceFetcher.fetch, once per source: any of them may fail.
Fetched(Q) == SUBSET {s \in Sources : ErcOf[s] \in Q}

\* LiveEvidenceService.build; a source that cannot be fetched is left out.
Fetch(w) ==
    /\ runs[w].pc = "free"
    /\ \E Q \in Chosen(w) : \E fetched \in Fetched(Q) :
          runs' = [runs EXCEPT ![w].pc = "asked",
                               ![w].pack =
              [ercs    |-> Q,
               got     |-> [s \in fetched |-> world[s]],
               changed |-> {s \in fetched : ContentOf[runs[w].memory[s]] # ContentOf[world[s]]},
               jobs    |-> IF Op(w) = "compile"
                             THEN [s \in {q \in Queued(runs[w].files) : ErcOf[q] \in Q} |->
                                      runs[w].files.refresh[s]]
                             ELSE Nothing]]
    /\ UNCHANGED <<world, branch, fresh, starts, faults>>

NothingPending(w) ==
    /\ runs[w].pc = "free"
    /\ Op(w) = "compile" /\ PendingErcs(w) = {}
    /\ runs' = [runs EXCEPT ![w] = Done(@)]
    /\ UNCHANGED <<world, branch, fresh, starts, faults>>

\* _missing: the required kinds of evidence of which no source was fetched.
Missing(r) ==
    {g \in r.pack.ercs \X RequiredKinds :
        \A s \in DOMAIN r.pack.got : ErcOf[s] # g[1] \/ KindOf[s] # g[2]}

\* Gaps of these ERCs that are still there or new; others stay.
Gaps(r) == {g \in r.files.gaps : g[1] \notin r.pack.ercs} \cup Missing(r)

\* render_with_observations: the registry the run holds, not the one on file.
Registry(r, observed) ==
    [s \in Sources |-> IF s \in observed THEN r.pack.got[s] ELSE r.memory[s]]

Changed(r) ==
    [s \in Sources |-> IF s \in r.pack.changed THEN ContentOf[r.pack.got[s]]
                                               ELSE r.files.refresh[s]]

\* Jobs that were taken on leave the queue, unless one was superseded.
Compiled(r) ==
    [s \in Sources |->
        IF s \in DOMAIN r.pack.jobs /\ Changed(r)[s] = r.pack.jobs[s]
          THEN IF s \in DOMAIN r.pack.got THEN NoJob ELSE Resolved
          ELSE Changed(r)[s]]

\* A page must name evidence of the pack: without any the result is refused.
Acceptable(r) == r.pack.got # Nothing

\* Every fetched source is in the new pages with the revision fetched: a source
\* ledger that omits it or names another revision is refused.
Pages(r) ==
    [s \in Sources |-> IF s \in DOMAIN r.pack.got THEN r.pack.got[s] ELSE r.files.pages[s]]

\* The files whose content changes.
Differing(r, new) == [f \in {g \in DOMAIN new : new[g] # r.files[g]} |-> new[f]]

Without(f, name) == [n \in DOMAIN f \ {name} |-> f[n]]

\* Mutant: with gaps on file the changed sources are not queued.
MutantEvidenceUnit(r) ==
    LET new == [registry |-> Registry(r, r.pack.changed), gaps |-> Gaps(r)]
    IN  Differing(r, IF Gaps(r) = {} THEN [refresh |-> Changed(r)] ELSE new)

\* stage_evidence_outcome
EvidenceUnit(r) ==
    LET new == [registry |-> Registry(r, r.pack.changed), gaps |-> Gaps(r),
                refresh  |-> Changed(r)]
    IN  Differing(r, IF r.pack.changed = {} THEN Without(new, "registry") ELSE new)

\* stage_compilation_outcome, which records every observation.
CompilationUnit(r) ==
    LET new == [registry |-> Registry(r, DOMAIN r.pack.got), gaps |-> Gaps(r),
                refresh  |-> Compiled(r)]
    IN  Differing(r, IF r.pack.got = Nothing THEN Without(new, "registry") ELSE new)

\* The transaction is staged in the same unit, before the rest.
RefreshUnit(r) ==
    LET new == CompilationUnit(r)
        page == Differing(r, [pages |-> Pages(r)])
    IN  [f \in DOMAIN new \cup DOMAIN page |-> IF f \in DOMAIN page THEN page[f] ELSE new[f]]

Publishing(r, u) == [r EXCEPT !.pc = "publish", !.unit = u, !.saved = r.files]

Stage(w, u) ==
    /\ runs' = [runs EXCEPT ![w] = Publishing(@, u)]
    /\ UNCHANGED <<world, branch, fresh, starts, faults>>

\* The model has answered, or failed to: the evidence is recorded all the same.
RecordEvidence(w) ==
    /\ runs[w].pc = "asked"
    /\ Op(w) \in {"reply", "again"}
    /\ Stage(w, EvidenceUnit(runs[w]))

\* The guard finds fetched text in a file: the evidence of the reply is not
\* recorded, and the reply goes on.
EvidenceRefused(w) ==
    /\ runs[w].pc = "asked"
    /\ Op(w) \in {"reply", "again"}
    /\ runs' = [runs EXCEPT ![w] = Done(@)]
    /\ UNCHANGED <<world, branch, fresh, starts, faults>>

RecordCheck(w) ==
    /\ runs[w].pc = "asked"
    /\ Op(w) = "check"
    /\ Stage(w, CompilationUnit(runs[w]))

\* A result that is refused fails the command (Stop).
Compile(w) ==
    /\ runs[w].pc = "asked"
    /\ Op(w) = "compile"
    /\ Acceptable(runs[w])
    /\ Stage(w, RefreshUnit(runs[w]))

---------------------------------------------------------------------------
(* RepositoryUnitOfWork.publish *)

Left(r) == DOMAIN r.unit \ r.written

\* os.replace of one file.
Replace(w) ==
    /\ runs[w].pc = "publish"
    /\ \E f \in Left(runs[w]) :
          /\ \A g \in Left(runs[w]) : NotAfter(f, g)
          /\ runs' = [runs EXCEPT ![w].files[f] = runs[w].unit[f],
                                  ![w].written = @ \cup {f}]
    /\ UNCHANGED <<world, branch, fresh, starts, faults>>

WriteFails(w) ==
    /\ runs[w].pc = "publish"
    /\ Left(runs[w]) # {}
    /\ faults < MaxFaults
    /\ faults' = faults + 1
    /\ runs' = [runs EXCEPT ![w].pc = "rollback"]
    /\ UNCHANGED <<world, branch, fresh, starts>>

\* Mutant: only the first file is put back.
MutantPutBack(w) ==
    /\ runs[w].pc = "rollback"
    /\ \E f \in runs[w].written :
          /\ \A g \in runs[w].written : NotAfter(f, g)
          /\ runs' = [runs EXCEPT ![w].files[f] = runs[w].saved[f],
                                  ![w].written = {}]
    /\ UNCHANGED <<world, branch, fresh, starts, faults>>

\* The files in place are put back, the last one first.
PutBack(w) ==
    /\ runs[w].pc = "rollback"
    /\ \E f \in runs[w].written :
          /\ \A g \in runs[w].written : NotAfter(g, f)
          /\ runs' = [runs EXCEPT ![w].files[f] = runs[w].saved[f],
                                  ![w].written = @ \ {f}]
    /\ UNCHANGED <<world, branch, fresh, starts, faults>>

\* A reply whose evidence could not be written tries again on its way out; the
\* second failure ends the replies of the tick.  Commands just fail (Stop).
GiveUp(w) ==
    /\ runs[w].pc = "rollback"
    /\ runs[w].written = {}
    /\ \/ /\ Op(w) = "reply"
          /\ runs' = [runs EXCEPT ![w].pc = "asked", ![w].todo = <<"again">> \o Tail(@),
                                  ![w].unit = NoUnit]
       \/ /\ Op(w) = "again"
          /\ runs' = [runs EXCEPT ![w] = [Done(@) EXCEPT !.todo = <<>>]]
    /\ UNCHANGED <<world, branch, fresh, starts, faults>>

\* check_sources reads the registry again, replies do not.
Published(w) ==
    /\ runs[w].pc = "publish"
    /\ Left(runs[w]) = {}
    /\ runs' = [runs EXCEPT ![w] =
                   [Done(@) EXCEPT !.memory = IF Op(w) = "check" THEN runs[w].files.registry
                                                                  ELSE runs[w].memory]]
    /\ UNCHANGED <<world, branch, fresh, starts, faults>>

---------------------------------------------------------------------------
Step(w) ==
    \/ StartTick(w) \/ CheckSources(w) \/ RefreshKnowledge(w)
    \/ Push(w) \/ Stop(w)
    \/ Fetch(w) \/ NothingPending(w)
    \/ RecordEvidence(w) \/ EvidenceRefused(w) \/ RecordCheck(w) \/ Compile(w)
    \/ Replace(w) \/ WriteFails(w) \/ PutBack(w) \/ GiveUp(w) \/ Published(w)

\* A clone is private: what else happens may as well happen before or after
\* its files are replaced.
Quiet(others) == \A v \in others : runs[v].pc \notin {"publish", "rollback"}

Next == \/ \E s \in Sources : Quiet(Workers) /\ Edit(s)
        \/ \E w \in Workers : Quiet(Workers \ {w}) /\ Step(w)

Spec == Init /\ [][Next]_vars

---------------------------------------------------------------------------
(* Properties *)

\* An observed change is not forgotten (KnowledgeStateStore, the queue that
\* refresh-knowledge works off): as long as the content the registry names is
\* not the one the page was compiled from, the source is queued, or a
\* compilation took its job although the source could not be fetched.
NoChangeForgotten ==
    \A f \in {branch} \cup {runs[w].files : w \in {v \in Workers : runs[v].pc = "free"}} :
        \A s \in Sources :
            ContentOf[f.registry[s]] # ContentOf[f.pages[s]]
                => s \in Queued(f) \/ f.refresh[s] = Resolved

\* A compilation takes minutes and may overlap others (refresh_knowledge and
\* the checkpoint script): the branch never returns to a page compiled from an
\* older revision than the one it has.
PagesNeverGoBack ==
    [][\A s \in Sources : branch.pages[s] <= branch'.pages[s]]_branch

\* What a clone holds, once the unit of work that is being published is over.
Checkout(r) ==
    IF r.pc = "off" THEN NoCheckout ELSE IF r.unit # NoUnit THEN r.saved ELSE r.files

\* In every clone the files of a unit of work are replaced together or not at
\* all, whichever write fails (RepositoryUnitOfWork.publish): what the next
\* operation of the run, or a push, finds obeys UnitPromise.
Unit(w) == INSTANCE UnitPromise WITH
    store  <- Checkout(runs[w]),
    staged <- runs[w].unit

PublishesWhole ==
    /\ \A w \in Workers : Unit(w)!UnitInit
    /\ [][\A w \in Workers : [Unit(w)!UnitNext]_(Unit(w)!unitVars)]_vars
=============================================================================
