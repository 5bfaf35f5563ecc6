-------------------------- MODULE KnowledgeProofs --------------------------
(***************************************************************************)
(* What holds of the knowledge of the bot for every set of sources and     *)
(* runs, any number of edits and of writes that fail: an observed change   *)
(* is not forgotten, the branch never returns to an older page, and a unit *)
(* of work replaces its files together or not at all.                      *)
(*                                                                         *)
(* The invariant IInv says of each run what it holds and what it is about  *)
(* to publish, RunInv.  That is stated of a record and of the values of    *)
(* world, branch and fresh, so that one lemma per operation shows that the *)
(* record the operation leaves obeys it (...Held), without primes; a lemma *)
(* per action then says so of the step (...Keeps).                         *)
(***************************************************************************)
EXTENDS Knowledge, SequenceTheorems, TLAPS

\* The types of what a run holds.
Operations == {"reply", "again", "check", "compile"}
Packs == [ercs : SUBSET Ercs, got : UNION {[D -> Revisions] : D \in SUBSET Sources},
          changed : SUBSET Sources, jobs : UNION {[D -> Contents] : D \in SUBSET Sources}]
TypeOf(n) == IF n = "gaps" THEN GapSets ELSE IF n = "refresh" THEN Queues ELSE Observed
Units == {u \in UNION {[D -> Observed \cup GapSets \cup Queues] : D \in SUBSET Names} :
             \A n \in DOMAIN u : u[n] \in TypeOf(n)}
RunsOf == [pc : {"off", "free", "asked", "publish", "rollback"}, files : Files,
           memory : Observed, todo : Seq(Operations), scope : SUBSET Ercs, pack : Packs,
           unit : Units \cup {NoUnit}, saved : Files, written : SUBSET Names]

\* What a clone holds when the unit of work is given up, and when it is published.
Kept(r) == IF r.unit # NoUnit THEN r.saved ELSE r.files
After(r) == [n \in Names |-> IF n \in DOMAIN r.unit THEN r.unit[n] ELSE r.saved[n]]

\* Wherever the page of a source was not compiled from the content in memory, the
\* queue has an entry for the source, be it of a job or of one that was resolved.
Remembers(f, memory) ==
    \A s \in Sources : ContentOf[memory[s]] # ContentOf[f.pages[s]] => f.refresh[s] # NoJob
Honest(f) == Remembers(f, f.registry)
NotNewer(a, b) == \A s \in Sources : a[s] <= b[s]

\* The types of the variables the proofs need.
TypeInv ==
    /\ world \in Observed
    /\ branch \in Files
    /\ runs \in [Workers -> RunsOf]
    /\ fresh \in [Workers -> BOOLEAN]

\* The branch forgets nothing, and no page comes from a revision yet to be made.
BranchInv == Honest(branch) /\ NotNewer(branch.pages, world)

Working(r) == r.pc \in {"asked", "publish", "rollback"}
Writing(r) == r.pc \in {"publish", "rollback"}

\* The files written so far are those of the unit, the others are as they were.
UnitInv(r) ==
    /\ ~Writing(r) => r.unit = NoUnit /\ r.written = {}
    /\ Writing(r) => /\ r.unit \in Units
                     /\ r.written \subseteq DOMAIN r.unit
                     /\ \A n \in Names :
                           r.files[n] = IF n \in r.written THEN r.unit[n] ELSE r.saved[n]

\* A compilation is the last operation of its run, the only one that takes jobs from
\* the queue: the memory it leaves behind is read by nothing.
TodoInv(r) ==
    /\ \A i \in 1..Len(r.todo) : r.todo[i] = "compile" => i = Len(r.todo)
    /\ Working(r) => r.todo # <<>>

\* A clone forgets nothing, neither of its registry nor, while it has operations to
\* do, of the registry in its memory.
FilesInv(r, wd) ==
    r.pc # "off" => /\ Honest(Kept(r))
                    /\ r.todo # <<>> => Remembers(Kept(r), r.memory)
                    /\ NotNewer(Kept(r).pages, wd)

\* What was fetched is not older than the pages: pages are compiled by one run at a
\* time in a clone, and what a run fetches is what the source is then.
PackInv(r, wd) ==
    Working(r) => /\ r.pack.changed = {s \in DOMAIN r.pack.got :
                                          ContentOf[r.memory[s]] # ContentOf[r.pack.got[s]]}
                  /\ \A s \in DOMAIN r.pack.got : /\ Kept(r).pages[s] <= r.pack.got[s]
                                                  /\ r.pack.got[s] <= wd[s]
                  /\ Head(r.todo) # "compile" => DOMAIN r.pack.jobs = {}

\* The files the unit leads to obey FilesInv as well.
AfterInv(r, wd) ==
    Writing(r) => /\ Honest(After(r))
                  /\ NotNewer(r.saved.pages, After(r).pages)
                  /\ NotNewer(After(r).pages, wd)
                  /\ Head(r.todo) # "check" /\ Tail(r.todo) # <<>>
                        => Remembers(After(r), r.memory)

\* A clone that starts from the head of the branch has pages no older than it.
FreshInv(r, br, new) == r.pc # "off" /\ new => NotNewer(br.pages, Kept(r).pages)

\* What holds of a run r when the sources are at wd, the branch is at br and new says
\* whether the clone is fresh.
RunInv(r, wd, br, new) ==
    UnitInv(r) /\ TodoInv(r) /\ FilesInv(r, wd) /\ PackInv(r, wd) /\ AfterInv(r, wd)
        /\ FreshInv(r, br, new)

\* The inductive invariant.
IInv == TypeInv /\ BranchInv /\ \A w \in Workers : RunInv(runs[w], world, branch, fresh[w])

---------------------------------------------------------------------------
\* A file once the unit u is published over the files of r.
Over(r, u, n) == IF n \in DOMAIN u THEN u[n] ELSE r.files[n]

\* A unit, even an empty one, is not the absence of a unit.
LEMMA UnitNotNone == ASSUME NEW u \in Units PROVE u # NoUnit
BY KnowledgeAssumption DEF Units

\* A checkout as a record and as a function of file names.
LEMMA FilesFacts ==
    ASSUME NEW f \in Files
    PROVE /\ DOMAIN f = Names /\ f = [n \in Names |-> f[n]]
          /\ \A n \in Names : f[n] \in TypeOf(n)
          /\ f.pages \in Observed /\ f.registry \in Observed /\ f.refresh \in Queues
          /\ f.gaps \in GapSets
BY DEF Files, Names, TypeOf

\* A function of file names with contents of the right types is a checkout.
LEMMA FilesFrom ==
    ASSUME NEW f, f = [n \in Names |-> f[n]], \A n \in Names : f[n] \in TypeOf(n)
    PROVE f \in Files
<1>1. DOMAIN f = Names
  OBVIOUS
<1>2. f["pages"] \in Observed /\ f["registry"] \in Observed /\ f["refresh"] \in Queues
      /\ f["gaps"] \in GapSets
  BY DEF Names, TypeOf
<1> QED
  BY <1>1, <1>2 DEF Files, Names

\* A unit holds files of a checkout.
LEMMA UnitFacts ==
    ASSUME NEW u \in Units
    PROVE DOMAIN u \subseteq Names /\ \A n \in DOMAIN u : u[n] \in TypeOf(n)
BY DEF Units

\* A published unit leaves a checkout.
LEMMA AfterFiles ==
    ASSUME NEW r \in RunsOf, r.unit \in Units
    PROVE After(r) \in Files
<1>1. r.saved \in Files
  BY DEF RunsOf
<1>2. \A n \in Names : After(r)[n] \in TypeOf(n)
  BY <1>1, FilesFacts, UnitFacts DEF After
<1>3. After(r) = [n \in Names |-> After(r)[n]]
  BY DEF After
<1> QED
  BY <1>2, <1>3, FilesFrom

\* Every source has a first revision.
LEMMA ZeroRevision == 0 \in Revisions
BY KnowledgeAssumption DEF Revisions

\* The files of a new repository are a checkout.
LEMMA NewFilesType == NewFiles \in Files
BY ZeroRevision DEF NewFiles, Files, Observed, GapSets, Queues

\* The empty function.
LEMMA NothingFacts == /\ DOMAIN Nothing = {}
                      /\ Nothing \in UNION {[D -> Revisions] : D \in SUBSET Sources}
                      /\ Nothing \in UNION {[D -> Contents] : D \in SUBSET Sources}
<1>1. Nothing \in [{} -> Revisions] /\ Nothing \in [{} -> Contents] /\ DOMAIN Nothing = {}
  BY DEF Nothing
<1>2. {} \in SUBSET Sources
  OBVIOUS
<1> QED
  BY <1>1, <1>2

\* The empty pack is a pack.
LEMMA NoPackType == NoPack \in Packs
BY NothingFacts DEF NoPack, Packs

\* A run that has not begun is a run.
LEMMA OffType == Off \in RunsOf
<1>1. <<>> \in Seq(Operations)
  OBVIOUS
<1>2. NewFiles.registry \in Observed
  BY NewFilesType, FilesFacts
<1> QED
  BY <1>1, <1>2, NewFilesType, NoPackType DEF Off, RunsOf

\* A unit of only the files that differ leads to the same files as one of all.
LEMMA DifferingUnit ==
    ASSUME NEW r \in RunsOf, NEW new, DOMAIN new \subseteq Names,
           \A n \in DOMAIN new : new[n] \in TypeOf(n)
    PROVE /\ Differing(r, new) \in Units
          /\ \A n \in Names : Over(r, Differing(r, new), n) =
                IF n \in DOMAIN new THEN new[n] ELSE r.files[n]
<1> DEFINE D == {g \in DOMAIN new : new[g] # r.files[g]}
           u == [f \in D |-> new[f]]
<1>1. Differing(r, new) = u
  BY DEF Differing
<1>2. u \in [D -> Observed \cup GapSets \cup Queues] /\ D \in SUBSET Names
  BY DEF TypeOf
<1>3. u \in Units
  BY <1>2 DEF Units
<1>4. \A n \in Names : Over(r, u, n) = IF n \in DOMAIN new THEN new[n] ELSE r.files[n]
  BY DEF Over
<1> QED
  BY <1>1, <1>3, <1>4

\* What a pack holds.
LEMMA PackFacts ==
    ASSUME NEW p \in Packs
    PROVE /\ p.ercs \subseteq Ercs /\ DOMAIN p.got \subseteq Sources
          /\ \A s \in DOMAIN p.got : p.got[s] \in Revisions /\ ContentOf[p.got[s]] \in Contents
BY DEF Packs, Contents

\* A content is neither the absence of a job nor the mark of a resolved one.
LEMMA ContentsApart == ASSUME NEW c \in Contents PROVE c # NoJob /\ c # Resolved
BY KnowledgeAssumption

\* What an operation may stage has the type of the file it is for.
LEMMA ResultTypes ==
    ASSUME NEW r \in RunsOf, r.pack.changed \subseteq DOMAIN r.pack.got,
           NEW O, O \subseteq DOMAIN r.pack.got
    PROVE /\ Changed(r) \in Queues /\ Compiled(r) \in Queues
          /\ Registry(r, O) \in Observed /\ Pages(r) \in Observed /\ Gaps(r) \in GapSets
<1>1. r.pack \in Packs /\ r.files \in Files /\ r.memory \in Observed
  BY DEF RunsOf
<1>2. r.files.refresh \in Queues /\ r.files.pages \in Observed /\ r.files.gaps \in GapSets
  BY <1>1, FilesFacts
<1>3. Changed(r) \in Queues
  BY <1>1, <1>2, PackFacts DEF Changed, Queues
<1>4. Compiled(r) \in Queues
  BY <1>3 DEF Compiled, Queues
<1>5. Registry(r, O) \in Observed
  BY <1>1, PackFacts DEF Registry, Observed
<1>6. Pages(r) \in Observed
  BY <1>1, <1>2, PackFacts DEF Pages, Observed
<1>7. Gaps(r) \in GapSets
  BY <1>1, <1>2, PackFacts DEF Gaps, Missing, GapSets
<1> QED
  BY <1>3, <1>4, <1>5, <1>6, <1>7

\* stage_evidence_outcome leaves the pages, queues what changed, and writes either no
\* registry or the one of the memory with the changed sources.
LEMMA EvidenceFacts ==
    ASSUME NEW r \in RunsOf, r.pack.changed \subseteq DOMAIN r.pack.got
    PROVE /\ EvidenceUnit(r) \in Units
          /\ Over(r, EvidenceUnit(r), "pages") = r.files.pages
          /\ Over(r, EvidenceUnit(r), "refresh") = Changed(r)
          /\ Over(r, EvidenceUnit(r), "registry") \in
                {r.files.registry, Registry(r, r.pack.changed)}
<1> DEFINE new == [registry |-> Registry(r, r.pack.changed), gaps |-> Gaps(r),
                   refresh |-> Changed(r)]
           less == Without(new, "registry")
<1>1. /\ DOMAIN new \subseteq Names /\ \A n \in DOMAIN new : new[n] \in TypeOf(n)
      /\ new["refresh"] = Changed(r) /\ "refresh" \in DOMAIN new
      /\ "pages" \notin DOMAIN new
      /\ "registry" \in DOMAIN new /\ new["registry"] = Registry(r, r.pack.changed)
  BY ResultTypes DEF Names, TypeOf
<1>2. /\ DOMAIN less \subseteq Names /\ \A n \in DOMAIN less : less[n] \in TypeOf(n)
      /\ less["refresh"] = Changed(r) /\ "refresh" \in DOMAIN less
      /\ "pages" \notin DOMAIN less /\ "registry" \notin DOMAIN less
  BY <1>1 DEF Without
<1>3. EvidenceUnit(r) = Differing(r, new) \/ EvidenceUnit(r) = Differing(r, less)
  BY DEF EvidenceUnit
<1>4. "pages" \in Names /\ "refresh" \in Names /\ "registry" \in Names
  BY DEF Names
<1> HIDE DEF new, less
<1>5. CASE EvidenceUnit(r) = Differing(r, new)
  BY <1>1, <1>4, <1>5, DifferingUnit
<1>6. CASE EvidenceUnit(r) = Differing(r, less)
  BY <1>2, <1>4, <1>6, DifferingUnit
<1> QED
  BY <1>3, <1>5, <1>6

\* stage_compilation_outcome leaves the pages and the queue without the jobs done, and
\* records all that was fetched.
LEMMA CompilationFacts ==
    ASSUME NEW r \in RunsOf, r.pack.changed \subseteq DOMAIN r.pack.got
    PROVE LET u == CompilationUnit(r) IN
          /\ u \in Units /\ "pages" \notin DOMAIN u
          /\ Over(r, u, "pages") = r.files.pages
          /\ Over(r, u, "refresh") = Compiled(r)
          /\ Over(r, u, "registry") \in {r.files.registry, Registry(r, DOMAIN r.pack.got)}
          /\ r.pack.got # Nothing => Over(r, u, "registry") = Registry(r, DOMAIN r.pack.got)
<1> DEFINE new == [registry |-> Registry(r, DOMAIN r.pack.got), gaps |-> Gaps(r),
                   refresh |-> Compiled(r)]
           less == Without(new, "registry")
<1>1. /\ DOMAIN new \subseteq Names /\ \A n \in DOMAIN new : new[n] \in TypeOf(n)
      /\ new["refresh"] = Compiled(r) /\ "refresh" \in DOMAIN new
      /\ "pages" \notin DOMAIN new
      /\ "registry" \in DOMAIN new /\ new["registry"] = Registry(r, DOMAIN r.pack.got)
  BY ResultTypes DEF Names, TypeOf
<1>2. /\ DOMAIN less \subseteq Names /\ \A n \in DOMAIN less : less[n] \in TypeOf(n)
      /\ less["refresh"] = Compiled(r) /\ "refresh" \in DOMAIN less
      /\ "pages" \notin DOMAIN less /\ "registry" \notin DOMAIN less
  BY <1>1 DEF Without
<1>3. \/ CompilationUnit(r) = Differing(r, new)
      \/ CompilationUnit(r) = Differing(r, less) /\ r.pack.got = Nothing
  BY DEF CompilationUnit
<1>4. "pages" \in Names /\ "refresh" \in Names /\ "registry" \in Names
  BY DEF Names
<1>7. /\ DOMAIN Differing(r, new) \subseteq DOMAIN new
      /\ DOMAIN Differing(r, less) \subseteq DOMAIN less
  BY DEF Differing
<1> HIDE DEF new, less
<1>5. CASE CompilationUnit(r) = Differing(r, new)
  BY <1>1, <1>4, <1>5, <1>7, DifferingUnit
<1>6. CASE CompilationUnit(r) = Differing(r, less) /\ r.pack.got = Nothing
  BY <1>2, <1>4, <1>6, <1>7, DifferingUnit
<1> QED
  BY <1>3, <1>5, <1>6

\* The unit of a refresh is that of its compilation with the new pages.
LEMMA RefreshFacts ==
    ASSUME NEW r \in RunsOf, r.pack.changed \subseteq DOMAIN r.pack.got
    PROVE LET u == RefreshUnit(r) IN
          /\ u \in Units
          /\ Over(r, u, "pages") = Pages(r)
          /\ Over(r, u, "refresh") = Compiled(r)
          /\ r.pack.got # Nothing => Over(r, u, "registry") = Registry(r, DOMAIN r.pack.got)
<1> DEFINE base == [pages |-> Pages(r)]
           page == Differing(r, base)
           rest == CompilationUnit(r)
           u == [f \in DOMAIN rest \cup DOMAIN page |->
                    IF f \in DOMAIN page THEN page[f] ELSE rest[f]]
<1>1. RefreshUnit(r) = u
  BY DEF RefreshUnit
<1>2. DOMAIN base = {"pages"} /\ base["pages"] = Pages(r) /\ base["pages"] \in TypeOf("pages")
  BY ResultTypes DEF TypeOf
<1>3. DOMAIN base \subseteq Names /\ \A n \in DOMAIN base : base[n] \in TypeOf(n)
  BY <1>2 DEF Names
<1>4. "pages" \in Names /\ "refresh" \in Names /\ "registry" \in Names
  BY DEF Names
<1>5. DOMAIN page \subseteq {"pages"}
  BY <1>2 DEF Differing
<1> HIDE DEF base
<1>6. page \in Units /\ Over(r, page, "pages") = Pages(r)
  BY <1>2, <1>3, <1>4, DifferingUnit
<1>7. /\ rest \in Units /\ "pages" \notin DOMAIN rest
      /\ Over(r, rest, "refresh") = Compiled(r)
      /\ r.pack.got # Nothing => Over(r, rest, "registry") = Registry(r, DOMAIN r.pack.got)
  BY CompilationFacts
<1> HIDE DEF page, rest
<1>8. u \in Units
  <2>1. DOMAIN u \in SUBSET Names
    BY <1>6, <1>7, UnitFacts
  <2>2. \A n \in DOMAIN u : u[n] \in TypeOf(n)
    BY <1>6, <1>7, UnitFacts
  <2>3. u \in [DOMAIN u -> Observed \cup GapSets \cup Queues]
    BY <2>2 DEF TypeOf
  <2> QED
    BY <2>1, <2>2, <2>3 DEF Units
<1>9. /\ Over(r, u, "pages") = Over(r, page, "pages")
      /\ Over(r, u, "refresh") = Over(r, rest, "refresh")
      /\ Over(r, u, "registry") = Over(r, rest, "registry")
  BY <1>5, <1>7 DEF Over
<1> QED
  BY <1>1, <1>6, <1>7, <1>8, <1>9

---------------------------------------------------------------------------
\* RunInv for a run between two operations.
LEMMA FreeHeld ==
    ASSUME NEW r, NEW wd, NEW br, NEW new,
           r.pc = "free", r.unit = NoUnit, r.written = {},
           \A i \in 1..Len(r.todo) : r.todo[i] = "compile" => i = Len(r.todo),
           Honest(r.files), r.todo # <<>> => Remembers(r.files, r.memory),
           NotNewer(r.files.pages, wd), new => NotNewer(br.pages, r.files.pages)
    PROVE RunInv(r, wd, br, new)
BY DEF RunInv, UnitInv, TodoInv, FilesInv, PackInv, AfterInv, FreshInv, Kept, Working, Writing

\* RunInv for a run that has not begun or has ended.
LEMMA OffHeld ==
    ASSUME NEW wd, NEW br, NEW new
    PROVE RunInv(Off, wd, br, new)
BY DEF RunInv, UnitInv, TodoInv, FilesInv, PackInv, AfterInv, FreshInv, Kept, Working, Writing,
       Off

\* A push of another run makes a clone stale and breaks nothing else.
LEMMA StaleHeld ==
    ASSUME NEW r, NEW wd, NEW br, NEW br2, NEW new, RunInv(r, wd, br, new)
    PROVE RunInv(r, wd, br2, FALSE)
BY DEF RunInv, FreshInv

\* The rest of the operations of a run, as such and behind a second attempt at the
\* first one.
LEMMA TailShape ==
    ASSUME NEW t \in Seq(Operations), t # <<>>,
           \A i \in 1..Len(t) : t[i] = "compile" => i = Len(t)
    PROVE /\ Tail(t) \in Seq(Operations)
          /\ \A i \in 1..Len(Tail(t)) : Tail(t)[i] = "compile" => i = Len(Tail(t))
          /\ Head(t) = "compile" => Tail(t) = <<>>
          /\ Head(t) \in Operations
          /\ LET a == <<"again">> \o Tail(t) IN
             /\ a \in Seq(Operations) /\ a # <<>> /\ Head(a) = "again" /\ Tail(a) = Tail(t)
             /\ \A i \in 1..Len(a) : a[i] = "compile" => i = Len(a)
<1> DEFINE u == Tail(t)
           one == <<"again">>
           a == one \o u
<1>1. Len(t) \in Nat /\ Len(t) > 0 /\ Head(t) = t[1] /\ Head(t) \in Operations
  OBVIOUS
<1>2. /\ u \in Seq(Operations) /\ Len(u) \in Nat /\ Len(u) = Len(t) - 1
      /\ \A i \in 1..Len(u) : u[i] = t[i + 1]
  BY HeadTailProperties
<1>5. one \in Seq(Operations) /\ Len(one) = 1 /\ one[1] = "again"
  BY DEF Operations
<1> HIDE DEF u, one
<1>4. Head(t) = "compile" => u = <<>>
  <2>1. 1 \in 1..Len(t)
    BY <1>1
  <2>2. Head(t) = "compile" => Len(t) = 1
    BY <1>1, <2>1
  <2>3. Len(u) = 0 => u = <<>>
    BY <1>2, EmptySeq
  <2> QED
    BY <1>2, <2>2, <2>3
<1>6. /\ a \in Seq(Operations) /\ Len(a) = 1 + Len(u)
      /\ \A i \in 1..(1 + Len(u)) : a[i] = IF i <= 1 THEN one[i] ELSE u[i - 1]
  <2>1. /\ a \in Seq(Operations) /\ Len(a) = Len(one) + Len(u)
        /\ \A i \in 1..(Len(one) + Len(u)) :
              a[i] = IF i <= Len(one) THEN one[i] ELSE u[i - Len(one)]
    <3>1. u \in Seq(Operations) /\ one \in Seq(Operations)
      BY <1>2, <1>5
    <3> QED
      BY ONLY <3>1, ConcatProperties, Zenon
  <2> QED
    BY <2>1, <1>5
<1> HIDE DEF a
<1>3. \A i \in 1..Len(u) : u[i] = "compile" => i = Len(u)
  <2> SUFFICES ASSUME NEW i \in 1..Len(u), u[i] = "compile" PROVE i = Len(u)
    OBVIOUS
  <2>1. i + 1 \in 1..Len(t) /\ t[i + 1] = "compile"
    BY <1>1, <1>2
  <2>2. i + 1 = Len(t)
    BY <2>1
  <2> QED
    BY <1>1, <1>2, <2>2
<1>11. Len(a) = Len(t) /\ 1 \in 1..(1 + Len(u))
  BY <1>1, <1>2, <1>6
<1>7. a # <<>> /\ Head(a) = "again"
  <2>1. a[1] = "again"
    BY <1>5, <1>6, <1>11
  <2> QED
    BY <1>1, <1>6, <1>11, <2>1, HeadTailProperties, EmptySeq
<1>8. \A i \in 1..Len(a) : a[i] = "compile" => i = Len(a)
  <2> SUFFICES ASSUME NEW i \in 1..Len(a), a[i] = "compile" PROVE i = Len(a)
    OBVIOUS
  <2>1. CASE i = 1
    <3>1. a[1] = "again"
      BY <1>5, <1>6, <1>11
    <3> QED
      BY <2>1, <3>1
  <2>2. CASE i # 1
    <3>1. i - 1 \in 1..Len(u) /\ u[i - 1] = "compile"
      BY <1>2, <1>6, <2>2
    <3>2. i - 1 = Len(u)
      BY <3>1, <1>3
    <3> QED
      BY <1>2, <1>6, <3>2
  <2> QED
    BY <2>1, <2>2
<1>10. Tail(a) = u
  <2> DEFINE v == Tail(a)
  <2>1. /\ v \in Seq(Operations) /\ Len(v) = Len(a) - 1
        /\ \A i \in 1..Len(v) : v[i] = a[i + 1]
    BY <1>6, <1>7, HeadTailProperties
  <2> HIDE DEF v
  <2>2. Len(v) = Len(u)
    BY <1>2, <1>6, <2>1
  <2>3. \A i \in 1..Len(v) : v[i] = u[i]
    <3> SUFFICES ASSUME NEW i \in 1..Len(v) PROVE v[i] = u[i]
      OBVIOUS
    <3>1. i + 1 \in 1..(1 + Len(u)) /\ ~(i + 1 <= 1) /\ (i + 1) - 1 = i
      BY <1>2, <2>2
    <3>2. a[i + 1] = u[(i + 1) - 1]
      BY <1>6, <3>1
    <3> QED
      BY <2>1, <3>1, <3>2
  <2>4. v = u
    BY <1>2, <2>1, <2>2, <2>3, SeqEqual
  <2> QED
    BY <2>4 DEF v
<1> QED
  BY <1>1, <1>2, <1>3, <1>4, <1>6, <1>7, <1>8, <1>10 DEF a, u, one

\* What Done leaves of a run.
LEMMA DoneType ==
    ASSUME NEW r \in RunsOf, r.todo # <<>>
    PROVE /\ Done(r) \in RunsOf
          /\ Done(r).pc = "free" /\ Done(r).unit = NoUnit /\ Done(r).written = {}
          /\ Done(r).todo = Tail(r.todo) /\ Done(r).files = r.files
          /\ Done(r).memory = r.memory
<1>1. Tail(r.todo) \in Seq(Operations)
  BY DEF RunsOf
<1> QED
  BY <1>1, NoPackType, NewFilesType DEF Done, RunsOf

\* Revisions are numbers.
LEMMA ObservedNat ==
    ASSUME NEW a \in Observed, NEW s \in Sources
    PROVE a[s] \in Nat /\ a[s] \in Revisions
BY KnowledgeAssumption DEF Observed, Revisions

\* What a run holds is a checkout.
LEMMA KeptType ==
    ASSUME NEW r \in RunsOf
    PROVE Kept(r) \in Files /\ Kept(r).pages \in Observed
<1>1. Kept(r) \in Files
  BY DEF Kept, RunsOf
<1> QED
  BY <1>1, FilesFacts

\* Sources only get newer: an edit breaks nothing.
LEMMA LaterHeld ==
    ASSUME NEW r \in RunsOf, NEW wd \in Observed, NEW wd2 \in Observed, NotNewer(wd, wd2),
           NEW br, NEW new, RunInv(r, wd, br, new)
    PROVE RunInv(r, wd2, br, new)
<1>1. FilesInv(r, wd2)
  <2>1. NotNewer(Kept(r).pages, wd) => NotNewer(Kept(r).pages, wd2)
    BY ObservedNat, KeptType DEF NotNewer
  <2> QED
    BY <2>1 DEF RunInv, FilesInv
<1>2. PackInv(r, wd2)
  <2>1. \A s \in DOMAIN r.pack.got : s \in Sources /\ r.pack.got[s] \in Nat
    BY PackFacts, KnowledgeAssumption DEF RunsOf, Revisions
  <2>2. \A s \in DOMAIN r.pack.got : r.pack.got[s] <= wd[s] => r.pack.got[s] <= wd2[s]
    BY <2>1, ObservedNat DEF NotNewer
  <2> QED
    BY <2>2 DEF RunInv, PackInv
<1>3. AfterInv(r, wd2)
  <2>1. CASE Writing(r)
    <3>1. After(r).pages \in Observed
      BY <2>1, AfterFiles, FilesFacts DEF RunInv, UnitInv
    <3>2. NotNewer(After(r).pages, wd) => NotNewer(After(r).pages, wd2)
      BY <3>1, ObservedNat DEF NotNewer
    <3> QED
      BY <2>1, <3>2 DEF RunInv, AfterInv
  <2>2. CASE ~Writing(r)
    BY <2>2 DEF AfterInv
  <2> QED
    BY <2>1, <2>2
<1> QED
  BY <1>1, <1>2, <1>3 DEF RunInv

\* An operation that ends without a unit of work.
LEMMA DoneHeld ==
    ASSUME NEW r \in RunsOf, NEW wd, NEW br, NEW new, RunInv(r, wd, br, new),
           r.pc \in {"free", "asked"}, r.todo # <<>>
    PROVE Done(r) \in RunsOf /\ RunInv(Done(r), wd, br, new)
<1>1. r.unit = NoUnit /\ Kept(r) = r.files
  BY DEF RunInv, UnitInv, Writing, Kept
<1>2. \A i \in 1..Len(Tail(r.todo)) : Tail(r.todo)[i] = "compile" => i = Len(Tail(r.todo))
  BY TailShape DEF RunInv, TodoInv, RunsOf
<1>3. Honest(r.files) /\ Remembers(r.files, r.memory) /\ NotNewer(r.files.pages, wd)
  BY <1>1 DEF RunInv, FilesInv
<1>4. new => NotNewer(br.pages, r.files.pages)
  BY <1>1 DEF RunInv, FreshInv
<1> QED
  BY <1>2, <1>3, <1>4, DoneType, FreeHeld

\* A unit whose files forget nothing and whose pages are neither older than the ones
\* in place nor newer than the sources may be staged.
LEMMA PublishingHeld ==
    ASSUME NEW r \in RunsOf, NEW wd, NEW br, NEW new, RunInv(r, wd, br, new),
           r.pc = "asked", NEW u \in Units,
           \A s \in Sources :
               ContentOf[Over(r, u, "registry")[s]] # ContentOf[Over(r, u, "pages")[s]]
                   => Over(r, u, "refresh")[s] # NoJob,
           NotNewer(r.files.pages, Over(r, u, "pages")), NotNewer(Over(r, u, "pages"), wd),
           Head(r.todo) # "check" /\ Tail(r.todo) # <<>> =>
               \A s \in Sources : ContentOf[r.memory[s]] # ContentOf[Over(r, u, "pages")[s]]
                   => Over(r, u, "refresh")[s] # NoJob
    PROVE Publishing(r, u) \in RunsOf /\ RunInv(Publishing(r, u), wd, br, new)
<1> DEFINE q == Publishing(r, u)
<1>1. /\ q \in RunsOf /\ q.pc = "publish" /\ q.unit = u /\ q.saved = r.files /\ q.files = r.files
      /\ q.memory = r.memory /\ q.todo = r.todo /\ q.pack = r.pack /\ q.written = r.written
  BY DEF Publishing, RunsOf
<1>2. r.unit = NoUnit /\ r.written = {} /\ Kept(r) = r.files
  BY DEF RunInv, UnitInv, Writing, Kept
<1>3. u # NoUnit
  BY UnitNotNone
<1>4. Kept(q) = r.files
  BY <1>1, <1>3 DEF Kept
<1>5. /\ "pages" \in Names /\ "registry" \in Names /\ "refresh" \in Names
      /\ \A n \in Names : After(q)[n] = Over(r, u, n)
  BY <1>1 DEF After, Over, Names
<1> HIDE DEF q
<1>6. UnitInv(q)
  BY <1>1, <1>2 DEF UnitInv, Writing
<1>7. TodoInv(q)
  BY <1>1 DEF RunInv, TodoInv, Working
<1>8. FilesInv(q, wd)
  BY <1>1, <1>2, <1>4 DEF RunInv, FilesInv
<1>9. PackInv(q, wd)
  BY <1>1, <1>2, <1>4 DEF RunInv, PackInv, Working
<1>10. FreshInv(q, br, new)
  BY <1>1, <1>2, <1>4 DEF RunInv, FreshInv
<1>11. AfterInv(q, wd)
  BY <1>1, <1>5 DEF AfterInv, Honest, Remembers
<1> QED
  BY <1>1, <1>6, <1>7, <1>8, <1>9, <1>10, <1>11 DEF RunInv, q

\* What is known of a run that has fetched its evidence.
LEMMA AskedFacts ==
    ASSUME NEW r \in RunsOf, NEW wd, NEW br, NEW new, RunInv(r, wd, br, new), r.pc = "asked"
    PROVE /\ r.todo # <<>> /\ r.todo \in Seq(Operations)
          /\ DOMAIN r.pack.got \subseteq Sources
          /\ r.pack.changed = {s \in DOMAIN r.pack.got :
                                  ContentOf[r.memory[s]] # ContentOf[r.pack.got[s]]}
          /\ \A s \in DOMAIN r.pack.got :
                r.files.pages[s] <= r.pack.got[s] /\ r.pack.got[s] <= wd[s]
          /\ \A s \in DOMAIN r.pack.got : ContentOf[r.pack.got[s]] \in Contents
          /\ Honest(r.files) /\ Remembers(r.files, r.memory) /\ NotNewer(r.files.pages, wd)
<1>1. r.todo # <<>> /\ r.todo \in Seq(Operations) /\ r.pack \in Packs
  BY DEF RunInv, TodoInv, Working, RunsOf
<1>2. r.unit = NoUnit /\ Kept(r) = r.files
  BY DEF RunInv, UnitInv, Writing, Kept
<1> QED
  BY <1>1, <1>2, PackFacts DEF RunInv, PackInv, FilesInv, Working

\* The evidence of a reply: a source that changed is queued, and the memory, which
\* replies do not read again, still names the content it changed from.
LEMMA EvidenceHeld ==
    ASSUME NEW r \in RunsOf, NEW wd \in Observed, NEW br, NEW new, RunInv(r, wd, br, new),
           r.pc = "asked"
    PROVE LET q == Publishing(r, EvidenceUnit(r)) IN q \in RunsOf /\ RunInv(q, wd, br, new)
<1> DEFINE u == EvidenceUnit(r)
<1>1. r.pack.changed \subseteq DOMAIN r.pack.got
  BY AskedFacts
<1>2. /\ u \in Units /\ Over(r, u, "pages") = r.files.pages
      /\ Over(r, u, "refresh") = Changed(r)
      /\ Over(r, u, "registry") \in {r.files.registry, Registry(r, r.pack.changed)}
  BY <1>1, EvidenceFacts
<1> HIDE DEF u
<1>3. \A s \in Sources : r.files.refresh[s] # NoJob => Changed(r)[s] # NoJob
  BY <1>1, AskedFacts, ContentsApart DEF Changed
<1>4. \A s \in r.pack.changed : s \in Sources => Changed(r)[s] # NoJob
  BY <1>1, AskedFacts, ContentsApart DEF Changed
<1>5. \A s \in Sources : ContentOf[r.memory[s]] # ContentOf[r.files.pages[s]]
          => Changed(r)[s] # NoJob
  BY <1>3, AskedFacts DEF Remembers
<1>6. \A s \in Sources : ContentOf[r.files.registry[s]] # ContentOf[r.files.pages[s]]
          => Changed(r)[s] # NoJob
  BY <1>3, AskedFacts DEF Remembers, Honest
<1>7. \A s \in Sources :
          ContentOf[Registry(r, r.pack.changed)[s]] # ContentOf[r.files.pages[s]]
              => Changed(r)[s] # NoJob
  BY <1>4, <1>5 DEF Registry
<1>8. r.files.pages \in Observed
  BY FilesFacts DEF RunsOf
<1>9. NotNewer(r.files.pages, r.files.pages)
  BY <1>8, ObservedNat DEF NotNewer
<1>10. NotNewer(r.files.pages, wd)
  BY AskedFacts
<1>11. \A s \in Sources : ContentOf[Over(r, u, "registry")[s]] # ContentOf[Over(r, u, "pages")[s]]
               => Over(r, u, "refresh")[s] # NoJob
  BY <1>2, <1>6, <1>7
<1>12. \A s \in Sources : ContentOf[r.memory[s]] # ContentOf[Over(r, u, "pages")[s]]
                   => Over(r, u, "refresh")[s] # NoJob
  BY <1>2, <1>5
<1>13. NotNewer(r.files.pages, Over(r, u, "pages")) /\ NotNewer(Over(r, u, "pages"), wd)
  BY <1>2, <1>9, <1>10
<1>14. Publishing(r, u) \in RunsOf /\ RunInv(Publishing(r, u), wd, br, new)
  BY <1>2, <1>11, <1>12, <1>13, PublishingHeld
<1> QED
  BY <1>14 DEF u

\* The evidence of check-sources, which has taken on no job.
LEMMA CheckHeld ==
    ASSUME NEW r \in RunsOf, NEW wd \in Observed, NEW br, NEW new, RunInv(r, wd, br, new),
           r.pc = "asked", Head(r.todo) = "check"
    PROVE LET q == Publishing(r, CompilationUnit(r)) IN q \in RunsOf /\ RunInv(q, wd, br, new)
<1> DEFINE u == CompilationUnit(r)
<1>1. r.pack.changed \subseteq DOMAIN r.pack.got
  BY AskedFacts
<1>2. /\ u \in Units /\ Over(r, u, "pages") = r.files.pages
      /\ Over(r, u, "refresh") = Compiled(r)
      /\ Over(r, u, "registry") \in {r.files.registry, Registry(r, DOMAIN r.pack.got)}
  BY <1>1, CompilationFacts
<1> HIDE DEF u
<1>20. DOMAIN r.pack.jobs = {}
  BY DEF RunInv, PackInv, Working
<1>21. \A s \in Sources : Compiled(r)[s] = Changed(r)[s]
  BY <1>20 DEF Compiled
<1>3. \A s \in Sources : r.files.refresh[s] # NoJob => Changed(r)[s] # NoJob
  BY <1>1, AskedFacts, ContentsApart DEF Changed
<1>4. \A s \in r.pack.changed : s \in Sources => Changed(r)[s] # NoJob
  BY <1>1, AskedFacts, ContentsApart DEF Changed
<1>5. \A s \in Sources : ContentOf[r.memory[s]] # ContentOf[r.files.pages[s]]
          => Changed(r)[s] # NoJob
  BY <1>3, AskedFacts DEF Remembers
<1>6. \A s \in Sources : ContentOf[r.files.registry[s]] # ContentOf[r.files.pages[s]]
          => Changed(r)[s] # NoJob
  BY <1>3, AskedFacts DEF Remembers, Honest
<1>7. \A s \in Sources :
          ContentOf[Registry(r, DOMAIN r.pack.got)[s]] # ContentOf[r.files.pages[s]]
              => Changed(r)[s] # NoJob
  <2> SUFFICES ASSUME NEW s \in Sources,
                      ContentOf[Registry(r, DOMAIN r.pack.got)[s]] # ContentOf[r.files.pages[s]]
               PROVE Changed(r)[s] # NoJob
    OBVIOUS
  <2>1. CASE s \in r.pack.changed
    BY <2>1, <1>4
  <2>2. CASE s \in DOMAIN r.pack.got /\ s \notin r.pack.changed
    <3>1. ContentOf[r.memory[s]] = ContentOf[r.pack.got[s]]
      BY <2>2, AskedFacts
    <3>2. Registry(r, DOMAIN r.pack.got)[s] = r.pack.got[s]
      BY <2>2 DEF Registry
    <3> QED
      BY <3>1, <3>2, <1>5
  <2>3. CASE s \notin DOMAIN r.pack.got
    <3>2. Registry(r, DOMAIN r.pack.got)[s] = r.memory[s]
      BY <2>3 DEF Registry
    <3> QED
      BY <3>2, <1>5
  <2> QED
    BY <2>1, <2>2, <2>3
<1>8. r.files.pages \in Observed
  BY FilesFacts DEF RunsOf
<1>9. NotNewer(r.files.pages, r.files.pages)
  BY <1>8, ObservedNat DEF NotNewer
<1>10. NotNewer(r.files.pages, wd)
  BY AskedFacts
<1>11. \A s \in Sources : ContentOf[Over(r, u, "registry")[s]] # ContentOf[Over(r, u, "pages")[s]]
               => Over(r, u, "refresh")[s] # NoJob
  BY <1>2, <1>6, <1>7, <1>21
<1>12. NotNewer(r.files.pages, Over(r, u, "pages")) /\ NotNewer(Over(r, u, "pages"), wd)
  BY <1>2, <1>9, <1>10
<1>13. Publishing(r, u) \in RunsOf /\ RunInv(Publishing(r, u), wd, br, new)
  BY <1>2, <1>11, <1>12, PublishingHeld
<1> QED
  BY <1>13 DEF u

\* The unit of refresh-knowledge: a job leaves the queue with the page compiled from
\* what was fetched, or is resolved.
LEMMA CompileHeld ==
    ASSUME NEW r \in RunsOf, NEW wd \in Observed, NEW br, NEW new, RunInv(r, wd, br, new),
           r.pc = "asked", Head(r.todo) = "compile", Acceptable(r)
    PROVE LET q == Publishing(r, RefreshUnit(r)) IN q \in RunsOf /\ RunInv(q, wd, br, new)
<1> DEFINE u == RefreshUnit(r)
<1>1. r.pack.changed \subseteq DOMAIN r.pack.got
  BY AskedFacts
<1>2. /\ u \in Units /\ Over(r, u, "pages") = Pages(r)
      /\ Over(r, u, "refresh") = Compiled(r)
      /\ Over(r, u, "registry") = Registry(r, DOMAIN r.pack.got)
  BY <1>1, RefreshFacts DEF Acceptable
<1> HIDE DEF u
<1>3. Tail(r.todo) = <<>>
  BY AskedFacts, TailShape DEF RunInv, TodoInv
<1>4. \A s \in Sources : ContentOf[Registry(r, DOMAIN r.pack.got)[s]] # ContentOf[Pages(r)[s]]
          => Compiled(r)[s] # NoJob
  <2> SUFFICES ASSUME NEW s \in Sources,
                      ContentOf[Registry(r, DOMAIN r.pack.got)[s]] # ContentOf[Pages(r)[s]]
               PROVE Compiled(r)[s] # NoJob
    OBVIOUS
  <2>1. s \notin DOMAIN r.pack.got
    BY DEF Registry, Pages
  <2>2. ContentOf[r.memory[s]] # ContentOf[r.files.pages[s]]
    BY <2>1 DEF Registry, Pages
  <2>3. r.files.refresh[s] # NoJob
    BY <2>2, AskedFacts DEF Remembers
  <2>4. Changed(r)[s] # NoJob
    BY <1>1, <2>1, <2>3 DEF Changed
  <2> QED
    BY <2>1, <2>4, KnowledgeAssumption DEF Compiled
<1>5. r.files.pages \in Observed /\ Pages(r) \in Observed
  BY <1>1, FilesFacts, ResultTypes DEF RunsOf
<1>6. NotNewer(r.files.pages, Pages(r))
  BY <1>5, AskedFacts, ObservedNat DEF NotNewer, Pages
<1>7. NotNewer(Pages(r), wd)
  BY <1>5, AskedFacts, ObservedNat DEF NotNewer, Pages
<1>8. \A s \in Sources : ContentOf[Over(r, u, "registry")[s]] # ContentOf[Over(r, u, "pages")[s]]
               => Over(r, u, "refresh")[s] # NoJob
  BY <1>2, <1>4
<1>9. Publishing(r, u) \in RunsOf /\ RunInv(Publishing(r, u), wd, br, new)
  BY <1>2, <1>3, <1>6, <1>7, <1>8, PublishingHeld
<1> QED
  BY <1>9 DEF u

---------------------------------------------------------------------------
\* What is known of a run that publishes or rolls back.
LEMMA WritingFacts ==
    ASSUME NEW r \in RunsOf, NEW wd, NEW br, NEW new, RunInv(r, wd, br, new), Writing(r)
    PROVE /\ r.unit \in Units /\ r.unit # NoUnit /\ Kept(r) = r.saved
          /\ DOMAIN r.unit \subseteq Names /\ r.written \subseteq DOMAIN r.unit
          /\ \A n \in DOMAIN r.unit : r.unit[n] \in TypeOf(n)
          /\ \A n \in Names : r.files[n] = IF n \in r.written THEN r.unit[n] ELSE r.saved[n]
          /\ r.todo # <<>> /\ r.todo \in Seq(Operations)
          /\ r.files \in Files /\ r.saved \in Files
BY UnitNotNone, UnitFacts DEF RunInv, UnitInv, TodoInv, Kept, Working, Writing, RunsOf

\* RunInv allows any part of the unit to be in place.
LEMMA WrittenHeld ==
    ASSUME NEW r \in RunsOf, NEW wd, NEW br, NEW new, RunInv(r, wd, br, new), Writing(r),
           NEW placed, placed \subseteq DOMAIN r.unit,
           NEW f \in Names, NEW v \in TypeOf(f), NEW files, files = [r.files EXCEPT ![f] = v],
           \A n \in Names : files[n] = IF n \in placed THEN r.unit[n] ELSE r.saved[n]
    PROVE LET q == [r EXCEPT !.files = files, !.written = placed]
          IN  q \in RunsOf /\ RunInv(q, wd, br, new)
<1> DEFINE q == [r EXCEPT !.files = files, !.written = placed]
<1>1. files \in Files
  <2>1. r.files \in Files
    BY WritingFacts
  <2>2. \A n \in Names : files[n] \in TypeOf(n)
    BY <2>1, FilesFacts
  <2>3. files = [n \in Names |-> files[n]]
    BY <2>1, FilesFacts
  <2> QED
    BY <2>2, <2>3, FilesFrom
<1>2. /\ q.files = files /\ q.pc = r.pc /\ q.unit = r.unit /\ q.saved = r.saved
      /\ q.memory = r.memory /\ q.todo = r.todo /\ q.pack = r.pack /\ q.written = placed
  BY DEF RunsOf
<1>3. placed \subseteq Names
  BY WritingFacts
<1>4. q \in RunsOf
  BY <1>1, <1>3 DEF RunsOf
<1> HIDE DEF q
<1>5. Kept(q) = r.saved /\ Kept(r) = r.saved /\ After(q) = After(r)
  BY <1>2, WritingFacts DEF Kept, After
<1>6. UnitInv(q)
  BY <1>2, WritingFacts DEF UnitInv, Writing
<1>7. TodoInv(q) /\ FilesInv(q, wd) /\ PackInv(q, wd) /\ AfterInv(q, wd) /\ FreshInv(q, br, new)
  BY <1>2, <1>5 DEF RunInv, TodoInv, FilesInv, PackInv, AfterInv, FreshInv, Working, Writing
<1> QED
  BY <1>4, <1>6, <1>7 DEF RunInv, q

\* One more file of the unit is in place.
LEMMA PlacedHeld ==
    ASSUME NEW r \in RunsOf, NEW wd, NEW br, NEW new, RunInv(r, wd, br, new),
           r.pc = "publish", NEW f \in Left(r)
    PROVE LET q == [r EXCEPT !.files[f] = r.unit[f], !.written = @ \cup {f}]
          IN  q \in RunsOf /\ RunInv(q, wd, br, new)
<1> DEFINE q == [r EXCEPT !.files[f] = r.unit[f], !.written = @ \cup {f}]
           placed == r.written \cup {f}
           files == [r.files EXCEPT ![f] = r.unit[f]]
<1>1. Writing(r)
  BY DEF Writing
<1>2. placed \subseteq DOMAIN r.unit /\ f \in Names /\ r.unit[f] \in TypeOf(f)
  BY <1>1, WritingFacts DEF Left
<1>3. q = [r EXCEPT !.files = files, !.written = placed]
  BY DEF RunsOf
<1>4. \A n \in Names : files[n] =
               IF n \in placed THEN r.unit[n] ELSE r.saved[n]
  BY <1>1, WritingFacts, FilesFacts
<1>5. files = [r.files EXCEPT ![f] = files[f]] /\ files[f] \in TypeOf(f)
  BY <1>1, <1>2, WritingFacts, FilesFacts
<1> DEFINE p == [r EXCEPT !.files = files, !.written = placed]
<1>6. p \in RunsOf /\ RunInv(p, wd, br, new)
  <2> HIDE DEF q, placed, files
  <2> QED
    BY <1>1, <1>2, <1>4, <1>5, WrittenHeld
<1> QED
  BY <1>3, <1>6

\* One file less of the unit is in place.
LEMMA PutBackHeld ==
    ASSUME NEW r \in RunsOf, NEW wd, NEW br, NEW new, RunInv(r, wd, br, new),
           r.pc = "rollback", NEW f \in r.written
    PROVE LET q == [r EXCEPT !.files[f] = r.saved[f], !.written = @ \ {f}]
          IN  q \in RunsOf /\ RunInv(q, wd, br, new)
<1> DEFINE q == [r EXCEPT !.files[f] = r.saved[f], !.written = @ \ {f}]
           placed == r.written \ {f}
           files == [r.files EXCEPT ![f] = r.saved[f]]
<1>1. Writing(r)
  BY DEF Writing
<1>2. placed \subseteq DOMAIN r.unit /\ f \in Names /\ r.saved[f] \in TypeOf(f)
  BY <1>1, WritingFacts, FilesFacts
<1>3. q = [r EXCEPT !.files = files, !.written = placed]
  BY DEF RunsOf
<1>4. \A n \in Names : files[n] =
               IF n \in placed THEN r.unit[n] ELSE r.saved[n]
  BY <1>1, WritingFacts, FilesFacts
<1>5. files = [r.files EXCEPT ![f] = files[f]] /\ files[f] \in TypeOf(f)
  BY <1>1, <1>2, WritingFacts, FilesFacts
<1> DEFINE p == [r EXCEPT !.files = files, !.written = placed]
<1>6. p \in RunsOf /\ RunInv(p, wd, br, new)
  <2> HIDE DEF q, placed, files
  <2> QED
    BY <1>1, <1>2, <1>4, <1>5, WrittenHeld
<1> QED
  BY <1>3, <1>6

\* A write fails.
LEMMA FailedHeld ==
    ASSUME NEW r \in RunsOf, NEW wd, NEW br, NEW new, RunInv(r, wd, br, new), r.pc = "publish"
    PROVE LET q == [r EXCEPT !.pc = "rollback"] IN q \in RunsOf /\ RunInv(q, wd, br, new)
<1> DEFINE q == [r EXCEPT !.pc = "rollback"]
<1>1. /\ q \in RunsOf /\ q.pc = "rollback" /\ q.unit = r.unit /\ q.saved = r.saved
      /\ q.files = r.files /\ q.memory = r.memory /\ q.todo = r.todo /\ q.pack = r.pack
      /\ q.written = r.written
  BY DEF RunsOf
<1>2. Kept(q) = Kept(r) /\ After(q) = After(r)
  BY <1>1 DEF Kept, After
<1> HIDE DEF q
<1>3. RunInv(q, wd, br, new)
  BY <1>1, <1>2 DEF RunInv, UnitInv, TodoInv, FilesInv, PackInv, AfterInv, FreshInv, Working,
                    Writing
<1> QED
  BY <1>1, <1>3 DEF q

\* Everything was put back.
LEMMA RestoredFacts ==
    ASSUME NEW r \in RunsOf, NEW wd, NEW br, NEW new, RunInv(r, wd, br, new),
           r.pc = "rollback", r.written = {}
    PROVE r.files = r.saved
<1>1. \A n \in Names : r.files[n] = r.saved[n]
  BY WritingFacts DEF Writing
<1> QED
  BY <1>1, WritingFacts, FilesFacts DEF Writing

\* A reply tries again with the same evidence.
LEMMA AgainHeld ==
    ASSUME NEW r \in RunsOf, NEW wd, NEW br, NEW new, RunInv(r, wd, br, new),
           r.pc = "rollback", r.written = {}, Head(r.todo) = "reply"
    PROVE LET q == [r EXCEPT !.pc = "asked", !.todo = <<"again">> \o Tail(@), !.unit = NoUnit]
          IN  q \in RunsOf /\ RunInv(q, wd, br, new)
<1> DEFINE todo == <<"again">> \o Tail(r.todo)
           q == [r EXCEPT !.pc = "asked", !.todo = <<"again">> \o Tail(@), !.unit = NoUnit]
<1>1. /\ todo \in Seq(Operations) /\ todo # <<>> /\ Head(todo) = "again"
      /\ \A i \in 1..Len(todo) : todo[i] = "compile" => i = Len(todo)
  BY WritingFacts, TailShape DEF RunInv, TodoInv, Writing
<1> HIDE DEF todo
<1>2. /\ q \in RunsOf /\ q.pc = "asked" /\ q.unit = NoUnit /\ q.saved = r.saved
      /\ q.files = r.files /\ q.memory = r.memory /\ q.todo = todo /\ q.pack = r.pack
      /\ q.written = {}
  BY <1>1 DEF RunsOf, todo
<1>3. Kept(q) = r.files /\ Kept(r) = r.files
  BY <1>2, WritingFacts, RestoredFacts DEF Kept, Writing
<1> HIDE DEF q
<1>4. UnitInv(q) /\ TodoInv(q) /\ AfterInv(q, wd)
  BY <1>1, <1>2 DEF UnitInv, TodoInv, AfterInv, Writing
<1>5. FilesInv(q, wd) /\ FreshInv(q, br, new)
  BY <1>2, <1>3, WritingFacts DEF RunInv, FilesInv, FreshInv, Writing
<1>6. PackInv(q, wd)
  BY <1>1, <1>2, <1>3 DEF RunInv, PackInv, Working
<1>7. RunInv(q, wd, br, new)
  BY <1>4, <1>5, <1>6 DEF RunInv
<1> QED
  BY <1>2, <1>7 DEF q

\* The replies of the tick are over, the run is about to push.
LEMMA GivenUpHeld ==
    ASSUME NEW r \in RunsOf, NEW wd, NEW br, NEW new, RunInv(r, wd, br, new),
           r.pc = "rollback", r.written = {}
    PROVE LET q == [Done(r) EXCEPT !.todo = <<>>]
          IN  q \in RunsOf /\ RunInv(q, wd, br, new) /\ q.files = r.files
              /\ q.unit = NoUnit /\ q.pc = "free"
<1> DEFINE q == [Done(r) EXCEPT !.todo = <<>>]
<1>1. <<>> \in Seq(Operations) /\ r.todo # <<>>
  BY WritingFacts DEF Writing
<1>2. /\ q \in RunsOf /\ q.pc = "free" /\ q.unit = NoUnit /\ q.files = r.files /\ q.todo = <<>>
      /\ q.written = {}
  BY <1>1, DoneType DEF RunsOf
<1>3. Kept(r) = r.files
  BY WritingFacts, RestoredFacts DEF Writing
<1> HIDE DEF q
<1>4. Honest(q.files) /\ NotNewer(q.files.pages, wd) /\ (new => NotNewer(br.pages, q.files.pages))
  BY <1>2, <1>3 DEF RunInv, FilesInv, FreshInv
<1>5. \A i \in 1..Len(q.todo) : q.todo[i] = "compile" => i = Len(q.todo)
  BY <1>2
<1>6. RunInv(q, wd, br, new)
  BY <1>2, <1>4, <1>5, FreeHeld
<1> QED
  BY <1>2, <1>6 DEF q

\* Everything is in place.
LEMMA PublishedFacts ==
    ASSUME NEW r \in RunsOf, NEW wd, NEW br, NEW new, RunInv(r, wd, br, new),
           r.pc = "publish", Left(r) = {}
    PROVE r.files = After(r)
<1>1. \A n \in Names : r.files[n] = After(r)[n]
  BY WritingFacts DEF Writing, Left, After
<1>2. After(r) \in Files
  BY WritingFacts, AfterFiles DEF Writing
<1> QED
  BY <1>1, <1>2, WritingFacts, FilesFacts DEF Writing

\* The unit is in place.
LEMMA PublishedHeld ==
    ASSUME NEW r \in RunsOf, NEW wd \in Observed, NEW br \in Files, NEW new,
           RunInv(r, wd, br, new), r.pc = "publish", Left(r) = {}
    PROVE LET q == [Done(r) EXCEPT !.memory = IF Head(r.todo) = "check" THEN r.files.registry
                                              ELSE r.memory]
          IN  q \in RunsOf /\ RunInv(q, wd, br, new)
<1> DEFINE q == [Done(r) EXCEPT !.memory = IF Head(r.todo) = "check" THEN r.files.registry
                                           ELSE r.memory]
<1>1. r.todo # <<>> /\ r.todo \in Seq(Operations) /\ r.files \in Files /\ r.memory \in Observed
      /\ r.files.registry \in Observed
  BY WritingFacts, FilesFacts DEF Writing, RunsOf
<1>2. /\ q \in RunsOf /\ q.pc = "free" /\ q.unit = NoUnit /\ q.files = r.files
      /\ q.todo = Tail(r.todo) /\ q.written = {}
      /\ q.memory = IF Head(r.todo) = "check" THEN r.files.registry ELSE r.memory
  BY <1>1, DoneType DEF RunsOf
<1>3. r.files = After(r) /\ Kept(r) = r.saved
  BY PublishedFacts, WritingFacts DEF Writing
<1>4. \A i \in 1..Len(q.todo) : q.todo[i] = "compile" => i = Len(q.todo)
  BY <1>1, <1>2, TailShape DEF RunInv, TodoInv
<1> HIDE DEF q
<1>5. Honest(q.files) /\ NotNewer(q.files.pages, wd)
  BY <1>2, <1>3 DEF RunInv, AfterInv, Writing
<1>6. q.todo # <<>> => Remembers(q.files, q.memory)
  BY <1>2, <1>3, <1>5 DEF RunInv, AfterInv, Writing, Honest
<1>7. new => NotNewer(br.pages, q.files.pages)
  <2>1. /\ br.pages \in Observed /\ r.saved.pages \in Observed /\ r.files.pages \in Observed
    BY <1>1, WritingFacts, FilesFacts DEF Writing
  <2>2. new => NotNewer(br.pages, r.saved.pages)
    BY <1>3 DEF RunInv, FreshInv
  <2>3. NotNewer(r.saved.pages, r.files.pages)
    BY <1>3 DEF RunInv, AfterInv, Writing
  <2> QED
    BY <1>2, <2>1, <2>2, <2>3, ObservedNat DEF NotNewer
<1>8. RunInv(q, wd, br, new)
  BY <1>2, <1>4, <1>5, <1>6, <1>7, FreeHeld
<1> QED
  BY <1>2, <1>8 DEF q

\* Evidence was fetched: it is as new as the sources.
LEMMA FetchedHeld ==
    ASSUME NEW r \in RunsOf, NEW wd \in Observed, NEW br, NEW new, RunInv(r, wd, br, new),
           r.pc = "free", r.todo # <<>>, NEW p \in Packs,
           p.changed = {s \in DOMAIN p.got : ContentOf[r.memory[s]] # ContentOf[p.got[s]]},
           \A s \in DOMAIN p.got : p.got[s] = wd[s],
           Head(r.todo) # "compile" => DOMAIN p.jobs = {}
    PROVE LET q == [r EXCEPT !.pc = "asked", !.pack = p] IN q \in RunsOf /\ RunInv(q, wd, br, new)
<1> DEFINE q == [r EXCEPT !.pc = "asked", !.pack = p]
<1>1. /\ q \in RunsOf /\ q.pc = "asked" /\ q.unit = r.unit /\ q.saved = r.saved
      /\ q.files = r.files /\ q.memory = r.memory /\ q.todo = r.todo /\ q.pack = p
      /\ q.written = r.written
  BY DEF RunsOf
<1>2. r.unit = NoUnit /\ r.written = {} /\ Kept(r) = r.files /\ Kept(q) = r.files
  BY <1>1 DEF RunInv, UnitInv, Writing, Kept
<1> HIDE DEF q
<1>3. UnitInv(q) /\ TodoInv(q) /\ AfterInv(q, wd)
  BY <1>1, <1>2 DEF RunInv, UnitInv, TodoInv, AfterInv, Writing
<1>4. FilesInv(q, wd) /\ FreshInv(q, br, new)
  BY <1>1, <1>2 DEF RunInv, FilesInv, FreshInv
<1>5. PackInv(q, wd)
  <2>1. \A s \in DOMAIN p.got : s \in Sources
    BY PackFacts
  <2>2. \A s \in DOMAIN p.got : p.got[s] <= wd[s]
    BY <2>1, ObservedNat
  <2>3. NotNewer(r.files.pages, wd)
    BY <1>2 DEF RunInv, FilesInv
  <2> QED
    BY <1>1, <1>2, <2>1, <2>2, <2>3 DEF PackInv, NotNewer
<1>6. RunInv(q, wd, br, new)
  BY <1>3, <1>4, <1>5 DEF RunInv
<1> QED
  BY <1>1, <1>6 DEF q

\* A run begins with a clone of the branch.
LEMMA StartedHeld ==
    ASSUME NEW wd \in Observed, NEW br \in Files, Honest(br), NotNewer(br.pages, wd),
           NEW todo \in Seq(Operations), NEW scope \in SUBSET Ercs,
           \A i \in 1..Len(todo) : todo[i] = "compile" => i = Len(todo)
    PROVE LET q == [Off EXCEPT !.pc = "free", !.files = br, !.memory = br.registry,
                               !.todo = todo, !.scope = scope]
          IN  q \in RunsOf /\ RunInv(q, wd, br, TRUE)
<1> DEFINE q == [Off EXCEPT !.pc = "free", !.files = br, !.memory = br.registry,
                               !.todo = todo, !.scope = scope]
<1>1. br.registry \in Observed /\ br.pages \in Observed
  BY FilesFacts
<1>2. /\ q \in RunsOf /\ q.pc = "free" /\ q.unit = NoUnit /\ q.files = br
      /\ q.memory = br.registry /\ q.todo = todo /\ q.written = {}
  BY <1>1, OffType DEF RunsOf, Off
<1> HIDE DEF q
<1>3. NotNewer(br.pages, br.pages)
  BY <1>1, ObservedNat DEF NotNewer
<1>4. RunInv(q, wd, br, TRUE)
  BY <1>2, <1>3, FreeHeld DEF Honest
<1> QED
  BY <1>2, <1>4 DEF q

---------------------------------------------------------------------------
\* The step of one run, of which alone the state changes.
LEMMA OneRun ==
    ASSUME TypeInv, \A v \in Workers : RunInv(runs[v], world, branch, fresh[v]),
           BranchInv, NEW w \in Workers, NEW q \in RunsOf,
           RunInv(q, world, branch, fresh[w]),
           runs' = [runs EXCEPT ![w] = q], UNCHANGED <<world, branch, fresh>>
    PROVE IInv'
<1>1. TypeInv'
  BY DEF TypeInv
<1>2. BranchInv'
  BY DEF BranchInv
<1>3. ASSUME NEW v \in Workers PROVE RunInv(runs'[v], world', branch', fresh'[v])
  <2>1. CASE v = w
    BY <2>1 DEF TypeInv
  <2>2. CASE v # w
    <3>1. runs'[v] = runs[v]
      BY <2>2 DEF TypeInv
    <3> QED
      BY <3>1
  <2> QED
    BY <2>1, <2>2
<1> QED
  BY <1>1, <1>2, <1>3 DEF IInv

\* A source is edited.
LEMMA EditKeeps ==
    ASSUME IInv, NEW s \in Sources, Edit(s)
    PROVE IInv'
<1>1. world \in Observed /\ world' \in Observed /\ NotNewer(world, world')
  <2>1. world \in Observed
    BY DEF IInv, TypeInv
  <2>2. world[s] + 1 \in Revisions /\ world' = [world EXCEPT ![s] = @ + 1]
    BY DEF Edit
  <2>3. world' \in Observed
    BY <2>1, <2>2 DEF Observed
  <2> QED
    BY <2>1, <2>2, <2>3, ObservedNat DEF Observed, NotNewer
<1>2. branch' = branch /\ runs' = runs /\ fresh' = fresh
  BY DEF Edit
<1>3. TypeInv'
  BY <1>1, <1>2 DEF IInv, TypeInv
<1>4. BranchInv'
  <2>1. branch.pages \in Observed
    BY FilesFacts DEF IInv, TypeInv
  <2>2. NotNewer(branch.pages, world')
    BY <1>1, <2>1, ObservedNat DEF IInv, BranchInv, NotNewer
  <2> QED
    BY <1>2, <2>2 DEF IInv, BranchInv
<1>5. ASSUME NEW w \in Workers PROVE RunInv(runs'[w], world', branch', fresh'[w])
  <2>1. runs[w] \in RunsOf /\ RunInv(runs[w], world, branch, fresh[w])
    BY DEF IInv, TypeInv
  <2> DEFINE wd == world'
  <2>2. wd \in Observed /\ NotNewer(world, wd)
    BY <1>1
  <2> HIDE DEF wd
  <2>3. RunInv(runs[w], wd, branch, fresh[w])
    BY <1>1, <2>1, <2>2, LaterHeld
  <2> QED
    BY <1>2, <2>3 DEF wd
<1> QED
  BY <1>3, <1>4, <1>5 DEF IInv

\* A run begins.
LEMMA StartKeeps ==
    ASSUME IInv, NEW w \in Workers, NEW todo \in Seq(Operations), NEW scope \in SUBSET Ercs,
           \A i \in 1..Len(todo) : todo[i] = "compile" => i = Len(todo),
           Start(w, todo, scope)
    PROVE IInv'
<1> DEFINE q == [Off EXCEPT !.pc = "free", !.files = branch, !.memory = branch.registry,
                            !.todo = todo, !.scope = scope]
<1>1. world \in Observed /\ branch \in Files /\ Honest(branch) /\ NotNewer(branch.pages, world)
  BY DEF IInv, TypeInv, BranchInv
<1>2. q \in RunsOf /\ RunInv(q, world, branch, TRUE)
  BY <1>1, StartedHeld
<1>3. /\ runs' = [runs EXCEPT ![w] = q] /\ fresh' = [fresh EXCEPT ![w] = TRUE]
      /\ world' = world /\ branch' = branch
  BY DEF Start
<1> HIDE DEF q
<1>4. TypeInv'
  BY <1>2, <1>3 DEF IInv, TypeInv
<1>5. BranchInv'
  BY <1>3 DEF IInv, BranchInv
<1>6. ASSUME NEW v \in Workers PROVE RunInv(runs'[v], world', branch', fresh'[v])
  <2>1. CASE v = w
    <3>1. runs'[v] = q /\ fresh'[v] = TRUE
      BY <1>3, <2>1 DEF IInv, TypeInv
    <3> QED
      BY <1>2, <1>3, <3>1
  <2>2. CASE v # w
    <3>1. runs'[v] = runs[v] /\ fresh'[v] = fresh[v]
      BY <1>3, <2>2 DEF IInv, TypeInv
    <3> QED
      BY <1>3, <3>1 DEF IInv
  <2> QED
    BY <2>1, <2>2
<1> QED
  BY <1>4, <1>5, <1>6 DEF IInv

\* All the ways in which a run begins.
LEMMA RunsStart ==
    ASSUME IInv, NEW w \in Workers,
           StartTick(w) \/ CheckSources(w) \/ RefreshKnowledge(w)
    PROVE IInv' /\ \E todo, scope : Start(w, todo, scope)
<1>1. CASE StartTick(w)
  <2>1. PICK n \in 1..MaxReplies : Start(w, [i \in 1..n |-> "reply"], Ercs)
    BY <1>1 DEF StartTick
  <2> DEFINE todo == [i \in 1..n |-> "reply"]
  <2>2. todo \in Seq(Operations) /\ Len(todo) = n /\ \A i \in 1..Len(todo) : todo[i] = "reply"
    BY KnowledgeAssumption DEF Operations
  <2> HIDE DEF todo
  <2>3. \A i \in 1..Len(todo) : todo[i] = "compile" => i = Len(todo)
    BY <2>2
  <2> QED
    BY <2>1, <2>2, <2>3, StartKeeps DEF todo
<1>2. ASSUME NEW scope \in SUBSET Ercs, Start(w, <<"check">>, scope) PROVE IInv'
  <2>1. <<"check">> \in Seq(Operations) /\ \A i \in 1..Len(<<"check">>) : <<"check">>[i] = "check"
    BY DEF Operations
  <2>2. \A i \in 1..Len(<<"check">>) : <<"check">>[i] = "compile" => i = Len(<<"check">>)
    BY <2>1
  <2> QED
    BY <1>2, <2>1, <2>2, StartKeeps
<1>3. CASE CheckSources(w)
  BY <1>2, <1>3 DEF CheckSources
<1>4. CASE RefreshKnowledge(w)
  <2>1. CASE Start(w, <<"compile">>, Ercs)
    <3>1. <<"compile">> \in Seq(Operations) /\ Len(<<"compile">>) = 1
      BY DEF Operations
    <3>2. \A i \in 1..Len(<<"compile">>) : <<"compile">>[i] = "compile" => i = Len(<<"compile">>)
      BY <3>1
    <3> QED
      BY <2>1, <3>1, <3>2, StartKeeps
  <2>2. ASSUME NEW e \in Ercs, Start(w, <<"check", "compile">>, {e}) PROVE IInv'
    <3> DEFINE todo == <<"check", "compile">>
    <3>1. todo \in Seq(Operations) /\ Len(todo) = 2 /\ todo[1] = "check"
      BY DEF Operations
    <3>2. \A i \in 1..Len(todo) : i = 1 \/ i = 2
      BY <3>1
    <3>3. \A i \in 1..Len(todo) : todo[i] = "compile" => i = Len(todo)
      BY <3>1, <3>2
    <3> HIDE DEF todo
    <3>4. {e} \in SUBSET Ercs
      OBVIOUS
    <3>5. Start(w, todo, {e})
      BY <2>2 DEF todo
    <3> QED
      BY <3>1, <3>3, <3>4, <3>5, StartKeeps
  <2> QED
    BY <1>4, <2>1, <2>2 DEF RefreshKnowledge
<1> QED
  BY <1>1, <1>3, <1>4 DEF StartTick, CheckSources, RefreshKnowledge

\* A run pushes: its clone started from the head of the branch, so that its pages are
\* no older than those there, and all others become stale.
LEMMA PushKeeps ==
    ASSUME IInv, NEW w \in Workers, Push(w)
    PROVE IInv' /\ NotNewer(branch.pages, branch'.pages)
<1> DEFINE r == runs[w]
<1>1. r \in RunsOf /\ RunInv(r, world, branch, TRUE) /\ r.pc = "free" /\ r.files \in Files
  BY DEF IInv, TypeInv, Push, RunsOf
<1>2. /\ branch' = r.files /\ fresh' = [v \in Workers |-> v = w]
      /\ world' = world /\ runs' = runs
  BY DEF Push
<1>3. r.unit = NoUnit /\ Kept(r) = r.files
  BY <1>1 DEF RunInv, UnitInv, Writing, Kept
<1>4. Honest(r.files) /\ NotNewer(r.files.pages, world) /\ NotNewer(branch.pages, r.files.pages)
  BY <1>1, <1>3 DEF RunInv, FilesInv, FreshInv
<1>5. TypeInv'
  BY <1>1, <1>2 DEF IInv, TypeInv
<1>6. BranchInv'
  BY <1>2, <1>4 DEF BranchInv
<1>7. ASSUME NEW v \in Workers PROVE RunInv(runs'[v], world', branch', fresh'[v])
  <2>1. CASE v = w
    <3>1. r.files.pages \in Observed
      BY <1>1, FilesFacts
    <3>2. NotNewer(r.files.pages, Kept(r).pages)
      BY <3>1, <1>3, ObservedNat DEF NotNewer
    <3>3. RunInv(r, world, r.files, TRUE)
      BY <1>1, <3>2 DEF RunInv, FreshInv
    <3> QED
      BY <1>2, <2>1, <3>3
  <2>2. CASE v # w
    <3>1. RunInv(runs[v], world, branch, fresh[v])
      BY DEF IInv
    <3>2. RunInv(runs[v], world, r.files, FALSE)
      BY <3>1, StaleHeld
    <3> QED
      BY <1>2, <2>2, <3>2
  <2> QED
    BY <2>1, <2>2
<1> QED
  BY <1>2, <1>4, <1>5, <1>6, <1>7 DEF IInv

\* The ERCs an operation chooses, and that there is an operation.
LEMMA ChosenErcs ==
    ASSUME NEW w \in Workers, NEW Q \in Chosen(w), runs[w].scope \subseteq Ercs
    PROVE Q \subseteq Ercs /\ Op(w) # "none"
<1>1. CASE Op(w) = "reply"
  <2>1. Q \in {{e} : e \in Ercs}
    BY <1>1 DEF Chosen
  <2> QED
    BY <1>1, <2>1
<1>2. CASE Op(w) = "check"
  <2>1. Q = runs[w].scope
    BY <1>2 DEF Chosen
  <2> QED
    BY <1>2, <2>1
<1>3. CASE Op(w) = "compile"
  <2>1. Q \in SUBSET PendingErcs(w)
    BY <1>3 DEF Chosen
  <2> QED
    BY <1>3, <2>1 DEF PendingErcs
<1>4. CASE Op(w) \notin {"reply", "check", "compile"}
  BY <1>4 DEF Chosen
<1> QED
  BY <1>1, <1>2, <1>3, <1>4

\* A run fetches evidence.
LEMMA FetchKeeps ==
    ASSUME IInv, NEW w \in Workers, Fetch(w)
    PROVE /\ IInv' /\ UNCHANGED branch
          /\ \E p : runs' = [runs EXCEPT ![w] = [runs[w] EXCEPT !.pc = "asked", !.pack = p]]
<1> DEFINE r == runs[w]
<1>1. /\ r \in RunsOf /\ RunInv(r, world, branch, fresh[w]) /\ r.pc = "free" /\ world \in Observed
      /\ r.files \in Files /\ r.scope \subseteq Ercs
  BY DEF IInv, TypeInv, Fetch, RunsOf
<1>2. PICK Q \in Chosen(w) : \E fetched \in Fetched(Q) :
          runs' = [runs EXCEPT ![w].pc = "asked",
                               ![w].pack =
              [ercs    |-> Q,
               got     |-> [s \in fetched |-> world[s]],
               changed |-> {s \in fetched : ContentOf[runs[w].memory[s]] # ContentOf[world[s]]},
               jobs    |-> IF Op(w) = "compile"
                             THEN [s \in {q \in Queued(runs[w].files) : ErcOf[q] \in Q} |->
                                      runs[w].files.refresh[s]]
                             ELSE Nothing]]
  BY DEF Fetch
<1>3. PICK fetched \in Fetched(Q) :
          runs' = [runs EXCEPT ![w].pc = "asked",
                               ![w].pack =
              [ercs    |-> Q,
               got     |-> [s \in fetched |-> world[s]],
               changed |-> {s \in fetched : ContentOf[runs[w].memory[s]] # ContentOf[world[s]]},
               jobs    |-> IF Op(w) = "compile"
                             THEN [s \in {q \in Queued(runs[w].files) : ErcOf[q] \in Q} |->
                                      runs[w].files.refresh[s]]
                             ELSE Nothing]]
  BY <1>2
<1> DEFINE got == [s \in fetched |-> world[s]]
           changed == {s \in fetched : ContentOf[r.memory[s]] # ContentOf[world[s]]}
           J == {q \in Queued(r.files) : ErcOf[q] \in Q}
           jobs == IF Op(w) = "compile" THEN [s \in J |-> r.files.refresh[s]] ELSE Nothing
           p == [ercs |-> Q, got |-> got, changed |-> changed, jobs |-> jobs]
           q == [r EXCEPT !.pc = "asked", !.pack = p]
<1>4. runs' = [runs EXCEPT ![w] = q]
  BY <1>3 DEF IInv, TypeInv
<1>5. Q \subseteq Ercs /\ Op(w) # "none"
  BY <1>1, ChosenErcs
<1>6. r.todo # <<>> /\ Op(w) = Head(r.todo)
  BY <1>5 DEF Op
<1>7. fetched \subseteq Sources
  BY DEF Fetched
<1>8. got \in [fetched -> Revisions]
  BY <1>1, <1>7, ObservedNat
<1>9. jobs \in UNION {[D -> Contents] : D \in SUBSET Sources}
  <2>1. J \in SUBSET Sources /\ [s \in J |-> r.files.refresh[s]] \in [J -> Contents]
    BY DEF Queued
  <2> QED
    BY <2>1, NothingFacts
<1>10. Head(r.todo) # "compile" => DOMAIN jobs = {}
  BY <1>6, NothingFacts
<1>11. DOMAIN got = fetched /\ \A s \in fetched : got[s] = world[s]
  OBVIOUS
<1>12. changed \subseteq Sources
      /\ changed = {s \in DOMAIN got : ContentOf[r.memory[s]] # ContentOf[got[s]]}
  BY <1>7, <1>11
<1> HIDE DEF got, changed, jobs
<1>13. /\ p \in Packs /\ p.got = got /\ p.changed = changed /\ p.jobs = jobs
  BY <1>5, <1>7, <1>8, <1>9, <1>12 DEF Packs
<1> HIDE DEF p
<1>14. q \in RunsOf /\ RunInv(q, world, branch, fresh[w])
  <2>1. p.changed = {s \in DOMAIN p.got : ContentOf[r.memory[s]] # ContentOf[p.got[s]]}
    BY <1>12, <1>13
  <2>2. \A s \in DOMAIN p.got : p.got[s] = world[s]
    BY <1>11, <1>13
  <2>3. Head(r.todo) # "compile" => DOMAIN p.jobs = {}
    BY <1>10, <1>13
  <2> HIDE DEF r
  <2> QED
    BY <1>1, <1>6, <1>13, <2>1, <2>2, <2>3, FetchedHeld
<1>15. UNCHANGED <<world, branch, fresh>>
  BY DEF Fetch
<1> HIDE DEF q
<1>16. IInv'
  BY <1>4, <1>14, <1>15, OneRun DEF IInv
<1> QED
  BY <1>4, <1>15, <1>16 DEF q

\* A run ends.
LEMMA StopKeeps ==
    ASSUME IInv, NEW w \in Workers, Stop(w)
    PROVE IInv' /\ UNCHANGED branch /\ runs' = [runs EXCEPT ![w] = Off]
<1>1. runs' = [runs EXCEPT ![w] = Off] /\ UNCHANGED <<world, branch, fresh>>
  BY DEF Stop
<1>2. RunInv(Off, world, branch, fresh[w])
  BY OffHeld
<1> QED
  BY <1>1, <1>2, OffType, OneRun DEF IInv

\* An operation ends without a unit of work.
LEMMA OverKeeps ==
    ASSUME IInv, NEW w \in Workers, NothingPending(w) \/ EvidenceRefused(w)
    PROVE /\ IInv' /\ UNCHANGED branch
          /\ runs' = [runs EXCEPT ![w] = Done(runs[w])]
          /\ runs[w].pc \in {"free", "asked"} /\ runs[w].todo # <<>>
<1> DEFINE r == runs[w]
           q == Done(r)
<1>1. r \in RunsOf /\ RunInv(r, world, branch, fresh[w])
  BY DEF IInv, TypeInv
<1>2. r.pc \in {"free", "asked"} /\ r.todo # <<>>
  BY DEF NothingPending, EvidenceRefused, Op
<1>3. q \in RunsOf /\ RunInv(q, world, branch, fresh[w])
  BY <1>1, <1>2, DoneHeld
<1>4. runs' = [runs EXCEPT ![w] = q] /\ UNCHANGED <<world, branch, fresh>>
  BY DEF NothingPending, EvidenceRefused
<1> HIDE DEF q
<1>5. IInv'
  BY <1>3, <1>4, OneRun DEF IInv
<1> QED
  BY <1>2, <1>4, <1>5 DEF q

\* A unit of work is staged.
LEMMA StagingKeeps ==
    ASSUME IInv, NEW w \in Workers, RecordEvidence(w) \/ RecordCheck(w) \/ Compile(w)
    PROVE /\ IInv' /\ UNCHANGED branch /\ runs[w].pc = "asked"
          /\ \E u \in Units : runs' = [runs EXCEPT ![w] = Publishing(runs[w], u)]
<1> DEFINE r == runs[w]
<1>1. r \in RunsOf /\ RunInv(r, world, branch, fresh[w]) /\ r.pc = "asked" /\ world \in Observed
  BY DEF IInv, TypeInv, RecordEvidence, RecordCheck, Compile
<1>2. r.todo # <<>> /\ Op(w) = Head(r.todo)
  BY <1>1, AskedFacts DEF Op
<1>3. r.pack.changed \subseteq DOMAIN r.pack.got
  BY <1>1, AskedFacts
<1>4. ASSUME NEW u \in Units, Stage(w, u),
             Publishing(r, u) \in RunsOf, RunInv(Publishing(r, u), world, branch, fresh[w])
      PROVE  /\ IInv' /\ UNCHANGED branch
             /\ runs' = [runs EXCEPT ![w] = Publishing(r, u)]
  <2> DEFINE q == Publishing(r, u)
  <2>1. runs' = [runs EXCEPT ![w] = q] /\ UNCHANGED <<world, branch, fresh>>
    BY <1>4 DEF Stage
  <2>2. q \in RunsOf /\ RunInv(q, world, branch, fresh[w])
    BY <1>4
  <2> HIDE DEF q
  <2>3. IInv'
    BY <2>1, <2>2, OneRun DEF IInv
  <2> QED
    BY <2>1, <2>3 DEF q
<1>5. CASE RecordEvidence(w)
  <2>1. EvidenceUnit(r) \in Units /\ Stage(w, EvidenceUnit(r))
    BY <1>1, <1>3, <1>5, EvidenceFacts DEF RecordEvidence
  <2>2. Publishing(r, EvidenceUnit(r)) \in RunsOf
        /\ RunInv(Publishing(r, EvidenceUnit(r)), world, branch, fresh[w])
    BY <1>1, EvidenceHeld
  <2> QED
    BY <1>1, <1>4, <2>1, <2>2
<1>6. CASE RecordCheck(w)
  <2>1. CompilationUnit(r) \in Units /\ Stage(w, CompilationUnit(r)) /\ Head(r.todo) = "check"
    BY <1>1, <1>2, <1>3, <1>6, CompilationFacts DEF RecordCheck
  <2>2. Publishing(r, CompilationUnit(r)) \in RunsOf
        /\ RunInv(Publishing(r, CompilationUnit(r)), world, branch, fresh[w])
    BY <1>1, <2>1, CheckHeld
  <2> QED
    BY <1>1, <1>4, <2>1, <2>2
<1>7. CASE Compile(w)
  <2>1. /\ RefreshUnit(r) \in Units /\ Stage(w, RefreshUnit(r)) /\ Head(r.todo) = "compile"
        /\ Acceptable(r)
    BY <1>1, <1>2, <1>3, <1>7, RefreshFacts DEF Compile
  <2>2. Publishing(r, RefreshUnit(r)) \in RunsOf
        /\ RunInv(Publishing(r, RefreshUnit(r)), world, branch, fresh[w])
    BY <1>1, <2>1, CompileHeld
  <2> QED
    BY <1>1, <1>4, <2>1, <2>2
<1> QED
  BY <1>5, <1>6, <1>7

\* A file is written or put back, or a write fails: the unit stays.
LEMMA WritingKeeps ==
    ASSUME IInv, NEW w \in Workers, Replace(w) \/ WriteFails(w) \/ PutBack(w)
    PROVE /\ IInv' /\ UNCHANGED branch /\ Writing(runs[w])
          /\ \E q \in RunsOf : /\ runs' = [runs EXCEPT ![w] = q]
                               /\ Writing(q) /\ q.unit = runs[w].unit /\ q.saved = runs[w].saved
<1> DEFINE r == runs[w]
<1>1. r \in RunsOf /\ RunInv(r, world, branch, fresh[w]) /\ Writing(r)
  BY DEF IInv, TypeInv, Replace, WriteFails, PutBack, Writing
<1>2. ASSUME NEW q, q \in RunsOf, RunInv(q, world, branch, fresh[w]),
             runs' = [runs EXCEPT ![w] = q], UNCHANGED <<world, branch, fresh>>
      PROVE IInv'
  BY <1>2, OneRun DEF IInv
<1>3. CASE Replace(w)
  <2>1. PICK f \in Left(r) :
            runs' = [runs EXCEPT ![w].files[f] = r.unit[f], ![w].written = @ \cup {f}]
    BY <1>3 DEF Replace
  <2> DEFINE q == [r EXCEPT !.files[f] = r.unit[f], !.written = @ \cup {f}]
  <2>2. runs' = [runs EXCEPT ![w] = q] /\ UNCHANGED <<world, branch, fresh>> /\ r.pc = "publish"
    BY <1>3, <2>1 DEF Replace, IInv, TypeInv
  <2>3. q \in RunsOf /\ RunInv(q, world, branch, fresh[w])
    BY <1>1, <2>2, PlacedHeld
  <2>4. q.pc = r.pc /\ q.unit = r.unit /\ q.saved = r.saved
    BY <1>1 DEF RunsOf
  <2> HIDE DEF q
  <2> QED
    BY <1>1, <1>2, <2>2, <2>3, <2>4 DEF Writing
<1>4. CASE WriteFails(w)
  <2> DEFINE q == [r EXCEPT !.pc = "rollback"]
  <2>2. runs' = [runs EXCEPT ![w] = q] /\ UNCHANGED <<world, branch, fresh>> /\ r.pc = "publish"
    BY <1>4 DEF WriteFails, IInv, TypeInv
  <2>3. q \in RunsOf /\ RunInv(q, world, branch, fresh[w])
    BY <1>1, <2>2, FailedHeld
  <2>4. q.pc = "rollback" /\ q.unit = r.unit /\ q.saved = r.saved
    BY <1>1 DEF RunsOf
  <2> HIDE DEF q
  <2> QED
    BY <1>1, <1>2, <2>2, <2>3, <2>4 DEF Writing
<1>5. CASE PutBack(w)
  <2>1. PICK f \in r.written :
            runs' = [runs EXCEPT ![w].files[f] = r.saved[f], ![w].written = @ \ {f}]
    BY <1>5 DEF PutBack
  <2> DEFINE q == [r EXCEPT !.files[f] = r.saved[f], !.written = @ \ {f}]
  <2>2. runs' = [runs EXCEPT ![w] = q] /\ UNCHANGED <<world, branch, fresh>> /\ r.pc = "rollback"
    BY <1>5, <2>1 DEF PutBack, IInv, TypeInv
  <2>3. q \in RunsOf /\ RunInv(q, world, branch, fresh[w])
    BY <1>1, <2>2, PutBackHeld
  <2>4. q.pc = r.pc /\ q.unit = r.unit /\ q.saved = r.saved
    BY <1>1 DEF RunsOf
  <2> HIDE DEF q
  <2> QED
    BY <1>1, <1>2, <2>2, <2>3, <2>4 DEF Writing
<1> QED
  BY <1>3, <1>4, <1>5

\* The unit was rolled back.
LEMMA GiveUpKeeps ==
    ASSUME IInv, NEW w \in Workers, GiveUp(w)
    PROVE /\ IInv' /\ UNCHANGED branch /\ Writing(runs[w])
          /\ \E q \in RunsOf : /\ runs' = [runs EXCEPT ![w] = q]
                               /\ q.pc \in {"free", "asked"} /\ q.unit = NoUnit
                               /\ q.files = runs[w].saved
<1> DEFINE r == runs[w]
<1>1. /\ r \in RunsOf /\ RunInv(r, world, branch, fresh[w]) /\ Writing(r)
      /\ r.pc = "rollback" /\ r.written = {} /\ UNCHANGED <<world, branch, fresh>>
  BY DEF IInv, TypeInv, GiveUp, Writing
<1>2. ASSUME NEW q, q \in RunsOf, RunInv(q, world, branch, fresh[w]),
             runs' = [runs EXCEPT ![w] = q], UNCHANGED <<world, branch, fresh>>
      PROVE IInv'
  BY <1>2, OneRun DEF IInv
<1>3. r.files = r.saved /\ r.todo # <<>>
  BY <1>1, RestoredFacts, WritingFacts
<1>4. CASE Op(w) = "reply" /\ runs' = [runs EXCEPT ![w].pc = "asked",
                                  ![w].todo = <<"again">> \o Tail(@), ![w].unit = NoUnit]
  <2> DEFINE q == [r EXCEPT !.pc = "asked", !.todo = <<"again">> \o Tail(@), !.unit = NoUnit]
  <2>1. runs' = [runs EXCEPT ![w] = q]
    BY <1>4 DEF IInv, TypeInv
  <2>2. Head(r.todo) = "reply"
    BY <1>3, <1>4 DEF Op
  <2>3. q \in RunsOf /\ RunInv(q, world, branch, fresh[w])
    BY <1>1, <2>2, AgainHeld
  <2>4. q.pc = "asked" /\ q.unit = NoUnit /\ q.files = r.files
    BY <1>1 DEF RunsOf
  <2> HIDE DEF q
  <2> QED
    BY <1>1, <1>2, <1>3, <2>1, <2>3, <2>4
<1>5. CASE runs' = [runs EXCEPT ![w] = [Done(@) EXCEPT !.todo = <<>>]]
  <2> DEFINE q == [Done(r) EXCEPT !.todo = <<>>]
  <2>1. runs' = [runs EXCEPT ![w] = q]
    BY <1>5
  <2>2. q \in RunsOf /\ RunInv(q, world, branch, fresh[w]) /\ q.files = r.files
        /\ q.unit = NoUnit /\ q.pc = "free"
    BY <1>1, GivenUpHeld
  <2> HIDE DEF q
  <2> QED
    BY <1>1, <1>2, <1>3, <2>1, <2>2
<1> QED
  BY <1>4, <1>5 DEF GiveUp

\* The unit is published.
LEMMA PublishedKeeps ==
    ASSUME IInv, NEW w \in Workers, Published(w)
    PROVE /\ IInv' /\ UNCHANGED branch /\ Writing(runs[w])
          /\ \E q \in RunsOf : /\ runs' = [runs EXCEPT ![w] = q]
                               /\ q.pc = "free" /\ q.unit = NoUnit /\ q.files = After(runs[w])
<1> DEFINE r == runs[w]
           q == [Done(r) EXCEPT !.memory = IF Head(r.todo) = "check" THEN r.files.registry
                                           ELSE r.memory]
<1>1. /\ r \in RunsOf /\ RunInv(r, world, branch, fresh[w]) /\ Writing(r)
      /\ r.pc = "publish" /\ Left(r) = {} /\ UNCHANGED <<world, branch, fresh>>
      /\ world \in Observed /\ branch \in Files
  BY DEF IInv, TypeInv, Published, Writing
<1>2. r.todo # <<>> /\ r.files = After(r)
  BY <1>1, WritingFacts, PublishedFacts
<1>3. Op(w) = Head(r.todo)
  BY <1>2 DEF Op
<1>4. runs' = [runs EXCEPT ![w] = q]
  BY <1>3 DEF Published
<1>5. q \in RunsOf /\ RunInv(q, world, branch, fresh[w])
  BY <1>1, PublishedHeld
<1>6. q.pc = "free" /\ q.unit = NoUnit /\ q.files = r.files
  BY <1>1, <1>2, DoneType
<1> HIDE DEF q
<1>7. IInv'
  BY <1>1, <1>4, <1>5, OneRun DEF IInv
<1> QED
  BY <1>1, <1>2, <1>4, <1>5, <1>6, <1>7

---------------------------------------------------------------------------
\* IInv holds in the initial state,
LEMMA InitEstablishes == ASSUME Init PROVE IInv
<1>1. world \in Observed /\ NewFiles.pages \in Observed
  BY ZeroRevision, NewFilesType, FilesFacts DEF Init, Observed
<1>2. TypeInv
  BY <1>1, NewFilesType, OffType DEF Init, TypeInv
<1>3. NotNewer(NewFiles.pages, world)
  BY DEF Init, NewFiles, NotNewer
<1>4. BranchInv
  BY <1>3 DEF Init, BranchInv, Honest, Remembers, NewFiles
<1>5. \A w \in Workers : RunInv(runs[w], world, branch, fresh[w])
  BY OffHeld DEF Init
<1> QED
  BY <1>2, <1>4, <1>5 DEF IInv

\* in every step of a run, which never takes the branch back to an older page,
LEMMA StepKeeps ==
    ASSUME IInv, NEW w \in Workers, Step(w)
    PROVE IInv' /\ NotNewer(branch.pages, branch'.pages)
<1>1. CASE Push(w)
  BY <1>1, PushKeeps
<1>2. CASE ~Push(w)
  <2>1. IInv' /\ UNCHANGED branch
    BY <1>2, RunsStart, StopKeeps, FetchKeeps, OverKeeps, StagingKeeps, WritingKeeps,
       GiveUpKeeps, PublishedKeeps DEF Step, Start
  <2>2. branch.pages \in Observed
    BY FilesFacts DEF IInv, TypeInv
  <2> QED
    BY <2>1, <2>2, ObservedNat DEF NotNewer
<1> QED
  BY <1>1, <1>2

\* and in every step.
LEMMA NextKeeps ==
    ASSUME IInv, [Next]_vars
    PROVE IInv' /\ NotNewer(branch.pages, branch'.pages)
<1>0. branch.pages \in Observed
  BY FilesFacts DEF IInv, TypeInv
<1>1. ASSUME UNCHANGED branch PROVE NotNewer(branch.pages, branch'.pages)
  BY <1>0, <1>1, ObservedNat DEF NotNewer
<1>2. ASSUME NEW s \in Sources, Edit(s) PROVE IInv' /\ UNCHANGED branch
  BY <1>2, EditKeeps DEF Edit
<1>3. CASE UNCHANGED vars
  <2>1. IInv'
    BY <1>3 DEF vars, IInv, TypeInv, BranchInv
  <2> QED
    BY <1>1, <1>3, <2>1 DEF vars
<1>4. CASE Next
  BY <1>1, <1>2, <1>4, StepKeeps DEF Next
<1> QED
  BY <1>3, <1>4

\* IInv is an invariant.
THEOREM Invariance == Spec => []IInv
BY InitEstablishes, NextKeeps, PTL DEF Spec

\* KnowledgeStateStore never forgets a change: in the branch and in every clone between
\* two operations, a source whose page was not compiled from the content in the
\* registry is queued or resolved.
THEOREM NothingForgotten == Spec => []NoChangeForgotten
<1>1. ASSUME NEW f \in Files, Honest(f), NEW s \in Sources,
             ContentOf[f.registry[s]] # ContentOf[f.pages[s]]
      PROVE  s \in Queued(f) \/ f.refresh[s] = Resolved
  <2>1. f.refresh[s] \in Contents \cup {NoJob, Resolved}
    BY <1>1, FilesFacts DEF Queues
  <2> QED
    BY <1>1, <2>1 DEF Honest, Remembers, Queued
<1>2. ASSUME IInv, NEW w \in Workers, runs[w].pc = "free"
      PROVE  runs[w].files \in Files /\ Honest(runs[w].files)
  <2>1. runs[w] \in RunsOf /\ RunInv(runs[w], world, branch, fresh[w])
    BY <1>2 DEF IInv, TypeInv
  <2>2. runs[w].unit = NoUnit /\ Kept(runs[w]) = runs[w].files
    BY <1>2, <2>1 DEF RunInv, UnitInv, Writing, Kept
  <2> QED
    BY <1>2, <2>1, <2>2 DEF RunInv, FilesInv, RunsOf
<1>3. ASSUME IInv PROVE branch \in Files /\ Honest(branch)
  BY <1>3 DEF IInv, TypeInv, BranchInv
<1>4. IInv => NoChangeForgotten
  BY <1>1, <1>2, <1>3 DEF NoChangeForgotten
<1> QED
  BY <1>4, Invariance, PTL

\* The branch never returns to a page compiled from an older revision, however the
\* runs of refresh_knowledge, check_sources and the ticks overlap.
THEOREM PagesAdvance == Spec => PagesNeverGoBack
<1>1. IInv /\ [Next]_vars => [\A s \in Sources : branch.pages[s] <= branch'.pages[s]]_branch
  BY NextKeeps DEF NotNewer
<1> QED
  BY <1>1, Invariance, PTL DEF Spec, PagesNeverGoBack

---------------------------------------------------------------------------
\* What a clone holds is never mistaken for no clone, nor a unit for none.
LEMMA CheckoutFacts ==
    ASSUME NEW r \in RunsOf
    PROVE /\ r.pc = "off" => Checkout(r) = NoCheckout
          /\ r.pc # "off" => Checkout(r) = Kept(r) /\ Checkout(r) \in Files
          /\ r.pc # "off" <=> Checkout(r) # NoCheckout
<1>1. r.files \in Files /\ r.saved \in Files
  BY DEF RunsOf
<1> QED
  BY <1>1, KnowledgeAssumption DEF Checkout, Kept

\* What a step of one run leaves of the others.
LEMMA OtherRuns ==
    ASSUME TypeInv, NEW w \in Workers, NEW q, runs' = [runs EXCEPT ![w] = q]
    PROVE /\ runs'[w] = q
          /\ \A v \in Workers \ {w} : runs'[v] = runs[v]
BY DEF TypeInv

\* A step that changes neither what a clone holds nor its unit.
LEMMA Stutters ==
    ASSUME NEW w \in Workers, Checkout(runs'[w]) = Checkout(runs[w]),
           runs'[w].unit = runs[w].unit
    PROVE UNCHANGED Unit(w)!unitVars
BY DEF Unit!unitVars, Checkout

\* Every step of a run is a step of the unit of work of its clone, or none.
LEMMA RunImplements ==
    ASSUME IInv, NEW w \in Workers, Step(w)
    PROVE [Unit(w)!UnitNext]_(Unit(w)!unitVars)
<1> DEFINE r == runs[w]
<1>0. TypeInv /\ r \in RunsOf /\ RunInv(r, world, branch, fresh[w])
  BY DEF IInv, TypeInv
<1>1. ASSUME NEW q \in RunsOf, runs' = [runs EXCEPT ![w] = q],
             q.pc # "off", r.pc # "off", Kept(q) = Kept(r), q.unit = r.unit
      PROVE  UNCHANGED Unit(w)!unitVars
  BY <1>0, <1>1, OtherRuns, CheckoutFacts, Stutters
<1>2. CASE StartTick(w) \/ CheckSources(w) \/ RefreshKnowledge(w)
  <2>1. PICK todo, scope : Start(w, todo, scope)
    BY <1>2, RunsStart
  <2> DEFINE q == [Off EXCEPT !.pc = "free", !.files = branch, !.memory = branch.registry,
                              !.todo = todo, !.scope = scope]
  <2>2. runs' = [runs EXCEPT ![w] = q] /\ r.pc = "off"
    BY <2>1 DEF Start
  <2>3. Checkout(q) = branch /\ q.unit = NoUnit /\ r.unit = NoUnit
    BY <1>0, <2>2 DEF Off, Checkout, RunInv, UnitInv, Writing
  <2> HIDE DEF q
  <2>4. branch # NoCheckout /\ Checkout(r) = NoCheckout
    BY <1>0, <2>2, KnowledgeAssumption, CheckoutFacts DEF TypeInv
  <2>5. runs'[w] = q
    BY <1>0, <2>2, OtherRuns
  <2> QED
    BY <2>3, <2>4, <2>5 DEF Unit!UnitNext, Unit!Load, Checkout
<1>3. CASE Push(w)
  <2>1. runs' = runs
    BY <1>3 DEF Push
  <2> QED
    BY <2>1, Stutters
<1>4. CASE Stop(w)
  <2>1. runs'[w] = Off /\ r.pc # "off"
    BY <1>0, <1>4, StopKeeps, OtherRuns DEF Stop
  <2>2. Checkout(Off) = NoCheckout /\ Off.unit = NoUnit /\ Checkout(r) # NoCheckout
    BY <1>0, <2>1, CheckoutFacts DEF Off, Checkout
  <2> QED
    BY <2>1, <2>2 DEF Unit!UnitNext, Unit!Vanish, Checkout
<1>5. CASE Fetch(w)
  <2>1. PICK p : runs' = [runs EXCEPT ![w] = [r EXCEPT !.pc = "asked", !.pack = p]]
    BY <1>5, FetchKeeps
  <2> DEFINE q == [r EXCEPT !.pc = "asked", !.pack = p]
  <2>2. q.pc = "asked" /\ q.files = r.files /\ q.unit = r.unit /\ q.saved = r.saved
    BY <1>0 DEF RunsOf
  <2>3. runs'[w] = q /\ r.pc = "free"
    BY <1>0, <1>5, <2>1, OtherRuns DEF Fetch
  <2> HIDE DEF q
  <2>4. Checkout(q) = Checkout(r)
    BY <2>2, <2>3 DEF Checkout
  <2> QED
    BY <2>2, <2>3, <2>4, Stutters
<1>6. CASE NothingPending(w) \/ EvidenceRefused(w)
  <2>1. runs'[w] = Done(r) /\ r.pc \in {"free", "asked"} /\ r.todo # <<>>
    BY <1>0, <1>6, OverKeeps, OtherRuns
  <2> DEFINE q == Done(r)
  <2>2. q.pc = "free" /\ q.unit = NoUnit /\ q.files = r.files /\ r.unit = NoUnit
    BY <1>0, <2>1, DoneType DEF RunInv, UnitInv, Writing
  <2> HIDE DEF q
  <2>3. Checkout(q) = Checkout(r)
    BY <2>1, <2>2 DEF Checkout
  <2> QED
    BY <2>1, <2>2, <2>3, Stutters DEF q
<1>7. CASE RecordEvidence(w) \/ RecordCheck(w) \/ Compile(w)
  <2>1. PICK u \in Units : runs' = [runs EXCEPT ![w] = Publishing(r, u)]
    BY <1>7, StagingKeeps
  <2> DEFINE q == Publishing(r, u)
  <2>2. runs'[w] = q /\ r.pc = "asked"
    BY <1>0, <1>7, <2>1, OtherRuns, StagingKeeps
  <2>3. q.pc = "publish" /\ q.unit = u /\ q.saved = r.files /\ u # NoUnit
    BY <1>0, UnitNotNone DEF RunsOf, Publishing
  <2>4. r.unit = NoUnit
    BY <1>0, <2>2 DEF RunInv, UnitInv, Writing
  <2> HIDE DEF q
  <2>5. Checkout(q) = Checkout(r) /\ Checkout(r) # NoCheckout
    BY <1>0, <2>2, <2>3, <2>4, CheckoutFacts DEF Checkout
  <2> QED
    BY <2>2, <2>3, <2>4, <2>5 DEF Unit!UnitNext, Unit!Stage, Checkout
<1>8. CASE Replace(w) \/ WriteFails(w) \/ PutBack(w)
  <2>1. PICK q \in RunsOf : /\ runs' = [runs EXCEPT ![w] = q]
                            /\ Writing(q) /\ q.unit = r.unit /\ q.saved = r.saved
    BY <1>8, WritingKeeps
  <2>2. runs'[w] = q /\ Writing(r) /\ r.unit # NoUnit
    BY <1>0, <1>8, <2>1, OtherRuns, WritingKeeps, WritingFacts
  <2>3. Checkout(q) = Checkout(r)
    BY <2>1, <2>2 DEF Checkout, Writing
  <2> QED
    BY <2>1, <2>2, <2>3, Stutters
<1>9. CASE GiveUp(w)
  <2>1. PICK q \in RunsOf : /\ runs' = [runs EXCEPT ![w] = q]
                            /\ q.pc \in {"free", "asked"} /\ q.unit = NoUnit
                            /\ q.files = r.saved
    BY <1>9, GiveUpKeeps
  <2>2. runs'[w] = q /\ Writing(r) /\ r.unit # NoUnit
    BY <1>0, <1>9, <2>1, OtherRuns, GiveUpKeeps, WritingFacts
  <2>3. Checkout(q) = Checkout(r)
    BY <2>1, <2>2 DEF Checkout, Writing
  <2> QED
    BY <2>1, <2>2, <2>3 DEF Unit!UnitNext, Unit!Abandon, Checkout
<1>10. CASE Published(w)
  <2>1. PICK q \in RunsOf : /\ runs' = [runs EXCEPT ![w] = q]
                            /\ q.pc = "free" /\ q.unit = NoUnit /\ q.files = After(r)
    BY <1>10, PublishedKeeps
  <2>2. runs'[w] = q /\ Writing(r) /\ r.unit # NoUnit
    BY <1>0, <1>10, <2>1, OtherRuns, PublishedKeeps, WritingFacts
  <2>3. Checkout(r) = r.saved /\ DOMAIN r.saved = Names /\ Checkout(q) = After(r)
    BY <1>0, <2>1, <2>2, WritingFacts, FilesFacts DEF Checkout, Writing
  <2>4. After(r) = [f \in DOMAIN r.saved |->
                       IF f \in DOMAIN r.unit THEN r.unit[f] ELSE r.saved[f]]
    BY <2>3 DEF After
  <2> QED
    BY <2>1, <2>2, <2>3, <2>4 DEF Unit!UnitNext, Unit!Commit, Checkout
<1> QED
  BY <1>2, <1>3, <1>4, <1>5, <1>6, <1>7, <1>8, <1>9, <1>10 DEF Step

\* In the beginning there is no clone and no unit,
LEMMA InitImplements == ASSUME Init, NEW w \in Workers PROVE Unit(w)!UnitInit
BY DEF Init, Off, Unit!UnitInit, Checkout

\* every step is, for every clone, a step of its unit of work or none;
LEMMA NextImplements ==
    ASSUME IInv, [Next]_vars, NEW w \in Workers
    PROVE [Unit(w)!UnitNext]_(Unit(w)!unitVars)
<1>1. CASE runs' = runs
  BY <1>1, Stutters
<1>2. ASSUME NEW v \in Workers, Step(v), v # w PROVE UNCHANGED Unit(w)!unitVars
  <2>1. runs' = runs \/ \E q : runs' = [runs EXCEPT ![v] = q]
    <3>1. CASE StartTick(v) \/ CheckSources(v) \/ RefreshKnowledge(v)
      BY <3>1, RunsStart DEF Start
    <3>2. CASE Push(v)
      BY <3>2 DEF Push
    <3>3. CASE Stop(v) \/ Fetch(v) \/ NothingPending(v) \/ EvidenceRefused(v)
      BY <3>3, StopKeeps, FetchKeeps, OverKeeps
    <3>4. CASE RecordEvidence(v) \/ RecordCheck(v) \/ Compile(v)
      BY <3>4, StagingKeeps
    <3>5. CASE Replace(v) \/ WriteFails(v) \/ PutBack(v)
      BY <3>5, WritingKeeps
    <3>6. CASE GiveUp(v) \/ Published(v)
      BY <3>6, GiveUpKeeps, PublishedKeeps
    <3> QED
      BY <1>2, <3>1, <3>2, <3>3, <3>4, <3>5, <3>6 DEF Step
  <2>2. runs'[w] = runs[w]
    BY <1>2, <2>1, OtherRuns DEF IInv
  <2> QED
    BY <2>2, Stutters
<1> QED
  BY <1>1, <1>2, RunImplements DEF Next, vars, Edit

\* hence RepositoryUnitOfWork.publish replaces the files of a unit together or not at
\* all, whichever write fails and whenever the run dies.
THEOREM WholeUnits == Spec => PublishesWhole
<1>1. Init => \A w \in Workers : Unit(w)!UnitInit
  BY InitImplements
<1>2. IInv /\ [Next]_vars => \A w \in Workers : [Unit(w)!UnitNext]_(Unit(w)!unitVars)
  BY NextImplements
<1> QED
  BY <1>1, <1>2, Invariance, PTL DEF Spec, PublishesWhole
============================================================================
