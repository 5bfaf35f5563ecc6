--------------------------- MODULE MessagesProofs ---------------------------
(***************************************************************************)
(* What holds of the messages of the group, of the jobs they give rise to  *)
(* and of the replies, for any messages, any number of updates and of      *)
(* runs that overlap, and any settings: no message is lost, what is ready  *)
(* answers the texts recorded last, and what was delivered is final.       *)
(*                                                                         *)
(* The files of a run are as good as those of the branch (FilesOK), which  *)
(* is all that is needed of whatever is pushed; while its clone is fresh   *)
(* they are also ahead of the branch, so that a push loses nothing.        *)
(***************************************************************************)
EXTENDS Messages, TLAPS, NaturalsInduction, WellFoundedInduction, SequenceTheorems

Files == [record : [Messages -> Nat], job : [JobIds -> Jobs \cup {NoJob}],
          cursor : Nat, receipts : SUBSET Nat]

LocalRuns == [pc : {"off", "messages", "cursor", "prepare", "deliver"},
              commit : Files, files : Files, page : SUBSET Nat, webhook : SUBSET Nat,
              prepared : SUBSET JobIds]

Updates == [message : Messages, text : Texts]

TypeOK ==
    /\ setting \in Settings
    /\ sent \in Seq(Updates)
    /\ confirmed \in Nat
    /\ branch \in Files
    /\ runs \in [Runs -> LocalRuns]
    /\ fresh \in [Runs -> BOOLEAN]
    /\ faults \in Nat

\* Update u is recorded, or one of its message that came later.
Covered(s, f, u) == u \in 1..Len(s) /\ f.record[s[u].message] >= u

\* What is recorded of a message is an update of it.
RecordOK(s, f, m) ==
    f.record[m] # 0 => f.record[m] \in 1..Len(s) /\ s[f.record[m]].message = m

\* A job is about messages that are recorded, and as recorded they are what a
\* ready reply was made from and what a route was decided for.
JobFits(record, i, j) ==
    j # NoJob =>
        /\ i \notin MemberJobs => j.trigger = i[2]
        /\ \A m \in SourcesOf(i, j) : record[m] # 0
        /\ j.status = "READY" => j.basis = {record[m] : m \in SourcesOf(i, j)}
        /\ j.status \in {"PENDING", "READY"} => j.routed \in {0, record[j.trigger]}

\* Nobody is introduced before he was welcomed.
Introduced(f, n) == /\ f.job[Introduction(n)] # NoJob
                    /\ f.job[Introduction(n)].status \in {"READY", "DELIVERED"}

WelcomedFirst(f, n) == Introduced(f, n) => Delivered(f, Welcome(n))

\* A job of a message that mentions the bot: it is not ignored, and knows of the
\* mention until it is delivered.
Attends(j) == /\ j # NoJob
              /\ j.status # "IGNORED"
              /\ j.status = "DELIVERED" \/ j.kind = "MENTION"

Mentions(s, record, m) == record[m] # 0 /\ s[record[m]].text = "MENTION"

MentionOK(s, f, m) == Mentions(s, f.record, m) => Attends(f.job[Reply(m)])

\* What is true of files that may be pushed.
FilesOK(s, f) ==
    /\ f \in Files
    /\ \A u \in Nat : u \in f.receipts \/ u \in 1..f.cursor => Covered(s, f, u)
    /\ \A m \in Messages : RecordOK(s, f, m) /\ MentionOK(s, f, m)
    /\ \A i \in JobIds : JobFits(f.record, i, f.job[i])
    /\ \A n \in Newcomers : WelcomedFirst(f, n)

\* Files g lose nothing of files f.
Ahead(f, g) ==
    /\ \A m \in Messages : f.record[m] <= g.record[m]
    /\ \A i \in JobIds : Delivered(f, i) => g.job[i] = f.job[i]

\* Up to the last update of its page everything is recorded in a tick's clone.
LocalOK(s, polls, run) ==
    /\ FilesOK(s, run.files)
    /\ run.page \subseteq 1..Len(s)
    /\ run.pc = "messages" => \A u \in run.webhook : Covered(s, run.files, u)
    /\ run.pc = "cursor" \/ (run.pc = "messages" /\ polls) =>
          \A v \in run.page : \A u \in 1..v : Covered(s, run.files, u)
    /\ run.pc # "deliver" => run.prepared = {}
    /\ \A i \in run.prepared : run.files.job[i] # NoJob /\ run.files.job[i].status = "READY"

MessagesInv ==
    /\ TypeOK
    /\ FilesOK(sent, branch)
    /\ \A u \in 1..confirmed : Covered(sent, branch, u)
    /\ \A r \in Runs :
          /\ LocalOK(sent, Polls, runs[r])
          /\ fresh[r] /\ runs[r].pc # "off" => Ahead(branch, runs[r].files)

-----------------------------------------------------------------------------
(* Least and greatest numbers                                              *)

\* A nonempty set of numbers has a least one.
LEMMA LeastNumber ==
    ASSUME NEW T, T \subseteq Nat, T # {}
    PROVE  \E n \in T : \A m \in T : n <= m
<1> DEFINE Less == {p \in Nat \X Nat : p[1] < p[2]}
<1>1. IsWellFoundedOn(Less, Nat)
  BY NatLessThanWellFounded DEF OpToRel
<1>2. \E n \in T : \A m \in T : <<m, n>> \notin Less
  <2> HIDE DEF Less
  <2> QED
    BY <1>1, WFMin
<1>3. PICK n \in T : \A m \in T : <<m, n>> \notin Less
  BY <1>2
<1>4. n \in Nat /\ \A m \in T : m \in Nat /\ ~(m < n)
  BY <1>3
<1> QED
  BY <1>4

\* Min is the least number of a set.
LEMMA MinIs ==
    ASSUME NEW T, T \subseteq Nat, T # {}
    PROVE  Min(T) \in T /\ \A m \in T : Min(T) <= m
<1>1. PICK n \in T : \A m \in T : n <= m
  BY LeastNumber
<1> QED
  BY <1>1 DEF Min

\* Max is the greatest number of a set that has a bound.
LEMMA MaxIs ==
    ASSUME NEW b \in Nat, NEW T, T \subseteq 0..b, T # {}
    PROVE  Max(T) \in T /\ \A m \in T : m <= Max(T)
<1> DEFINE below == {b - m : m \in T}
<1>1. below \subseteq Nat /\ below # {}
  <2>1. \A m \in T : m \in 0..b /\ b - m \in Nat
    OBVIOUS
  <2> QED
    BY <2>1
<1>2. PICK d \in below : \A k \in below : d <= k
  <2> HIDE DEF below
  <2> QED
    BY <1>1, LeastNumber
<1>3. PICK n \in T : d = b - n
  BY <1>2
<1>4. \A m \in T : m <= n
  <2>1. ASSUME NEW m \in T PROVE m <= n
    <3>1. b - m \in below
      OBVIOUS
    <3>2. d <= b - m
      BY <1>2, <3>1
    <3> QED
      BY <1>3, <3>2
  <2> QED
    BY <2>1
<1> QED
  BY <1>4 DEF Max

\* The greatest of two numbers.
LEMMA MaxOfTwo ==
    ASSUME NEW a \in Nat, NEW b \in Nat
    PROVE  Max({a, b}) \in {a, b} /\ a <= Max({a, b}) /\ b <= Max({a, b})
<1>1. {a, b} \subseteq 0..(a + b) /\ a + b \in Nat
  OBVIOUS
<1> QED
  BY <1>1, MaxIs

-----------------------------------------------------------------------------
(* Jobs                                                                    *)

\* The identifiers of jobs, of a message's reply and of the two of a new member.
LEMMA Ids ==
    /\ MemberJobs \subseteq JobIds
    /\ Newcomers \subseteq Messages
    /\ \A m \in Messages : /\ Reply(m) \in JobIds /\ Reply(m) \notin MemberJobs
                           /\ Reply(m)[1] = "reply" /\ Reply(m)[2] = m
    /\ \A n \in Newcomers : /\ {Welcome(n), Introduction(n)} \subseteq MemberJobs
                            /\ Welcome(n)[1] = "welcome" /\ Welcome(n)[2] = n
                            /\ Introduction(n)[1] = "introduction" /\ Introduction(n)[2] = n
    /\ \A i \in JobIds :
          IF i \in MemberJobs
          THEN /\ i[2] \in Newcomers /\ i[2] \in Messages
               /\ i[1] \in {"welcome", "introduction"}
               /\ i[1] = "welcome" => i = Welcome(i[2])
               /\ i[1] = "introduction" => i = Introduction(i[2])
          ELSE i[2] \in Messages /\ i = Reply(i[2]) /\ i[1] = "reply"
<1>1. Newcomers \subseteq Messages
  BY MessagesAssumption DEF Newcomers
<1>2. MemberJobs \subseteq JobIds
  BY DEF JobIds
<1>3. \A i \in MemberJobs : i[1] # "reply"
  BY DEF MemberJobs, Welcome, Introduction
<1>4. \A m \in Messages : /\ Reply(m) \in JobIds /\ Reply(m) \notin MemberJobs
                          /\ Reply(m)[1] = "reply" /\ Reply(m)[2] = m
  BY <1>3 DEF JobIds, Reply
<1>5. \A n \in Newcomers : /\ {Welcome(n), Introduction(n)} \subseteq MemberJobs
                           /\ Welcome(n)[1] = "welcome" /\ Welcome(n)[2] = n
                           /\ Introduction(n)[1] = "introduction" /\ Introduction(n)[2] = n
  BY DEF MemberJobs, Welcome, Introduction
<1>6. ASSUME NEW i \in MemberJobs
      PROVE  /\ i[2] \in Newcomers /\ i[2] \in Messages
             /\ i[1] \in {"welcome", "introduction"}
             /\ i[1] = "welcome" => i = Welcome(i[2])
             /\ i[1] = "introduction" => i = Introduction(i[2])
  BY <1>1 DEF MemberJobs, Welcome, Introduction
<1>7. ASSUME NEW i \in JobIds, i \notin MemberJobs
      PROVE  i[2] \in Messages /\ i = Reply(i[2]) /\ i[1] = "reply"
  BY <1>7 DEF JobIds, Reply
<1> QED
  BY <1>1, <1>2, <1>4, <1>5, <1>6, <1>7

\* A new job, and one that is closed, are jobs.
LEMMA JobIs ==
    ASSUME NEW kind \in {"MENTION", "MESSAGE", "GREETING", "welcome", "introduction"},
           NEW m \in Messages
    PROVE  /\ Job(kind, m) \in Jobs
           /\ Job(kind, m) # NoJob
           /\ Job(kind, m).status = "PENDING" /\ Job(kind, m).kind = kind
           /\ Job(kind, m).trigger = m /\ Job(kind, m).routed = 0
<1>1. Job(kind, m) \in Jobs
  BY DEF Job, Jobs
<1> QED
  BY <1>1, MessagesAssumption DEF Job

LEMMA ClosedIs ==
    ASSUME NEW j \in Jobs, NEW status \in {"DELIVERED", "IGNORED", "CANCELLED"}
    PROVE  /\ Closed(j, status) \in Jobs
           /\ Closed(j, status) # NoJob
           /\ Closed(j, status).status = status
           /\ Closed(j, status).kind = j.kind /\ Closed(j, status).trigger = j.trigger
<1>1. Closed(j, status) \in Jobs
  BY DEF Closed, Jobs
<1> QED
  BY <1>1, MessagesAssumption DEF Closed, Jobs

\* What may become of a job while the records stay as they are.
Evolves(record, i, j, k) ==
    /\ k \in Jobs
    /\ JobFits(record, i, k)
    /\ k.kind = j.kind /\ k.trigger = j.trigger
    /\ k.status # "DELIVERED"
    /\ k.status = "IGNORED" => j.kind # "MENTION"

\* A job may be closed unless the bot may not ignore its message.
LEMMA ClosedEvolves ==
    ASSUME NEW record, NEW i, NEW j \in Jobs, JobFits(record, i, j),
           NEW status \in {"IGNORED", "CANCELLED"}, status = "IGNORED" => j.kind # "MENTION"
    PROVE  Evolves(record, i, j, Closed(j, status))
<1>1. /\ Closed(j, status) \in Jobs /\ Closed(j, status).status = status
      /\ Closed(j, status).kind = j.kind /\ Closed(j, status).trigger = j.trigger
  BY ClosedIs
<1>2. j # NoJob
  BY MessagesAssumption
<1>3. SourcesOf(i, Closed(j, status)) = SourcesOf(i, j)
  BY <1>1 DEF SourcesOf
<1>4. JobFits(record, i, Closed(j, status))
  BY <1>1, <1>2, <1>3 DEF JobFits
<1> QED
  BY <1>1, <1>4 DEF Evolves

\* What comes of a job that has become another one comes of the job.
LEMMA EvolvesOn ==
    ASSUME NEW record, NEW i, NEW j, NEW k, NEW h, k.kind = j.kind, k.trigger = j.trigger,
           Evolves(record, i, k, h)
    PROVE  Evolves(record, i, j, h)
BY DEF Evolves

\* A decision on entry keeps the job of a mention open or cancels it.
LEMMA DecisionsEvolve ==
    ASSUME NEW f \in Files, NEW i \in JobIds, NEW j \in Jobs, JobFits(f.record, i, j),
           j.status \in {"PENDING", "READY"}, NEW k \in Decisions(i, j, f)
    PROVE  Evolves(f.record, i, j, k) /\ (k.status = "READY" => j.status = "READY")
<1> DEFINE routed == [j EXCEPT !.routed = f.record[j.trigger]]
           status == IF j.kind \in {"GREETING", "MESSAGE"} THEN "IGNORED" ELSE "CANCELLED"
<1>1. CASE k = routed
  <2>1. f.record[j.trigger] \in Nat
    BY DEF Files, Jobs
  <2>2. /\ k \in Jobs /\ k.routed = f.record[j.trigger] /\ k.status = j.status
        /\ k.kind = j.kind /\ k.trigger = j.trigger /\ k.basis = j.basis
    BY <1>1, <2>1 DEF Jobs
  <2>3. SourcesOf(i, k) = SourcesOf(i, j)
    BY <2>2 DEF SourcesOf
  <2>4. j # NoJob
    BY MessagesAssumption
  <2>5. JobFits(f.record, i, k)
    BY <2>2, <2>3, <2>4 DEF JobFits
  <2> QED
    BY <2>2, <2>5 DEF Evolves
<1>2. CASE k = Closed(j, status)
  <2>1. status \in {"IGNORED", "CANCELLED"} /\ (status = "IGNORED" => j.kind # "MENTION")
    OBVIOUS
  <2> HIDE DEF status
  <2> QED
    BY <1>2, <2>1, ClosedEvolves, ClosedIs
<1> QED
  BY <1>1, <1>2 DEF Decisions

\* A ready reply was made from the texts that are recorded now.
LEMMA ReadyEvolves ==
    ASSUME NEW f \in Files, NEW i \in JobIds, NEW j \in Jobs, JobFits(f.record, i, j)
    PROVE  Evolves(f.record, i, j, Ready(j, f, SourcesOf(i, j)))
<1> DEFINE k == Ready(j, f, SourcesOf(i, j))
<1>1. SourcesOf(i, j) \subseteq Messages
  BY Ids DEF SourcesOf, Jobs
<1>2. Basis(f, SourcesOf(i, j)) \subseteq Nat /\ f.record[j.trigger] \in Nat
  BY <1>1 DEF Basis, Files, Jobs
<1>3. /\ k \in Jobs /\ k.status = "READY" /\ k.routed = f.record[j.trigger]
      /\ k.basis = Basis(f, SourcesOf(i, j)) /\ k.kind = j.kind /\ k.trigger = j.trigger
  BY <1>2 DEF Ready, Jobs
<1>4. SourcesOf(i, k) = SourcesOf(i, j)
  BY <1>3 DEF SourcesOf
<1>5. j # NoJob
  BY MessagesAssumption
<1>6. JobFits(f.record, i, k)
  <2> HIDE DEF k
  <2> QED
    BY <1>3, <1>4, <1>5 DEF JobFits, Basis
<1>7. Evolves(f.record, i, j, k)
  <2> HIDE DEF k
  <2> QED
    BY <1>3, <1>6 DEF Evolves
<1> QED
  BY <1>7

\* A failed attempt leaves the job pending or cancels it.
LEMMA FailedEvolves ==
    ASSUME NEW record, NEW i, NEW j \in Jobs, JobFits(record, i, j),
           j.routed \in {0, record[j.trigger]}, NEW k \in Failed(j)
    PROVE  Evolves(record, i, j, k) /\ k.status \in {"PENDING", "CANCELLED"}
<1>1. CASE k = Closed(j, "CANCELLED")
  BY <1>1, ClosedEvolves, ClosedIs
<1>2. CASE k = [j EXCEPT !.status = "PENDING", !.basis = {}]
  <2>1. /\ k \in Jobs /\ k.status = "PENDING" /\ k.routed = j.routed
        /\ k.kind = j.kind /\ k.trigger = j.trigger
    BY <1>2 DEF Jobs
  <2>2. SourcesOf(i, k) = SourcesOf(i, j)
    BY <2>1 DEF SourcesOf
  <2>3. j # NoJob
    BY MessagesAssumption
  <2>4. JobFits(record, i, k)
    BY <2>1, <2>2, <2>3 DEF JobFits
  <2> QED
    BY <2>1, <2>4 DEF Evolves
<1> QED
  BY <1>1, <1>2 DEF Failed

\* A route that was taken is kept when what follows it fails.
LEMMA RouteFailedEvolves ==
    ASSUME NEW f \in Files, NEW i, NEW j \in Jobs, JobFits(f.record, i, j),
           NEW k \in RouteFailed(j, f)
    PROVE  Evolves(f.record, i, j, k)
<1> DEFINE routed == [j EXCEPT !.routed = f.record[j.trigger]]
<1>1. f.record[j.trigger] \in Nat
  BY DEF Files, Jobs
<1>2. /\ routed \in Jobs /\ routed.routed = f.record[routed.trigger]
      /\ routed.kind = j.kind /\ routed.trigger = j.trigger
      /\ routed.status = j.status /\ routed.basis = j.basis
  BY <1>1 DEF Jobs
<1>3. SourcesOf(i, routed) = SourcesOf(i, j) /\ j # NoJob
  BY <1>2, MessagesAssumption DEF SourcesOf
<1>4. k \in Failed(routed)
  BY DEF RouteFailed
<1> HIDE DEF routed
<1>5. JobFits(f.record, i, routed)
  BY <1>2, <1>3 DEF JobFits
<1>6. Evolves(f.record, i, routed, k)
  BY <1>2, <1>4, <1>5, FailedEvolves
<1> QED
  BY <1>2, <1>6, EvolvesOn

\* The bot ignores no message that mentions it.
LEMMA NoMentionIgnored == ASSUME NEW j, "ignore" \in Routes(j) PROVE j.kind # "MENTION"
BY DEF Routes

\* One attempt at a job.
LEMMA AttemptedEvolves ==
    ASSUME NEW f \in Files, NEW i \in JobIds, NEW j \in Jobs, JobFits(f.record, i, j),
           j.routed \in {0, f.record[j.trigger]}, NEW k \in Attempted(i, j, f)
    PROVE  Evolves(f.record, i, j, k)
<1> DEFINE tried == [j EXCEPT !.attempts = Min({j.attempts + 1, MaxAttempts})]
<1>1. Min({j.attempts + 1, MaxAttempts}) \in Nat
  <2>1. {j.attempts + 1, MaxAttempts} \subseteq Nat /\ {j.attempts + 1, MaxAttempts} # {}
    BY MessagesAssumption DEF Jobs
  <2> QED
    BY <2>1, MinIs
<1>2. /\ tried \in Jobs /\ tried.kind = j.kind /\ tried.trigger = j.trigger
      /\ tried.status = j.status /\ tried.basis = j.basis /\ tried.routed = j.routed
  BY <1>1 DEF Jobs
<1>3. SourcesOf(i, tried) = SourcesOf(i, j) /\ j # NoJob
  BY <1>2, MessagesAssumption DEF SourcesOf
<1>4. JobFits(f.record, i, tried) /\ tried.routed \in {0, f.record[tried.trigger]}
  <2> HIDE DEF tried
  <2> QED
    BY <1>2, <1>3 DEF JobFits
<1>5. \A h \in Failed(tried) : Evolves(f.record, i, tried, h)
  <2> HIDE DEF tried
  <2> QED
    BY <1>2, <1>4, FailedEvolves
<1>6. Evolves(f.record, i, tried, Ready(tried, f, SourcesOf(i, tried)))
  <2> HIDE DEF tried
  <2> QED
    BY <1>2, <1>4, ReadyEvolves
<1>7. \A h \in RouteFailed(tried, f) : Evolves(f.record, i, tried, h)
  <2> HIDE DEF tried
  <2> QED
    BY <1>2, <1>4, RouteFailedEvolves
<1>8. Evolves(f.record, i, tried, k)
  <2>1. CASE i \in MemberJobs
    <3>1. k \in PreparedWelcome(i, tried, f)
      BY <2>1 DEF Attempted
    <3>2. k \in Failed(tried) \/ k = Ready(tried, f, SourcesOf(i, tried))
      <4> HIDE DEF tried
      <4> QED
        BY <3>1 DEF PreparedWelcome
    <3> HIDE DEF tried
    <3> QED
      BY <3>2, <1>5, <1>6
  <2>2. CASE i \notin MemberJobs
    <3>1. SourcesOf(i, tried) = {tried.trigger}
      BY <2>2 DEF SourcesOf
    <3>2. \/ k \in Failed(tried)
          \/ k = Closed(tried, "IGNORED") /\ "ignore" \in Routes(tried)
          \/ k \in Refusal(tried, f) \cup Verification(tried, f) \cup Answer(tried, f)
      <4>1. \/ k \in Failed(tried)
            \/ \E route \in Routes(tried) :
                  k \in CASE route = "ignore" -> {Closed(tried, "IGNORED")}
                          [] route = "refuse" -> Refusal(tried, f)
                          [] route = "verify" -> Verification(tried, f)
                          [] route = "answer" -> Answer(tried, f)
        BY <2>2 DEF Attempted
      <4>2. Routes(tried) \subseteq {"ignore", "refuse", "verify", "answer"}
        <5> HIDE DEF tried
        <5> QED
          BY DEF Routes
      <4> HIDE DEF tried
      <4> QED
        BY <4>1, <4>2
    <3> HIDE DEF tried
    <3>3. CASE k \in Failed(tried)
      BY <3>3, <1>5
    <3>4. CASE k = Closed(tried, "IGNORED") /\ "ignore" \in Routes(tried)
      BY <3>4, <1>2, <1>4, NoMentionIgnored, ClosedEvolves
    <3>5. CASE k \in Refusal(tried, f) \cup Verification(tried, f) \cup Answer(tried, f)
      <4>1. k = Ready(tried, f, SourcesOf(i, tried)) \/ k \in RouteFailed(tried, f)
        BY <3>1, <3>5 DEF Refusal, Verification, Answer, Validated, Saved
      <4> QED
        BY <4>1, <1>6, <1>7
    <3> QED
      BY <3>2, <3>3, <3>4, <3>5
  <2> QED
    BY <2>1, <2>2
<1> HIDE DEF tried
<1> QED
  BY <1>2, <1>8, EvolvesOn

\* What becomes of a job that is taken up.
LEMMA OutcomesEvolve ==
    ASSUME NEW f \in Files, NEW i \in JobIds, NEW j \in Jobs, JobFits(f.record, i, j),
           j.status \in {"PENDING", "READY"}, NEW k \in Outcomes(i, j, f)
    PROVE  Evolves(f.record, i, j, k)
<1>1. j # NoJob
  BY MessagesAssumption
<1>2. j.routed \in {0, f.record[j.trigger]}
  BY <1>1 DEF JobFits
<1>3. Evolves(f.record, i, j, j)
  BY DEF Evolves
<1>4. Evolves(f.record, i, j, Closed(j, "CANCELLED"))
  BY ClosedEvolves
<1>5. CASE k \in {j, Closed(j, "CANCELLED")}
  BY <1>3, <1>4, <1>5
<1>6. CASE k \in Attempted(i, j, f)
  BY <1>2, <1>6, AttemptedEvolves
<1>7. CASE k \in Attempted(i, [j EXCEPT !.routed = 0], f)
  <2> DEFINE again == [j EXCEPT !.routed = 0]
  <2>1. /\ again \in Jobs /\ again.kind = j.kind /\ again.trigger = j.trigger
        /\ again.status = j.status /\ again.basis = j.basis /\ again.routed = 0
    BY DEF Jobs
  <2>2. SourcesOf(i, again) = SourcesOf(i, j)
    BY <2>1 DEF SourcesOf
  <2>3. k \in Attempted(i, again, f)
    BY <1>7
  <2> HIDE DEF again
  <2>4. JobFits(f.record, i, again)
    BY <1>1, <2>1, <2>2 DEF JobFits
  <2> QED
    BY <2>1, <2>3, <2>4, AttemptedEvolves, EvolvesOn
<1> QED
  BY <1>5, <1>6, <1>7 DEF Outcomes, Discarded

-----------------------------------------------------------------------------
(* Files                                                                   *)

\* Files are ahead of themselves, and of those that theirs are ahead of.
LEMMA AheadOfItself == ASSUME NEW f \in Files PROVE Ahead(f, f)
BY DEF Ahead, Files

LEMMA AheadOn ==
    ASSUME NEW f \in Files, NEW g \in Files, NEW h \in Files, Ahead(f, g), Ahead(g, h)
    PROVE  Ahead(f, h)
<1>1. \A m \in Messages : f.record[m] <= h.record[m]
  <2>1. \A m \in Messages : f.record[m] \in Nat /\ g.record[m] \in Nat /\ h.record[m] \in Nat
    BY DEF Files
  <2> QED
    BY <2>1 DEF Ahead
<1>2. ASSUME NEW i \in JobIds, Delivered(f, i) PROVE h.job[i] = f.job[i]
  <2>1. g.job[i] = f.job[i]
    BY <1>2 DEF Ahead
  <2>2. Delivered(g, i)
    BY <1>2, <2>1 DEF Delivered
  <2> QED
    BY <2>1, <2>2 DEF Ahead
<1> QED
  BY <1>1, <1>2 DEF Ahead

\* What is recorded stays recorded in files that are ahead.
LEMMA CoveredOn ==
    ASSUME NEW s \in Seq(Updates), NEW f \in Files, NEW g \in Files, Ahead(f, g),
           NEW u, Covered(s, f, u)
    PROVE  Covered(s, g, u)
<1>1. u \in 1..Len(s) /\ s[u] \in Updates
  BY DEF Covered
<1>2. s[u].message \in Messages
  BY <1>1 DEF Updates
<1>3. f.record[s[u].message] \in Nat /\ g.record[s[u].message] \in Nat /\ u \in Nat
  BY <1>1, <1>2 DEF Files
<1> QED
  BY <1>1, <1>2, <1>3 DEF Covered, Ahead

\* When only jobs change, it is enough to look at the jobs.
LEMMA JobsKeep ==
    ASSUME NEW s, NEW f, FilesOK(s, f),
           NEW h \in [JobIds -> Jobs \cup {NoJob}],
           \A i \in JobIds : JobFits(f.record, i, h[i]),
           \A i \in JobIds : Delivered(f, i) => h[i] = f.job[i],
           \A m \in Messages : Mentions(s, f.record, m) /\ Attends(f.job[Reply(m)])
                                  => Attends(h[Reply(m)]),
           \A n \in Newcomers :
              h[Introduction(n)] # NoJob /\ h[Introduction(n)].status \in {"READY", "DELIVERED"}
                 => Introduced(f, n) \/ Delivered(f, Welcome(n))
    PROVE  FilesOK(s, [f EXCEPT !.job = h]) /\ Ahead(f, [f EXCEPT !.job = h])
<1> DEFINE g == [f EXCEPT !.job = h]
<1>0. f \in Files
  BY DEF FilesOK
<1>1. /\ g \in Files /\ g.record = f.record /\ g.cursor = f.cursor
      /\ g.receipts = f.receipts /\ g.job = h
  BY <1>0 DEF Files
<1> HIDE DEF g
<1>2. Ahead(f, g)
  BY <1>0, <1>1 DEF Ahead, Files
<1>3. \A u \in Nat : u \in g.receipts \/ u \in 1..g.cursor => Covered(s, g, u)
  BY <1>1 DEF FilesOK, Covered
<1>4. ASSUME NEW m \in Messages PROVE RecordOK(s, g, m) /\ MentionOK(s, g, m)
  <2>1. RecordOK(s, f, m) /\ MentionOK(s, f, m)
    BY DEF FilesOK
  <2> QED
    BY <1>1, <2>1 DEF RecordOK, MentionOK
<1>5. \A i \in JobIds : JobFits(g.record, i, g.job[i])
  BY <1>1
<1>6. ASSUME NEW n \in Newcomers, Introduced(g, n) PROVE Delivered(g, Welcome(n))
  <2>1. Introduced(f, n) \/ Delivered(f, Welcome(n))
    BY <1>1, <1>6 DEF Introduced
  <2>2. Delivered(f, Welcome(n))
    BY <2>1 DEF FilesOK, WelcomedFirst
  <2>3. Welcome(n) \in JobIds
    BY Ids
  <2> QED
    BY <1>1, <2>2, <2>3 DEF Delivered
<1>7. FilesOK(s, g)
  BY <1>1, <1>3, <1>4, <1>5, <1>6 DEF FilesOK, WelcomedFirst
<1> QED
  BY <1>2, <1>7 DEF g

\* Open jobs that evolve, the others staying as they are; an introduction becomes
\* ready once the welcome was delivered.
LEMMA EvolvedKeeps ==
    ASSUME NEW s, NEW f, FilesOK(s, f), NEW ids \in SUBSET JobIds,
           \A i \in ids : f.job[i] # NoJob /\ f.job[i].status \in {"PENDING", "READY"},
           NEW h, h = [i \in JobIds |-> h[i]],
           \A i \in JobIds \ ids : h[i] = f.job[i],
           \A i \in ids : Evolves(f.record, i, f.job[i], h[i]),
           \A i \in ids : i[1] = "introduction" /\ h[i].status = "READY"
              => f.job[i].status = "READY" \/ Delivered(f, Welcome(i[2]))
    PROVE  FilesOK(s, [f EXCEPT !.job = h]) /\ Ahead(f, [f EXCEPT !.job = h])
<1>0. f \in Files
  BY DEF FilesOK
<1>1. \A i \in JobIds : f.job[i] \in Jobs \cup {NoJob} /\ JobFits(f.record, i, f.job[i])
  BY <1>0 DEF FilesOK, Files
<1>2. ASSUME NEW i \in JobIds
      PROVE  h[i] \in Jobs \cup {NoJob} /\ JobFits(f.record, i, h[i])
  BY <1>1 DEF Evolves
<1>3. h \in [JobIds -> Jobs \cup {NoJob}]
  BY <1>2
<1>4. \A i \in JobIds : Delivered(f, i) => h[i] = f.job[i]
  BY DEF Delivered
<1>5. ASSUME NEW m \in Messages, Attends(f.job[Reply(m)]) PROVE Attends(h[Reply(m)])
  <2>1. Reply(m) \in JobIds
    BY Ids
  <2>2. CASE Reply(m) \in ids
    <3>1. h[Reply(m)] # NoJob
      BY <2>2, MessagesAssumption DEF Evolves
    <3> QED
      BY <1>5, <2>2, <3>1 DEF Evolves, Attends
  <2> QED
    BY <1>5, <2>1, <2>2
<1>6. ASSUME NEW n \in Newcomers,
             h[Introduction(n)] # NoJob, h[Introduction(n)].status \in {"READY", "DELIVERED"}
      PROVE  Introduced(f, n) \/ Delivered(f, Welcome(n))
  <2>1. /\ Introduction(n) \in JobIds
        /\ Introduction(n)[1] = "introduction" /\ Introduction(n)[2] = n
    BY Ids
  <2>2. CASE Introduction(n) \in ids
    <3>1. h[Introduction(n)].status # "DELIVERED"
      BY <2>2 DEF Evolves
    <3> QED
      BY <1>6, <2>1, <2>2, <3>1 DEF Introduced
  <2> QED
    BY <1>6, <2>1, <2>2 DEF Introduced
<1> QED
  BY <1>1, <1>2, <1>3, <1>4, <1>5, <1>6, JobsKeep

\* The entry decision.
LEMMA DecidedKeeps ==
    ASSUME NEW s, NEW f, FilesOK(s, f), NEW page, NEW g \in Decided(f, Candidates(f, page))
    PROVE  FilesOK(s, g) /\ Ahead(f, g)
<1> DEFINE ids == Candidates(f, page)
<1>0. f \in Files
  BY DEF FilesOK
<1>1. /\ ids \in SUBSET JobIds
      /\ \A i \in ids : f.job[i] # NoJob /\ f.job[i].status \in {"PENDING", "READY"}
  BY DEF Candidates
<1> HIDE DEF ids
<1>2. PICK c : /\ \A i \in ids : c[i] \in Decisions(i, f.job[i], f)
               /\ g = [f EXCEPT !.job = [i \in JobIds |-> IF i \in ids THEN c[i] ELSE f.job[i]]]
  BY DEF Decided, ids
<1> DEFINE h == [i \in JobIds |-> IF i \in ids THEN c[i] ELSE f.job[i]]
<1>3. ASSUME NEW i \in ids
      PROVE  /\ Evolves(f.record, i, f.job[i], h[i])
             /\ h[i].status = "READY" => f.job[i].status = "READY"
  <2>1. i \in JobIds /\ f.job[i] \in Jobs /\ JobFits(f.record, i, f.job[i])
    BY <1>0, <1>1 DEF Files, FilesOK
  <2>2. h[i] \in Decisions(i, f.job[i], f)
    BY <1>2, <2>1
  <2> HIDE DEF h
  <2> QED
    BY <1>0, <1>1, <2>1, <2>2, DecisionsEvolve
<1>4. h = [i \in JobIds |-> h[i]] /\ \A i \in JobIds \ ids : h[i] = f.job[i]
  OBVIOUS
<1>5. g = [f EXCEPT !.job = h]
  BY <1>2
<1> HIDE DEF h
<1>6. FilesOK(s, [f EXCEPT !.job = h]) /\ Ahead(f, [f EXCEPT !.job = h])
  BY <1>1, <1>3, <1>4, EvolvedKeeps
<1> QED
  BY <1>5, <1>6

\* The preparation of the jobs that are taken up.
LEMMA PreparedKeeps ==
    ASSUME NEW s, NEW f, FilesOK(s, f), NEW todo \in SUBSET Actionable(f),
           NEW job \in Prepared(f, todo)
    PROVE  /\ FilesOK(s, [f EXCEPT !.job = job]) /\ Ahead(f, [f EXCEPT !.job = job])
           /\ \A i \in todo : i \in JobIds /\ job[i] # NoJob
<1>0. f \in Files
  BY DEF FilesOK
<1>1. /\ todo \in SUBSET JobIds
      /\ \A i \in todo : /\ f.job[i] # NoJob /\ f.job[i].status \in {"PENDING", "READY"}
                         /\ i[1] = "introduction" => Delivered(f, Welcome(i[2]))
  BY DEF Actionable
<1>2. PICK c : /\ \A i \in todo : c[i] \in Outcomes(i, f.job[i], f)
               /\ job = [i \in JobIds |-> IF i \in todo THEN c[i] ELSE f.job[i]]
  BY DEF Prepared
<1>3. ASSUME NEW i \in todo PROVE Evolves(f.record, i, f.job[i], job[i])
  <2>1. i \in JobIds /\ f.job[i] \in Jobs /\ JobFits(f.record, i, f.job[i])
    BY <1>0, <1>1 DEF Files, FilesOK
  <2>2. job[i] \in Outcomes(i, f.job[i], f)
    BY <1>2, <2>1
  <2> QED
    BY <1>0, <1>1, <2>1, <2>2, OutcomesEvolve
<1>4. job = [i \in JobIds |-> job[i]] /\ \A i \in JobIds \ todo : job[i] = f.job[i]
  BY <1>2
<1>5. \A i \in todo : i \in JobIds /\ job[i] # NoJob
  BY <1>1, <1>3, MessagesAssumption DEF Evolves
<1> QED
  BY <1>1, <1>3, <1>4, <1>5, EvolvedKeeps

\* When a message was sent.
FirstSent(g) == Min({u \in Numbers : sent[u].message = g})

\* The greeting that a welcome answers: of those that welcome a member the one
\* that was sent first.
LEMMA FirstGreeting ==
    ASSUME sent \in Seq(Updates), NEW W, \A g \in W : \E u \in Numbers : sent[u].message = g,
           W # {}
    PROVE  \E g \in W : \A h \in W : FirstSent(g) <= FirstSent(h)
<1> DEFINE of(g) == {u \in Numbers : sent[u].message = g}
           times == {Min(of(g)) : g \in W}
<1>1. \A g \in W : Min(of(g)) \in Nat
  <2>1. ASSUME NEW g \in W PROVE Min(of(g)) \in Nat
    <3>1. of(g) \subseteq Nat /\ of(g) # {}
      BY DEF Numbers
    <3> HIDE DEF of
    <3> QED
      BY <3>1, MinIs
  <2> QED
    BY <2>1
<1>2. times \subseteq Nat /\ times # {}
  <2> HIDE DEF of
  <2> QED
    BY <1>1
<1>3. PICK t \in times : \A v \in times : t <= v
  <2> HIDE DEF times
  <2> QED
    BY <1>2, LeastNumber
<1>4. PICK g \in W : t = Min(of(g))
  BY <1>3
<1>5. \A h \in W : Min(of(g)) <= Min(of(h))
  <2> HIDE DEF of
  <2> QED
    BY <1>3, <1>4
<1> QED
  BY <1>5 DEF FirstSent

\* MemberWelcomeReconciler: what it adds is about recorded messages, what it
\* drops is no mention.
LEMMA ReconciledKeeps ==
    ASSUME sent \in Seq(Updates), NEW f, FilesOK(sent, f)
    PROVE  /\ FilesOK(sent, Reconciled(f)) /\ Ahead(f, Reconciled(f))
           /\ Reconciled(f).record = f.record
<1> DEFINE greetings == {g \in DOMAIN TargetOf :
                            /\ f.job[Reply(g)] # NoJob
                            /\ f.job[Reply(g)].kind = "GREETING"
                            /\ SaysWelcome(f, g)}
           Welcoming(n) == {g \in greetings : TargetOf[g] = n /\ f.record[n] # 0}
           First(n) == CHOOSE g \in Welcoming(n) :
                          \A k \in Welcoming(n) : FirstSent(g) <= FirstSent(k)
           h == [i \in JobIds |->
                   IF i \in MemberJobs
                   THEN IF f.job[i] = NoJob /\ Welcoming(i[2]) # {} THEN Job(i[1], First(i[2]))
                        ELSE f.job[i]
                   ELSE IF i[2] \in greetings /\ f.job[i].status = "PENDING" THEN NoJob
                        ELSE f.job[i]]
<1>1. Reconciled(f) = [f EXCEPT !.job = h]
  BY DEF Reconciled, FirstSent
<1>0. f \in Files
  BY DEF FilesOK
<1>2. \A i \in JobIds : f.job[i] \in Jobs \cup {NoJob} /\ JobFits(f.record, i, f.job[i])
  BY <1>0 DEF FilesOK, Files
<1>3. greetings \subseteq Messages /\ \A g \in greetings : f.record[g] # 0
  BY MessagesAssumption DEF SaysWelcome
<1>4. ASSUME NEW n \in Newcomers, Welcoming(n) # {}
      PROVE  First(n) \in Messages /\ f.record[First(n)] # 0 /\ f.record[n] # 0
  <2>1. \A g \in Welcoming(n) : g \in Messages /\ f.record[g] # 0
    BY <1>3
  <2>2. \A g \in Welcoming(n) : \E u \in Numbers : sent[u].message = g
    <3> HIDE DEF Welcoming
    <3> QED
      BY <2>1 DEF FilesOK, RecordOK, Numbers
  <2>3. \E g \in Welcoming(n) : \A k \in Welcoming(n) : FirstSent(g) <= FirstSent(k)
    <3> HIDE DEF Welcoming
    <3> QED
      BY <1>4, <2>2, FirstGreeting
  <2>4. First(n) \in Welcoming(n)
    <3> HIDE DEF Welcoming
    <3> QED
      BY <2>3
  <2>5. f.record[n] # 0
    BY <2>4
  <2> HIDE DEF Welcoming, First
  <2> QED
    BY <2>1, <2>4, <2>5
<1> HIDE DEF Welcoming, First
<1>5. ASSUME NEW i \in JobIds
      PROVE  h[i] \in Jobs \cup {NoJob} /\ JobFits(f.record, i, h[i])
  <2>1. CASE i \in MemberJobs /\ f.job[i] = NoJob /\ Welcoming(i[2]) # {}
    <3>1. h[i] = Job(i[1], First(i[2]))
      BY <2>1
    <3>2. i[2] \in Newcomers /\ i[1] \in {"welcome", "introduction"}
      BY <2>1, Ids
    <3>3. First(i[2]) \in Messages /\ f.record[First(i[2])] # 0 /\ f.record[i[2]] # 0
      BY <1>4, <2>1, <3>2
    <3> HIDE DEF h
    <3>4. /\ h[i] \in Jobs /\ h[i].status = "PENDING" /\ h[i].routed = 0
          /\ h[i].trigger = First(i[2])
      BY <3>1, <3>2, <3>3, JobIs
    <3>5. SourcesOf(i, h[i]) = {First(i[2]), i[2]}
      BY <2>1, <3>4 DEF SourcesOf
    <3> QED
      BY <2>1, <3>3, <3>4, <3>5 DEF JobFits
  <2>2. CASE h[i] = NoJob
    BY <2>2 DEF JobFits
  <2>3. CASE h[i] = f.job[i]
    BY <1>2, <2>3
  <2> QED
    BY <2>1, <2>2, <2>3
<1>6. h \in [JobIds -> Jobs \cup {NoJob}]
  BY <1>5
<1>7. \A i \in JobIds : Delivered(f, i) => h[i] = f.job[i]
  BY DEF Delivered
<1>8. ASSUME NEW m \in Messages, Attends(f.job[Reply(m)]) PROVE Attends(h[Reply(m)])
  <2>1. Reply(m) \in JobIds /\ Reply(m) \notin MemberJobs /\ Reply(m)[2] = m
    BY Ids
  <2>2. ~(m \in greetings /\ f.job[Reply(m)].status = "PENDING")
    BY <1>8 DEF Attends
  <2>3. h[Reply(m)] = f.job[Reply(m)]
    BY <2>1, <2>2
  <2> QED
    BY <1>8, <2>3
<1>9. ASSUME NEW n \in Newcomers,
             h[Introduction(n)] # NoJob, h[Introduction(n)].status \in {"READY", "DELIVERED"}
      PROVE  Introduced(f, n)
  <2>1. Introduction(n) \in JobIds /\ Introduction(n) \in MemberJobs
        /\ Introduction(n)[1] = "introduction" /\ Introduction(n)[2] = n
    BY Ids
  <2>2. h[Introduction(n)] = f.job[Introduction(n)]
    <3>1. CASE f.job[Introduction(n)] = NoJob /\ Welcoming(n) # {}
      <4>1. h[Introduction(n)] = Job("introduction", First(n))
        BY <2>1, <3>1
      <4> QED
        BY <1>4, <1>9, <3>1, <4>1, JobIs
    <3> QED
      BY <2>1, <3>1
  <2> QED
    BY <1>9, <2>2 DEF Introduced
<1> HIDE DEF h
<1>10. FilesOK(sent, [f EXCEPT !.job = h]) /\ Ahead(f, [f EXCEPT !.job = h])
  BY <1>5, <1>6, <1>7, <1>8, <1>9, JobsKeep
<1>11. [f EXCEPT !.job = h].record = f.record
  BY <1>0 DEF Files
<1> QED
  BY <1>1, <1>10, <1>11

-----------------------------------------------------------------------------
(* Intake                                                                  *)

\* What an update calls for; a mention always calls for a reply.
LEMMA TriggerIs ==
    ASSUME sent \in Seq(Updates), NEW u \in Numbers
    PROVE  /\ Trigger(u) \in {"MENTION", "MESSAGE", "GREETING", "none"}
           /\ sent[u].text = "MENTION" => Trigger(u) = "MENTION"
<1> DEFINE t == sent[u].text
<1>1. t \in Texts
  <2>1. sent[u] \in Updates
    BY DEF Numbers
  <2> QED
    BY <2>1 DEF Updates
<1>2. Trigger(u) = CASE t \in {"GREETING", "WELCOME"} -> "GREETING"
                     [] t = "MESSAGE" /\ setting.entry -> "MESSAGE"
                     [] t = "MENTION" -> "MENTION"
                     [] OTHER -> "none"
  BY DEF Trigger
<1> HIDE DEF t
<1>3. CASE t = "MENTION"
  BY <1>2, <1>3 DEF t
<1>4. CASE t \in {"GREETING", "WELCOME"}
  BY <1>2, <1>4 DEF t
<1>5. CASE t = "MESSAGE" /\ setting.entry
  BY <1>2, <1>5 DEF t
<1>6. CASE t = "MESSAGE" /\ ~setting.entry
  BY <1>2, <1>6 DEF t
<1>7. CASE t = "NONE"
  BY <1>2, <1>7 DEF t
<1> QED
  BY <1>1, <1>3, <1>4, <1>5, <1>6, <1>7 DEF Texts

\* The job of a message after an update of it: one that was there before knows
\* that the update is an edit.
LEMMA UpdatedFits ==
    ASSUME sent \in Seq(Updates), NEW u \in Numbers, NEW old, NEW record, record[sent[u].message] = u,
           NEW j \in Jobs \cup {NoJob}, JobFits(old, Reply(sent[u].message), j),
           j # NoJob => Edited(u)
    PROVE  /\ Updated(j, u) \in Jobs \cup {NoJob}
           /\ JobFits(record, Reply(sent[u].message), Updated(j, u))
           /\ j # NoJob /\ j.status = "DELIVERED" => Updated(j, u) = j
           /\ sent[u].text = "MENTION" => Attends(Updated(j, u))
<1> DEFINE m == sent[u].message
           i == Reply(m)
           k == Updated(j, u)
           fits == /\ k \in Jobs \cup {NoJob}
                   /\ JobFits(record, i, k)
                   /\ j # NoJob /\ j.status = "DELIVERED" => k = j
                   /\ sent[u].text = "MENTION" => Attends(k)
<1>1. m \in Messages /\ u # 0
  <2>1. sent[u] \in Updates
    BY DEF Numbers
  <2> QED
    BY <2>1 DEF Updates, Numbers
<1>2. i \notin MemberJobs /\ i[2] = m
  BY <1>1, Ids
<1>3. /\ Trigger(u) \in {"MENTION", "MESSAGE", "GREETING", "none"}
      /\ sent[u].text = "MENTION" => Trigger(u) = "MENTION"
  BY TriggerIs
<1>4. \A x \in Jobs : SourcesOf(i, x) = {x.trigger}
  BY <1>2 DEF SourcesOf
<1>5. j # NoJob => j.trigger = m
  BY <1>2 DEF JobFits
<1>6. j # NoJob => j \in Jobs
  OBVIOUS
<1>7. CASE j = NoJob
  <2>1. k = IF Trigger(u) = "none" THEN NoJob ELSE Job(Trigger(u), m)
    BY <1>7 DEF Updated
  <2>2. Trigger(u) # "none" => /\ k \in Jobs /\ k.status = "PENDING" /\ k.kind = Trigger(u)
                               /\ k.trigger = m /\ k.routed = 0 /\ k # NoJob
    <3> HIDE DEF k, m
    <3> QED
      BY <1>1, <1>3, <2>1, JobIs
  <2>3. fits
    <3> HIDE DEF k, i
    <3> QED
      BY <1>1, <1>2, <1>3, <1>4, <1>7, <2>1, <2>2 DEF JobFits, Attends
  <2> QED
    BY <2>3
<1>8. CASE j # NoJob /\ j.status = "DELIVERED"
  <2>1. k = j
    BY <1>8 DEF Updated
  <2>2. fits
    <3> HIDE DEF k, i
    <3> QED
      BY <1>1, <1>2, <1>3, <1>4, <1>5, <1>6, <1>8, <2>1 DEF JobFits, Attends
  <2> QED
    BY <2>2
<1>9. CASE j # NoJob /\ j.status # "DELIVERED" /\ Trigger(u) # "none"
  <2>1. k = [Job(Trigger(u), m) EXCEPT !.attempts = j.attempts]
    BY <1>5, <1>9 DEF Updated
  <2>2. j.attempts \in Nat
    BY <1>6, <1>9 DEF Jobs
  <2>3. /\ Job(Trigger(u), m) \in Jobs /\ Job(Trigger(u), m).status = "PENDING"
        /\ Job(Trigger(u), m).kind = Trigger(u) /\ Job(Trigger(u), m).trigger = m
        /\ Job(Trigger(u), m).routed = 0
    <3> HIDE DEF m
    <3> QED
      BY <1>1, <1>3, <1>9, JobIs
  <2>4. /\ k \in Jobs /\ k.status = "PENDING" /\ k.kind = Trigger(u)
        /\ k.trigger = m /\ k.routed = 0
    <3> HIDE DEF k, m
    <3> QED
      BY <2>1, <2>2, <2>3 DEF Jobs
  <2>5. k # NoJob
    <3> HIDE DEF k
    <3> QED
      BY <2>4, MessagesAssumption
  <2>6. fits
    <3> HIDE DEF k, i
    <3> QED
      BY <1>1, <1>2, <1>3, <1>4, <1>9, <2>4, <2>5 DEF JobFits, Attends
  <2> QED
    BY <2>6
<1>10. CASE j # NoJob /\ j.status # "DELIVERED" /\ Trigger(u) = "none"
  <2>1. k = IF j.status = "IGNORED" THEN j ELSE NoJob
    BY <1>10 DEF Updated
  <2>2. fits
    <3> HIDE DEF k, i
    <3> QED
      BY <1>1, <1>2, <1>3, <1>4, <1>5, <1>6, <1>10, <2>1 DEF JobFits
  <2> QED
    BY <2>2
<1> QED
  BY <1>7, <1>8, <1>9, <1>10

\* The updates that count: they are later than what is recorded, and the latest
\* of their message in the page.
LEMMA SupersedingIs ==
    ASSUME sent \in Seq(Updates), NEW f \in Files, NEW page, page \subseteq Numbers
    PROVE  /\ \A u \in Superseding(f, page) :
                 /\ u \in page /\ u \in Numbers /\ sent[u].message \in Messages
                 /\ u > f.record[sent[u].message]
                 /\ \A v \in page : sent[v].message = sent[u].message => v <= u
           /\ \A u \in page :
                 \/ f.record[sent[u].message] >= u
                 \/ sent[u].message \in Changed(Superseding(f, page))
<1>0. \A u \in Numbers : u \in 0..Len(sent) /\ sent[u].message \in Messages
  <2>1. \A u \in Numbers : sent[u] \in Updates /\ u \in 0..Len(sent)
    BY DEF Numbers
  <2> QED
    BY <2>1 DEF Updates
<1>1. \A u \in Superseding(f, page) :
         /\ u \in page /\ u \in Numbers /\ sent[u].message \in Messages
         /\ u > f.record[sent[u].message]
         /\ \A v \in page : sent[v].message = sent[u].message => v <= u
  BY <1>0 DEF Superseding, Newest
<1>2. ASSUME NEW u \in page, ~(f.record[sent[u].message] >= u)
      PROVE  sent[u].message \in Changed(Superseding(f, page))
  <2> DEFINE same == {v \in page : sent[v].message = sent[u].message}
             w == Max(same)
  <2>1. same \subseteq 0..Len(sent) /\ same # {} /\ Len(sent) \in Nat
    BY <1>0
  <2>2. w \in same /\ \A v \in same : v <= w
    <3> HIDE DEF same
    <3> QED
      BY <2>1, MaxIs
  <2> HIDE DEF w
  <2>3. w \in page /\ sent[w].message = sent[u].message /\ w >= u
    BY <2>2
  <2>4. w \in Newest(page)
    BY <2>2, <2>3 DEF Newest
  <2>5. f.record[sent[w].message] \in Nat /\ w \in Nat /\ u \in Nat
    BY <1>0, <2>3 DEF Files
  <2>6. w > f.record[sent[w].message]
    BY <1>2, <2>3, <2>5
  <2>7. w \in Superseding(f, page)
    BY <2>4, <2>6 DEF Superseding
  <2> QED
    BY <2>3, <2>7 DEF Changed
<1> QED
  BY <1>1, <1>2

\* Intake: the page is recorded, and the jobs fit the records that it changes.
LEMMA PersistedKeeps ==
    ASSUME sent \in Seq(Updates), NEW f, FilesOK(sent, f), NEW page, page \subseteq Numbers
    PROVE  /\ FilesOK(sent, Persisted(f, page)) /\ Ahead(f, Persisted(f, page))
           /\ \A u \in page : Covered(sent, Persisted(f, page), u)
<1> DEFINE news == Superseding(f, page)
           edits == Changed({u \in news : Edited(u)})
           record == [m \in Messages |->
                         IF m \in Changed(news) THEN Update(news, m) ELSE f.record[m]]
           job == [i \in JobIds |->
                      IF i \in MemberJobs THEN Invalidated(i, f.job[i], edits)
                      ELSE IF i[2] \in Changed(news) THEN Updated(f.job[i], Update(news, i[2]))
                      ELSE f.job[i]]
           g == [WithRecords(f, news) EXCEPT !.job = job]
<1>0. f \in Files
  BY DEF FilesOK
<1>1. Persisted(f, page) = Reconciled(g)
  <2>1. WithRecords(f, news).job = f.job
    BY <1>0 DEF WithRecords, Files
  <2> QED
    BY <2>1 DEF Persisted
<1>2. /\ g.record = record /\ g.job = job /\ g.cursor = f.cursor /\ g.receipts = f.receipts
      /\ g = [record |-> record, job |-> job, cursor |-> f.cursor, receipts |-> f.receipts]
  <2>1. /\ f = [record |-> f.record, job |-> f.job, cursor |-> f.cursor, receipts |-> f.receipts]
    BY <1>0 DEF Files
  <2>2. WithRecords(f, news) = [f EXCEPT !.record = record]
    BY DEF WithRecords
  <2> HIDE DEF record, job
  <2>3. WithRecords(f, news)
          = [record |-> record, job |-> f.job, cursor |-> f.cursor, receipts |-> f.receipts]
    BY <2>1, <2>2
  <2> QED
    BY <2>3
<1>3. /\ \A u \in news : /\ u \in page /\ u \in Numbers /\ sent[u].message \in Messages
                         /\ u > f.record[sent[u].message]
                         /\ \A v \in page : sent[v].message = sent[u].message => v <= u
      /\ \A u \in page : f.record[sent[u].message] >= u \/ sent[u].message \in Changed(news)
  BY <1>0, SupersedingIs
<1> HIDE DEF news
<1>4. ASSUME NEW m \in Changed(news)
      PROVE  /\ Update(news, m) \in news /\ sent[Update(news, m)].message = m
             /\ m \in Messages
  <2>1. PICK u \in news : sent[u].message = m
    BY DEF Changed
  <2> QED
    BY <1>3, <2>1 DEF Update
<1>5. ASSUME NEW m \in Messages
      PROVE  /\ f.record[m] \in Nat /\ record[m] \in Nat /\ f.record[m] <= record[m]
             /\ RecordOK(sent, f, m) /\ MentionOK(sent, f, m)
             /\ m \notin Changed(news) => record[m] = f.record[m]
             /\ m \in Changed(news) => /\ record[m] = Update(news, m)
                                       /\ record[m] \in news /\ sent[record[m]].message = m
                                       /\ record[m] > f.record[m] /\ record[m] \in Numbers
  <2>1. f.record[m] \in Nat /\ RecordOK(sent, f, m) /\ MentionOK(sent, f, m)
    BY <1>0 DEF Files, FilesOK
  <2>2. CASE m \in Changed(news)
    <3>1. record[m] = Update(news, m)
      BY <2>2
    <3>2. record[m] \in news /\ sent[record[m]].message = m
      BY <1>4, <2>2, <3>1
    <3> HIDE DEF record
    <3>3. record[m] > f.record[m] /\ record[m] \in Numbers /\ record[m] \in Nat
      BY <1>3, <3>2 DEF Numbers
    <3> QED
      BY <2>1, <2>2, <3>1, <3>2, <3>3
  <2>3. CASE m \notin Changed(news)
    BY <2>1, <2>3
  <2> QED
    BY <2>2, <2>3
<1>6. record \in [Messages -> Nat]
  BY <1>5
<1>7. \A i \in JobIds : f.job[i] \in Jobs \cup {NoJob} /\ JobFits(f.record, i, f.job[i])
  BY <1>0 DEF FilesOK, Files
\* A text that was recorded before makes the update an edit.
<1>8. ASSUME NEW m \in Changed(news), f.record[m] # 0
      PROVE  Edited(Update(news, m)) /\ m \in edits
  <2>1. m \in Messages /\ Update(news, m) \in news /\ sent[Update(news, m)].message = m
    BY <1>4
  <2>2. f.record[m] \in 1..Len(sent) /\ sent[f.record[m]].message = m
    BY <1>5, <1>8, <2>1 DEF RecordOK
  <2>3. Update(news, m) > f.record[m] /\ Update(news, m) \in Nat
    BY <1>3, <2>1 DEF Numbers
  <2>4. Edited(Update(news, m))
    BY <2>1, <2>2, <2>3 DEF Edited
  <2> QED
    BY <2>1, <2>4 DEF Changed
<1> HIDE DEF record, edits
<1>9. ASSUME NEW i \in MemberJobs
      PROVE  /\ job[i] \in Jobs \cup {NoJob} /\ JobFits(record, i, job[i])
             /\ job[i] \in {f.job[i], NoJob}
             /\ Delivered(f, i) => job[i] = f.job[i]
  <2>1. /\ i \in JobIds /\ job[i] = Invalidated(i, f.job[i], edits)
    BY Ids
  <2> HIDE DEF job
  <2>2. job[i] \in {f.job[i], NoJob} /\ (Delivered(f, i) => job[i] = f.job[i])
    BY <2>1 DEF Invalidated, Delivered
  <2>3. CASE job[i] = NoJob
    BY <2>2, <2>3 DEF JobFits
  <2>4. CASE job[i] = f.job[i] /\ f.job[i] # NoJob
    <3>1. f.job[i] \in Jobs /\ f.job[i].trigger \in Messages
      BY <1>7, <2>1, <2>4 DEF Jobs
    <3>2. SourcesOf(i, f.job[i]) \subseteq Messages /\ f.job[i].trigger \in SourcesOf(i, f.job[i])
      BY <2>1, <3>1, Ids DEF SourcesOf
    <3>3. \A m \in SourcesOf(i, f.job[i]) : f.record[m] # 0
      BY <1>7, <2>1, <2>4 DEF JobFits
    <3>4. \A m \in SourcesOf(i, f.job[i]) : record[m] # 0
      <4>1. ASSUME NEW m \in SourcesOf(i, f.job[i]) PROVE record[m] # 0
        <5>1. f.record[m] # 0 /\ f.record[m] \in Nat /\ record[m] \in Nat /\ f.record[m] <= record[m]
          BY <1>5, <3>2, <3>3
        <5> QED
          BY <5>1
      <4> QED
        BY <4>1
    <3>5. f.job[i].status # "DELIVERED" =>
            \A m \in SourcesOf(i, f.job[i]) : record[m] = f.record[m]
      <4>1. ASSUME f.job[i].status # "DELIVERED", NEW m \in SourcesOf(i, f.job[i])
            PROVE  record[m] = f.record[m]
        <5>1. m \notin edits
          BY <2>1, <2>4, <4>1 DEF Invalidated
        <5>2. m \notin Changed(news)
          BY <1>8, <3>3, <5>1
        <5> QED
          BY <1>5, <3>2, <5>2
      <4> QED
        BY <4>1
    <3>6. f.job[i].status # "DELIVERED" =>
            {record[m] : m \in SourcesOf(i, f.job[i])} = {f.record[m] : m \in SourcesOf(i, f.job[i])}
      BY <3>5
    <3>7. JobFits(record, i, f.job[i])
      BY <1>7, <2>1, <2>4, <3>2, <3>4, <3>5, <3>6 DEF JobFits
    <3> QED
      BY <2>2, <2>4, <3>1, <3>7
  <2> QED
    BY <2>2, <2>3, <2>4
<1>10. ASSUME NEW m \in Messages
       PROVE  /\ job[Reply(m)] \in Jobs \cup {NoJob} /\ JobFits(record, Reply(m), job[Reply(m)])
              /\ Delivered(f, Reply(m)) => job[Reply(m)] = f.job[Reply(m)]
              /\ Mentions(sent, record, m) => Attends(job[Reply(m)])
  <2>1. Reply(m) \in JobIds /\ Reply(m) \notin MemberJobs /\ Reply(m)[2] = m
    BY Ids
  <2>2. f.job[Reply(m)] \in Jobs \cup {NoJob} /\ JobFits(f.record, Reply(m), f.job[Reply(m)])
    BY <1>7, <2>1
  <2>3. f.job[Reply(m)] # NoJob => /\ SourcesOf(Reply(m), f.job[Reply(m)]) = {m}
                                   /\ f.job[Reply(m)].trigger = m /\ f.record[m] # 0
    BY <2>1, <2>2 DEF JobFits, SourcesOf
  <2>4. CASE m \in Changed(news)
    <3> DEFINE u == Update(news, m)
    <3>1. job[Reply(m)] = Updated(f.job[Reply(m)], u)
      BY <2>1, <2>4
    <3>2. u \in Numbers /\ sent[u].message = m /\ record[m] = u
      BY <1>5, <2>4
    <3>3. f.job[Reply(m)] # NoJob => Edited(u)
      BY <1>8, <2>3, <2>4
    <3> HIDE DEF u, job
    <3>4. /\ Updated(f.job[Reply(m)], u) \in Jobs \cup {NoJob}
          /\ JobFits(record, Reply(m), Updated(f.job[Reply(m)], u))
          /\ f.job[Reply(m)] # NoJob /\ f.job[Reply(m)].status = "DELIVERED"
                => Updated(f.job[Reply(m)], u) = f.job[Reply(m)]
          /\ sent[u].text = "MENTION" => Attends(Updated(f.job[Reply(m)], u))
      BY <2>2, <3>2, <3>3, UpdatedFits
    <3> QED
      BY <3>1, <3>2, <3>4 DEF Delivered, Mentions
  <2>5. CASE m \notin Changed(news)
    <3>1. job[Reply(m)] = f.job[Reply(m)] /\ record[m] = f.record[m]
      BY <1>5, <2>1, <2>5
    <3> HIDE DEF job
    <3>2. JobFits(record, Reply(m), f.job[Reply(m)])
      BY <2>2, <2>3, <3>1 DEF JobFits
    <3> QED
      BY <1>5, <2>2, <3>1, <3>2 DEF MentionOK, Mentions
  <2> QED
    BY <2>4, <2>5
<1>11. ASSUME NEW i \in JobIds
       PROVE  /\ job[i] \in Jobs \cup {NoJob} /\ JobFits(record, i, job[i])
              /\ Delivered(f, i) => job[i] = f.job[i]
  <2> HIDE DEF job
  <2>1. CASE i \in MemberJobs
    BY <1>9, <2>1
  <2>2. CASE i \notin MemberJobs
    <3>1. i[2] \in Messages /\ i = Reply(i[2])
      BY <2>2, Ids
    <3> QED
      BY <1>10, <3>1
  <2> QED
    BY <2>1, <2>2
<1>12. job \in [JobIds -> Jobs \cup {NoJob}]
  BY <1>11
<1> HIDE DEF job
<1>13. g \in Files
  BY <1>0, <1>2, <1>6, <1>12 DEF Files
<1> HIDE DEF g
<1>14. Ahead(f, g)
  BY <1>2, <1>5, <1>11 DEF Ahead
<1>15. \A u \in Nat : u \in g.receipts \/ u \in 1..g.cursor => Covered(sent, g, u)
  <2>1. \A u \in Nat : u \in g.receipts \/ u \in 1..g.cursor => Covered(sent, f, u)
    BY <1>2 DEF FilesOK
  <2> QED
    BY <1>0, <1>13, <1>14, <2>1, CoveredOn
<1>16. ASSUME NEW m \in Messages PROVE RecordOK(sent, g, m) /\ MentionOK(sent, g, m)
  <2>1. MentionOK(sent, g, m)
    BY <1>2, <1>10 DEF MentionOK
  <2>2. RecordOK(sent, g, m)
    BY <1>2, <1>5 DEF RecordOK, Numbers
  <2> QED
    BY <2>1, <2>2
<1>17. ASSUME NEW n \in Newcomers PROVE WelcomedFirst(g, n)
  <2>1. {Welcome(n), Introduction(n)} \subseteq MemberJobs /\ MemberJobs \subseteq JobIds
    BY Ids
  <2>2. Introduced(g, n) => Introduced(f, n)
    BY <1>2, <1>9, <2>1 DEF Introduced
  <2>3. Delivered(f, Welcome(n)) => Delivered(g, Welcome(n))
    BY <1>2, <1>9, <2>1 DEF Delivered
  <2>4. WelcomedFirst(f, n)
    BY DEF FilesOK
  <2> QED
    BY <2>2, <2>3, <2>4 DEF WelcomedFirst
<1>18. FilesOK(sent, g)
  BY <1>2, <1>11, <1>13, <1>15, <1>16, <1>17 DEF FilesOK
<1>19. /\ FilesOK(sent, Reconciled(g)) /\ Ahead(g, Reconciled(g))
       /\ Reconciled(g).record = g.record /\ Reconciled(g) \in Files
  BY <1>18, ReconciledKeeps DEF FilesOK
<1>20. Ahead(f, Reconciled(g))
  BY <1>0, <1>13, <1>14, <1>19, AheadOn
<1>21. ASSUME NEW u \in page PROVE Covered(sent, Reconciled(g), u)
  <2>1. u \in 1..Len(sent) /\ sent[u] \in Updates /\ u \in Nat
    BY DEF Numbers
  <2>2. sent[u].message \in Messages
    BY <2>1 DEF Updates
  <2>3. record[sent[u].message] >= u
    <3>1. CASE sent[u].message \in Changed(news)
      <4>1. record[sent[u].message] \in news /\ sent[record[sent[u].message]].message = sent[u].message
        BY <1>5, <2>2, <3>1
      <4>2. u <= record[sent[u].message]
        BY <1>3, <4>1
      <4> QED
        BY <1>5, <2>1, <2>2, <4>2
    <3>2. CASE sent[u].message \notin Changed(news)
      BY <1>3, <1>5, <2>2, <3>2
    <3> QED
      BY <3>1, <3>2
  <2> QED
    BY <1>2, <1>19, <2>1, <2>3 DEF Covered
<1> QED
  BY <1>1, <1>19, <1>20, <1>21

-----------------------------------------------------------------------------
(* Delivery, receipts and the cursor                                       *)

\* A ready reply that is delivered, or expires.
LEMMA ClosedKeeps ==
    ASSUME NEW s, NEW f, FilesOK(s, f), NEW i \in JobIds,
           f.job[i] # NoJob, f.job[i].status = "READY",
           NEW status \in {"DELIVERED", "CANCELLED"},
           NEW g, g = [f EXCEPT !.job[i] = Closed(f.job[i], status)]
    PROVE  /\ FilesOK(s, g) /\ Ahead(f, g)
           /\ \A k \in JobIds \ {i} : g.job[k] = f.job[k]
<1> DEFINE h == [f.job EXCEPT ![i] = Closed(f.job[i], status)]
<1>0. f \in Files /\ f.job \in [JobIds -> Jobs \cup {NoJob}]
  BY DEF FilesOK, Files
<1>1. g = [f EXCEPT !.job = h]
  BY <1>0 DEF Files
<1>2. \A k \in JobIds : f.job[k] \in Jobs \cup {NoJob} /\ JobFits(f.record, k, f.job[k])
  BY <1>0 DEF FilesOK
<1>3. /\ Closed(f.job[i], status) \in Jobs /\ Closed(f.job[i], status) # NoJob
      /\ Closed(f.job[i], status).status = status
      /\ Closed(f.job[i], status).kind = f.job[i].kind
      /\ Closed(f.job[i], status).trigger = f.job[i].trigger
  BY <1>2, ClosedIs
<1>4. JobFits(f.record, i, Closed(f.job[i], status))
  <2>1. SourcesOf(i, Closed(f.job[i], status)) = SourcesOf(i, f.job[i])
    BY <1>3 DEF SourcesOf
  <2> QED
    BY <1>2, <1>3, <2>1 DEF JobFits
<1>5. /\ h \in [JobIds -> Jobs \cup {NoJob}]
      /\ h[i] = Closed(f.job[i], status) /\ \A k \in JobIds \ {i} : h[k] = f.job[k]
  BY <1>0, <1>3
<1> HIDE DEF h
<1>6. \A k \in JobIds : JobFits(f.record, k, h[k])
  BY <1>2, <1>4, <1>5
<1>7. \A k \in JobIds : Delivered(f, k) => h[k] = f.job[k]
  BY <1>5 DEF Delivered
<1>8. ASSUME NEW m \in Messages, Attends(f.job[Reply(m)]) PROVE Attends(h[Reply(m)])
  <2>1. Reply(m) \in JobIds
    BY Ids
  <2>2. CASE Reply(m) = i
    BY <1>3, <1>5, <1>8, <2>2 DEF Attends
  <2>3. CASE Reply(m) # i
    BY <1>5, <1>8, <2>1, <2>3
  <2> QED
    BY <2>2, <2>3
<1>9. ASSUME NEW n \in Newcomers,
             h[Introduction(n)] # NoJob, h[Introduction(n)].status \in {"READY", "DELIVERED"}
      PROVE  Introduced(f, n)
  <2>1. Introduction(n) \in JobIds
    BY Ids
  <2>2. CASE Introduction(n) = i
    BY <2>2 DEF Introduced
  <2>3. CASE Introduction(n) # i
    BY <1>5, <1>9, <2>1, <2>3 DEF Introduced
  <2> QED
    BY <2>2, <2>3
<1>10. FilesOK(s, [f EXCEPT !.job = h]) /\ Ahead(f, [f EXCEPT !.job = h])
  BY <1>5, <1>6, <1>7, <1>8, <1>9, JobsKeep
<1>11. g.job = h
  BY <1>0, <1>1 DEF Files
<1> QED
  BY <1>1, <1>5, <1>10, <1>11

\* A receipt, or the cursor, of what is recorded.
LEMMA MarkedKeeps ==
    ASSUME NEW s, NEW f, FilesOK(s, f), NEW g \in Files,
           g.record = f.record, g.job = f.job,
           \A u \in Nat : u \in g.receipts \/ u \in 1..g.cursor => Covered(s, f, u)
    PROVE  FilesOK(s, g) /\ Ahead(f, g) /\ Ahead(g, f)
<1>0. f \in Files
  BY DEF FilesOK
<1>1. Ahead(f, g) /\ Ahead(g, f)
  BY <1>0 DEF Ahead, Files, Delivered
<1>2. \A u \in Nat : u \in g.receipts \/ u \in 1..g.cursor => Covered(s, g, u)
  BY DEF Covered
<1>3. \A m \in Messages : RecordOK(s, g, m) /\ MentionOK(s, g, m)
  BY DEF FilesOK, RecordOK, MentionOK
<1>4. \A n \in Newcomers : WelcomedFirst(g, n)
  BY DEF FilesOK, WelcomedFirst, Introduced, Delivered
<1>5. \A i \in JobIds : JobFits(g.record, i, g.job[i])
  BY DEF FilesOK
<1> QED
  BY <1>1, <1>2, <1>3, <1>4, <1>5 DEF FilesOK

-----------------------------------------------------------------------------
(* The steps                                                               *)

LEMMA NothingYet ==
    ASSUME NEW s \in Seq(Updates)
    PROVE  NewFiles \in Files /\ FilesOK(s, NewFiles)
<1>1. NewFiles \in Files
  BY DEF NewFiles, Files
<1>2. \A m \in Messages : RecordOK(s, NewFiles, m) /\ MentionOK(s, NewFiles, m)
  BY DEF NewFiles, RecordOK, MentionOK, Mentions
<1>3. \A i \in JobIds : JobFits(NewFiles.record, i, NewFiles.job[i])
  BY DEF NewFiles, JobFits
<1>4. \A n \in Newcomers : WelcomedFirst(NewFiles, n)
  BY Ids DEF NewFiles, WelcomedFirst, Introduced
<1>5. \A u \in Nat : ~(u \in NewFiles.receipts \/ u \in 1..NewFiles.cursor)
  BY DEF NewFiles
<1> QED
  BY <1>1, <1>2, <1>3, <1>4, <1>5 DEF FilesOK

LEMMA OffIs ==
    ASSUME NEW s \in Seq(Updates), NEW polls
    PROVE  Off \in LocalRuns /\ Off.pc = "off" /\ LocalOK(s, polls, Off)
<1>1. NewFiles \in Files /\ FilesOK(s, NewFiles)
  BY NothingYet
<1>2. /\ Off \in LocalRuns /\ Off.pc = "off" /\ Off.files = NewFiles /\ Off.page = {}
      /\ Off.prepared = {}
  BY <1>1 DEF Off, LocalRuns
<1> QED
  BY <1>1, <1>2 DEF LocalOK

\* The invariant holds at first.
LEMMA InitMessages == ASSUME Init PROVE MessagesInv
<1>1. sent \in Seq(Updates) /\ sent = <<>>
  BY DEF Init
<1>2. NewFiles \in Files /\ FilesOK(sent, NewFiles)
  BY <1>1, NothingYet
<1>3. Off \in LocalRuns /\ Off.pc = "off" /\ LocalOK(sent, Polls, Off)
  BY <1>1, OffIs
<1>4. TypeOK
  BY <1>1, <1>2, <1>3 DEF Init, TypeOK
<1>5. \A r \in Runs : runs[r] = Off
  BY DEF Init
<1>6. branch = NewFiles /\ confirmed = 0
  BY DEF Init
<1> QED
  BY <1>2, <1>3, <1>4, <1>5, <1>6 DEF MessagesInv

\* What was true of files stays true when somebody posts.
LEMMA LongerKeeps ==
    ASSUME NEW s \in Seq(Updates), NEW e \in Updates
    PROVE  /\ \A f : FilesOK(s, f) => FilesOK(Append(s, e), f)
           /\ \A f, u : Covered(s, f, u) => Covered(Append(s, e), f, u)
           /\ \A polls, run : LocalOK(s, polls, run) => LocalOK(Append(s, e), polls, run)
<1> DEFINE t == Append(s, e)
<1>1. /\ Len(t) = Len(s) + 1 /\ Len(s) \in Nat
      /\ \A u \in 1..Len(s) : u \in 1..Len(t) /\ t[u] = s[u]
  OBVIOUS
<1> HIDE DEF t
<1>2. \A f, u : Covered(s, f, u) => Covered(t, f, u)
  BY <1>1 DEF Covered
<1>3. ASSUME NEW f, FilesOK(s, f) PROVE FilesOK(t, f)
  <2>1. \A m \in Messages : RecordOK(t, f, m) /\ MentionOK(t, f, m)
    BY <1>1, <1>3 DEF FilesOK, RecordOK, MentionOK, Mentions
  <2> QED
    BY <1>2, <1>3, <2>1 DEF FilesOK
<1>4. ASSUME NEW polls, NEW run, LocalOK(s, polls, run) PROVE LocalOK(t, polls, run)
  <2>1. run.page \subseteq 1..Len(t)
    BY <1>1, <1>4 DEF LocalOK
  <2> QED
    BY <1>2, <1>3, <1>4, <2>1 DEF LocalOK
<1> QED
  BY <1>2, <1>3, <1>4 DEF t

LEMMA PostKeeps ==
    ASSUME MessagesInv, NEW m \in Messages, NEW text \in Texts, Post(m, text)
    PROVE  MessagesInv'
<1> DEFINE e == [message |-> m, text |-> text]
<1>1. e \in Updates /\ sent \in Seq(Updates) /\ sent' = Append(sent, e)
  BY DEF Updates, Post, MessagesInv, TypeOK
<1>2. UNCHANGED <<setting, confirmed, branch, runs, fresh, faults>> /\ Polls' = Polls
  BY DEF Post, Polls
<1>3. TypeOK'
  BY <1>1, <1>2 DEF MessagesInv, TypeOK
<1> HIDE DEF e
<1>4. FilesOK(sent', branch)
  BY <1>1, LongerKeeps DEF MessagesInv
<1>5. \A u \in 1..confirmed : Covered(sent', branch, u)
  BY <1>1, LongerKeeps DEF MessagesInv
<1>6. \A r \in Runs : LocalOK(sent', Polls, runs[r])
  BY <1>1, LongerKeeps DEF MessagesInv
<1> QED
  BY <1>2, <1>3, <1>4, <1>5, <1>6 DEF MessagesInv

\* One run moves on, and the branch may move with it.
LEMMA RunMoves ==
    ASSUME MessagesInv, NEW r \in Runs, UNCHANGED chat,
           confirmed' \in Nat, faults' \in Nat,
           NEW here \in LocalRuns, LocalOK(sent, Polls, here), runs' = [runs EXCEPT ![r] = here],
           FilesOK(sent, branch'), \A u \in 1..confirmed' : Covered(sent, branch', u),
           fresh' \in [Runs -> BOOLEAN],
           \A o \in Runs \ {r} : fresh'[o] /\ runs[o].pc # "off" => Ahead(branch', runs[o].files),
           fresh'[r] /\ here.pc # "off" => Ahead(branch', here.files)
    PROVE  MessagesInv'
<1>1. sent' = sent /\ setting' = setting /\ Polls' = Polls
  BY DEF chat, Polls
<1>2. runs \in [Runs -> LocalRuns] /\ sent \in Seq(Updates) /\ setting \in Settings
  BY DEF MessagesInv, TypeOK
<1>3. runs' \in [Runs -> LocalRuns]
  BY <1>2
<1>4. runs'[r] = here /\ \A o \in Runs \ {r} : runs'[o] = runs[o]
  BY <1>2
<1>5. TypeOK'
  BY <1>1, <1>2, <1>3 DEF TypeOK, FilesOK
<1>6. \A o \in Runs : /\ LocalOK(sent, Polls, runs'[o])
                      /\ fresh'[o] /\ runs'[o].pc # "off" => Ahead(branch', runs'[o].files)
  BY <1>4 DEF MessagesInv
<1> QED
  BY <1>1, <1>5, <1>6 DEF MessagesInv

\* A run may hold whatever it last committed.
LEMMA CommitKeeps ==
    ASSUME NEW s, NEW polls, NEW here \in LocalRuns, LocalOK(s, polls, here), NEW files \in Files,
           NEW next, next = [here EXCEPT !.commit = files]
    PROVE  /\ next \in LocalRuns /\ LocalOK(s, polls, next)
           /\ next.pc = here.pc /\ next.files = here.files
<1>1. /\ next \in LocalRuns /\ next.pc = here.pc /\ next.files = here.files
      /\ next.page = here.page /\ next.webhook = here.webhook /\ next.prepared = here.prepared
  BY DEF LocalRuns
<1> QED
  BY <1>1 DEF LocalOK

\* What a run does that leaves the branch alone.
LEMMA RunAlone ==
    ASSUME MessagesInv, NEW r \in Runs, UNCHANGED <<chat, confirmed, branch>>, faults' \in Nat,
           NEW here \in LocalRuns, LocalOK(sent, Polls, here), runs' = [runs EXCEPT ![r] = here],
           UNCHANGED fresh \/ fresh' = [fresh EXCEPT ![r] = TRUE],
           fresh'[r] /\ here.pc # "off" => Ahead(branch, here.files)
    PROVE  MessagesInv'
<1>1. fresh \in [Runs -> BOOLEAN] /\ confirmed \in Nat
  BY DEF MessagesInv, TypeOK
<1>2. fresh' \in [Runs -> BOOLEAN] /\ \A o \in Runs \ {r} : fresh'[o] = fresh[o]
  BY <1>1
<1>3. /\ FilesOK(sent, branch') /\ \A u \in 1..confirmed' : Covered(sent, branch', u)
      /\ confirmed' \in Nat /\ branch' = branch /\ UNCHANGED chat
  BY <1>1 DEF MessagesInv
<1>4. \A o \in Runs \ {r} : fresh'[o] /\ runs[o].pc # "off" => Ahead(branch', runs[o].files)
  BY <1>2, <1>3 DEF MessagesInv
<1> QED
  BY <1>2, <1>3, <1>4, RunMoves

\* What a run does that pushes files ahead of the branch.
LEMMA RunPushes ==
    ASSUME MessagesInv, NEW r \in Runs, UNCHANGED <<chat, confirmed>>, faults' \in Nat,
           NEW here \in LocalRuns, LocalOK(sent, Polls, here), runs' = [runs EXCEPT ![r] = here],
           FilesOK(sent, branch'), Ahead(branch, branch'),
           fresh' = [o \in Runs |-> o = r \/ runs[o].pc = "off"],
           here.pc # "off" => Ahead(branch', here.files)
    PROVE  MessagesInv'
<1>1. confirmed \in Nat /\ sent \in Seq(Updates) /\ branch \in Files /\ branch' \in Files
  BY DEF MessagesInv, TypeOK, FilesOK
<1>2. \A u \in 1..confirmed' : Covered(sent, branch', u)
  BY <1>1, CoveredOn DEF MessagesInv
<1>3. fresh' \in [Runs -> BOOLEAN] /\ \A o \in Runs \ {r} : ~(fresh'[o] /\ runs[o].pc # "off")
  OBVIOUS
<1> QED
  BY <1>1, <1>2, <1>3, RunMoves

\* A failure is counted.
LEMMA ProceedIs ==
    ASSUME MessagesInv, NEW r, NEW then, NEW well, Proceed(r, then, well)
    PROVE  runs' = [runs EXCEPT ![r] = then] /\ faults' \in Nat
BY DEF Proceed, MessagesInv, TypeOK

\* The end of a run, which leaves what it has not pushed.
LEMMA EndKeeps ==
    ASSUME MessagesInv, NEW r \in Runs, End(r), UNCHANGED <<chat, confirmed, branch>>
    PROVE  MessagesInv'
<1>1. runs' = [runs EXCEPT ![r] = Off] /\ faults' \in Nat /\ fresh' = [fresh EXCEPT ![r] = TRUE]
  BY ProceedIs DEF End
<1>2. Off \in LocalRuns /\ Off.pc = "off" /\ LocalOK(sent, Polls, Off)
  BY OffIs DEF MessagesInv, TypeOK
<1> QED
  BY <1>1, <1>2, RunAlone

\* The checkpoint script keeps the invariant when what it pushes is in order
\* and ahead of what the run had, and what the run goes on with is ahead of that.
LEMMA CheckpointKeeps ==
    ASSUME MessagesInv, NEW r \in Runs, runs[r].pc # "off", UNCHANGED <<chat, confirmed>>,
           NEW files, FilesOK(sent, files), Ahead(runs[r].files, files),
           NEW next \in LocalRuns, LocalOK(sent, Polls, next),
           next.pc # "off" => Ahead(files, next.files),
           NEW otherwise \in LocalRuns, LocalOK(sent, Polls, otherwise),
           otherwise.pc # "off" => Ahead(files, otherwise.files),
           Checkpoint(r, files, next, otherwise)
    PROVE  MessagesInv' /\ (branch' = branch \/ Ahead(branch, branch'))
<1> DEFINE Committed(run) == IF run = Off THEN Off ELSE [run EXCEPT !.commit = files]
<1>0. /\ files \in Files /\ branch \in Files /\ runs[r] \in LocalRuns /\ runs[r].files \in Files
      /\ sent \in Seq(Updates)
  BY DEF FilesOK, MessagesInv, TypeOK, LocalRuns
<1>1. Off \in LocalRuns /\ Off.pc = "off" /\ LocalOK(sent, Polls, Off)
  BY <1>0, OffIs
<1>2. ASSUME NEW run \in {next, otherwise}
      PROVE  /\ run \in LocalRuns /\ LocalOK(sent, Polls, run)
             /\ run.pc # "off" => Ahead(files, run.files)
             /\ Committed(run) \in LocalRuns /\ LocalOK(sent, Polls, Committed(run))
             /\ Committed(run).pc # "off" => Ahead(files, Committed(run).files)
  <2>1. /\ run \in LocalRuns /\ LocalOK(sent, Polls, run)
        /\ run.pc # "off" => Ahead(files, run.files)
    OBVIOUS
  <2>2. CASE run = Off
    BY <1>1, <2>1, <2>2
  <2>3. CASE run # Off
    <3> DEFINE c == [run EXCEPT !.commit = files]
    <3>1. /\ c \in LocalRuns /\ LocalOK(sent, Polls, c) /\ c.pc = run.pc /\ c.files = run.files
      BY <1>0, <2>1, CommitKeeps
    <3>2. Committed(run) = c
      BY <2>3
    <3> QED
      BY <2>1, <3>1, <3>2
  <2> QED
    BY <2>2, <2>3
<1>3. ASSUME fresh[r] PROVE Ahead(branch, files)
  <2>1. Ahead(branch, runs[r].files)
    BY <1>3 DEF MessagesInv
  <2> QED
    BY <1>0, <2>1, AheadOn
<1>4. ASSUME fresh[r], NEW run \in LocalRuns, run.pc # "off" => Ahead(files, run.files)
      PROVE  run.pc # "off" => Ahead(branch, run.files)
  <2>1. run.files \in Files
    BY DEF LocalRuns
  <2> QED
    BY <1>0, <1>3, <1>4, <2>1, AheadOn
<1>5. CASE /\ files = runs[r].commit
           /\ Proceed(r, next, {next})
           /\ UNCHANGED <<branch, fresh>>
  <2>1. runs' = [runs EXCEPT ![r] = next] /\ faults' \in Nat
    BY <1>5, ProceedIs
  <2>2. fresh[r] /\ next.pc # "off" => Ahead(branch, next.files)
    BY <1>4
  <2> QED
    BY <1>5, <2>1, <2>2, RunAlone
<1>6. CASE /\ fresh[r]
           /\ branch' = files
           /\ fresh' = [o \in Runs |-> o = r \/ runs[o].pc = "off"]
           /\ \E run \in {next, otherwise} : Proceed(r, Committed(run), {Committed(next)})
  <2>1. PICK run \in {next, otherwise} : Proceed(r, Committed(run), {Committed(next)})
    BY <1>6
  <2> HIDE DEF Committed
  <2>2. runs' = [runs EXCEPT ![r] = Committed(run)] /\ faults' \in Nat
    BY <2>1, ProceedIs
  <2>3. Ahead(branch, branch') /\ FilesOK(sent, branch')
    BY <1>3, <1>6
  <2>4. MessagesInv'
    BY <1>2, <1>6, <2>2, <2>3, RunPushes
  <2> QED
    BY <2>3, <2>4
<1>7. CASE /\ fresh[r]
           /\ \E run \in {otherwise, Committed(otherwise)} : Proceed(r, run, {})
           /\ UNCHANGED <<branch, fresh>>
  <2>1. PICK run \in {otherwise, Committed(otherwise)} : Proceed(r, run, {})
    BY <1>7
  <2> HIDE DEF Committed
  <2>2. runs' = [runs EXCEPT ![r] = run] /\ faults' \in Nat
    BY <2>1, ProceedIs
  <2>3. /\ run \in LocalRuns /\ LocalOK(sent, Polls, run)
        /\ run.pc # "off" => Ahead(files, run.files)
    BY <1>2
  <2>4. run.pc # "off" => Ahead(branch, run.files)
    BY <1>4, <1>7, <2>3
  <2> QED
    BY <1>7, <2>2, <2>3, <2>4, RunAlone
<1>8. CASE End(r) /\ UNCHANGED branch
  BY <1>8, EndKeeps
<1> QED
  BY <1>5, <1>6, <1>7, <1>8 DEF Checkpoint

\* What a run is like, and what it holds while the branch is as it was.
LEMMA HereIs ==
    ASSUME MessagesInv, NEW r \in Runs
    PROVE  /\ runs[r] \in LocalRuns /\ LocalOK(sent, Polls, runs[r])
           /\ runs[r].files \in Files /\ FilesOK(sent, runs[r].files)
           /\ sent \in Seq(Updates) /\ branch \in Files /\ FilesOK(sent, branch)
           /\ fresh[r] /\ runs[r].pc # "off" => Ahead(branch, runs[r].files)
BY DEF MessagesInv, TypeOK, LocalOK, FilesOK

LEMMA BeginKeeps ==
    ASSUME MessagesInv, NEW r \in Runs, NEW clone \in LocalRuns, LocalOK(sent, Polls, clone),
           Ahead(branch, clone.files), Begin(r, clone),
           confirmed' \in Nat, \A u \in 1..confirmed' : Covered(sent, branch, u)
    PROVE  MessagesInv' /\ branch' = branch
<1>1. /\ runs' = [runs EXCEPT ![r] = clone] /\ fresh' = [fresh EXCEPT ![r] = TRUE]
      /\ UNCHANGED <<chat, branch, faults>>
  BY DEF Begin
<1>2. faults' \in Nat /\ fresh \in [Runs -> BOOLEAN]
  BY <1>1 DEF MessagesInv, TypeOK
<1>3. fresh' \in [Runs -> BOOLEAN] /\ \A o \in Runs \ {r} : fresh'[o] = fresh[o]
  BY <1>1, <1>2
<1>4. \A o \in Runs \ {r} : fresh'[o] /\ runs[o].pc # "off" => Ahead(branch', runs[o].files)
  BY <1>1, <1>3 DEF MessagesInv
<1>5. FilesOK(sent, branch') /\ \A u \in 1..confirmed' : Covered(sent, branch', u)
  BY <1>1 DEF MessagesInv
<1>6. UNCHANGED chat /\ branch' = branch
  BY <1>1
<1> QED
  BY <1>1, <1>2, <1>3, <1>4, <1>5, <1>6, RunMoves

\* The clone with which a run begins.
LEMMA CloneIs ==
    ASSUME branch \in Files
    PROVE  /\ Clone \in LocalRuns /\ Clone.files = branch
           /\ Clone.page = {} /\ Clone.webhook = {} /\ Clone.prepared = {}
<1>1. /\ Off \in LocalRuns /\ Off.page = {} /\ Off.webhook = {} /\ Off.prepared = {}
  <2>1. <<>> \in Seq(Updates)
    OBVIOUS
  <2>2. Off \in LocalRuns
    BY <2>1, OffIs
  <2> QED
    BY <2>2 DEF Off
<1> QED
  BY <1>1 DEF Clone, LocalRuns

LEMMA StartTickKeeps ==
    ASSUME MessagesInv, NEW r \in Runs, StartTick(r)
    PROVE  MessagesInv' /\ branch' = branch
<1> DEFINE top == Max({branch.cursor, confirmed})
           page == {u \in Numbers : u > top}
           f == Persisted(branch, page)
           clone == [Clone EXCEPT !.page = page, !.files = f, !.pc = "messages"]
<1>1. /\ sent \in Seq(Updates) /\ branch \in Files /\ FilesOK(sent, branch) /\ confirmed \in Nat
      /\ \A u \in 1..confirmed : Covered(sent, branch, u)
  BY HereIs DEF MessagesInv, TypeOK
<1>2. branch.cursor \in Nat
  BY <1>1 DEF Files
<1>3. top \in {branch.cursor, confirmed} /\ branch.cursor <= top /\ confirmed <= top
  BY <1>1, <1>2, MaxOfTwo
<1>4. Max({confirmed, branch.cursor}) \in {confirmed, branch.cursor}
  BY <1>1, <1>2, MaxOfTwo
<1>5. Polls /\ Begin(r, clone) /\ confirmed' = Max({confirmed, branch.cursor})
  BY DEF StartTick
<1>6. \A u \in Nat : u \in 1..branch.cursor => Covered(sent, branch, u)
  BY <1>1 DEF FilesOK
<1>7. page \subseteq Numbers /\ page \in SUBSET Nat
  BY DEF Numbers
<1>8. ASSUME NEW u \in Numbers, u \notin page PROVE Covered(sent, branch, u)
  <2>1. u \in Nat /\ u >= 1 /\ u <= top
    BY <1>1, <1>2, <1>3, <1>8 DEF Numbers
  <2> HIDE DEF top
  <2>2. u \in 1..branch.cursor \/ u \in 1..confirmed
    BY <1>1, <1>2, <1>3, <2>1
  <2> QED
    BY <1>1, <1>6, <2>1, <2>2
<1> HIDE DEF page
<1>9. /\ FilesOK(sent, f) /\ Ahead(branch, f) /\ f \in Files
      /\ \A u \in page : Covered(sent, f, u)
  BY <1>1, <1>7, PersistedKeeps DEF FilesOK
<1>10. \A u \in Numbers : Covered(sent, f, u)
  BY <1>1, <1>8, <1>9, CoveredOn
<1> HIDE DEF f
<1>11. /\ Clone \in LocalRuns /\ Clone.page = {} /\ Clone.webhook = {} /\ Clone.prepared = {}
  BY <1>1, CloneIs
<1>12. /\ clone \in LocalRuns /\ clone.pc = "messages" /\ clone.files = f /\ clone.page = page
       /\ clone.webhook = {} /\ clone.prepared = {}
  BY <1>7, <1>9, <1>11 DEF LocalRuns
<1> HIDE DEF clone
<1>13. \A v \in page : \A u \in 1..v : u \in Numbers
  BY <1>1, <1>7 DEF Numbers
<1>14. LocalOK(sent, Polls, clone)
  BY <1>7, <1>9, <1>10, <1>12, <1>13 DEF LocalOK, Numbers
<1>15. confirmed' \in Nat /\ \A u \in 1..confirmed' : Covered(sent, branch, u)
  <2>1. confirmed' = confirmed \/ confirmed' = branch.cursor
    BY <1>4, <1>5
  <2> QED
    BY <1>1, <1>2, <1>6, <2>1
<1> QED
  BY <1>5, <1>9, <1>12, <1>14, <1>15, BeginKeeps

LEMMA StartMaintenanceKeeps ==
    ASSUME MessagesInv, NEW r \in Runs, StartMaintenance(r)
    PROVE  MessagesInv' /\ branch' = branch
<1> DEFINE clone == [Clone EXCEPT !.pc = "prepare"]
<1>1. branch \in Files /\ FilesOK(sent, branch) /\ confirmed \in Nat
  BY HereIs DEF MessagesInv, TypeOK
<1>2. /\ Clone \in LocalRuns /\ Clone.files = branch
      /\ Clone.page = {} /\ Clone.webhook = {} /\ Clone.prepared = {}
  BY <1>1, CloneIs
<1>3. /\ clone \in LocalRuns /\ clone.pc = "prepare" /\ clone.files = branch /\ clone.page = {}
      /\ clone.webhook = {} /\ clone.prepared = {}
  BY <1>2 DEF LocalRuns
<1>4. Begin(r, clone) /\ confirmed' = confirmed
  BY DEF StartMaintenance
<1> HIDE DEF clone
<1>5. LocalOK(sent, Polls, clone)
  BY <1>1, <1>3 DEF LocalOK
<1>6. Ahead(branch, clone.files)
  BY <1>1, <1>3, AheadOfItself
<1>7. confirmed' \in Nat /\ \A u \in 1..confirmed' : Covered(sent, branch, u)
  BY <1>1, <1>4 DEF MessagesInv
<1> QED
  BY <1>3, <1>4, <1>5, <1>6, <1>7, BeginKeeps

LEMMA StartWebhookKeeps ==
    ASSUME MessagesInv, NEW r \in Runs, NEW u \in Numbers, StartWebhook(r, u)
    PROVE  MessagesInv' /\ branch' = branch
<1> DEFINE f == Persisted(branch, {u})
           clone == [Clone EXCEPT !.files = f, !.page = {u}, !.webhook = {u}, !.pc = "messages"]
<1>1. sent \in Seq(Updates) /\ branch \in Files /\ FilesOK(sent, branch) /\ confirmed \in Nat
  BY HereIs DEF MessagesInv, TypeOK
<1>2. {u} \subseteq Numbers /\ {u} \in SUBSET Nat
  BY DEF Numbers
<1>3. /\ FilesOK(sent, f) /\ Ahead(branch, f) /\ f \in Files /\ Covered(sent, f, u)
  BY <1>1, <1>2, PersistedKeeps DEF FilesOK
<1>4. ~Polls /\ Begin(r, clone) /\ confirmed' = confirmed
  BY DEF StartWebhook
<1> HIDE DEF f
<1>5. /\ Clone \in LocalRuns /\ Clone.page = {} /\ Clone.webhook = {} /\ Clone.prepared = {}
  BY <1>1, CloneIs
<1>6. /\ clone \in LocalRuns /\ clone.pc = "messages" /\ clone.files = f /\ clone.page = {u}
      /\ clone.webhook = {u} /\ clone.prepared = {}
  BY <1>2, <1>3, <1>5 DEF LocalRuns
<1> HIDE DEF clone
<1>7. LocalOK(sent, Polls, clone)
  BY <1>2, <1>3, <1>4, <1>6 DEF LocalOK, Numbers
<1>8. confirmed' \in Nat /\ \A v \in 1..confirmed' : Covered(sent, branch, v)
  BY <1>1, <1>4 DEF MessagesInv
<1> QED
  BY <1>3, <1>4, <1>6, <1>7, <1>8, BeginKeeps

\* The entry decision and the checkpoint of what was taken in.
LEMMA DecideKeeps ==
    ASSUME MessagesInv, NEW r \in Runs, Decide(r)
    PROVE  MessagesInv' /\ (branch' = branch \/ Ahead(branch, branch'))
<1> DEFINE here == runs[r]
           next == [here EXCEPT !.pc = IF Polls THEN "cursor" ELSE "prepare",
                                !.page = IF Polls THEN here.page ELSE {}]
           failed == IF Polls THEN [here EXCEPT !.page = {}, !.pc = "prepare"] ELSE Off
           Received(f) == [f EXCEPT !.receipts = f.receipts \cup here.webhook]
           decided == IF setting.entry
                      THEN Decided(here.files, Candidates(here.files, here.page))
                      ELSE {here.files}
<1>1. /\ here \in LocalRuns /\ LocalOK(sent, Polls, here) /\ here.files \in Files
      /\ FilesOK(sent, here.files) /\ sent \in Seq(Updates) /\ branch \in Files
      /\ fresh[r] /\ here.pc # "off" => Ahead(branch, here.files)
  BY HereIs
<1>2. here.pc = "messages" /\ UNCHANGED <<chat, confirmed>>
  BY DEF Decide
<1>3. \/ \E f \in decided :
            Checkpoint(r, Received(f), [next EXCEPT !.files = Received(f)],
                       IF Polls THEN [failed EXCEPT !.files = f] ELSE Off)
      \/ /\ setting.entry
         /\ Proceed(r, failed, {})
         /\ UNCHANGED <<branch, fresh>>
  BY DEF Decide
<1>4. Off \in LocalRuns /\ Off.pc = "off" /\ LocalOK(sent, Polls, Off)
  BY <1>1, OffIs
<1>5. /\ here.prepared = {} /\ here.webhook \in SUBSET Nat /\ here.page \subseteq 1..Len(sent)
      /\ \A u \in here.webhook : Covered(sent, here.files, u)
      /\ Polls => \A v \in here.page : \A u \in 1..v : Covered(sent, here.files, u)
  BY <1>1, <1>2 DEF LocalOK, LocalRuns
<1>6. ASSUME NEW f \in Files, FilesOK(sent, f), Polls
      PROVE  LET run == [[here EXCEPT !.page = {}, !.pc = "prepare"] EXCEPT !.files = f] IN
             run \in LocalRuns /\ LocalOK(sent, Polls, run) /\ run.files = f
  <2> DEFINE run == [[here EXCEPT !.page = {}, !.pc = "prepare"] EXCEPT !.files = f]
  <2>1. /\ run \in LocalRuns /\ run.pc = "prepare" /\ run.files = f /\ run.page = {}
        /\ run.prepared = here.prepared
    BY <1>1, <1>6 DEF LocalRuns
  <2> HIDE DEF run
  <2>2. LocalOK(sent, Polls, run)
    BY <1>5, <1>6, <2>1 DEF LocalOK
  <2> QED
    BY <2>1, <2>2 DEF run
<1>7. CASE Proceed(r, failed, {}) /\ UNCHANGED <<branch, fresh>>
  <2>1. runs' = [runs EXCEPT ![r] = failed] /\ faults' \in Nat
    <3> HIDE DEF failed
    <3> QED
      BY <1>7, ProceedIs
  <2>2. /\ failed \in LocalRuns /\ LocalOK(sent, Polls, failed)
        /\ failed.pc # "off" => failed.files = here.files
    <3>1. CASE Polls
      <4> DEFINE run == [[here EXCEPT !.page = {}, !.pc = "prepare"] EXCEPT !.files = here.files]
      <4>1. failed = run
        BY <1>1, <3>1 DEF LocalRuns
      <4>2. run \in LocalRuns /\ LocalOK(sent, Polls, run) /\ run.files = here.files
        BY <1>1, <1>6, <3>1
      <4> QED
        BY <4>1, <4>2
    <3>2. CASE ~Polls
      BY <1>4, <3>2
    <3> QED
      BY <3>1, <3>2
  <2> HIDE DEF failed
  <2>3. fresh'[r] /\ failed.pc # "off" => Ahead(branch, failed.files)
    BY <1>1, <1>2, <1>7, <2>2
  <2> QED
    BY <1>2, <1>7, <2>1, <2>2, <2>3, RunAlone
<1>8. CASE \E f \in decided :
              Checkpoint(r, Received(f), [next EXCEPT !.files = Received(f)],
                         IF Polls THEN [failed EXCEPT !.files = f] ELSE Off)
  <2>1. PICK f \in decided :
               Checkpoint(r, Received(f), [next EXCEPT !.files = Received(f)],
                          IF Polls THEN [failed EXCEPT !.files = f] ELSE Off)
    BY <1>8
  <2> DEFINE g == Received(f)
             on == [next EXCEPT !.files = g]
             otherwise == IF Polls THEN [failed EXCEPT !.files = f] ELSE Off
  <2>2. FilesOK(sent, f) /\ Ahead(here.files, f) /\ f \in Files
    <3>1. CASE setting.entry
      <4>1. f \in Decided(here.files, Candidates(here.files, here.page))
        BY <2>1, <3>1
      <4> QED
        BY <1>1, <4>1, DecidedKeeps DEF FilesOK
    <3>2. CASE ~setting.entry
      BY <1>1, <2>1, <3>2, AheadOfItself
    <3> QED
      BY <3>1, <3>2
  <2>3. /\ g \in Files /\ g.record = f.record /\ g.job = f.job /\ g.cursor = f.cursor
        /\ g.receipts = f.receipts \cup here.webhook
    BY <1>5, <2>2 DEF Files
  <2>4. \A u : Covered(sent, here.files, u) => Covered(sent, f, u)
    BY <1>1, <2>2, CoveredOn
  <2> HIDE DEF g
  <2>5. \A u \in Nat : u \in g.receipts \/ u \in 1..g.cursor => Covered(sent, f, u)
    BY <1>5, <2>2, <2>3, <2>4 DEF FilesOK
  <2>6. FilesOK(sent, g) /\ Ahead(f, g) /\ Ahead(g, f)
    BY <2>2, <2>3, <2>5, MarkedKeeps
  <2>7. Ahead(here.files, g)
    BY <1>1, <2>2, <2>3, <2>6, AheadOn
  <2>8. on \in LocalRuns /\ LocalOK(sent, Polls, on) /\ on.files = g
    <3>1. /\ on \in LocalRuns /\ on.files = g /\ on.prepared = here.prepared
          /\ on.pc = IF Polls THEN "cursor" ELSE "prepare"
          /\ on.page = IF Polls THEN here.page ELSE {}
      BY <1>1, <2>3 DEF LocalRuns
    <3>2. \A u : Covered(sent, here.files, u) => Covered(sent, g, u)
      BY <1>1, <2>3, <2>7, CoveredOn
    <3> HIDE DEF on
    <3>3. on.page \subseteq 1..Len(sent) /\ on.prepared = {} /\ on.pc \in {"cursor", "prepare"}
      BY <1>5, <3>1
    <3>4. on.pc = "cursor" => \A v \in on.page : \A u \in 1..v : Covered(sent, g, u)
      BY <1>5, <3>1, <3>2
    <3> QED
      BY <2>6, <3>1, <3>3, <3>4 DEF LocalOK
  <2>9. /\ otherwise \in LocalRuns /\ LocalOK(sent, Polls, otherwise)
        /\ otherwise.pc # "off" => otherwise.files = f
    <3>1. CASE Polls
      <4>1. otherwise = [[here EXCEPT !.page = {}, !.pc = "prepare"] EXCEPT !.files = f]
        BY <3>1
      <4> QED
        BY <1>6, <2>2, <3>1, <4>1
    <3>2. CASE ~Polls
      BY <1>4, <3>2
    <3> QED
      BY <3>1, <3>2
  <2>10. Checkpoint(r, g, on, otherwise)
    BY <2>1 DEF g
  <2> HIDE DEF on, otherwise
  <2>11. Ahead(g, g)
    BY <2>3, AheadOfItself
  <2> QED
    BY <1>1, <1>2, <2>6, <2>7, <2>8, <2>9, <2>10, <2>11, CheckpointKeeps
<1> QED
  BY <1>3, <1>7, <1>8

\* The cursor is moved to the end of the page, which is recorded.
LEMMA PushCursorKeeps ==
    ASSUME MessagesInv, NEW r \in Runs, PushCursor(r)
    PROVE  MessagesInv' /\ (branch' = branch \/ Ahead(branch, branch'))
<1> DEFINE here == runs[r]
           f == here.files
           cursor == Max({f.cursor} \cup here.page)
           g == [f EXCEPT !.cursor = cursor]
           next == [here EXCEPT !.files.cursor = cursor, !.page = {}, !.pc = "prepare"]
<1>1. /\ here \in LocalRuns /\ LocalOK(sent, Polls, here) /\ f \in Files
      /\ FilesOK(sent, f) /\ sent \in Seq(Updates)
  BY HereIs
<1>2. here.pc = "cursor" /\ UNCHANGED <<chat, confirmed>>
  BY DEF PushCursor
<1>3. Checkpoint(r, next.files, next, next)
  BY DEF PushCursor
<1>4. /\ here.page \subseteq 1..Len(sent) /\ here.prepared = {}
      /\ \A v \in here.page : \A u \in 1..v : Covered(sent, f, u)
  BY <1>1, <1>2 DEF LocalOK
<1>5. cursor \in {f.cursor} \cup here.page /\ cursor \in Nat
  <2>1. f.cursor \in Nat /\ Len(sent) \in Nat
    BY <1>1 DEF Files
  <2>2. {f.cursor} \cup here.page \subseteq 0..(f.cursor + Len(sent)) /\ f.cursor + Len(sent) \in Nat
    BY <1>4, <2>1
  <2>3. cursor \in {f.cursor} \cup here.page
    BY <2>2, MaxIs
  <2> QED
    BY <2>2, <2>3
<1> HIDE DEF cursor
<1>6. /\ g \in Files /\ g.record = f.record /\ g.job = f.job /\ g.receipts = f.receipts
      /\ g.cursor = cursor
  BY <1>1, <1>5 DEF Files
<1>7. /\ next \in LocalRuns /\ next.files = g /\ next.pc = "prepare" /\ next.page = {}
      /\ next.prepared = here.prepared
  <2>1. next = [here EXCEPT !.files = g, !.page = {}, !.pc = "prepare"]
    OBVIOUS
  <2> HIDE DEF next, g
  <2> QED
    BY <1>1, <1>6, <2>1 DEF LocalRuns
<1> HIDE DEF next, g
<1>8. \A u \in Nat : u \in g.receipts \/ u \in 1..g.cursor => Covered(sent, f, u)
  BY <1>1, <1>4, <1>5, <1>6 DEF FilesOK
<1>9. FilesOK(sent, g) /\ Ahead(f, g) /\ Ahead(g, g)
  BY <1>1, <1>6, <1>8, MarkedKeeps, AheadOfItself
<1>10. LocalOK(sent, Polls, next)
  BY <1>4, <1>7, <1>9 DEF LocalOK
<1>11. Checkpoint(r, g, next, next)
  BY <1>3, <1>7
<1> QED
  BY <1>2, <1>7, <1>9, <1>10, <1>11, CheckpointKeeps

\* The replies are prepared from the records of the clone.
LEMMA PrepareRepliesKeeps ==
    ASSUME MessagesInv, NEW r \in Runs, PrepareReplies(r)
    PROVE  MessagesInv' /\ (branch' = branch \/ Ahead(branch, branch'))
<1> DEFINE here == runs[r]
           f == Reconciled(here.files)
           all == Actionable(f)
           urgent == {i \in all : i \in MemberJobs \/ f.job[i].status = "READY"}
<1>1. /\ here \in LocalRuns /\ LocalOK(sent, Polls, here) /\ here.files \in Files
      /\ FilesOK(sent, here.files) /\ sent \in Seq(Updates)
  BY HereIs
<1>2. here.pc = "prepare" /\ UNCHANGED <<chat, confirmed>>
  BY DEF PrepareReplies
<1>3. /\ FilesOK(sent, f) /\ Ahead(here.files, f) /\ f \in Files
  BY <1>1, ReconciledKeeps DEF FilesOK
<1> DEFINE Goes(todo, job) ==
         LET files == [f EXCEPT !.job = job]
             next == [here EXCEPT !.files = files, !.pc = "deliver",
                         !.prepared = {i \in todo : job[i].status = "READY"}]
         IN  Checkpoint(r, files, next, IF here.webhook = {} THEN next ELSE Off)
<1>4. PICK todo \in {all, urgent} : \E job \in Prepared(f, todo) : Goes(todo, job)
  BY DEF PrepareReplies
<1>5. PICK job \in Prepared(f, todo) : Goes(todo, job)
  BY <1>4
<1> DEFINE files == [f EXCEPT !.job = job]
           ready == {i \in todo : job[i].status = "READY"}
           next == [here EXCEPT !.files = files, !.pc = "deliver", !.prepared = ready]
           otherwise == IF here.webhook = {} THEN next ELSE Off
<1>6. Checkpoint(r, files, next, otherwise)
  BY <1>5
<1>7. todo \in SUBSET Actionable(f)
  OBVIOUS
<1> HIDE DEF f
<1>8. /\ FilesOK(sent, files) /\ Ahead(f, files)
      /\ \A i \in todo : i \in JobIds /\ job[i] # NoJob
  BY <1>3, <1>7, <1>5, PreparedKeeps
<1>9. files \in Files /\ files.job = job
  BY <1>3, <1>8 DEF FilesOK, Files
<1>10. Ahead(here.files, files) /\ Ahead(files, files)
  <2> HIDE DEF files
  <2> QED
    BY <1>1, <1>3, <1>8, <1>9, AheadOn, AheadOfItself
<1>11. /\ ready \in SUBSET JobIds
       /\ \A i \in ready : files.job[i] # NoJob /\ files.job[i].status = "READY"
  <2> HIDE DEF files
  <2> QED
    BY <1>8, <1>9
<1> HIDE DEF files, ready
<1>12. /\ next \in LocalRuns /\ next.files = files /\ next.pc = "deliver"
       /\ next.page = here.page /\ next.prepared = ready
  BY <1>1, <1>9, <1>11 DEF LocalRuns
<1> HIDE DEF next
<1>13. here.page \subseteq 1..Len(sent)
  BY <1>1 DEF LocalOK
<1>14. LocalOK(sent, Polls, next)
  BY <1>8, <1>11, <1>12, <1>13 DEF LocalOK
<1>15. /\ otherwise \in LocalRuns /\ LocalOK(sent, Polls, otherwise)
       /\ otherwise.pc # "off" => otherwise.files = files
  <2>1. Off \in LocalRuns /\ Off.pc = "off" /\ LocalOK(sent, Polls, Off)
    BY <1>1, OffIs
  <2> QED
    BY <1>12, <1>14, <2>1
<1> HIDE DEF otherwise
<1> QED
  BY <1>2, <1>6, <1>8, <1>10, <1>12, <1>14, <1>15, CheckpointKeeps

\* A prepared reply is delivered, expires or stays ready.
LEMMA DeliverKeeps ==
    ASSUME MessagesInv, NEW r \in Runs, Deliver(r)
    PROVE  MessagesInv' /\ (branch' = branch \/ Ahead(branch, branch'))
<1> DEFINE here == runs[r]
           i == CHOOSE i \in here.prepared : TRUE
           outcomes == {here.files}
                       \cup (IF i \in MemberJobs THEN {Expired(here.files, i)} ELSE {})
                       \cup (IF Active(here.files, i) THEN {Published(here.files, i)} ELSE {})
           Then(f) == [here EXCEPT !.files = f, !.commit = f, !.prepared = here.prepared \ {i}]
<1>1. /\ here \in LocalRuns /\ LocalOK(sent, Polls, here) /\ here.files \in Files
      /\ FilesOK(sent, here.files) /\ sent \in Seq(Updates) /\ branch \in Files
      /\ fresh[r] /\ here.pc # "off" => Ahead(branch, here.files)
  BY HereIs
<1>2. here.pc = "deliver" /\ here.prepared # {} /\ UNCHANGED <<chat, confirmed>>
  BY DEF Deliver
<1>3. \/ /\ fresh[r]
         /\ \E f \in outcomes : branch' = f /\ Proceed(r, Then(f), {Then(f)})
         /\ fresh' = [o \in Runs |-> o = r \/ runs[o].pc = "off"]
      \/ /\ Proceed(r, [here EXCEPT !.prepared = here.prepared \ {i}], {})
         /\ UNCHANGED <<branch, fresh>>
      \/ /\ End(r)
         /\ UNCHANGED branch
  BY DEF Deliver
<1>4. /\ i \in here.prepared /\ i \in JobIds /\ here.prepared \in SUBSET JobIds
      /\ here.page \subseteq 1..Len(sent)
      /\ \A k \in here.prepared : here.files.job[k] # NoJob /\ here.files.job[k].status = "READY"
  BY <1>1, <1>2 DEF LocalOK, LocalRuns
<1> HIDE DEF i
<1>5. ASSUME NEW f \in outcomes
      PROVE  /\ FilesOK(sent, f) /\ Ahead(here.files, f) /\ f \in Files
             /\ \A k \in JobIds \ {i} : f.job[k] = here.files.job[k]
  <2>1. \/ f = here.files
        \/ f = [here.files EXCEPT !.job[i] = Closed(here.files.job[i], "CANCELLED")]
        \/ f = [here.files EXCEPT !.job[i] = Closed(here.files.job[i], "DELIVERED")]
    BY DEF Expired, Published
  <2>2. CASE f = here.files
    BY <1>1, <2>2, AheadOfItself
  <2>3. CASE f # here.files
    <3>1. PICK status \in {"DELIVERED", "CANCELLED"} :
             f = [here.files EXCEPT !.job[i] = Closed(here.files.job[i], status)]
      BY <2>1, <2>3
    <3>2. /\ FilesOK(sent, f) /\ Ahead(here.files, f)
          /\ \A k \in JobIds \ {i} : f.job[k] = here.files.job[k]
      BY <1>1, <1>4, <3>1, ClosedKeeps
    <3> QED
      BY <3>2 DEF FilesOK
  <2> QED
    BY <2>2, <2>3
<1>6. CASE /\ fresh[r]
           /\ \E f \in outcomes : branch' = f /\ Proceed(r, Then(f), {Then(f)})
           /\ fresh' = [o \in Runs |-> o = r \/ runs[o].pc = "off"]
  <2>1. PICK f \in outcomes : branch' = f /\ Proceed(r, Then(f), {Then(f)})
    BY <1>6
  <2> DEFINE next == Then(f)
  <2>2. /\ FilesOK(sent, f) /\ Ahead(here.files, f) /\ f \in Files
        /\ \A k \in JobIds \ {i} : f.job[k] = here.files.job[k]
    BY <1>5
  <2>3. /\ next \in LocalRuns /\ next.files = f /\ next.pc = "deliver" /\ next.page = here.page
        /\ next.prepared = here.prepared \ {i}
    BY <1>1, <1>2, <1>4, <2>2 DEF LocalRuns
  <2>4. Proceed(r, next, {next})
    BY <2>1
  <2> HIDE DEF next
  <2>5. LocalOK(sent, Polls, next)
    BY <1>4, <2>2, <2>3 DEF LocalOK
  <2>6. runs' = [runs EXCEPT ![r] = next] /\ faults' \in Nat
    BY <2>4, ProceedIs
  <2>7. Ahead(branch, branch') /\ FilesOK(sent, branch') /\ Ahead(branch', next.files)
    BY <1>1, <1>2, <1>6, <2>1, <2>2, <2>3, AheadOn, AheadOfItself
  <2> QED
    BY <1>2, <1>6, <2>3, <2>5, <2>6, <2>7, RunPushes
<1>7. CASE /\ Proceed(r, [here EXCEPT !.prepared = here.prepared \ {i}], {})
           /\ UNCHANGED <<branch, fresh>>
  <2> DEFINE next == [here EXCEPT !.prepared = here.prepared \ {i}]
  <2>1. /\ next \in LocalRuns /\ next.files = here.files /\ next.pc = "deliver"
        /\ next.page = here.page /\ next.prepared = here.prepared \ {i}
    BY <1>1, <1>2, <1>4 DEF LocalRuns
  <2>2. Proceed(r, next, {})
    BY <1>7
  <2> HIDE DEF next
  <2>3. LocalOK(sent, Polls, next)
    BY <1>1, <1>4, <2>1 DEF LocalOK
  <2>4. runs' = [runs EXCEPT ![r] = next] /\ faults' \in Nat
    BY <2>2, ProceedIs
  <2>5. fresh'[r] /\ next.pc # "off" => Ahead(branch, next.files)
    BY <1>1, <1>2, <1>7, <2>1
  <2> QED
    BY <1>2, <1>7, <2>1, <2>3, <2>4, <2>5, RunAlone
<1>8. CASE End(r) /\ UNCHANGED branch
  BY <1>2, <1>8, EndKeeps
<1> QED
  BY <1>3, <1>6, <1>7, <1>8

\* The last checkpoint of a run.
LEMMA FinishKeeps ==
    ASSUME MessagesInv, NEW r \in Runs, Finish(r)
    PROVE  MessagesInv' /\ (branch' = branch \/ Ahead(branch, branch'))
<1>1. /\ runs[r].files \in Files /\ FilesOK(sent, runs[r].files) /\ sent \in Seq(Updates)
  BY HereIs
<1>2. /\ runs[r].pc = "deliver" /\ UNCHANGED <<chat, confirmed>>
      /\ Checkpoint(r, runs[r].files, Off, Off)
  BY DEF Finish
<1>3. Off \in LocalRuns /\ Off.pc = "off" /\ LocalOK(sent, Polls, Off)
  BY <1>1, OffIs
<1>4. Ahead(runs[r].files, runs[r].files)
  BY <1>1, AheadOfItself
<1> QED
  BY <1>1, <1>2, <1>3, <1>4, CheckpointKeeps

\* The invariant is inductive, and whatever is pushed is ahead of the branch.
LEMMA StepKeeps ==
    ASSUME MessagesInv, [Next]_vars
    PROVE  MessagesInv' /\ (branch' = branch \/ Ahead(branch, branch'))
<1>1. CASE UNCHANGED vars
  <2>1. UNCHANGED <<setting, sent, confirmed, branch, runs, fresh, faults>> /\ Polls' = Polls
    BY <1>1 DEF vars, Polls
  <2>2. TypeOK'
    BY <2>1 DEF MessagesInv, TypeOK
  <2> QED
    BY <2>1, <2>2 DEF MessagesInv
<1>2. CASE \E m \in Messages, text \in Texts : Post(m, text)
  BY <1>2, PostKeeps DEF Post
<1>3. ASSUME NEW r \in Runs, Work(r) \/ Die(r)
      PROVE  MessagesInv' /\ (branch' = branch \/ Ahead(branch, branch'))
  <2>1. CASE StartTick(r)
    BY <2>1, StartTickKeeps
  <2>2. CASE StartMaintenance(r)
    BY <2>2, StartMaintenanceKeeps
  <2>3. CASE \E u \in Numbers : StartWebhook(r, u)
    BY <2>3, StartWebhookKeeps
  <2>4. CASE Decide(r)
    BY <2>4, DecideKeeps
  <2>5. CASE PushCursor(r)
    BY <2>5, PushCursorKeeps
  <2>6. CASE PrepareReplies(r)
    BY <2>6, PrepareRepliesKeeps
  <2>7. CASE Deliver(r)
    BY <2>7, DeliverKeeps
  <2>8. CASE Finish(r)
    BY <2>8, FinishKeeps
  <2>9. CASE Die(r)
    BY <2>9, EndKeeps DEF Die
  <2> QED
    BY <1>3, <2>1, <2>2, <2>3, <2>4, <2>5, <2>6, <2>7, <2>8, <2>9 DEF Work
<1> QED
  BY <1>1, <1>2, <1>3 DEF Next

-----------------------------------------------------------------------------
(* The theorems                                                            *)

\* MessagesInv holds in every state, whatever the messages, the settings and the
\* number of runs, updates and failures.
THEOREM MessagesInvariant == Spec => []MessagesInv
<1>1. Init => MessagesInv
  BY InitMessages
<1>2. MessagesInv /\ [Next]_vars => MessagesInv'
  BY StepKeeps
<1> QED
  BY <1>1, <1>2, PTL DEF Spec

\* No message is lost: what Telegram has forgotten is recorded on the branch, in
\* that text or in a later one, and a mention has a job that is not ignored.
THEOREM NothingLost == Spec => []NoMessageLost
<1>1. MessagesInv => NoMessageLost
  <2> SUFFICES ASSUME MessagesInv PROVE NoMessageLost
    OBVIOUS
  <2>1. FilesOK(sent, branch) /\ \A u \in 1..confirmed : Covered(sent, branch, u)
    BY DEF MessagesInv
  <2>2. sent \in Seq(Updates) /\ confirmed \in Nat
    BY DEF MessagesInv, TypeOK
  <2>3. ASSUME NEW u \in Numbers, Forgotten(u) PROVE branch.record[sent[u].message] >= u
    <3>1. u \in Nat /\ (u \in 1..confirmed \/ u \in branch.receipts)
      BY <2>2, <2>3 DEF Numbers, Forgotten
    <3>2. Covered(sent, branch, u)
      BY <2>1, <3>1 DEF FilesOK
    <3> QED
      BY <3>2 DEF Covered
  <2>4. ASSUME NEW m \in Messages, branch.record[m] # 0, sent[branch.record[m]].text = "MENTION"
        PROVE  branch.job[Reply(m)] # NoJob /\ branch.job[Reply(m)].status # "IGNORED"
    BY <2>1, <2>4 DEF FilesOK, MentionOK, Mentions, Attends
  <2> QED
    BY <2>3, <2>4 DEF NoMessageLost
<1> QED
  BY <1>1, MessagesInvariant, PTL

\* The bot answers what people have said last: a ready reply was made from the
\* texts recorded on the branch, and a route to be followed was decided for them.
THEOREM AnswersCurrent == Spec => []AnswersCurrentTexts
<1>1. MessagesInv => AnswersCurrentTexts
  <2> SUFFICES ASSUME MessagesInv, NEW i \in JobIds, branch.job[i] # NoJob
               PROVE  /\ branch.job[i].status = "READY" =>
                            branch.job[i].basis = {branch.record[m] : m \in SourcesOf(i, branch.job[i])}
                      /\ branch.job[i].status \in {"PENDING", "READY"} =>
                            branch.job[i].routed \in {0, branch.record[branch.job[i].trigger]}
    BY DEF AnswersCurrentTexts
  <2> QED
    BY DEF MessagesInv, FilesOK, JobFits
<1> QED
  BY <1>1, MessagesInvariant, PTL

\* A delivered reply is final, and nobody is introduced before he is welcomed.
THEOREM FinalDeliveries == Spec => DeliveredIsFinal
<1> DEFINE Final ==
      \A i \in JobIds :
          /\ Delivered(branch, i) => branch'.job[i] = branch.job[i]
          /\ i[1] = "introduction" /\ branch'.job[i] # NoJob
             /\ branch'.job[i].status \in {"READY", "DELIVERED"}
                 => Delivered(branch', Welcome(i[2]))
<1>1. MessagesInv /\ [Next]_vars => Final
  <2> SUFFICES ASSUME MessagesInv, [Next]_vars, NEW i \in JobIds
               PROVE  /\ Delivered(branch, i) => branch'.job[i] = branch.job[i]
                      /\ i[1] = "introduction" /\ branch'.job[i] # NoJob
                         /\ branch'.job[i].status \in {"READY", "DELIVERED"}
                             => Delivered(branch', Welcome(i[2]))
    OBVIOUS
  <2>1. MessagesInv' /\ (branch' = branch \/ Ahead(branch, branch'))
    BY StepKeeps
  <2>2. Delivered(branch, i) => branch'.job[i] = branch.job[i]
    BY <2>1 DEF Ahead
  <2>3. FilesOK(sent', branch')
    BY <2>1 DEF MessagesInv
  <2>4. ASSUME i[1] = "introduction", branch'.job[i] # NoJob,
               branch'.job[i].status \in {"READY", "DELIVERED"}
        PROVE  Delivered(branch', Welcome(i[2]))
    <3>1. i[2] \in Newcomers /\ i = Introduction(i[2])
      BY <2>4, Ids
    <3>2. Introduced(branch', i[2])
      BY <2>4, <3>1 DEF Introduced
    <3> QED
      BY <2>3, <3>1, <3>2 DEF FilesOK, WelcomedFirst
  <2> QED
    BY <2>2, <2>4
<1>2. DeliveredIsFinal <=> [][Final]_vars
  BY DEF DeliveredIsFinal
<1> QED
  BY <1>1, <1>2, MessagesInvariant, PTL DEF Spec

=============================================================================
