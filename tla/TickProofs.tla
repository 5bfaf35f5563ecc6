----------------------------- MODULE TickProofs -----------------------------
(***************************************************************************)
(* What holds of the scheduled runs for every cadence, every limit and     *)
(* cooldown, any number of runs and of faults: the model gets no more      *)
(* requests than the limit allows, a Daily reaches the chat at most once,  *)
(* a recorded Daily is on file, and questions are a cooldown apart and     *)
(* never two in one tick.                                                  *)
(*                                                                         *)
(* Each of them has an inductive invariant of its own (CallsInv, DailyInv, *)
(* FileInv; QuestionInv and AskingInv), which says how the clone of the    *)
(* run relates to the head of the branch at every place a replay, a crash  *)
(* or a checkpoint that failed can leave it.  The lemmas before them say   *)
(* what a checkpoint can do (Saved, NotSaved, Restarted) and what the      *)
(* steps have in common.                                                   *)
(***************************************************************************)
EXTENDS Tick, TLAPS

\* The memory of a run.
Runs == [at : 0..MaxTime, commit : States, tries : 0..1,
         poll : BOOLEAN, observe : BOOLEAN,
         layer : Layers \cup {"L1"}, failed : SUBSET Phases, attempt : 1..2,
         draft : Drafts \cup {NoDraft}, outcome : Statuses]

\* The count of state d covers the requests the model has received, and is not
\* of a window that is still to come.
Covers(d) ==
    /\ d.attempts.window <= WindowAt(now)
    /\ \A w \in Windows : /\ d.attempts.window = w => calls[w] <= d.attempts.count
                          /\ d.attempts.window < w => calls[w] = 0

\* Requests to the model.  Before the first request of a run and between two of
\* them nothing is on disk that is not pushed, so that a replay counts on from
\* the same number.
CallsInv ==
    /\ ModelCallsBounded
    /\ Covers(remote)
    /\ pc # "off" => run.at = now /\ Covers(disk)
    /\ pc \in {"intake", "layer", "evidence", "context", "count", "model"}
         => disk = remote /\ run.commit = disk
    /\ pc = "model" => /\ disk.attempts.window = Window
                       /\ calls[Window] < disk.attempts.count

\* State d shows every Daily that may have reached the chat.
Shows(d) ==
    \A w \in Windows : posted[w] > 0 => d.daily[w].status \in {"sending", "delivered", "ambiguous"}

\* The Daily in the chat.  Sending begins only behind a push of "sending", which
\* no replay takes back.
DailyInv ==
    /\ DailyPostedOnce
    /\ Shows(remote)
    /\ pc # "off" => Shows(disk)
    /\ pc = "prepared" => disk.daily[Window].status = "prepared" /\ run.commit = disk
    /\ pc \in {"sending", "result"} => /\ disk.daily[Window].status = "sending"
                                       /\ remote.daily[Window].status = "sending"
    /\ pc = "sending" => posted[Window] = 0
    /\ pc = "result" /\ posted[Window] > 0 => run.outcome \in {"delivered", "ambiguous"}

\* State d holds the Daily of the last window it records, and no draft without a
\* status.
OnFile(d) ==
    /\ d.success.L4 # Never => d.daily[WindowAt(d.success.L4)].status # "none"
    /\ \A w \in Windows : d.daily[w].status = "none" => d.daily[w].draft = NoDraft

\* The phases of a Daily went through.
DailyDue(phases) == run.layer = "L4" /\ run.failed \cap phases = {}

\* A Daily that went through has a draft, unless it was delivered before.
Prepared == DailyDue({"validate", "daily_prepare"}) => run.draft # NoDraft \/ AlreadyDelivered

\* The record of the Daily.  The deliver phase either leaves a record or was not
\* needed, because an earlier run delivered this Daily.
FileInv ==
    /\ OnFile(remote)
    /\ pc # "off" => OnFile(disk)
    /\ pc \in {"publish", "question", "asking", "asked", "unasked", "staging", "deliver"}
         => Prepared
    /\ pc \in {"artifact", "prepared", "sending", "result"} => run.draft # NoDraft
    /\ pc = "result" => run.outcome # "none"
    /\ (/\ pc = "record" /\ ~run.observe
        /\ DailyDue({"validate", "daily_prepare", "telegram_delivery"}))
         => disk.daily[Window].status # "none"

\* Before the question of this run is recorded.
Unasked == {"intake", "layer", "evidence", "context", "count", "model", "artifact",
            "publish", "question", "asking", "asked", "unasked", "staging"}

\* A question is a cooldown after the last one that was recorded.
RecordedSpaced ==
    remote.asked # Never /\ question > remote.asked => question - remote.asked >= Cooldown

\* Busy questions.  Until the question of this run is staged the clone knows the
\* last one that was recorded.
QuestionInv ==
    /\ RecordedSpaced
    /\ pc # "off" => \/ disk.asked = remote.asked
                     \/ disk.asked = run.at /\ question = run.at
    /\ pc \in Unasked => disk.asked = remote.asked
    /\ pc = "asking" => Elapsed(remote.asked, run.at, Cooldown)
    /\ pc \in {"asked", "staging"} => question = run.at

\* The intents of questions.  A question is sent only behind a push of its intent,
\* which every replay finds; while the clone does not know of this one, no commit
\* does.
AskingInv ==
    /\ question <= remote.asking /\ remote.asking <= now
    /\ pc # "off" => /\ run.at = now
                     /\ disk.asking \in {remote.asking, run.at}
                     /\ disk.asking # run.at => run.commit.asking # run.at
    /\ pc = "asking" => remote.asking = run.at /\ question < run.at

-----------------------------------------------------------------------------
\* for_due_run: windows follow each other as time goes on.
LEMMA WindowMonotone ==
    ASSUME NEW t \in Nat, NEW u \in Nat, t <= u
    PROVE  WindowAt(t) \in Nat /\ WindowAt(t) <= WindowAt(u)
BY TickAssumption DEF WindowAt

\* Where a run can be.
Places == {"off", "intake", "layer", "evidence", "context", "count", "model",
           "artifact", "publish", "question", "asking", "asked", "unasked",
           "staging", "deliver", "prepared", "sending", "result", "record", "final"}

\* An empty repository has its type.
LEMMA NewStateType == NewState \in States
BY TickAssumption DEF NewState, States, Times, Statuses, Attempt

\* The window of every time is one of the windows.
LEMMA WindowsOfTimes ==
    ASSUME NEW t \in 0..MaxTime
    PROVE  WindowAt(t) \in Windows
<1>1. t \in Nat /\ MaxTime \in Nat /\ t <= MaxTime
  BY TickAssumption
<1>2. WindowAt(t) \in Nat /\ WindowAt(t) <= WindowAt(MaxTime)
  BY <1>1, WindowMonotone
<1>3. WindowAt(MaxTime) \in Nat
  BY <1>1, WindowMonotone
<1> QED
  BY <1>2, <1>3 DEF Windows

\* The memory of a run that starts.
LEMMA StartedType ==
    ASSUME NEW d \in States, NEW t \in 0..MaxTime, NEW tries \in 0..1,
           NEW poll \in BOOLEAN, NEW observe \in BOOLEAN
    PROVE  /\ Started(d, t, tries, poll, observe) \in Runs
           /\ Started(d, t, tries, poll, observe).at = t
           /\ Started(d, t, tries, poll, observe).commit = d
<1>1. DueLayer(d, t) \in Layers \cup {"L1"}
  BY DEF DueLayer, Layers
<1> QED
  BY <1>1 DEF Started, Runs, Statuses

\* The memory between two runs.
LEMMA NoRunType == NoRun \in Runs
<1>1. 0 \in 0..MaxTime
  BY TickAssumption
<1>2. 0 \in 0..1 /\ FALSE \in BOOLEAN
  OBVIOUS
<1>3. Started(NewState, 0, 0, FALSE, FALSE) \in Runs
  BY <1>1, <1>2, NewStateType, StartedType, Zenon
<1> QED
  BY <1>3 DEF NoRun

\* Two memories of one run that agree on what the invariants look at.
SameRun(q, r) ==
    /\ q \in Runs /\ r \in Runs
    /\ q.at = r.at /\ q.layer = r.layer /\ q.observe = r.observe

\* A commit changes nothing else in the memory of the run.
LEMMA CommitEffect ==
    ASSUME NEW r \in Runs, NEW c \in States
    PROVE  LET q == [r EXCEPT !.commit = c]
           IN  /\ SameRun(q, r)
               /\ q.commit = c /\ q.failed = r.failed /\ q.draft = r.draft
               /\ q.outcome = r.outcome
BY DEF Runs, SameRun

\* A failed phase is noted and changes nothing else.
LEMMA FailedEffect ==
    ASSUME run \in Runs, NEW phase \in Phases
    PROVE  /\ SameRun(Failed(phase), run)
           /\ Failed(phase).failed = run.failed \cup {phase}
           /\ Failed(phase).commit = run.commit
           /\ Failed(phase).draft = run.draft
           /\ Failed(phase).outcome = run.outcome
BY DEF Runs, SameRun, Failed

\* A Daily that is given up is noted as a failed phase.
LEMMA NoDailyEffect ==
    ASSUME run \in Runs
    PROVE  /\ SameRun(NoDaily, run)
           /\ NoDaily.failed = run.failed \cup {"daily_prepare"}
           /\ NoDaily.commit = run.commit
<1>1. /\ SameRun(Failed("daily_prepare"), run)
      /\ Failed("daily_prepare").failed = run.failed \cup {"daily_prepare"}
      /\ Failed("daily_prepare").commit = run.commit
  BY FailedEffect DEF Phases
<1>2. Failed("daily_prepare") \in Runs
  BY <1>1 DEF SameRun
<1>3. ASSUME NEW r \in Runs
      PROVE  /\ SameRun([r EXCEPT !.draft = NoDraft], r)
             /\ [r EXCEPT !.draft = NoDraft].failed = r.failed
             /\ [r EXCEPT !.draft = NoDraft].commit = r.commit
  BY DEF Runs, SameRun
<1>4. /\ SameRun(NoDaily, Failed("daily_prepare"))
      /\ NoDaily.failed = Failed("daily_prepare").failed
      /\ NoDaily.commit = Failed("daily_prepare").commit
  BY <1>2, <1>3 DEF NoDaily
<1> QED
  BY <1>1, <1>4 DEF SameRun

\* The end of a run forgets its work and nothing else.
LEMMA FinishedEffect ==
    ASSUME NEW r \in Runs
    PROVE  SameRun([r EXCEPT !.failed = {}, !.draft = NoDraft, !.outcome = "none", !.attempt = 1], r)
<1>1. ASSUME NEW q \in Runs
      PROVE  /\ SameRun([q EXCEPT !.failed = {}], q)
             /\ SameRun([q EXCEPT !.draft = NoDraft], q)
             /\ SameRun([q EXCEPT !.outcome = "none"], q)
             /\ SameRun([q EXCEPT !.attempt = 1], q)
  BY DEF Runs, SameRun, Statuses
<1> DEFINE a == [r EXCEPT !.failed = {}]
           b == [a EXCEPT !.draft = NoDraft]
           c == [b EXCEPT !.outcome = "none"]
           d == [c EXCEPT !.attempt = 1]
<1>2. SameRun(a, r)
  BY <1>1
<1>3. SameRun(b, a)
  BY <1>1, <1>2 DEF SameRun
<1>4. SameRun(c, b)
  BY <1>1, <1>3 DEF SameRun
<1>5. SameRun(d, c)
  BY <1>1, <1>4 DEF SameRun
<1> QED
  BY <1>2, <1>3, <1>4, <1>5 DEF SameRun

\* DailyAttemptLimit writes its count and nothing else.
LEMMA CountedEffect ==
    ASSUME NEW d \in States, NEW w \in Windows, NEW n \in 0..MaxAttempts
    PROVE  LET e == [d EXCEPT !.attempts = [window |-> w, count |-> n]]
           IN  /\ e \in States
               /\ e.attempts.window = w /\ e.attempts.count = n
               /\ e.success = d.success /\ e.daily = d.daily
               /\ e.asked = d.asked /\ e.asking = d.asking
BY DEF States

\* deliver writes the entry of one Daily and nothing else.
LEMMA RecordedEffect ==
    ASSUME disk \in States, run \in Runs, NEW st \in Statuses
    PROVE  /\ Recorded(st) \in States
           /\ Recorded(st).attempts = disk.attempts
           /\ Recorded(st).success = disk.success
           /\ Recorded(st).asked = disk.asked
           /\ Recorded(st).asking = disk.asking
           /\ Recorded(st).daily[Window].status = st
           /\ Recorded(st).daily[Window].draft = run.draft
           /\ \A w \in Windows \ {Window} : Recorded(st).daily[w] = disk.daily[w]
<1>1. Window \in Windows /\ run.draft \in Drafts \cup {NoDraft}
  BY WindowsOfTimes DEF Window, Runs
<1>2. /\ Attempt(st, run.draft) \in [status : Statuses, draft : Drafts \cup {NoDraft}]
      /\ Attempt(st, run.draft).status = st /\ Attempt(st, run.draft).draft = run.draft
  BY <1>1 DEF Attempt
<1> HIDE DEF Window
<1> QED
  BY <1>1, <1>2 DEF Recorded, States

\* The intent and the staging of a question change nothing else.
LEMMA AskingEffect ==
    ASSUME NEW d \in States, NEW t \in 0..MaxTime
    PROVE  /\ LET e == [d EXCEPT !.asking = t]
              IN  /\ e \in States /\ e.attempts = d.attempts /\ e.success = d.success
                  /\ e.daily = d.daily /\ e.asked = d.asked /\ e.asking = t
           /\ LET e == [d EXCEPT !.asked = t]
              IN  /\ e \in States /\ e.attempts = d.attempts /\ e.success = d.success
                  /\ e.daily = d.daily /\ e.asked = t /\ e.asking = d.asking
BY DEF States, Times

\* _record_success changes nothing else.
LEMMA SuccessEffect ==
    ASSUME NEW d \in States, NEW f \in [Layers -> Times]
    PROVE  LET e == [d EXCEPT !.success = f]
           IN  /\ e \in States /\ e.attempts = d.attempts /\ e.success = f
               /\ e.daily = d.daily /\ e.asked = d.asked /\ e.asking = d.asking
BY DEF States

-----------------------------------------------------------------------------
\* The clone is dropped, and the run is replayed from the head or ends.
Restarted ==
    /\ remote' = remote
    /\ run' \in Runs
    /\ \/ /\ pc' = "intake" /\ disk' = remote
          /\ run'.at = run.at /\ run'.commit = remote
       \/ pc' = "off" /\ disk' = NewState

\* The outcomes of a checkpoint that finds d in the working tree.
Saved(d, done, there) ==
    /\ remote' \in {remote, d}
    /\ d # run.commit => remote' = d
    /\ disk' = d
    /\ SameRun(run', done) /\ run'.commit = d
    /\ run'.failed = done.failed /\ run'.draft = done.draft /\ run'.outcome = done.outcome
    /\ pc' = there

NotSaved(d, undone, elsewhere) ==
    /\ remote' \in {remote, d}
    /\ disk' = d
    /\ SameRun(run', undone) /\ run'.commit \in {run.commit, d}
    /\ run'.failed = undone.failed /\ run'.draft = undone.draft
    /\ pc' = elsewhere

\* The types of the variables that belong to the clone and the run.
CloneType ==
    /\ remote \in States /\ disk \in States /\ run \in Runs /\ pc \in Places
    /\ faults \in 0..MaxFaults

\* A fault keeps its count within the bound.
LEMMA FaultType == ASSUME faults \in 0..MaxFaults, Fault PROVE faults' \in 0..MaxFaults
BY TickAssumption DEF Fault

\* The clone is dropped at the end of a run.
LEMMA StopEffect == ASSUME Stop PROVE disk' = NewState /\ run' \in Runs /\ pc' = "off"
BY NoRunType DEF Stop, Goto

\* A refused push replays the run from the head, or ends it.
LEMMA ConflictEffect ==
    ASSUME CloneType, Conflict
    PROVE  Restarted /\ CloneType'
<1>1. faults' \in 0..MaxFaults
  BY FaultType DEF CloneType, Conflict
<1>2. CASE run.tries = 0
  <2>1. /\ disk' = remote /\ pc' = "intake" /\ remote' = remote
        /\ run' = Started(remote, run.at, 1, run.poll, run.observe)
    BY <1>2 DEF Conflict, Begin, Goto
  <2>2. /\ run.at \in 0..MaxTime /\ run.poll \in BOOLEAN /\ run.observe \in BOOLEAN
        /\ 1 \in 0..1 /\ remote \in States
    BY DEF CloneType, Runs
  <2>3. run' \in Runs /\ run'.at = run.at /\ run'.commit = remote
    BY <2>1, <2>2, StartedType
  <2> QED
    BY <1>1, <2>1, <2>3 DEF Restarted, CloneType, Places
<1>3. CASE run.tries # 0
  <2>1. Stop /\ remote' = remote
    BY <1>3 DEF Conflict
  <2> QED
    BY <1>1, <2>1, StopEffect, NewStateType DEF Restarted, CloneType, Places
<1> QED
  BY <1>2, <1>3

\* What a checkpoint can do.
LEMMA CheckpointEffect ==
    ASSUME CloneType, NEW d \in States, NEW done \in Runs, NEW undone \in Runs,
           NEW there \in Places, NEW elsewhere \in Places,
           Checkpoint(d, done, there, undone, elsewhere)
    PROVE  /\ Saved(d, done, there) \/ NotSaved(d, undone, elsewhere) \/ Restarted
           /\ CloneType'
<1>1. CASE /\ remote' \in Pushed(d) /\ disk' = d /\ run' = [done EXCEPT !.commit = d]
           /\ Goto(there) /\ UNCHANGED faults
  <2>1. Saved(d, done, there)
    BY <1>1, CommitEffect DEF Saved, Pushed, Goto
  <2> QED
    BY <1>1, <2>1 DEF Saved, SameRun, CloneType
<1>2. CASE /\ Fault /\ remote' \in {remote, d} /\ disk' = d /\ Goto(elsewhere)
           /\ \E commit \in {run.commit, d} :
                 /\ remote' # remote => commit = d
                 /\ run' = [undone EXCEPT !.commit = commit]
  <2>1. PICK commit \in {run.commit, d} : run' = [undone EXCEPT !.commit = commit]
    BY <1>2
  <2>0. run.commit \in States
    BY DEF CloneType, Runs
  <2>2. NotSaved(d, undone, elsewhere)
    BY <1>2, <2>0, <2>1, CommitEffect DEF NotSaved, Goto
  <2> QED
    BY <1>2, <2>2, FaultType DEF NotSaved, SameRun, CloneType
<1>3. CASE Conflict
  BY <1>3, ConflictEffect
<1> QED
  BY <1>1, <1>2, <1>3 DEF Checkpoint

\* The types of the variables outside the clone and the run.
SeenType ==
    /\ now \in 0..MaxTime
    /\ calls \in [Windows -> Nat]
    /\ posted \in [Windows -> Nat]
    /\ question \in Times

\* The type invariant is that of the clone and the run and that of the rest.
LEMMA TypeParts == /\ TypeOK <=> CloneType /\ SeenType
                   /\ TypeOK' <=> CloneType' /\ SeenType'
BY DEF TypeOK, CloneType, SeenType, Runs, Places

\* An empty repository and one in use have their type.
LEMMA TypeInit == Init => TypeOK
<1> SUFFICES ASSUME Init PROVE TypeOK
  OBVIOUS
<1>1. 0 \in 0..MaxTime /\ 0 \in Times /\ 1 \in 0..MaxAttempts /\ Never \in Times /\ 0 \in 0..MaxFaults
  BY TickAssumption DEF Times, Never
<1>2. WindowAt(0) \in Nat /\ 0 \in Windows
  <2>1. WindowAt(0) = 0
    BY TickAssumption DEF WindowAt
  <2> QED
    BY <1>1, <2>1, WindowsOfTimes
<1>3. ASSUME NEW d \in Drafts PROVE InUse(d) \in States
  <2>1. Attempt("delivered", d) \in [status : Statuses, draft : Drafts \cup {NoDraft}]
    BY DEF Attempt, Statuses
  <2> HIDE DEF Attempt
  <2>2. [window |-> 0, count |-> 1] \in [window : {Never} \cup Windows, count : 0..MaxAttempts]
    BY <1>1, <1>2
  <2> QED
    BY <1>1, <1>2, <2>1, <2>2, NewStateType DEF InUse, States, Layers
<1>4. remote \in States /\ disk \in States
  BY <1>3, NewStateType DEF Init
<1>5. \A w \in Windows : Attempts(remote, w) \in Nat
  BY <1>4, TickAssumption DEF Attempts, States
<1>6. calls \in [Windows -> Nat] /\ posted \in [Windows -> Nat]
  BY <1>5 DEF Init
<1>7. CloneType
  BY <1>1, <1>4, NoRunType DEF Init, CloneType, Places
<1> QED
  BY <1>1, <1>6, <1>7, TypeParts DEF Init, SeenType

\* A step of the run that leaves the world outside alone keeps the type if it
\* keeps that of the clone.
LEMMA SeenKept == ASSUME SeenType, UNCHANGED Seen PROVE SeenType'
BY DEF SeenType, Seen

\* A step that changes nothing but the memory of the run keeps the type.
LEMMA ProceedType ==
    ASSUME CloneType, NEW r \in Runs, NEW where \in Places, Proceed(r, where)
    PROVE  CloneType'
BY DEF CloneType, Proceed, Goto

\* A worker that dies leaves nothing but the head of the branch.
LEMMA CrashEffect == ASSUME CloneType, Crash PROVE Restarted /\ CloneType'
<1>1. Stop /\ remote' = remote /\ faults' \in 0..MaxFaults
  BY FaultType DEF Crash, CloneType
<1> QED
  BY <1>1, StopEffect, NewStateType DEF Restarted, CloneType, Places

\* A run starts from the head of the branch, one unit of time later.
LEMMA StartEffect ==
    ASSUME TypeOK, Start
    PROVE  /\ pc = "off" /\ now' = now + 1
           /\ pc' = "intake" /\ remote' = remote /\ disk' = remote
           /\ run' \in Runs /\ run'.at = now' /\ run'.commit = remote
           /\ UNCHANGED <<calls, posted, question, faults>>
           /\ TypeOK'
<1>1. /\ pc = "off" /\ now' = now + 1 /\ now < MaxTime
      /\ pc' = "intake" /\ remote' = remote /\ disk' = remote
      /\ UNCHANGED <<calls, posted, question, faults>>
      /\ \E poll, observe \in BOOLEAN : run' = Started(remote, now', 0, poll, observe)
  BY DEF Start, Begin, Goto
<1>2. now' \in 0..MaxTime /\ remote \in States /\ 0 \in 0..1
  BY <1>1, TickAssumption DEF TypeOK
<1>3. run' \in Runs /\ run'.at = now' /\ run'.commit = remote
  BY <1>1, <1>2, StartedType
<1>4. TypeOK'
  BY <1>1, <1>2, <1>3 DEF TypeOK, Runs
<1> QED
  BY <1>1, <1>3, <1>4

\* A checkpoint keeps the type.
LEMMA CheckpointType ==
    ASSUME TypeOK, NEW d \in States, NEW done \in Runs, NEW undone \in Runs,
           NEW there \in Places, NEW elsewhere \in Places,
           Checkpoint(d, done, there, undone, elsewhere), UNCHANGED Seen
    PROVE  TypeOK'
<1>1. CloneType' 
  BY TypeParts, CheckpointEffect
<1> QED
  BY <1>1, TypeParts, SeenKept

\* Every step of a run, its start and its death keep the type.
LEMMA TypeNext == ASSUME TypeOK, [Next]_vars PROVE TypeOK'
<1> USE DEF Phases
<1>0. /\ CloneType /\ SeenType /\ run \in Runs /\ disk \in States /\ remote \in States
      /\ Window \in Windows
  BY TypeParts, WindowsOfTimes DEF TypeOK, Window, CloneType, Runs
<1>1. \A phase \in Phases : Failed(phase) \in Runs
  BY <1>0, FailedEffect DEF SameRun
<1>2. NoDaily \in Runs
  BY <1>0, NoDailyEffect DEF SameRun
<1>3. \A st \in Statuses : Recorded(st) \in States
  BY <1>0, RecordedEffect
<1>4. ASSUME UNCHANGED Seen, CloneType' PROVE TypeOK'
  BY <1>0, <1>4, SeenKept, TypeParts
<1>5. ASSUME NEW r \in Runs, NEW where \in Places, Proceed(r, where), UNCHANGED Seen PROVE TypeOK'
  BY <1>0, <1>4, <1>5, ProceedType
<1>6. CASE Conflict /\ UNCHANGED Seen
  BY <1>0, <1>4, <1>6, ConflictEffect
<1>7. CASE TelegramIntake \/ KnowledgeRefresh \/ Validate \/ NothingDue \/ CollectEvidence
           \/ SelectContext \/ NothingToSend
  BY <1>0, <1>1, <1>2, <1>5, <1>6, <1>7
  DEF TelegramIntake, KnowledgeRefresh, Validate, NothingDue, CollectEvidence, SelectContext,
      NothingToSend, Places
<1>8. CASE SourceCheck \/ SaveDaily \/ PublishRepository \/ RecordQuestion
  BY <1>0, <1>1, <1>2, <1>5, <1>8, CheckpointType
  DEF SourceCheck, SaveDaily, PublishRepository, RecordQuestion, Places
<1>9. CASE CountAttempt
  <2>1. CASE Exhausted(disk, Window)
    BY <1>2, <1>5, <1>9, <2>1 DEF CountAttempt, Places
  <2>2. CASE ~Exhausted(disk, Window)
    <3> DEFINE n == Attempts(disk, Window) + 1
    <3>1. n \in 0..MaxAttempts
      BY <1>0, <2>2, TickAssumption DEF Exhausted, Attempts, States
    <3> HIDE DEF n
    <3>2. [disk EXCEPT !.attempts = [window |-> Window, count |-> n]] \in States
      BY <1>0, <3>1, CountedEffect
    <3>3. /\ Checkpoint([disk EXCEPT !.attempts = [window |-> Window, count |-> n]],
                        run, "model", NoDaily, "publish")
          /\ UNCHANGED Seen
      BY <1>9, <2>2 DEF CountAttempt, n
    <3> QED
      BY <1>0, <1>2, <3>2, <3>3, CheckpointType DEF Places
  <2> QED
    BY <2>1, <2>2
<1>10. CASE AcceptDraft \/ ReviseDraft \/ RejectDraft
  <2>1. calls' \in [Windows -> Nat] /\ SeenType'
    <3>1. calls' = [calls EXCEPT ![Window] = calls[Window] + 1]
      BY <1>10 DEF AcceptDraft, ReviseDraft, RejectDraft, CallModel
    <3>2. calls[Window] + 1 \in Nat
      BY <1>0 DEF SeenType
    <3> QED
      BY <1>0, <1>10, <3>1, <3>2 DEF SeenType, AcceptDraft, ReviseDraft, RejectDraft, CallModel
  <2>2. ASSUME NEW d \in Drafts PROVE [run EXCEPT !.draft = d] \in Runs
    BY <1>0 DEF Runs
  <2>3. [run EXCEPT !.attempt = 2] \in Runs
    BY <1>0 DEF Runs
  <2>4. CloneType'
    BY <1>0, <1>2, <1>10, <2>2, <2>3, ProceedType
    DEF AcceptDraft, ReviseDraft, RejectDraft, Places
  <2> QED
    BY <2>1, <2>4, TypeParts
<1>11. CASE Ask
  <2>1. [disk EXCEPT !.asking = run.at] \in States
    BY <1>0, AskingEffect DEF Runs
  <2> QED
    BY <1>0, <1>5, <1>11, <2>1, CheckpointType DEF Ask, Places
<1>12. CASE PostQuestion
  <2>1. SeenType'
    BY <1>0, <1>12 DEF PostQuestion, SeenType, Runs, Times
  <2>2. CloneType'
    BY <1>0, <1>12, ProceedType DEF PostQuestion, Places
  <2> QED
    BY <2>1, <2>2, TypeParts
<1>13. CASE StageTriggered
  <2>1. [disk EXCEPT !.asked = run.at] \in States
    BY <1>0, AskingEffect DEF Runs
  <2> QED
    BY <1>0, <1>4, <1>13, <2>1 DEF StageTriggered, CloneType, Goto, Places
<1>14. CASE RecoverDaily \/ PrepareDelivery \/ BeginSending \/ RecordDaily
  <2>1. "ambiguous" \in Statuses /\ "prepared" \in Statuses /\ "sending" \in Statuses
        /\ run.outcome \in Statuses
    BY <1>0 DEF Statuses, Runs
  <2> QED
    BY <1>0, <1>1, <1>3, <1>14, <2>1, CheckpointType
    DEF RecoverDaily, PrepareDelivery, BeginSending, RecordDaily, Places
<1>15. CASE PostDaily
  <2>1. PICK outcome \in {"delivered", "failed", "ambiguous"}, arrived \in 0..1 :
           /\ Proceed([run EXCEPT !.outcome = outcome], "result")
           /\ posted' = [posted EXCEPT ![Window] = posted[Window] + arrived]
    BY <1>15 DEF PostDaily
  <2>2. posted[Window] + arrived \in Nat
    BY <1>0 DEF SeenType
  <2>3. SeenType'
    BY <1>0, <1>15, <2>1, <2>2 DEF PostDaily, SeenType
  <2>4. [run EXCEPT !.outcome = outcome] \in Runs
    BY <1>0 DEF Runs, Statuses
  <2> QED
    BY <1>0, <2>1, <2>3, <2>4, ProceedType, TypeParts DEF Places
<1>16. CASE RecordSuccess
  <2>1. run' \in Runs
    BY <1>0, <1>16, FinishedEffect DEF RecordSuccess, SameRun
  <2>2. [y \in Layers |-> IF Completed(y) THEN run.at ELSE disk.success[y]] \in [Layers -> Times]
    BY <1>0 DEF Runs, States, Times
  <2>3. disk' \in States
    BY <1>0, <1>16, <2>2, SuccessEffect DEF RecordSuccess
  <2> QED
    BY <1>0, <1>4, <1>16, <2>1, <2>3 DEF RecordSuccess, CloneType, Goto, Places
<1>17. CASE FinalCheckpoint
  <2>1. CASE Conflict
    BY <1>6, <1>17, <2>1 DEF FinalCheckpoint
  <2>2. CASE ~Conflict
    <3>1. Stop /\ remote' \in States /\ faults' \in 0..MaxFaults
      BY <1>0, <1>17, <2>2, FaultType DEF FinalCheckpoint, Pushed, CloneType
    <3> QED
      BY <1>4, <1>17, <3>1, StopEffect, NewStateType DEF FinalCheckpoint, CloneType, Places
  <2> QED
    BY <2>1, <2>2
<1>18. CASE Crash
  BY <1>0, <1>4, <1>18, CrashEffect DEF Crash
<1>19. CASE Start
  BY <1>19, StartEffect
<1>20. CASE UNCHANGED vars
  BY <1>20 DEF vars, TypeOK
<1> QED
  BY <1>7, <1>8, <1>9, <1>10, <1>11, <1>12, <1>13, <1>14, <1>15, <1>16, <1>17, <1>18, <1>19,
     <1>20 DEF Next, Worker

\* The state of the scheduled runs has its type in every behaviour.
THEOREM TypeCorrect == Spec => []TypeOK
BY TypeInit, TypeNext, PTL DEF Spec

-----------------------------------------------------------------------------
\* Up to the request to the model.
Early == {"intake", "layer", "evidence", "context", "count", "model"}

\* After the last request to the model.
Later == {"artifact", "publish", "question", "asking", "asked", "unasked", "staging",
          "deliver", "prepared", "sending", "result", "record", "final"}

\* Steps that change nothing but where the run is and what it remembers.
Moves == TelegramIntake \/ KnowledgeRefresh \/ Validate \/ NothingDue \/ CollectEvidence
         \/ SelectContext

\* The run is in an early place and goes on to another one, or to the publication.
Moved ==
    /\ remote' = remote /\ disk' = disk
    /\ SameRun(run', run) /\ run'.commit = run.commit
    /\ pc \in Early /\ pc' \in {"layer", "evidence", "context", "count", "publish"}

\* The phases before the checkpoints move the run, or a conflict restarts it.
LEMMA MoveEffect ==
    ASSUME TypeOK, Moves
    PROVE  /\ Moved \/ Restarted
           /\ UNCHANGED Seen
<1>0. CloneType /\ run \in Runs
  BY TypeParts DEF CloneType
<1>1. \A phase \in Phases : SameRun(Failed(phase), run) /\ Failed(phase).commit = run.commit
  BY <1>0, FailedEffect
<1>2. SameRun(NoDaily, run) /\ NoDaily.commit = run.commit
  BY <1>0, NoDailyEffect
<1>3. SameRun(run, run)
  BY <1>0 DEF SameRun
<1>4. Conflict => Restarted
  BY <1>0, ConflictEffect
<1> QED
  BY <1>1, <1>2, <1>3, <1>4
  DEF Moves, TelegramIntake, KnowledgeRefresh, Validate, NothingDue, CollectEvidence,
      SelectContext, Moved, Proceed, Goto, Early, Phases

\* Checkpoints that write nothing but the record of a Daily or the intent of a
\* question.
Saves == SourceCheck \/ SaveDaily \/ PublishRepository \/ Ask \/ RecordQuestion \/ NothingToSend
         \/ RecoverDaily \/ PrepareDelivery \/ BeginSending \/ RecordDaily

\* A checkpoint that leaves the counts, the successes and the questions alone.
Worked ==
    /\ remote' \in {remote, disk'}
    /\ disk' \in States
    /\ disk'.attempts = disk.attempts /\ disk'.success = disk.success /\ disk'.asked = disk.asked
    /\ SameRun(run', run)
    /\ pc' \in Later

\* What the checkpoints have in common.
LEMMA SaveEffect ==
    ASSUME TypeOK, Saves
    PROVE  /\ Worked \/ Restarted
           /\ UNCHANGED Seen
           /\ pc # "off"
<1>0. CloneType /\ run \in Runs /\ disk \in States /\ run.outcome \in Statuses /\ run.at \in 0..MaxTime
  BY TypeParts DEF CloneType, Runs
<1>1. \A phase \in Phases : SameRun(Failed(phase), run)
  BY <1>0, FailedEffect
<1>2. SameRun(NoDaily, run)
  BY <1>0, NoDailyEffect
<1>3. SameRun(run, run)
  BY <1>0 DEF SameRun
<1>4. ASSUME NEW d \in States, d.attempts = disk.attempts, d.success = disk.success,
             d.asked = disk.asked, NEW done, SameRun(done, run), NEW undone, SameRun(undone, run),
             NEW there \in Later, NEW elsewhere \in Later,
             Checkpoint(d, done, there, undone, elsewhere)
      PROVE  Worked \/ Restarted
  <2>1. done \in Runs /\ undone \in Runs /\ there \in Places /\ elsewhere \in Places
    BY <1>4 DEF SameRun, Later, Places
  <2>2. Saved(d, done, there) \/ NotSaved(d, undone, elsewhere) \/ Restarted
    BY <1>0, <1>4, <2>1, CheckpointEffect
  <2> QED
    BY <1>4, <2>2 DEF Saved, NotSaved, Worked, SameRun
<1>5. ASSUME NEW r, SameRun(r, run), NEW where \in Later, Proceed(r, where)
      PROVE  Worked
  BY <1>0, <1>5 DEF Proceed, Worked, Goto
<1>6. CASE SourceCheck \/ SaveDaily \/ PublishRepository \/ RecordQuestion \/ NothingToSend
  BY <1>0, <1>1, <1>2, <1>3, <1>4, <1>5, <1>6
  DEF SourceCheck, SaveDaily, PublishRepository, RecordQuestion, NothingToSend, Later, Phases
<1>7. CASE Ask
  BY <1>0, <1>3, <1>4, <1>5, <1>7, AskingEffect DEF Ask, Later
<1>8. CASE RecoverDaily \/ PrepareDelivery \/ BeginSending \/ RecordDaily
  <2>1. \A st \in Statuses :
           /\ Recorded(st) \in States
           /\ Recorded(st).attempts = disk.attempts
           /\ Recorded(st).success = disk.success
           /\ Recorded(st).asked = disk.asked
    BY <1>0, RecordedEffect
  <2> QED
    BY <1>0, <1>1, <1>3, <1>4, <1>8, <2>1
    DEF RecoverDaily, PrepareDelivery, BeginSending, RecordDaily, Later, Phases, Statuses
<1> QED
  BY <1>6, <1>7, <1>8
  DEF Saves, SourceCheck, SaveDaily, PublishRepository, Ask, RecordQuestion, NothingToSend,
      RecoverDaily, PrepareDelivery, BeginSending, RecordDaily

-----------------------------------------------------------------------------
(* The limit of the requests to the model *)

\* The count of the branch covers the requests of its history.
LEMMA CallsInit == ASSUME Init PROVE CallsInv
<1>1. WindowAt(0) = 0
  BY TickAssumption DEF WindowAt
<1>2. CASE remote = NewState
  BY <1>1, <1>2, TickAssumption DEF Init, CallsInv, ModelCallsBounded, Covers, NewState, Attempts, Never, Windows
<1>3. CASE \E d \in Drafts : remote = InUse(d)
  <2>1. remote.attempts.window = 0 /\ remote.attempts.count = 1
    BY <1>3 DEF InUse, NewState
  <2>2. now = 0 /\ pc = "off" /\ calls = [w \in Windows |-> IF w = 0 THEN 1 ELSE 0]
    BY <2>1 DEF Init, Attempts
  <2> QED
    BY <1>1, <2>1, <2>2, TickAssumption DEF CallsInv, ModelCallsBounded, Covers, Windows
<1> QED
  BY <1>2, <1>3 DEF Init

\* A new run, a replay or the end of one.
LEMMA CallsRestart ==
    ASSUME CallsInv, Restarted, UNCHANGED <<now, calls>>, pc # "off"
    PROVE  CallsInv'
BY DEF CallsInv, ModelCallsBounded, Covers, Restarted

\* After the last request the count on disk does not change.
LEMMA CallsLater ==
    ASSUME CallsInv, pc # "off", UNCHANGED <<now, calls>>,
           remote'.attempts \in {remote.attempts, disk.attempts},
           pc' # "off" => disk'.attempts = disk.attempts /\ run'.at = run.at,
           pc' \notin Early
    PROVE  CallsInv'
BY DEF CallsInv, ModelCallsBounded, Covers, Early

\* Between two phases nothing is counted.
LEMMA CallsMoved ==
    ASSUME CallsInv, Moved, UNCHANGED <<now, calls>>
    PROVE  CallsInv'
BY DEF CallsInv, ModelCallsBounded, Covers, Moved, SameRun, Early

\* A new run: the window of the count can only fall behind.
LEMMA CallsStart == ASSUME TypeOK, CallsInv, Start PROVE CallsInv'
<1>1. /\ pc' = "intake" /\ remote' = remote /\ disk' = remote /\ calls' = calls
      /\ run'.at = now' /\ run'.commit = remote /\ now' = now + 1
  BY StartEffect
<1>2. now \in Nat /\ now <= now + 1 /\ now + 1 \in Nat
  BY TickAssumption DEF TypeOK
<1>3. WindowAt(now) <= WindowAt(now') /\ WindowAt(now) \in Int /\ WindowAt(now') \in Int
  BY <1>1, <1>2, WindowMonotone
<1>4. remote.attempts.window \in Int
  BY TickAssumption DEF TypeOK, States, Never, Windows
<1>5. remote.attempts.window <= WindowAt(now')
  BY <1>3, <1>4 DEF CallsInv, Covers
<1> HIDE DEF WindowAt
<1> QED
  BY <1>1, <1>5 DEF CallsInv, ModelCallsBounded, Covers

\* The count of a request is pushed before the request.
LEMMA CallsCount == ASSUME TypeOK, CallsInv, CountAttempt PROVE CallsInv'
<1>0. /\ CloneType /\ run \in Runs /\ disk \in States /\ Window \in Windows
      /\ run.at = now /\ disk = remote /\ run.commit = disk /\ pc = "count"
      /\ UNCHANGED Seen
  BY TypeParts, WindowsOfTimes DEF Window, CloneType, Runs, CallsInv, CountAttempt
<1>1. SameRun(NoDaily, run) /\ SameRun(run, run)
  BY <1>0, NoDailyEffect DEF SameRun
<1>2. CASE Exhausted(disk, Window)
  BY <1>0, <1>1, <1>2, CallsLater DEF CountAttempt, Proceed, Goto, Early, Seen, SameRun
<1>3. CASE ~Exhausted(disk, Window)
  <2> DEFINE n == Attempts(disk, Window) + 1
             d == [disk EXCEPT !.attempts = [window |-> Window, count |-> n]]
  <2>1. n \in 0..MaxAttempts /\ Attempts(disk, Window) \in Nat
    BY <1>0, <1>3, TickAssumption DEF Exhausted, Attempts, States
  <2>2. /\ Checkpoint(d, run, "model", NoDaily, "publish")
        /\ UNCHANGED Seen
    BY <1>0, <1>3 DEF CountAttempt
  <2>3. d \in States /\ d.attempts.window = Window /\ d.attempts.count = n
    <3> HIDE DEF n
    <3> QED
      BY <1>0, <2>1, CountedEffect
  <2>4. calls[Window] <= Attempts(disk, Window) /\ calls[Window] \in Nat
    <3>1. disk.attempts.window \in Int /\ Window \in Int
      BY <1>0, TickAssumption DEF States, Never, Windows
    <3>2. disk.attempts.window <= Window
      BY <1>0 DEF CallsInv, Covers, Window
    <3>3. calls[Window] \in Nat
      BY <1>0 DEF TypeOK
    <3> QED
      BY <1>0, <3>1, <3>2, <3>3 DEF CallsInv, Covers, Attempts
  <2>5. n = Attempts(disk, Window) + 1
    OBVIOUS
  <2>6. d # disk
    <3> SUFFICES ASSUME d = disk PROVE FALSE
      OBVIOUS
    <3>1. disk.attempts.window = Window /\ disk.attempts.count = n
      BY <2>3
    <3> QED
      BY <2>1, <2>5, <3>1 DEF Attempts
  <2> HIDE DEF d, n
  <2>7. Covers(d)
    <3>1. disk.attempts.window \in Int /\ Window \in Int /\ \A w \in Windows : w \in Int
      BY <1>0, TickAssumption DEF States, Never, Windows
    <3>2. disk.attempts.window <= Window /\ Window = WindowAt(now)
      BY <1>0 DEF CallsInv, Covers, Window
    <3>3. ASSUME NEW w \in Windows, Window < w PROVE calls[w] = 0
      <4>1. disk.attempts.window < w
        BY <3>1, <3>2, <3>3
      <4> QED
        BY <1>0, <4>1 DEF CallsInv, Covers
    <3>4. calls[Window] <= n
      BY <2>1, <2>4, <2>5
    <3> QED
      BY <2>3, <3>1, <3>2, <3>3, <3>4 DEF Covers
  <2>8. calls[Window] < n
    BY <2>1, <2>4, <2>5
  <2>9. CASE Saved(d, run, "model")
    <3>1. /\ remote' = d /\ disk' = d /\ run'.commit = d /\ run'.at = run.at /\ pc' = "model"
          /\ now' = now /\ calls' = calls
      BY <1>0, <2>6, <2>9 DEF Saved, SameRun, Seen
    <3>2. Covers(remote)' /\ Covers(disk)'
      BY <2>7, <3>1 DEF Covers
    <3>3. Window' = Window
      BY <3>1 DEF Window
    <3> HIDE DEF Window
    <3> QED
      BY <1>0, <2>3, <2>8, <3>1, <3>2, <3>3 DEF CallsInv, ModelCallsBounded
  <2>10. CASE NotSaved(d, NoDaily, "publish")
    <3>1. /\ remote' \in {remote, d} /\ disk' = d /\ run'.at = run.at /\ pc' = "publish"
          /\ now' = now /\ calls' = calls
      BY <1>0, <1>1, <2>10 DEF NotSaved, SameRun, Seen
    <3>2. Covers(remote)' /\ Covers(disk)'
      BY <2>7, <3>1 DEF Covers, CallsInv
    <3> QED
      BY <1>0, <3>1, <3>2 DEF CallsInv, ModelCallsBounded
  <2>11. CASE Restarted
    BY <1>0, <2>11, CallsRestart DEF Seen
  <2>12. Saved(d, run, "model") \/ NotSaved(d, NoDaily, "publish") \/ Restarted
    <3>1. NoDaily \in Runs
      BY <1>1 DEF SameRun
    <3>2. Checkpoint(d, run, "model", NoDaily, "publish")
      BY <2>2
    <3> QED
      BY <1>0, <2>3, <3>1, <3>2, CheckpointEffect DEF Places
  <2> QED
    BY <2>9, <2>10, <2>11, <2>12
<1> QED
  BY <1>2, <1>3

\* A request uses what the pushed count allows.
LEMMA CallsRequest ==
    ASSUME TypeOK, CallsInv, AcceptDraft \/ ReviseDraft \/ RejectDraft
    PROVE  CallsInv'
<1>0. /\ run \in Runs /\ disk \in States /\ Window \in Windows /\ disk = remote
      /\ pc = "model" /\ run.at = now /\ run.commit = disk
      /\ disk.attempts.window = Window /\ calls[Window] < disk.attempts.count
      /\ now' = now
  BY TypeParts, WindowsOfTimes
  DEF CloneType, Window, Runs, CallsInv, AcceptDraft, ReviseDraft, RejectDraft, CallModel
<1>1. calls' = [calls EXCEPT ![Window] = calls[Window] + 1]
  BY DEF AcceptDraft, ReviseDraft, RejectDraft, CallModel
<1>2. /\ calls'[Window] = calls[Window] + 1
      /\ \A w \in Windows \ {Window} : calls'[w] = calls[w]
  BY <1>0, <1>1 DEF TypeOK
<1>3. calls[Window] \in Nat /\ disk.attempts.count \in 0..MaxAttempts
  BY <1>0 DEF TypeOK, States
<1>4. /\ remote' = remote /\ disk' = disk
      /\ pc' \in {"artifact", "count", "publish"}
      /\ run'.at = run.at /\ run'.commit = run.commit
  <2>1. NoDaily.at = run.at /\ NoDaily.commit = run.commit
    BY <1>0, NoDailyEffect DEF SameRun
  <2>2. \A d \in Drafts : [run EXCEPT !.draft = d].at = run.at /\ [run EXCEPT !.draft = d].commit = run.commit
    BY <1>0 DEF Runs
  <2>3. [run EXCEPT !.attempt = 2].at = run.at /\ [run EXCEPT !.attempt = 2].commit = run.commit
    BY <1>0 DEF Runs
  <2> QED
    BY <2>1, <2>2, <2>3 DEF AcceptDraft, ReviseDraft, RejectDraft, Proceed, Goto
<1>5. ModelCallsBounded'
  BY <1>2, <1>3, <1>0, TickAssumption DEF ModelCallsBounded, CallsInv
<1>6. Covers(remote)' /\ Covers(disk)'
  <2> HIDE DEF Window
  <2>1. WindowAt(now) = Window
    BY <1>0 DEF Window
  <2>2. Window \in Int
    BY <1>0 DEF Windows
  <2>3. ASSUME NEW w \in Windows PROVE
          /\ Window = w => calls'[w] <= disk.attempts.count
          /\ Window < w => calls'[w] = 0
    <3>1. Window < w => calls[w] = 0
      BY <1>0 DEF CallsInv, Covers
    <3>2. calls'[Window] <= disk.attempts.count
      BY <1>0, <1>2, <1>3
    <3>3. Window < w => w # Window
      BY <2>2
    <3> QED
      BY <1>2, <3>1, <3>2, <3>3
  <2> QED
    BY <1>0, <1>4, <2>1, <2>3 DEF CallsInv, Covers
<1> QED
  BY <1>0, <1>4, <1>5, <1>6 DEF CallsInv

\* Every step keeps the count above the number of requests.
LEMMA CallsNext == ASSUME TypeOK, CallsInv, [Next]_vars PROVE CallsInv'
<1>0. CloneType /\ run \in Runs
  BY TypeParts DEF CloneType
<1>1. CASE Moves
  BY <1>1, MoveEffect, CallsMoved, CallsRestart DEF Seen, Moved, Early, Moves, TelegramIntake,
     KnowledgeRefresh, Validate, NothingDue, CollectEvidence, SelectContext
<1>2. CASE Saves
  <2>1. (Worked \/ Restarted) /\ UNCHANGED <<now, calls>> /\ pc # "off"
    BY <1>2, SaveEffect DEF Seen
  <2>2. CASE Worked
    <3>1. /\ remote'.attempts \in {remote.attempts, disk.attempts}
          /\ disk'.attempts = disk.attempts /\ run'.at = run.at /\ pc' \notin Early
      BY <2>2 DEF Worked, SameRun, Later, Early
    <3> QED
      BY <2>1, <3>1, CallsLater
  <2> QED
    BY <2>1, <2>2, CallsRestart
<1>3. CASE CountAttempt
  BY <1>3, CallsCount
<1>4. CASE AcceptDraft \/ ReviseDraft \/ RejectDraft
  BY <1>4, CallsRequest
<1>5. CASE PostQuestion \/ StageTriggered \/ PostDaily \/ RecordSuccess
  <2>1. remote' = remote /\ UNCHANGED <<now, calls>> /\ pc # "off" /\ pc' \notin Early
    BY <1>5 DEF PostQuestion, StageTriggered, PostDaily, RecordSuccess, Proceed, Goto, Seen, Early
  <2>2. disk'.attempts = disk.attempts
    BY <1>0, <1>5 DEF PostQuestion, StageTriggered, PostDaily, RecordSuccess, Proceed, CloneType,
                      States
  <2>3. run'.at = run.at
    <3>1. CASE PostQuestion \/ StageTriggered
      BY <3>1 DEF PostQuestion, StageTriggered, Proceed
    <3>2. CASE PostDaily
      BY <1>0, <3>2 DEF PostDaily, Proceed, Runs
    <3>3. CASE RecordSuccess
      BY <1>0, <3>3, FinishedEffect DEF RecordSuccess, SameRun
    <3> QED
      BY <1>5, <3>1, <3>2, <3>3
  <2> QED
    BY <2>1, <2>2, <2>3, CallsLater
<1>6. CASE FinalCheckpoint
  <2>1. CASE Conflict
    BY <1>0, <1>6, <2>1, ConflictEffect, CallsRestart DEF FinalCheckpoint, Seen
  <2>2. CASE ~Conflict
    <3>1. /\ remote' \in {remote, disk} /\ pc' = "off" /\ pc # "off" /\ UNCHANGED <<now, calls>>
      BY <1>6, <2>2 DEF FinalCheckpoint, Pushed, Stop, Goto, Seen
    <3> QED
      BY <3>1, CallsLater DEF Early
  <2> QED
    BY <2>1, <2>2
<1>7. CASE Crash
  BY <1>0, <1>7, CrashEffect, CallsRestart DEF Crash, Seen
<1>8. CASE Start
  BY <1>8, CallsStart
<1>9. CASE UNCHANGED vars
  BY <1>9 DEF vars, CallsInv, ModelCallsBounded, Covers, Window
<1> QED
  BY <1>1, <1>2, <1>3, <1>4, <1>5, <1>6, <1>7, <1>8, <1>9 DEF Next, Worker, Moves, Saves

\* The model gets at most _MAX_ATTEMPTS requests for the Daily of one window.
THEOREM CallsBounded == Spec => []ModelCallsBounded
<1>1. Init => CallsInv
  BY CallsInit
<1>2. TypeOK /\ CallsInv /\ [Next]_vars => CallsInv'
  BY CallsNext
<1>3. CallsInv => ModelCallsBounded
  BY DEF CallsInv
<1> QED
  BY <1>1, <1>2, <1>3, TypeCorrect, PTL DEF Spec

-----------------------------------------------------------------------------
(* The Daily reaches the chat at most once *)

\* Where the run is not sending the Daily.
Idle == {"artifact", "publish", "question", "asking", "asked", "unasked", "staging",
         "deliver", "record", "final"}

\* Checkpoints that write nothing about a Daily.
Others == SourceCheck \/ SaveDaily \/ PublishRepository \/ Ask \/ RecordQuestion \/ NothingToSend

\* Such a checkpoint leaves the entries of the Dailies alone.
LEMMA OthersEffect ==
    ASSUME TypeOK, Others
    PROVE  Restarted \/ (disk'.daily = disk.daily /\ pc' \in Idle)
<1>0. CloneType /\ run \in Runs /\ disk \in States /\ run.at \in 0..MaxTime
  BY TypeParts DEF CloneType, Runs
<1>1. /\ run \in Runs /\ NoDaily \in Runs
      /\ \A phase \in Phases : Failed(phase) \in Runs
  BY <1>0, FailedEffect, NoDailyEffect DEF SameRun
<1>2. ASSUME NEW d \in States, d.daily = disk.daily, NEW done \in Runs, NEW undone \in Runs,
             NEW there \in Idle, NEW elsewhere \in Idle,
             Checkpoint(d, done, there, undone, elsewhere)
      PROVE  Restarted \/ (disk'.daily = disk.daily /\ pc' \in Idle)
  <2>1. there \in Places /\ elsewhere \in Places
    BY DEF Idle, Places
  <2>2. Saved(d, done, there) \/ NotSaved(d, undone, elsewhere) \/ Restarted
    BY <1>0, <1>2, <2>1, CheckpointEffect
  <2> QED
    BY <1>2, <2>2 DEF Saved, NotSaved
<1>3. ASSUME NEW r, NEW where \in Idle, Proceed(r, where)
      PROVE  disk'.daily = disk.daily /\ pc' \in Idle
  BY <1>3 DEF Proceed, Goto
<1>4. CASE SourceCheck \/ SaveDaily \/ PublishRepository \/ RecordQuestion \/ NothingToSend
  BY <1>0, <1>1, <1>2, <1>3, <1>4
  DEF SourceCheck, SaveDaily, PublishRepository, RecordQuestion, NothingToSend, Idle, Phases
<1>5. CASE Ask
  BY <1>0, <1>1, <1>2, <1>3, <1>5, AskingEffect DEF Ask, Idle
<1> QED
  BY <1>4, <1>5 DEF Others

\* The record of the Daily on disk becomes st; with its push the run goes on at
\* there, and without it the phase has failed.
Records(st, there) ==
    /\ disk' \in States
    /\ disk'.daily[Window].status = st /\ disk'.daily[Window].draft = run.draft
    /\ \A w \in Windows \ {Window} : disk'.daily[w] = disk.daily[w]
    /\ disk'.success = disk.success
    /\ remote' \in {remote, disk'}
    /\ SameRun(run', run)
    /\ \/ /\ pc' = there /\ run'.commit = disk'
          /\ run'.failed = run.failed /\ run'.draft = run.draft /\ run'.outcome = run.outcome
          /\ run.commit = disk /\ disk.daily[Window].status # st => remote' = disk'
       \/ pc' = "record" /\ run'.failed = run.failed \cup {"telegram_delivery"}

\* What the checkpoints of deliver can do.
LEMMA RecordsEffect ==
    ASSUME TypeOK, NEW st \in Statuses, NEW there \in Places,
           Checkpoint(Recorded(st), run, there, Failed("telegram_delivery"), "record")
    PROVE  Records(st, there) \/ Restarted
<1>0. CloneType /\ run \in Runs /\ disk \in States
  BY TypeParts DEF CloneType
<1>1. /\ SameRun(Failed("telegram_delivery"), run) /\ SameRun(run, run)
      /\ Failed("telegram_delivery").failed = run.failed \cup {"telegram_delivery"}
  BY <1>0, FailedEffect DEF SameRun, Phases
<1>2. PICK d \in States : d = Recorded(st)
  BY <1>0, RecordedEffect
<1>3. /\ d.daily[Window].status = st /\ d.daily[Window].draft = run.draft
      /\ \A w \in Windows \ {Window} : d.daily[w] = disk.daily[w]
      /\ d.success = disk.success
  BY <1>0, <1>2, RecordedEffect
<1>4. Saved(d, run, there) \/ NotSaved(d, Failed("telegram_delivery"), "record") \/ Restarted
  <2>1. Checkpoint(d, run, there, Failed("telegram_delivery"), "record")
    BY <1>2
  <2>2. Failed("telegram_delivery") \in Runs /\ "record" \in Places
    BY <1>1 DEF SameRun, Places
  <2> QED
    BY <1>0, <2>1, <2>2, CheckpointEffect
<1> HIDE DEF Window
<1> QED
  BY <1>1, <1>3, <1>4 DEF Saved, NotSaved, Records, SameRun

\* A Daily that is in the chat was delivered by the history of the branch.
LEMMA DailyInit == ASSUME Init PROVE DailyInv
<1>1. WindowAt(0) = 0
  BY TickAssumption DEF WindowAt
<1>2. /\ pc = "off"
      /\ \A w \in Windows : posted[w] = IF remote.daily[w].status = "delivered" THEN 1 ELSE 0
  BY DEF Init
<1> QED
  BY <1>2 DEF DailyInv, DailyPostedOnce, Shows

\* The run is not sending the Daily after the step.
LEMMA DailyIdle ==
    ASSUME DailyInv, UNCHANGED posted, remote' \in {remote, disk'} \/ remote' = disk, pc # "off",
           pc' # "off" => disk'.daily \in {remote.daily, disk.daily},
           pc' = "off" => remote' \in {remote, disk},
           pc' \notin {"prepared", "sending", "result"}
    PROVE  DailyInv'
BY DEF DailyInv, DailyPostedOnce, Shows

\* The checkpoints of deliver never let a Daily that may have been sent be sent
\* again.
LEMMA DailyPrepare ==
    ASSUME TypeOK, DailyInv, RecoverDaily \/ PrepareDelivery \/ BeginSending \/ RecordDaily
    PROVE  DailyInv'
<1>0. /\ CloneType /\ run \in Runs /\ run.outcome \in Statuses /\ disk \in States
      /\ Window \in Windows /\ posted \in [Windows -> Nat] /\ UNCHANGED posted /\ pc # "off"
  BY TypeParts, WindowsOfTimes
  DEF Window, CloneType, SeenType, Runs, Seen, RecoverDaily, PrepareDelivery, BeginSending, RecordDaily
<1>1. CASE Restarted
  BY <1>0, <1>1, DailyIdle DEF Restarted
<1>2. ASSUME NEW st \in Statuses, NEW there, Records(st, there),
             posted[Window] > 0 => st \in {"sending", "delivered", "ambiguous"},
             there \notin {"prepared", "sending", "result"} \/ pc' = "record"
      PROVE  DailyInv'
  <2>1. Shows(disk)'
    BY <1>0, <1>2 DEF Records, Shows, DailyInv
  <2>2. pc' = there \/ pc' = "record"
    BY <1>2 DEF Records
  <2>3. Shows(remote)'
    BY <1>0, <1>2, <2>1 DEF Records, Shows, DailyInv
  <2> QED
    BY <1>0, <1>2, <2>1, <2>2, <2>3 DEF DailyInv, DailyPostedOnce
<1>3. CASE RecoverDaily
  BY <1>1, <1>2, <1>3, RecordsEffect DEF RecoverDaily, Statuses, Places
<1>4. CASE RecordDaily
  BY <1>0, <1>1, <1>2, <1>4, RecordsEffect DEF RecordDaily, Places, DailyInv
<1>5. CASE PrepareDelivery
  <2>1. ~(posted[Window] > 0)
    BY <1>0, <1>5 DEF PrepareDelivery, Sendable, DailyInv, Shows
  <2>2. Records("prepared", "prepared") \/ Restarted
    BY <1>5, RecordsEffect DEF PrepareDelivery, Statuses, Places
  <2>3. CASE Records("prepared", "prepared") /\ pc' = "prepared"
    <3>1. Shows(disk)' /\ Window' = Window
      BY <1>0, <2>1, <2>3 DEF Records, Shows, DailyInv, SameRun, Window
    <3>2. Shows(remote)'
      BY <1>0, <2>3, <3>1 DEF Records, Shows, DailyInv
    <3>3. disk'.daily[Window].status = "prepared" /\ run'.commit = disk'
      BY <2>3 DEF Records
    <3> HIDE DEF Window
    <3> QED
      BY <1>0, <2>3, <3>1, <3>2, <3>3 DEF DailyInv, DailyPostedOnce
  <2> QED
    BY <1>1, <1>2, <2>1, <2>2, <2>3 DEF Statuses, Records
<1>6. CASE BeginSending
  <2>1. ~(posted[Window] > 0) /\ posted[Window] = 0
    BY <1>0, <1>6 DEF BeginSending, DailyInv, Shows
  <2>2. Records("sending", "sending") \/ Restarted
    BY <1>6, RecordsEffect DEF BeginSending, Statuses, Places
  <2>3. CASE Records("sending", "sending") /\ pc' = "sending"
    <3>1. Shows(disk)' /\ Window' = Window
      BY <1>0, <2>1, <2>3 DEF Records, Shows, DailyInv, SameRun, Window
    <3>2. remote' = disk'
      BY <1>6, <2>3 DEF Records, BeginSending, DailyInv
    <3>3. disk'.daily[Window].status = "sending"
      BY <2>3 DEF Records
    <3> HIDE DEF Window
    <3> QED
      BY <1>0, <2>1, <2>3, <3>1, <3>2, <3>3 DEF DailyInv, DailyPostedOnce
  <2> QED
    BY <1>1, <1>2, <2>1, <2>2, <2>3 DEF Statuses, Records
<1> QED
  BY <1>3, <1>4, <1>5, <1>6

\* The Daily is sent once, behind the pushed entry "sending".
LEMMA DailyPost == ASSUME TypeOK, DailyInv, PostDaily PROVE DailyInv'
<1>0. /\ run \in Runs /\ Window \in Windows /\ posted \in [Windows -> Nat]
      /\ posted[Window] = 0 /\ pc = "sending"
      /\ disk.daily[Window].status = "sending" /\ remote.daily[Window].status = "sending"
  BY TypeParts, WindowsOfTimes DEF Window, CloneType, SeenType, Runs, DailyInv, PostDaily
<1>1. PICK outcome \in {"delivered", "failed", "ambiguous"}, arrived \in 0..1 :
         /\ outcome = "failed" => arrived = 0
         /\ Proceed([run EXCEPT !.outcome = outcome], "result")
         /\ posted' = [posted EXCEPT ![Window] = posted[Window] + arrived]
  BY DEF PostDaily
<1>2. run'.outcome = outcome /\ run'.at = run.at
  BY <1>0, <1>1 DEF Proceed, Runs
<1>3. disk' = disk /\ remote' = remote /\ pc' = "result"
  BY <1>1 DEF Proceed, Goto
<1>4. posted'[Window] = arrived /\ \A w \in Windows \ {Window} : posted'[w] = posted[w]
  BY <1>0, <1>1
<1>5. Window' = Window
  BY <1>2 DEF Window
<1> HIDE DEF Window
<1>6. DailyPostedOnce' /\ Shows(remote)' /\ Shows(disk)'
  BY <1>0, <1>3, <1>4 DEF DailyInv, DailyPostedOnce, Shows
<1>7. posted'[Window] > 0 => run'.outcome \in {"delivered", "ambiguous"}
  BY <1>1, <1>2, <1>4
<1> QED
  BY <1>0, <1>3, <1>5, <1>6, <1>7 DEF DailyInv

\* Every step keeps the record of the Dailies above what is in the chat.
LEMMA DailyNext == ASSUME TypeOK, DailyInv, [Next]_vars PROVE DailyInv'
<1>0. CloneType /\ run \in Runs
  BY TypeParts DEF CloneType
<1>1. ASSUME Restarted, UNCHANGED posted, pc # "off" PROVE DailyInv'
  BY <1>1, DailyIdle DEF Restarted
<1>2. CASE Moves
  BY <1>1, <1>2, MoveEffect, DailyIdle
  DEF Moved, Early, Seen, Moves, TelegramIntake, KnowledgeRefresh, Validate, NothingDue,
      CollectEvidence, SelectContext
<1>3. CASE Others
  <2>1. (Worked \/ Restarted) /\ UNCHANGED posted /\ pc # "off"
    BY <1>3, SaveEffect DEF Saves, Others, Seen
  <2>2. Restarted \/ (disk'.daily = disk.daily /\ pc' \in Idle)
    BY <1>3, OthersEffect
  <2> QED
    BY <1>1, <2>1, <2>2, DailyIdle DEF Worked, Idle
<1>4. CASE RecoverDaily \/ PrepareDelivery \/ BeginSending \/ RecordDaily
  BY <1>4, DailyPrepare
<1>5. CASE PostDaily
  BY <1>5, DailyPost
<1>6. CASE CountAttempt
  <2>1. UNCHANGED posted /\ pc # "off"
    BY <1>6 DEF CountAttempt, Seen
  <2>2. CASE Exhausted(disk, Window)
    BY <1>6, <2>1, <2>2, DailyIdle DEF CountAttempt, Proceed, Goto
  <2>3. CASE ~Exhausted(disk, Window)
    <3>1. PICK n : Checkpoint([disk EXCEPT !.attempts = [window |-> Window, count |-> n]],
                              run, "model", NoDaily, "publish")
      BY <1>6, <2>3 DEF CountAttempt
    <3>2. \/ /\ remote' \in {remote, disk'}
             /\ disk'.daily = disk.daily
             /\ pc' \in {"model", "publish"}
          \/ Conflict
      BY <1>0, <3>1 DEF Checkpoint, Pushed, Goto, CloneType, States
    <3> QED
      BY <1>0, <1>1, <2>1, <3>2, DailyIdle, ConflictEffect
  <2> QED
    BY <2>2, <2>3
<1>7. CASE AcceptDraft \/ ReviseDraft \/ RejectDraft \/ PostQuestion
  <2>1. /\ remote' = remote /\ disk' = disk /\ UNCHANGED posted /\ pc # "off"
        /\ pc' \in {"artifact", "count", "publish", "asked", "unasked"}
    BY <1>7 DEF AcceptDraft, ReviseDraft, RejectDraft, PostQuestion, CallModel, Proceed, Goto
  <2> QED
    BY <2>1, DailyIdle
<1>8. CASE StageTriggered \/ RecordSuccess
  <2>1. disk'.daily = disk.daily
    BY <1>0, <1>8 DEF StageTriggered, RecordSuccess, CloneType, States
  <2>2. /\ remote' = remote /\ UNCHANGED posted /\ pc # "off"
        /\ pc' \in {"deliver", "final"}
    BY <1>8 DEF StageTriggered, RecordSuccess, Goto, Seen
  <2> QED
    BY <2>1, <2>2, DailyIdle
<1>9. CASE FinalCheckpoint
  <2>1. CASE Conflict
    BY <1>0, <1>1, <1>9, <2>1, ConflictEffect DEF FinalCheckpoint, Seen
  <2>2. CASE ~Conflict
    <3>1. remote' \in {remote, disk} /\ pc' = "off" /\ pc # "off" /\ UNCHANGED posted
      BY <1>9, <2>2 DEF FinalCheckpoint, Pushed, Stop, Goto, Seen
    <3> QED
      BY <3>1 DEF DailyInv, DailyPostedOnce, Shows
  <2> QED
    BY <2>1, <2>2
<1>10. CASE Crash
  BY <1>0, <1>1, <1>10, CrashEffect DEF Crash, Seen
<1>11. CASE Start
  BY <1>11, StartEffect DEF DailyInv, DailyPostedOnce, Shows
<1>12. CASE UNCHANGED vars
  BY <1>12 DEF vars, DailyInv, DailyPostedOnce, Shows, Window
<1> QED
  BY <1>2, <1>3, <1>4, <1>5, <1>6, <1>7, <1>8, <1>9, <1>10, <1>11, <1>12
  DEF Next, Worker, Moves, Others

\* The Daily of a window reaches the chat at most once.
THEOREM DailyOnce == Spec => []DailyPostedOnce
<1>1. Init => DailyInv
  BY DailyInit
<1>2. TypeOK /\ DailyInv /\ [Next]_vars => DailyInv'
  BY DailyNext
<1>3. DailyInv => DailyPostedOnce
  BY DEF DailyInv
<1> QED
  BY <1>1, <1>2, <1>3, TypeCorrect, PTL DEF Spec

-----------------------------------------------------------------------------
(* A recorded Daily is on file *)

\* The branch of a repository in use is on file.
LEMMA FileInit == ASSUME Init PROVE FileInv
<1>1. ASSUME NEW d \in Drafts PROVE OnFile(InUse(d))
  <2>1. WindowAt(0) = 0 /\ 0 \in Windows
    <3>1. WindowAt(0) = 0 /\ 0 \in 0..MaxTime
      BY TickAssumption DEF WindowAt
    <3> QED
      BY <3>1, WindowsOfTimes
  <2>2. NewState.daily = [w \in Windows |-> Attempt("none", NoDraft)]
        /\ NewState.success \in [Layers -> {Never}]
    BY DEF NewState
  <2>3. InUse(d).success.L4 = 0
    BY DEF InUse, NewState, Layers
  <2>4. InUse(d).daily = [NewState.daily EXCEPT ![0] = Attempt("delivered", d)]
    BY DEF InUse, NewState
  <2>5. /\ InUse(d).daily[0].status = "delivered"
        /\ \A w \in Windows \ {0} : InUse(d).daily[w].draft = NoDraft
    BY <2>1, <2>2, <2>4 DEF Attempt
  <2> HIDE DEF InUse
  <2> QED
    BY <2>1, <2>3, <2>5 DEF OnFile
<1>2. OnFile(NewState)
  BY DEF OnFile, NewState, Layers, Attempt
<1> QED
  BY <1>1, <1>2 DEF Init, FileInv

\* Whatever the run does next, its clone is as good a file as it was.
LEMMA OnFileKept ==
    ASSUME NEW d, NEW e, OnFile(d), e.success = d.success, e.daily = d.daily
    PROVE  OnFile(e)
BY DEF OnFile

\* A phase of the Daily that fails leaves nothing to be recorded.
LEMMA FailedDaily ==
    ASSUME NEW phase \in {"validate", "daily_prepare"}, phase \in run'.failed
    PROVE  Prepared'
BY DEF Prepared, DailyDue

\* The phases before the publication: the Daily is due to be prepared, or a phase
\* has failed, or it was delivered before.
LEMMA FileMoves == ASSUME TypeOK, FileInv, Moves PROVE FileInv'
<1>0. run \in Runs
  BY TypeParts DEF CloneType
<1>1. (Moved \/ Restarted) /\ pc # "off"
  BY MoveEffect DEF Moves, TelegramIntake, KnowledgeRefresh, Validate, NothingDue,
                    CollectEvidence, SelectContext
<1>2. CASE Restarted
  BY <1>1, <1>2 DEF Restarted, FileInv
<1>3. CASE Moved
  <2>1. pc' = "publish" => Prepared'
    <3>1. CASE TelegramIntake
      BY <1>3, <3>1 DEF TelegramIntake, Proceed, Goto, Conflict, Begin, Stop, Moved
    <3>2. CASE KnowledgeRefresh \/ NothingDue
      BY <1>3, <3>2 DEF KnowledgeRefresh, NothingDue, Moved, SameRun, Prepared, DailyDue
    <3>3. CASE Validate
      <4>1. Failed("validate").failed = run.failed \cup {"validate"}
        BY <1>0, FailedEffect DEF Phases
      <4> QED
        BY <3>3, <4>1, FailedDaily DEF Validate, Proceed, Goto
    <3>4. CASE CollectEvidence
      BY <1>0, <3>4, NoDailyEffect, FailedDaily DEF CollectEvidence, Proceed, Goto
    <3>5. CASE SelectContext
      <4>1. CASE run' = NoDaily
        BY <1>0, <4>1, NoDailyEffect, FailedDaily
      <4>2. CASE run' # NoDaily
        BY <1>3, <3>5, <4>2
        DEF SelectContext, Proceed, Goto, Moved, Prepared, AlreadyDelivered, Window
      <4> QED
        BY <4>1, <4>2
    <3> QED
      BY <3>1, <3>2, <3>3, <3>4, <3>5 DEF Moves
  <2> QED
    BY <1>1, <1>3, <2>1 DEF Moved, FileInv
<1> QED
  BY <1>1, <1>2, <1>3

\* A checkpoint that records nothing about a Daily, with the memory of the run
\* done or undone.
LEMMA FileSaved ==
    ASSUME TypeOK, FileInv, pc # "off", NEW d \in States, OnFile(d), NEW done \in Runs, NEW undone \in Runs,
           NEW there \in Places, NEW elsewhere \in Places,
           Checkpoint(d, done, there, undone, elsewhere)
    PROVE  \/ FileInv'
           \/ Saved(d, done, there) /\ OnFile(remote)' /\ OnFile(disk)'
           \/ NotSaved(d, undone, elsewhere) /\ OnFile(remote)' /\ OnFile(disk)'
<1>1. Saved(d, done, there) \/ NotSaved(d, undone, elsewhere) \/ Restarted
  BY TypeParts, CheckpointEffect
<1>2. CASE Restarted
  BY <1>2 DEF Restarted, FileInv
<1>3. CASE Saved(d, done, there) \/ NotSaved(d, undone, elsewhere)
  <2>1. disk' = d /\ remote' \in {remote, d}
    BY <1>3 DEF Saved, NotSaved
  <2>2. OnFile(remote)' /\ OnFile(disk)'
    BY <2>1 DEF FileInv, OnFile
  <2> QED
    BY <1>3, <2>2
<1> QED
  BY <1>1, <1>2, <1>3

\* Checkpoints that record nothing about the Daily keep what was prepared.
LEMMA FileOthers == ASSUME TypeOK, FileInv, Others PROVE FileInv'
<1>0. /\ CloneType /\ run \in Runs /\ disk \in States /\ run.at \in 0..MaxTime
      /\ pc # "off" /\ OnFile(disk)
  BY TypeParts
  DEF CloneType, Runs, FileInv, Others, SourceCheck, SaveDaily, PublishRepository, Ask,
      RecordQuestion, NothingToSend
<1>1. /\ NoDaily \in Runs
      /\ \A phase \in Phases : /\ SameRun(Failed(phase), run)
                               /\ run.failed \subseteq Failed(phase).failed
                               /\ Failed(phase).draft = run.draft
  BY <1>0, FailedEffect, NoDailyEffect DEF SameRun
<1>2. SameRun(run, run)
  BY <1>0 DEF SameRun
<1> DEFINE Kept(p) ==
             /\ OnFile(remote)' /\ OnFile(disk)' /\ disk'.daily = disk.daily
             /\ SameRun(run', run) /\ run.failed \subseteq run'.failed /\ run'.draft = run.draft
             /\ pc' = p
\* A step that keeps the draft and the record of the Daily.
<1>3. ASSUME NEW d \in States, d.success = disk.success, d.daily = disk.daily,
             NEW done \in {run} \cup {Failed(phase) : phase \in Phases},
             NEW undone \in {run} \cup {Failed(phase) : phase \in Phases},
             NEW there \in Places, NEW elsewhere \in Places,
             Checkpoint(d, done, there, undone, elsewhere)
      PROVE  FileInv' \/ Kept(there) \/ Kept(elsewhere)
  <2>1. done \in Runs /\ undone \in Runs
    BY <1>1, <1>2, <1>3 DEF SameRun
  <2>2. OnFile(d)
    BY <1>0, <1>3, OnFileKept
  <2>3. \/ FileInv'
        \/ Saved(d, done, there) /\ OnFile(remote)' /\ OnFile(disk)'
        \/ NotSaved(d, undone, elsewhere) /\ OnFile(remote)' /\ OnFile(disk)'
    BY <1>0, <1>3, <2>1, <2>2, FileSaved
  <2> QED
    BY <1>1, <1>2, <1>3, <2>3 DEF Saved, NotSaved, SameRun
<1>4. ASSUME NEW where \in Places, Proceed(run, where) PROVE Kept(where)
  BY <1>0, <1>2, <1>4 DEF Proceed, Goto, FileInv
\* What was prepared stays so.
<1>5. ASSUME NEW p, Kept(p), Prepared PROVE Prepared'
  <2>1. Window' = Window
    BY <1>5 DEF SameRun, Window
  <2> HIDE DEF Window
  <2> QED
    BY <1>5, <2>1 DEF SameRun, Prepared, DailyDue, AlreadyDelivered
<1>6. ASSUME NEW p \in {"publish", "question", "asking", "asked", "unasked", "staging", "deliver"},
             Kept(p), Prepared
      PROVE  FileInv'
  BY <1>5, <1>6 DEF FileInv
<1>7. CASE SourceCheck
  <2>1. Prepared
    BY <1>7 DEF SourceCheck, Prepared, DailyDue
  <2>2. FileInv' \/ Kept("publish")
    BY <1>0, <1>3, <1>7 DEF SourceCheck, Phases, Places
  <2> QED
    BY <1>6, <2>1, <2>2
<1>8. CASE SaveDaily
  <2>1. run.draft # NoDraft
    BY <1>8 DEF SaveDaily, FileInv
  <2>2. CASE Proceed(NoDaily, "publish")
    BY <1>0, <2>2, NoDailyEffect, FailedDaily DEF Proceed, Goto, FileInv
  <2>3. CASE Checkpoint(disk, run, "publish", NoDaily, "publish")
    <3>1. \/ FileInv'
          \/ Saved(disk, run, "publish") /\ OnFile(remote)' /\ OnFile(disk)'
          \/ NotSaved(disk, NoDaily, "publish") /\ OnFile(remote)' /\ OnFile(disk)'
      BY <1>0, <1>1, <2>3, FileSaved DEF Places
    <3>2. CASE Saved(disk, run, "publish") /\ OnFile(remote)' /\ OnFile(disk)'
      BY <2>1, <3>2 DEF Saved, FileInv, Prepared
    <3>3. CASE NotSaved(disk, NoDaily, "publish") /\ OnFile(remote)' /\ OnFile(disk)'
      BY <1>0, <3>3, NoDailyEffect, FailedDaily DEF NotSaved, FileInv
    <3> QED
      BY <3>1, <3>2, <3>3
  <2> QED
    BY <1>8, <2>2, <2>3 DEF SaveDaily
<1>9. CASE PublishRepository
  <2>1. Prepared
    BY <1>9 DEF PublishRepository, FileInv
  <2>2. FileInv' \/ Kept(IF run.observe THEN "record" ELSE "question")
    BY <1>0, <1>3, <1>9 DEF PublishRepository, Phases, Places
  <2>3. CASE Kept("record") /\ run.observe
    BY <2>3 DEF FileInv, SameRun
  <2> QED
    BY <1>6, <2>1, <2>2, <2>3
<1>10. CASE Ask
  <2>1. Prepared
    BY <1>10 DEF Ask, FileInv
  <2>2. FileInv' \/ Kept("asking") \/ Kept("deliver")
    BY <1>0, <1>3, <1>4, <1>10, AskingEffect DEF Ask, Places
  <2> QED
    BY <1>6, <2>1, <2>2
<1>11. CASE RecordQuestion
  <2>1. Prepared
    BY <1>11 DEF RecordQuestion, FileInv
  <2>2. FileInv' \/ Kept("staging") \/ Kept("deliver")
    BY <1>0, <1>3, <1>11 DEF RecordQuestion, Places
  <2> QED
    BY <1>6, <2>1, <2>2
<1>12. CASE NothingToSend
  <2>1. Kept("record") /\ disk' = disk /\ run' = run
    BY <1>4, <1>12 DEF NothingToSend, Places, Proceed
  <2>2. Window \in Windows
    BY <1>0, WindowsOfTimes DEF Window
  <2>3. ASSUME DailyDue({"validate", "daily_prepare", "telegram_delivery"})
        PROVE  disk.daily[Window].status # "none"
    <3>1. Prepared /\ ~Sendable
      BY <1>12 DEF NothingToSend, FileInv
    <3>2. run.draft # NoDraft \/ AlreadyDelivered
      BY <2>3, <3>1 DEF Prepared, DailyDue
    <3> QED
      BY <1>0, <2>2, <3>1, <3>2 DEF Sendable, AlreadyDelivered, OnFile
  <2> QED
    BY <2>1, <2>3 DEF FileInv, DailyDue, Window
<1> QED
  BY <1>7, <1>8, <1>9, <1>10, <1>11, <1>12 DEF Others

\* The checkpoints of deliver leave a record, or the phase has failed.
LEMMA FileRecords ==
    ASSUME TypeOK, FileInv, RecoverDaily \/ PrepareDelivery \/ BeginSending \/ RecordDaily
    PROVE  FileInv'
<1>0. /\ run \in Runs /\ run.outcome \in Statuses /\ disk \in States /\ remote \in States
      /\ Window \in Windows /\ pc # "off" /\ OnFile(disk)
  BY TypeParts, WindowsOfTimes
  DEF Window, CloneType, Runs, FileInv, RecoverDaily, PrepareDelivery, BeginSending, RecordDaily
<1>1. CASE Restarted
  BY <1>0, <1>1 DEF Restarted, FileInv
<1>2. run.draft # NoDraft
  BY DEF RecoverDaily, PrepareDelivery, BeginSending, RecordDaily, Sendable, FileInv
<1>3. ASSUME NEW st \in Statuses \ {"none"}, NEW there \in {"prepared", "sending", "record"},
             Records(st, there)
      PROVE  FileInv'
  <2>1. OnFile(disk)'
    <3>1. disk.success.L4 # Never => WindowAt(disk.success.L4) \in Windows
      BY <1>0, WindowsOfTimes DEF States, Times, Layers
    <3>2. disk'.success.L4 = disk.success.L4
      BY <1>3 DEF Records
    <3>3. \A w \in Windows : /\ disk'.daily[w].status = "none" => disk.daily[w].status = "none"
                             /\ disk'.daily[w].status = "none" => disk'.daily[w] = disk.daily[w]
      BY <1>3 DEF Records
    <3> HIDE DEF WindowAt
    <3> QED
      BY <1>0, <3>1, <3>2, <3>3 DEF OnFile
  <2>2. OnFile(remote)'
    BY <1>3, <2>1 DEF Records, OnFile, FileInv
  <2>3. Window' = Window
    BY <1>3 DEF Records, SameRun, Window
  <2> HIDE DEF Window
  <2>4. disk'.daily[Window'].status # "none"
    BY <1>3, <2>3 DEF Records
  <2>5. \/ pc' = there /\ run'.draft = run.draft
        \/ pc' = "record"
    BY <1>3 DEF Records
  <2> QED
    BY <1>2, <1>3, <2>1, <2>2, <2>4, <2>5 DEF FileInv
<1>4. CASE RecoverDaily
  BY <1>1, <1>3, <1>4, RecordsEffect DEF RecoverDaily, Statuses, Places
<1>5. CASE PrepareDelivery
  BY <1>1, <1>3, <1>5, RecordsEffect DEF PrepareDelivery, Statuses, Places
<1>6. CASE BeginSending
  BY <1>1, <1>3, <1>6, RecordsEffect DEF BeginSending, Statuses, Places
<1>7. CASE RecordDaily
  <2>1. run.outcome # "none"
    BY <1>7 DEF RecordDaily, FileInv
  <2> QED
    BY <1>0, <1>1, <1>3, <1>7, <2>1, RecordsEffect DEF RecordDaily, Places
<1> QED
  BY <1>4, <1>5, <1>6, <1>7

\* When a run completes the layer of the Daily.
LEMMA CompletedDaily ==
    Completed("L4") <=> /\ run.layer = "L4" /\ ~run.observe
                        /\ DailyDue({"validate", "daily_prepare", "telegram_delivery"})
BY Zenon DEF Completed, DailyDue

\* A run that completes the layer of the Daily has its record on disk.
LEMMA FileRecord == ASSUME TypeOK, FileInv, RecordSuccess PROVE FileInv'
<1>0. disk \in States /\ run \in Runs /\ OnFile(disk) /\ pc = "record"
  BY TypeParts DEF CloneType, FileInv, RecordSuccess
<1>1. pc' = "final" /\ remote' = remote
  BY DEF RecordSuccess, Goto
<1>2. OnFile(disk)'
  <2>1. CASE BaseOk
    <3> DEFINE f == [y \in Layers |-> IF Completed(y) THEN run.at ELSE disk.success[y]]
    <3>1. disk' = [disk EXCEPT !.success = f]
      BY <2>1 DEF RecordSuccess
    <3>2. f.L4 = IF Completed("L4") THEN run.at ELSE disk.success.L4
      BY DEF Layers
    <3>3. f \in [Layers -> Times]
      BY <1>0 DEF Runs, States, Times
    <3> HIDE DEF f
    <3>4. disk'.success = f /\ disk'.daily = disk.daily
      BY <1>0, <3>1, <3>3, SuccessEffect
    <3>5. CASE Completed("L4")
      <4>1. disk.daily[WindowAt(run.at)].status # "none"
        BY <1>0, <3>5, CompletedDaily DEF FileInv, Window
      <4>2. disk'.success.L4 = run.at
        BY <3>2, <3>4, <3>5
      <4> HIDE DEF WindowAt
      <4> QED
        BY <1>0, <3>4, <4>1, <4>2 DEF OnFile
    <3>6. CASE ~Completed("L4")
      <4>1. disk'.success.L4 = disk.success.L4
        BY <3>2, <3>4, <3>6
      <4> HIDE DEF WindowAt
      <4> QED
        BY <1>0, <3>4, <4>1 DEF OnFile
    <3> QED
      BY <3>5, <3>6
  <2>2. CASE ~BaseOk
    BY <1>0, <2>2 DEF RecordSuccess, OnFile
  <2> QED
    BY <2>1, <2>2
<1> QED
  BY <1>1, <1>2 DEF FileInv, OnFile

\* Every step keeps the file.
LEMMA FileNext == ASSUME TypeOK, FileInv, [Next]_vars PROVE FileInv'
<1>0. CloneType /\ run \in Runs /\ disk \in States /\ run.at \in 0..MaxTime
  BY TypeParts DEF CloneType, Runs
<1>1. ASSUME Restarted, pc # "off" PROVE FileInv'
  BY <1>1 DEF Restarted, FileInv
<1>2. CASE Moves
  BY <1>2, FileMoves
<1>3. CASE Others
  BY <1>3, FileOthers
<1>4. CASE RecoverDaily \/ PrepareDelivery \/ BeginSending \/ RecordDaily
  BY <1>4, FileRecords
<1>5. CASE CountAttempt
  <2>1. CASE Exhausted(disk, Window)
    BY <1>0, <1>5, <2>1, NoDailyEffect, FailedDaily DEF CountAttempt, Proceed, Goto, FileInv
  <2>2. CASE ~Exhausted(disk, Window)
    <3> DEFINE n == Attempts(disk, Window) + 1
    <3>1. n \in 0..MaxAttempts /\ Window \in Windows
      BY <1>0, <2>2, TickAssumption, WindowsOfTimes DEF Exhausted, Attempts, States, Window
    <3>2. Checkpoint([disk EXCEPT !.attempts = [window |-> Window, count |-> n]],
                     run, "model", NoDaily, "publish") /\ pc # "off"
      BY <1>5, <2>2 DEF CountAttempt
    <3> HIDE DEF n
    <3> DEFINE d == [disk EXCEPT !.attempts = [window |-> Window, count |-> n]]
    <3>3. d \in States /\ d.success = disk.success /\ d.daily = disk.daily
      <4>1. [disk EXCEPT !.attempts = [window |-> Window, count |-> n]].success = disk.success
        BY <1>0 DEF States
      <4>2. [disk EXCEPT !.attempts = [window |-> Window, count |-> n]].daily = disk.daily
        BY <1>0 DEF States
      <4>3. [disk EXCEPT !.attempts = [window |-> Window, count |-> n]] \in States
        BY <1>0, <3>1, CountedEffect
      <4> QED
        BY <4>1, <4>2, <4>3
    <3>4. OnFile(d)
      BY <3>2, <3>3, OnFileKept DEF FileInv
    <3>5. NoDaily \in Runs
      BY <1>0, NoDailyEffect DEF SameRun
    <3>6. Checkpoint(d, run, "model", NoDaily, "publish")
      BY <3>2
    <3> HIDE DEF d
    <3>7. \/ FileInv'
          \/ Saved(d, run, "model") /\ OnFile(remote)' /\ OnFile(disk)'
          \/ NotSaved(d, NoDaily, "publish") /\ OnFile(remote)' /\ OnFile(disk)'
      BY <1>0, <3>2, <3>3, <3>4, <3>5, <3>6, FileSaved DEF Places
    <3>8. CASE Saved(d, run, "model") /\ OnFile(remote)' /\ OnFile(disk)'
      BY <3>8 DEF Saved, FileInv
    <3>9. CASE NotSaved(d, NoDaily, "publish") /\ OnFile(remote)' /\ OnFile(disk)'
      BY <1>0, <3>9, NoDailyEffect, FailedDaily DEF NotSaved, FileInv
    <3> QED
      BY <3>7, <3>8, <3>9
  <2> QED
    BY <2>1, <2>2
<1>6. CASE AcceptDraft
  <2>1. ASSUME NEW d \in Drafts PROVE [run EXCEPT !.draft = d].draft # NoDraft
    BY <1>0, TickAssumption DEF Runs
  <2> QED
    BY <1>6, <2>1 DEF AcceptDraft, CallModel, Proceed, Goto, FileInv
<1>7. CASE ReviseDraft
  BY <1>7 DEF ReviseDraft, CallModel, Proceed, Goto, FileInv
<1>8. CASE RejectDraft
  BY <1>0, <1>8, NoDailyEffect, FailedDaily DEF RejectDraft, CallModel, Proceed, Goto, FileInv
<1>9. CASE PostQuestion
  BY <1>9 DEF PostQuestion, Proceed, Goto, FileInv, Prepared, DailyDue, AlreadyDelivered, Window
<1>10. CASE StageTriggered
  <2>1. disk'.daily = disk.daily /\ disk'.success = disk.success
    BY <1>0, <1>10, AskingEffect DEF StageTriggered
  <2>2. OnFile(disk)'
    BY <1>10, <2>1 DEF StageTriggered, FileInv, OnFile
  <2> QED
    BY <1>10, <2>1, <2>2
    DEF StageTriggered, Goto, FileInv, Prepared, DailyDue, AlreadyDelivered, Window
<1>11. CASE PostDaily
  <2>1. \A outcome \in {"delivered", "failed", "ambiguous"} :
           /\ [run EXCEPT !.outcome = outcome].outcome = outcome
           /\ [run EXCEPT !.outcome = outcome].draft = run.draft
    BY <1>0 DEF Runs
  <2> QED
    BY <1>11, <2>1 DEF PostDaily, Proceed, Goto, FileInv
<1>12. CASE RecordSuccess
  BY <1>12, FileRecord
<1>13. CASE FinalCheckpoint
  <2>1. CASE Conflict
    BY <1>0, <1>1, <1>13, <2>1, ConflictEffect DEF FinalCheckpoint
  <2>2. CASE ~Conflict
    BY <1>13, <2>2 DEF FinalCheckpoint, Pushed, Stop, Goto, FileInv, OnFile
  <2> QED
    BY <2>1, <2>2
<1>14. CASE Crash
  BY <1>0, <1>1, <1>14, CrashEffect DEF Crash
<1>15. CASE Start
  BY <1>15, StartEffect DEF FileInv
<1>16. CASE UNCHANGED vars
  BY <1>16 DEF vars, FileInv, OnFile, Prepared, DailyDue, AlreadyDelivered, Window
<1> QED
  BY <1>2, <1>3, <1>4, <1>5, <1>6, <1>7, <1>8, <1>9, <1>10, <1>11, <1>12, <1>13, <1>14, <1>15,
     <1>16 DEF Next, Worker, Moves, Others

\* L4 is recorded for a window only when delivery-state.json holds its Daily.
THEOREM DailyOnFile == Spec => []RecordedDailyIsOnFile
<1>1. Init => FileInv
  BY FileInit
<1>2. TypeOK /\ FileInv /\ [Next]_vars => FileInv'
  BY FileNext
<1>3. FileInv => RecordedDailyIsOnFile
  BY DEF FileInv, OnFile, RecordedDailyIsOnFile
<1> QED
  BY <1>1, <1>2, <1>3, TypeCorrect, PTL DEF Spec

-----------------------------------------------------------------------------
(* Questions are spaced *)

\* No question has been asked.
LEMMA QuestionInit == ASSUME Init PROVE QuestionInv
<1>1. question = Never /\ pc = "off"
  BY DEF Init
<1>2. remote.asked = Never
  <2>1. NewState.asked = Never
    BY DEF NewState
  <2>2. ASSUME NEW d \in Drafts PROVE InUse(d).asked = Never
    BY DEF InUse, NewState
  <2> QED
    BY <2>1, <2>2 DEF Init
<1> QED
  BY <1>1, <1>2 DEF QuestionInv, RecordedSpaced, Unasked

\* A replay knows the questions the branch knows.
LEMMA QuestionRestart ==
    ASSUME QuestionInv, Restarted, UNCHANGED question
    PROVE  QuestionInv'
BY DEF QuestionInv, RecordedSpaced, Restarted, Unasked

\* Which checkpoints lead to the question and to its staging.
LEMMA QuestionPlaces ==
    ASSUME TypeOK, Saves
    PROVE  \/ Restarted
           \/ /\ pc \in Unasked \/ pc' \notin Unasked
              /\ pc' = "asking" => MayAsk /\ pc = "question"
              /\ pc' = "staging" => pc = "asked"
              /\ pc' # "asked"
<1>1. Conflict => Restarted
  BY TypeParts, ConflictEffect
<1>2. ASSUME NEW d, NEW done, NEW undone, NEW there, NEW elsewhere,
             Checkpoint(d, done, there, undone, elsewhere)
      PROVE  pc' \in {there, elsewhere} \/ Restarted
  BY <1>1, <1>2 DEF Checkpoint, Goto
<1>3. CASE SourceCheck \/ SaveDaily \/ PublishRepository
  BY <1>2, <1>3 DEF SourceCheck, SaveDaily, PublishRepository, Proceed, Goto, Unasked
<1>4. CASE Ask \/ RecordQuestion \/ NothingToSend
  BY <1>2, <1>4 DEF Ask, RecordQuestion, NothingToSend, Proceed, Goto, Unasked
<1>5. CASE RecoverDaily \/ PrepareDelivery \/ BeginSending \/ RecordDaily
  BY <1>2, <1>5 DEF RecoverDaily, PrepareDelivery, BeginSending, RecordDaily, Unasked
<1> QED
  BY <1>3, <1>4, <1>5 DEF Saves

\* The checkpoints keep the questions apart: only Ask leads to one, and it looks at
\* the cooldown.
LEMMA QuestionSaves == ASSUME TypeOK, QuestionInv, Saves PROVE QuestionInv'
<1>0. (Worked \/ Restarted) /\ UNCHANGED question /\ pc # "off" /\ run.at \in Int
  BY SaveEffect, TypeParts DEF Seen, CloneType, Runs
<1>1. CASE Restarted
  BY <1>0, <1>1, QuestionRestart
<1>2. CASE Worked /\ ~Restarted
  <2>1. /\ pc \in Unasked \/ pc' \notin Unasked
        /\ pc' = "asking" => MayAsk /\ pc = "question"
        /\ pc' = "staging" => pc = "asked"
        /\ pc' # "asked"
    BY <1>2, QuestionPlaces
  <2>2. /\ disk'.asked = disk.asked
        /\ remote'.asked \in {remote.asked, disk.asked}
        /\ run'.at = run.at
    BY <1>2 DEF Worked, SameRun
  <2>3. RecordedSpaced'
    BY <1>0, <2>2 DEF QuestionInv, RecordedSpaced
  <2>4. pc' = "asking" => Elapsed(remote'.asked, run'.at, Cooldown)
    BY <2>1, <2>2 DEF QuestionInv, MayAsk, Unasked
  <2> QED
    BY <1>0, <2>1, <2>2, <2>3, <2>4 DEF QuestionInv, Unasked
<1> QED
  BY <1>0, <1>1, <1>2

\* A question reaches the chat.
LEMMA QuestionPost == ASSUME TypeOK, QuestionInv, PostQuestion PROVE QuestionInv'
<1>1. /\ remote' = remote /\ disk' = disk /\ run' = run
      /\ pc = "asking" /\ pc' \in {"asked", "unasked"}
      /\ question' \in {question, run.at}
      /\ pc' = "asked" => question' = run.at
  BY DEF PostQuestion, Proceed, Goto
<1>2. remote.asked \in Int /\ run.at \in Int /\ question \in Int
  BY TypeParts, TickAssumption DEF CloneType, SeenType, Runs, States, Times, Never
<1>3. RecordedSpaced'
  BY <1>1, <1>2 DEF QuestionInv, RecordedSpaced, Elapsed
<1> QED
  BY <1>1, <1>3 DEF QuestionInv, Unasked

\* Every step keeps the questions apart.
LEMMA QuestionNext == ASSUME TypeOK, QuestionInv, [Next]_vars PROVE QuestionInv'
<1>0. CloneType /\ run \in Runs /\ disk \in States /\ run.at \in 0..MaxTime
  BY TypeParts DEF CloneType, Runs
<1>1. CASE Moves
  <2>1. (Moved \/ Restarted) /\ UNCHANGED question
    BY <1>1, MoveEffect DEF Seen
  <2> QED
    BY <2>1, QuestionRestart
    DEF Moved, Early, SameRun, QuestionInv, RecordedSpaced, Unasked
<1>2. CASE Saves
  BY <1>2, QuestionSaves
<1>3. CASE CountAttempt
  <2>1. UNCHANGED question /\ pc = "count"
    BY <1>3 DEF CountAttempt, Seen
  <2>2. CASE Exhausted(disk, Window)
    <3>1. NoDaily.at = run.at
      BY <1>0, NoDailyEffect DEF SameRun
    <3> QED
      BY <1>3, <2>1, <2>2, <3>1
      DEF CountAttempt, Proceed, Goto, QuestionInv, RecordedSpaced, Unasked
  <2>3. CASE ~Exhausted(disk, Window)
    <3>1. PICK n : Checkpoint([disk EXCEPT !.attempts = [window |-> Window, count |-> n]],
                              run, "model", NoDaily, "publish")
      BY <1>3, <2>3 DEF CountAttempt
    <3>2. \/ /\ remote' \in {remote, disk'}
             /\ disk'.asked = disk.asked
             /\ pc' \in {"model", "publish"}
          \/ Conflict
      BY <1>0, <3>1 DEF Checkpoint, Pushed, Goto, CloneType, States
    <3> QED
      BY <1>0, <2>1, <3>2, ConflictEffect, QuestionRestart
      DEF QuestionInv, RecordedSpaced, Unasked
  <2> QED
    BY <2>2, <2>3
<1>4. CASE AcceptDraft \/ ReviseDraft \/ RejectDraft
  BY <1>4
  DEF AcceptDraft, ReviseDraft, RejectDraft, CallModel, Proceed, Goto, QuestionInv,
      RecordedSpaced, Unasked
<1>5. CASE PostQuestion
  BY <1>5, QuestionPost
<1>6. CASE StageTriggered
  <2>1. disk'.asked = run.at
    BY <1>0, <1>6, AskingEffect DEF StageTriggered
  <2> QED
    BY <1>6, <2>1 DEF StageTriggered, Goto, Seen, QuestionInv, RecordedSpaced, Unasked
<1>7. CASE PostDaily
  <2>1. run'.at = run.at
    BY <1>0, <1>7 DEF PostDaily, Proceed, Runs
  <2> QED
    BY <1>7, <2>1 DEF PostDaily, Proceed, Goto, QuestionInv, RecordedSpaced, Unasked
<1>8. CASE RecordSuccess
  <2>1. run'.at = run.at
    BY <1>0, <1>8, FinishedEffect DEF RecordSuccess, SameRun
  <2>2. disk'.asked = disk.asked
    BY <1>0, <1>8 DEF RecordSuccess, States
  <2> QED
    BY <1>8, <2>1, <2>2 DEF RecordSuccess, Goto, Seen, QuestionInv, RecordedSpaced, Unasked
<1>9. CASE FinalCheckpoint
  <2>1. CASE Conflict
    BY <1>0, <1>9, <2>1, ConflictEffect, QuestionRestart DEF FinalCheckpoint, Seen
  <2>2. CASE ~Conflict
    <3>1. remote' \in {remote, disk} /\ pc' = "off" /\ pc # "off" /\ UNCHANGED question
      BY <1>9, <2>2 DEF FinalCheckpoint, Pushed, Stop, Goto, Seen
    <3> QED
      BY <1>0, <3>1 DEF QuestionInv, RecordedSpaced, Unasked
  <2> QED
    BY <2>1, <2>2
<1>10. CASE Crash
  BY <1>0, <1>10, CrashEffect, QuestionRestart DEF Crash, Seen
<1>11. CASE Start
  BY <1>11, StartEffect DEF QuestionInv, RecordedSpaced, Unasked
<1>12. CASE UNCHANGED vars
  BY <1>12 DEF vars, QuestionInv, RecordedSpaced
<1> QED
  BY <1>1, <1>2, <1>3, <1>4, <1>5, <1>6, <1>7, <1>8, <1>9, <1>10, <1>11, <1>12
  DEF Next, Worker, Moves, Saves

-----------------------------------------------------------------------------
(* One question per tick *)

\* No question has been sent.
LEMMA AskingInit == ASSUME Init PROVE AskingInv
<1>1. question = Never /\ now = 0 /\ pc = "off"
  BY DEF Init
<1>2. remote.asking = Never
  <2>1. NewState.asking = Never
    BY DEF NewState
  <2>2. ASSUME NEW d \in Drafts PROVE InUse(d).asking = Never
    BY DEF InUse, NewState
  <2> QED
    BY <2>1, <2>2 DEF Init
<1> QED
  BY <1>1, <1>2 DEF AskingInv, Never

\* The numbers that AskingInv compares.
LEMMA AskingTypes ==
    ASSUME TypeOK
    PROVE  /\ CloneType /\ run \in Runs /\ disk \in States /\ run.commit \in States
           /\ run.at \in 0..MaxTime /\ run.at \in Int /\ now \in Int /\ question \in Int
           /\ remote.asking \in Int /\ disk.asking \in Int
<1>1. CloneType /\ SeenType
  BY TypeParts
<1>2. Times \subseteq Int /\ 0..MaxTime \subseteq Int
  BY TickAssumption DEF Times, Never
<1> QED
  BY <1>1, <1>2 DEF CloneType, SeenType, Runs, States

\* A replay finds the intents that the branch knows.
LEMMA AskingRestart ==
    ASSUME AskingInv, Restarted, pc # "off", UNCHANGED <<now, question>>
    PROVE  AskingInv'
BY DEF AskingInv, Restarted

\* A step of the clone alone that writes no intent.
LEMMA AskingKept ==
    ASSUME AskingInv, pc # "off", UNCHANGED <<now, question, remote>>,
           disk'.asking = disk.asking, run'.at = run.at, run'.commit = run.commit,
           pc' # "asking"
    PROVE  AskingInv'
BY DEF AskingInv

\* A checkpoint that writes no intent.
LEMMA AskingCheckpoint ==
    ASSUME TypeOK, AskingInv, pc # "off", UNCHANGED <<now, question>>,
           NEW d \in States, d.asking = disk.asking,
           NEW done, SameRun(done, run), NEW undone, SameRun(undone, run),
           NEW there \in Places \ {"asking"}, NEW elsewhere \in Places \ {"asking"},
           Checkpoint(d, done, there, undone, elsewhere)
    PROVE  AskingInv'
<1>0. CloneType /\ done \in Runs /\ undone \in Runs
  BY TypeParts DEF SameRun
<1>1. Saved(d, done, there) \/ NotSaved(d, undone, elsewhere) \/ Restarted
  BY <1>0, CheckpointEffect
<1>2. CASE Saved(d, done, there)
  BY <1>2, AskingTypes DEF Saved, SameRun, AskingInv
<1>3. CASE NotSaved(d, undone, elsewhere)
  BY <1>3, AskingTypes DEF NotSaved, SameRun, AskingInv
<1> QED
  BY <1>1, <1>2, <1>3, AskingRestart

\* The intent of this tick is new to the clone, and therefore to the branch once
\* it is pushed: no question of this tick can have been sent.
LEMMA AskingAsk == ASSUME TypeOK, AskingInv, Ask PROVE AskingInv'
<1>0. /\ CloneType /\ run \in Runs /\ disk \in States /\ run.at \in 0..MaxTime
      /\ pc = "question" /\ UNCHANGED <<now, question>>
  BY AskingTypes DEF Ask, Seen
<1>1. CASE Proceed(run, "deliver")
  BY <1>0, <1>1, AskingKept DEF Proceed, Goto
<1>2. CASE disk.asking # run.at /\ Checkpoint([disk EXCEPT !.asking = run.at], run, "asking", run, "deliver")
  <2> DEFINE d == [disk EXCEPT !.asking = run.at]
  <2>1. d \in States /\ d.asking = run.at
    BY <1>0, AskingEffect
  <2>2. Checkpoint(d, run, "asking", run, "deliver")
    BY <1>2
  <2> HIDE DEF d
  <2>3. Saved(d, run, "asking") \/ NotSaved(d, run, "deliver") \/ Restarted
    BY <1>0, <2>1, <2>2, CheckpointEffect DEF Places
  <2>4. CASE Saved(d, run, "asking")
    <3>1. question < run.at
      BY <1>0, <1>2, AskingTypes DEF AskingInv
    <3>2. d # run.commit
      BY <1>0, <1>2, <2>1 DEF AskingInv
    <3>3. remote' = d /\ disk' = d /\ run'.at = run.at
      BY <2>4, <3>2 DEF Saved, SameRun
    <3> QED
      BY <1>0, <2>1, <3>1, <3>3, AskingTypes DEF AskingInv
  <2>5. CASE NotSaved(d, run, "deliver")
    BY <1>0, <2>1, <2>5, AskingTypes DEF NotSaved, SameRun, AskingInv
  <2> QED
    BY <1>0, <2>3, <2>4, <2>5, AskingRestart
<1> QED
  BY <1>1, <1>2 DEF Ask

\* The other checkpoints write no intent.
LEMMA AskingSaves == ASSUME TypeOK, AskingInv, Saves PROVE AskingInv'
<1>0. /\ CloneType /\ run \in Runs /\ disk \in States /\ run.outcome \in Statuses
      /\ pc # "off" /\ UNCHANGED <<now, question>>
  BY SaveEffect, TypeParts DEF CloneType, Runs, Seen
<1>1. \A phase \in Phases : SameRun(Failed(phase), run) /\ Failed(phase).commit = run.commit
  BY <1>0, FailedEffect
<1>2. SameRun(NoDaily, run) /\ NoDaily.commit = run.commit /\ SameRun(run, run)
  BY <1>0, NoDailyEffect DEF SameRun
<1>3. ASSUME NEW r, SameRun(r, run), r.commit = run.commit,
             NEW where \in Places \ {"asking"}, Proceed(r, where)
      PROVE  AskingInv'
  BY <1>0, <1>3, AskingKept DEF Proceed, Goto, SameRun
<1>4. ASSUME NEW d \in States, d.asking = disk.asking, NEW done, SameRun(done, run),
             NEW undone, SameRun(undone, run), NEW there \in Places \ {"asking"},
             NEW elsewhere \in Places \ {"asking"},
             Checkpoint(d, done, there, undone, elsewhere)
      PROVE  AskingInv'
  BY <1>0, <1>4, AskingCheckpoint
<1>5. CASE SourceCheck \/ SaveDaily \/ PublishRepository
  BY <1>0, <1>1, <1>2, <1>3, <1>4, <1>5
  DEF SourceCheck, SaveDaily, PublishRepository, Places, Phases
<1>6. CASE RecordQuestion \/ NothingToSend
  BY <1>0, <1>1, <1>2, <1>3, <1>4, <1>6 DEF RecordQuestion, NothingToSend, Places
<1>7. CASE RecoverDaily \/ PrepareDelivery \/ BeginSending \/ RecordDaily
  <2>1. \A st \in Statuses : Recorded(st) \in States /\ Recorded(st).asking = disk.asking
    BY <1>0, RecordedEffect
  <2> QED
    BY <1>0, <1>1, <1>2, <1>4, <1>7, <2>1
    DEF RecoverDaily, PrepareDelivery, BeginSending, RecordDaily, Places, Phases, Statuses
<1>8. CASE Ask
  BY <1>8, AskingAsk
<1> QED
  BY <1>5, <1>6, <1>7, <1>8 DEF Saves

\* Every step keeps to one question per tick.
LEMMA AskingNext == ASSUME TypeOK, AskingInv, [Next]_vars PROVE AskingInv'
<1>0. CloneType /\ run \in Runs /\ disk \in States /\ run.at \in 0..MaxTime
  BY AskingTypes
<1>1. CASE Moves
  <2>1. (Moved \/ Restarted) /\ UNCHANGED <<now, question>>
    BY <1>1, MoveEffect DEF Seen
  <2>2. pc # "off"
    BY <1>1 DEF Moves, TelegramIntake, KnowledgeRefresh, Validate, NothingDue,
                CollectEvidence, SelectContext
  <2> QED
    BY <2>1, <2>2, AskingKept, AskingRestart DEF Moved, SameRun
<1>2. CASE Saves
  BY <1>2, AskingSaves
<1>3. CASE CountAttempt
  <2>0. UNCHANGED <<now, question>> /\ pc = "count"
    BY <1>3 DEF CountAttempt, Seen
  <2>1. SameRun(NoDaily, run) /\ NoDaily.commit = run.commit /\ SameRun(run, run)
    BY <1>0, NoDailyEffect DEF SameRun
  <2>2. CASE Exhausted(disk, Window)
    BY <1>3, <2>0, <2>1, <2>2, AskingKept DEF CountAttempt, Proceed, Goto, SameRun
  <2>3. CASE ~Exhausted(disk, Window)
    <3> DEFINE n == Attempts(disk, Window) + 1
               d == [disk EXCEPT !.attempts = [window |-> Window, count |-> n]]
    <3>1. n \in 0..MaxAttempts /\ Window \in Windows
      BY <1>0, <2>3, TickAssumption, WindowsOfTimes DEF Exhausted, Attempts, States, Window
    <3>2. Checkpoint(d, run, "model", NoDaily, "publish")
      BY <1>3, <2>3 DEF CountAttempt
    <3> HIDE DEF n
    <3>3. d \in States /\ d.asking = disk.asking
      <4>1. [disk EXCEPT !.attempts = [window |-> Window, count |-> n]].asking = disk.asking
        BY <1>0 DEF States
      <4>2. [disk EXCEPT !.attempts = [window |-> Window, count |-> n]] \in States
        BY <1>0, <3>1, CountedEffect
      <4> QED
        BY <4>1, <4>2
    <3> HIDE DEF d
    <3> QED
      BY <2>0, <2>1, <3>2, <3>3, AskingCheckpoint DEF Places
  <2> QED
    BY <2>2, <2>3
<1>4. CASE AcceptDraft \/ ReviseDraft \/ RejectDraft
  <2>1. /\ \A d \in Drafts : /\ [run EXCEPT !.draft = d].at = run.at
                             /\ [run EXCEPT !.draft = d].commit = run.commit
        /\ [run EXCEPT !.attempt = 2].at = run.at
        /\ [run EXCEPT !.attempt = 2].commit = run.commit
        /\ NoDaily.at = run.at /\ NoDaily.commit = run.commit
    BY <1>0, NoDailyEffect DEF Runs, SameRun
  <2> QED
    BY <1>4, <2>1, AskingKept
    DEF AcceptDraft, ReviseDraft, RejectDraft, CallModel, Proceed, Goto
<1>5. CASE PostQuestion
  <2>1. /\ remote' = remote /\ disk' = disk /\ run' = run /\ now' = now
        /\ pc = "asking" /\ pc' \in {"asked", "unasked"}
        /\ question' \in {question, run.at}
    BY <1>5 DEF PostQuestion, Proceed, Goto
  <2> QED
    BY <2>1, AskingTypes DEF AskingInv
<1>6. CASE StageTriggered
  <2>1. disk'.asking = disk.asking
    BY <1>0, <1>6, AskingEffect DEF StageTriggered
  <2> QED
    BY <1>6, <2>1, AskingKept DEF StageTriggered, Goto, Seen
<1>7. CASE PostDaily
  <2>1. run'.at = run.at /\ run'.commit = run.commit
    BY <1>0, <1>7 DEF PostDaily, Proceed, Runs
  <2> QED
    BY <1>7, <2>1, AskingKept DEF PostDaily, Proceed, Goto
<1>8. CASE RecordSuccess
  <2>1. run'.at = run.at /\ run'.commit = run.commit
    BY <1>0, <1>8 DEF RecordSuccess, Runs
  <2>2. disk'.asking = disk.asking
    BY <1>0, <1>8 DEF RecordSuccess, States
  <2> QED
    BY <1>8, <2>1, <2>2, AskingKept DEF RecordSuccess, Goto, Seen
<1>9. CASE FinalCheckpoint
  <2>1. CASE Conflict
    BY <1>0, <1>9, <2>1, ConflictEffect, AskingRestart DEF FinalCheckpoint, Seen
  <2>2. CASE ~Conflict
    <3>1. /\ remote' \in {remote, disk} /\ pc' = "off" /\ pc # "off"
          /\ UNCHANGED <<now, question>>
      BY <1>9, <2>2 DEF FinalCheckpoint, Pushed, Stop, Goto, Seen
    <3> QED
      BY <3>1, AskingTypes DEF AskingInv
  <2> QED
    BY <2>1, <2>2
<1>10. CASE Crash
  BY <1>0, <1>10, CrashEffect, AskingRestart DEF Crash, Seen
<1>11. CASE Start
  BY <1>11, StartEffect, AskingTypes DEF AskingInv
<1>12. CASE UNCHANGED vars
  BY <1>12 DEF vars, AskingInv
<1> QED
  BY <1>1, <1>2, <1>3, <1>4, <1>5, <1>6, <1>7, <1>8, <1>9, <1>10, <1>11, <1>12
  DEF Next, Worker, Moves, Saves

\* A question that reaches the chat after a recorded one is a cooldown later, and
\* no tick sends a second one, recorded or not.
THEOREM QuestionsApart == Spec => []QuestionsSpaced
<1>1. Init => QuestionInv /\ AskingInv
  BY QuestionInit, AskingInit
<1>2. TypeOK /\ QuestionInv /\ AskingInv /\ [Next]_vars => (QuestionInv /\ AskingInv)'
  BY QuestionNext, AskingNext
<1>3. QuestionInv /\ AskingInv => QuestionsSpaced
  BY DEF QuestionInv, AskingInv, RecordedSpaced, QuestionsSpaced
<1> QED
  BY <1>1, <1>2, <1>3, TypeCorrect, PTL DEF Spec
=============================================================================
