-------------------------------- MODULE Tick --------------------------------
(***************************************************************************)
(* One scheduled run of the bot: Scheduler.tick                            *)
(* (src/tawg_bot/scheduler.py) over the phases of _LivePipeline            *)
(* (src/tawg_bot/runtime.py), with the Daily digest (daily.py,             *)
(* daily_evidence.py), its limit of model requests                         *)
(* (daily_attempt_limit.py) and the busy question (busy_question.py).      *)
(*                                                                         *)
(* A run works on a disposable clone (repository_session.py) and pushes    *)
(* the whole working tree at every checkpoint.  A push refused because     *)
(* somebody else pushed first drops the clone and replays the run once,    *)
(* from the new head and with the same time; any other failure of a        *)
(* checkpoint only fails the phase, and a later one that finds something   *)
(* new pushes what it left behind.  The worker may die between any two     *)
(* steps.  At most one worker runs (deploy/modal_app.py:                   *)
(* max_containers=1).                                                      *)
(*                                                                         *)
(* The work of the other phases is not the scheduler's: here they succeed  *)
(* or fail.  One unit of time is the cadence of the cron.                  *)
(***************************************************************************)
EXTENDS Integers

CONSTANTS
    Drafts,       \* texts the model may write for a Daily
    NoDraft,
    L2Every,      \* timedelta(minutes=30)
    L3Every,      \* timedelta(hours=2)
    Day,          \* from one Daily cutoff to the next
    Cooldown,     \* BusyQuestionConfig.cooldown_seconds
    BusyAt,       \* the runs that find BusyQuestionConfig.threshold messages
    MaxAttempts,  \* _MAX_ATTEMPTS
    MaxTime,      \* bound: the last moment a run may start
    MaxFaults     \* bound: refused and failed checkpoints, and deaths of a worker

ASSUME TickAssumption ==
    /\ NoDraft \notin Drafts
    /\ {L2Every, L3Every, Day, Cooldown, MaxAttempts} \subseteq Nat \ {0}
    /\ BusyAt \subseteq Nat
    /\ {MaxTime, MaxFaults} \subseteq Nat

VARIABLES
    now,        \* when the last run started
    remote,     \* data/state at the head of the remote branch
    disk,       \* data/state in the clone of the run
    pc,         \* where the run is, "off" between two runs
    run,        \* what the run remembers
    calls,      \* per window: Daily requests the model has received
    posted,     \* per window: Daily messages that reached the chat
    question,   \* the last run whose busy question reached the chat
    faults      \* how many checkpoints and workers have failed

vars == <<now, remote, disk, pc, run, calls, posted, question, faults>>

Never == -1
Times == {Never} \cup (0..MaxTime)

\* DailyWindow.for_due_run: the window that closed last, and its end.
WindowAt(t) == t \div Day
End(w) == w * Day
Windows == 0..WindowAt(MaxTime)

\* The layers whose last success decides what is due (that of L1 does not).
Layers == {"L2", "L3", "L4"}

Statuses == {"none", "prepared", "sending", "delivered", "failed", "ambiguous"}

\* The delivery record of a Daily; draft stands for content_sha256.
Attempt(st, d) == [status |-> st, draft |-> d]

\* layer-success.json, daily-attempt-limit.json, the Daily's entries of
\* delivery-state.json, busy-question-state.json, and the last question for
\* which delivery-state.json holds an entry.
NewState ==
    [success |-> [y \in Layers |-> Never],
     attempts |-> [window |-> Never, count |-> 0],
     daily |-> [w \in Windows |-> Attempt("none", NoDraft)],
     asked |-> Never,
     asking |-> Never]

\* _attempts: a count kept for another window is none.
Attempts(d, w) == IF d.attempts.window = w THEN d.attempts.count ELSE 0

\* Mutant: the limit is compared with the count after the request.
MutantExhausted(d, w) == Attempts(d, w) > MaxAttempts

\* DailyAttemptLimit.exhausted.
Exhausted(d, w) == Attempts(d, w) >= MaxAttempts

Elapsed(since, t, interval) == since = Never \/ t - since >= interval

\* due_layer.
DueLayer(d, t) ==
    IF d.success.L4 < End(WindowAt(t)) /\ ~Exhausted(d, WindowAt(t)) THEN "L4"
    ELSE IF Elapsed(d.success.L2, t, L2Every) THEN "L2"
    ELSE IF Elapsed(d.success.L3, t, L3Every) THEN "L3"
    ELSE "L1"

\* The memory of a run that starts at time t from the state d; commit is what
\* its clone last committed.
Started(d, t, tries, poll, observe) ==
    [at |-> t, commit |-> d, tries |-> tries, poll |-> poll, observe |-> observe,
     layer |-> DueLayer(d, t), failed |-> {}, attempt |-> 1, draft |-> NoDraft,
     outcome |-> "none"]

NoRun == Started(NewState, 0, 0, FALSE, FALSE)

Window == WindowAt(run.at)
Failed(phase) == [run EXCEPT !.failed = @ \cup {phase}]
NoDaily == [Failed("daily_prepare") EXCEPT !.draft = NoDraft]
Recorded(st) == [disk EXCEPT !.daily[Window] = Attempt(st, run.draft)]

\* A repository in use: the Daily of the first window was delivered with draft
\* d, and the sources were checked, in the unit of time before the first run.
InUse(d) ==
    [NewState EXCEPT !.success.L2 = 0,
                     !.success.L4 = 0,
                     !.attempts = [window |-> 0, count |-> 1],
                     !.daily[0] = Attempt("delivered", d)]

Init ==
    /\ now = 0
    /\ remote \in {NewState} \cup {InUse(d) : d \in Drafts}
    /\ disk = NewState
    /\ pc = "off"
    /\ run = NoRun
    /\ calls = [w \in Windows |-> Attempts(remote, w)]
    /\ posted = [w \in Windows |-> IF remote.daily[w].status = "delivered" THEN 1 ELSE 0]
    /\ question = Never
    /\ faults = 0

-----------------------------------------------------------------------------
(* The disposable clone and its checkpoints                                *)

Goto(where) == pc' = where

Begin(t, tries, poll, observe) ==
    /\ disk' = remote
    /\ run' = Started(remote, t, tries, poll, observe)
    /\ Goto("intake")

Stop ==
    /\ disk' = NewState
    /\ run' = NoRun
    /\ Goto("off")

Fault == faults < MaxFaults /\ faults' = faults + 1

\* RepositorySession.run: RepositoryConflict replays the run once.
Conflict ==
    /\ Fault
    /\ IF run.tries = 0 THEN Begin(run.at, 1, run.poll, run.observe) ELSE Stop
    /\ UNCHANGED remote

\* What a successful push leaves at the head: d.  With nothing new of what is
\* modelled here it may push nothing at all, not even an earlier commit.
Pushed(d) == IF d = run.commit THEN {remote, d} ELSE {d}

\* The working tree becomes d and commit_operation.sh runs: it pushes, it is
\* refused because somebody else has pushed, or it fails (before the commit or
\* after it, and it may have pushed all the same).
Checkpoint(d, done, there, undone, elsewhere) ==
    \/ /\ remote' \in Pushed(d)
       /\ disk' = d
       /\ run' = [done EXCEPT !.commit = d]
       /\ Goto(there)
       /\ UNCHANGED faults
    \/ /\ Fault
       /\ remote' \in {remote, d}
       /\ disk' = d
       /\ \E commit \in {run.commit, d} :
             /\ remote' # remote => commit = d
             /\ run' = [undone EXCEPT !.commit = commit]
       /\ Goto(elsewhere)
    \/ Conflict

\* The run goes on at where with memory r; the repository does not change.
Proceed(r, where) ==
    /\ run' = r
    /\ Goto(where)
    /\ UNCHANGED <<remote, disk, faults>>

Seen == <<now, calls, posted, question>>

-----------------------------------------------------------------------------
(* The phases of Scheduler.tick, in their order                            *)

\* The cron, or an operator's tick; observe_only is an operator's choice.
Start ==
    /\ pc = "off"
    /\ now < MaxTime
    /\ now' = now + 1
    /\ \E poll, observe \in BOOLEAN : Begin(now', 0, poll, observe)
    /\ UNCHANGED <<remote, calls, posted, question, faults>>

\* telegram_intake, or IntakePolicy.SKIP.
TelegramIntake ==
    /\ pc = "intake"
    /\ \/ Proceed(run, "layer")
       \/ run.poll /\ Proceed(Failed("telegram_intake"), "layer")
       \/ run.poll /\ Conflict
    /\ UNCHANGED Seen

SourceCheck ==
    /\ pc = "layer" /\ run.layer = "L2"
    /\ Checkpoint(disk, run, "publish", Failed("source_check"), "publish")
    /\ UNCHANGED Seen

\* knowledge_refresh only notes the time; validate follows it.
KnowledgeRefresh ==
    /\ pc = "layer" /\ run.layer = "L3"
    /\ \E r \in {run, Failed("validate")} : Proceed(r, "publish")
    /\ UNCHANGED Seen

\* A Daily is not prepared over a vault that does not validate.
Validate ==
    /\ pc = "layer" /\ run.layer = "L4"
    /\ \/ Proceed(run, "evidence")
       \/ Proceed(Failed("validate"), "publish")
    /\ UNCHANGED Seen

NothingDue ==
    /\ pc = "layer" /\ run.layer = "L1"
    /\ Proceed(run, "publish")
    /\ UNCHANGED Seen

\* DailyEvidenceCollector.collect; a source that fails or is too slow only
\* leaves its records out.
CollectEvidence ==
    /\ pc = "evidence"
    /\ Proceed(NoDaily, "publish") \/ Proceed(run, "context")
    /\ UNCHANGED Seen

\* _already_delivered.
AlreadyDelivered == disk.daily[Window].status = "delivered"

\* A Daily that was delivered is not prepared again; the context of another one
\* may not fit its budget.
SelectContext ==
    /\ pc = "context"
    /\ \/ Proceed(run, IF AlreadyDelivered THEN "publish" ELSE "count")
       \/ ~AlreadyDelivered /\ Proceed(NoDaily, "publish")
    /\ UNCHANGED Seen

\* Mutant: the count reaches the remote branch with a later checkpoint only.
MutantCountAttempt ==
    /\ pc = "count"
    /\ IF Exhausted(disk, Window)
       THEN Proceed(NoDaily, "publish")
       ELSE /\ disk' = [disk EXCEPT !.attempts =
                            [window |-> Window, count |-> Attempts(disk, Window) + 1]]
            /\ run' = run
            /\ Goto("model")
            /\ UNCHANGED <<remote, faults>>
    /\ UNCHANGED Seen

\* DailyAttemptLimit.run, up to the request.
CountAttempt ==
    /\ pc = "count"
    /\ IF Exhausted(disk, Window)
       THEN Proceed(NoDaily, "publish")
       ELSE Checkpoint([disk EXCEPT !.attempts =
                            [window |-> Window, count |-> Attempts(disk, Window) + 1]],
                       run, "model", NoDaily, "publish")
    /\ UNCHANGED Seen

\* DailyService.prepare: the model gets a request, and its answer is a draft that
\* is accepted, or one that is revised once, within the time the first request
\* has left, or none.
CallModel ==
    /\ pc = "model"
    /\ calls' = [calls EXCEPT ![Window] = @ + 1]
    /\ UNCHANGED <<now, posted, question>>

AcceptDraft ==
    /\ CallModel
    /\ \E d \in Drafts : Proceed([run EXCEPT !.draft = d], "artifact")

ReviseDraft ==
    /\ CallModel
    /\ run.attempt = 1
    /\ Proceed([run EXCEPT !.attempt = 2], "count")

RejectDraft ==
    /\ CallModel
    /\ Proceed(NoDaily, "publish")

\* prepared-daily.json passes the persistence guard and is pushed.
SaveDaily ==
    /\ pc = "artifact"
    /\ \/ Proceed(NoDaily, "publish")
       \/ Checkpoint(disk, run, "publish", NoDaily, "publish")
    /\ UNCHANGED Seen

PublishRepository ==
    /\ pc = "publish"
    /\ LET next == IF run.observe THEN "record" ELSE "question"
       IN  Checkpoint(disk, run, next, Failed("publish_repository"), next)
    /\ UNCHANGED Seen

-----------------------------------------------------------------------------
(* maybe_ask_busy_question                                                 *)

\* Mutant: the cooldown is not looked at.
MutantMayAsk == run.at \in BusyAt

\* BusyQuestionService.decide: enough messages, and the last question that
\* was recorded is long enough ago.
MayAsk == run.at \in BusyAt /\ Elapsed(disk.asked, run.at, Cooldown)

\* The model is asked for a question; a failure of this phase decides nothing
\* about the layer.  deliver records the intent (prepared, then sending)
\* under a job id of this time.  A replay finds the entry of its first try: it
\* is taken for ambiguous, or refused because the question is another one.
Ask ==
    /\ pc = "question"
    /\ \/ Proceed(run, "deliver")
       \/ /\ MayAsk /\ disk.asking # run.at
          /\ Checkpoint([disk EXCEPT !.asking = run.at], run, "asking", run, "deliver")
    /\ UNCHANGED Seen

\* The question reaches the chat or not, and Telegram says so or not.
PostQuestion ==
    /\ pc = "asking"
    /\ \/ question' = run.at /\ Proceed(run, "asked")
       \/ question' \in {question, run.at} /\ Proceed(run, "unasked")
    /\ UNCHANGED <<now, calls, posted>>

\* The outcome is recorded; the cooldown starts only if it is a success.
RecordQuestion ==
    /\ pc \in {"asked", "unasked"}
    /\ Checkpoint(disk, run, IF pc = "asked" THEN "staging" ELSE "deliver", run, "deliver")
    /\ UNCHANGED Seen

\* stage_triggered; a later checkpoint pushes it.
StageTriggered ==
    /\ pc = "staging"
    /\ disk' = [disk EXCEPT !.asked = run.at]
    /\ Goto("deliver")
    /\ UNCHANGED <<remote, run, faults, Seen>>

-----------------------------------------------------------------------------
(* telegram_delivery of the Daily                                          *)

\* Mutant: only a delivery that is done is not started again.
MutantSendable == run.draft # NoDraft /\ disk.daily[Window].status # "delivered"

\* Nothing is sent for a draft whose record is of another text, delivered or
\* ambiguous; the phase succeeds all the same.
Sendable ==
    /\ run.draft # NoDraft
    /\ disk.daily[Window].draft \in {NoDraft, run.draft}
    /\ disk.daily[Window].status \notin {"delivered", "ambiguous"}

NothingToSend ==
    /\ pc = "deliver" /\ ~Sendable
    /\ Proceed(run, "record")
    /\ UNCHANGED Seen

\* An intent that a dead worker left behind is never sent again.
RecoverDaily ==
    /\ pc = "deliver" /\ Sendable /\ disk.daily[Window].status = "sending"
    /\ Checkpoint(Recorded("ambiguous"), run, "record",
                  Failed("telegram_delivery"), "record")
    /\ UNCHANGED Seen

PrepareDelivery ==
    /\ pc = "deliver" /\ Sendable /\ disk.daily[Window].status # "sending"
    /\ Checkpoint(Recorded("prepared"), run, "prepared",
                  Failed("telegram_delivery"), "record")
    /\ UNCHANGED Seen

BeginSending ==
    /\ pc = "prepared"
    /\ Checkpoint(Recorded("sending"), run, "sending",
                  Failed("telegram_delivery"), "record")
    /\ UNCHANGED Seen

\* Telegram accepts the Daily, refuses it, or leaves the outcome unknown.
PostDaily ==
    /\ pc = "sending"
    /\ \E outcome \in {"delivered", "failed", "ambiguous"}, arrived \in 0..1 :
          /\ outcome = "delivered" => arrived = 1
          /\ outcome = "failed" => arrived = 0
          /\ Proceed([run EXCEPT !.outcome = outcome], "result")
          /\ posted' = [posted EXCEPT ![Window] = @ + arrived]
    /\ UNCHANGED <<now, calls, question>>

\* DeliveryAmbiguous and DeliveryFailed are swallowed: the phase succeeds.
RecordDaily ==
    /\ pc = "result"
    /\ Checkpoint(Recorded(run.outcome), run, "record",
                  Failed("telegram_delivery"), "record")
    /\ UNCHANGED Seen

-----------------------------------------------------------------------------
(* The end of the run                                                      *)

BaseOk == run.failed \cap {"telegram_intake", "publish_repository"} = {}

\* Mutant: a run that only observes completes its layer too.
MutantCompleted(layer) ==
    layer = run.layer /\ run.failed \cap {"validate", "daily_prepare"} = {}

\* The layer the run completed, when it is more than L1.
Completed(layer) ==
    CASE layer = "L2" -> run.layer = "L2" /\ "source_check" \notin run.failed
      [] layer = "L3" -> run.layer = "L3" /\ "validate" \notin run.failed
      [] layer = "L4" -> /\ run.layer = "L4"
                         /\ ~run.observe
                         /\ run.failed \cap {"validate", "daily_prepare",
                                             "telegram_delivery"} = {}

\* _record_success.
RecordSuccess ==
    /\ pc = "record"
    /\ run' = [run EXCEPT !.failed = {}, !.draft = NoDraft, !.outcome = "none",
                          !.attempt = 1]
    /\ disk' = IF BaseOk
               THEN [disk EXCEPT !.success = [y \in Layers |-> IF Completed(y) THEN run.at
                                                              ELSE disk.success[y]]]
               ELSE disk
    /\ Goto("final")
    /\ UNCHANGED <<remote, faults, Seen>>

\* _scheduled_tick: the last checkpoint, then the end (or an error that
\* reports what failed; nothing is undone by it).
FinalCheckpoint ==
    /\ pc = "final"
    /\ \/ remote' \in Pushed(disk) /\ Stop /\ UNCHANGED faults
       \/ Fault /\ UNCHANGED remote /\ Stop
       \/ Conflict
    /\ UNCHANGED Seen

\* The worker dies or runs out of its time.
Crash ==
    /\ pc # "off"
    /\ Fault
    /\ Stop
    /\ UNCHANGED <<remote, Seen>>

-----------------------------------------------------------------------------
Worker ==
    \/ TelegramIntake \/ SourceCheck \/ KnowledgeRefresh \/ Validate \/ NothingDue
    \/ CollectEvidence \/ SelectContext \/ CountAttempt
    \/ AcceptDraft \/ ReviseDraft \/ RejectDraft \/ SaveDaily \/ PublishRepository
    \/ Ask \/ PostQuestion \/ RecordQuestion \/ StageTriggered
    \/ NothingToSend \/ RecoverDaily \/ PrepareDelivery \/ BeginSending
    \/ PostDaily \/ RecordDaily \/ RecordSuccess \/ FinalCheckpoint

Next == Start \/ Worker \/ Crash

Spec == Init /\ [][Next]_vars

-----------------------------------------------------------------------------
(* Properties                                                              *)

States == [success : [Layers -> Times],
           attempts : [window : {Never} \cup Windows, count : 0..MaxAttempts],
           daily : [Windows -> [status : Statuses, draft : Drafts \cup {NoDraft}]],
           asked : Times,
           asking : Times]

Phases == {"telegram_intake", "source_check", "validate", "daily_prepare",
           "publish_repository", "telegram_delivery"}

\* Every variable has its type.
TypeOK ==
    /\ now \in 0..MaxTime
    /\ remote \in States
    /\ disk \in States
    /\ pc \in {"off", "intake", "layer", "evidence", "context", "count", "model",
               "artifact", "publish", "question", "asking", "asked", "unasked",
               "staging", "deliver", "prepared", "sending", "result", "record", "final"}
    /\ run \in [at : 0..MaxTime, commit : States, tries : 0..1,
                poll : BOOLEAN, observe : BOOLEAN,
                layer : Layers \cup {"L1"}, failed : SUBSET Phases, attempt : 1..2,
                draft : Drafts \cup {NoDraft}, outcome : Statuses]
    /\ calls \in [Windows -> Nat]
    /\ posted \in [Windows -> Nat]
    /\ question \in Times
    /\ faults \in 0..MaxFaults

\* Whatever is replayed, revised, refused or dies, the model gets at most
\* _MAX_ATTEMPTS requests for the Daily of one window
\* (daily_attempt_limit.py: the count is pushed before the request).
ModelCallsBounded == \A w \in Windows : calls[w] <= MaxAttempts

\* The Daily of a window reaches the chat at most once, although every run
\* writes a draft of its own (daily.py: _already_delivered; delivery.py).
DailyPostedOnce == \A w \in Windows : posted[w] <= 1

\* L4 is recorded for a window only when delivery-state.json, too, holds the
\* Daily of that window: an operator can always see what became of it
\* (scheduler.py: tick, runtime.py: telegram_delivery).
RecordedDailyIsOnFile ==
    LET done == remote.success.L4
    IN  done # Never => remote.daily[WindowAt(done)].status # "none"

\* A question that reaches the chat after a recorded one is a cooldown later;
\* only one whose success never reached the branch may be followed sooner, and
\* even that not by the same tick, which asks the model again when it is
\* replayed (busy_question.py: decide; runtime.py: maybe_ask_busy_question).
QuestionsSpaced ==
    /\ remote.asked # Never /\ question > remote.asked => question - remote.asked >= Cooldown
    /\ pc = "asking" => question < run.at

\* "A failed Daily remains retryable: L4 success is not recorded until Daily
\* delivery completes" (docs/superpowers/specs/
\* 2026-08-25-tawg-bounded-incremental-runs-design.md).
RecordedDailyIsDelivered ==
    LET done == remote.success.L4
    IN  done # Never => remote.daily[WindowAt(done)].status = "delivered"
=============================================================================
