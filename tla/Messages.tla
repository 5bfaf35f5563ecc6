------------------------------ MODULE Messages ------------------------------
(***************************************************************************)
(* From a message in the group to the reply the bot sends: the intake of   *)
(* messages by polling or by webhook (telegram_intake.py), the entry       *)
(* decision (entry_router.py), the preparation of replies (bot_router.py), *)
(* and the two-stage welcome of a new member (telegram_intake.py,          *)
(* bot_router.py, member_welcome.py).                                      *)
(*                                                                         *)
(* Every run works in a clone of its own.  A run is a tick, which polls    *)
(* Telegram when that is the intake; or the handling of one webhook, which *)
(* whoever calls it may repeat at any time and in any order.  Updates are  *)
(* numbered as Telegram numbers them, and a later one of a message has     *)
(* the later text (_message_is_fresher compares times, then numbers).      *)
(*                                                                         *)
(* A tick prepares every reply it can (10 and 15 minutes in the code), and *)
(* what delivery.py does with one is two outcomes here (module Delivery).  *)
(* A new member has a single public handle, is new whoever welcomes him,   *)
(* and is welcomed in reply to a message of his; he stands for a person.   *)
(* Left out: replies to the bot that become jobs later                     *)
(* (_reconcile_direct_replies), thread metadata, and the one-off repairs   *)
(* of ReplyRepairReconciler.                                               *)
(***************************************************************************)
EXTENDS Naturals, FiniteSets, Sequences, FiniteSetsExt

CONSTANTS
    Runs,         \* runs that may overlap
    Messages,
    TextsOf,      \* message |-> the kinds of text it may have
    TargetOf,     \* a message that may welcome |-> the new member's message
    Settings,     \* deployments: how updates reach the bot, whether
                  \* TAWG_ENTRY_CANDIDATES_ENABLED is set, and how many runs overlap
    MaxAttempts,  \* _MAX_PREPARE_ATTEMPTS
    NoJob,
    MaxUpdates,   \* bound: updates
    MaxFaults     \* bound: failures that a run survives

Texts == {"MENTION", "MESSAGE", "GREETING", "WELCOME", "NONE"}

\* PendingBotJob.  routed is the text (an update) the route was decided for, 0
\* when it was not; basis holds the texts a prepared reply was made from.
Jobs == [status : {"PENDING", "READY", "DELIVERED", "IGNORED", "CANCELLED"},
         kind : {"MENTION", "MESSAGE", "GREETING", "welcome", "introduction"},
         trigger : Messages, routed : Nat, basis : SUBSET Nat, attempts : Nat]

ASSUME MessagesAssumption ==
    /\ TextsOf \in [Messages -> SUBSET Texts]
    /\ DOMAIN TargetOf \subseteq Messages
    /\ \A g \in DOMAIN TargetOf : TargetOf[g] \in Messages \ {g}
    /\ \A m \in Messages : "WELCOME" \in TextsOf[m] => m \in DOMAIN TargetOf
    /\ Settings \subseteq [intake : {"poll", "webhook"}, entry : BOOLEAN, runs : Nat]
    /\ NoJob \notin Jobs
    /\ MaxAttempts \in Nat \ {0}
    /\ {MaxUpdates, MaxFaults} \subseteq Nat

VARIABLES
    setting,    \* the deployment
    sent,       \* the updates of the group so far, in the order of their numbers
    confirmed,  \* Telegram has forgotten the updates up to this one
    branch,     \* the files at the head of the remote branch
    runs,       \* what each run holds
    fresh,      \* whether its clone still starts from the head of the branch
    faults      \* how many failures a run has survived

vars == <<setting, sent, confirmed, branch, runs, fresh, faults>>

Numbers == 1..Len(sent)
Newcomers == {TargetOf[g] : g \in DOMAIN TargetOf}

\* The job of a message (_reply_job_id), and per new member the jobs
\* member-welcome:<person> and member-introduction:<person>.
Reply(m) == <<"reply", m>>
Welcome(n) == <<"welcome", n>>
Introduction(n) == <<"introduction", n>>
MemberJobs == {Welcome(n) : n \in Newcomers} \cup {Introduction(n) : n \in Newcomers}
JobIds == {Reply(m) : m \in Messages} \cup MemberJobs

\* A job that has just been created.
Job(kind, m) ==
    [status |-> "PENDING", kind |-> kind, trigger |-> m, routed |-> 0, basis |-> {},
     attempts |-> 0]

\* A job whose status is final, unless an edit opens it again: its route and its
\* text are not looked at any more.
Closed(j, status) == [j EXCEPT !.status = status, !.routed = 0, !.basis = {}]

\* source records (message |-> the update whose text is recorded, 0 none),
\* pending-bot-jobs.json, source-cursors.json and the webhook receipts.
NewFiles ==
    [record |-> [m \in Messages |-> 0], job |-> [i \in JobIds |-> NoJob],
     cursor |-> 0, receipts |-> {}]

\* commit is what the clone took from the branch or last committed; webhook is
\* the update a run was started for.
Off == [pc |-> "off", commit |-> NewFiles, files |-> NewFiles, page |-> {}, webhook |-> {},
        prepared |-> {}]

Init ==
    /\ setting \in Settings
    /\ sent = <<>>
    /\ confirmed = 0
    /\ branch = NewFiles
    /\ runs = [r \in Runs |-> Off]
    /\ fresh = [r \in Runs |-> TRUE]
    /\ faults = 0

-----------------------------------------------------------------------------
(* What an update says                                                     *)

Edited(u) == \E v \in 1..(u - 1) : sent[v].message = sent[u].message

\* classify_message_trigger, and the kind persist uses when entry candidates
\* are off: "none" is no trigger.
Trigger(u) ==
    CASE sent[u].text \in {"GREETING", "WELCOME"} -> "GREETING"
      [] sent[u].text = "MESSAGE" /\ setting.entry -> "MESSAGE"
      [] sent[u].text = "MENTION" -> "MENTION"
      [] OTHER -> "none"

\* The text of a message as recorded matches _MEMBER_WELCOME.
SaysWelcome(f, m) == f.record[m] # 0 /\ sent[f.record[m]].text = "WELCOME"

\* resolve_member_welcome_target: there is one when his message is recorded.
Resolves(f, g) == SaysWelcome(f, g) /\ f.record[TargetOf[g]] # 0

\* The texts from which the reply of a job is made.
SourcesOf(i, j) == IF i \in MemberJobs THEN {j.trigger, i[2]} ELSE {j.trigger}

-----------------------------------------------------------------------------
(* Intake: _TelegramPersistence.persist                                    *)

\* Of several updates of a message in one page the freshest counts.
Newest(page) ==
    {u \in page : \A v \in page : sent[v].message = sent[u].message => v <= u}

\* Mutant: an update overwrites what is recorded without a look at it.
MutantSuperseding(f, page) == Newest(page)

\* _message_supersedes_record.
Superseding(f, page) == {u \in Newest(page) : u > f.record[sent[u].message]}

\* Mutant: a reply that is ready survives an edit of its message.
MutantUpdated(j, u) ==
    LET kind == Trigger(u) IN
    IF j = NoJob
    THEN IF kind = "none" THEN NoJob ELSE Job(kind, sent[u].message)
    ELSE IF j.status \in {"DELIVERED", "READY"} \/ ~Edited(u) THEN j
    ELSE IF kind # "none" THEN [Job(kind, j.trigger) EXCEPT !.attempts = j.attempts]
    ELSE IF j.status = "IGNORED" THEN j ELSE NoJob

\* What an update makes of the job of its message: an edit that calls for no
\* reply deletes a job still open, the first text that calls for one creates
\* it, and an edit starts it again unless it was delivered.  The attempts
\* already made stay.
Updated(j, u) ==
    LET kind == Trigger(u) IN
    IF j = NoJob
    THEN IF kind = "none" THEN NoJob ELSE Job(kind, sent[u].message)
    ELSE IF j.status = "DELIVERED" \/ ~Edited(u) THEN j
    ELSE IF kind # "none" THEN [Job(kind, j.trigger) EXCEPT !.attempts = j.attempts]
    ELSE IF j.status = "IGNORED" THEN j ELSE NoJob

\* Mutant: an edit also drops welcomes and introductions that were delivered.
MutantInvalidated(i, j, edits) ==
    IF j # NoJob /\ SourcesOf(i, j) \cap edits # {} THEN NoJob ELSE j

\* _invalidate_edited_member_welcomes: an edit of either of its messages drops
\* a welcome or an introduction that was not delivered.
Invalidated(i, j, edits) ==
    IF j # NoJob /\ j.status # "DELIVERED" /\ SourcesOf(i, j) \cap edits # {} THEN NoJob ELSE j

\* _reconcile_member_welcome_jobs: a greeting that welcomes somebody becomes a
\* welcome and an introduction of him, unless he has them already, and its own
\* job goes unless it is under way.  Greetings are taken in the order in which
\* they were sent; all are less than 24 hours old.
Reconciled(f) ==
    LET greetings == {g \in DOMAIN TargetOf :
                         /\ f.job[Reply(g)] # NoJob
                         /\ f.job[Reply(g)].kind = "GREETING"
                         /\ SaysWelcome(f, g)}
        Welcoming(n) == {g \in greetings : TargetOf[g] = n /\ f.record[n] # 0}
        SentAt(g) == Min({u \in Numbers : sent[u].message = g})
        First(n) == CHOOSE g \in Welcoming(n) : \A h \in Welcoming(n) : SentAt(g) <= SentAt(h)
    IN  [f EXCEPT !.job = [i \in JobIds |->
            IF i \in MemberJobs
            THEN IF f.job[i] = NoJob /\ Welcoming(i[2]) # {} THEN Job(i[1], First(i[2]))
                 ELSE f.job[i]
            ELSE IF i[2] \in greetings /\ f.job[i].status = "PENDING" THEN NoJob
                 ELSE f.job[i]]]

\* The messages that a set of updates is about, and the update of one of them.
Changed(news) == {sent[u].message : u \in news}
Update(news, m) == CHOOSE u \in news : sent[u].message = m

\* The records that the updates make.
WithRecords(f, news) ==
    [f EXCEPT !.record =
        [m \in Messages |-> IF m \in Changed(news) THEN Update(news, m) ELSE @[m]]]

\* persist: records and jobs, in one unit of work.
Persisted(f, page) ==
    LET news == Superseding(f, page)
        edits == Changed({u \in news : Edited(u)})
    IN  Reconciled([WithRecords(f, news) EXCEPT !.job = [i \in JobIds |->
            IF i \in MemberJobs THEN Invalidated(i, @[i], edits)
            ELSE IF i[2] \in Changed(news) THEN Updated(@[i], Update(news, i[2]))
            ELSE @[i]]])

\* candidate_job_ids: jobs of the messages of the page that have no route.
Candidates(f, page) ==
    {i \in JobIds :
        /\ f.job[i] # NoJob
        /\ f.job[i].trigger \in {sent[u].message : u \in page}
        /\ f.job[i].routed = 0
        /\ f.job[i].status \in {"PENDING", "READY"}}

-----------------------------------------------------------------------------
(* Entry decision: EntryDecider.decide                                     *)

\* What the model, the fallback when it fails, or the privacy filter makes of
\* a job.  Only ordinary messages and greetings may be ignored (_authorize,
\* authorize_ai_route); a job of a new member only gets a route.
Decisions(i, j, f) ==
    {[j EXCEPT !.routed = f.record[j.trigger]],
     Closed(j, IF j.kind \in {"GREETING", "MESSAGE"} THEN "IGNORED" ELSE "CANCELLED")}

\* The jobs of one trigger share one decision; other jobs stay as they are.
Decided(f, ids) ==
    LET Shared == {c \in [ids -> UNION {Decisions(i, f.job[i], f) : i \in ids}] :
                       /\ \A i \in ids : c[i] \in Decisions(i, f.job[i], f)
                       /\ \A i, k \in ids :
                             f.job[i].trigger = f.job[k].trigger => c[i].status = c[k].status}
    IN  {[f EXCEPT !.job = [i \in JobIds |-> IF i \in ids THEN c[i] ELSE @[i]]] : c \in Shared}

-----------------------------------------------------------------------------
(* Preparation of a reply: BotReplyService.prepare                         *)

Delivered(f, i) == f.job[i] # NoJob /\ f.job[i].status = "DELIVERED"

\* _prepare_pending_replies: what a tick takes up.
Actionable(f) ==
    {i \in JobIds :
        /\ f.job[i] # NoJob
        /\ f.job[i].status \in {"PENDING", "READY"}
        /\ i[1] = "introduction" => Delivered(f, Welcome(i[2]))}

\* A ready reply is sent as it is; a welcome is made anew.
Reused(i, j) == j.status = "READY" /\ i[1] # "welcome"

\* The routes a job may get: a decision made on entry is followed, a missing one
\* is replaced by fallback_route; without entry decisions the model decides, and
\* again when the conversation has gone on.  The model never makes the bot ignore
\* a mention.
Routes(j) ==
    LET replies == {"refuse", "verify", "answer"} IN
    IF ~setting.entry THEN IF j.kind = "MENTION" THEN replies ELSE replies \cup {"ignore"}
    ELSE IF j.routed # 0 THEN replies
    ELSE IF j.kind = "MENTION" THEN {"refuse", "answer"} ELSE {"ignore"}

\* _context: the texts of some messages as they are recorded now.  What else the
\* model is shown (the vault, nearby messages, evidence) is left out.
Basis(f, messages) == {f.record[m] : m \in messages}

\* A reply that is ready, made from the given messages.
Ready(j, f, sources) ==
    [j EXCEPT !.status = "READY", !.routed = f.record[j.trigger], !.basis = Basis(f, sources)]

\* Any exception leaves the job pending; a permanent one or the last attempt
\* cancels it.
Failed(j) ==
    {Closed(j, "CANCELLED")}
        \cup IF j.attempts = MaxAttempts THEN {}
             ELSE {[j EXCEPT !.status = "PENDING", !.basis = {}]}

\* The route is kept when what follows it fails.
RouteFailed(j, f) == Failed([j EXCEPT !.routed = f.record[j.trigger]])

\* REFUSE needs nothing further.
Refusal(j, f) == {Ready(j, f, {j.trigger})}

\* VERIFICATION asks an external service and shows nothing else.
Verification(j, f) == {Ready(j, f, {j.trigger})} \cup RouteFailed(j, f)

\* An answer is saved in one unit of work with the correction of the vault, the
\* source or the scan target it proposes; any of them may be refused.
Saved(j, f) == {Ready(j, f, {j.trigger})} \cup RouteFailed(j, f)

\* _validate_result refuses what the model says, or it is saved.
Validated(j, f) == RouteFailed(j, f) \cup Saved(j, f)

\* The model answers from the conversation, the vault and the evidence that may
\* have to be fetched first, any of which may fail.
Answer(j, f) == RouteFailed(j, f) \cup Validated(j, f)

\* The reply of a member, which is a template or asks the model for an
\* introduction, from the message that welcomes him and his own, if they still
\* are a welcome of him.
PreparedWelcome(i, j, f) ==
    Failed(j) \cup (IF Resolves(f, j.trigger) THEN {Ready(j, f, SourcesOf(i, j))} ELSE {})

\* The outcomes of one attempt, which is counted before the work begins
\* (counts from MaxAttempts on are the same).
Attempted(i, j, f) ==
    LET tried == [j EXCEPT !.attempts = Min({@ + 1, MaxAttempts})]
        Outcome(route) == CASE route = "ignore" -> {Closed(tried, "IGNORED")}
                            [] route = "refuse" -> Refusal(tried, f)
                            [] route = "verify" -> Verification(tried, f)
                            [] route = "answer" -> Answer(tried, f)
    IN  IF i \in MemberJobs THEN PreparedWelcome(i, tried, f)
        ELSE Failed(tried) \cup UNION {Outcome(route) : route \in Routes(tried)}

\* _discard_context_invalid_job: an earlier attempt found a conversation that the
\* privacy filter rejects.
Discarded(j) ==
    IF j.status = "PENDING" /\ j.attempts > 0 THEN {Closed(j, "CANCELLED")} ELSE {}

\* A job may be discarded and a member's reply may have expired: either cancels
\* the job without an attempt, and so do attempts that are used up.
Outcomes(i, j, f) ==
    LET dropped == IF i \in MemberJobs THEN {Closed(j, "CANCELLED")} ELSE Discarded(j)
    IN  IF Reused(i, j) THEN {j} \cup dropped
        ELSE IF j.status = "READY" THEN Attempted(i, [j EXCEPT !.routed = 0], f) \cup dropped
        ELSE IF j.attempts >= MaxAttempts THEN {Closed(j, "CANCELLED")}
        ELSE Attempted(i, j, f) \cup dropped

\* What may become of all the jobs when those of todo are taken up; no job sees
\* what becomes of another one.
Prepared(f, todo) ==
    LET after == [i \in todo |-> Outcomes(i, f.job[i], f)]
        Independent == {c \in [todo -> UNION {after[i] : i \in todo}] :
                           \A i \in todo : c[i] \in after[i]}
    IN  {[i \in JobIds |-> IF i \in todo THEN c[i] ELSE f.job[i]] : c \in Independent}

-----------------------------------------------------------------------------
(* Telegram                                                                *)

\* Somebody else has pushed: whatever a run still does is lost, unless it has
\* nothing to push.  Nothing else need move meanwhile.
Stale(r) == ~fresh[r] /\ runs[r].pc # "off"

Quiet == \A r \in Runs : ~Stale(r)
Free(r) == Stale(r) \/ Quiet

\* A message is sent or edited; a welcome answers a message.
Post(m, text) ==
    /\ Len(sent) < MaxUpdates
    /\ Quiet
    /\ text \in TextsOf[m]
    /\ m \in DOMAIN TargetOf => \E u \in Numbers : sent[u].message = TargetOf[m]
    /\ sent' = Append(sent, [message |-> m, text |-> text])
    /\ UNCHANGED <<setting, confirmed, branch, runs, fresh, faults>>

-----------------------------------------------------------------------------
(* A run                                                                   *)

chat == <<setting, sent>>

Polls == setting.intake = "poll"

\* A run goes on as then, which costs a failure unless all went well.
Proceed(r, then, well) ==
    /\ runs' = [runs EXCEPT ![r] = then]
    /\ IF then \in well \cup {Off} THEN UNCHANGED faults
       ELSE faults < MaxFaults /\ faults' = faults + 1

\* A clone of the branch, with which a run begins.
Begin(r, clone) ==
    /\ runs[r].pc = "off"
    /\ Cardinality({o \in Runs : runs[o].pc # "off"}) < setting.runs
    /\ Quiet
    /\ runs' = [runs EXCEPT ![r] = clone]
    /\ fresh' = [fresh EXCEPT ![r] = TRUE]
    /\ UNCHANGED <<chat, branch, faults>>

Clone == [Off EXCEPT !.commit = branch, !.files = branch]

End(r) ==
    /\ Proceed(r, Off, {})
    /\ fresh' = [fresh EXCEPT ![r] = TRUE]

\* The checkpoint script: with nothing new since the last commit it does nothing,
\* even when that was never pushed.  A push refused because somebody else has
\* pushed ends the run (its replay is another run); any other failure, before or
\* after the commit or after an unreported push, leads on to otherwise, what the
\* run is when the exception was caught.
Checkpoint(r, files, next, otherwise) ==
    LET Committed(run) == IF run = Off THEN Off ELSE [run EXCEPT !.commit = files] IN
    \/ /\ files = runs[r].commit
       /\ Proceed(r, next, {next})
       /\ UNCHANGED <<branch, fresh>>
    \/ /\ files # runs[r].commit
       /\ fresh[r]
       /\ branch' = files
       /\ fresh' = [o \in Runs |-> o = r \/ runs[o].pc = "off"]
       /\ \E run \in {next, otherwise} : Proceed(r, Committed(run), {Committed(next)})
    \/ /\ files # runs[r].commit
       /\ fresh[r]
       /\ \E run \in {otherwise, Committed(otherwise)} : Proceed(r, run, {})
       /\ UNCHANGED <<branch, fresh>>
    \/ /\ files # runs[r].commit
       /\ ~fresh[r]
       /\ End(r)
       /\ UNCHANGED branch

\* A tick begins.  TelegramIntake.collect: the request confirms what lies below
\* its offset and returns the rest.  A run that somebody overtakes between its
\* clone and the request has no effect, so that the two are one step.
StartTick(r) ==
    /\ Polls
    /\ LET page == {u \in Numbers : u > Max({branch.cursor, confirmed})}
       IN  Begin(r, [Clone EXCEPT !.page = page, !.files = Persisted(branch, page),
                                  !.pc = "messages"])
    /\ confirmed' = Max({confirmed, branch.cursor})

\* A tick that leaves the intake to the webhook.
StartMaintenance(r) ==
    /\ ~Polls
    /\ Begin(r, [Clone EXCEPT !.pc = "prepare"])
    /\ UNCHANGED confirmed

\* ingest_webhook_envelope; an update that has a receipt changes nothing and the
\* run goes on like a tick without intake.
StartWebhook(r, u) ==
    /\ ~Polls
    /\ u \notin branch.receipts
    /\ Begin(r, [Clone EXCEPT !.files = Persisted(branch, {u}), !.page = {u},
                              !.webhook = {u}, !.pc = "messages"])
    /\ UNCHANGED confirmed

\* EntryDecider.decide, after which a webhook's receipt is written, and the
\* checkpoint of what was taken in: "telegram-intake-messages" of a tick, whose
\* phase ends when it fails, or "telegram-webhook".  The decision concerns the
\* clone only, so that it may as well be made when it is pushed.
Decide(r) ==
    /\ runs[r].pc = "messages"
    /\ Free(r)
    /\ LET here == runs[r]
           next == [here EXCEPT !.pc = IF Polls THEN "cursor" ELSE "prepare",
                                !.page = IF Polls THEN @ ELSE {}]
           failed == IF Polls THEN [here EXCEPT !.page = {}, !.pc = "prepare"] ELSE Off
           Received(f) == [f EXCEPT !.receipts = @ \cup here.webhook]
           decided == IF setting.entry
                      THEN Decided(here.files, Candidates(here.files, here.page))
                      ELSE {here.files}
       IN  \/ \E f \in decided :
                 Checkpoint(r, Received(f), [next EXCEPT !.files = Received(f)],
                            IF Polls THEN [failed EXCEPT !.files = f] ELSE Off)
           \/ /\ setting.entry
              /\ Proceed(r, failed, {})
              /\ UNCHANGED <<branch, fresh>>
    /\ UNCHANGED <<chat, confirmed>>

\* commit_intake_state, then the checkpoint "telegram-intake".
PushCursor(r) ==
    /\ runs[r].pc = "cursor"
    /\ Free(r)
    /\ LET here == runs[r]
           next == [here EXCEPT !.files.cursor = Max({@} \cup here.page),
                                !.page = {}, !.pc = "prepare"]
       IN  Checkpoint(r, next.files, next, next)
    /\ UNCHANGED <<chat, confirmed>>

\* publish_repository.  _prepare_pending_replies: MemberWelcomeReconciler, then
\* the jobs that can be taken up; after a Daily or a refresh of the knowledge
\* only replies that are ready and those of members are.  Then the checkpoint
\* "prepared"; a tick delivers what it has prepared even when that fails.
PrepareReplies(r) ==
    /\ runs[r].pc = "prepare"
    /\ Free(r)
    /\ LET here == runs[r]
           f == Reconciled(here.files)
           all == Actionable(f)
           urgent == {i \in all : i \in MemberJobs \/ f.job[i].status = "READY"}
       IN  \E todo \in {all, urgent} : \E job \in Prepared(f, todo) :
                LET files == [f EXCEPT !.job = job]
                    next == [here EXCEPT !.files = files, !.pc = "deliver",
                                !.prepared = {i \in todo : job[i].status = "READY"}]
                IN  Checkpoint(r, files, next, IF here.webhook = {} THEN next ELSE Off)
    /\ UNCHANGED <<chat, confirmed>>

\* _require_active_member_intent: the welcome must still hold.
Active(f, i) == i \notin MemberJobs \/ Resolves(f, f.job[i].trigger)

\* _cancel_member_job, when the time for a member's reply is over.
Expired(f, i) == [f EXCEPT !.job[i] = Closed(@, "CANCELLED")]

\* _publish_final: the job is closed with the delivery.
Published(f, i) == [f EXCEPT !.job[i] = Closed(@, "DELIVERED")]

\* delivery.deliver for a prepared reply: its intent is pushed, it is sent, and
\* the outcome is pushed.  It stays ready when it was refused, when the answer is
\* unknown, and when a checkpoint fails; that of a member may expire at the last
\* moment, and is not sent when his welcome no longer holds.
Deliver(r) ==
    /\ runs[r].pc = "deliver"
    /\ Free(r)
    /\ runs[r].prepared # {}
    /\ LET here == runs[r]
           i == CHOOSE i \in here.prepared : TRUE
           outcomes == {here.files}
                       \cup (IF i \in MemberJobs THEN {Expired(here.files, i)} ELSE {})
                       \cup (IF Active(here.files, i) THEN {Published(here.files, i)} ELSE {})
           Next(f) == [here EXCEPT !.files = f, !.commit = f, !.prepared = @ \ {i}]
       IN  \/ /\ fresh[r]
              /\ \E f \in outcomes :
                    /\ branch' = f
                    /\ Proceed(r, Next(f), {Next(f)})
              /\ fresh' = [o \in Runs |-> o = r \/ runs[o].pc = "off"]
           \/ /\ fresh[r]
              /\ Proceed(r, [here EXCEPT !.prepared = @ \ {i}], {})
              /\ UNCHANGED <<branch, fresh>>
           \/ /\ ~fresh[r]
              /\ End(r)
              /\ UNCHANGED branch
    /\ UNCHANGED <<chat, confirmed>>

\* The last checkpoint, that of RepositorySession.
Finish(r) ==
    /\ runs[r].pc = "deliver"
    /\ Free(r)
    /\ runs[r].prepared = {}
    /\ Checkpoint(r, runs[r].files, Off, Off)
    /\ UNCHANGED <<chat, confirmed>>

\* The worker dies and the clone with it.
Die(r) ==
    /\ runs[r].pc # "off"
    /\ Free(r)
    /\ End(r)
    /\ UNCHANGED <<chat, confirmed, branch>>

Work(r) ==
    \/ StartTick(r)
    \/ StartMaintenance(r)
    \/ \E u \in Numbers : StartWebhook(r, u)
    \/ Decide(r)
    \/ PushCursor(r)
    \/ PrepareReplies(r)
    \/ Deliver(r)
    \/ Finish(r)

Next ==
    \/ \E m \in Messages, text \in Texts : Post(m, text)
    \/ \E r \in Runs : Work(r) \/ Die(r)

Spec == Init /\ [][Next]_vars

-----------------------------------------------------------------------------
(* Properties                                                              *)

\* What Telegram may have forgotten: it confirmed the update, or whoever called
\* the webhook finds the receipt and will not repeat it.
Forgotten(u) == u <= confirmed \/ u \in branch.receipts

\* No message is lost: what Telegram has forgotten is recorded on the branch, in
\* that text or in a later one, whatever order updates arrive in, however often,
\* and wherever a run stops.  A message recorded with a mention of the bot has a
\* job that the bot may not silently ignore.
NoMessageLost ==
    /\ \A u \in Numbers : Forgotten(u) => branch.record[sent[u].message] >= u
    /\ \A m \in Messages :
          branch.record[m] # 0 /\ sent[branch.record[m]].text = "MENTION"
              => /\ branch.job[Reply(m)] # NoJob
                 /\ branch.job[Reply(m)].status # "IGNORED"

\* The bot answers what people have said last: on the branch a ready reply was
\* made from the texts recorded there, and a route still to be followed was
\* decided for the text recorded there, although a decision takes minutes and
\* messages are edited meanwhile.
AnswersCurrentTexts ==
    \A i \in JobIds : LET j == branch.job[i] IN
        j # NoJob =>
            /\ j.status = "READY" =>
                  j.basis = {branch.record[m] : m \in SourcesOf(i, j)}
            /\ j.status \in {"PENDING", "READY"} =>
                  j.routed \in {0, branch.record[j.trigger]}

\* A delivered reply is final: no edit, second greeting, repeated update or
\* overlapping run opens or drops its job, so that nobody is answered or
\* welcomed twice; and nobody is introduced before the welcome has arrived.
DeliveredIsFinal ==
    [][\A i \in JobIds :
          /\ Delivered(branch, i) => branch'.job[i] = branch.job[i]
          /\ i[1] = "introduction" /\ branch'.job[i] # NoJob
             /\ branch'.job[i].status \in {"READY", "DELIVERED"}
                 => Delivered(branch', Welcome(i[2]))]_vars
=============================================================================
