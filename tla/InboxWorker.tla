----------------------------- MODULE InboxWorker -----------------------------
(***************************************************************************)
(* The durable inbox of Telegram updates: the webhook that accepts an      *)
(* update and the worker that decides, prepares, delivers and retires it   *)
(* (src/tawg_bot/telegram_inbox.py, process_inbox of src/tawg_bot/         *)
(* runtime.py, deploy/modal_app.py).                                       *)
(*                                                                         *)
(* State lives in two places that are saved one after the other: the       *)
(* volume (envelope, worker state and tombstone of each update) and the    *)
(* git branch (delivery state and webhook receipts, pushed in receipt-only *)
(* mode).  Everything else, the pending jobs above all, is in a clone that *)
(* is lost with the session.  One worker runs at a time (max_containers=1) *)
(* beside any number of webhooks; it may be started again after a failure, *)
(* and by the maintenance cron, on entries it left half done.              *)
(*                                                                         *)
(* Every update is about a message of its own, so it has one job; a reply  *)
(* is one message (Delivery treats texts of several parts) and has passed  *)
(* the privacy filter when it was prepared, under a policy that does not   *)
(* change.  A save to the volume and its commit are one step.              *)
(***************************************************************************)
EXTENDS Naturals, Sequences, FiniteSets

CONSTANTS Updates,      \* update ids
          Maintenance,  \* the call of the cron, which names no update
          Texts,        \* replies the model may prepare
          NoText,
          MaxAttempts,  \* INBOX_MAX_ATTEMPTS
          Repeated,     \* updates Telegram sends again after it got its 200
          MaxFaults     \* bound: exceptions, crashes and conflicts

ASSUME InboxAssumption ==
    /\ Maintenance \notin Updates
    /\ NoText \notin Texts
    /\ MaxAttempts \in Nat \ {0}
    /\ Repeated \subseteq Updates
    /\ MaxFaults \in Nat

VARIABLES
    request,   \* per update: where its webhook request is
    accepted,  \* updates answered with 200
    calls,     \* worker calls that were spawned and not started
    incoming,  \* volume: updates with an envelope
    entry,     \* volume: the worker state of each update
    done,      \* volume: updates with a tombstone
    remote,    \* branch: delivery entries and receipts
    clone,     \* the same in the clone of the session
    jobs,      \* clone: the reply job of each update
    pc,        \* where the worker is
    call,      \* the call it serves
    todo,      \* entries selected and not reached yet
    cur,       \* the entry it processes
    replies,   \* prepared_replies still to be delivered
    results,   \* outcome of each reply delivered in this pass
    posted,    \* per update: replies that have reached the chat
    declined,  \* history: updates whose reply was given up on purpose
    faults

volumeVars == <<incoming, entry, done>>
endpointVars == <<request, accepted>>
passVars == <<call, todo, cur>>
chatVars == <<posted, declined>>
vars == <<endpointVars, calls, volumeVars, remote, clone, jobs, pc, passVars,
          replies, results, chatVars, faults>>

NobodysTurn == Maintenance  \* cur outside an entry

-----------------------------------------------------------------------------
(* Data                                                                    *)

\* A reply job of pending-bot-jobs.json; routed once it has been classified.
JobStatuses == {"none", "pending", "routed", "ready", "ignored", "cancelled", "delivered"}
Job(st, t) == [status |-> st, text |-> t]
NoJob == Job("none", NoText)
Closed == {"ignored", "cancelled", "delivered"}

\* An entry of delivery-state.json; text stands for its content hash.
RecordStatuses == {"none", "prepared", "sending", "delivered", "failed", "ambiguous"}
Record(st, t) == [status |-> st, text |-> t]

EmptyBranch == [records |-> [u \in Updates |-> Record("none", NoText)], receipts |-> {}]
NoJobs == [u \in Updates |-> NoJob]

EntryStatuses == {"ENQUEUED", "ENTRY_DECIDED", "DELIVERY_PENDING", "DELIVERED",
                  "TERMINAL", "AMBIGUOUS", "NEEDS_ATTENTION"}
InDelivery == {"ENTRY_DECIDED", "DELIVERY_PENDING"}
Terminal == {"DELIVERED", "TERMINAL"}
ForOperator == {"AMBIGUOUS", "NEEDS_ATTENTION"}

\* An update without a state file is ENQUEUED.
NewEntry == [status |-> "ENQUEUED", job |-> NoJob, prepared |-> {}, attempts |-> 0]

Checkpoints == {"ckpt_prepared", "ckpt_intent", "ckpt_sending", "ckpt_outcome",
                "ckpt_settled", "ckpt_final"}

\* The locations inside _process_inbox_entry, whose exceptions
\* _process_with_retries catches.
InTry == {"process", "decide", "decided", "prepare", "deliver", "post"}
             \cup (Checkpoints \ {"ckpt_final"})

Locations == {"off", "first", "drain", "settled", "remove", "unlink", "raised"}
                 \cup InTry \cup Checkpoints

Init ==
    /\ request = [u \in Updates |-> "none"]
    /\ accepted = {}
    /\ calls = {}
    /\ incoming = {}
    /\ entry = [u \in Updates |-> NewEntry]
    /\ done = {}
    /\ remote = EmptyBranch
    /\ clone = EmptyBranch
    /\ jobs = NoJobs
    /\ pc = "off"
    /\ call = Maintenance
    /\ todo = {}
    /\ cur = NobodysTurn
    /\ replies = {}
    /\ results = [u \in Updates |-> "none"]
    /\ posted = [u \in Updates |-> <<>>]
    /\ declined = {}
    /\ faults = 0

-----------------------------------------------------------------------------
(* The webhook endpoint                                                    *)

workerVars == <<remote, clone, jobs, pc, passVars, replies, results, chatVars, faults>>

\* The endpoint reloads the volume: an update with a tombstone or an envelope
\* is not published again.
WebhookReads(u) ==
    /\ request[u] = "none"
    /\ u \in accepted => u \in Repeated
    /\ request' = [request EXCEPT ![u] = IF u \in done \cup incoming THEN "spawn"
                                         ELSE "publish"]
    /\ UNCHANGED <<accepted, calls, volumeVars, workerVars>>

\* It writes the envelope and commits, whatever has happened since the reload.
WebhookPublishes(u) ==
    /\ request[u] = "publish"
    /\ incoming' = incoming \cup {u}
    /\ request' = [request EXCEPT ![u] = "spawn"]
    /\ UNCHANGED <<accepted, calls, entry, done, workerVars>>

\* It spawns the worker and answers 200.
WebhookSpawns(u) ==
    /\ request[u] = "spawn"
    /\ calls' = calls \cup {u}
    /\ accepted' = accepted \cup {u}
    /\ request' = [request EXCEPT ![u] = "none"]
    /\ UNCHANGED <<volumeVars, workerVars>>

\* It fails: Telegram will repeat the update.
WebhookFails(u) ==
    /\ request[u] # "none"
    /\ request' = [request EXCEPT ![u] = "none"]
    /\ UNCHANGED <<accepted, calls, volumeVars, workerVars>>

\* scheduled_maintenance.
Cron ==
    /\ calls' = calls \cup {Maintenance}
    /\ UNCHANGED <<endpointVars, volumeVars, workerVars>>

-----------------------------------------------------------------------------
(* A worker session: selection and drain                                   *)

\* Mutant: the tombstone does not hide the envelope it retires.
MutantVisible == incoming

\* entries(): what is in the inbox and has no tombstone.
Visible == incoming \ done

\* Mutant: entries that are decided but not prepared are not resumed.
MutantSelectedDecided(c) ==
    {u \in Visible : \/ entry[u].status \in {"DELIVERY_PENDING"} \cup Terminal
                     \/ c # Maintenance /\ entry[u].status = "ENQUEUED"}

\* select_drain_entries: maintenance resumes decided entries and finishes
\* terminal ones; only the call of an update takes undecided entries.
Selected(c) ==
    {u \in Visible : \/ entry[u].status \in InDelivery \cup Terminal
                     \/ c # Maintenance /\ entry[u].status = "ENQUEUED"}

\* A session starts: a fresh clone, a reload of the volume, the selection.
\* Maintenance first removes what a crash left behind a tombstone.
Start(c) ==
    /\ pc = "off"
    /\ calls' = calls \ {c}
    /\ call' = c
    /\ clone' = remote
    /\ todo' = Selected(c)
    /\ pc' = "first"
    /\ IF c = Maintenance
       THEN /\ incoming' = incoming \ done
            /\ entry' = [u \in Updates |-> IF u \in done THEN NewEntry ELSE entry[u]]
       ELSE UNCHANGED <<incoming, entry>>
    /\ UNCHANGED <<endpointVars, done, remote, jobs, cur, replies, results, chatVars, faults>>

\* Mutant: the next session works in the same checkout.
MutantClose(again) ==
    /\ pc' = "off"
    /\ calls' = calls \cup again
    /\ call' = Maintenance
    /\ todo' = {}
    /\ cur' = NobodysTurn
    /\ clone' = EmptyBranch
    /\ UNCHANGED jobs
    /\ replies' = {}
    /\ results' = [u \in Updates |-> "none"]

\* The session is over: its clone is removed.
Close(again) ==
    /\ pc' = "off"
    /\ calls' = calls \cup again
    /\ call' = Maintenance
    /\ todo' = {}
    /\ cur' = NobodysTurn
    /\ clone' = EmptyBranch
    /\ jobs' = NoJobs
    /\ replies' = {}
    /\ results' = [u \in Updates |-> "none"]

\* The loop of process_inbox takes the next entry.
NextEntry(u) ==
    /\ pc \in {"first", "drain"}
    /\ u \in todo
    /\ todo' = todo \ {u}
    /\ cur' = u
    /\ pc' = IF entry[u].status \in Terminal THEN "remove" ELSE "process"
    /\ replies' = {}
    /\ results' = [v \in Updates |-> "none"]
    /\ UNCHANGED <<endpointVars, calls, volumeVars, remote, clone, jobs, call,
                   chatVars, faults>>

\* The loop ends: every entry was seen, or the time budget is used up.  The
\* budget is longer than nothing: the first entry is always reached.
EndDrain ==
    /\ pc = "drain" \/ (pc = "first" /\ todo = {})
    /\ pc' = "ckpt_final"
    /\ todo' = {}
    /\ cur' = NobodysTurn
    /\ UNCHANGED <<endpointVars, calls, volumeVars, remote, clone, jobs, call, replies,
                   results, chatVars, faults>>

\* persist_entry(updated), and what process_inbox does with it.
Return(status, attempts) ==
    /\ entry' = [entry EXCEPT ![cur].status = status, ![cur].attempts = attempts]
    /\ pc' = IF status \in Terminal THEN "remove" ELSE "drain"

\* Mutant: the records are removed before the tombstone is written.
MutantTombstone ==
    /\ pc = "remove"
    /\ incoming' = incoming \ {cur}
    /\ pc' = "unlink"
    /\ UNCHANGED <<endpointVars, calls, done, entry, remote, clone, jobs, passVars,
                   replies, results, chatVars, faults>>

\* remove_entry: the tombstone is written before the records are removed.
Tombstone ==
    /\ pc = "remove"
    /\ done' = done \cup {cur}
    /\ pc' = "unlink"
    /\ UNCHANGED <<endpointVars, calls, incoming, entry, remote, clone, jobs, passVars,
                   replies, results, chatVars, faults>>

Unlink ==
    /\ pc = "unlink"
    /\ incoming' = incoming \ {cur}
    /\ entry' = [entry EXCEPT ![cur] = NewEntry]
    /\ pc' = "drain"
    /\ UNCHANGED <<endpointVars, calls, done, remote, clone, jobs, passVars, replies,
                   results, chatVars, faults>>

-----------------------------------------------------------------------------
(* _process_inbox_entry: decision and preparation                          *)

\* _terminal_delivery_status: the delivery state already has the outcome.
RecordedOutcome ==
    /\ pc = "process"
    /\ entry[cur].job.status # "none"
    /\ \/ clone.records[cur].status = "ambiguous" /\ Return("AMBIGUOUS", entry[cur].attempts)
       \/ clone.records[cur].status = "delivered" /\ Return("DELIVERED", entry[cur].attempts)
    /\ UNCHANGED <<endpointVars, calls, incoming, done, remote, clone, jobs, passVars,
                   replies, results, chatVars, faults>>

\* ingest_envelopes: an update without a receipt gets a job, once.
Ingested(u) == IF jobs[u].status = "none" THEN Job("pending", NoText) ELSE jobs[u]

\* _restore_inbox_jobs and _prepared_from_payloads: the job and the replies that
\* the entry was saved with.
RestoredJob(u) == entry[u].job
RestoredReplies(u) == entry[u].prepared

\* Without a recorded outcome the envelope is ingested.  An undecided entry goes
\* to its decision; another one gets its saved job back, and its saved replies
\* when it has any.
Ingest ==
    /\ pc = "process"
    /\ ~(entry[cur].job.status # "none"
           /\ clone.records[cur].status \in {"ambiguous", "delivered"})
    /\ IF entry[cur].status = "ENQUEUED"
       THEN /\ jobs' = [jobs EXCEPT ![cur] = IF cur \in clone.receipts THEN @ ELSE Ingested(cur)]
            /\ pc' = "decide"
            /\ UNCHANGED replies
       ELSE /\ jobs' = [jobs EXCEPT ![cur] = RestoredJob(cur)]
            /\ IF entry[cur].status = "DELIVERY_PENDING" /\ RestoredReplies(cur) # {}
               THEN /\ replies' = RestoredReplies(cur)
                    /\ pc' = "deliver"
               ELSE /\ pc' = "prepare"
                    /\ UNCHANGED replies
    /\ UNCHANGED <<endpointVars, calls, volumeVars, remote, clone, passVars, results,
                   chatVars, faults>>

\* EntryDecider.decide, for a job that is a candidate: the model, a fallback or
\* the privacy filter decides.
Decide ==
    /\ pc = "decide"
    /\ IF jobs[cur].status = "pending"
       THEN \E st \in {"routed", "ignored", "cancelled"} :
               /\ jobs' = [jobs EXCEPT ![cur].status = st]
               /\ declined' = IF st = "routed" THEN declined ELSE declined \cup {cur}
       ELSE UNCHANGED <<jobs, declined>>
    /\ pc' = "decided"
    /\ UNCHANGED <<endpointVars, calls, volumeVars, remote, clone, passVars, replies,
                   results, posted, faults>>

\* The decision is saved; an entry without a job to prepare is over.
SaveDecision ==
    /\ pc = "decided"
    /\ IF jobs[cur].status \in Closed \cup {"none"}
       THEN Return("TERMINAL", entry[cur].attempts + 1)
       ELSE /\ entry' = [entry EXCEPT ![cur].status = "ENTRY_DECIDED",
                                      ![cur].job = jobs[cur],
                                      ![cur].attempts = entry[cur].attempts + 1]
            /\ pc' = "prepare"
    /\ UNCHANGED <<endpointVars, calls, incoming, done, remote, clone, jobs, passVars,
                   replies, results, chatVars, faults>>

\* BotReplyService.prepare of one job: a text, a failure that leaves it for a
\* later pass (or no time), or a failure that cancels it.
PreparedAs(j) ==
    IF j.status \in {"pending", "routed"}
    THEN {Job("ready", t) : t \in Texts} \cup {j, Job("cancelled", NoText)}
    ELSE {j}

\* publish_repository prepares every job of the clone, not only that of the
\* entry it is called for.
Prepare ==
    /\ pc = "prepare"
    /\ jobs' \in {f \in [Updates -> UNION {PreparedAs(jobs[u]) : u \in Updates}] :
                     \A u \in Updates : f[u] \in PreparedAs(jobs[u])}
    /\ replies' = {<<u, jobs'[u].text>> : u \in {v \in Updates : jobs'[v].status = "ready"}}
    /\ declined' = declined \cup
                     {u \in Updates : jobs'[u] # jobs[u] /\ jobs'[u].status = "cancelled"}
    /\ pc' = "ckpt_prepared"
    /\ UNCHANGED <<endpointVars, calls, volumeVars, remote, clone, passVars, results,
                   posted, faults>>

-----------------------------------------------------------------------------
(* telegram_delivery                                                       *)

deliverVars == <<endpointVars, calls, volumeVars, remote, passVars, faults>>

Recorded(u, r) == clone' = [clone EXCEPT !.records[u] = r]

\* The reply is dealt with, without any checkpoint.
Resolve(u, result) ==
    /\ results' = [results EXCEPT ![u] = result]
    /\ UNCHANGED <<clone, pc>>

\* deliver finds an entry that decides the call: another text was recorded, or
\* this one is delivered or ambiguous already.
Recall(u, t) ==
    LET r == clone.records[u] IN
    /\ pc = "deliver" /\ <<u, t>> \in replies
    /\ \/ r.text \notin {NoText, t} /\ Resolve(u, "failed")
       \/ r.text = t /\ r.status \in {"delivered", "ambiguous"} /\ Resolve(u, r.status)
    /\ replies' = replies \ {<<u, t>>}
    /\ UNCHANGED <<deliverVars, jobs, chatVars>>

\* Mutant: a reply that was being sent is sent again.
MutantIntend(u, t) ==
    LET r == clone.records[u] IN
    /\ pc = "deliver" /\ <<u, t>> \in replies
    /\ r.text \in {NoText, t}
    /\ r.status \in {"none", "prepared", "failed", "sending"}
    /\ Recorded(u, Record("prepared", t))
    /\ pc' = "ckpt_intent"
    /\ replies' = replies \ {<<u, t>>}
    /\ results' = [results EXCEPT ![u] = "open"]
    /\ UNCHANGED <<deliverVars, jobs, chatVars>>

\* deliver records its intent, or gives up an intent that was being sent.
Intend(u, t) ==
    LET r == clone.records[u] IN
    /\ pc = "deliver" /\ <<u, t>> \in replies
    /\ r.text \in {NoText, t}
    /\ \/ /\ r.status = "sending"
          /\ Recorded(u, Record("ambiguous", t))
          /\ pc' = "ckpt_outcome"
       \/ /\ r.status \in {"none", "prepared", "failed"}
          /\ Recorded(u, Record("prepared", t))
          /\ pc' = "ckpt_intent"
    /\ replies' = replies \ {<<u, t>>}
    /\ results' = [results EXCEPT ![u] = "open"]
    /\ UNCHANGED <<deliverVars, jobs, chatVars>>

\* The reply between its intent and its outcome.
Sending == CHOOSE u \in Updates : results[u] = "open"

Arrives(u) == posted' = [posted EXCEPT ![u] = Append(posted[u], clone.records[u].text)]

Outcome(u, st) ==
    /\ Recorded(u, [clone.records[u] EXCEPT !.status = st])
    /\ pc' = "ckpt_outcome"
    /\ UNCHANGED <<deliverVars, replies, results, declined>>

\* Telegram confirms the message; _publish_final marks the job as well.
PostConfirmed ==
    /\ pc = "post"
    /\ Arrives(Sending)
    /\ jobs' = [jobs EXCEPT ![Sending].status =
                   IF jobs[Sending].status = "none" THEN "none" ELSE "delivered"]
    /\ Outcome(Sending, "delivered")

\* The answer of Telegram is lost.
PostUnknown ==
    /\ pc = "post"
    /\ Arrives(Sending) \/ UNCHANGED posted
    /\ Outcome(Sending, "ambiguous")
    /\ UNCHANGED jobs

\* Telegram refuses the message.
PostRefused ==
    /\ pc = "post"
    /\ Outcome(Sending, "failed")
    /\ UNCHANGED <<jobs, posted>>

-----------------------------------------------------------------------------
(* Settling an entry                                                       *)

\* Mutant: any delivery of the pass settles the entry.
MutantSettledByAny ==
    IF results[cur] = "ambiguous" THEN "AMBIGUOUS"
    ELSE IF \E u \in Updates : results[u] = "delivered" THEN "DELIVERED"
    ELSE IF jobs[cur].status \in Closed THEN "TERMINAL"
    ELSE "DELIVERY_PENDING"

\* _inbox_delivery_status.
SettledStatus ==
    IF results[cur] = "ambiguous" THEN "AMBIGUOUS"
    ELSE IF results[cur] = "failed" THEN "DELIVERY_PENDING"
    ELSE IF results[cur] = "delivered" THEN "DELIVERED"
    ELSE IF jobs[cur].status \in Closed THEN "TERMINAL"
    ELSE "DELIVERY_PENDING"

\* _schedule_inbox_retry: the entry waits for a later call, or for a person.
ScheduleRetry ==
    /\ pc = "deliver" /\ replies = {}
    /\ SettledStatus = "DELIVERY_PENDING"
    /\ Return(IF entry[cur].attempts + 1 >= MaxAttempts THEN "NEEDS_ATTENTION"
              ELSE "DELIVERY_PENDING",
              entry[cur].attempts + 1)
    /\ UNCHANGED <<endpointVars, calls, incoming, done, remote, clone, jobs, passVars,
                   replies, results, chatVars, faults>>

\* commit_intake_state: the receipt is written once the outcome is known.
CommitReceipt ==
    /\ pc = "deliver" /\ replies = {}
    /\ SettledStatus # "DELIVERY_PENDING"
    /\ clone' = [clone EXCEPT !.receipts = @ \cup {cur}]
    /\ pc' = "ckpt_settled"
    /\ UNCHANGED <<deliverVars, jobs, replies, results, chatVars>>

\* The receipt is pushed; now the entry follows.
Settle ==
    /\ pc = "settled"
    /\ Return(SettledStatus, entry[cur].attempts)
    /\ UNCHANGED <<endpointVars, calls, incoming, done, remote, clone, jobs, passVars,
                   replies, results, chatVars, faults>>

-----------------------------------------------------------------------------
(* Checkpoints, exceptions and lost sessions                               *)

\* commit_operation.sh pushes the delivery state and the receipts, and the
\* session goes on.
CheckpointPushes ==
    /\ pc \in Checkpoints \ {"ckpt_final"}
    /\ remote' = clone
    /\ \/ /\ pc = "ckpt_prepared"
          /\ entry' = [entry EXCEPT ![cur].status = "DELIVERY_PENDING",
                                    ![cur].job = jobs[cur], ![cur].prepared = replies]
          /\ pc' = "deliver"
          /\ UNCHANGED <<clone, results>>
       \/ /\ pc = "ckpt_intent"
          /\ Recorded(Sending, [clone.records[Sending] EXCEPT !.status = "sending"])
          /\ pc' = "ckpt_sending"
          /\ UNCHANGED <<entry, results>>
       \/ /\ pc = "ckpt_sending"
          /\ pc' = "post"
          /\ UNCHANGED <<clone, entry, results>>
       \/ /\ pc = "ckpt_outcome"
          /\ results' = [results EXCEPT ![Sending] = clone.records[Sending].status]
          /\ pc' = "deliver"
          /\ UNCHANGED <<clone, entry>>
       \/ /\ pc = "ckpt_settled"
          /\ pc' = "settled"
          /\ UNCHANGED <<clone, entry, results>>
    /\ UNCHANGED <<endpointVars, calls, incoming, done, jobs, passVars, replies, chatVars,
                   faults>>

\* The checkpoint of RepositorySession ends the session and its call.
Finish ==
    /\ pc = "ckpt_final"
    /\ remote' = clone
    /\ Close({})
    /\ UNCHANGED <<endpointVars, volumeVars, chatVars, faults>>

\* An exception inside _process_inbox_entry; a checkpoint may have pushed
\* before it failed.
Raise ==
    /\ faults < MaxFaults
    /\ faults' = faults + 1
    /\ pc \in InTry
    /\ pc' = "raised"
    /\ remote' = remote \/ (pc \in Checkpoints /\ remote' = clone)
    /\ UNCHANGED <<endpointVars, calls, volumeVars, clone, jobs, passVars, replies,
                   results, chatVars>>

\* Mutant: the handler writes back the entry it was called with.
MutantLatest(u) == [NewEntry EXCEPT !.attempts = entry[u].attempts]

\* The handler starts from the entry as last saved, never from its own copy.
Latest(u) == entry[u]

\* Mutant: the handler retries for ever.
MutantHandle ==
    LET attempts == Latest(cur).attempts + 1 IN
    /\ pc = "raised"
    /\ entry' = [entry EXCEPT ![cur] = [Latest(cur) EXCEPT !.attempts = attempts]]
    /\ pc' = "process"
    /\ replies' = {}
    /\ results' = [u \in Updates |-> "none"]
    /\ UNCHANGED <<endpointVars, calls, incoming, done, remote, clone, jobs, passVars,
                   chatVars, faults>>

\* _process_with_retries: try again in the same clone, at most so many times.
Handle ==
    LET attempts == Latest(cur).attempts + 1 IN
    /\ pc = "raised"
    /\ IF attempts >= MaxAttempts
       THEN /\ entry' = [entry EXCEPT ![cur] = [Latest(cur) EXCEPT
                            !.status = "NEEDS_ATTENTION", !.attempts = attempts]]
            /\ pc' = "drain"
       ELSE /\ entry' = [entry EXCEPT ![cur] = [Latest(cur) EXCEPT !.attempts = attempts]]
            /\ pc' = "process"
    /\ replies' = {}
    /\ results' = [u \in Updates |-> "none"]
    /\ UNCHANGED <<endpointVars, calls, incoming, done, remote, clone, jobs, passVars,
                   chatVars, faults>>

\* The session is lost: the worker died, the push was refused because somebody
\* else pushed, or an exception left the drain.  The call is served again from
\* a fresh clone (RepositorySession, modal.Retries), or given up.
Abandon ==
    /\ faults < MaxFaults
    /\ faults' = faults + 1
    /\ pc # "off"
    /\ remote' = remote \/ (pc \in Checkpoints /\ remote' = clone)
    /\ Close({}) \/ Close({call})
    /\ UNCHANGED <<endpointVars, volumeVars, chatVars>>

-----------------------------------------------------------------------------
Worker ==
    \/ \E c \in calls : Start(c)
    \/ \E u \in Updates : NextEntry(u)
    \/ EndDrain \/ Tombstone \/ Unlink
    \/ RecordedOutcome \/ Ingest \/ Decide \/ SaveDecision \/ Prepare
    \/ \E u \in Updates, t \in Texts : Recall(u, t) \/ Intend(u, t)
    \/ PostConfirmed \/ PostUnknown \/ PostRefused
    \/ ScheduleRetry \/ CommitReceipt \/ Settle
    \/ CheckpointPushes \/ Finish \/ Handle

Next ==
    \/ \E u \in Updates : WebhookReads(u) \/ WebhookPublishes(u) \/ WebhookSpawns(u)
                            \/ WebhookFails(u)
    \/ Cron
    \/ Worker
    \/ Raise \/ Abandon

Spec == Init /\ [][Next]_vars

-----------------------------------------------------------------------------
(* Properties                                                              *)

Replies == SUBSET (Updates \X Texts)
Jobs == [status : JobStatuses, text : Texts \cup {NoText}]
Branch == [records : [Updates -> [status : RecordStatuses, text : Texts \cup {NoText}]],
           receipts : SUBSET Updates]

\* The type of the state of the endpoint, the volume, the branch and the worker.
TypeOK ==
    /\ request \in [Updates -> {"none", "publish", "spawn"}]
    /\ accepted \subseteq Updates
    /\ calls \subseteq Updates \cup {Maintenance}
    /\ incoming \subseteq Updates
    /\ entry \in [Updates -> [status : EntryStatuses, job : Jobs, prepared : Replies,
                              attempts : 0 .. MaxAttempts + 1]]
    /\ done \subseteq Updates
    /\ remote \in Branch
    /\ clone \in Branch
    /\ jobs \in [Updates -> Jobs]
    /\ pc \in Locations
    /\ call \in Updates \cup {Maintenance}
    /\ todo \subseteq Updates
    /\ cur \in Updates \cup {NobodysTurn}
    /\ replies \in Replies
    /\ results \in [Updates -> RecordStatuses \cup {"open"}]
    /\ posted \in [Updates -> Seq(Texts)]
    /\ declined \subseteq Updates
    /\ faults \in 0 .. MaxFaults

\* An update answered with 200 is never lost: it has its envelope or its
\* tombstone, also while removal, cleanup and repeated webhooks race.
AcceptedKept == accepted \subseteq incoming \cup done

\* One reply at most, over all passes, retries, calls, crashes and clones, and
\* even when the pass of one update prepares and sends the reply of another;
\* and a tombstone only for an update whose reply is in the chat or was given up
\* on purpose (ignored or cancelled): nothing that was accepted is dropped
\* because two saves were apart when the worker died.
AnsweredOnce ==
    /\ \A u \in Updates : Len(posted[u]) <= 1
    /\ \A u \in done : posted[u] # <<>> \/ u \in declined

\* The volume and the branch agree where it matters: the receipt of an update is
\* not in the branch before its decision and its replies are in the volume (a
\* receipt that came first would make the next pass see no candidate:
\* commit_intake_state), and an entry is ambiguous only when its intent was
\* pushed: the person who looks into it finds a record in the branch.  How far
\* the record has come there is open, since the outcome of the last pass may not
\* have been pushed and another entry may hold the reply too.
StoresAgree ==
    \A u \in Updates :
        /\ u \in remote.receipts \ done =>
              entry[u].status \notin {"ENQUEUED", "ENTRY_DECIDED"}
        /\ entry[u].status = "AMBIGUOUS" => remote.records[u].status # "none"

\* A reply to u was saved with the entry of another update, whose pass prepared
\* every job of the clone.
SavedByAnother(u) ==
    \E v \in Updates \ {u}, t \in Texts : <<u, t>> \in entry[v].prepared

\* After the tombstone nothing is sent for an update, whatever webhook is repeated
\* and whatever session is lost, unless another entry holds a reply to it.
SilentAfterTombstone ==
    [][\A u \in done : u \in done' /\ (posted'[u] = posted[u] \/ SavedByAnother(u))]_vars

\* Maintenance "must never run an entry decision for a queued trigger"
\* (select_drain_entries): an undecided entry stays so, and nothing is sent for
\* it, while the call of the cron is served.
MaintenanceNeverDecides ==
    [][\A u \in Updates :
          (pc # "off" /\ call = Maintenance /\ u \in Visible /\ entry[u].status = "ENQUEUED")
              => /\ posted'[u] = posted[u]
                 /\ entry'[u].status = "ENQUEUED"]_vars

\* The cron runs, calls are served and the worker takes its steps.
FairSpec ==
    /\ Spec
    /\ WF_vars(Cron)
    /\ WF_vars(Worker)

\* A decided entry is retired or handed to a person in the end, whatever
\* failures come in between, without any further message.
DecidedSettles ==
    \A u \in Updates :
        (u \in Visible /\ entry[u].status \in InDelivery)
            ~> (u \in done \/ entry[u].status \in ForOperator)
=============================================================================
