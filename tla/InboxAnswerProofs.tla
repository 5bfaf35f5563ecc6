------------------------- MODULE InboxAnswerProofs -------------------------
(***************************************************************************)
(* What holds of the durable inbox for every set of updates and texts,     *)
(* every limit of attempts and any number of exceptions, crashes and       *)
(* conflicts: an update is answered at most once and retired only when it  *)
(* was answered or declined, the volume and the branch agree where it      *)
(* matters, nothing is sent behind a tombstone, maintenance leaves         *)
(* undecided entries alone, and what was accepted is never lost.           *)
(*                                                                         *)
(* The invariant IInv has a part per question: where the pass is, which    *)
(* reply is under way, what the records tell of the chat, why an entry may *)
(* end, what the two stores know of each other.  One lemma per part goes   *)
(* through the steps of the worker; ApartInv is needed only by             *)
(* MaintenanceOnlyResumes and is proved on top, and KeptInv, of NeverLost, *)
(* needs none of the others.                                               *)
(***************************************************************************)
EXTENDS InboxWorker, TLAPS

\* The places where the worker holds an entry.
Busy == {"process", "decide", "decided", "prepare", "deliver", "post", "settled",
         "remove", "unlink", "raised"} \cup (Checkpoints \ {"ckpt_final"})
\* Between the intent of a reply and its outcome.
Underway == {"ckpt_intent", "ckpt_sending", "post", "ckpt_outcome"}
\* Places that are reached only after the replies were saved with the entry.
OnSaved == {"deliver", "settled", "ckpt_settled"} \cup Underway

\* Where the pass is.  A selected entry stays as it was until its turn comes, and
\* the status of the current one says how far its pass can be.
PassInv ==
    /\ todo \cap done = {}
    /\ \A u \in todo : entry[u].status \notin ForOperator
    /\ pc \in Busy => cur \in Updates /\ cur \notin todo
    /\ pc \in Busy \ {"unlink"} => cur \notin done
    /\ pc \in {"process", "raised"} => entry[cur].status \in InDelivery \cup {"ENQUEUED"}
    /\ pc \in {"decide", "decided"} => entry[cur].status = "ENQUEUED"
    /\ pc \in {"prepare", "ckpt_prepared"} => entry[cur].status \in InDelivery
    /\ pc \in OnSaved => entry[cur].status = "DELIVERY_PENDING"
    /\ pc = "remove" => entry[cur].status \in Terminal
    /\ pc = "unlink" => cur \in done
    /\ \A u \in Updates :
          /\ entry[u].status \notin ForOperator => entry[u].attempts <= MaxAttempts
          /\ entry[u].status = "ENQUEUED" => entry[u].attempts < MaxAttempts

\* The reply under way.  There is one, it comes from the saved replies of the
\* current entry, and it is posted only behind a push of "sending".
SendInv ==
    /\ pc \in Underway =>
          \E u \in Updates : /\ results[u] = "open"
                             /\ \A v \in Updates : results[v] = "open" => v = u
    /\ pc \notin Underway \cup {"raised"} => \A u \in Updates : results[u] # "open"
    /\ \A u \in Updates : results[u] = "open" =>
          /\ pc = "ckpt_intent" => clone.records[u].status = "prepared"
          /\ pc \in {"ckpt_sending", "post"} => clone.records[u].status = "sending"
          /\ pc = "post" => remote.records[u].status = "sending"
          /\ pc \in {"ckpt_intent", "ckpt_sending", "post"} => posted[u] = <<>>
          /\ pc = "ckpt_outcome" =>
                clone.records[u].status \in {"delivered", "ambiguous", "failed"}
          /\ pc \in Underway => \E t \in Texts : <<u, t>> \in entry[cur].prepared
          /\ pc \in Underway => clone.records[u].text # NoText
    /\ pc \in Underway \cup {"deliver"} => replies \subseteq entry[cur].prepared

\* Records that deliver never sends again.
Attempted == {"sending", "delivered", "ambiguous"}

\* What the records of branch and clone tell of the chat.  A reply in the chat has a
\* record that deliver never sends again, in every clone; the converse is true of
\* "delivered" only.
RecordTold(u) ==
    /\ Len(posted[u]) <= 1
    /\ posted[u] # <<>> => remote.records[u].status \in Attempted
    /\ posted[u] # <<>> /\ pc # "off" => clone.records[u].status \in Attempted
    /\ remote.records[u].status = "delivered" => posted[u] # <<>>
    /\ clone.records[u].status = "delivered" => posted[u] # <<>>
    /\ results[u] = "delivered" => posted[u] # <<>>
    /\ results[u] = "ambiguous" /\ pc # "raised" => clone.records[u].status = "ambiguous"
    /\ clone.records[u].status \notin {"none", "prepared"} => remote.records[u].status # "none"
    /\ remote.records[u].status # "none" /\ pc # "off" => clone.records[u].status # "none"
    /\ pc = "off" => results[u] = "none"

RecordsInv == \A u \in Updates : RecordTold(u)

\* An update may be retired.
Answered(u) == posted[u] # <<>> \/ u \in declined

\* A job that says it is closed is closed for a reason.
JobTrue(j, u) ==
    /\ j.status \in {"ignored", "cancelled"} => u \in declined
    /\ j.status = "delivered" => posted[u] # <<>>
    /\ j.status = "ready" => j.text # NoText

\* Why an entry may end.  The job of an entry that was just ingested is there: the
\* missing job of a replay would close it.
SettledInv ==
    /\ \A u \in Updates : JobTrue(jobs[u], u) /\ JobTrue(entry[u].job, u)
    /\ pc \in {"decide", "decided"} => jobs[cur].status # "none"
    /\ \A u \in Updates : entry[u].status \in Terminal => Answered(u)
    /\ \A u \in done : Answered(u)

\* StoresAgree, for the receipts of the clone as well: the next push makes them those
\* of the branch.
StoresInv ==
    /\ \A u \in (remote.receipts \cup clone.receipts) \ done :
          entry[u].status \notin {"ENQUEUED", "ENTRY_DECIDED"}
    /\ \A u \in Updates : entry[u].status = "AMBIGUOUS" => remote.records[u].status # "none"

\* The worker has decided the entry, or it is over.
Decided(u) == u \in done \/ entry[u].status # "ENQUEUED"

\* An undecided update has no job in the clone unless its own pass is on, no reply
\* saved with another entry, and maintenance does not reach it.
ApartInv ==
    /\ \A u \in Updates : jobs[u].status # "none" => Decided(u) \/ (cur = u /\ pc \in Busy)
    /\ \A u, v \in Updates, t \in Texts : <<u, t>> \in entry[v].prepared => Decided(u)
    /\ pc = "ckpt_prepared" => \A u \in Updates, t \in Texts : <<u, t>> \in replies => Decided(u)
    /\ pc # "off" /\ call = Maintenance =>
          /\ \A u \in todo : entry[u].status # "ENQUEUED"
          /\ pc \in Busy \ {"unlink"} => entry[cur].status # "ENQUEUED"

\* The inductive invariant.
IInv == TypeOK /\ PassInv /\ SendInv /\ RecordsInv /\ SettledInv /\ StoresInv

-----------------------------------------------------------------------------
\* Nothing has been accepted yet.
LEMMA InitInv == Init => IInv
<1> SUFFICES ASSUME Init PROVE IInv
  OBVIOUS
<1>0. \A u \in Updates : posted[u] = <<>> /\ entry[u] = NewEntry /\ jobs[u] = NoJob
         /\ remote.records[u] = Record("none", NoText)
         /\ clone.records[u] = Record("none", NoText) /\ results[u] = "none"
  BY DEF Init, EmptyBranch, NoJobs
<1>1. TypeOK
  BY InboxAssumption, <1>0
  DEF Init, TypeOK, Replies, Jobs, Branch, EmptyBranch, NoJobs, NoJob, Job, JobStatuses,
      NewEntry, EntryStatuses, Record, RecordStatuses, NobodysTurn, Locations
<1>2. PassInv
  BY InboxAssumption, <1>0 DEF Init, PassInv, Busy, Checkpoints, NewEntry, OnSaved, Underway, ForOperator
<1>3. SendInv
  BY <1>0 DEF Init, SendInv, Underway
<1>4. RecordsInv
  BY <1>0 DEF Init, RecordsInv, RecordTold, Record
<1>5. SettledInv
  BY <1>0 DEF Init, SettledInv, JobTrue, NoJob, Job, NewEntry, Terminal
<1>6. StoresInv
  BY <1>0 DEF Init, StoresInv, EmptyBranch, NewEntry, Record
<1> QED
  BY <1>1, <1>2, <1>3, <1>4, <1>5, <1>6 DEF IInv

\* The CHOOSE of Sending finds the reply under way.
LEMMA SendingOpen ==
    ASSUME IInv, pc \in Underway
    PROVE  Sending \in Updates /\ results[Sending] = "open"
BY DEF IInv, SendInv, Sending

\* Steps that leave the worker, its clone and the entries alone.
Aside == UNCHANGED <<entry, done, remote, clone, jobs, pc, todo, cur, replies,
                     results, chatVars>>

\* They keep every part of the invariant but the types.
LEMMA AsideKeeps ==
    ASSUME IInv, Aside PROVE PassInv' /\ SendInv' /\ RecordsInv' /\ SettledInv' /\ StoresInv'
<1> USE DEF IInv, Aside, chatVars
<1>1. PassInv'
  BY DEF PassInv
<1>2. SendInv'
  BY DEF SendInv
<1>3. RecordsInv'
  BY DEF RecordsInv, RecordTold
<1>4. SettledInv'
  BY DEF SettledInv, JobTrue, Answered
<1>5. StoresInv'
  BY DEF StoresInv
<1> QED BY <1>1, <1>2, <1>3, <1>4, <1>5

\* The webhook and the cron are aside.
LEMMA WebhookInv ==
    ASSUME IInv, \/ \E u \in Updates : WebhookReads(u) \/ WebhookPublishes(u)
                                         \/ WebhookSpawns(u) \/ WebhookFails(u)
                 \/ Cron
    PROVE  IInv'
<1>1. Aside
  BY DEF Aside, WebhookReads, WebhookPublishes, WebhookSpawns, WebhookFails, Cron,
         volumeVars, workerVars, passVars, chatVars
<1>2. TypeOK'
  <2> USE DEF IInv, TypeOK
  <2>1. ASSUME NEW u \in Updates, WebhookReads(u) PROVE TypeOK'
    BY <2>1 DEF WebhookReads, volumeVars, workerVars, passVars, chatVars
  <2>2. ASSUME NEW u \in Updates, WebhookPublishes(u) PROVE TypeOK'
    BY <2>2 DEF WebhookPublishes, workerVars, passVars, chatVars
  <2>3. ASSUME NEW u \in Updates, WebhookSpawns(u) PROVE TypeOK'
    BY <2>3 DEF WebhookSpawns, volumeVars, workerVars, passVars, chatVars
  <2>4. ASSUME NEW u \in Updates, WebhookFails(u) PROVE TypeOK'
    BY <2>4 DEF WebhookFails, volumeVars, workerVars, passVars, chatVars
  <2>5. CASE Cron
    BY <2>5 DEF Cron, endpointVars, volumeVars, workerVars, passVars, chatVars
  <2> QED BY <2>1, <2>2, <2>3, <2>4, <2>5
<1> QED BY <1>1, <1>2, AsideKeeps DEF IInv

\* An entry that is saved keeps its type.
LEMMA ReturnType ==
    ASSUME TypeOK, cur \in Updates, NEW st \in EntryStatuses, NEW n \in 0 .. MaxAttempts + 1,
           Return(st, n)
    PROVE  /\ entry' \in [Updates -> [status : EntryStatuses, job : Jobs, prepared : Replies,
                                      attempts : 0 .. MaxAttempts + 1]]
           /\ pc' \in Locations
BY DEF TypeOK, Return, Locations

\* The state of an update without a state file has its type.
LEMMA NewEntryType ==
    NewEntry \in [status : EntryStatuses, job : Jobs, prepared : Replies,
                  attempts : 0 .. MaxAttempts + 1]
BY InboxAssumption DEF NewEntry, EntryStatuses, Jobs, NoJob, Job, JobStatuses, Replies

\* So have an empty branch and a clone without jobs.
LEMMA EmptyType == EmptyBranch \in Branch /\ NoJobs \in [Updates -> Jobs]
BY DEF EmptyBranch, Branch, Record, RecordStatuses, NoJobs, Jobs, NoJob, Job, JobStatuses

\* And what is left of a session that is over.
LEMMA CloseType ==
    ASSUME TypeOK, NEW S \in SUBSET {call}, Close(S)
    PROVE  /\ pc' \in Locations
           /\ calls' \subseteq Updates \cup {Maintenance}
           /\ call' \in Updates \cup {Maintenance}
           /\ todo' \subseteq Updates
           /\ cur' \in Updates \cup {NobodysTurn}
           /\ clone' \in Branch
           /\ jobs' \in [Updates -> Jobs]
           /\ replies' \in Replies
           /\ results' \in [Updates -> RecordStatuses \cup {"open"}]
<1>1. clone' \in Branch /\ jobs' \in [Updates -> Jobs]
  BY EmptyType DEF Close
<1>2. replies' \in Replies /\ results' \in [Updates -> RecordStatuses \cup {"open"}]
  BY DEF Close, Replies, RecordStatuses
<1> QED
  BY <1>1, <1>2 DEF Close, TypeOK, Locations

\* A record that is written keeps the type of the clone.
LEMMA RecordedType ==
    ASSUME TypeOK, NEW u \in Updates,
           NEW r \in [status : RecordStatuses, text : Texts \cup {NoText}],
           Recorded(u, r)
    PROVE  clone' \in Branch
<1>1. [clone.records EXCEPT ![u] = r]
        \in [Updates -> [status : RecordStatuses, text : Texts \cup {NoText}]]
  BY DEF TypeOK, Branch
<1>2. clone' = [clone EXCEPT !.records = [clone.records EXCEPT ![u] = r]]
  BY DEF Recorded
<1> QED
  BY <1>1, <1>2 DEF TypeOK, Branch

\* Type correctness of selection, drain and removal.
LEMMA TypeVolume ==
    ASSUME IInv, \/ \E c \in calls : Start(c)
                 \/ \E u \in Updates : NextEntry(u)
                 \/ EndDrain \/ Tombstone \/ Unlink
    PROVE  TypeOK'
<1>1. ASSUME NEW c \in calls, Start(c) PROVE TypeOK'
  <2>1. entry' \in [Updates -> [status : EntryStatuses, job : Jobs, prepared : Replies,
                                attempts : 0 .. MaxAttempts + 1]]
    BY <1>1, NewEntryType DEF Start, IInv, TypeOK
  <2>2. incoming' \subseteq Updates /\ todo' \subseteq Updates
    BY <1>1 DEF Start, IInv, TypeOK, Selected, Visible
  <2> QED
    BY <1>1, <2>1, <2>2 DEF Start, IInv, TypeOK, Locations, endpointVars, chatVars
<1>2. ASSUME NEW u \in Updates, NextEntry(u) PROVE TypeOK'
  <2>1. /\ results' \in [Updates -> RecordStatuses \cup {"open"}]
        /\ replies' \in Replies
        /\ pc' \in Locations
    BY <1>2 DEF NextEntry, RecordStatuses, Replies, Locations, InTry
  <2> QED
    BY <1>2, <2>1 DEF NextEntry, IInv, TypeOK, endpointVars, volumeVars, chatVars
<1>3. CASE EndDrain
  BY <1>3 DEF EndDrain, IInv, TypeOK, Locations, Checkpoints, endpointVars, volumeVars, chatVars
<1>4. CASE Tombstone
  BY <1>4 DEF Tombstone, IInv, TypeOK, PassInv, Busy, Locations, endpointVars, passVars, chatVars
<1>5. CASE Unlink
  <2>1. cur \in Updates
    BY <1>5 DEF Unlink, IInv, PassInv, Busy
  <2>2. entry' \in [Updates -> [status : EntryStatuses, job : Jobs, prepared : Replies,
                                attempts : 0 .. MaxAttempts + 1]]
    BY <1>5, <2>1, NewEntryType DEF Unlink, IInv, TypeOK
  <2> QED
    BY <1>5, <2>2 DEF Unlink, IInv, TypeOK, Locations, endpointVars, passVars, chatVars
<1> QED
  BY <1>1, <1>2, <1>3, <1>4, <1>5

\* Of decision and preparation.  A ready job has a text because it was prepared
\* (JobTrue), and attempts stay in bounds because an undecided entry has some left
\* (PassInv).
LEMMA TypeDecision ==
    ASSUME IInv, RecordedOutcome \/ Ingest \/ Decide \/ SaveDecision \/ Prepare
    PROVE  TypeOK'
<1>1. CASE RecordedOutcome
  <2>1. cur \in Updates /\ entry[cur].attempts \in 0 .. MaxAttempts + 1
    BY <1>1 DEF RecordedOutcome, IInv, PassInv, Busy, TypeOK
  <2>2. /\ entry' \in [Updates -> [status : EntryStatuses, job : Jobs, prepared : Replies,
                                   attempts : 0 .. MaxAttempts + 1]]
        /\ pc' \in Locations
    BY <1>1, <2>1, ReturnType DEF RecordedOutcome, IInv, EntryStatuses
  <2> QED
    BY <1>1, <2>2 DEF RecordedOutcome, IInv, TypeOK, endpointVars, passVars, chatVars
<1>2. CASE Ingest
  <2>1. cur \in Updates
    BY <1>2 DEF Ingest, IInv, PassInv, Busy
  <2>2. Ingested(cur) \in Jobs /\ RestoredJob(cur) \in Jobs /\ RestoredReplies(cur) \in Replies
    BY <2>1 DEF IInv, TypeOK, Ingested, RestoredJob, RestoredReplies, Job, Jobs, JobStatuses
  <2>3. jobs' \in [Updates -> Jobs] /\ replies' \in Replies /\ pc' \in Locations
    BY <1>2, <2>1, <2>2 DEF Ingest, IInv, TypeOK, Locations, InTry
  <2> QED
    BY <1>2, <2>3 DEF Ingest, IInv, TypeOK, endpointVars, volumeVars, passVars, chatVars
<1>3. CASE Decide
  <2>1. cur \in Updates
    BY <1>3 DEF Decide, IInv, PassInv, Busy
  <2>2. jobs' \in [Updates -> Jobs] /\ declined' \subseteq Updates /\ pc' \in Locations
    <3>1. \A st \in JobStatuses :
             [jobs EXCEPT ![cur].status = st] \in [Updates -> Jobs]
      BY <2>1 DEF IInv, TypeOK, Jobs
    <3>2. jobs' \in [Updates -> Jobs]
      BY <1>3, <3>1 DEF Decide, IInv, TypeOK, JobStatuses
    <3> QED
      BY <1>3, <2>1, <3>2 DEF Decide, IInv, TypeOK, Locations, InTry
  <2> QED
    BY <1>3, <2>2 DEF Decide, IInv, TypeOK, endpointVars, volumeVars, passVars
<1>4. CASE SaveDecision
  <2>1. cur \in Updates /\ entry[cur].attempts + 1 \in 0 .. MaxAttempts + 1
    BY <1>4, InboxAssumption DEF SaveDecision, IInv, PassInv, Busy, TypeOK
  <2>2. /\ entry' \in [Updates -> [status : EntryStatuses, job : Jobs, prepared : Replies,
                                   attempts : 0 .. MaxAttempts + 1]]
        /\ pc' \in Locations
    <3>1. CASE jobs[cur].status \in Closed \cup {"none"}
      BY <1>4, <2>1, <3>1, ReturnType DEF SaveDecision, IInv, EntryStatuses
    <3>2. CASE jobs[cur].status \notin Closed \cup {"none"}
      <4>1. jobs[cur] \in Jobs
        BY <2>1 DEF IInv, TypeOK
      <4> DEFINE e1 == [entry EXCEPT ![cur].status = "ENTRY_DECIDED"]
                 e2 == [e1 EXCEPT ![cur].job = jobs[cur]]
                 e3 == [e2 EXCEPT ![cur].attempts = entry[cur].attempts + 1]
                 E == [Updates -> [status : EntryStatuses, job : Jobs, prepared : Replies,
                                   attempts : 0 .. MaxAttempts + 1]]
      <4>2. entry' = e3 /\ pc' = "prepare"
        BY <1>4, <3>2 DEF SaveDecision
      <4>3. e1 \in E
        BY DEF IInv, TypeOK, EntryStatuses
      <4>4. e2 \in E
        BY <4>1, <4>3
      <4>5. e3 \in E
        BY <2>1, <4>4
      <4> QED
        BY <4>2, <4>5 DEF Locations, InTry
    <3> QED
      BY <3>1, <3>2
  <2> QED
    BY <1>4, <2>2 DEF SaveDecision, IInv, TypeOK, endpointVars, passVars, chatVars
<1>5. CASE Prepare
  <2>1. \A u \in Updates : PreparedAs(jobs[u]) \subseteq Jobs
    BY DEF IInv, TypeOK, PreparedAs, Jobs, Job, JobStatuses
  <2>2. jobs' \in [Updates -> Jobs]
    BY <1>5, <2>1 DEF Prepare
  <2>3. \A u \in Updates : jobs'[u].status = "ready" => jobs'[u].text \in Texts
    <3> SUFFICES ASSUME NEW u \in Updates, jobs'[u].status = "ready"
                 PROVE  jobs'[u].text \in Texts
      OBVIOUS
    <3>1. jobs'[u] \in PreparedAs(jobs[u])
      BY <1>5 DEF Prepare
    <3>2. CASE jobs'[u] = jobs[u]
      BY <3>2, <2>2 DEF IInv, SettledInv, JobTrue, Jobs
    <3>3. CASE jobs'[u] # jobs[u]
      BY <3>1, <3>3 DEF PreparedAs, Job
    <3> QED
      BY <3>2, <3>3
  <2>4. replies' \in Replies
    BY <1>5, <2>3 DEF Prepare, Replies
  <2> QED
    BY <1>5, <2>2, <2>4 DEF Prepare, IInv, TypeOK, endpointVars, volumeVars, passVars,
                            Locations, InTry, Checkpoints
<1> QED
  BY <1>1, <1>2, <1>3, <1>4, <1>5

\* Of delivery.  What arrives in the chat is a text because an intent has one
\* (SendInv).
LEMMA TypeSending ==
    ASSUME IInv, PostConfirmed \/ PostUnknown \/ PostRefused
           \/ \E u \in Updates, t \in Texts : Recall(u, t) \/ Intend(u, t)
    PROVE  TypeOK'
<1>1. ASSUME NEW u \in Updates, NEW t \in Texts, Recall(u, t) PROVE TypeOK'
  <2>1. clone.records[u].status \in RecordStatuses
    BY DEF IInv, TypeOK, Branch
  <2>2. results' \in [Updates -> RecordStatuses \cup {"open"}]
    BY <1>1, <2>1 DEF Recall, Resolve, IInv, TypeOK, RecordStatuses
  <2>3. replies' \in Replies
    BY <1>1 DEF Recall, IInv, TypeOK, Replies
  <2> QED
    BY <1>1, <2>2, <2>3 DEF Recall, Resolve, deliverVars, endpointVars, volumeVars,
       passVars, chatVars, IInv, TypeOK
<1>2. ASSUME NEW u \in Updates, NEW t \in Texts, Intend(u, t) PROVE TypeOK'
  <2>1. \A st \in RecordStatuses :
           Record(st, t) \in [status : RecordStatuses, text : Texts \cup {NoText}]
    BY DEF Record
  <2>2. clone' \in Branch /\ pc' \in Locations
    BY <1>2, <2>1, RecordedType
    DEF Intend, IInv, RecordStatuses, Locations, InTry, Checkpoints
  <2>3. results' \in [Updates -> RecordStatuses \cup {"open"}] /\ replies' \in Replies
    BY <1>2 DEF Intend, IInv, TypeOK, Replies
  <2> QED
    BY <1>2, <2>2, <2>3 DEF Intend, deliverVars, endpointVars, volumeVars,
       passVars, chatVars, IInv, TypeOK
<1>3. ASSUME PostConfirmed \/ PostUnknown \/ PostRefused PROVE TypeOK'
  <2>1. pc = "post"
    BY <1>3 DEF PostConfirmed, PostUnknown, PostRefused
  <2>2. /\ Sending \in Updates
        /\ clone.records[Sending] \in [status : RecordStatuses, text : Texts]
    <3>1. /\ Sending \in Updates
          /\ clone.records[Sending] \in [status : RecordStatuses, text : Texts \cup {NoText}]
      BY <2>1, SendingOpen DEF Underway, IInv, TypeOK, Branch
    <3>2. clone.records[Sending].text # NoText
      BY <2>1, SendingOpen DEF Underway, IInv, SendInv
    <3> QED
      BY <3>1, <3>2
  <2>3. ASSUME NEW st \in RecordStatuses, Outcome(Sending, st)
        PROVE  clone' \in Branch /\ pc' \in Locations
    <3>1. [clone.records[Sending] EXCEPT !.status = st]
             \in [status : RecordStatuses, text : Texts \cup {NoText}]
      BY <2>2
    <3> QED
      BY <2>2, <2>3, <3>1, RecordedType DEF Outcome, IInv, Locations, InTry, Checkpoints
  <2>4. Arrives(Sending) => posted' \in [Updates -> Seq(Texts)]
    BY <2>2 DEF Arrives, IInv, TypeOK
  <2>5. CASE PostConfirmed
    <3>1. jobs' \in [Updates -> Jobs]
      <4>1. /\ [jobs EXCEPT ![Sending].status = "none"] \in [Updates -> Jobs]
            /\ [jobs EXCEPT ![Sending].status = "delivered"] \in [Updates -> Jobs]
        BY <2>2 DEF IInv, TypeOK, Jobs, JobStatuses
      <4> QED
        BY <2>5, <4>1 DEF PostConfirmed
    <3>2. clone' \in Branch /\ pc' \in Locations
      BY <2>3, <2>5 DEF PostConfirmed, RecordStatuses
    <3> QED
      BY <2>4, <2>5, <3>1, <3>2
      DEF PostConfirmed, Outcome, deliverVars, endpointVars, volumeVars, passVars, IInv, TypeOK
  <2>6. CASE PostUnknown
    <3>1. clone' \in Branch /\ pc' \in Locations
      BY <2>3, <2>6 DEF PostUnknown, RecordStatuses
    <3> QED
      BY <2>4, <2>6, <3>1
      DEF PostUnknown, Outcome, deliverVars, endpointVars, volumeVars, passVars, IInv, TypeOK
  <2>7. CASE PostRefused
    <3>1. clone' \in Branch /\ pc' \in Locations
      BY <2>3, <2>7 DEF PostRefused, RecordStatuses
    <3> QED
      BY <2>7, <3>1
      DEF PostRefused, Outcome, deliverVars, endpointVars, volumeVars, passVars, IInv, TypeOK
  <2> QED
    BY <1>3, <2>5, <2>6, <2>7
<1> QED
  BY <1>1, <1>2, <1>3

\* Of settling.
LEMMA TypeSettling ==
    ASSUME IInv, ScheduleRetry \/ CommitReceipt \/ Settle
    PROVE  TypeOK'
<1>1. cur \in Updates /\ entry[cur].attempts + 1 \in 0 .. MaxAttempts + 1
      /\ entry[cur].attempts \in 0 .. MaxAttempts + 1
  <2>1. pc \in {"deliver", "settled"}
    BY DEF ScheduleRetry, CommitReceipt, Settle
  <2>2. cur \in Updates /\ entry[cur].attempts <= MaxAttempts
    BY <2>1 DEF IInv, PassInv, Busy, OnSaved, ForOperator
  <2> QED
    BY <2>2, InboxAssumption DEF IInv, TypeOK
<1>2. CASE ScheduleRetry
  <2>1. /\ entry' \in [Updates -> [status : EntryStatuses, job : Jobs, prepared : Replies,
                                   attempts : 0 .. MaxAttempts + 1]]
        /\ pc' \in Locations
    BY <1>1, <1>2, ReturnType DEF ScheduleRetry, IInv, EntryStatuses
  <2> QED
    BY <1>2, <2>1 DEF ScheduleRetry, IInv, TypeOK, endpointVars, passVars, chatVars
<1>3. CASE CommitReceipt
  <2>1. clone' \in Branch
    BY <1>1, <1>3 DEF CommitReceipt, IInv, TypeOK, Branch
  <2> QED
    BY <1>3, <2>1 DEF CommitReceipt, IInv, TypeOK, deliverVars, endpointVars, volumeVars,
       passVars, chatVars, Locations, InTry, Checkpoints
<1>4. CASE Settle
  <2>1. /\ entry' \in [Updates -> [status : EntryStatuses, job : Jobs, prepared : Replies,
                                   attempts : 0 .. MaxAttempts + 1]]
        /\ pc' \in Locations
    <3>1. SettledStatus \in EntryStatuses
      BY DEF SettledStatus, EntryStatuses
    <3> QED
      BY <1>1, <1>4, <3>1, ReturnType DEF Settle, IInv
  <2> QED
    BY <1>4, <2>1 DEF Settle, IInv, TypeOK, endpointVars, passVars, chatVars
<1> QED
  BY <1>2, <1>3, <1>4

\* Of checkpoints, exceptions and lost sessions.
LEMMA TypeSaving ==
    ASSUME IInv, CheckpointPushes \/ Finish \/ Raise \/ Handle \/ Abandon
    PROVE  TypeOK'
<1>1. CASE CheckpointPushes
  <2>1. CASE pc = "ckpt_prepared"
    <3>1. cur \in Updates /\ jobs[cur] \in Jobs
      BY <2>1 DEF IInv, PassInv, Busy, Checkpoints, TypeOK
    <3> DEFINE e1 == [entry EXCEPT ![cur].status = "DELIVERY_PENDING"]
               e2 == [e1 EXCEPT ![cur].job = jobs[cur]]
               e3 == [e2 EXCEPT ![cur].prepared = replies]
               E == [Updates -> [status : EntryStatuses, job : Jobs, prepared : Replies,
                                 attempts : 0 .. MaxAttempts + 1]]
    <3>2. e1 \in E
      BY DEF IInv, TypeOK, EntryStatuses
    <3>3. e2 \in E
      BY <3>1, <3>2
    <3>4. e3 \in E
      BY <3>3 DEF IInv, TypeOK
    <3>5. entry' = e3 /\ pc' = "deliver" /\ UNCHANGED <<clone, results>>
      BY <1>1, <2>1 DEF CheckpointPushes
    <3> QED
      BY <1>1, <3>4, <3>5 DEF CheckpointPushes, IInv, TypeOK, endpointVars, passVars, chatVars,
         Locations, InTry
  <2>2. CASE pc \in {"ckpt_intent", "ckpt_sending", "ckpt_outcome"}
    <3>1. Sending \in Updates
      BY <2>2, SendingOpen DEF Underway
    <3>2. clone.records[Sending] \in [status : RecordStatuses, text : Texts \cup {NoText}]
      BY <3>1 DEF IInv, TypeOK, Branch
    <3>3. [clone.records[Sending] EXCEPT !.status = "sending"]
             \in [status : RecordStatuses, text : Texts \cup {NoText}]
      BY <3>2 DEF RecordStatuses
    <3>4. clone' \in Branch /\ pc' \in Locations /\ UNCHANGED entry
      BY <1>1, <2>2, <3>1, <3>3, RecordedType
      DEF CheckpointPushes, IInv, TypeOK, Locations, InTry, Checkpoints
    <3>5. results' \in [Updates -> RecordStatuses \cup {"open"}]
      BY <1>1, <2>2, <3>1, <3>2 DEF CheckpointPushes, IInv, TypeOK
    <3> QED
      BY <1>1, <3>4, <3>5 DEF CheckpointPushes, IInv, TypeOK, endpointVars, passVars, chatVars
  <2>3. CASE pc = "ckpt_settled"
    BY <1>1, <2>3 DEF CheckpointPushes, IInv, TypeOK, endpointVars, passVars, chatVars, Locations
  <2> QED
    BY <1>1, <2>1, <2>2, <2>3 DEF CheckpointPushes, Checkpoints
<1>2. CASE Finish
  BY <1>2, CloseType DEF Finish, IInv, TypeOK, endpointVars, volumeVars, chatVars
<1>3. CASE Raise
  BY <1>3, InboxAssumption
  DEF Raise, IInv, TypeOK, endpointVars, volumeVars, passVars, chatVars, Locations
<1>4. CASE Handle
  <2> DEFINE n == entry[cur].attempts + 1
             E == [Updates -> [status : EntryStatuses, job : Jobs, prepared : Replies,
                               attempts : 0 .. MaxAttempts + 1]]
  <2>1. cur \in Updates /\ n \in 0 .. MaxAttempts + 1
    <3>1. cur \in Updates /\ entry[cur].attempts <= MaxAttempts
      BY <1>4 DEF Handle, IInv, PassInv, Busy, InDelivery, ForOperator
    <3> QED
      BY <3>1, InboxAssumption DEF IInv, TypeOK
  <2>2. /\ [entry[cur] EXCEPT !.attempts = n] \in [status : EntryStatuses, job : Jobs,
                                       prepared : Replies, attempts : 0 .. MaxAttempts + 1]
        /\ [entry[cur] EXCEPT !.status = "NEEDS_ATTENTION", !.attempts = n]
              \in [status : EntryStatuses, job : Jobs,
                   prepared : Replies, attempts : 0 .. MaxAttempts + 1]
    BY <2>1 DEF IInv, TypeOK, EntryStatuses
  <2>3. pc' \in Locations
    BY <1>4 DEF Handle, Locations, InTry
  <2>4. entry' \in E
    <3> DEFINE r1 == [entry[cur] EXCEPT !.attempts = n]
               r2 == [entry[cur] EXCEPT !.status = "NEEDS_ATTENTION", !.attempts = n]
    <3>1. entry' = [entry EXCEPT ![cur] = r1] \/ entry' = [entry EXCEPT ![cur] = r2]
      BY <1>4 DEF Handle, Latest
    <3>2. entry \in E
      BY DEF IInv, TypeOK
    <3> HIDE DEF r1, r2
    <3> QED
      BY <2>1, <2>2, <3>1, <3>2 DEF r1, r2
  <2>5. replies' \in Replies /\ results' \in [Updates -> RecordStatuses \cup {"open"}]
    BY <1>4 DEF Handle, Replies, RecordStatuses
  <2> QED
    BY <1>4, <2>3, <2>4, <2>5 DEF Handle, IInv, TypeOK, endpointVars, passVars, chatVars
<1>5. CASE Abandon
  <2>1. \E S \in SUBSET {call} : Close(S)
    BY <1>5 DEF Abandon
  <2>2. remote' \in Branch /\ faults' \in 0 .. MaxFaults
    BY <1>5, InboxAssumption DEF Abandon, IInv, TypeOK
  <2> QED
    BY <1>5, <2>1, <2>2, CloseType
    DEF Abandon, IInv, TypeOK, endpointVars, volumeVars, chatVars
<1> QED
  BY <1>1, <1>2, <1>3, <1>4, <1>5

\* The worker keeps PassInv.
LEMMA PassStep ==
    ASSUME IInv, Worker \/ Raise \/ Abandon
    PROVE  PassInv'
<1> USE DEF IInv, PassInv, Busy, Underway, OnSaved, Checkpoints, Terminal, InDelivery, ForOperator
<1>1. ASSUME NEW c \in calls, Start(c) PROVE PassInv'
  <2>1. \A u \in Updates : entry'[u] = entry[u] \/ (u \in done /\ entry'[u] = NewEntry)
    BY <1>1 DEF Start, TypeOK
  <2>2. todo' \cap done' = {}
    BY <1>1 DEF Start, Selected, Visible
  <2>3. \A u \in todo' : entry'[u].status \notin ForOperator
    <3>1. \A u \in todo' : /\ u \in Updates /\ u \notin done
                            /\ entry[u].status \in InDelivery \cup Terminal \cup {"ENQUEUED"}
      BY <1>1 DEF Start, Selected, Visible, TypeOK
    <3> QED
      BY <2>1, <3>1
  <2>4. \A u \in Updates :
          /\ entry'[u].status \notin ForOperator => entry'[u].attempts <= MaxAttempts
          /\ entry'[u].status = "ENQUEUED" => entry'[u].attempts < MaxAttempts
    BY <2>1, InboxAssumption DEF NewEntry
  <2> QED
    BY <1>1, <2>2, <2>3, <2>4 DEF Start
<1>2. ASSUME NEW u \in Updates, NextEntry(u) PROVE PassInv'
  <2>1. entry[u].status \in EntryStatuses
    BY DEF TypeOK
  <2> QED
    BY <1>2, <2>1 DEF NextEntry, volumeVars, EntryStatuses
<1>3. CASE EndDrain
  BY <1>3 DEF EndDrain, volumeVars
<1>4. CASE Tombstone
  BY <1>4 DEF Tombstone, passVars
<1>5. CASE Unlink
  <2>1. \A u \in Updates : entry'[u] = IF u = cur THEN NewEntry ELSE entry[u]
    BY <1>5 DEF Unlink, TypeOK
  <2> QED
    BY <1>5, <2>1, InboxAssumption DEF Unlink, passVars, NewEntry, TypeOK
<1>6. ASSUME NEW st \in EntryStatuses, NEW n \in Nat, Return(st, n), cur \in Updates,
             cur \notin todo, cur \notin done, UNCHANGED <<done, passVars>>,
             st \notin ForOperator => n <= MaxAttempts,
             st = "ENQUEUED" => n < MaxAttempts
      PROVE  PassInv'
  <2>1. \A u \in Updates :
           /\ entry'[u].status = IF u = cur THEN st ELSE entry[u].status
           /\ entry'[u].attempts = IF u = cur THEN n ELSE entry[u].attempts
    BY <1>6 DEF Return, TypeOK
  <2>2. todo \subseteq Updates
    BY DEF TypeOK
  <2> QED
    BY <1>6, <2>1, <2>2 DEF Return, passVars
<1>7. pc \in Busy \ {"unlink"} => /\ cur \in Updates
                                  /\ cur \notin todo
                                  /\ cur \notin done
                                  /\ entry[cur].attempts \in Nat
                                  /\ entry[cur].attempts + 1 \in Nat
  BY InboxAssumption DEF TypeOK
<1>8. CASE RecordedOutcome
  BY <1>6, <1>7, <1>8 DEF RecordedOutcome, EntryStatuses
<1>9. CASE Ingest
  <2>1. entry[cur].status \in EntryStatuses
    BY <1>9 DEF Ingest, TypeOK
  <2> QED
    BY <1>9, <2>1 DEF Ingest, volumeVars, passVars, EntryStatuses
<1>10. CASE Decide
  BY <1>10 DEF Decide, volumeVars, passVars
<1>11. CASE SaveDecision
  <2>1. pc = "decided" /\ entry[cur].attempts < MaxAttempts /\ UNCHANGED <<done, passVars>>
    BY <1>7, <1>11 DEF SaveDecision
  <2>2. CASE jobs[cur].status \in Closed \cup {"none"}
    BY <1>6, <1>7, <1>11, <2>1, <2>2, InboxAssumption DEF SaveDecision, EntryStatuses
  <2>3. CASE jobs[cur].status \notin Closed \cup {"none"}
    <3>1. \A u \in Updates :
             /\ entry'[u].status = IF u = cur THEN "ENTRY_DECIDED" ELSE entry[u].status
             /\ entry'[u].attempts = IF u = cur THEN entry[cur].attempts + 1
                                                ELSE entry[u].attempts
      BY <1>11, <2>3 DEF SaveDecision, TypeOK
    <3>2. pc' = "prepare" /\ todo \subseteq Updates
      BY <1>11, <2>3 DEF SaveDecision, TypeOK
    <3> QED
      BY <1>7, <2>1, <3>1, <3>2, InboxAssumption DEF passVars
  <2> QED
    BY <2>2, <2>3
<1>12. CASE Prepare
  BY <1>12 DEF Prepare, volumeVars, passVars
<1>13. ASSUME NEW u \in Updates, NEW t \in Texts, Recall(u, t) PROVE PassInv'
  BY <1>13 DEF Recall, Resolve, deliverVars, volumeVars, passVars
<1>14. ASSUME NEW u \in Updates, NEW t \in Texts, Intend(u, t) PROVE PassInv'
  BY <1>14 DEF Intend, deliverVars, volumeVars, passVars
<1>15. CASE PostConfirmed \/ PostUnknown \/ PostRefused
  BY <1>15 DEF PostConfirmed, PostUnknown, PostRefused, Outcome, deliverVars, volumeVars, passVars
<1>16. CASE ScheduleRetry
  <2>1. pc = "deliver" /\ UNCHANGED <<done, passVars>>
    BY <1>16 DEF ScheduleRetry
  <2> QED
    BY <1>6, <1>7, <1>16, <2>1, InboxAssumption DEF ScheduleRetry, EntryStatuses
<1>17. CASE CommitReceipt
  BY <1>17 DEF CommitReceipt, deliverVars, volumeVars, passVars
<1>18. CASE Settle
  <2>1. pc = "settled" /\ UNCHANGED <<done, passVars>> /\ SettledStatus \in EntryStatuses \ {"ENQUEUED"}
    BY <1>18 DEF Settle, SettledStatus, EntryStatuses
  <2> QED
    BY <1>6, <1>7, <1>18, <2>1, InboxAssumption DEF Settle, EntryStatuses
<1>19. CASE CheckpointPushes
  <2>1. CASE pc = "ckpt_prepared"
    <3>1. \A u \in Updates :
             /\ entry'[u].status = IF u = cur THEN "DELIVERY_PENDING" ELSE entry[u].status
             /\ entry'[u].attempts = entry[u].attempts
      BY <1>19, <2>1 DEF CheckpointPushes, TypeOK
    <3>2. pc' = "deliver" /\ todo \subseteq Updates /\ UNCHANGED <<done, passVars>>
      BY <1>19, <2>1 DEF CheckpointPushes, TypeOK
    <3> QED
      BY <1>7, <2>1, <3>1, <3>2 DEF passVars
  <2>2. CASE pc # "ckpt_prepared"
    BY <1>19, <2>2 DEF CheckpointPushes, passVars
  <2> QED
    BY <2>1, <2>2
<1>20. CASE Finish \/ Abandon
  BY <1>20 DEF Finish, Abandon, Close, volumeVars
<1>21. CASE Handle
  <2>1. \A u \in Updates :
           /\ entry'[u].status = IF u = cur /\ entry[cur].attempts + 1 >= MaxAttempts
                                 THEN "NEEDS_ATTENTION" ELSE entry[u].status
           /\ entry'[u].attempts = IF u = cur THEN entry[cur].attempts + 1
                                              ELSE entry[u].attempts
    <3>1. cur \in Updates /\ pc = "raised"
      BY <1>7, <1>21 DEF Handle
    <3>2. CASE entry[cur].attempts + 1 >= MaxAttempts
      <4> DEFINE r == [entry[cur] EXCEPT !.status = "NEEDS_ATTENTION",
                                         !.attempts = entry[cur].attempts + 1]
      <4>1. entry' = [entry EXCEPT ![cur] = r]
        BY <1>21, <3>2 DEF Handle, Latest
      <4>2. r.status = "NEEDS_ATTENTION" /\ r.attempts = entry[cur].attempts + 1
        BY <3>1 DEF TypeOK
      <4> HIDE DEF r
      <4> QED
        BY <3>1, <3>2, <4>1, <4>2 DEF TypeOK
    <3>3. CASE ~(entry[cur].attempts + 1 >= MaxAttempts)
      BY <1>21, <3>1, <3>3 DEF Handle, Latest, TypeOK
    <3> QED
      BY <3>2, <3>3
  <2>2. pc' = (IF entry[cur].attempts + 1 >= MaxAttempts THEN "drain" ELSE "process")
        /\ todo \subseteq Updates /\ UNCHANGED <<done, passVars>> /\ pc = "raised"
    BY <1>21 DEF Handle, Latest, TypeOK
  <2> QED
    BY <1>7, <2>1, <2>2, InboxAssumption DEF passVars
<1>22. CASE Raise
  <2>1. entry[cur].status \in InDelivery \cup {"ENQUEUED"}
    BY <1>22 DEF Raise, InTry
  <2> QED
    BY <1>22, <2>1 DEF Raise, InTry, volumeVars, passVars
<1> QED
  BY <1>1, <1>2, <1>3, <1>4, <1>5, <1>8, <1>9, <1>10, <1>11, <1>12, <1>13, <1>14, <1>15,
     <1>16, <1>17, <1>18, <1>19, <1>20, <1>21, <1>22 DEF Worker

\* What writing one record changes.
LEMMA RecordedGives ==
    ASSUME TypeOK, NEW u \in Updates, NEW r, Recorded(u, r)
    PROVE  /\ clone'.receipts = clone.receipts
           /\ \A v \in Updates : clone'.records[v] = IF v = u THEN r ELSE clone.records[v]
<1>1. clone' = [clone EXCEPT !.records = [clone.records EXCEPT ![u] = r]]
  BY DEF Recorded
<1> QED
  BY <1>1 DEF TypeOK, Branch

\* Where no reply is under way there is little to show.
LEMMA SendQuiet ==
    ASSUME pc' \notin Underway \cup {"deliver"},
           pc' = "raised" \/ \A u \in Updates : results'[u] # "open"
    PROVE  SendInv'
BY DEF SendInv, Underway

\* The worker keeps SendInv.  A reply becomes the one under way only when none is.
LEMMA SendStep ==
    ASSUME IInv, Worker \/ Raise \/ Abandon
    PROVE  SendInv'
<1> USE DEF IInv, Underway, Checkpoints
<1>1. pc \notin Underway \cup {"raised"} => \A u \in Updates : results[u] # "open"
  BY DEF SendInv
<1>2. ASSUME NEW c \in calls, Start(c) PROVE SendInv'
  BY <1>1, <1>2, SendQuiet DEF Start
<1>3. ASSUME NEW u \in Updates, NextEntry(u) PROVE SendInv'
  BY <1>3, SendQuiet DEF NextEntry
<1>4. CASE EndDrain \/ Tombstone \/ Unlink
  BY <1>1, <1>4, SendQuiet DEF EndDrain, Tombstone, Unlink
<1>5. CASE RecordedOutcome
  BY <1>1, <1>5, SendQuiet DEF RecordedOutcome, Return
<1>6. CASE Ingest
  <2>1. CASE pc' = "deliver"
    <3>1. replies' = entry[cur].prepared
      BY <1>6, <2>1 DEF Ingest, RestoredReplies
    <3> QED
      BY <1>1, <1>6, <2>1, <3>1 DEF Ingest, SendInv, volumeVars, passVars
  <2>2. CASE pc' # "deliver"
    BY <1>1, <1>6, <2>2, SendQuiet DEF Ingest
  <2> QED
    BY <2>1, <2>2
<1>7. CASE Decide \/ Prepare
  BY <1>1, <1>7, SendQuiet DEF Decide, Prepare
<1>8. CASE SaveDecision
  BY <1>1, <1>8, SendQuiet DEF SaveDecision, Return
<1>9. ASSUME NEW u \in Updates, NEW t \in Texts, Recall(u, t) PROVE SendInv'
  <2>1. clone.records[u].status \in RecordStatuses
    BY DEF TypeOK, Branch
  <2>2. \A v \in Updates : results'[v] # "open"
    BY <1>1, <1>9, <2>1 DEF Recall, Resolve, RecordStatuses, TypeOK
  <2>3. pc' = "deliver" /\ replies' \subseteq entry'[cur'].prepared
    BY <1>9 DEF Recall, Resolve, deliverVars, volumeVars, passVars, SendInv
  <2> QED
    BY <2>2, <2>3 DEF SendInv
<1>10. ASSUME NEW u \in Updates, NEW t \in Texts, Intend(u, t) PROVE SendInv'
  <2>1. /\ pc = "deliver" /\ <<u, t>> \in replies /\ t # NoText
        /\ UNCHANGED <<entry, cur, posted>>
        /\ replies' = replies \ {<<u, t>>}
    BY <1>10, InboxAssumption DEF Intend, deliverVars, volumeVars, passVars, chatVars
  <2>2. /\ results'[u] = "open"
        /\ \A v \in Updates : v # u => results'[v] # "open"
    BY <1>1, <1>10, <2>1 DEF Intend, TypeOK
  <2>3. \/ pc' = "ckpt_outcome" /\ clone'.records[u] = Record("ambiguous", t)
        \/ /\ pc' = "ckpt_intent" /\ clone'.records[u] = Record("prepared", t)
           /\ clone.records[u].status \in {"none", "prepared", "failed"}
    BY <1>10, RecordedGives DEF Intend
  <2>4. pc' = "ckpt_intent" => posted'[u] = <<>>
    BY <2>1, <2>3 DEF RecordsInv, RecordTold, Attempted
  <2>5. <<u, t>> \in entry'[cur'].prepared /\ replies' \subseteq entry'[cur'].prepared
    BY <2>1 DEF SendInv
  <2> QED
    BY <2>1, <2>2, <2>3, <2>4, <2>5 DEF SendInv, Record
<1>11. CASE PostConfirmed \/ PostUnknown \/ PostRefused
  <2>1. /\ pc = "post" /\ pc' = "ckpt_outcome"
        /\ UNCHANGED <<entry, cur, replies, results, remote>>
    BY <1>11 DEF PostConfirmed, PostUnknown, PostRefused, Outcome, deliverVars, volumeVars,
       passVars
  <2>2. Sending \in Updates /\ results[Sending] = "open"
    BY <2>1, SendingOpen
  <2>3. PICK st \in {"delivered", "ambiguous", "failed"} : Outcome(Sending, st)
    BY <1>11 DEF PostConfirmed, PostUnknown, PostRefused
  <2>4. clone'.records[Sending] = [clone.records[Sending] EXCEPT !.status = st]
    BY <2>2, <2>3, RecordedGives DEF Outcome
  <2>5. clone'.records[Sending].status = st
        /\ clone'.records[Sending].text = clone.records[Sending].text
    BY <2>2, <2>4 DEF TypeOK, Branch
  <2> QED
    BY <2>1, <2>2, <2>5 DEF SendInv
<1>12. CASE ScheduleRetry \/ Settle
  BY <1>1, <1>12, SendQuiet DEF ScheduleRetry, Settle, Return
<1>13. CASE CommitReceipt
  BY <1>1, <1>13, SendQuiet DEF CommitReceipt
<1>14. CASE CheckpointPushes
  <2>1. UNCHANGED <<posted, cur, replies>> /\ remote' = clone
    BY <1>14 DEF CheckpointPushes, passVars, chatVars
  <2>2. CASE pc = "ckpt_prepared"
    <3>1. cur \in Updates /\ pc' = "deliver" /\ UNCHANGED results
          /\ entry'[cur].prepared = replies
      BY <1>14, <2>2 DEF CheckpointPushes, TypeOK, PassInv, Busy
    <3> QED
      BY <1>1, <2>1, <2>2, <3>1 DEF SendInv
  <2>3. CASE pc = "ckpt_intent"
    <3>1. Sending \in Updates /\ results[Sending] = "open"
      BY <2>3, SendingOpen
    <3>2. pc' = "ckpt_sending" /\ UNCHANGED <<entry, results>>
          /\ Recorded(Sending, [clone.records[Sending] EXCEPT !.status = "sending"])
      BY <1>14, <2>3 DEF CheckpointPushes
    <3>3. clone'.records[Sending] = [clone.records[Sending] EXCEPT !.status = "sending"]
      BY <3>1, <3>2, RecordedGives
    <3>4. clone'.records[Sending].status = "sending"
          /\ clone'.records[Sending].text = clone.records[Sending].text
      BY <3>1, <3>3 DEF TypeOK, Branch
    <3> QED
      BY <2>1, <2>3, <3>1, <3>2, <3>4 DEF SendInv
  <2>4. CASE pc = "ckpt_sending"
    <3>1. pc' = "post" /\ UNCHANGED <<entry, results, clone>>
      BY <1>14, <2>4 DEF CheckpointPushes
    <3> QED
      BY <2>1, <2>4, <3>1 DEF SendInv
  <2>5. CASE pc = "ckpt_outcome"
    <3>1. Sending \in Updates /\ results[Sending] = "open"
      BY <2>5, SendingOpen
    <3>2. pc' = "deliver" /\ UNCHANGED <<entry, clone>>
          /\ results' = [results EXCEPT ![Sending] = clone.records[Sending].status]
      BY <1>14, <2>5 DEF CheckpointPushes
    <3>3. \A u \in Updates : results'[u] # "open"
      BY <2>5, <3>1, <3>2 DEF SendInv, TypeOK
    <3> QED
      BY <2>1, <2>5, <3>2, <3>3 DEF SendInv
  <2>6. CASE pc = "ckpt_settled"
    BY <1>1, <1>14, <2>6, SendQuiet DEF CheckpointPushes
  <2> QED
    BY <1>14, <2>2, <2>3, <2>4, <2>5, <2>6 DEF CheckpointPushes
<1>15. CASE Finish \/ Abandon
  BY <1>15, SendQuiet DEF Finish, Abandon, Close
<1>16. CASE Handle
  BY <1>16, SendQuiet DEF Handle
<1>17. CASE Raise
  BY <1>17, SendQuiet DEF Raise
<1> QED
  BY <1>2, <1>3, <1>4, <1>5, <1>6, <1>7, <1>8, <1>9, <1>10, <1>11, <1>12, <1>13, <1>14,
     <1>15, <1>16, <1>17 DEF Worker

\* A step that touches neither chat nor records keeps RecordsInv.
LEMMA RecordsQuiet ==
    ASSUME RecordsInv, UNCHANGED <<posted, remote>>, pc # "off", pc' # "off",
           \A u \in Updates : clone'.records[u] = clone.records[u],
           \/ UNCHANGED results /\ (pc = "raised" => pc' = "raised")
           \/ \A u \in Updates : results'[u] = "none"
    PROVE  RecordsInv'
BY DEF RecordsInv, RecordTold

\* After a push the branch tells as much of the chat as the clone did.
LEMMA RecordsPushed ==
    ASSUME IInv, pc # "off", remote' = remote \/ remote' = clone, UNCHANGED posted
    PROVE  \A u \in Updates :
              /\ Len(posted'[u]) <= 1
              /\ posted'[u] # <<>> => remote'.records[u].status \in Attempted
              /\ remote'.records[u].status = "delivered" => posted'[u] # <<>>
              /\ clone.records[u].status \notin {"none", "prepared"} =>
                    remote'.records[u].status # "none"
              /\ remote'.records[u].status # "none" => clone.records[u].status # "none"
BY DEF IInv, RecordsInv, RecordTold

\* A session may end at any point, with or without a last push.
LEMMA RecordsClosed ==
    ASSUME IInv, pc # "off", remote' = remote \/ remote' = clone, UNCHANGED posted,
           NEW S \in SUBSET {call}, Close(S)
    PROVE  RecordsInv'
<1>1. \A u \in Updates : clone'.records[u].status = "none" /\ results'[u] = "none"
  BY DEF Close, EmptyBranch, Record
<1>2. pc' = "off"
  BY DEF Close
<1> QED
  BY <1>1, <1>2, RecordsPushed DEF RecordsInv, RecordTold

\* The worker keeps RecordsInv.
LEMMA RecordsStep ==
    ASSUME IInv, Worker \/ Raise \/ Abandon
    PROVE  RecordsInv'
<1> USE DEF IInv, Underway, Checkpoints
<1>1. ASSUME NEW c \in calls, Start(c) PROVE RecordsInv'
  BY <1>1 DEF Start, RecordsInv, RecordTold, chatVars
<1>2. ASSUME NEW u \in Updates, NextEntry(u) PROVE RecordsInv'
  BY <1>2, RecordsQuiet DEF NextEntry, chatVars
<1>3. CASE EndDrain \/ Tombstone \/ Unlink
  BY <1>3, RecordsQuiet DEF EndDrain, Tombstone, Unlink, chatVars
<1>4. CASE RecordedOutcome
  BY <1>4, RecordsQuiet DEF RecordedOutcome, Return, chatVars
<1>5. CASE Ingest \/ Decide \/ Prepare
  BY <1>5, RecordsQuiet DEF Ingest, Decide, Prepare, chatVars
<1>6. CASE SaveDecision
  BY <1>6, RecordsQuiet DEF SaveDecision, Return, chatVars
<1>7. ASSUME NEW u \in Updates, NEW t \in Texts, Recall(u, t) PROVE RecordsInv'
  <2>1. pc = "deliver" /\ UNCHANGED <<posted, remote, clone, pc>>
    BY <1>7 DEF Recall, Resolve, deliverVars, chatVars
  <2>2. \A v \in Updates :
           \/ results'[v] = results[v]
           \/ results'[v] = "failed"
           \/ results'[v] = clone.records[v].status
    BY <1>7 DEF Recall, Resolve, TypeOK
  <2> QED
    BY <2>1, <2>2 DEF RecordsInv, RecordTold
<1>8. ASSUME NEW u \in Updates, NEW t \in Texts, Intend(u, t) PROVE RecordsInv'
  <2>1. pc = "deliver" /\ UNCHANGED <<posted, remote>>
    BY <1>8 DEF Intend, deliverVars, chatVars
  <2>2. \/ /\ clone.records[u].status = "sending"
           /\ clone'.records[u] = Record("ambiguous", t)
        \/ /\ clone.records[u].status \in {"none", "prepared", "failed"}
           /\ clone'.records[u] = Record("prepared", t)
    BY <1>8, RecordedGives DEF Intend
  <2>3. \A v \in Updates : v # u => clone'.records[v] = clone.records[v]
    BY <1>8, RecordedGives DEF Intend
  <2>4. \A v \in Updates : results'[v] = IF v = u THEN "open" ELSE results[v]
    BY <1>8 DEF Intend, TypeOK
  <2>5. pc' \in {"ckpt_outcome", "ckpt_intent"}
    BY <1>8 DEF Intend
  <2> QED
    BY <2>1, <2>2, <2>3, <2>4, <2>5 DEF RecordsInv, RecordTold, Record, Attempted
<1>9. CASE PostConfirmed \/ PostUnknown \/ PostRefused
  <2>1. pc = "post" /\ pc' = "ckpt_outcome" /\ UNCHANGED <<remote, results>>
    BY <1>9 DEF PostConfirmed, PostUnknown, PostRefused, Outcome, deliverVars
  <2>2. /\ Sending \in Updates
        /\ results[Sending] = "open"
        /\ posted[Sending] = <<>>
        /\ remote.records[Sending].status = "sending"
        /\ clone.records[Sending].status = "sending"
    BY <2>1, SendingOpen DEF SendInv
  <2>3. \A st \in RecordStatuses : Outcome(Sending, st) =>
           /\ clone'.records[Sending].status = st
           /\ \A v \in Updates \ {Sending} : clone'.records[v] = clone.records[v]
    <3> SUFFICES ASSUME NEW st \in RecordStatuses, Outcome(Sending, st)
                 PROVE  /\ clone'.records[Sending].status = st
                        /\ \A v \in Updates \ {Sending} : clone'.records[v] = clone.records[v]
      OBVIOUS
    <3>1. \A v \in Updates : clone'.records[v] = IF v = Sending
                               THEN [clone.records[Sending] EXCEPT !.status = st]
                               ELSE clone.records[v]
      BY <2>2, RecordedGives DEF Outcome
    <3> QED
      BY <2>2, <3>1 DEF TypeOK, Branch
  <2>4. Arrives(Sending) => /\ Len(posted'[Sending]) <= 1
                            /\ posted'[Sending] # <<>>
                            /\ \A v \in Updates \ {Sending} : posted'[v] = posted[v]
    <3> SUFFICES ASSUME Arrives(Sending)
                 PROVE  /\ Len(posted'[Sending]) <= 1
                        /\ posted'[Sending] # <<>>
                        /\ \A v \in Updates \ {Sending} : posted'[v] = posted[v]
      OBVIOUS
    <3>1. posted'[Sending] = Append(<<>>, clone.records[Sending].text)
      BY <2>2 DEF Arrives, TypeOK
    <3>2. \A v \in Updates \ {Sending} : posted'[v] = posted[v]
      BY <2>2 DEF Arrives, TypeOK
    <3> QED
      BY <3>1, <3>2
  <2>5. CASE PostConfirmed
    <3>1. Outcome(Sending, "delivered") /\ Arrives(Sending)
      BY <2>5 DEF PostConfirmed
    <3>2. /\ clone'.records[Sending].status = "delivered"
          /\ \A v \in Updates \ {Sending} :
                clone'.records[v] = clone.records[v] /\ posted'[v] = posted[v]
      BY <2>3, <2>4, <3>1 DEF RecordStatuses
    <3>3. ASSUME NEW v \in Updates, v = Sending PROVE RecordTold(v)'
      <4>1. Len(posted'[v]) <= 1 /\ posted'[v] # <<>>
        BY <2>4, <3>1, <3>3
      <4>2. /\ pc' = "ckpt_outcome" /\ results'[v] = "open"
            /\ remote'.records[v].status = "sending"
            /\ clone'.records[v].status = "delivered"
        BY <2>1, <2>2, <3>2, <3>3
      <4> QED
        BY <4>1, <4>2 DEF RecordTold, Attempted
    <3>4. ASSUME NEW v \in Updates, v # Sending PROVE RecordTold(v)'
      BY <2>1, <3>2, <3>4 DEF RecordsInv, RecordTold
    <3> QED
      BY <3>3, <3>4 DEF RecordsInv
  <2>6. CASE PostUnknown
    <3>1. Outcome(Sending, "ambiguous") /\ (Arrives(Sending) \/ UNCHANGED posted)
      BY <2>6 DEF PostUnknown
    <3>2. /\ clone'.records[Sending].status = "ambiguous"
          /\ \A v \in Updates \ {Sending} :
                clone'.records[v] = clone.records[v] /\ posted'[v] = posted[v]
      BY <2>3, <2>4, <3>1 DEF RecordStatuses
    <3>3. ASSUME NEW v \in Updates, v = Sending PROVE RecordTold(v)'
      <4>1. Len(posted'[v]) <= 1
        <5>1. CASE Arrives(Sending)
          BY <2>4, <3>3, <5>1
        <5>2. CASE UNCHANGED posted
          BY <5>2 DEF RecordsInv, RecordTold
        <5> QED
          BY <3>1, <5>1, <5>2
      <4>2. /\ pc' = "ckpt_outcome" /\ results'[v] = "open"
            /\ remote'.records[v].status = "sending"
            /\ clone'.records[v].status = "ambiguous"
        BY <2>1, <2>2, <3>2, <3>3
      <4> QED
        BY <4>1, <4>2 DEF RecordTold, Attempted
    <3>4. ASSUME NEW v \in Updates, v # Sending PROVE RecordTold(v)'
      BY <2>1, <3>2, <3>4 DEF RecordsInv, RecordTold
    <3> QED
      BY <3>3, <3>4 DEF RecordsInv
  <2>7. CASE PostRefused
    <3>1. Outcome(Sending, "failed") /\ UNCHANGED posted
      BY <2>7 DEF PostRefused
    <3> QED
      BY <2>1, <2>2, <2>3, <3>1 DEF RecordsInv, RecordTold, RecordStatuses, Attempted
  <2> QED
    BY <1>9, <2>5, <2>6, <2>7
<1>10. CASE ScheduleRetry \/ Settle
  BY <1>10, RecordsQuiet DEF ScheduleRetry, Settle, Return, chatVars
<1>11. CASE CommitReceipt
  <2>1. \A u \in Updates : clone'.records[u] = clone.records[u]
    BY <1>11 DEF CommitReceipt, TypeOK, Branch
  <2> QED
    BY <1>11, <2>1, RecordsQuiet DEF CommitReceipt, deliverVars, chatVars
<1>12. CASE CheckpointPushes
  <2>1. remote' = clone /\ UNCHANGED posted /\ pc \in Checkpoints
    BY <1>12 DEF CheckpointPushes, chatVars
  <2>2. CASE pc \in {"ckpt_prepared", "ckpt_sending", "ckpt_settled"}
    <3>1. UNCHANGED <<clone, results>> /\ pc' \in {"deliver", "post", "settled"}
      BY <1>12, <2>2 DEF CheckpointPushes
    <3> QED
      BY <2>1, <2>2, <3>1, RecordsPushed DEF RecordsInv, RecordTold
  <2>3. CASE pc = "ckpt_intent"
    <3>1. Sending \in Updates /\ results[Sending] = "open" /\ posted[Sending] = <<>>
          /\ clone.records[Sending].status = "prepared"
      BY <2>3, SendingOpen DEF SendInv
    <3>2. pc' = "ckpt_sending" /\ UNCHANGED results
          /\ Recorded(Sending, [clone.records[Sending] EXCEPT !.status = "sending"])
      BY <1>12, <2>3 DEF CheckpointPushes
    <3>3. \A v \in Updates : clone'.records[v] = IF v = Sending
                               THEN [clone.records[Sending] EXCEPT !.status = "sending"]
                               ELSE clone.records[v]
      BY <3>1, <3>2, RecordedGives
    <3>4. clone'.records[Sending].status = "sending"
      BY <3>1, <3>3 DEF TypeOK, Branch
    <3> QED
      BY <2>1, <2>3, <3>1, <3>2, <3>3, <3>4, RecordsPushed DEF RecordsInv, RecordTold
  <2>4. CASE pc = "ckpt_outcome"
    <3>1. Sending \in Updates
      BY <2>4, SendingOpen
    <3>2. pc' = "deliver" /\ UNCHANGED clone
          /\ results' = [results EXCEPT ![Sending] = clone.records[Sending].status]
      BY <1>12, <2>4 DEF CheckpointPushes
    <3>3. \A v \in Updates : results'[v] = results[v] \/ results'[v] = clone.records[v].status
      BY <3>1, <3>2 DEF TypeOK
    <3> QED
      BY <2>1, <2>4, <3>2, <3>3, RecordsPushed DEF RecordsInv, RecordTold
  <2> QED
    BY <1>12, <2>2, <2>3, <2>4 DEF CheckpointPushes
<1>13. CASE Finish \/ Abandon
  <2>1. /\ pc # "off" /\ (remote' = remote \/ remote' = clone) /\ UNCHANGED posted
        /\ \E S \in SUBSET {call} : Close(S)
    BY <1>13 DEF Finish, Abandon, chatVars
  <2> QED
    BY <2>1, RecordsClosed
<1>14. CASE Handle
  BY <1>14, RecordsQuiet DEF Handle, chatVars
<1>15. CASE Raise
  <2>1. /\ pc # "off" /\ pc # "raised" /\ pc' = "raised" /\ (remote' = remote \/ remote' = clone)
        /\ UNCHANGED <<posted, clone, results>>
    BY <1>15 DEF Raise, InTry, chatVars
  <2> QED
    BY <2>1, RecordsPushed DEF RecordsInv, RecordTold
<1> QED
  BY <1>1, <1>2, <1>3, <1>4, <1>5, <1>6, <1>7, <1>8, <1>9, <1>10, <1>11, <1>12, <1>13, <1>14,
     <1>15 DEF Worker

\* A step that touches neither jobs nor entries keeps SettledInv.
LEMMA SettledQuiet ==
    ASSUME TypeOK, SettledInv, UNCHANGED <<jobs, entry, done>>,
           declined \subseteq declined',
           \A u \in Updates : posted[u] # <<>> => posted'[u] # <<>>,
           pc' \notin {"decide", "decided"}
    PROVE  SettledInv'
<1>1. \A u \in Updates : JobTrue(jobs[u], u)' /\ JobTrue(entry[u].job, u)'
  BY DEF SettledInv, JobTrue
<1>2. \A u \in Updates : Answered(u) => Answered(u)'
  BY DEF Answered
<1>3. \A u \in done : Answered(u) /\ Answered(u)'
  BY DEF TypeOK, SettledInv, Answered
<1> QED
  BY <1>1, <1>2, <1>3 DEF SettledInv

\* An entry may be saved as over when it is answered.
LEMMA SettledReturn ==
    ASSUME IInv, NEW st, NEW n, Return(st, n), cur \in Updates,
           st \in Terminal => Answered(cur),
           UNCHANGED <<jobs, done, posted, declined>>
    PROVE  SettledInv'
<1>1. \A u \in Updates : /\ entry'[u].status = IF u = cur THEN st ELSE entry[u].status
                         /\ entry'[u].job = entry[u].job
  BY DEF Return, IInv, TypeOK
<1>2. pc' \in {"remove", "drain"}
  BY DEF Return
<1> QED
  BY <1>1, <1>2 DEF IInv, SettledInv, JobTrue, Answered

\* A closed job is reason enough.
LEMMA ClosedAnswered ==
    ASSUME IInv, NEW u \in Updates, jobs[u].status \in Closed
    PROVE  Answered(u)
BY DEF IInv, SettledInv, JobTrue, Answered, Closed

\* The worker keeps SettledInv.
LEMMA SettledStep ==
    ASSUME IInv, Worker \/ Raise \/ Abandon
    PROVE  SettledInv'
<1> USE DEF IInv, Checkpoints
<1>1. ASSUME NEW c \in calls, Start(c) PROVE SettledInv'
  <2>1. \A u \in Updates : entry'[u] = entry[u] \/ entry'[u] = NewEntry
    BY <1>1 DEF Start, TypeOK
  <2>2. UNCHANGED <<jobs, done, posted, declined>> /\ pc' = "first"
    BY <1>1 DEF Start, chatVars
  <2> QED
    BY <2>1, <2>2 DEF SettledInv, JobTrue, Answered, NewEntry, NoJob, Job, Terminal
<1>2. ASSUME NEW u \in Updates, NextEntry(u) PROVE SettledInv'
  BY <1>2, SettledQuiet DEF NextEntry, volumeVars, chatVars
<1>3. CASE EndDrain
  BY <1>3, SettledQuiet DEF EndDrain, volumeVars, chatVars
<1>4. CASE Tombstone
  <2>1. entry[cur].status \in Terminal /\ cur \in Updates
    BY <1>4 DEF Tombstone, PassInv, Busy
  <2>2. /\ UNCHANGED <<jobs, entry, posted, declined>>
        /\ done' = done \cup {cur} /\ pc' = "unlink"
    BY <1>4 DEF Tombstone, chatVars
  <2> QED
    BY <2>1, <2>2 DEF SettledInv, JobTrue, Answered
<1>5. CASE Unlink
  <2>1. \A u \in Updates : entry'[u] = entry[u] \/ entry'[u] = NewEntry
    BY <1>5 DEF Unlink, TypeOK
  <2>2. UNCHANGED <<jobs, done, posted, declined>> /\ pc' = "drain"
    BY <1>5 DEF Unlink, chatVars
  <2> QED
    BY <2>1, <2>2 DEF SettledInv, JobTrue, Answered, NewEntry, NoJob, Job, Terminal
<1>6. pc \in Busy => cur \in Updates
  BY DEF PassInv
<1>7. CASE RecordedOutcome
  <2>1. cur \in Updates /\ UNCHANGED <<jobs, done, posted, declined>>
    BY <1>6, <1>7 DEF RecordedOutcome, Busy, chatVars
  <2>2. PICK st \in {"AMBIGUOUS", "DELIVERED"} :
           /\ Return(st, entry[cur].attempts)
           /\ st = "DELIVERED" => clone.records[cur].status = "delivered"
    BY <1>7 DEF RecordedOutcome
  <2>3. st \in Terminal => Answered(cur)
    BY <2>1, <2>2 DEF Terminal, RecordsInv, RecordTold, Answered
  <2> QED
    BY <2>1, <2>2, <2>3, SettledReturn
<1>8. CASE Ingest
  <2>1. cur \in Updates /\ UNCHANGED <<entry, done, posted, declined, cur>>
        /\ pc' \in {"decide", "deliver", "prepare"}
    BY <1>6, <1>8 DEF Ingest, Busy, volumeVars, passVars, chatVars
  <2>2. \A u \in Updates : u # cur => jobs'[u] = jobs[u]
    BY <1>8, <2>1 DEF Ingest, TypeOK
  <2>3. CASE entry[cur].status = "ENQUEUED"
    <3>1. cur \notin clone.receipts
      BY <1>8, <2>1, <2>3 DEF Ingest, StoresInv, PassInv, Busy
    <3>2. jobs'[cur] = Ingested(cur)
      BY <1>8, <2>1, <2>3, <3>1 DEF Ingest, TypeOK
    <3>3. jobs'[cur].status # "none" /\ JobTrue(jobs'[cur], cur)
      BY <2>1, <3>2 DEF Ingested, Job, SettledInv, JobTrue
    <3> QED
      BY <2>1, <2>2, <3>3 DEF SettledInv, JobTrue, Answered
  <2>4. CASE entry[cur].status # "ENQUEUED"
    <3>1. jobs'[cur] = entry[cur].job /\ pc' # "decide"
      BY <1>8, <2>1, <2>4 DEF Ingest, RestoredJob, TypeOK
    <3> QED
      BY <2>1, <2>2, <3>1 DEF SettledInv, JobTrue, Answered
  <2> QED
    BY <2>3, <2>4
<1>9. CASE Decide
  <2>1. cur \in Updates /\ UNCHANGED <<entry, done, posted, cur>> /\ pc' = "decided"
    BY <1>6, <1>9 DEF Decide, Busy, volumeVars, passVars
  <2>2. CASE jobs[cur].status = "pending"
    <3>1. PICK st \in {"routed", "ignored", "cancelled"} :
             /\ jobs' = [jobs EXCEPT ![cur].status = st]
             /\ declined' = IF st = "routed" THEN declined ELSE declined \cup {cur}
      BY <1>9, <2>2 DEF Decide
    <3>2. jobs'[cur].status = st /\ \A u \in Updates : u # cur => jobs'[u] = jobs[u]
      BY <2>1, <3>1 DEF TypeOK, Jobs
    <3> QED
      BY <2>1, <3>1, <3>2 DEF SettledInv, JobTrue, Answered
  <2>3. CASE jobs[cur].status # "pending"
    BY <1>9, <2>1, <2>3 DEF Decide, SettledInv, JobTrue, Answered
  <2> QED
    BY <2>2, <2>3
<1>10. CASE SaveDecision
  <2>1. /\ cur \in Updates /\ pc = "decided"
        /\ UNCHANGED <<jobs, done, posted, declined>>
    BY <1>6, <1>10 DEF SaveDecision, Busy, chatVars
  <2>2. CASE jobs[cur].status \in Closed \cup {"none"}
    <3>1. Answered(cur)
      BY <2>1, <2>2, ClosedAnswered DEF SettledInv
    <3> QED
      BY <1>10, <2>1, <2>2, <3>1, SettledReturn DEF SaveDecision
  <2>3. CASE jobs[cur].status \notin Closed \cup {"none"}
    <3>1. \A u \in Updates :
             /\ entry'[u].status = IF u = cur THEN "ENTRY_DECIDED" ELSE entry[u].status
             /\ entry'[u].job = IF u = cur THEN jobs[cur] ELSE entry[u].job
      BY <1>10, <2>3 DEF SaveDecision, TypeOK
    <3>2. pc' = "prepare"
      BY <1>10, <2>3 DEF SaveDecision
    <3> QED
      BY <2>1, <3>1, <3>2 DEF SettledInv, JobTrue, Answered, Terminal
  <2> QED
    BY <2>2, <2>3
<1>11. CASE Prepare
  <2>1. /\ UNCHANGED <<entry, done, posted>> /\ pc' = "ckpt_prepared"
        /\ declined \subseteq declined'
        /\ \A u \in Updates : jobs'[u] \in PreparedAs(jobs[u])
        /\ \A u \in Updates : jobs'[u] # jobs[u] /\ jobs'[u].status = "cancelled"
                                 => u \in declined'
    BY <1>11 DEF Prepare, volumeVars
  <2>2. ASSUME NEW u \in Updates PROVE JobTrue(jobs[u], u)'
    <3>1. CASE jobs'[u] = jobs[u]
      BY <2>1, <3>1 DEF SettledInv, JobTrue
    <3>2. CASE jobs'[u] # jobs[u]
      <4>1. jobs'[u] = Job("cancelled", NoText) \/ \E t \in Texts : jobs'[u] = Job("ready", t)
        BY <2>1, <3>2 DEF PreparedAs
      <4>2. CASE jobs'[u] = Job("cancelled", NoText)
        BY <2>1, <3>2, <4>2 DEF Job, JobTrue
      <4>3. ASSUME NEW t \in Texts, jobs'[u] = Job("ready", t) PROVE JobTrue(jobs[u], u)'
        BY <4>3, InboxAssumption DEF Job, JobTrue
      <4> QED
        BY <4>1, <4>2, <4>3
    <3> QED
      BY <3>1, <3>2
  <2> QED
    BY <2>1, <2>2 DEF SettledInv, JobTrue, Answered
<1>12. ASSUME NEW u \in Updates, NEW t \in Texts, Recall(u, t) PROVE SettledInv'
  BY <1>12, SettledQuiet DEF Recall, Resolve, deliverVars, volumeVars, chatVars
<1>13. ASSUME NEW u \in Updates, NEW t \in Texts, Intend(u, t) PROVE SettledInv'
  BY <1>13, SettledQuiet DEF Intend, deliverVars, volumeVars, chatVars
<1>14. CASE PostConfirmed \/ PostUnknown \/ PostRefused
  <2>1. /\ pc = "post" /\ pc' = "ckpt_outcome"
        /\ UNCHANGED <<entry, done, declined>>
    BY <1>14 DEF PostConfirmed, PostUnknown, PostRefused, Outcome, deliverVars, volumeVars
  <2>2. Sending \in Updates
    BY <2>1, SendingOpen DEF Underway
  <2>3. Arrives(Sending) => /\ posted'[Sending] # <<>>
                            /\ \A v \in Updates : posted[v] # <<>> => posted'[v] # <<>>
    <3> SUFFICES ASSUME Arrives(Sending)
                 PROVE  \A v \in Updates : v = Sending \/ posted[v] # <<>> => posted'[v] # <<>>
      BY <2>2
    <3> SUFFICES ASSUME NEW v \in Updates, v = Sending \/ posted[v] # <<>>
                 PROVE  posted'[v] # <<>>
      OBVIOUS
    <3>1. CASE v = Sending
      <4>1. posted'[v] = Append(posted[v], clone.records[v].text) /\ posted[v] \in Seq(Texts)
        BY <2>2, <3>1 DEF Arrives, TypeOK
      <4> QED
        BY <4>1
    <3>2. CASE v # Sending
      BY <2>2, <3>2 DEF Arrives, TypeOK
    <3> QED
      BY <3>1, <3>2
  <2>4. CASE PostConfirmed
    <3>1. posted'[Sending] # <<>> /\ \A v \in Updates : posted[v] # <<>> => posted'[v] # <<>>
      BY <2>3, <2>4 DEF PostConfirmed
    <3>2. \A v \in Updates :
             \/ jobs'[v] = jobs[v]
             \/ v = Sending /\ jobs'[v].status \in {"none", "delivered"}
      <4>1. CASE jobs[Sending].status = "none"
        BY <2>2, <2>4, <4>1 DEF PostConfirmed, TypeOK, Jobs
      <4>2. CASE jobs[Sending].status # "none"
        BY <2>2, <2>4, <4>2 DEF PostConfirmed, TypeOK, Jobs
      <4> QED
        BY <4>1, <4>2
    <3> QED
      <4>1. \A u \in Updates : JobTrue(jobs[u], u)' /\ JobTrue(entry[u].job, u)'
        BY <2>1, <3>1, <3>2 DEF SettledInv, JobTrue
      <4>2. \A u \in Updates : Answered(u) => Answered(u)'
        BY <2>1, <3>1 DEF Answered
      <4>3. done \subseteq Updates
        BY DEF TypeOK
      <4> QED
        BY <2>1, <4>1, <4>2, <4>3 DEF SettledInv
  <2>5. CASE PostUnknown \/ PostRefused
    BY <2>1, <2>3, <2>5, SettledQuiet DEF PostUnknown, PostRefused
  <2> QED
    BY <1>14, <2>4, <2>5
<1>15. CASE ScheduleRetry
  <2>1. cur \in Updates /\ UNCHANGED <<jobs, done, posted, declined>>
    BY <1>6, <1>15 DEF ScheduleRetry, Busy, chatVars
  <2> QED
    BY <1>15, <2>1, SettledReturn DEF ScheduleRetry, Terminal
<1>16. CASE CommitReceipt
  BY <1>16, SettledQuiet DEF CommitReceipt, deliverVars, volumeVars, chatVars
<1>17. CASE Settle
  <2>1. cur \in Updates /\ UNCHANGED <<jobs, done, posted, declined>>
        /\ Return(SettledStatus, entry[cur].attempts)
    BY <1>6, <1>17 DEF Settle, Busy, chatVars
  <2>2. SettledStatus = "DELIVERED" => results[cur] = "delivered"
    BY DEF SettledStatus
  <2>3. SettledStatus = "TERMINAL" => jobs[cur].status \in Closed
    BY DEF SettledStatus
  <2>4. SettledStatus \in Terminal => Answered(cur)
    BY <2>1, <2>2, <2>3, ClosedAnswered DEF Terminal, RecordsInv, RecordTold, Answered
  <2> QED
    BY <2>1, <2>4, SettledReturn
<1>18. CASE CheckpointPushes
  <2>1. UNCHANGED <<jobs, done, posted, declined>> /\ pc' \notin {"decide", "decided"}
    BY <1>18 DEF CheckpointPushes, chatVars
  <2>2. CASE pc = "ckpt_prepared"
    <3>1. \A u \in Updates :
             /\ entry'[u].status = IF u = cur THEN "DELIVERY_PENDING" ELSE entry[u].status
             /\ entry'[u].job = IF u = cur THEN jobs[cur] ELSE entry[u].job
      BY <1>18, <2>2 DEF CheckpointPushes, TypeOK
    <3> QED
      BY <2>1, <3>1 DEF SettledInv, JobTrue, Answered, Terminal
  <2>3. CASE pc # "ckpt_prepared"
    BY <1>18, <2>1, <2>3, SettledQuiet DEF CheckpointPushes
  <2> QED
    BY <2>2, <2>3
<1>19. CASE Finish \/ Abandon
  <2>1. UNCHANGED <<entry, done, posted, declined>> /\ jobs' = NoJobs /\ pc' = "off"
    BY <1>19 DEF Finish, Abandon, Close, volumeVars, chatVars
  <2> QED
    BY <2>1 DEF SettledInv, JobTrue, Answered, NoJobs, NoJob, Job
<1>20. CASE Handle
  <2>1. cur \in Updates
    BY <1>6, <1>20 DEF Handle, Busy
  <2>2. \A u \in Updates : /\ entry'[u].status \in {entry[u].status, "NEEDS_ATTENTION"}
                           /\ entry'[u].job = entry[u].job
    <3> DEFINE n == entry[cur].attempts + 1
               r1 == [entry[cur] EXCEPT !.attempts = n]
               r2 == [entry[cur] EXCEPT !.status = "NEEDS_ATTENTION", !.attempts = n]
    <3>1. entry' = [entry EXCEPT ![cur] = r1] \/ entry' = [entry EXCEPT ![cur] = r2]
      BY <1>20 DEF Handle, Latest
    <3>2. /\ r1.status = entry[cur].status /\ r1.job = entry[cur].job
          /\ r2.status = "NEEDS_ATTENTION" /\ r2.job = entry[cur].job
      BY <2>1 DEF TypeOK
    <3> HIDE DEF r1, r2
    <3> QED
      BY <2>1, <3>1, <3>2 DEF TypeOK
  <2>3. UNCHANGED <<jobs, done, posted, declined>> /\ pc' \in {"drain", "process"}
    BY <1>20 DEF Handle, chatVars
  <2> QED
    BY <2>2, <2>3 DEF SettledInv, JobTrue, Answered, Terminal
<1>21. CASE Raise
  BY <1>21, SettledQuiet DEF Raise, volumeVars, chatVars
<1> QED
  BY <1>1, <1>2, <1>3, <1>4, <1>5, <1>7, <1>8, <1>9, <1>10, <1>11, <1>12, <1>13, <1>14,
     <1>15, <1>16, <1>17, <1>18, <1>19, <1>20, <1>21 DEF Worker

\* What a step may do to an entry and to the receipts.
LEMMA StoresKeep ==
    ASSUME IInv, done \subseteq done',
           remote'.receipts \cup clone'.receipts \subseteq remote.receipts \cup clone.receipts,
           \A u \in Updates : remote.records[u].status # "none" =>
                                 remote'.records[u].status # "none",
           \A u \in Updates :
              \/ entry'[u].status = entry[u].status
              \/ entry'[u].status = "ENQUEUED" /\ u \in done
              \/ entry'[u].status = "ENTRY_DECIDED" /\ entry[u].status = "ENQUEUED"
              \/ /\ entry'[u].status \notin {"ENQUEUED", "ENTRY_DECIDED"}
                 /\ entry'[u].status = "AMBIGUOUS" => remote.records[u].status # "none"
    PROVE  StoresInv'
<1>1. remote.receipts \cup clone.receipts \subseteq Updates
  BY DEF IInv, TypeOK, Branch
<1>2. ASSUME NEW u \in (remote'.receipts \cup clone'.receipts) \ done'
      PROVE  entry'[u].status \notin {"ENQUEUED", "ENTRY_DECIDED"}
  BY <1>1, <1>2 DEF IInv, StoresInv
<1>3. ASSUME NEW u \in Updates, entry'[u].status = "AMBIGUOUS"
      PROVE  remote'.records[u].status # "none"
  BY <1>3 DEF IInv, StoresInv
<1> QED
  BY <1>2, <1>3 DEF StoresInv

\* Most steps do nothing to either.
LEMMA StoresIdle ==
    ASSUME IInv, UNCHANGED <<entry, done, remote>>, clone'.receipts = clone.receipts
    PROVE  StoresInv'
BY StoresKeep

\* An entry is saved as ambiguous only with an ambiguous record in the clone, whose
\* intent was pushed.
LEMMA StoresReturn ==
    ASSUME IInv, NEW st, NEW n, Return(st, n), cur \in Updates,
           st \notin {"ENQUEUED", "ENTRY_DECIDED"},
           st = "AMBIGUOUS" => clone.records[cur].status = "ambiguous",
           UNCHANGED <<done, remote, clone>>
    PROVE  StoresInv'
<1>1. \A u \in Updates : entry'[u].status = IF u = cur THEN st ELSE entry[u].status
  BY DEF Return, IInv, TypeOK
<1>2. st = "AMBIGUOUS" => remote.records[cur].status # "none"
  BY DEF IInv, RecordsInv, RecordTold
<1> QED
  BY <1>1, <1>2, StoresKeep

\* The worker keeps StoresInv.  Only CommitReceipt adds a receipt, and its entry has
\* its replies by then.
LEMMA StoresStep ==
    ASSUME IInv, Worker \/ Raise \/ Abandon
    PROVE  StoresInv'
<1> USE DEF IInv, Checkpoints
<1>1. ASSUME NEW c \in calls, Start(c) PROVE StoresInv'
  <2>1. \A u \in Updates : \/ entry'[u] = entry[u]
                           \/ u \in done /\ entry'[u].status = "ENQUEUED"
    BY <1>1 DEF Start, TypeOK, NewEntry
  <2>2. UNCHANGED <<done, remote>> /\ clone' = remote
    BY <1>1 DEF Start
  <2> QED
    BY <2>1, <2>2, StoresKeep
<1>2. ASSUME NEW u \in Updates, NextEntry(u) PROVE StoresInv'
  BY <1>2, StoresIdle DEF NextEntry, volumeVars
<1>3. CASE EndDrain
  BY <1>3, StoresIdle DEF EndDrain, volumeVars
<1>4. CASE Tombstone
  BY <1>4, StoresKeep DEF Tombstone
<1>5. CASE Unlink
  <2>1. \A u \in Updates : \/ entry'[u] = entry[u]
                           \/ u \in done /\ entry'[u].status = "ENQUEUED"
    BY <1>5 DEF Unlink, TypeOK, NewEntry, PassInv
  <2>2. UNCHANGED <<done, remote, clone>>
    BY <1>5 DEF Unlink
  <2> QED
    BY <2>1, <2>2, StoresKeep
<1>6. pc \in Busy => cur \in Updates
  BY DEF PassInv
<1>7. CASE RecordedOutcome
  <2>1. cur \in Updates /\ UNCHANGED <<done, remote, clone>>
    BY <1>6, <1>7 DEF RecordedOutcome, Busy
  <2>2. PICK st \in {"AMBIGUOUS", "DELIVERED"} :
           /\ Return(st, entry[cur].attempts)
           /\ st = "AMBIGUOUS" => clone.records[cur].status = "ambiguous"
    BY <1>7 DEF RecordedOutcome
  <2> QED
    BY <2>1, <2>2, StoresReturn
<1>8. CASE Ingest \/ Decide \/ Prepare
  BY <1>8, StoresIdle DEF Ingest, Decide, Prepare, volumeVars
<1>9. CASE SaveDecision
  <2>1. /\ cur \in Updates /\ entry[cur].status = "ENQUEUED"
        /\ UNCHANGED <<done, remote, clone>>
    BY <1>6, <1>9 DEF SaveDecision, Busy, PassInv
  <2>2. CASE jobs[cur].status \in Closed \cup {"none"}
    BY <1>9, <2>1, <2>2, StoresReturn DEF SaveDecision
  <2>3. CASE jobs[cur].status \notin Closed \cup {"none"}
    <3>1. \A u \in Updates :
             entry'[u].status = IF u = cur THEN "ENTRY_DECIDED" ELSE entry[u].status
      BY <1>9, <2>3 DEF SaveDecision, TypeOK
    <3> QED
      BY <2>1, <3>1, StoresKeep
  <2> QED
    BY <2>2, <2>3
<1>10. ASSUME NEW u \in Updates, NEW t \in Texts, Recall(u, t) PROVE StoresInv'
  BY <1>10, StoresIdle DEF Recall, Resolve, deliverVars, volumeVars
<1>11. ASSUME NEW u \in Updates, NEW t \in Texts, Intend(u, t) PROVE StoresInv'
  <2>1. clone'.receipts = clone.receipts
    BY <1>11, RecordedGives DEF Intend
  <2> QED
    BY <1>11, <2>1, StoresIdle DEF Intend, deliverVars, volumeVars
<1>12. CASE PostConfirmed \/ PostUnknown \/ PostRefused
  <2>1. pc = "post" /\ UNCHANGED <<entry, done, remote>>
    BY <1>12 DEF PostConfirmed, PostUnknown, PostRefused, Outcome, deliverVars, volumeVars
  <2>2. clone'.receipts = clone.receipts
    BY <1>12, <2>1, RecordedGives, SendingOpen
    DEF PostConfirmed, PostUnknown, PostRefused, Outcome, Underway
  <2> QED
    BY <2>1, <2>2, StoresIdle
<1>13. CASE ScheduleRetry
  <2>1. cur \in Updates /\ UNCHANGED <<done, remote, clone>>
    BY <1>6, <1>13 DEF ScheduleRetry, Busy
  <2> QED
    BY <1>13, <2>1, StoresReturn DEF ScheduleRetry
<1>14. CASE CommitReceipt
  <2>1. /\ cur \in Updates /\ entry[cur].status = "DELIVERY_PENDING"
        /\ UNCHANGED <<entry, done, remote>>
    BY <1>6, <1>14 DEF CommitReceipt, PassInv, Busy, OnSaved, deliverVars, volumeVars
  <2>2. clone'.receipts = clone.receipts \cup {cur}
    BY <1>14 DEF CommitReceipt, TypeOK, Branch
  <2> QED
    BY <2>1, <2>2 DEF StoresInv
<1>15. CASE Settle
  <2>1. cur \in Updates /\ UNCHANGED <<done, remote, clone>> /\ pc = "settled"
        /\ Return(SettledStatus, entry[cur].attempts)
    BY <1>6, <1>15 DEF Settle, Busy
  <2>2. SettledStatus \notin {"ENQUEUED", "ENTRY_DECIDED"}
    BY DEF SettledStatus
  <2>3. SettledStatus = "AMBIGUOUS" => results[cur] = "ambiguous"
    BY DEF SettledStatus
  <2>4. SettledStatus = "AMBIGUOUS" => clone.records[cur].status = "ambiguous"
    BY <2>1, <2>3 DEF RecordsInv, RecordTold
  <2> QED
    BY <2>1, <2>2, <2>4, StoresReturn
<1>16. CASE CheckpointPushes
  <2>1. /\ pc # "off" /\ remote' = clone /\ UNCHANGED done
    BY <1>16 DEF CheckpointPushes
  <2>2. \A u \in Updates : remote.records[u].status # "none" =>
                              remote'.records[u].status # "none"
    BY <2>1 DEF RecordsInv, RecordTold
  <2>3. clone'.receipts = clone.receipts
    <3>1. CASE pc = "ckpt_intent"
      BY <1>16, <3>1, RecordedGives, SendingOpen DEF CheckpointPushes, Underway
    <3>2. CASE pc # "ckpt_intent"
      BY <1>16, <3>2 DEF CheckpointPushes
    <3> QED
      BY <3>1, <3>2
  <2>4. \A u \in Updates : entry'[u].status \in {entry[u].status, "DELIVERY_PENDING"}
    <3>1. CASE pc = "ckpt_prepared"
      <4>1. \A u \in Updates :
               entry'[u].status = IF u = cur THEN "DELIVERY_PENDING" ELSE entry[u].status
        BY <1>16, <3>1 DEF CheckpointPushes, TypeOK
      <4> QED
        BY <4>1
    <3>2. CASE pc # "ckpt_prepared"
      BY <1>16, <3>2 DEF CheckpointPushes
    <3> QED
      BY <3>1, <3>2
  <2> QED
    BY <2>1, <2>2, <2>3, <2>4, StoresKeep
<1>17. CASE Finish \/ Abandon
  <2>1. /\ pc # "off" /\ (remote' = remote \/ remote' = clone) /\ UNCHANGED <<entry, done>>
        /\ clone' = EmptyBranch
    BY <1>17 DEF Finish, Abandon, Close, volumeVars
  <2>2. \A u \in Updates : remote.records[u].status # "none" =>
                              remote'.records[u].status # "none"
    BY <2>1 DEF RecordsInv, RecordTold
  <2> QED
    BY <2>1, <2>2, StoresKeep DEF EmptyBranch
<1>18. CASE Handle
  <2>1. cur \in Updates /\ UNCHANGED <<done, remote, clone>>
    BY <1>6, <1>18 DEF Handle, Busy
  <2>2. \A u \in Updates : entry'[u].status \in {entry[u].status, "NEEDS_ATTENTION"}
    <3> DEFINE n == entry[cur].attempts + 1
               r1 == [entry[cur] EXCEPT !.attempts = n]
               r2 == [entry[cur] EXCEPT !.status = "NEEDS_ATTENTION", !.attempts = n]
    <3>1. entry' = [entry EXCEPT ![cur] = r1] \/ entry' = [entry EXCEPT ![cur] = r2]
      BY <1>18 DEF Handle, Latest
    <3>2. r1.status = entry[cur].status /\ r2.status = "NEEDS_ATTENTION"
      BY <2>1 DEF TypeOK
    <3> HIDE DEF r1, r2
    <3> QED
      BY <2>1, <3>1, <3>2 DEF TypeOK
  <2> QED
    BY <2>1, <2>2, StoresKeep
<1>19. CASE Raise
  <2>1. /\ pc # "off" /\ (remote' = remote \/ remote' = clone)
        /\ UNCHANGED <<entry, done, clone>>
    BY <1>19 DEF Raise, InTry, volumeVars
  <2>2. \A u \in Updates : remote.records[u].status # "none" =>
                              remote'.records[u].status # "none"
    BY <2>1 DEF RecordsInv, RecordTold
  <2> QED
    BY <2>1, <2>2, StoresKeep
<1> QED
  BY <1>1, <1>2, <1>3, <1>4, <1>5, <1>7, <1>8, <1>9, <1>10, <1>11, <1>12, <1>13, <1>14,
     <1>15, <1>16, <1>17, <1>18, <1>19 DEF Worker

-----------------------------------------------------------------------------
\* Every step keeps the invariant.
LEMMA NextInv == IInv /\ [Next]_vars => IInv'
<1> SUFFICES ASSUME IInv, [Next]_vars PROVE IInv'
  OBVIOUS
<1>1. CASE \/ \E u \in Updates : WebhookReads(u) \/ WebhookPublishes(u)
                                   \/ WebhookSpawns(u) \/ WebhookFails(u)
           \/ Cron
  BY <1>1, WebhookInv
<1>2. CASE Worker \/ Raise \/ Abandon
  <2>1. TypeOK'
    BY <1>2, TypeVolume, TypeDecision, TypeSending, TypeSettling, TypeSaving DEF Worker
  <2> QED
    BY <1>2, <2>1, PassStep, SendStep, RecordsStep, SettledStep, StoresStep DEF IInv
<1>3. CASE UNCHANGED vars
  <2>1. TypeOK'
    BY <1>3 DEF vars, endpointVars, volumeVars, passVars, chatVars, IInv, TypeOK
  <2>2. Aside
    BY <1>3 DEF vars, Aside, volumeVars, passVars
  <2> QED
    BY <2>1, <2>2, AsideKeeps DEF IInv
<1> QED
  BY <1>1, <1>2, <1>3 DEF Next

\* The state has its type, and no number of failures takes the attempts of an entry
\* beyond the limit (process_inbox, _process_with_retries).
THEOREM TypeCorrect == Spec => []TypeOK
<1>1. IInv => TypeOK
  BY DEF IInv
<1> QED
  BY <1>1, InitInv, NextInv, PTL DEF Spec

\* At most one reply reaches the chat per update over all passes, retries, crashes,
\* clones and passes of other updates, and a tombstone is written only for an update
\* that was answered or declined (telegram_inbox.py, runtime.py, delivery.py).
THEOREM OneAnswer == Spec => []AnsweredOnce
<1>1. IInv => AnsweredOnce
  BY DEF IInv, RecordsInv, RecordTold, SettledInv, Answered, AnsweredOnce
<1> QED
  BY <1>1, InitInv, NextInv, PTL DEF Spec

\* Volume and branch agree: no receipt before the replies are saved, and no ambiguous
\* entry without a pushed intent (commit_intake_state, _terminal_delivery_status).
THEOREM StoresTogether == Spec => []StoresAgree
<1>1. IInv => StoresAgree
  BY DEF IInv, StoresInv, StoresAgree, TypeOK
<1> QED
  BY <1>1, InitInv, NextInv, PTL DEF Spec

\* Only Telegram's answer puts something into the chat, and tombstones stay.
LEMMA ChatSteps ==
    ASSUME [Next]_vars
    PROVE  /\ done \subseteq done'
           /\ PostConfirmed \/ PostUnknown \/ PostRefused \/ UNCHANGED posted
<1> USE DEF volumeVars, chatVars
<1>1. ASSUME NEW u \in Updates, WebhookReads(u) \/ WebhookPublishes(u) \/ WebhookSpawns(u)
                                  \/ WebhookFails(u)
      PROVE  UNCHANGED <<done, posted>>
  BY <1>1 DEF WebhookReads, WebhookPublishes, WebhookSpawns, WebhookFails, workerVars
<1>2. CASE Cron
  BY <1>2 DEF Cron, workerVars
<1>3. ASSUME NEW c \in calls, Start(c) PROVE UNCHANGED <<done, posted>>
  BY <1>3 DEF Start
<1>4. ASSUME NEW u \in Updates, NextEntry(u) PROVE UNCHANGED <<done, posted>>
  BY <1>4 DEF NextEntry
<1>5. CASE EndDrain \/ Tombstone \/ Unlink
  BY <1>5 DEF EndDrain, Tombstone, Unlink
<1>6. CASE RecordedOutcome \/ Ingest \/ Decide \/ SaveDecision \/ Prepare
  BY <1>6 DEF RecordedOutcome, Ingest, Decide, SaveDecision, Prepare
<1>7. ASSUME NEW u \in Updates, NEW t \in Texts, Recall(u, t) \/ Intend(u, t)
      PROVE  UNCHANGED <<done, posted>>
  BY <1>7 DEF Recall, Intend, deliverVars
<1>8. CASE PostConfirmed \/ PostUnknown \/ PostRefused
  BY <1>8 DEF PostConfirmed, PostUnknown, PostRefused, Outcome, deliverVars
<1>9. CASE ScheduleRetry \/ CommitReceipt \/ Settle
  BY <1>9 DEF ScheduleRetry, CommitReceipt, Settle, deliverVars
<1>10. CASE CheckpointPushes \/ Finish \/ Handle \/ Raise \/ Abandon
  BY <1>10 DEF CheckpointPushes, Finish, Handle, Raise, Abandon
<1>11. CASE UNCHANGED vars
  BY <1>11 DEF vars
<1> QED
  BY <1>1, <1>2, <1>3, <1>4, <1>5, <1>6, <1>7, <1>8, <1>9, <1>10, <1>11 DEF Next, Worker

\* What is sent was saved with the current entry, which has no tombstone.
LEMMA SentFromEntry ==
    ASSUME IInv, PostConfirmed \/ PostUnknown \/ PostRefused, NEW u \in Updates
    PROVE  \/ posted'[u] = posted[u]
           \/ /\ cur \in Updates \ done
              /\ \E t \in Texts : <<u, t>> \in entry[cur].prepared
<1>1. pc = "post"
  BY DEF PostConfirmed, PostUnknown, PostRefused
<1>2. Sending \in Updates /\ results[Sending] = "open"
  BY <1>1, SendingOpen DEF Underway
<1>3. cur \in Updates \ done
  BY <1>1 DEF IInv, PassInv, Busy
<1>4. CASE u = Sending
  BY <1>1, <1>2, <1>3, <1>4 DEF IInv, SendInv, Underway
<1>5. CASE u # Sending
  BY <1>2, <1>5 DEF PostConfirmed, PostUnknown, PostRefused, Arrives, IInv, TypeOK
<1> QED
  BY <1>4, <1>5

\* A session changes no entry but the current one.
LEMMA EntrySteps ==
    ASSUME IInv, [Next]_vars, NEW u \in Updates, pc # "off", pc \in Busy => u # cur
    PROVE  entry'[u] = entry[u]
<1> USE DEF IInv, TypeOK, Busy, Checkpoints, volumeVars
<1>1. ASSUME NEW v \in Updates, WebhookReads(v) \/ WebhookPublishes(v) \/ WebhookSpawns(v)
                                  \/ WebhookFails(v)
      PROVE  UNCHANGED entry
  BY <1>1 DEF WebhookReads, WebhookPublishes, WebhookSpawns, WebhookFails
<1>2. CASE Cron
  BY <1>2 DEF Cron
<1>3. ASSUME NEW c \in calls, Start(c) PROVE FALSE
  BY <1>3 DEF Start
<1>4. ASSUME NEW v \in Updates, NextEntry(v) PROVE UNCHANGED entry
  BY <1>4 DEF NextEntry
<1>5. CASE EndDrain \/ Tombstone \/ Ingest \/ Decide \/ Prepare
  BY <1>5 DEF EndDrain, Tombstone, Ingest, Decide, Prepare
<1>6. CASE Unlink
  BY <1>6 DEF Unlink
<1>7. ASSUME NEW st, NEW n, Return(st, n), u # cur PROVE entry'[u] = entry[u]
  BY <1>7 DEF Return
<1>8. CASE RecordedOutcome
  BY <1>7, <1>8 DEF RecordedOutcome
<1>9. CASE SaveDecision
  <2>1. CASE jobs[cur].status \in Closed \cup {"none"}
    BY <1>7, <1>9, <2>1 DEF SaveDecision
  <2>2. CASE jobs[cur].status \notin Closed \cup {"none"}
    BY <1>9, <2>2 DEF SaveDecision
  <2> QED
    BY <2>1, <2>2
<1>10. ASSUME NEW v \in Updates, NEW t \in Texts, Recall(v, t) \/ Intend(v, t)
      PROVE  UNCHANGED entry
  BY <1>10 DEF Recall, Intend, deliverVars
<1>11. CASE PostConfirmed \/ PostUnknown \/ PostRefused \/ CommitReceipt
  BY <1>11 DEF PostConfirmed, PostUnknown, PostRefused, Outcome, CommitReceipt, deliverVars
<1>12. CASE ScheduleRetry \/ Settle
  BY <1>7, <1>12 DEF ScheduleRetry, Settle
<1>13. CASE CheckpointPushes
  <2>1. CASE pc = "ckpt_prepared"
    BY <1>13, <2>1 DEF CheckpointPushes
  <2>2. CASE pc # "ckpt_prepared"
    BY <1>13, <2>2 DEF CheckpointPushes
  <2> QED
    BY <2>1, <2>2
<1>14. CASE Handle
  BY <1>14 DEF Handle
<1>15. CASE Finish \/ Raise \/ Abandon
  BY <1>15 DEF Finish, Raise, Abandon
<1>16. CASE UNCHANGED vars
  BY <1>16 DEF vars
<1> QED
  BY <1>1, <1>2, <1>3, <1>4, <1>5, <1>6, <1>8, <1>9, <1>10, <1>11, <1>12, <1>13,
     <1>14, <1>15, <1>16 DEF Next, Worker

\* Nothing is sent for an update behind its tombstone, unless another entry holds a
\* reply to it (remove_entry, select_drain_entries).
THEOREM SilentAfterwards == Spec => SilentAfterTombstone
<1>1. ASSUME IInv, [Next]_vars, NEW u \in done
      PROVE  u \in done' /\ (posted'[u] = posted[u] \/ SavedByAnother(u))
  <2>1. u \in Updates /\ u \in done'
    BY <1>1, ChatSteps DEF IInv, TypeOK
  <2>2. CASE PostConfirmed \/ PostUnknown \/ PostRefused
    BY <1>1, <2>1, <2>2, SentFromEntry DEF SavedByAnother
  <2> QED
    BY <1>1, <2>1, <2>2, ChatSteps
<1>2. IInv /\ [Next]_vars =>
         [\A u \in done : u \in done' /\ (posted'[u] = posted[u] \/ SavedByAnother(u))]_vars
  BY <1>1
<1> QED
  BY <1>2, InitInv, NextInv, PTL DEF Spec, SilentAfterTombstone

-----------------------------------------------------------------------------
\* There are no jobs and no saved replies yet.
LEMMA ApartInit == Init => ApartInv
<1> SUFFICES ASSUME Init PROVE ApartInv
  OBVIOUS
<1>1. \A u \in Updates : entry[u] = NewEntry /\ jobs[u] = NoJob
  BY DEF Init, NoJobs
<1> QED
  BY <1>1 DEF Init, ApartInv, NewEntry, NoJob, Job

\* Most steps keep ApartInv.
LEMMA ApartQuiet ==
    ASSUME ApartInv, UNCHANGED <<entry, done, call>>, todo' \subseteq todo,
           \A u \in Updates : jobs'[u].status # "none" =>
                                 jobs[u].status # "none" \/ (u = cur /\ pc \in Busy),
           pc \in Busy => pc' \in Busy /\ cur' = cur,
           pc # "off", pc' # "ckpt_prepared",
           pc' \in Busy \ {"unlink"} => pc \in Busy \ {"unlink"}
    PROVE  ApartInv'
<1>1. \A u \in Updates : Decided(u)' <=> Decided(u)
  BY DEF Decided
<1>2. (\A u \in Updates : jobs[u].status # "none" => Decided(u) \/ (cur = u /\ pc \in Busy))'
  BY <1>1 DEF ApartInv
<1>3. (\A u, v \in Updates, t \in Texts : <<u, t>> \in entry[v].prepared => Decided(u))'
  BY <1>1 DEF ApartInv
<1>4. (pc # "off" /\ call = Maintenance =>
          /\ \A u \in todo : entry[u].status # "ENQUEUED"
          /\ pc \in Busy \ {"unlink"} => entry[cur].status # "ENQUEUED")'
  BY DEF ApartInv
<1> QED
  BY <1>2, <1>3, <1>4 DEF ApartInv

\* An entry that is saved is decided.
LEMMA ApartReturn ==
    ASSUME IInv, ApartInv, NEW st, NEW n, Return(st, n), cur \in Updates, pc # "off",
           st # "ENQUEUED", UNCHANGED <<jobs, done, passVars>>
    PROVE  ApartInv'
<1>1. \A u \in Updates : /\ entry'[u].status = IF u = cur THEN st ELSE entry[u].status
                         /\ entry'[u].prepared = entry[u].prepared
  BY DEF Return, IInv, TypeOK
<1>2. \A u \in Updates : /\ Decided(u) => Decided(u)'
                         /\ u = cur => Decided(u)'
  BY <1>1 DEF Decided
<1>3. pc' \in {"remove", "drain"} /\ todo \subseteq Updates
  BY DEF Return, IInv, TypeOK
<1> QED
  BY <1>1, <1>2, <1>3 DEF ApartInv, passVars

\* The worker keeps ApartInv.  A clone is removed with its jobs (RepositorySession),
\* so a job never outlives the session that decided it.
LEMMA ApartStep ==
    ASSUME IInv, ApartInv, Worker \/ Raise \/ Abandon
    PROVE  ApartInv'
<1> USE DEF IInv, Checkpoints, Busy
<1>1. ASSUME NEW c \in calls, Start(c) PROVE ApartInv'
  <2>1. \A u \in Updates : \/ entry'[u] = entry[u]
                           \/ u \in done /\ entry'[u].prepared = {}
    BY <1>1 DEF Start, TypeOK, NewEntry
  <2>2. UNCHANGED <<jobs, done, cur>> /\ pc = "off" /\ pc' = "first" /\ call' = c
        /\ todo' = Selected(c)
    BY <1>1 DEF Start
  <2>3. \A u \in Updates : Decided(u) => Decided(u)'
    BY <2>1, <2>2 DEF Decided
  <2>4. c = Maintenance => \A u \in todo' : entry'[u].status # "ENQUEUED"
    <3>1. \A u \in todo' : u \in Updates /\ u \notin done
      BY <2>2 DEF Selected, Visible, TypeOK
    <3>2. c = Maintenance => \A u \in todo' : entry[u].status \in InDelivery \cup Terminal
      BY <2>2 DEF Selected
    <3> QED
      BY <2>1, <3>1, <3>2 DEF InDelivery, Terminal
  <2> QED
    BY <2>1, <2>2, <2>3, <2>4 DEF ApartInv
<1>2. ASSUME NEW u \in Updates, NextEntry(u) PROVE ApartInv'
  <2>1. /\ pc \in {"first", "drain"} /\ pc' \in {"remove", "process"} /\ cur' = u /\ u \in todo
        /\ todo' \subseteq todo /\ UNCHANGED <<jobs, entry, done, call>>
    BY <1>2 DEF NextEntry, volumeVars
  <2>2. \A v \in Updates : Decided(v)' <=> Decided(v)
    BY <2>1 DEF Decided
  <2> QED
    BY <2>1, <2>2 DEF ApartInv
<1>3. CASE EndDrain
  BY <1>3, ApartQuiet DEF EndDrain, volumeVars
<1>4. CASE Tombstone
  <2>1. /\ pc = "remove" /\ pc' = "unlink" /\ done' = done \cup {cur}
        /\ UNCHANGED <<jobs, entry, call, todo, cur>>
    BY <1>4 DEF Tombstone, passVars
  <2>2. \A v \in Updates : Decided(v) => Decided(v)'
    BY <2>1 DEF Decided
  <2> QED
    BY <2>1, <2>2 DEF ApartInv
<1>5. CASE Unlink
  <2>1. \A u \in Updates : \/ entry'[u] = entry[u]
                           \/ u \in done /\ entry'[u].prepared = {}
    BY <1>5 DEF Unlink, TypeOK, NewEntry, PassInv
  <2>2. /\ UNCHANGED <<done, jobs, call, todo, cur>> /\ cur \in done /\ pc' = "drain"
        /\ pc = "unlink"
    BY <1>5 DEF Unlink, passVars, PassInv
  <2>3. \A v \in Updates : Decided(v) => Decided(v)'
    BY <2>1, <2>2 DEF Decided
  <2>4. \A v \in Updates : v = cur => Decided(v)'
    BY <2>2 DEF Decided
  <2>5. \A v \in todo : v \in Updates /\ v \notin done
    BY DEF PassInv, TypeOK
  <2>6. (\A u, v \in Updates, t \in Texts : <<u, t>> \in entry[v].prepared => Decided(u))'
    BY <2>1, <2>3 DEF ApartInv
  <2>7. call = Maintenance => \A v \in todo : entry'[v].status # "ENQUEUED"
    BY <2>1, <2>2, <2>5 DEF ApartInv
  <2> QED
    BY <2>2, <2>3, <2>4, <2>6, <2>7 DEF ApartInv
<1>6. pc \in Busy => cur \in Updates
  BY DEF PassInv
<1>7. CASE RecordedOutcome
  <2>1. cur \in Updates /\ pc # "off" /\ UNCHANGED <<jobs, done, passVars>>
    BY <1>6, <1>7 DEF RecordedOutcome
  <2> QED
    BY <1>7, <2>1, ApartReturn DEF RecordedOutcome
<1>8. CASE Ingest \/ Decide
  <2>1. /\ cur \in Updates /\ pc \in {"process", "decide"}
        /\ pc' \in {"decide", "deliver", "prepare", "decided"}
        /\ UNCHANGED <<entry, done, call, todo, cur>>
    BY <1>6, <1>8 DEF Ingest, Decide, volumeVars, passVars
  <2>2. \A u \in Updates : u # cur => jobs'[u] = jobs[u]
    BY <1>8, <2>1 DEF Ingest, Decide, TypeOK
  <2> QED
    BY <2>1, <2>2, ApartQuiet
<1>9. CASE SaveDecision
  <2>1. /\ cur \in Updates /\ pc = "decided" /\ UNCHANGED <<jobs, done, passVars>>
    BY <1>6, <1>9 DEF SaveDecision
  <2>2. CASE jobs[cur].status \in Closed \cup {"none"}
    BY <1>9, <2>1, <2>2, ApartReturn DEF SaveDecision
  <2>3. CASE jobs[cur].status \notin Closed \cup {"none"}
    <3>1. \A u \in Updates :
             /\ entry'[u].status = IF u = cur THEN "ENTRY_DECIDED" ELSE entry[u].status
             /\ entry'[u].prepared = entry[u].prepared
      <4> DEFINE e1 == [entry EXCEPT ![cur].status = "ENTRY_DECIDED"]
                 e2 == [e1 EXCEPT ![cur].job = jobs[cur]]
                 e3 == [e2 EXCEPT ![cur].attempts = entry[cur].attempts + 1]
      <4>1. entry' = e3
        BY <1>9, <2>3 DEF SaveDecision
      <4>2. \A u \in Updates : e2[u].prepared = e1[u].prepared /\ e2[u].status = e1[u].status
        BY <2>1 DEF TypeOK
      <4>3. \A u \in Updates : e3[u].prepared = e2[u].prepared /\ e3[u].status = e2[u].status
        BY <2>1 DEF TypeOK
      <4>4. \A u \in Updates :
               /\ e1[u].status = IF u = cur THEN "ENTRY_DECIDED" ELSE entry[u].status
               /\ e1[u].prepared = entry[u].prepared
        BY <2>1 DEF TypeOK
      <4> HIDE DEF e1, e2, e3
      <4> QED
        BY <4>1, <4>2, <4>3, <4>4
    <3>2. pc' = "prepare" /\ todo \subseteq Updates
      BY <1>9, <2>3 DEF SaveDecision, TypeOK
    <3>3. \A u \in Updates : Decided(u) => Decided(u)'
      BY <2>1, <3>1 DEF Decided
    <3> QED
      BY <2>1, <3>1, <3>2, <3>3 DEF ApartInv, passVars
  <2> QED
    BY <2>2, <2>3
<1>10. CASE Prepare
  <2>1. /\ pc = "prepare" /\ pc' = "ckpt_prepared" /\ UNCHANGED <<entry, done, call, todo, cur>>
        /\ \A u \in Updates : jobs'[u] \in PreparedAs(jobs[u])
        /\ \A u \in Updates, t \in Texts : <<u, t>> \in replies' => jobs'[u].status = "ready"
    BY <1>10 DEF Prepare, volumeVars, passVars
  <2>2. \A u \in Updates : jobs'[u].status # "none" => jobs[u].status # "none"
    BY <2>1 DEF PreparedAs
  <2>3. \A u \in Updates : Decided(u)' <=> Decided(u)
    BY <2>1 DEF Decided
  <2>4. \A u \in Updates : u = cur => Decided(u)
    BY <2>1 DEF Decided, PassInv, InDelivery
  <2>5. \A u \in Updates : jobs[u].status # "none" => Decided(u)
    BY <2>4 DEF ApartInv
  <2> QED
    BY <2>1, <2>2, <2>3, <2>5 DEF ApartInv
<1>11. ASSUME NEW u \in Updates, NEW t \in Texts, Recall(u, t) PROVE ApartInv'
  BY <1>11, ApartQuiet DEF Recall, Resolve, deliverVars, volumeVars, passVars
<1>12. ASSUME NEW u \in Updates, NEW t \in Texts, Intend(u, t) PROVE ApartInv'
  BY <1>12, ApartQuiet DEF Intend, deliverVars, volumeVars, passVars
<1>13. CASE PostConfirmed \/ PostUnknown \/ PostRefused
  <2>1. /\ pc = "post" /\ pc' = "ckpt_outcome" /\ UNCHANGED <<entry, done, call, todo, cur>>
    BY <1>13 DEF PostConfirmed, PostUnknown, PostRefused, Outcome, deliverVars, volumeVars,
       passVars
  <2>2. \A u \in Updates : jobs'[u].status # "none" => jobs[u].status # "none"
    <3>1. CASE PostConfirmed
      <4>1. Sending \in Updates
        BY <2>1, SendingOpen DEF Underway
      <4> QED
        BY <3>1, <4>1 DEF PostConfirmed, TypeOK, Jobs
    <3>2. CASE PostUnknown \/ PostRefused
      BY <3>2 DEF PostUnknown, PostRefused
    <3> QED
      BY <1>13, <3>1, <3>2
  <2> QED
    BY <2>1, <2>2, ApartQuiet
<1>14. CASE ScheduleRetry \/ Settle
  <2>1. cur \in Updates /\ pc # "off" /\ UNCHANGED <<jobs, done, passVars>>
    BY <1>6, <1>14 DEF ScheduleRetry, Settle
  <2>2. SettledStatus # "ENQUEUED"
    BY DEF SettledStatus
  <2> QED
    BY <1>14, <2>1, <2>2, ApartReturn DEF ScheduleRetry, Settle
<1>15. CASE CommitReceipt
  BY <1>15, ApartQuiet DEF CommitReceipt, deliverVars, volumeVars, passVars
<1>16. CASE CheckpointPushes
  <2>1. UNCHANGED <<jobs, done, call, todo, cur, replies>>
    BY <1>16 DEF CheckpointPushes, passVars
  <2>2. CASE pc = "ckpt_prepared"
    <3>1. \A u \in Updates :
             /\ entry'[u].status = IF u = cur THEN "DELIVERY_PENDING" ELSE entry[u].status
             /\ entry'[u].prepared = IF u = cur THEN replies ELSE entry[u].prepared
      BY <1>16, <2>2 DEF CheckpointPushes, TypeOK
    <3>2. pc' = "deliver" /\ todo \subseteq Updates /\ cur \in Updates
      BY <1>6, <1>16, <2>2 DEF CheckpointPushes, TypeOK
    <3>3. \A u \in Updates : Decided(u) => Decided(u)'
      BY <2>1, <3>1 DEF Decided
    <3>4. (\A u, v \in Updates, t \in Texts : <<u, t>> \in entry[v].prepared => Decided(u))'
      BY <2>2, <3>1, <3>3 DEF ApartInv
    <3> QED
      BY <2>1, <2>2, <3>1, <3>2, <3>3, <3>4 DEF ApartInv
  <2>3. CASE pc # "ckpt_prepared"
    <3>1. UNCHANGED entry /\ pc \in Busy \ {"unlink"} /\ pc' \in Busy \ {"ckpt_prepared"}
      BY <1>16, <2>3 DEF CheckpointPushes
    <3> QED
      BY <2>1, <3>1, ApartQuiet
  <2> QED
    BY <2>2, <2>3
<1>17. CASE Finish \/ Abandon
  <2>1. UNCHANGED <<entry, done>> /\ jobs' = NoJobs /\ pc' = "off"
    BY <1>17 DEF Finish, Abandon, Close, volumeVars
  <2>2. \A u \in Updates : jobs'[u].status = "none"
    BY <2>1 DEF NoJobs, NoJob, Job
  <2>3. \A u \in Updates : Decided(u)' <=> Decided(u)
    BY <2>1 DEF Decided
  <2> QED
    BY <2>1, <2>2, <2>3 DEF ApartInv
<1>18. CASE Handle
  <2>1. /\ cur \in Updates /\ UNCHANGED <<jobs, done, call, todo, cur>> /\ pc = "raised"
        /\ pc' \in {"drain", "process"}
    BY <1>6, <1>18 DEF Handle, passVars
  <2>2. \A u \in Updates :
           /\ entry'[u].prepared = entry[u].prepared
           /\ entry'[u].status = IF u = cur /\ pc' = "drain" THEN "NEEDS_ATTENTION"
                                 ELSE entry[u].status
    <3> DEFINE n == entry[cur].attempts + 1
               r1 == [entry[cur] EXCEPT !.attempts = n]
               r2 == [entry[cur] EXCEPT !.status = "NEEDS_ATTENTION", !.attempts = n]
    <3>1. \/ pc' = "process" /\ entry' = [entry EXCEPT ![cur] = r1]
          \/ pc' = "drain" /\ entry' = [entry EXCEPT ![cur] = r2]
      BY <1>18 DEF Handle, Latest
    <3>2. /\ r1.status = entry[cur].status /\ r1.prepared = entry[cur].prepared
          /\ r2.status = "NEEDS_ATTENTION" /\ r2.prepared = entry[cur].prepared
      BY <2>1 DEF TypeOK
    <3> HIDE DEF r1, r2
    <3> QED
      BY <2>1, <3>1, <3>2 DEF TypeOK
  <2>3. \A u \in Updates : Decided(u) => Decided(u)'
    BY <2>1, <2>2 DEF Decided
  <2>4. \A u \in Updates : u = cur /\ pc' = "drain" => Decided(u)'
    BY <2>2 DEF Decided
  <2>5. todo \subseteq Updates
    BY DEF TypeOK
  <2>6. (\A u \in Updates : jobs[u].status # "none" => Decided(u) \/ (cur = u /\ pc \in Busy))'
    BY <2>1, <2>3, <2>4 DEF ApartInv
  <2>7. (pc # "off" /\ call = Maintenance =>
            /\ \A u \in todo : entry[u].status # "ENQUEUED"
            /\ pc \in Busy \ {"unlink"} => entry[cur].status # "ENQUEUED")'
    BY <2>1, <2>2, <2>5 DEF ApartInv
  <2>8. (\A u, v \in Updates, t \in Texts : <<u, t>> \in entry[v].prepared => Decided(u))'
    BY <2>2, <2>3 DEF ApartInv
  <2> QED
    BY <2>1, <2>6, <2>7, <2>8 DEF ApartInv
<1>19. CASE Raise
  BY <1>19, ApartQuiet DEF Raise, InTry, volumeVars, passVars
<1> QED
  BY <1>1, <1>2, <1>3, <1>4, <1>5, <1>7, <1>8, <1>9, <1>10, <1>11, <1>12, <1>13, <1>14,
     <1>15, <1>16, <1>17, <1>18, <1>19 DEF Worker

\* Every step keeps ApartInv.
LEMMA ApartNext == IInv /\ ApartInv /\ [Next]_vars => ApartInv'
<1> SUFFICES ASSUME IInv, ApartInv, [Next]_vars PROVE ApartInv'
  OBVIOUS
<1>1. CASE Worker \/ Raise \/ Abandon
  BY <1>1, ApartStep
<1>2. CASE ~(Worker \/ Raise \/ Abandon)
  <2>1. UNCHANGED <<jobs, entry, done, pc, cur, replies, call, todo>>
    BY <1>2 DEF Next, vars, WebhookReads, WebhookPublishes, WebhookSpawns, WebhookFails, Cron,
       volumeVars, workerVars, passVars
  <2>2. \A u \in Updates : Decided(u)' <=> Decided(u)
    BY <2>1 DEF Decided
  <2> QED
    BY <2>1, <2>2 DEF ApartInv
<1> QED
  BY <1>1, <1>2

\* While a call of the cron is served, an undecided entry stays undecided and nothing
\* is sent for it (select_drain_entries).
THEOREM MaintenanceOnlyResumes == Spec => MaintenanceNeverDecides
<1>1. ASSUME IInv, ApartInv, [Next]_vars, NEW u \in Updates,
             pc # "off", call = Maintenance, u \in Visible, entry[u].status = "ENQUEUED"
      PROVE  posted'[u] = posted[u] /\ entry'[u].status = "ENQUEUED"
  <2>1. ~Decided(u) /\ (pc \in Busy => u # cur)
    BY <1>1 DEF Visible, Decided, ApartInv, IInv, PassInv
  <2>2. posted'[u] = posted[u]
    <3>1. \A v \in Updates, t \in Texts : <<u, t>> \notin entry[v].prepared
      BY <1>1, <2>1 DEF ApartInv
    <3> QED
      BY <1>1, <3>1, ChatSteps, SentFromEntry
  <2>3. entry'[u].status = "ENQUEUED"
    BY <1>1, <2>1, EntrySteps
  <2> QED
    BY <2>2, <2>3
<1>2. IInv /\ ApartInv /\ [Next]_vars =>
         [\A u \in Updates :
             (pc # "off" /\ call = Maintenance /\ u \in Visible /\ entry[u].status = "ENQUEUED")
                 => /\ posted'[u] = posted[u]
                    /\ entry'[u].status = "ENQUEUED"]_vars
  BY <1>1
<1>3. IInv /\ ApartInv /\ [Next]_vars => (IInv /\ ApartInv)'
  BY NextInv, ApartNext
<1>4. Init => IInv /\ ApartInv
  BY InitInv, ApartInit
<1> QED
  BY <1>2, <1>3, <1>4, PTL DEF Spec, MaintenanceNeverDecides

-----------------------------------------------------------------------------
(* What was accepted                                                       *)

\* Why AcceptedKept is inductive: a request is answered only once its update is
\* in the volume, and an envelope is unlinked only behind its tombstone, which
\* nothing removes.
KeptInv ==
    /\ AcceptedKept
    /\ request \in [Updates -> {"none", "publish", "spawn"}]
    /\ \A u \in Updates : request[u] = "spawn" => u \in incoming \cup done
    /\ pc = "unlink" => cur \in done

\* The actions that leave the endpoint and the files of the volume alone and do
\* not enter "unlink".
Elsewhere ==
    /\ UNCHANGED <<endpointVars, incoming, done>>
    /\ pc' # "unlink" \/ UNCHANGED <<pc, cur>>

LEMMA KeptInit == Init => KeptInv
BY DEF Init, KeptInv, AcceptedKept

\* A step elsewhere keeps the invariant.
LEMMA KeptElsewhere == KeptInv /\ Elsewhere => KeptInv'
BY DEF KeptInv, AcceptedKept, Elsewhere, endpointVars

\* Most steps of the worker are elsewhere: only maintenance, the tombstone and
\* the removal behind it touch the files.
LEMMA WorkerElsewhere ==
    ASSUME KeptInv, Worker
    PROVE  \/ Elsewhere
           \/ \E c \in calls : Start(c)
           \/ Tombstone
           \/ Unlink
<1> USE DEF Elsewhere, endpointVars, volumeVars, passVars
<1>1. ASSUME NEW u \in Updates, NextEntry(u) PROVE Elsewhere
  BY <1>1 DEF NextEntry
<1>2. CASE EndDrain
  BY <1>2 DEF EndDrain
<1>3. CASE RecordedOutcome
  BY <1>3 DEF RecordedOutcome, Return, Terminal
<1>4. CASE Ingest
  BY <1>4 DEF Ingest
<1>5. CASE Decide
  BY <1>5 DEF Decide
<1>6. CASE SaveDecision
  BY <1>6 DEF SaveDecision, Return, Terminal
<1>7. CASE Prepare
  BY <1>7 DEF Prepare
<1>8. ASSUME NEW u \in Updates, NEW t \in Texts, Recall(u, t) \/ Intend(u, t)
      PROVE  Elsewhere
  BY <1>8 DEF Recall, Resolve, Intend, Recorded, deliverVars
<1>9. CASE PostConfirmed \/ PostUnknown \/ PostRefused
  BY <1>9 DEF PostConfirmed, PostUnknown, PostRefused, Outcome, deliverVars
<1>10. CASE ScheduleRetry
  BY <1>10 DEF ScheduleRetry, Return, Terminal
<1>11. CASE CommitReceipt
  BY <1>11 DEF CommitReceipt, deliverVars
<1>12. CASE Settle
  BY <1>12 DEF Settle, Return, Terminal
<1>13. CASE CheckpointPushes
  BY <1>13 DEF CheckpointPushes
<1>14. CASE Finish
  BY <1>14 DEF Finish, Close, volumeVars
<1>15. CASE Handle
  BY <1>15 DEF Handle
<1> QED
  BY <1>1, <1>2, <1>3, <1>4, <1>5, <1>6, <1>7, <1>8, <1>9, <1>10, <1>11, <1>12,
     <1>13, <1>14, <1>15 DEF Worker

LEMMA KeptNext == KeptInv /\ [Next]_vars => KeptInv'
<1> SUFFICES ASSUME KeptInv, [Next]_vars PROVE KeptInv'
  OBVIOUS
<1>1. ASSUME NEW u \in Updates, WebhookReads(u) PROVE KeptInv'
  BY <1>1 DEF KeptInv, AcceptedKept, WebhookReads, volumeVars, workerVars, passVars
<1>2. ASSUME NEW u \in Updates, WebhookPublishes(u) PROVE KeptInv'
  BY <1>2 DEF KeptInv, AcceptedKept, WebhookPublishes, workerVars, passVars
<1>3. ASSUME NEW u \in Updates, WebhookSpawns(u) PROVE KeptInv'
  BY <1>3 DEF KeptInv, AcceptedKept, WebhookSpawns, volumeVars, workerVars, passVars
<1>4. ASSUME NEW u \in Updates, WebhookFails(u) PROVE KeptInv'
  BY <1>4 DEF KeptInv, AcceptedKept, WebhookFails, volumeVars, workerVars, passVars
<1>5. CASE Cron
  BY <1>5, KeptElsewhere
  DEF Cron, Elsewhere, endpointVars, volumeVars, workerVars, passVars
<1>6. CASE Worker
  <2>1. ASSUME NEW c \in calls, Start(c) PROVE KeptInv'
    \* Maintenance unlinks only what has a tombstone.
    BY <2>1 DEF KeptInv, AcceptedKept, Start, endpointVars
  <2>2. CASE Tombstone
    BY <2>2 DEF KeptInv, AcceptedKept, Tombstone, endpointVars, passVars
  <2>3. CASE Unlink
    BY <2>3 DEF KeptInv, AcceptedKept, Unlink, endpointVars, passVars
  <2> QED
    BY <1>6, <2>1, <2>2, <2>3, WorkerElsewhere, KeptElsewhere
<1>7. CASE Raise
  BY <1>7, KeptElsewhere DEF Raise, Elsewhere, endpointVars, volumeVars
<1>8. CASE Abandon
  BY <1>8, KeptElsewhere DEF Abandon, Close, Elsewhere, endpointVars, volumeVars
<1>9. CASE UNCHANGED vars
  BY <1>9, KeptElsewhere DEF vars, Elsewhere, endpointVars, volumeVars, passVars
<1> QED
  BY <1>1, <1>2, <1>3, <1>4, <1>5, <1>6, <1>7, <1>8, <1>9 DEF Next

\* An update answered with 200 has its envelope or its tombstone at every
\* moment, whatever webhooks, workers, maintenance and crashes do (telegram_inbox.py).
THEOREM NeverLost == Spec => []AcceptedKept
<1>1. KeptInv => AcceptedKept
  BY DEF KeptInv
<1> QED
  BY <1>1, KeptInit, KeptNext, PTL DEF Spec

=============================================================================
