# TAWG Daily Contribution: verification project

TLA+ models of the TAWG Daily Contribution program, TLC configurations that
check them on small instances, and proofs checked by TLAPS. The repository has
two programs:

* a **smart contract**, `src/contracts/Workflow.sol`, that runs rounds in which
  agents record contributions, an Evaluator Agent scores them, authors appeal,
  and a settlement pays wallets;
* a **Telegram bot**, `src/src/tawg_bot`, that runs on disposable clones of a
  git repository: webhook, inbox, worker, entry decisions, replies, scheduled
  jobs, with all durable state kept in JSON and Markdown files in git.

Everything below names the code by its path under `src/`.

## 1. Inventory

### 1.1 Contract

| Part | State | Operations | What makes it correct |
|---|---|---|---|
| `Workflow` | rounds, tasks (a DAG), anchored and proven replies, contributions, scores per agent, token spent | `run`, `onAgentReply` (submit, append material, evaluate, appeal, reevaluate, close, open appeals, summarize, settle), `onAgentProve`, `prepareOpenAppeal`, `prepareRoundSummary` | counters equal what they count, budget, each agent paid once and exactly its score, appeal window kept, nothing moves after the summary, a round always settles |
| `PassThroughVerifier` | none | `verify` | accepts only the empty proof of the operations the contract proves itself |

The hard behaviour: transactions of different parties in any order; proofs that
are relayed later than the replies they prove; replies that became stale; a cap
shared by all contributions of a round; rounds that overlap; wallets that
rotate between recording and settlement.

### 1.2 Bot

| Part | State | Interacts with | Hard behaviour | What makes it correct |
|---|---|---|---|---|
| Delivery (`delivery.py`) | `delivery-state.json`: per job a status and a content hash | Telegram, `commit_operation.sh` | crash between intent and outcome, lost answers, two sessions | at most once, in order; whatever may be in the chat is recorded in the branch |
| Checkpoint (`commit_operation.sh`, `repository_session.py`) | local commit, remote branch | git | refused, failed and unreported pushes | returns normally only if the state is durable (it is not, see section 6) |
| Inbox (`telegram_inbox.py`) | volume with envelopes, worker state, tombstones | webhook, worker | duplicate webhooks, crash between two files, cleanup racing an enqueue | an accepted update is decided once and never lost |
| Inbox runtime (`runtime.py`, `deploy/modal_app.py`) | the status of an entry | inbox, intake, decision, reply, delivery | exceptions at any step, restarts, a maintenance cron on the same entries | state in the volume and state in git advance together |
| Intake (`telegram_intake.py`) | cursor, receipts, ledger, jobs | Telegram, unit of work | confirmations that overtake the durable state, edits of a message already answered | an update leaves exactly one receipt and at most one job |
| Decision and reply (`entry_router.py`, `bot_router.py`) | pending jobs | Claude, delivery | jobs change during an AI call of minutes, budget of attempts | one decision per trigger, a prepared text stays the same |
| Unit of work (`unit_of_work.py`) | files | all of the above | a replacement that fails in the middle | all files or none; no overwriting of a concurrent change |
| Scheduler (`scheduler.py`, `daily_attempt_limit.py`, `daily.py`) | success and attempt records | everything periodic | failed phases, replayed ticks, attempts counted before a call that dies | at most one Daily and three requests per window |
| Knowledge (`live_evidence.py`, `knowledge_refresh.py`, `knowledge_jobs.py`, `vault_transaction.py`) | source registry, gaps, queue, vault pages | replies, Claude, git | three kinds of run observe and compile the same sources, and overlap | an observed change is compiled in the end or stays queued; pages never go back |
| Scanners (`scoped_scanner.py`, `github_announcements.py`) | cursors, snapshots, pending events | public sources, delivery | event seen twice, acknowledgement lost | each event announced once |
| Busy question (`busy_question.py`) | last trigger | delivery | cooldown starts after a confirmed delivery only | one question per cooldown |
| Member welcome (`member_welcome.py`) | profiles, welcome jobs | intake, delivery | expiry racing delivery | each member is welcomed once |
| Pure helpers, clients, CLI, export, migration | none worth a model | | | |

`PROJECT.json` lists every component with its files and, under `hazards`, each
behaviour that is hard to test with the line where it bites and the properties
that would catch it going wrong.

## 2. Plan

Order is by importance; each later module reuses what the earlier one defines.

| # | Module | Models | Composes | State of work |
|---|---|---|---|---|
| 1 | `Workflow` | the contract | | done, checked, proved |
| 2 | `Delivery`, `DeliveryPromise` | delivery, checkpoint script, disposable clones; the abstract at-most-once promise | `Delivery` implements `DeliveryPromise` per job | done, checked, proved |
| 3 | `InboxWorker` | webhook, volume, worker, maintenance, restarts | the delivery steps of `Delivery`, in the receipt-only mode the inbox runs in, for texts of one part | done, checked, its safety proved |
| 4 | `Tick` | the scheduled run: layers, phases, Daily, its limit of requests, busy question, replay of a run | the checkpoint of `Delivery`, `deliver` for the Daily | done, checked, proved |
| 5 | `Sources` | source check, announcements, current evidence of a pull request | the checkpoint and the records of `Delivery` | done, checked, proved |
| 6 | `Messages` | intake by polling and by webhook, entry decision, preparation of replies, welcomes | the checkpoint; a delivery is two outcomes | done, checked, proved |
| 7 | `Knowledge`, `UnitPromise` | evidence, queue and compilation; the unit of work | `Knowledge` implements `UnitPromise` for each clone | done, checked, proved |

"Proved" means that every property that holds in the module's runs, liveness aside,
is a theorem; section 5 says from which invariants. Only liveness is left.

## 3. The modules and the code

### 3.1 `Workflow` (`src/contracts/Workflow.sol`)

One action per entry point, or per action string of `onAgentReply` and
`onAgentProve`; `OnAgentReply` and `OnAgentProve` are the disjunctions.

| Variables | Storage of the contract |
|---|---|
| `currentRound`, `rounds` | `currentRound`, `rounds[run]` (phase, times, counters, task ids, total) |
| `tasks` | `tasks[run]`: stage, timestamp, previous replies, "all of them proven" |
| `replies`, `proven` | anchored replies, those with an accepted proof |
| `contributions` | `contributions[sourceKey]` |
| `agentRoundScores`, `rewardedAgentIds` | the same |
| `spent`, `transfers` | token moved by a settlement, each payment with its recipient |
| `now`, `wallet` | `block.timestamp`, the external agent registry |

What is abstracted and why:

* A contribution is its source key; the digest, the replay key and the
  recorder's id follow from it. Two replies that differ only in replier, time or
  locator are one reply: no guard of the contract tells them apart.
* A call that reverts, or whose proof the verifier refuses, changes nothing: no
  step. A settlement without enough tokens reverts and is no step either.
* A re-entrant call of the verifier is refused by `_verifierCallActive`, so
  a proof is one step.
* `expiresAt` is always the largest value, so replies do not expire.
* `TimeMatters`: time passes only while some deadline depends on it. Two states
  that differ in `now` alone behave alike when no round waits for a time, so
  nothing is lost and the state space stays finite. `MaxTime` bounds the rest.
* Times are stored modulo `TimeModulus` as `uint64` does. No run wraps:
  the constructor refuses a zero duration and nothing else, so a duration near
  2^64 is excluded by assumption only.
* `WalletMoves` is the set of changes the external registry may make. A zero
  wallet of a payee blocks `SettleRound` for the whole round until it is set:
  the contract documents that. The wallet a payment goes to is the one the
  registry names at that moment, by the text of `PaymentTo`; no property says it
  again.

### 3.2 `Delivery` (`src/src/tawg_bot/delivery.py`, `src/scripts/commit_operation.sh`, `src/src/tawg_bot/repository_session.py`)

A session is a run of `RepositorySession`: it clones the branch, works on its
own files and pushes. `remote` is the delivery state at the head of the branch,
`disk[s]` the file in the clone, `head[s]` the file in its last commit,
`fresh[s]` whether git would accept its push.

| Actions | Code |
|---|---|
| `Clone`, `Leave` | `RepositorySession` opens and drops a clone; `Leave` at any location is also a crash |
| `Prepare`, `Recover` | `DeliveryService.deliver` up to its first checkpoint |
| `CheckpointPushes`, `CheckpointSkips`, `CheckpointConflicts`, `CheckpointFails` | the ways `commit_operation.sh` can end, with `Continue` for what `deliver` does next |
| `PartConfirmed`, `LastPartConfirmed`, `PartUnknown`, `PartRejected` | one request to Telegram and the `except` clauses around it |
| `Save`, `Resume` | a checkpoint the caller makes for its own state; the caller catching `RuntimeFailure` and going on in the same clone |
| `OtherPush` | any push that does not touch the delivery state |

Abstracted: the mode `none`, in which the script does nothing; which other
files are staged (whether something is staged next to the delivery state is
nondeterministic); the second request for a text whose rich form is refused,
which is made inside one call of the client; a message confirmed for another
chat, which the code treats like an unknown outcome; message ids. The job record
that is written with a delivered entry is in `Messages`.

`DeliveryPromise` is what the rest of the bot relies on, for one job, without
sessions, clones or pushes: a record that says open, begun, review or done, and
a chat that gets parts only while the job is begun. `KeepsPromise` states that
`Delivery` implements it under the refinement mapping `P(j)`.

### 3.3 `InboxWorker` (`telegram_inbox.py`, `process_inbox` of `runtime.py`, `src/deploy/modal_app.py`)

The durable inbox exists only on the dev branch, whose bot persists in
receipt-only mode. State is saved in two places, one after the other, and
everything else dies with the session:

| Variables | Code |
|---|---|
| `incoming`, `entry`, `done` | the files of the volume: envelope, worker state, tombstone of each update |
| `remote` | delivery state and webhook receipts at the head of the branch |
| `clone`, `jobs` | the same in the clone, and `pending-bot-jobs.json`, which is never pushed in this mode |
| `request`, `accepted`, `calls` | webhook requests between their reload and their answer, updates answered with 200, spawned worker calls |
| `pc`, `call`, `todo`, `cur`, `replies`, `results` | where `process_inbox` is, and the locals it keeps |
| `posted`, `declined` | history: what reached the chat, whose reply was given up on purpose |

| Actions | Code |
|---|---|
| `WebhookReads`, `WebhookPublishes`, `WebhookSpawns`, `WebhookFails` | `telegram_webhook`: reload, `enqueue_envelope` and commit, spawn and answer 200, 503 at any point |
| `Cron`, `Start`, `Finish` | `scheduled_maintenance`; a session with `cleanup_terminal_orphans` and `select_drain_entries`; its last checkpoint |
| `NextEntry`, `EndDrain`, `Tombstone`, `Unlink` | the loop of `process_inbox`; `remove_entry` in its two steps |
| `RecordedOutcome`, `Ingest`, `Decide`, `SaveDecision`, `Prepare` | `_process_inbox_entry` up to the delivery, with the saves between |
| `Recall`, `Intend`, `PostConfirmed`, `PostUnknown`, `PostRefused` | `telegram_delivery` and `deliver`, for each saved reply |
| `ScheduleRetry`, `CommitReceipt`, `Settle` | the end of `_process_inbox_entry` |
| `CheckpointPushes` | every checkpoint, with what its caller does next |
| `Raise`, `Handle` | an exception at any await and the handler of `_process_with_retries` |
| `Abandon` | a killed or timed-out worker, `RepositoryConflict`, an exception outside the handler; the call is served again (`modal.Retries`, the second attempt of `RepositorySession`) or dropped |

Abstracted: each update is about a message of its own, so it has one job (edits
of a message are in `Messages`); a reply is one message, since
`Delivery` treats several; the order of a drain is arbitrary (the code sorts by
age, which the properties do not depend on) and its limits of ten entries are
left out; backoff times are not modelled, a due retry and one that is not are
the same to a caller that selects all undecided entries. The privacy policy is
fixed, so a reply that passed when it was prepared passes when it is sent. A
failed preparation may cancel its job at any attempt, as a permanent model
error does. A save to the volume and its commit are one step: nothing happens
between them that another process can see, and a crash between them is a crash
before the save. Branches that this worker cannot reach because it runs alone
(an entry that vanished, a status only an operator's tool would write) are left
out.

An entry that ends at `NEEDS_ATTENTION` may still be answered by the pass of
another one, so the status does not mean that nobody was answered.

### 3.4 `Tick` (`scheduler.py`, `daily.py`, `daily_evidence.py`, `daily_attempt_limit.py`, `busy_question.py`, `runtime.py`)

One run of the cron, from its clone to its last checkpoint. `remote` and `disk`
are the files of `data/state` it depends on (success records, attempt count,
delivery entries of the Daily, last question), `run` what the process remembers
(layer, failed phases, draft, and `commit`, what the clone last committed),
`calls`, `posted` and `question` what the model and the chat have received.

| Actions | Code |
|---|---|
| `Start`, `TelegramIntake`, `SourceCheck`, `KnowledgeRefresh`, `Validate`, `RecordSuccess`, `FinalCheckpoint` | `_scheduled_tick` and `Scheduler.tick`, phase by phase; `DueLayer` chooses the layer |
| `CollectEvidence`, `SelectContext`, `CountAttempt`, `AcceptDraft`, `ReviseDraft`, `RejectDraft`, `SaveDaily` | `daily_prepare`: evidence, context, the counted request, validation of what came back and one revision, the prepared artifact |
| `PublishRepository` | the checkpoint of the replies |
| `Ask`, `PostQuestion`, `RecordQuestion`, `StageTriggered` | `maybe_ask_busy_question` |
| `NothingToSend`, `RecoverDaily`, `PrepareDelivery`, `BeginSending`, `PostDaily`, `RecordDaily` | the Daily half of `telegram_delivery`, with the steps of `deliver` |
| `Crash` | the worker dies |

Every checkpoint may push, fail before or after its commit, push without
knowing it, or find that somebody else has pushed: then the clone is dropped and
the run is replayed once, with the same time (`Conflict`). A phase that fails
is remembered and the next one runs, as in `Scheduler._phase`. The work of the
other phases succeeds or fails; it is in `Sources`, `Messages` and `Knowledge`.
The first run finds an empty repository or one in use, whose Daily was delivered
and whose sources were checked just before (`InUse`).

### 3.5 `Sources` (`github_announcements.py`, `scoped_scanner.py`, `runtime.py`)

GitHub is an environment that moves between any two steps: pull requests are
opened, pushed to, closed, merged and reopened, issues are opened, the
repository is published or made private. A scan reads open items (`ReadOpen`)
and recently closed ones (`SourceCheck` through `RecentlyClosed`) at different
times, reconciles them with the state of the last check (`Reconciled`), and
writes state, events and page in one unit. Then the pending queue is announced,
one event at a time (`Turn`, `Recall`, `Skip`, `Intend`, `Post`, `Outcome`,
`Acknowledge`). `Evidence` is what a reply may be told about a pull request.
One repository stands for each: nothing in a scan relates two of them.

### 3.6 `Messages` (`telegram_intake.py`, `entry_router.py`, `bot_router.py`, `member_welcome.py`)

`sent` is the sequence of updates of the group, so a number stands for a text
of a message; `branch` and each clone hold which text is recorded, the jobs, the
cursor and the receipts. A setting chooses polling or webhooks and whether the
entry decision is on.

| Actions | Code |
|---|---|
| `Post` | somebody writes or edits a message |
| `StartTick`, `StartMaintenance`, `StartWebhook` | a clone; `TelegramIntake.collect` or `ingest_webhook_envelope`, with `persist` (`Persisted`: records, jobs, invalidated and reconciled welcomes, in one unit) |
| `Decide`, `PushCursor` | `EntryDecider.decide`, the checkpoint of the messages, then the cursor with a checkpoint of its own |
| `PrepareReplies` | `_prepare_pending_replies` and its checkpoint; `Outcomes` is `BotReplyService.prepare` |
| `Deliver`, `Finish`, `Die` | `deliver` for each prepared reply; the last checkpoint; the worker dies |

A clone is private, so a decision or a preparation is made in the step that
pushes it: nobody can see it earlier. For the same reason nothing else moves
while a run that has been overtaken finishes (`Free`). The tick's clone and its
request to Telegram are one step; a run overtaken between the two pushes nothing.
The run takes overlapping polls without the entry decision, and single webhooks
with it, which is how `deploy/modal_app.py` starts them (`max_containers=1`); the
entry decision under overlapping runs is covered by the theorems only, which hold
for every set of settings.

Left out: replies to the bot that become jobs after a delivery
(`_reconcile_direct_replies`), thread metadata, the one-off repairs, the limit of
ten replies or 15 minutes of a tick, the 24 hours a greeting counts, the lease
of a job in `PROCESSING` (which reaches the branch only when recording a failure
itself fails), and the 2048 receipts that are kept. An edit that the privacy
filter refuses leaves the old text and its job.

### 3.7 `Knowledge` and `UnitPromise` (`live_evidence.py`, `knowledge_jobs.py`, `knowledge_refresh.py`, `vault_transaction.py`, `unit_of_work.py`)

The files are the pages, the source registry, the gaps and the queue. A run is
a tick with replies, `check-sources` or `refresh-knowledge`; it compares what it
fetches with the registry it read when it began (`memory`), as the code does.

| Actions | Code |
|---|---|
| `StartTick`, `CheckSources`, `RefreshKnowledge`, `Push`, `Stop` | the commands of `ProductionRuntime`, their clone and their checkpoint |
| `Fetch`, `NothingPending` | `LiveEvidenceService.build`, after `_pending_jobs` for a compilation |
| `RecordEvidence`, `EvidenceRefused`, `RecordCheck`, `Compile` | the unit staged: `stage_evidence_outcome` of a reply, `stage_compilation_outcome` of a command, with the pages for a compilation |
| `Replace`, `WriteFails`, `PutBack`, `Published`, `GiveUp` | `RepositoryUnitOfWork.publish`, file by file, and what its caller does when it failed |

`UnitPromise` is a unit of work as its callers see it: load, stage, then all
files or none. `PublishesWhole` states that every clone of `Knowledge` implements
it: while a unit is being published the abstract store is what was saved before,
and the step that ends the publication changes all files at once.
Nothing else moves while a clone replaces its files (`Quiet`): the clone is
private, so such steps commute. A write back that fails as well is left out.

## 4. Runs

| Run | Instance | Question |
|---|---|---|
| `workflow_scores` | 2 agents, 2 contributions, scores 0 and 2, cap 3 | do evaluations, appeals and reevaluations in any order leave counters, totals and payments right; does the round settle (with fairness) |
| `workflow_rounds` | 2 overlapping rounds, 1 later material, rotating wallet | do rounds stay apart, in what they count and in what they pay; can a stale evaluation count |
| `delivery_texts` | 2 sessions, 1 job, texts of 3 parts and of 1 | is a job delivered at most once, in order, with one text, whatever is lost |
| `delivery_jobs` | 2 sessions, 2 jobs in one file, mode receipt-only | do two jobs keep the promise when one push carries the entries of both |
| `delivery_unpushed` | full mode, expected violation | is the state durable when a checkpoint returns |
| `inbox_one` | 1 update that may be sent again, 2 texts, 3 faults | is an accepted update answered once or declined, never lost, never after its end; is a decided entry retired or handed over without another message (with fairness) |
| `inbox_two` | 2 updates, 1 text, 1 fault | and when their passes prepare and send each other's replies |
| `tick` | 3 runs, 2 windows, 2 drafts, 1 fault | are requests, Dailies and questions bounded when runs are replayed or die; is a recorded Daily on file |
| `tick_daily` | the same, expected violation | is a recorded Daily delivered |
| `sources` | 1 pull request, 1 issue, 2 heads, 3 changes, 1 fault | is every merge announced, once; is current evidence current |
| `messages` | a newcomer, a greeter, 3 updates, 2 runs, 1 fault | is a message ever lost, an old text answered, a delivered reply reopened |
| `knowledge` | 2 overlapping runs, 3 sources of 2 ERCs, 2 edits, 1 failing write | is an observed change forgotten (but by a compilation that could not fetch its source), a page put back, a unit torn |

Why the bounds are enough. Two scores with a cap of 3 make the second
contribution fit or not fit, and the appeal raise or lower a score past the cap.
Two contributions by any two agents cover one agent with two contributions, and
the Evaluator being an author. Two sessions are enough to overlap; a third only
repeats the second, since the branch accepts one of any number of concurrent
pushes. In the inbox `MaxAttempts` is the 3 of the code; three faults are enough
to use up all attempts of an entry by exceptions alone, or to crash between any
two saves and again during the recovery, and one fault with two updates is
enough to separate a reply from the pass that saved it. `MaxPosts` is never
reached (no job gets more than 3 parts). `MaxTime` of `workflow_scores` is
reached only after all deadlines of its round. That of `workflow_rounds` is not:
within 7 units of time the first round settles, with one contribution, next to a
second one that is collected, evaluated and appealed, but a second round with a
contribution, or a contribution with supporting material, could settle at 8 at the
earliest. What is paid in those cases rests on the theorems (`PaysScores`,
`CountersExact`), which hold for every `MaxTime`.

In `tick` three runs, from an empty repository and from one in use, reach every
layer, let a window close between two of them, and use up the three requests of a window (two in
one run, one in the next); one fault is a conflict, a lost push or a crash at any
checkpoint. In `sources` two scans after the baseline, with three changes of
GitHub anywhere between their requests, put a merge on every side of a boundary
second. In `messages` the three updates are two first texts and an edit or a
second edit; two attempts distinguish the first, a repeated and the last one. In
`knowledge` the second edit of a source restores its first content, the case in
which a queue keyed by content could forget; an ERC with two sources of which
one is required can be compiled although the other cannot be fetched. What the
bounds exclude: a third run that overlaps two others, two failures in one of
these runs, and the case of section 6 that needs four changes at GitHub.

Symmetry is used only in runs without liveness, over keys, sessions, jobs,
updates, drafts, heads, workers and runs, none of which any definition tells apart.
`CHECK_DEADLOCK FALSE` where the bounds let the system stop: once all rounds are
settled, or the last run the instance allows is over.

### Properties of `Workflow`

* `CountsAgree`, `ScoresAddUp`, `BudgetHolds`: counters and sums kept
  incrementally over many transactions equal what they stand for, and a proven
  evaluation that was not replaced is the one that counts.
* `EvidenceSound`: every task of a settled round is proven, and each score rests
  on the final material.
* `SummarySound`: the summary covers the final evaluations, and the appeal
  window is whole to the second.
* `SummaryFreezesScores`, `CloseFreezesEvidence`: what a phase settles stays
  settled.
* `SettledPaysScores`: money. `CountsAgree` is checked in both runs: over two rounds
  it says that no contribution is counted by both.
* `OneOpenRound`: transitions anyone may call.
* `RoundEventuallySettles`: liveness, see below.

### Properties of `Delivery`

* `PostedOnce`: the chat holds a prefix of the parts of one text, each once.
* `RecordsTrue`: nothing is in the chat that the branch does not know about, and
  an entry that says delivered is true, in every clone.
* `KeepsPromise`: refinement, for one job whose sessions may hold different texts and
  for two jobs that share the file. `CheckpointDurable`: see section 6.

### Properties of `InboxWorker`

* `AcceptedKept`, `AnsweredOnce`: between the 200 and the tombstone there is
  always an envelope, a tombstone means answered or declined, and there is at
  most one reply over all passes, clones and repeated webhooks.
* `SilentAfterTombstone`: nothing is sent for an update after its end, but for a
  reply that was saved with another entry (`SavedByAnother`, section 6).
* `StoresAgree`: volume and branch are never apart in the direction that recovery
  could not repair: no receipt on the branch for an update that is still undecided,
  and an entry is ambiguous only if its intent is on the branch.
* `MaintenanceNeverDecides`: what the cron may not do, also not through the job
  of one entry in the pass of another.
* `DecidedSettles`: liveness.

### Properties of `Tick`

* `ModelCallsBounded`: three requests per window, over replays, revisions,
  failed checkpoints and crashes.
* `DailyPostedOnce`: although every run writes a text of its own.
* `RecordedDailyIsOnFile`: what is recorded as done can be looked up.
  `RecordedDailyIsDelivered`: see section 6.
* `QuestionsSpaced`: a question follows a recorded one after the cooldown, and no
  tick sends a second one, though its replay asks the model again and the answer to
  the first may be lost.

### Properties of `Sources`

* `MergesAnnounced`: a merge before the last check is queued or announced.
* `AnnouncedOnce`: at most one message, and no event leaves the queue without it.
* `EvidenceCurrent`: what is given as the state of a pull request is not older
  than the limit.

### Properties of `Messages`

* `NoMessageLost`: what Telegram was told it may forget is on the branch, in that
  text or a later one; a mention has a job that cannot be ignored.
* `AnswersCurrentTexts`: ready replies and open routes belong to the texts
  recorded next to them, across edits, slow decisions and refused pushes.
* `DeliveredIsFinal`: a delivered job never changes again, and nobody is
  introduced before the welcome arrived.

### Properties of `Knowledge`

* `NoChangeForgotten`: an observed change is compiled or queued, except that a
  compilation takes off the queue also the job of a source it could not fetch
  (`Resolved`, section 6).
* `PagesNeverGoBack`: of two overlapping compilations the later evidence stays.
* `PublishesWhole`: refinement of `UnitPromise`.

### Fairness

`FairSpec` of `Workflow` assumes that time passes, that the transitions anyone
may call are made by somebody, that the Evaluator submits, again after each stale
task, an evaluation with a score that fits every budget (zero), and that proofs
of contributions' evaluations are relayed. Each is an assumption about the agents
around the contract, which the repository's operator runs; none is about the
contract. All are weak: each action concerned stays enabled until taken.
`Delivery` promises no progress: an ambiguous job waits for a person.
`InboxWorker` assumes that the cron fires and that the worker takes its steps (one
weak condition for all of them: it is one sequential program, and Modal starts
queued calls). It assumes nothing of the model, of Telegram or of webhooks. A
drain may end after its first entry but not before, because `process_inbox` sets
its deadline right before the loop. The other modules state no liveness: their
progress rests on pushes, models and sources that may fail for ever.

## 5. Proofs

### `Workflow`

`WorkflowProofs` and `WorkflowEvidenceProofs`, which builds on it, prove,
for every number of agents, wallets, keys and rounds, every set of scores and every
duration allowed by `ConstantsAssumption`:

| Theorem | States |
|---|---|
| `TypeCorrect` | `Spec => []TypeOK` |
| `SettlementInvariant` | the inductive invariant `SettlementInv` |
| `OneRoundCollects` | `Spec => []OneOpenRound` |
| `CountersExact` | `Spec => []CountsAgree` |
| `WithinBudget` | `Spec => []BudgetHolds` |
| `SummaryFreezes` | `Spec => SummaryFreezesScores` |
| `SoundEvidence`, `CloseFreezes` | `Spec => []EvidenceSound`, `Spec => CloseFreezesEvidence` |
| `SoundSummary` | `Spec => []SummarySound`, if `MaxTime + AppealDuration < TimeModulus` |
| `ScoresExact` | `Spec => []ScoresAddUp` |
| `PaysScores` | `Spec => []SettledPaysScores` |

`TypeOK` is inductive only with `Links`: replies point at contributions
of their round, appealed contributions have scores, an agent's score is at least
the score of each evaluated contribution. Without it `ReplacedScore` could
leave the naturals, so `TypeCorrect` also says that no transaction reverts
because a sum underflows. `SettlementInv` adds the order of rounds, the exact
counters, and what a prepared task rules out: after the summary is prepared
there is no pending appeal, and no reply that could still be proven. Each lemma
treats one action; a lemma per action says which contributions enter or leave
the three counted sets, and `CountsStep` does the arithmetic once.

`EvidenceInv` says where each reply that something later rests on came from: a task
names proven replies only, an accepted evaluation is proven and about its own
contribution, and answers its latest task, a phase was entered by a proven reply.
`SummaryInv` adds the appeal window: it starts with its task, appeals fall into it
and the summary task after it. The hypothesis of `SoundSummary` says that the end of
every window fits in the 64 bits it is stored in. The contract does not enforce it
(section 3.1), and without it the window could end before it began.

`ScoresInv` holds the running sums against the sums over the contributions. A new
contribution adds an element of score 0 to one sum, an accepted evaluation changes
the score of one element; both are needed for the round and for one agent
(`SumsJoined`, `SumsMoved`). A reevaluation subtracts the initial score from the
agent and the final score from the round, which agree because of `EvidenceInv`.
`RewardedInv` (everyone with a score is listed once) makes the payments of a
settlement one per agent; `SummaryFreezes` keeps them equal to the scores afterwards.
The library's induction theorems cannot be instantiated, so the facts about a sum
over a set (`TotalSame`, `TotalWithout`) are proved by a smallest counterexample:
every nonempty set of numbers has a least one (`LeastNumber`), hence every
nonempty set of subsets a smallest one (`SmallestSet`).

### `Delivery`

`DeliveryProofs`, for any jobs, sessions, texts and numbers of parts:

| Theorem | States |
|---|---|
| `TypeCorrect` | `Spec => []TypeOK` |
| `AtMostOnce`, `Truthful` | `Spec => []PostedOnce`, `Spec => []RecordsTrue` |
| `Refines` | `Spec => KeepsPromise`: each step is a step of `DeliveryPromise`, or none, for each job |

The chat is written by a session that pushed "sending" for its job. That push was
accepted, so the clone was at the head of the branch and every other clone is
stale from then on; none can push a record that contradicts it. `IInv` says this
for each session: what its place in `deliver` implies for the record on the
branch (`AtLocation`, `SenderRecorded`), what a clone whose push would still be
accepted knows (`CloneKnows`), that an entry which says delivered is true; and
that what is in the chat is recorded, by one sender at most (`ChatRecorded`,
`OneSender`).

### `InboxWorker`

`InboxAnswerProofs`, for any number of updates, texts, attempts and faults:

| Theorem | States |
|---|---|
| `NeverLost` | `Spec => []AcceptedKept` |
| `TypeCorrect` | `Spec => []TypeOK` |
| `OneAnswer` | `Spec => []AnsweredOnce` |
| `StoresTogether` | `Spec => []StoresAgree` |
| `SilentAfterwards` | `Spec => SilentAfterTombstone` |
| `MaintenanceOnlyResumes` | `Spec => MaintenanceNeverDecides` |

`AcceptedKept` is not inductive alone: the answer 200 relies on the request having
seen or written the update (`request[u] = "spawn"`), and the unlinking on the
tombstone written in the step before. `KeptInv` adds both, and that is all that
`NeverLost` needs.

The invariant of the others has a part per store: the place of the worker and what it holds
(`PassInv`), what a pass that is about to send relies on (`SendInv`), the records
on the branch against the chat (`RecordsInv`), entries that are decided or have a
tombstone (`SettledInv`), volume against branch (`StoresInv`). The last theorem adds
`ApartInv`: a reply that is prepared in a pass belongs to an entry that is decided.

### `Tick`

`TickProofs`, for any intervals, limits and numbers of runs:

| Theorem | States |
|---|---|
| `TypeCorrect` | `Spec => []TypeOK` |
| `CallsBounded` | `Spec => []ModelCallsBounded` |
| `DailyOnce`, `DailyOnFile` | `Spec => []DailyPostedOnce`, `Spec => []RecordedDailyIsOnFile` |
| `QuestionsApart` | `Spec => []QuestionsSpaced` |

`CallsInv`: the requests made in a window are at most the count on the branch, with
one to spare while a run stands between the checkpoint of its count and its
request, because the count is pushed first. A clone may lag behind the branch, but
then its push is refused. `DailyInv`, `FileInv` and `QuestionInv` do the same for the
record of the Daily, its entry on file and the time of the last question.
`AskingInv` adds the intents of questions: a question is sent only behind a push of
its intent, and as long as the clone does not know of the intent of its own tick, no
commit does, so that push is a real one and every replay finds it. The
lemmas `Saved`, `NotSaved` and `Restarted` treat a checkpoint once for all
places that make one.

### `Sources`

`SourcesProofs`, for any pull requests, issues, heads and numbers of scans, from
`SourcesAssumption` alone:

| Theorem | States |
|---|---|
| `AnnouncedAtMostOnce` | `Spec => AnnouncedOnce` |
| `MergesKept` | `Spec => []MergesAnnounced` |
| `CurrentEvidence` | `Spec => []EvidenceCurrent` |

`OnceInv` relates the records on the branch to the chat and says for each place
of a run what its clone may have lost from the queue: only events that were
announced. A request is preceded by a push of its intent that really happens, since the
record differs from the last commit. `KnowInv` says of each copy of the
snapshots, per pull request, that the state it knows is the true one unless
the pull request changed since that check, and that a merge before the check is queued
or announced; `Read` says what the two requests of a scan cover together when GitHub
changes between them.

### `Messages`

`MessagesProofs`, for any messages, texts and new members, any number of updates,
failures and runs that overlap, with or without the entry decision, from
`MessagesAssumption` alone:

| Theorem | States |
|---|---|
| `MessagesInvariant` | the inductive invariant `MessagesInv` |
| `NothingLost` | `Spec => []NoMessageLost` |
| `AnswersCurrent` | `Spec => []AnswersCurrentTexts` |
| `FinalDeliveries` | `Spec => DeliveredIsFinal` |

The three properties are about the branch, and a push replaces the branch by the files
of a clone. So `FilesOK`, which implies the first two, is kept for the branch and for
every clone: what receipts and cursor claim is recorded, each job fits the records
next to it, a recorded mention has a job that still knows of it, nobody is
introduced before his welcome. An intermediate state of a clone may be worse, but it is
within one action of the model (section 3.6). `NoMessageLost` also needs that a
push takes nothing back: while a clone is fresh its files are `Ahead` of the branch
(no record older, no delivered job changed), and a clone that is not fresh cannot
push. What Telegram may forget is covered before it is told so, because the cursor is
advanced only to pages whose every update is recorded (`LocalOK`).

`DeliveredIsFinal` follows from the same fact, stated of each step: the branch stays
or moves ahead (`StepKeeps`). The lemmas `...Evolve` say what a decision or an attempt
may make of a job, however many outcomes it has: the trigger stays, a mention is never
ignored, a new text is made from the present records. `PersistedKeeps` is the heart of
the intake: after an edit, jobs of the message and welcomes that cite it are
reset or removed in the unit that records the text. `NoJob` is assumed to be no job.

### `Knowledge`

`KnowledgeProofs`, for any sources, ERCs, runs and numbers of edits and failures:

| Theorem | States |
|---|---|
| `NothingForgotten` | `Spec => []NoChangeForgotten` |
| `PagesAdvance` | `Spec => PagesNeverGoBack` |
| `WholeUnits` | `Spec => PublishesWhole`: a run implements `UnitPromise` for its clone |

The invariant has a part for the branch (`BranchInv`) and one for each run: a unit
of work in progress (`UnitInv`), the jobs it took (`TodoInv`), its files against the
branch they were cloned from (`FilesInv`), the evidence of its packs (`PackInv`),
what is left to write (`AfterInv`), and a clone that may still push against the head
(`FreshInv`). The three distinguished values (`NoJob`, `NoCheckout`, `NoUnit`) are
assumed to differ from the values they stand beside.

### Only model-checked

`RoundEventuallySettles` and `DecidedSettles`: liveness under fairness, which is out
of the prover's reach. The two properties of section 6 are violated by the code, so
nothing is to be proved of them. TLC also checked the inductive invariants
on small instances before they were proved.

## 6. Disagreements between the code and its documentation

* `CheckpointDurable` (run `delivery_unpushed`). `DeliveryCheckpoint.publish`
  promises to "Make the current repository state durable before/after the
  external call." (`src/src/tawg_bot/delivery.py:73`). In full mode
  `commit_operation.sh` leaves its commit in the clone when the push fails
  without a conflict, and its next call exits 0 without pushing when nothing new
  is staged (`src/scripts/commit_operation.sh:93-95`). The receipt-only branch of the same
  script always pushes (lines 31-41). The at-most-once properties hold in both modes: a lost
  outcome leaves the branch at sending, and sending is never sent again.
* `RecordedDailyIsDelivered` (run `tick_daily`). "A failed Daily remains
  retryable: L4 success is not recorded until Daily delivery completes."
  (`src/docs/superpowers/specs/2026-08-25-tawg-bounded-incremental-runs-design.md:18`).
  `telegram_delivery` swallows `DeliveryAmbiguous` and `DeliveryFailed`
  (`src/src/tawg_bot/runtime.py:1413`), so the phase counts as a success and L4 is
  recorded for a Daily that Telegram refused, or that an earlier run left prepared
  with another text. Its window is not tried again; `RecordedDailyIsOnFile` shows
  that its entry is there to be found.

The following was met while modelling and no run states it: the repository does
not say what it should do instead, or the case is beyond the bounds.

Inbox:

* Preparation is shared: `publish_repository` prepares every job of the clone.
  So a reply to update 1 may be written and recorded as an intent in the pass of
  update 2; when that session is lost, update 1 is processed from its own entry and
  the model writes another text, which `deliver` refuses. "Never regenerate on
  retry" (`src/src/tawg_bot/runtime.py:669`) holds for an entry's own replies only.
* A reply to update 1 that was saved in the entry of update 2 may be sent by the
  pass of update 2 after update 1 was cancelled and got its tombstone.
* An entry whose saved replies belong only to other entries never prepares its own
  again and ends at `NEEDS_ATTENTION`; an undecided entry whose worker call is lost
  waits for the next message, since maintenance only reports it.

Tick:

* When `wait_for` of the Daily evidence times out, the source that did answer is
  dropped as well (`daily_evidence.py:109`).
* Readiness falls back to the time of the run when the intake failed
  (`runtime.py:1275`).
* L4 comes first, so a Daily that fails before any request is counted keeps L2 and
  L3 from running for its window (`scheduler.py:70`).
* A busy question that was accepted but whose answer was lost starts no cooldown, so
  the next tick may send another one. The docstring of `maybe_ask_busy_question`
  (`runtime.py:1422`) means the retry for a transient failure and says nothing of
  this case; `QuestionsSpaced` leaves it out.
* The attempt file holds one window: two workers in different windows would reset
  each other's count (`daily_attempt_limit.py:49`). One worker at a time prevents it.

Sources:

* An event id holds the head of the pull request. A head that goes from A to B to A
  to B while the first announcement of B waits gives two events with one id and
  different content; `_merge_pending` refuses it and every later source check
  fails (`github_announcements.py:558`). If the first one was delivered,
  the second is taken for it and not announced.
* An announcement whose delivery is ambiguous stays in the queue for ever.
* A repository that is no longer listed is forgotten and later taken in again with
  a new baseline, without events for what happened meanwhile.

Messages:

* An edit resets a job but not its attempts, so an edited message whose earlier text
  had used all three is cancelled at the next tick (`telegram_intake.py:358`).
* A welcome that is taken in before the message of its newcomer loses its greeting
  job at the next reconciliation, and nothing brings it back.
* A ready welcome is made anew in every tick, and each time counts an attempt.

Knowledge:

* The registry is rendered from what the run holds in memory
  (`knowledge_jobs.py:210`), and only `check-sources` reads it again: within a tick,
  a second reply that sees another change undoes the first reply's observation
  on file, where the plan asks for one current block per source
  (`src/docs/superpowers/plans/2026-08-23-tawg-live-evidence-tools.md:469`). The job of the
  first change stays queued, so nothing is forgotten (`NoChangeForgotten`).
* A compilation takes all jobs of its ERCs off the queue, also that of a source which
  could not be fetched (`Resolved`). That change is not queued again until
  the source changes once more; `NoChangeForgotten` excepts it by name.
* A reply and its evidence are saved in two units of work; the same plan (line 548)
  says one.
* The oldest ERC whose compilation keeps failing is first in every batch
  (`knowledge_refresh.py:196`).

General: in full mode a commit that was not pushed is not pushed by a later
checkpoint with nothing new. `Delivery`, `Tick`, `Sources` and `Messages` keep this;
what is lost that way is repeated by a later run, and their properties hold.

## 7. Not modelled, and why

Clients of public sources, prompts, wording, redaction, retrieval, Markdown
linting, parsing of webhooks: they are pure functions or network I/O, and their
state is that of their callers. The one-off export, migration, reply repairs and
rich preview of a Daily run once by hand. The command line is another session of
`Delivery`. Of the modelled components, left out are: the merge of `main` into a
dev branch (`repository_session.py`), replies to the bot that become jobs later
and the identity of people (`telegram_intake.py`), vault corrections and scan
targets proposed by replies (`bot_router.py`), the profile page of a new member
(`member_welcome.py`), and the observations of topics (`scoped_scanner.py`).
`defer_refresh_erc`, `eligible_refresh_erc_numbers` and `resolve_refresh`
(`knowledge_jobs.py`) are called by nothing under `src/` and have no action.
Liveness under fairness is out of the prover's reach and stays with TLC.
