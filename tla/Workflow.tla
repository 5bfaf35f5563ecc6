------------------------------ MODULE Workflow ------------------------------
(***************************************************************************)
(* contracts/Workflow.sol: the on-chain round of daily contributions.      *)
(*                                                                         *)
(* A round collects contributions, has each one evaluated by the           *)
(* designated Evaluator Agent, lets the attributed agents appeal, is       *)
(* summarized and pays one point per score point.  Every step is a reply   *)
(* to an anchored task; every task names the replies it follows from.      *)
(* An evaluation is anchored first and counts only once a proof for it is  *)
(* accepted, so several evaluations of one contribution race each other,   *)
(* new supporting material, appeals, and the transitions of the round.     *)
(*                                                                         *)
(* A transaction that reverts leaves the contract as it was, so a guard of *)
(* an action is the conjunction of the "revert" conditions the transaction *)
(* passes.  A contribution is named by its source key, which the contract  *)
(* maps one-to-one to the contribution id.  A task is named by its round   *)
(* and its position in the round (taskSeq + 1), 0 standing for bytes32(0). *)
(* Replies that differ only in replier, timestamp or data locator enable   *)
(* the same steps and are one reply here.                                  *)
(***************************************************************************)
EXTENDS Integers, Sequences, FiniteSets, FiniteSetsExt

CONSTANTS
    Agents,                    \* ERC-8004 agent ids
    Members,                   \* the agents the Profile has as members
    Evaluator,                 \* evaluatorAgentId
    Wallets,                   \* externally owned addresses
    NoWallet,                  \* address(0)
    InitialWallet,             \* getAgentWallet at deployment
    WalletMoves,               \* <<agent, wallet>>: the moves the registry may make
    SourceKeys,                \* sourceKey of a contribution
    NoKey,                     \* bytes32(0)
    Scores,                    \* the scores the Evaluator chooses from
    RoundDuration,
    AppealDuration,
    RoundPointCap,
    MaxContributionsPerRound,
    TimeModulus,               \* 2^64 in the code: width of the stored times
    MaxRounds,                 \* bound: rounds opened
    MaxMaterials,              \* bound: supporting material per contribution
    MaxTime                    \* bound: block.timestamp

\* What the constructor enforces, and what the bounds must be.
ASSUME ConstantsAssumption ==
    /\ Members \subseteq Agents /\ Evaluator \in Members
    /\ NoWallet \notin Wallets /\ NoKey \notin SourceKeys
    /\ InitialWallet \in [Agents -> Wallets \cup {NoWallet}]
    /\ WalletMoves \subseteq Agents \X (Wallets \cup {NoWallet})
    /\ IsFiniteSet(SourceKeys)
    /\ Scores \subseteq 0 .. 100
    /\ {RoundDuration, AppealDuration, RoundPointCap, MaxContributionsPerRound}
         \subseteq Nat \ {0}
    /\ {TimeModulus, MaxRounds, MaxMaterials, MaxTime} \subseteq Nat
    /\ TimeModulus > 0

VARIABLES
    now,               \* block.timestamp
    wallet,            \* identity registry: agent -> address
    currentRound,      \* _roundSequence, which also names currentRoundId
    rounds,            \* _rounds and the six evidence anchors of a round
    tasks,             \* _tasks and _taskProven: round -> sequence of tasks
    replies,           \* _replies: the anchored replies
    proven,            \* _replyProven
    contributions,     \* _contributions
    agentRoundScores,  \* _agentRoundScores: round -> agent -> score
    rewardedAgentIds,  \* _rewardedAgentIds: round -> sequence of agents
    spent,             \* _spent
    transfers          \* history: the safeTransfer calls of each settlement

vars == <<now, wallet, currentRound, rounds, tasks, replies, proven,
          contributions, agentRoundScores, rewardedAgentIds, spent, transfers>>

scoreVars == <<agentRoundScores, rewardedAgentIds>>
paymentVars == <<spent, transfers>>
environmentVars == <<now, wallet>>

Rounds == 1 .. MaxRounds
Phases == {"None", "Open", "Evaluating", "Appealing", "Settled"}
Stages == {"Collect", "EvaluateContribution", "OpenAppealPhase",
           "AppealContribution", "ReevaluateContribution", "SummarizeRound",
           "SettleRound", "Terminal"}
Addresses == Wallets \cup {NoWallet}

\* ActionKind
Actions == {"SubmitContribution", "AppendSupportingMaterial", "SubmitInitialEvaluation",
            "SubmitAppeal", "SubmitAppealEvaluation", "SubmitRoundSummary",
            "CloseCollection", "OpenAppealPhase", "SettleRound"}

Replies == [run : Rounds, task : Nat \ {0}, action : Actions,
            contribution : SourceKeys \cup {NoKey}, score : Nat]
NoReply == [run |-> 0, task |-> 0, action |-> "None", contribution |-> NoKey, score |-> 0]
Reply(r, t, action, k, s) ==
    [run |-> r, task |-> t, action |-> action, contribution |-> k, score |-> s]

Task == [stage : Stages, timestamp : Nat, prev : SUBSET (Replies \cup {NoReply}),
         proven : BOOLEAN]

Round == [phase : Phases, openedAt : Nat, minRolloverAt : Nat, appealDeadline : Nat,
          contributionCount : Nat, initialEvaluatedCount : Nat,
          pendingAppealEvaluationCount : Nat, totalFinalScore : Nat,
          appealTask : Nat, closeReply : Replies \cup {NoReply},
          openAppealTask : Nat, openAppealReply : Replies \cup {NoReply},
          summaryTask : Nat, summaryReply : Replies \cup {NoReply},
          settlementTask : Nat]

NewRound(phase, openedAt, minRolloverAt) ==
    [phase |-> phase, openedAt |-> openedAt, minRolloverAt |-> minRolloverAt,
     appealDeadline |-> 0, contributionCount |-> 0, initialEvaluatedCount |-> 0,
     pendingAppealEvaluationCount |-> 0, totalFinalScore |-> 0, appealTask |-> 0,
     closeReply |-> NoReply, openAppealTask |-> 0, openAppealReply |-> NoReply,
     summaryTask |-> 0, summaryReply |-> NoReply, settlementTask |-> 0]

Transfer == [settlement : Nat, entry : Nat, agent : Agents, to : Wallets, amount : Nat]

Contribution ==
    [exists : BOOLEAN, run : 0 .. MaxRounds, agent : Agents,
     reviewed : SourceKeys \cup {NoKey}, evaluateTask : Nat, materials : Nat,
     initialEvaluated : BOOLEAN, initialScore : Nat, finalScore : Nat,
     initialReply : Replies \cup {NoReply}, appealed : BOOLEAN,
     reevaluateTask : Nat, appealEvaluated : BOOLEAN,
     appealReply : Replies \cup {NoReply}]

\* A contribution of agent a, in round r; one that reviews nothing is a Work.
NewContribution(exists, r, a, reviewed, t) ==
    [exists |-> exists, run |-> r, agent |-> a, reviewed |-> reviewed,
     evaluateTask |-> t, materials |-> 0, initialEvaluated |-> FALSE,
     initialScore |-> 0, finalScore |-> 0, initialReply |-> NoReply,
     appealed |-> FALSE, reevaluateTask |-> 0, appealEvaluated |-> FALSE,
     appealReply |-> NoReply]

\* _roundContributionIds
ContributionsOf(r) == {k \in SourceKeys : contributions[k].exists /\ contributions[k].run = r}

-----------------------------------------------------------------------------
(* Tasks and replies                                                       *)

NextTask(r) == Len(tasks[r]) + 1

\* _storeTask: the task counts as proven when every reply before it is.
StoreTask(r, stage, prev, provenReplies) ==
    tasks' = [tasks EXCEPT ![r] =
                Append(@, [stage |-> stage, timestamp |-> now, prev |-> prev,
                           proven |-> prev \subseteq provenReplies])]

\* The checks onAgentReply makes of any reply: the task exists in the round
\* and the reply, not in the future, is later than the task.
Answerable(r, t) == t \in 1 .. Len(tasks[r]) /\ tasks[r][t].timestamp < now

\* _anchorProvidedReply with the pass-through verifier: anchored and proven.
AnchorProven(reply) ==
    /\ replies' = replies \cup {reply}
    /\ proven' = proven \cup {reply}

\* _anchorProvidedReply with the Evaluator's verifier: anchored only.
AnchorUnproven(reply) ==
    /\ replies' = replies \cup {reply}
    /\ UNCHANGED proven

\* uint64(block.timestamp + duration)
StoredTime(t) == t % TimeModulus

-----------------------------------------------------------------------------
(* Collection                                                              *)

\* The check run makes of the current round.
MutantMayOpenRound == TRUE

MayOpenRound == currentRound # 0 => rounds[currentRound].phase # "Open"

\* run: opens the next round unless the current one still collects.
Run ==
    LET r == currentRound + 1 IN
    /\ r \in Rounds
    /\ MayOpenRound
    /\ currentRound' = r
    /\ StoreTask(r, "Collect", {}, proven)
    /\ rounds' = [rounds EXCEPT ![r] =
                    NewRound("Open", StoredTime(now), StoredTime(now + RoundDuration))]
    /\ UNCHANGED <<environmentVars, replies, proven, contributions, scoreVars, paymentVars>>

\* _resolveContributionRecorder
MayRecordFor(a, sender) ==
    /\ a \in Members
    /\ sender \in {wallet[a], wallet[Evaluator]}

\* _validateContribution, without the check of the sender.
MutantValidAnyPhase(r, k, reviewed) ==
    /\ rounds[r].contributionCount < MaxContributionsPerRound
    /\ ~contributions[k].exists
    /\ reviewed # NoKey => /\ contributions[reviewed].exists
                           /\ contributions[reviewed].reviewed = NoKey

\* Mutant: a source key that an earlier round recorded is taken once more.
MutantValidPerRound(r, k, reviewed) ==
    /\ rounds[r].phase = "Open"
    /\ rounds[r].contributionCount < MaxContributionsPerRound
    /\ k \notin ContributionsOf(r)
    /\ reviewed # NoKey => /\ contributions[reviewed].exists
                           /\ contributions[reviewed].reviewed = NoKey

ValidContribution(r, k, reviewed) ==
    /\ rounds[r].phase = "Open"
    /\ rounds[r].contributionCount < MaxContributionsPerRound
    /\ ~contributions[k].exists
    /\ reviewed # NoKey => /\ contributions[reviewed].exists
                           /\ contributions[reviewed].reviewed = NoKey

\* onAgentReply(SubmitContribution) and _storeContribution.
SubmitContribution(r, k, a, reviewed, sender) ==
    LET reply == Reply(r, 1, "SubmitContribution", k, 0) IN
    /\ Answerable(r, 1)
    /\ MayRecordFor(a, sender)
    /\ ValidContribution(r, k, reviewed)
    /\ AnchorProven(reply)
    /\ StoreTask(r, "EvaluateContribution", {reply}, proven \cup {reply})
    /\ contributions' = [contributions EXCEPT ![k] =
                           NewContribution(TRUE, r, a, reviewed, NextTask(r))]
    /\ rounds' = [rounds EXCEPT ![r].contributionCount = @ + 1]
    /\ UNCHANGED <<environmentVars, currentRound, scoreVars, paymentVars>>

\* The state checks of _appendSupportingMaterial.
TakesMaterial(k) ==
    /\ contributions[k].exists
    /\ ~contributions[k].initialEvaluated
    /\ rounds[contributions[k].run].phase = "Open"

\* _appendSupportingMaterial: the evaluation now has to answer a new task.
AppendSupportingMaterial(k, sender) ==
    LET c == contributions[k]
        r == c.run
        reply == Reply(r, c.evaluateTask, "AppendSupportingMaterial", k, 0) IN
    /\ c.materials < MaxMaterials
    /\ TakesMaterial(k)
    /\ Answerable(r, c.evaluateTask)
    /\ MayRecordFor(c.agent, sender)
    /\ AnchorProven(reply)
    /\ StoreTask(r, "EvaluateContribution", {reply}, proven \cup {reply})
    /\ contributions' = [contributions EXCEPT ![k] =
                           [@ EXCEPT !.materials = c.materials + 1, !.evaluateTask = NextTask(r)]]
    /\ UNCHANGED <<environmentVars, currentRound, rounds, scoreVars, paymentVars>>

\* The state checks of _submitCloseCollection.
Closable(r) == rounds[r].phase = "Open" /\ now >= rounds[r].minRolloverAt

\* _submitCloseCollection, by anyone once the round may roll over.
CloseCollection(r) ==
    LET reply == Reply(r, 1, "CloseCollection", NoKey, 0) IN
    /\ Answerable(r, 1)
    /\ Closable(r)
    /\ AnchorProven(reply)
    /\ rounds' = [rounds EXCEPT ![r] = [@ EXCEPT !.closeReply = reply,
                                                 !.phase = "Evaluating"]]
    /\ UNCHANGED <<environmentVars, currentRound, tasks, contributions, scoreVars, paymentVars>>

-----------------------------------------------------------------------------
(* Initial evaluation                                                      *)

\* _submitInitialEvaluation: in whatever phase, as often as the Evaluator
\* likes until one is accepted, always on the task of the latest material.
SubmitInitialEvaluation(k, score) ==
    LET c == contributions[k] IN
    /\ wallet[Evaluator] \in Wallets
    /\ c.exists
    /\ ~c.initialEvaluated
    /\ Answerable(c.run, c.evaluateTask)
    /\ AnchorUnproven(Reply(c.run, c.evaluateTask, "SubmitInitialEvaluation", k, score))
    /\ UNCHANGED <<environmentVars, currentRound, rounds, tasks, contributions,
                   scoreVars, paymentVars>>

\* An anchored evaluation of that kind which no proof has been accepted for.
Unproven(reply, action) == reply \in replies \ proven /\ reply.action = action

MutantAnyTotal(total) == TRUE

WithinCap(total) == total <= RoundPointCap

\* The checks of _acceptInitialEvaluation on the contribution.
MutantAcceptsStaleTask(reply) == ~contributions[reply.contribution].initialEvaluated

MutantAcceptsTwice(reply) ==
    reply.task = contributions[reply.contribution].evaluateTask

AcceptsInitial(reply) ==
    LET c == contributions[reply.contribution] IN
    /\ ~c.initialEvaluated
    /\ reply.task = c.evaluateTask

\* The agents paid at settlement, once each, those who ever scored.
MutantRewardedTwice(r, a, score) ==
    IF score > 0 THEN Append(rewardedAgentIds[r], a) ELSE rewardedAgentIds[r]

RewardedWith(r, a, score) ==
    IF score > 0 /\ \A i \in 1 .. Len(rewardedAgentIds[r]) : rewardedAgentIds[r][i] # a
    THEN Append(rewardedAgentIds[r], a)
    ELSE rewardedAgentIds[r]

\* onAgentProve of an initial evaluation and _acceptInitialEvaluation.
ProveInitialEvaluation(reply) ==
    LET k == reply.contribution
        r == reply.run
        a == contributions[k].agent IN
    /\ Unproven(reply, "SubmitInitialEvaluation")
    /\ AcceptsInitial(reply)
    /\ WithinCap(rounds[r].totalFinalScore + reply.score)
    /\ proven' = proven \cup {reply}
    /\ contributions' = [contributions EXCEPT ![k] =
                           [@ EXCEPT !.initialEvaluated = TRUE,
                                     !.initialScore = reply.score,
                                     !.finalScore = reply.score,
                                     !.initialReply = reply]]
    /\ rounds' = [rounds EXCEPT ![r] =
                    [@ EXCEPT !.initialEvaluatedCount = rounds[r].initialEvaluatedCount + 1,
                              !.totalFinalScore = rounds[r].totalFinalScore + reply.score]]
    /\ rewardedAgentIds' = [rewardedAgentIds EXCEPT ![r] = RewardedWith(r, a, reply.score)]
    /\ agentRoundScores' = [agentRoundScores EXCEPT ![r][a] = @ + reply.score]
    /\ UNCHANGED <<environmentVars, currentRound, tasks, replies, paymentVars>>

\* The checks of prepareOpenAppeal.
ReadyForAppeals(r) ==
    /\ rounds[r].phase = "Evaluating"
    /\ rounds[r].initialEvaluatedCount = rounds[r].contributionCount
    /\ rounds[r].openAppealTask = 0

\* prepareOpenAppeal, by anyone: the task joins every initial evaluation.
PrepareOpenAppeal(r) ==
    /\ ReadyForAppeals(r)
    /\ StoreTask(r, "OpenAppealPhase",
                 {rounds[r].closeReply}
                   \cup {contributions[k].initialReply : k \in ContributionsOf(r)}, proven)
    /\ rounds' = [rounds EXCEPT ![r].openAppealTask = NextTask(r)]
    /\ UNCHANGED <<environmentVars, currentRound, replies, proven, contributions,
                   scoreVars, paymentVars>>

-----------------------------------------------------------------------------
(* Appeals                                                                 *)

\* _submitOpenAppealPhase, by anyone: the appeal window starts now.
OpenAppealPhase(r) ==
    LET reply == Reply(r, rounds[r].openAppealTask, "OpenAppealPhase", NoKey, 0) IN
    /\ rounds[r].phase = "Evaluating"
    /\ rounds[r].openAppealTask # 0
    /\ Answerable(r, rounds[r].openAppealTask)
    /\ AnchorProven(reply)
    /\ StoreTask(r, "AppealContribution", {reply}, proven \cup {reply})
    /\ rounds' = [rounds EXCEPT ![r] =
                    [@ EXCEPT !.phase = "Appealing",
                              !.appealDeadline = StoredTime(now + AppealDuration),
                              !.openAppealReply = reply,
                              !.appealTask = NextTask(r)]]
    /\ UNCHANGED <<environmentVars, currentRound, contributions, scoreVars, paymentVars>>

\* The state checks of _submitAppeal.
Appealable(k) ==
    LET c == contributions[k] IN
    /\ c.initialEvaluated
    /\ ~c.appealed
    /\ rounds[c.run].phase = "Appealing"
    /\ now <= rounds[c.run].appealDeadline

\* _submitAppeal, from the wallet the attributed agent has now.
SubmitAppeal(k, sender) ==
    LET c == contributions[k]
        r == c.run
        reply == Reply(r, rounds[r].appealTask, "SubmitAppeal", k, 0) IN
    /\ c.exists
    /\ Appealable(k)
    /\ wallet[c.agent] = sender
    /\ Answerable(r, rounds[r].appealTask)
    /\ AnchorProven(reply)
    /\ StoreTask(r, "ReevaluateContribution", {reply}, proven \cup {reply})
    /\ contributions' = [contributions EXCEPT ![k] =
                           [@ EXCEPT !.appealed = TRUE, !.reevaluateTask = NextTask(r)]]
    /\ rounds' = [rounds EXCEPT ![r].pendingAppealEvaluationCount = @ + 1]
    /\ UNCHANGED <<environmentVars, currentRound, scoreVars, paymentVars>>

\* _submitAppealEvaluation
SubmitAppealEvaluation(k, score) ==
    LET c == contributions[k] IN
    /\ wallet[Evaluator] \in Wallets
    /\ c.appealed
    /\ ~c.appealEvaluated
    /\ Answerable(c.run, c.reevaluateTask)
    /\ AnchorUnproven(Reply(c.run, c.reevaluateTask, "SubmitAppealEvaluation", k, score))
    /\ UNCHANGED <<environmentVars, currentRound, rounds, tasks, contributions,
                   scoreVars, paymentVars>>

\* The checks of _acceptAppealEvaluation on the contribution.
MutantReevaluatesTwice(k) == contributions[k].appealed

AcceptsReevaluation(k) == contributions[k].appealed /\ ~contributions[k].appealEvaluated

\* The agent's score once the initial score is replaced.
MutantSwappedScore(r, a, c, score) == c.initialScore - agentRoundScores[r][a] + score

MutantAddedScore(r, a, c, score) == agentRoundScores[r][a] + score

ReplacedScore(r, a, c, score) == agentRoundScores[r][a] - c.initialScore + score

\* onAgentProve of a reevaluation and _acceptAppealEvaluation; the checked
\* subtractions revert below zero.
ProveAppealEvaluation(reply) ==
    LET k == reply.contribution
        r == reply.run
        c == contributions[k]
        a == c.agent
        adjustedTotal == rounds[r].totalFinalScore - c.finalScore + reply.score IN
    /\ Unproven(reply, "SubmitAppealEvaluation")
    /\ AcceptsReevaluation(k)
    /\ rounds[r].totalFinalScore >= c.finalScore
    /\ WithinCap(adjustedTotal)
    /\ rounds[r].pendingAppealEvaluationCount > 0
    /\ agentRoundScores[r][a] >= c.initialScore
    /\ proven' = proven \cup {reply}
    /\ contributions' = [contributions EXCEPT ![k] =
                           [@ EXCEPT !.appealEvaluated = TRUE,
                                     !.finalScore = reply.score,
                                     !.appealReply = reply]]
    /\ rounds' = [rounds EXCEPT ![r] =
                    [@ EXCEPT !.totalFinalScore = adjustedTotal,
                              !.pendingAppealEvaluationCount =
                                  rounds[r].pendingAppealEvaluationCount - 1]]
    /\ agentRoundScores' = [agentRoundScores EXCEPT ![r][a] =
                              ReplacedScore(r, a, c, reply.score)]
    /\ rewardedAgentIds' = [rewardedAgentIds EXCEPT ![r] = RewardedWith(r, a, reply.score)]
    /\ UNCHANGED <<environmentVars, currentRound, tasks, replies, paymentVars>>

-----------------------------------------------------------------------------
(* Summary and settlement                                                  *)

\* The reply whose score stands for contribution k at the summary.
MutantInitialReplyStands(k) == contributions[k].initialReply

FinalReply(k) ==
    IF contributions[k].appealed THEN contributions[k].appealReply
    ELSE contributions[k].initialReply

\* The checks of prepareRoundSummary.
MutantSummarizableWhilePending(r) ==
    /\ rounds[r].phase = "Appealing"
    /\ now > rounds[r].appealDeadline
    /\ rounds[r].summaryTask = 0

Summarizable(r) ==
    /\ rounds[r].phase = "Appealing"
    /\ now > rounds[r].appealDeadline
    /\ rounds[r].pendingAppealEvaluationCount = 0
    /\ rounds[r].summaryTask = 0

\* prepareRoundSummary, by anyone: the task joins every final evaluation.
PrepareRoundSummary(r) ==
    /\ Summarizable(r)
    /\ StoreTask(r, "SummarizeRound",
                 {rounds[r].openAppealReply} \cup {FinalReply(k) : k \in ContributionsOf(r)},
                 proven)
    /\ rounds' = [rounds EXCEPT ![r].summaryTask = NextTask(r)]
    /\ UNCHANGED <<environmentVars, currentRound, replies, proven, contributions,
                   scoreVars, paymentVars>>

\* _submitRoundSummary and _acceptRoundSummary, by the Evaluator.
SubmitRoundSummary(r) ==
    LET reply == Reply(r, rounds[r].summaryTask, "SubmitRoundSummary", NoKey, 0) IN
    /\ wallet[Evaluator] \in Wallets
    /\ rounds[r].summaryTask # 0
    /\ rounds[r].summaryReply = NoReply
    /\ Answerable(r, rounds[r].summaryTask)
    /\ AnchorProven(reply)
    /\ StoreTask(r, "SettleRound", {reply}, proven \cup {reply})
    /\ rounds' = [rounds EXCEPT ![r] = [@ EXCEPT !.summaryReply = reply,
                                                 !.settlementTask = NextTask(r)]]
    /\ UNCHANGED <<environmentVars, currentRound, contributions, scoreVars, paymentVars>>

\* The entries of _rewardedAgentIds that settlement pays; it skips zero scores.
Payees(r) ==
    {i \in 1 .. Len(rewardedAgentIds[r]) : agentRoundScores[r][rewardedAgentIds[r][i]] > 0}

\* The checks of _submitSettlement.
Settleable(r) ==
    /\ rounds[r].phase = "Appealing"
    /\ rounds[r].settlementTask # 0
    /\ rounds[r].summaryReply \in proven

\* The safeTransfer for entry i of _rewardedAgentIds, by the settlement that
\* creates the next task.
PaymentTo(r, i) ==
    LET a == rewardedAgentIds[r][i] IN
    [settlement |-> NextTask(r), entry |-> i, agent |-> a, to |-> wallet[a],
     amount |-> agentRoundScores[r][a]]

\* _submitSettlement and _settle, by anyone; it reverts as a whole when an
\* agent it has to pay has no wallet.
SettleRound(r) ==
    LET reply == Reply(r, rounds[r].settlementTask, "SettleRound", NoKey, 0) IN
    /\ Settleable(r)
    /\ Answerable(r, rounds[r].settlementTask)
    /\ \A i \in Payees(r) : wallet[rewardedAgentIds[r][i]] # NoWallet
    /\ AnchorProven(reply)
    /\ StoreTask(r, "Terminal", {reply}, proven \cup {reply})
    /\ rounds' = [rounds EXCEPT ![r].phase = "Settled"]
    /\ spent' = [spent EXCEPT ![r] = rounds[r].totalFinalScore]
    /\ transfers' = [transfers EXCEPT ![r] = @ \cup {PaymentTo(r, i) : i \in Payees(r)}]
    /\ UNCHANGED <<environmentVars, currentRound, contributions, scoreVars>>

-----------------------------------------------------------------------------
(* The environment                                                         *)

\* The identity registry moves or clears the wallet of an agent.
SetWallet(a, w) ==
    /\ <<a, w>> \in WalletMoves
    /\ wallet[a] # w
    /\ wallet' = [wallet EXCEPT ![a] = w]
    /\ UNCHANGED <<now, currentRound, rounds, tasks, replies, proven, contributions,
                   scoreVars, paymentVars>>

\* Time that nothing depends on need not pass: every task is older than now
\* and every stored deadline is behind.
TimeMatters ==
    \E r \in Rounds :
        \/ \E t \in 1 .. Len(tasks[r]) : tasks[r][t].timestamp = now
        \/ rounds[r].phase = "Open" /\ now < rounds[r].minRolloverAt
        \/ rounds[r].phase = "Appealing" /\ now <= rounds[r].appealDeadline

Tick ==
    /\ now < MaxTime
    /\ TimeMatters
    /\ now' = now + 1
    /\ UNCHANGED <<wallet, currentRound, rounds, tasks, replies, proven, contributions,
                   scoreVars, paymentVars>>

-----------------------------------------------------------------------------

Init ==
    /\ now = 0
    /\ wallet = InitialWallet
    /\ currentRound = 0
    /\ rounds = [r \in Rounds |-> NewRound("None", 0, 0)]
    /\ tasks = [r \in Rounds |-> <<>>]
    /\ replies = {}
    /\ proven = {}
    /\ contributions = [k \in SourceKeys |-> NewContribution(FALSE, 0, Evaluator, NoKey, 0)]
    /\ agentRoundScores = [r \in Rounds |-> [a \in Agents |-> 0]]
    /\ rewardedAgentIds = [r \in Rounds |-> <<>>]
    /\ spent = [r \in Rounds |-> 0]
    /\ transfers = [r \in Rounds |-> {}]

\* onAgentReply, by the action of the reply.
OnAgentReply ==
    \/ \E r \in Rounds, k \in SourceKeys, a \in Agents, s \in Wallets,
          reviewed \in SourceKeys \cup {NoKey} : SubmitContribution(r, k, a, reviewed, s)
    \/ \E k \in SourceKeys, s \in Wallets : AppendSupportingMaterial(k, s)
    \/ \E k \in SourceKeys, score \in Scores : SubmitInitialEvaluation(k, score)
    \/ \E k \in SourceKeys, s \in Wallets : SubmitAppeal(k, s)
    \/ \E k \in SourceKeys, score \in Scores : SubmitAppealEvaluation(k, score)
    \/ \E r \in Rounds : CloseCollection(r)
    \/ \E r \in Rounds : OpenAppealPhase(r)
    \/ \E r \in Rounds : SubmitRoundSummary(r)
    \/ \E r \in Rounds : SettleRound(r)

\* onAgentProve; a proof the verifier rejects changes nothing.
OnAgentProve ==
    \/ \E reply \in replies : ProveInitialEvaluation(reply)
    \/ \E reply \in replies : ProveAppealEvaluation(reply)

Next ==
    \/ Run
    \/ OnAgentReply
    \/ OnAgentProve
    \/ \E r \in Rounds : PrepareOpenAppeal(r)
    \/ \E r \in Rounds : PrepareRoundSummary(r)
    \/ \E a \in Agents, w \in Addresses : SetWallet(a, w)
    \/ Tick

Spec == Init /\ [][Next]_vars

-----------------------------------------------------------------------------
(* Properties                                                              *)

\* The type of the contract's storage and of its surroundings; the naturals
\* matter: a counter or a score that went below zero would revert for ever.
TypeOK ==
    /\ now \in Nat
    /\ wallet \in [Agents -> Addresses]
    /\ currentRound \in 0 .. MaxRounds
    /\ rounds \in [Rounds -> Round]
    /\ tasks \in [Rounds -> Seq(Task)]
    /\ replies \subseteq Replies
    /\ proven \subseteq replies
    /\ contributions \in [SourceKeys -> Contribution]
    /\ agentRoundScores \in [Rounds -> [Agents -> Nat]]
    /\ rewardedAgentIds \in [Rounds -> Seq(Agents)]
    /\ spent \in [Rounds -> Nat]
    /\ transfers \in [Rounds -> SUBSET Transfer]

\* At most one round collects at a time, and it is the current one: older
\* rounds go on, but never collect next to the current round (run).
OneOpenRound == \A r \in Rounds : rounds[r].phase = "Open" => r = currentRound

\* The three counters of a round, which gate its transitions, count what they
\* say: contributions, evaluated ones, and appeals without a reevaluation.
CountsAgree ==
    \A r \in Rounds :
        /\ rounds[r].contributionCount = Cardinality(ContributionsOf(r))
        /\ rounds[r].initialEvaluatedCount =
             Cardinality({k \in ContributionsOf(r) : contributions[k].initialEvaluated})
        /\ rounds[r].pendingAppealEvaluationCount =
             Cardinality({k \in ContributionsOf(r) :
                            contributions[k].appealed /\ ~contributions[k].appealEvaluated})

ScoreOf(K) == MapThenSumSet(LAMBDA k : contributions[k].finalScore, K)

\* However evaluations, appeals and reevaluations interleave, the round total
\* and every agent's score are the sums of the final scores they stand for, and
\* each of those is the score of the one evaluation that is proven: of several
\* candidates a second one never is.
ScoresAddUp ==
    /\ \A reply \in proven :
        /\ reply.action = "SubmitInitialEvaluation" =>
             contributions[reply.contribution].initialReply = reply
        /\ reply.action = "SubmitAppealEvaluation" =>
             contributions[reply.contribution].appealReply = reply
    /\ \A r \in Rounds :
        /\ rounds[r].totalFinalScore = ScoreOf(ContributionsOf(r))
        /\ \A a \in Agents :
              agentRoundScores[r][a] =
                ScoreOf({k \in ContributionsOf(r) : contributions[k].agent = a})

\* No evaluation and no reevaluation takes a round over its budget.
BudgetHolds == \A r \in Rounds : rounds[r].totalFinalScore <= RoundPointCap

\* The evidence of a round: every task follows from replies that were proven
\* when it was created, and the accepted initial evaluation answers the task of
\* the last supporting material, even when the material came after the
\* evaluation was anchored.
EvidenceSound ==
    /\ \A r \in Rounds : \A t \in 1 .. Len(tasks[r]) :
          tasks[r][t].proven /\ tasks[r][t].prev \subseteq proven
    /\ \A k \in SourceKeys :
          contributions[k].initialEvaluated =>
            /\ contributions[k].initialReply.task = contributions[k].evaluateTask
            /\ contributions[k].initialReply.score = contributions[k].initialScore

\* The summary task joins, for every contribution of the round, exactly one
\* proven evaluation, with the score the contribution is settled at; and it is
\* not prepared before every agent had the whole appeal duration, in which no
\* appeal comes too late either.
SummarySound ==
    \A r \in Rounds :
        LET summary == rounds[r].summaryTask
            deadline == tasks[r][rounds[r].appealTask].timestamp + AppealDuration IN
        /\ summary # 0 =>
             \A k \in ContributionsOf(r) :
                LET about == {reply \in tasks[r][summary].prev : reply.contribution = k} IN
                /\ Cardinality(about) = 1
                /\ \A reply \in about : reply.score = contributions[k].finalScore
        /\ summary # 0 => tasks[r][summary].timestamp > deadline
        /\ rounds[r].appealTask # 0 =>
             \A k \in ContributionsOf(r) :
                contributions[k].appealed =>
                    tasks[r][contributions[k].reevaluateTask].timestamp <= deadline

\* A settled round has paid every agent once, what its contributions scored,
\* and all of it within the budget; a round not settled has paid nothing.
SettledPaysScores ==
    \A r \in Rounds :
        LET payments(a) == {p \in transfers[r] : p.agent = a} IN
        IF rounds[r].phase # "Settled" THEN transfers[r] = {} /\ spent[r] = 0
        ELSE /\ \A a \in Agents :
                  LET due == ScoreOf({k \in ContributionsOf(r) : contributions[k].agent = a}) IN
                  IF due = 0 THEN payments(a) = {}
                  ELSE \E p \in payments(a) : payments(a) = {p} /\ p.amount = due
             /\ spent[r] = ScoreOf(ContributionsOf(r))
             /\ spent[r] <= RoundPointCap

\* Once the summary is prepared nothing that settlement pays by can change:
\* no proof still in flight, no late appeal.
SummaryFreezesScores ==
    [][\A r \in Rounds :
          rounds[r].summaryTask # 0 =>
              /\ rounds'[r].totalFinalScore = rounds[r].totalFinalScore
              /\ agentRoundScores'[r] = agentRoundScores[r]
              /\ rewardedAgentIds'[r] = rewardedAgentIds[r]
              /\ ContributionsOf(r)' = ContributionsOf(r)
              /\ \A k \in ContributionsOf(r) : contributions'[k] = contributions[k]]_vars

\* Once the collection is closed no contribution joins the round and none
\* gets more material, so a pending evaluation can no longer become stale.
CloseFreezesEvidence ==
    [][\A r \in Rounds :
          rounds[r].phase \notin {"None", "Open"} =>
              /\ ContributionsOf(r)' = ContributionsOf(r)
              /\ \A k \in ContributionsOf(r) :
                    contributions'[k].evaluateTask = contributions[k].evaluateTask]_vars

-----------------------------------------------------------------------------
(* Progress                                                                *)

\* Time passes, callers make the transitions open to anyone, the Evaluator
\* evaluates what is to be evaluated with a score that fits every budget and
\* its proofs are relayed.  Nothing else is promised: nobody need contribute,
\* appeal, or stop submitting further evaluations.
Progress ==
    /\ WF_vars(Tick)
    /\ WF_vars(Run)
    /\ \A r \in Rounds : /\ WF_vars(CloseCollection(r))
                         /\ WF_vars(PrepareOpenAppeal(r))
                         /\ WF_vars(OpenAppealPhase(r))
                         /\ WF_vars(PrepareRoundSummary(r))
                         /\ WF_vars(SubmitRoundSummary(r))
                         /\ WF_vars(SettleRound(r))
    /\ \A k \in SourceKeys :
         /\ WF_vars(SubmitInitialEvaluation(k, 0))
         /\ WF_vars(SubmitAppealEvaluation(k, 0))
         /\ WF_vars(\E reply \in replies :
                      reply.contribution = k /\ ProveInitialEvaluation(reply))
         /\ WF_vars(\E reply \in replies :
                      reply.contribution = k /\ ProveAppealEvaluation(reply))

FairSpec == Spec /\ Progress

\* No order of contributions, stale evaluations, appeals and budget refusals
\* blocks a round: each one that opens is settled in the end.
RoundEventuallySettles ==
    \A r \in Rounds : rounds[r].phase = "Open" ~> rounds[r].phase = "Settled"

=============================================================================
