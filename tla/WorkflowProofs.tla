--------------------------- MODULE WorkflowProofs ---------------------------
(***************************************************************************)
(* Theorems about Workflow, for every set of agents, wallets and source    *)
(* keys, every duration, budget and bound: the state is well typed, and    *)
(* what a settlement pays by is what the summary joined.  The counters     *)
(* that gate the transitions of a round count what they say, so that no    *)
(* evaluation, reevaluation or appeal is outstanding when the summary task *)
(* is created, and none can come later.                                    *)
(***************************************************************************)
EXTENDS Workflow, FiniteSetTheorems, TLAPS

AnyReply == Replies \cup {NoReply}

-----------------------------------------------------------------------------
(* Typing                                                                  *)

\* A reply built by the contract's operations is one of Replies.
LEMMA ReplyType ==
    ASSUME NEW r \in Rounds, NEW t \in Nat \ {0}, NEW action \in Actions,
           NEW k \in SourceKeys \cup {NoKey}, NEW s \in Nat
    PROVE  Reply(r, t, action, k, s) \in Replies
BY DEF Reply, Replies

\* Storing a task of any stage keeps the tasks well typed.
LEMMA StoreTaskType ==
    ASSUME TypeOK, NEW r \in Rounds, NEW stage \in Stages,
           NEW prev \in SUBSET AnyReply, NEW provenReplies,
           StoreTask(r, stage, prev, provenReplies)
    PROVE  tasks' \in [Rounds -> Seq(Task)]
<1> DEFINE task == [stage |-> stage, timestamp |-> now, prev |-> prev,
                    proven |-> prev \subseteq provenReplies]
<1>1. task \in Task
  BY DEF Task, TypeOK, AnyReply
<1>2. tasks[r] \in Seq(Task)
  BY DEF TypeOK
<1>3. Append(tasks[r], task) \in Seq(Task)
  BY <1>1, <1>2
<1>4. tasks' = [tasks EXCEPT ![r] = Append(tasks[r], task)]
  BY DEF StoreTask
<1> QED
  BY <1>3, <1>4 DEF TypeOK

\* The position of the next task is a positive number.
LEMMA NextTaskType ==
    ASSUME TypeOK, NEW r \in Rounds
    PROVE  NextTask(r) \in Nat \ {0}
<1>1. tasks[r] \in Seq(Task)
  BY DEF TypeOK
<1>2. Len(tasks[r]) \in Nat
  BY <1>1
<1> QED
  BY <1>2 DEF NextTask

\* The times kept in uint64 are numbers.
LEMMA StoredTimeType ==
    ASSUME NEW t \in Nat
    PROVE  StoredTime(t) \in Nat
BY ConstantsAssumption DEF StoredTime

\* The deployed contract, before any call, is well typed.
THEOREM InitType == Init => TypeOK
<1> SUFFICES ASSUME Init PROVE TypeOK
  OBVIOUS
<1> USE ConstantsAssumption DEF Init
<1>1. \A r \in Rounds : NewRound("None", 0, 0) \in Round
  BY DEF NewRound, Round, Phases
<1>2. NewContribution(FALSE, 0, Evaluator, NoKey, 0) \in Contribution
  BY DEF NewContribution, Contribution
<1>3. rounds \in [Rounds -> Round] /\ contributions \in [SourceKeys -> Contribution]
  BY <1>1, <1>2
<1>4. tasks \in [Rounds -> Seq(Task)] /\ rewardedAgentIds \in [Rounds -> Seq(Agents)]
  OBVIOUS
<1>5. transfers \in [Rounds -> SUBSET Transfer]
  OBVIOUS
<1>6. currentRound \in 0 .. MaxRounds
  <2>1. MaxRounds \in Nat
    OBVIOUS
  <2> QED
    BY <2>1
<1>7. wallet \in [Agents -> Addresses]
  BY DEF Addresses
<1>8. agentRoundScores \in [Rounds -> [Agents -> Nat]] /\ spent \in [Rounds -> Nat]
  OBVIOUS
<1>9. now \in Nat /\ replies \subseteq Replies /\ proven \subseteq replies
  OBVIOUS
<1> QED
  BY <1>3, <1>4, <1>5, <1>6, <1>7, <1>8, <1>9 DEF TypeOK

\* The reply of an operation, anchored and proven, is one of Replies.
LEMMA AnchorProvenType ==
    ASSUME TypeOK, NEW reply \in Replies, AnchorProven(reply)
    PROVE  replies' \subseteq Replies /\ proven' \subseteq replies'
BY DEF AnchorProven, TypeOK

\* The sequence of rewarded agents stays one, whoever scores.
LEMMA RewardedWithType ==
    ASSUME TypeOK, NEW r \in Rounds, NEW a \in Agents, NEW score
    PROVE  RewardedWith(r, a, score) \in Seq(Agents)
<1>1. rewardedAgentIds[r] \in Seq(Agents)
  BY DEF TypeOK
<1> QED
  BY <1>1 DEF RewardedWith

\* What TypeOK says of the parts that the operations read.
LEMMA PartTypes ==
    ASSUME TypeOK
    PROVE  /\ now \in Nat /\ MaxRounds \in Nat /\ 0 \notin Rounds
           /\ replies \subseteq Replies /\ proven \subseteq replies
           /\ \A r \in Rounds : rounds[r] \in Round /\ NextTask(r) \in Nat \ {0}
           /\ \A k \in SourceKeys : /\ contributions[k] \in Contribution
                                    /\ contributions[k].agent \in Agents
           /\ \A r \in Rounds, a \in Agents : agentRoundScores[r][a] \in Nat
<1>1. MaxRounds \in Nat
  BY ConstantsAssumption
<1>2. \A k \in SourceKeys : contributions[k] \in Contribution /\ contributions[k].agent \in Agents
  BY DEF TypeOK, Contribution
<1>3. \A r \in Rounds, a \in Agents : agentRoundScores[r][a] \in Nat
  BY DEF TypeOK
<1>4. \A r \in Rounds : rounds[r] \in Round /\ NextTask(r) \in Nat \ {0}
  BY NextTaskType DEF TypeOK
<1>5. now \in Nat /\ replies \subseteq Replies /\ proven \subseteq replies
  BY DEF TypeOK
<1>6. 0 \notin Rounds
  BY <1>1 DEF Rounds
<1> QED
  BY <1>1, <1>2, <1>3, <1>4, <1>5, <1>6

\* A contribution of some round names a round and the tasks it waits for.
LEMMA ContributionTypes ==
    ASSUME TypeOK, NEW k \in SourceKeys
    PROVE  /\ contributions[k].run \in 0 .. MaxRounds
           /\ contributions[k].run # 0 => contributions[k].run \in Rounds
           /\ contributions[k].materials \in Nat
           /\ contributions[k].evaluateTask \in Nat
           /\ contributions[k].reevaluateTask \in Nat
           /\ contributions[k].initialScore \in Nat
           /\ contributions[k].finalScore \in Nat
<1>1. contributions[k] \in Contribution
  BY DEF TypeOK
<1>2. MaxRounds \in Nat
  BY ConstantsAssumption
<1> QED
  BY <1>1, <1>2 DEF Contribution, Rounds

\* A task that can be answered is at a positive position.
LEMMA AnswerableType ==
    ASSUME TypeOK, NEW r \in Rounds, NEW t, Answerable(r, t)
    PROVE  t \in Nat \ {0}
<1>1. tasks[r] \in Seq(Task)
  BY DEF TypeOK
<1>2. t \in 1 .. Len(tasks[r]) /\ Len(tasks[r]) \in Nat
  BY <1>1 DEF Answerable
<1> QED
  BY <1>2

\* A round stays one under each update the operations make of it.
LEMMA RoundUpdates ==
    ASSUME NEW d \in Round, NEW m \in Nat, NEW n \in Nat, NEW reply \in AnyReply
    PROVE  /\ [d EXCEPT !.contributionCount = m] \in Round
           /\ [d EXCEPT !.closeReply = reply, !.phase = "Evaluating"] \in Round
           /\ [d EXCEPT !.initialEvaluatedCount = m, !.totalFinalScore = n] \in Round
           /\ [d EXCEPT !.openAppealTask = m] \in Round
           /\ [d EXCEPT !.phase = "Appealing", !.appealDeadline = m,
                        !.openAppealReply = reply, !.appealTask = n] \in Round
           /\ [d EXCEPT !.pendingAppealEvaluationCount = m] \in Round
           /\ [d EXCEPT !.totalFinalScore = m, !.pendingAppealEvaluationCount = n] \in Round
           /\ [d EXCEPT !.summaryTask = m] \in Round
           /\ [d EXCEPT !.summaryReply = reply, !.settlementTask = m] \in Round
           /\ [d EXCEPT !.phase = "Settled"] \in Round
<1> USE DEF Round, Phases, AnyReply
<1>1. [d EXCEPT !.contributionCount = m] \in Round
  OBVIOUS
<1>2. [d EXCEPT !.closeReply = reply, !.phase = "Evaluating"] \in Round
  OBVIOUS
<1>3. [d EXCEPT !.initialEvaluatedCount = m, !.totalFinalScore = n] \in Round
  OBVIOUS
<1>4. [d EXCEPT !.openAppealTask = m] \in Round
  OBVIOUS
<1>5. [d EXCEPT !.phase = "Appealing", !.appealDeadline = m,
                !.openAppealReply = reply, !.appealTask = n] \in Round
  OBVIOUS
<1>6. [d EXCEPT !.pendingAppealEvaluationCount = m] \in Round
  OBVIOUS
<1>7. [d EXCEPT !.totalFinalScore = m, !.pendingAppealEvaluationCount = n] \in Round
  OBVIOUS
<1>8. [d EXCEPT !.summaryTask = m] \in Round
  OBVIOUS
<1>9. [d EXCEPT !.summaryReply = reply, !.settlementTask = m] \in Round
  OBVIOUS
<1>10. [d EXCEPT !.phase = "Settled"] \in Round
  OBVIOUS
<1> QED
  BY <1>1, <1>2, <1>3, <1>4, <1>5, <1>6, <1>7, <1>8, <1>9, <1>10

\* So does a contribution.
LEMMA ContributionUpdates ==
    ASSUME NEW c \in Contribution, NEW m \in Nat, NEW n \in Nat, NEW reply \in AnyReply
    PROVE  /\ [c EXCEPT !.materials = m, !.evaluateTask = n] \in Contribution
           /\ [c EXCEPT !.initialEvaluated = TRUE, !.initialScore = m, !.finalScore = m,
                        !.initialReply = reply] \in Contribution
           /\ [c EXCEPT !.appealed = TRUE, !.reevaluateTask = m] \in Contribution
           /\ [c EXCEPT !.appealEvaluated = TRUE, !.finalScore = m,
                        !.appealReply = reply] \in Contribution
<1> USE DEF Contribution, AnyReply
<1>1. [c EXCEPT !.materials = m, !.evaluateTask = n] \in Contribution
  OBVIOUS
<1>2. [c EXCEPT !.initialEvaluated = TRUE, !.initialScore = m, !.finalScore = m,
                !.initialReply = reply] \in Contribution
  OBVIOUS
<1>3. [c EXCEPT !.appealed = TRUE, !.reevaluateTask = m] \in Contribution
  OBVIOUS
<1>4. [c EXCEPT !.appealEvaluated = TRUE, !.finalScore = m, !.appealReply = reply] \in Contribution
  OBVIOUS
<1> QED
  BY <1>1, <1>2, <1>3, <1>4

-----------------------------------------------------------------------------
(* Typing, one lemma per operation.  What it needs besides: a contribution  *)
(* exists with its round, appeals and evaluations are of contributions     *)
(* that exist, and an evaluation reply is about one of its own round.      *)

Evaluations == {"SubmitInitialEvaluation", "SubmitAppealEvaluation"}

Links ==
    /\ \A k \in SourceKeys :
         LET c == contributions[k] IN
         /\ c.exists => c.run \in Rounds
         /\ c.initialEvaluated \/ c.appealed => c.exists
         /\ c.appealEvaluated => c.appealed
         /\ c.appealed => c.initialEvaluated
    /\ \A reply \in replies :
         reply.action \in Evaluations =>
             /\ reply.contribution \in SourceKeys
             /\ contributions[reply.contribution].exists
             /\ contributions[reply.contribution].run = reply.run

\* run opens a well typed round with one task.
LEMMA RunType ==
    ASSUME TypeOK, Run
    PROVE  TypeOK'
<1> DEFINE r == currentRound + 1
<1>1. r \in Rounds
  BY DEF Run
<1>2. StoredTime(now) \in Nat /\ StoredTime(now + RoundDuration) \in Nat
  BY StoredTimeType, PartTypes, ConstantsAssumption
<1>3. NewRound("Open", StoredTime(now), StoredTime(now + RoundDuration)) \in Round
  BY <1>2 DEF NewRound, Round, Phases
<1>4. rounds' \in [Rounds -> Round]
  BY <1>3 DEF Run, TypeOK
<1>5. tasks' \in [Rounds -> Seq(Task)]
  BY <1>1, StoreTaskType DEF Run, Stages
<1>6. currentRound' \in 0 .. MaxRounds
  BY <1>1, PartTypes DEF Run, Rounds
<1> QED
  BY <1>4, <1>5, <1>6 DEF Run, TypeOK, environmentVars, scoreVars, paymentVars

\* A contribution is stored with a task of its round.
LEMMA SubmitContributionType ==
    ASSUME TypeOK, NEW r \in Rounds, NEW k \in SourceKeys, NEW a \in Agents,
           NEW reviewed \in SourceKeys \cup {NoKey}, NEW s \in Wallets,
           SubmitContribution(r, k, a, reviewed, s)
    PROVE  TypeOK'
<1> DEFINE reply == Reply(r, 1, "SubmitContribution", k, 0)
<1>1. reply \in Replies
  BY ReplyType DEF Actions
<1>2. tasks' \in [Rounds -> Seq(Task)]
  <2>1. StoreTask(r, "EvaluateContribution", {reply}, proven \cup {reply})
    BY DEF SubmitContribution
  <2> QED
    BY <1>1, <2>1, StoreTaskType DEF Stages, AnyReply
<1>3. NewContribution(TRUE, r, a, reviewed, NextTask(r)) \in Contribution
  BY PartTypes DEF NewContribution, Contribution, Rounds
<1>4. contributions' \in [SourceKeys -> Contribution]
  BY <1>3 DEF SubmitContribution, TypeOK
<1>5. [rounds[r] EXCEPT !.contributionCount = rounds[r].contributionCount + 1] \in Round
  <2>1. rounds[r] \in Round /\ NoReply \in AnyReply
    BY PartTypes DEF AnyReply
  <2>2. rounds[r].contributionCount + 1 \in Nat
    BY <2>1 DEF Round
  <2> QED
    BY <2>1, <2>2, RoundUpdates
<1>6. rounds' \in [Rounds -> Round]
  BY <1>5 DEF SubmitContribution, TypeOK
<1>7. replies' \subseteq Replies /\ proven' \subseteq replies'
  BY <1>1, AnchorProvenType DEF SubmitContribution
<1> QED
  BY <1>2, <1>4, <1>6, <1>7
  DEF SubmitContribution, TypeOK, environmentVars, scoreVars, paymentVars

\* Material moves the contribution to a new task of its round.
LEMMA AppendSupportingMaterialType ==
    ASSUME TypeOK, Links, NEW k \in SourceKeys, NEW s \in Wallets,
           AppendSupportingMaterial(k, s)
    PROVE  TypeOK'
<1> DEFINE c == contributions[k]
           r == c.run
           reply == Reply(r, c.evaluateTask, "AppendSupportingMaterial", k, 0)
           updated == [c EXCEPT !.materials = c.materials + 1, !.evaluateTask = NextTask(r)]
<1>1. r \in Rounds
  BY DEF AppendSupportingMaterial, TakesMaterial, Links
<1>2. reply \in Replies
  BY <1>1, AnswerableType, ReplyType DEF AppendSupportingMaterial, Actions
<1>3. tasks' \in [Rounds -> Seq(Task)]
  <2>1. StoreTask(r, "EvaluateContribution", {reply}, proven \cup {reply})
    BY DEF AppendSupportingMaterial
  <2> QED
    BY <1>1, <1>2, <2>1, StoreTaskType DEF Stages, AnyReply
<1>4. updated \in Contribution
  <2>1. c \in Contribution /\ NextTask(r) \in Nat /\ NoReply \in AnyReply
    BY <1>1, PartTypes DEF AnyReply
  <2>2. c.materials + 1 \in Nat
    BY <2>1 DEF Contribution
  <2> QED
    BY <2>1, <2>2, ContributionUpdates
<1>5. contributions' \in [SourceKeys -> Contribution]
  <2>1. contributions' = [contributions EXCEPT ![k] = updated]
    BY DEF AppendSupportingMaterial
  <2> QED
    BY <1>4, <2>1 DEF TypeOK
<1>6. replies' \subseteq Replies /\ proven' \subseteq replies'
  BY <1>2, AnchorProvenType DEF AppendSupportingMaterial
<1> QED
  BY <1>3, <1>5, <1>6
  DEF AppendSupportingMaterial, TypeOK, environmentVars, scoreVars, paymentVars

\* Closing the collection records a reply to the first task.
LEMMA CloseCollectionType ==
    ASSUME TypeOK, NEW r \in Rounds, CloseCollection(r)
    PROVE  TypeOK'
<1> DEFINE reply == Reply(r, 1, "CloseCollection", NoKey, 0)
           updated == [rounds[r] EXCEPT !.closeReply = reply, !.phase = "Evaluating"]
<1>1. reply \in Replies
  BY ReplyType DEF Actions
<1>2. updated \in Round
  BY <1>1, PartTypes, RoundUpdates DEF AnyReply
<1>3. rounds' \in [Rounds -> Round]
  <2>1. rounds' = [rounds EXCEPT ![r] = updated]
    BY DEF CloseCollection
  <2> QED
    BY <1>2, <2>1 DEF TypeOK
<1>4. replies' \subseteq Replies /\ proven' \subseteq replies'
  BY <1>1, AnchorProvenType DEF CloseCollection
<1> QED
  BY <1>3, <1>4 DEF CloseCollection, TypeOK, environmentVars, scoreVars, paymentVars

\* An initial evaluation is only anchored.
LEMMA SubmitInitialEvaluationType ==
    ASSUME TypeOK, Links, NEW k \in SourceKeys, NEW score \in Scores,
           SubmitInitialEvaluation(k, score)
    PROVE  TypeOK'
<1> DEFINE c == contributions[k]
           reply == Reply(c.run, c.evaluateTask, "SubmitInitialEvaluation", k, score)
<1>1. c.run \in Rounds /\ Answerable(c.run, c.evaluateTask)
  BY DEF SubmitInitialEvaluation, Links
<1>2. score \in Nat
  BY ConstantsAssumption
<1>3. reply \in Replies
  BY <1>1, <1>2, AnswerableType, ReplyType DEF Actions
<1>4. replies' \subseteq Replies /\ proven' \subseteq replies'
  BY <1>3 DEF SubmitInitialEvaluation, AnchorUnproven, TypeOK
<1> QED
  BY <1>4 DEF SubmitInitialEvaluation, TypeOK, environmentVars, scoreVars, paymentVars

\* An evaluation reply that onAgentProve accepts, with what it is about.
LEMMA EvaluationReplyTypes ==
    ASSUME TypeOK, Links, NEW reply \in replies, reply.action \in Evaluations
    PROVE  /\ reply \in Replies /\ reply.run \in Rounds /\ reply.score \in Nat
           /\ reply.contribution \in SourceKeys
           /\ contributions[reply.contribution].exists
           /\ contributions[reply.contribution].run = reply.run
<1>1. reply \in Replies
  BY DEF TypeOK
<1> QED
  BY <1>1 DEF Replies, Links

\* An accepted initial evaluation adds natural numbers to the counters and scores.
LEMMA ProveInitialEvaluationType ==
    ASSUME TypeOK, Links, NEW reply \in replies, ProveInitialEvaluation(reply)
    PROVE  TypeOK'
<1> DEFINE k == reply.contribution
           r == reply.run
           c == contributions[k]
           d == rounds[r]
           evaluated == [c EXCEPT !.initialEvaluated = TRUE, !.initialScore = reply.score,
                                  !.finalScore = reply.score, !.initialReply = reply]
           counted == [d EXCEPT !.initialEvaluatedCount = d.initialEvaluatedCount + 1,
                                !.totalFinalScore = d.totalFinalScore + reply.score]
<1>1. reply.action \in Evaluations
  BY DEF ProveInitialEvaluation, Unproven, Evaluations
<1>2. reply \in AnyReply /\ r \in Rounds /\ k \in SourceKeys /\ reply.score \in Nat
  BY <1>1, EvaluationReplyTypes DEF AnyReply
<1>3. contributions' \in [SourceKeys -> Contribution]
  <2>1. evaluated \in Contribution
    BY <1>2, PartTypes, ContributionUpdates
  <2>2. contributions' = [contributions EXCEPT ![k] = evaluated]
    BY DEF ProveInitialEvaluation
  <2> QED
    BY <2>1, <2>2 DEF TypeOK
<1>4. rounds' \in [Rounds -> Round]
  <2>1. d \in Round
    BY <1>2, PartTypes
  <2>2. d.initialEvaluatedCount + 1 \in Nat /\ d.totalFinalScore + reply.score \in Nat
    BY <1>2, <2>1 DEF Round
  <2>3. counted \in Round
    BY <1>2, <2>1, <2>2, RoundUpdates
  <2>4. rounds' = [rounds EXCEPT ![r] = counted]
    BY DEF ProveInitialEvaluation
  <2> QED
    BY <2>3, <2>4 DEF TypeOK
<1>5. rewardedAgentIds' \in [Rounds -> Seq(Agents)]
  <2>1. RewardedWith(r, c.agent, reply.score) \in Seq(Agents)
    BY <1>2, PartTypes, RewardedWithType
  <2> QED
    BY <2>1 DEF ProveInitialEvaluation, TypeOK
<1>6. agentRoundScores' \in [Rounds -> [Agents -> Nat]]
  <2>1. agentRoundScores[r][c.agent] + reply.score \in Nat
    BY <1>2, PartTypes
  <2> QED
    BY <1>2, <2>1, PartTypes DEF ProveInitialEvaluation, TypeOK
<1>7. proven' \subseteq replies'
  BY DEF ProveInitialEvaluation, TypeOK
<1> QED
  BY <1>3, <1>4, <1>5, <1>6, <1>7
  DEF ProveInitialEvaluation, TypeOK, environmentVars, paymentVars

\* The task that opens the appeals joins replies that exist.
LEMMA PrepareOpenAppealType ==
    ASSUME TypeOK, NEW r \in Rounds, PrepareOpenAppeal(r)
    PROVE  TypeOK'
<1> DEFINE prev == {rounds[r].closeReply}
                     \cup {contributions[k].initialReply : k \in ContributionsOf(r)}
<1>1. rounds[r] \in Round /\ \A k \in SourceKeys : contributions[k] \in Contribution
  BY PartTypes
<1>2. prev \in SUBSET AnyReply
  BY <1>1 DEF Round, Contribution, ContributionsOf, AnyReply
<1>3. tasks' \in [Rounds -> Seq(Task)]
  BY <1>2, StoreTaskType DEF PrepareOpenAppeal, Stages
<1>4. [rounds[r] EXCEPT !.openAppealTask = NextTask(r)] \in Round
  BY PartTypes, RoundUpdates DEF AnyReply
<1>5. rounds' \in [Rounds -> Round]
  BY <1>4 DEF PrepareOpenAppeal, TypeOK
<1> QED
  BY <1>3, <1>5 DEF PrepareOpenAppeal, TypeOK, environmentVars, scoreVars, paymentVars

\* Opening the appeals stores a deadline that fits the stored width.
LEMMA OpenAppealPhaseType ==
    ASSUME TypeOK, NEW r \in Rounds, OpenAppealPhase(r)
    PROVE  TypeOK'
<1> DEFINE reply == Reply(r, rounds[r].openAppealTask, "OpenAppealPhase", NoKey, 0)
           deadline == StoredTime(now + AppealDuration)
           opened == [rounds[r] EXCEPT !.phase = "Appealing", !.appealDeadline = deadline,
                                       !.openAppealReply = reply, !.appealTask = NextTask(r)]
<1>1. reply \in Replies
  BY AnswerableType, ReplyType DEF OpenAppealPhase, Actions
<1>2. deadline \in Nat
  BY StoredTimeType, PartTypes, ConstantsAssumption
<1>3. opened \in Round
  BY <1>1, <1>2, PartTypes, RoundUpdates DEF AnyReply
<1>4. rounds' \in [Rounds -> Round]
  <2>1. rounds' = [rounds EXCEPT ![r] = opened]
    BY DEF OpenAppealPhase
  <2> QED
    BY <1>3, <2>1 DEF TypeOK
<1>5. tasks' \in [Rounds -> Seq(Task)]
  <2>1. StoreTask(r, "AppealContribution", {reply}, proven \cup {reply})
    BY DEF OpenAppealPhase
  <2> QED
    BY <1>1, <2>1, StoreTaskType DEF Stages, AnyReply
<1>6. replies' \subseteq Replies /\ proven' \subseteq replies'
  BY <1>1, AnchorProvenType DEF OpenAppealPhase
<1> QED
  BY <1>4, <1>5, <1>6 DEF OpenAppealPhase, TypeOK, environmentVars, scoreVars, paymentVars

\* An appeal is stored with a task of its round.
LEMMA SubmitAppealType ==
    ASSUME TypeOK, Links, NEW k \in SourceKeys, NEW s \in Wallets, SubmitAppeal(k, s)
    PROVE  TypeOK'
<1> DEFINE c == contributions[k]
           r == c.run
           reply == Reply(r, rounds[r].appealTask, "SubmitAppeal", k, 0)
           appealing == [c EXCEPT !.appealed = TRUE, !.reevaluateTask = NextTask(r)]
<1>1. r \in Rounds
  BY DEF SubmitAppeal, Links
<1>2. reply \in Replies
  BY <1>1, AnswerableType, ReplyType DEF SubmitAppeal, Actions
<1>3. tasks' \in [Rounds -> Seq(Task)]
  <2>1. StoreTask(r, "ReevaluateContribution", {reply}, proven \cup {reply})
    BY DEF SubmitAppeal
  <2> QED
    BY <1>1, <1>2, <2>1, StoreTaskType DEF Stages, AnyReply
<1>4. contributions' \in [SourceKeys -> Contribution]
  <2>1. appealing \in Contribution
    BY <1>1, PartTypes, ContributionUpdates DEF AnyReply
  <2>2. contributions' = [contributions EXCEPT ![k] = appealing]
    BY DEF SubmitAppeal
  <2> QED
    BY <2>1, <2>2 DEF TypeOK
<1>5. rounds' \in [Rounds -> Round]
  <2>1. rounds[r] \in Round
    BY <1>1, PartTypes
  <2>2. rounds[r].pendingAppealEvaluationCount + 1 \in Nat
    BY <2>1 DEF Round
  <2>3. [rounds[r] EXCEPT !.pendingAppealEvaluationCount =
                             rounds[r].pendingAppealEvaluationCount + 1] \in Round
    BY <2>1, <2>2, RoundUpdates DEF AnyReply
  <2> QED
    BY <2>3 DEF SubmitAppeal, TypeOK
<1>6. replies' \subseteq Replies /\ proven' \subseteq replies'
  BY <1>2, AnchorProvenType DEF SubmitAppeal
<1> QED
  BY <1>3, <1>4, <1>5, <1>6 DEF SubmitAppeal, TypeOK, environmentVars, scoreVars, paymentVars

\* A reevaluation is only anchored.
LEMMA SubmitAppealEvaluationType ==
    ASSUME TypeOK, Links, NEW k \in SourceKeys, NEW score \in Scores,
           SubmitAppealEvaluation(k, score)
    PROVE  TypeOK'
<1> DEFINE c == contributions[k]
           reply == Reply(c.run, c.reevaluateTask, "SubmitAppealEvaluation", k, score)
<1>1. c.run \in Rounds /\ Answerable(c.run, c.reevaluateTask)
  BY DEF SubmitAppealEvaluation, Links
<1>2. score \in Nat
  BY ConstantsAssumption
<1>3. reply \in Replies
  BY <1>1, <1>2, AnswerableType, ReplyType DEF Actions
<1>4. replies' \subseteq Replies /\ proven' \subseteq replies'
  BY <1>3 DEF SubmitAppealEvaluation, AnchorUnproven, TypeOK
<1> QED
  BY <1>4 DEF SubmitAppealEvaluation, TypeOK, environmentVars, scoreVars, paymentVars

\* The checked subtractions of an accepted reevaluation never go below zero.
LEMMA ProveAppealEvaluationType ==
    ASSUME TypeOK, Links, NEW reply \in replies, ProveAppealEvaluation(reply)
    PROVE  TypeOK'
<1> DEFINE k == reply.contribution
           r == reply.run
           c == contributions[k]
           d == rounds[r]
           total == d.totalFinalScore - c.finalScore + reply.score
           reevaluated == [c EXCEPT !.appealEvaluated = TRUE, !.finalScore = reply.score,
                                    !.appealReply = reply]
           counted == [d EXCEPT !.totalFinalScore = total,
                                !.pendingAppealEvaluationCount =
                                    d.pendingAppealEvaluationCount - 1]
<1>1. reply.action \in Evaluations
  BY DEF ProveAppealEvaluation, Unproven, Evaluations
<1>2. reply \in AnyReply /\ r \in Rounds /\ k \in SourceKeys /\ reply.score \in Nat
  BY <1>1, EvaluationReplyTypes DEF AnyReply
<1>3. contributions' \in [SourceKeys -> Contribution]
  <2>1. reevaluated \in Contribution
    BY <1>2, PartTypes, ContributionUpdates
  <2>2. contributions' = [contributions EXCEPT ![k] = reevaluated]
    BY DEF ProveAppealEvaluation
  <2> QED
    BY <2>1, <2>2 DEF TypeOK
<1>4. rounds' \in [Rounds -> Round]
  <2>1. d \in Round /\ c.finalScore \in Nat
    BY <1>2, PartTypes, ContributionTypes
  <2>2. /\ d.totalFinalScore \in Nat /\ d.totalFinalScore >= c.finalScore
        /\ d.pendingAppealEvaluationCount \in Nat /\ d.pendingAppealEvaluationCount > 0
    BY <2>1 DEF Round, ProveAppealEvaluation
  <2>3. total \in Nat /\ d.pendingAppealEvaluationCount - 1 \in Nat
    BY <1>2, <2>1, <2>2
  <2>4. counted \in Round
    BY <1>2, <2>1, <2>3, RoundUpdates
  <2>5. rounds' = [rounds EXCEPT ![r] = counted]
    BY DEF ProveAppealEvaluation
  <2> QED
    BY <2>4, <2>5 DEF TypeOK
<1>5. rewardedAgentIds' \in [Rounds -> Seq(Agents)]
  <2>1. RewardedWith(r, c.agent, reply.score) \in Seq(Agents)
    BY <1>2, PartTypes, RewardedWithType
  <2> QED
    BY <2>1 DEF ProveAppealEvaluation, TypeOK
<1>6. agentRoundScores' \in [Rounds -> [Agents -> Nat]]
  <2>1. agentRoundScores[r][c.agent] \in Nat /\ c.initialScore \in Nat
    BY <1>2, PartTypes, ContributionTypes
  <2>2. ReplacedScore(r, c.agent, c, reply.score) \in Nat
    BY <1>2, <2>1 DEF ReplacedScore, ProveAppealEvaluation
  <2> QED
    BY <1>2, <2>2, PartTypes DEF ProveAppealEvaluation, TypeOK
<1>7. proven' \subseteq replies'
  BY DEF ProveAppealEvaluation, TypeOK
<1> QED
  BY <1>3, <1>4, <1>5, <1>6, <1>7
  DEF ProveAppealEvaluation, TypeOK, environmentVars, paymentVars

\* The task of the summary joins replies that exist.
LEMMA PrepareRoundSummaryType ==
    ASSUME TypeOK, NEW r \in Rounds, PrepareRoundSummary(r)
    PROVE  TypeOK'
<1> DEFINE prev == {rounds[r].openAppealReply} \cup {FinalReply(k) : k \in ContributionsOf(r)}
<1>1. rounds[r] \in Round /\ \A k \in SourceKeys : contributions[k] \in Contribution
  BY PartTypes
<1>2. prev \in SUBSET AnyReply
  BY <1>1 DEF Round, Contribution, ContributionsOf, FinalReply, AnyReply
<1>3. tasks' \in [Rounds -> Seq(Task)]
  BY <1>2, StoreTaskType DEF PrepareRoundSummary, Stages
<1>4. [rounds[r] EXCEPT !.summaryTask = NextTask(r)] \in Round
  BY PartTypes, RoundUpdates DEF AnyReply
<1>5. rounds' \in [Rounds -> Round]
  BY <1>4 DEF PrepareRoundSummary, TypeOK
<1> QED
  BY <1>3, <1>5 DEF PrepareRoundSummary, TypeOK, environmentVars, scoreVars, paymentVars

\* The summary is stored with the settlement task.
LEMMA SubmitRoundSummaryType ==
    ASSUME TypeOK, NEW r \in Rounds, SubmitRoundSummary(r)
    PROVE  TypeOK'
<1> DEFINE reply == Reply(r, rounds[r].summaryTask, "SubmitRoundSummary", NoKey, 0)
           summarized == [rounds[r] EXCEPT !.summaryReply = reply,
                                           !.settlementTask = NextTask(r)]
<1>1. reply \in Replies
  BY AnswerableType, ReplyType DEF SubmitRoundSummary, Actions
<1>2. summarized \in Round
  BY <1>1, PartTypes, RoundUpdates DEF AnyReply
<1>3. rounds' \in [Rounds -> Round]
  <2>1. rounds' = [rounds EXCEPT ![r] = summarized]
    BY DEF SubmitRoundSummary
  <2> QED
    BY <1>2, <2>1 DEF TypeOK
<1>4. tasks' \in [Rounds -> Seq(Task)]
  <2>1. StoreTask(r, "SettleRound", {reply}, proven \cup {reply})
    BY DEF SubmitRoundSummary
  <2> QED
    BY <1>1, <2>1, StoreTaskType DEF Stages, AnyReply
<1>5. replies' \subseteq Replies /\ proven' \subseteq replies'
  BY <1>1, AnchorProvenType DEF SubmitRoundSummary
<1> QED
  BY <1>3, <1>4, <1>5 DEF SubmitRoundSummary, TypeOK, environmentVars, scoreVars, paymentVars

\* A settlement pays wallets, never the null address.
LEMMA SettleRoundType ==
    ASSUME TypeOK, NEW r \in Rounds, SettleRound(r)
    PROVE  TypeOK'
<1> DEFINE reply == Reply(r, rounds[r].settlementTask, "SettleRound", NoKey, 0)
<1>1. reply \in Replies
  BY AnswerableType, ReplyType DEF SettleRound, Actions
<1>2. tasks' \in [Rounds -> Seq(Task)]
  <2>1. StoreTask(r, "Terminal", {reply}, proven \cup {reply})
    BY DEF SettleRound
  <2> QED
    BY <1>1, <2>1, StoreTaskType DEF Stages, AnyReply
<1>3. rounds' \in [Rounds -> Round]
  <2>1. [rounds[r] EXCEPT !.phase = "Settled"] \in Round
    BY PartTypes, RoundUpdates DEF AnyReply
  <2> QED
    BY <2>1 DEF SettleRound, TypeOK
<1>4. spent' \in [Rounds -> Nat]
  <2>1. rounds[r].totalFinalScore \in Nat
    BY PartTypes DEF Round
  <2> QED
    BY <2>1 DEF SettleRound, TypeOK
<1>5. transfers' \in [Rounds -> SUBSET Transfer]
  <2>1. ASSUME NEW i \in Payees(r) PROVE PaymentTo(r, i) \in Transfer
    <3>1. rewardedAgentIds[r] \in Seq(Agents) /\ i \in 1 .. Len(rewardedAgentIds[r])
      BY DEF TypeOK, Payees
    <3>2. rewardedAgentIds[r][i] \in Agents /\ i \in Nat
      BY <3>1
    <3>3. wallet[rewardedAgentIds[r][i]] \in Wallets
      BY <3>2 DEF SettleRound, TypeOK, Addresses
    <3>4. agentRoundScores[r][rewardedAgentIds[r][i]] \in Nat /\ NextTask(r) \in Nat
      BY <3>2, PartTypes
    <3> QED
      BY <3>2, <3>3, <3>4 DEF PaymentTo, Transfer
  <2>2. transfers[r] \cup {PaymentTo(r, i) : i \in Payees(r)} \in SUBSET Transfer
    BY <2>1 DEF TypeOK
  <2> QED
    BY <2>2 DEF SettleRound, TypeOK
<1>6. replies' \subseteq Replies /\ proven' \subseteq replies'
  BY <1>1, AnchorProvenType DEF SettleRound
<1> QED
  BY <1>2, <1>3, <1>4, <1>5, <1>6 DEF SettleRound, TypeOK, environmentVars, scoreVars

\* Time and the identity registry stay well typed.
LEMMA EnvironmentType ==
    ASSUME TypeOK, (\E a \in Agents, w \in Addresses : SetWallet(a, w)) \/ Tick
    PROVE  TypeOK'
<1>1. CASE \E a \in Agents, w \in Addresses : SetWallet(a, w)
  BY <1>1 DEF SetWallet, TypeOK, scoreVars, paymentVars
<1>2. CASE Tick
  BY <1>2 DEF Tick, TypeOK, scoreVars, paymentVars
<1> QED
  BY <1>1, <1>2

-----------------------------------------------------------------------------
(* The links between replies, contributions and rounds                     *)

\* Links survives a step that keeps the existing contributions where they are
\* and adds only evaluations of contributions that exist.
LEMMA LinksPreserved ==
    ASSUME TypeOK, Links,
           \A k \in SourceKeys :
              LET c == contributions[k]
                  d == contributions'[k] IN
              /\ c.exists => d.exists /\ d.run = c.run
              /\ d.exists => d.run \in Rounds
              /\ d.initialEvaluated \/ d.appealed => d.exists
              /\ d.appealEvaluated => d.appealed
              /\ d.appealed => d.initialEvaluated,
           \A reply \in replies' \ replies :
              reply.action \in Evaluations =>
                  /\ reply.contribution \in SourceKeys
                  /\ contributions[reply.contribution].exists
                  /\ contributions[reply.contribution].run = reply.run
    PROVE  Links'
BY DEF Links

\* What the four updates of a contribution change, and what they leave.
LEMMA ContributionFields ==
    ASSUME NEW c \in Contribution, NEW m, NEW n, NEW reply
    PROVE  /\ LET d == [c EXCEPT !.materials = m, !.evaluateTask = n] IN
                /\ d.exists = c.exists /\ d.run = c.run /\ d.agent = c.agent
                /\ d.initialEvaluated = c.initialEvaluated
                /\ d.appealed = c.appealed /\ d.appealEvaluated = c.appealEvaluated
           /\ LET d == [c EXCEPT !.initialEvaluated = TRUE, !.initialScore = m,
                                 !.finalScore = m, !.initialReply = reply] IN
                /\ d.exists = c.exists /\ d.run = c.run /\ d.agent = c.agent
                /\ d.initialEvaluated = TRUE
                /\ d.appealed = c.appealed /\ d.appealEvaluated = c.appealEvaluated
                /\ d.evaluateTask = c.evaluateTask
           /\ LET d == [c EXCEPT !.appealed = TRUE, !.reevaluateTask = m] IN
                /\ d.exists = c.exists /\ d.run = c.run /\ d.agent = c.agent
                /\ d.initialEvaluated = c.initialEvaluated
                /\ d.appealed = TRUE /\ d.appealEvaluated = c.appealEvaluated
                /\ d.evaluateTask = c.evaluateTask
           /\ LET d == [c EXCEPT !.appealEvaluated = TRUE, !.finalScore = m,
                                 !.appealReply = reply] IN
                /\ d.exists = c.exists /\ d.run = c.run /\ d.agent = c.agent
                /\ d.initialEvaluated = c.initialEvaluated
                /\ d.appealed = c.appealed /\ d.appealEvaluated = TRUE
                /\ d.evaluateTask = c.evaluateTask
BY DEF Contribution

\* Every step keeps contributions and evaluation replies in their rounds.
LEMMA LinksStep ==
    ASSUME TypeOK, Links, [Next]_vars
    PROVE  Links'
<1> DEFINE Kept(k) == contributions'[k] = contributions[k]
           NoEvaluation == \A reply \in replies' \ replies : reply.action \notin Evaluations
<1>a. \A k \in SourceKeys : contributions[k] \in Contribution
  BY PartTypes
<1>b. ASSUME NoEvaluation, \A k \in SourceKeys : Kept(k) PROVE Links'
  BY <1>b, LinksPreserved DEF Links
<1>1. ASSUME NEW r \in Rounds, NEW k \in SourceKeys, NEW a \in Agents,
             NEW reviewed \in SourceKeys \cup {NoKey}, NEW s \in Wallets,
             SubmitContribution(r, k, a, reviewed, s)
      PROVE  Links'
  <2>1. NoEvaluation
    BY <1>1 DEF SubmitContribution, AnchorProven, Reply, Evaluations
  <2>2. ~contributions[k].exists
    BY <1>1 DEF SubmitContribution, ValidContribution
  <2>3. contributions'[k] = NewContribution(TRUE, r, a, reviewed, NextTask(r))
    BY <1>1 DEF SubmitContribution, TypeOK
  <2>4. \A j \in SourceKeys \ {k} : Kept(j)
    BY <1>1 DEF SubmitContribution, TypeOK
  <2> QED
    BY <2>1, <2>2, <2>3, <2>4, LinksPreserved DEF NewContribution, Links
<1>2. ASSUME NEW k \in SourceKeys, NEW s \in Wallets, AppendSupportingMaterial(k, s)
      PROVE  Links'
  <2>1. NoEvaluation
    BY <1>2 DEF AppendSupportingMaterial, AnchorProven, Reply, Evaluations
  <2>2. contributions'[k] = [contributions[k] EXCEPT
                               !.materials = contributions[k].materials + 1,
                               !.evaluateTask = NextTask(contributions[k].run)]
    BY <1>2 DEF AppendSupportingMaterial, TypeOK
  <2>3. \A j \in SourceKeys \ {k} : Kept(j)
    BY <1>2 DEF AppendSupportingMaterial, TypeOK
  <2>5. /\ contributions'[k].exists = contributions[k].exists
        /\ contributions'[k].run = contributions[k].run
        /\ contributions'[k].initialEvaluated = contributions[k].initialEvaluated
        /\ contributions'[k].appealed = contributions[k].appealed
        /\ contributions'[k].appealEvaluated = contributions[k].appealEvaluated
    BY <2>2, <1>a, ContributionFields
  <2> QED
    BY <2>1, <2>3, <2>5, LinksPreserved DEF Links
<1>3. ASSUME NEW k \in SourceKeys, NEW score \in Scores, SubmitInitialEvaluation(k, score)
      PROVE  Links'
  <2>1. \A j \in SourceKeys : Kept(j)
    BY <1>3 DEF SubmitInitialEvaluation
  <2>2. \A reply \in replies' \ replies :
           reply.contribution = k /\ reply.run = contributions[k].run
    BY <1>3 DEF SubmitInitialEvaluation, AnchorUnproven, Reply
  <2>3. contributions[k].exists
    BY <1>3 DEF SubmitInitialEvaluation
  <2> QED
    BY <2>1, <2>2, <2>3, LinksPreserved DEF Links
<1>4. ASSUME NEW k \in SourceKeys, NEW score \in Scores, SubmitAppealEvaluation(k, score)
      PROVE  Links'
  <2>1. \A j \in SourceKeys : Kept(j)
    BY <1>4 DEF SubmitAppealEvaluation
  <2>2. \A reply \in replies' \ replies :
           reply.contribution = k /\ reply.run = contributions[k].run
    BY <1>4 DEF SubmitAppealEvaluation, AnchorUnproven, Reply
  <2>3. contributions[k].exists
    BY <1>4 DEF SubmitAppealEvaluation, Links
  <2> QED
    BY <2>1, <2>2, <2>3, LinksPreserved DEF Links
<1>5. ASSUME NEW k \in SourceKeys, NEW s \in Wallets, SubmitAppeal(k, s)
      PROVE  Links'
  <2>1. NoEvaluation
    BY <1>5 DEF SubmitAppeal, AnchorProven, Reply, Evaluations
  <2>2. contributions'[k] = [contributions[k] EXCEPT
                               !.appealed = TRUE,
                               !.reevaluateTask = NextTask(contributions[k].run)]
    BY <1>5 DEF SubmitAppeal, TypeOK
  <2>3. \A j \in SourceKeys \ {k} : Kept(j)
    BY <1>5 DEF SubmitAppeal, TypeOK
  <2>4. contributions[k].exists /\ contributions[k].initialEvaluated
    BY <1>5 DEF SubmitAppeal, Appealable
  <2>5. /\ contributions'[k].exists = contributions[k].exists
        /\ contributions'[k].run = contributions[k].run
        /\ contributions'[k].initialEvaluated = contributions[k].initialEvaluated
        /\ contributions'[k].appealed = TRUE
        /\ contributions'[k].appealEvaluated = contributions[k].appealEvaluated
    BY <2>1, <2>2, <1>a, ContributionFields
  <2> QED
    BY <2>1, <2>3, <2>4, <2>5, LinksPreserved DEF Links
<1>6. ASSUME NEW reply \in replies, ProveInitialEvaluation(reply)
      PROVE  Links'
  <2> DEFINE k == reply.contribution
  <2>1. k \in SourceKeys /\ contributions[k].exists
    BY <1>6, EvaluationReplyTypes DEF ProveInitialEvaluation, Unproven, Evaluations
  <2>2. contributions'[k] = [contributions[k] EXCEPT
                               !.initialEvaluated = TRUE, !.initialScore = reply.score,
                               !.finalScore = reply.score, !.initialReply = reply]
    BY <1>6, <2>1 DEF ProveInitialEvaluation, TypeOK
  <2>3. \A j \in SourceKeys \ {k} : Kept(j)
    BY <1>6 DEF ProveInitialEvaluation, TypeOK
  <2>4. replies' = replies
    BY <1>6 DEF ProveInitialEvaluation
  <2>5. /\ contributions'[k].exists = contributions[k].exists
        /\ contributions'[k].run = contributions[k].run
        /\ contributions'[k].initialEvaluated = TRUE
        /\ contributions'[k].appealed = contributions[k].appealed
        /\ contributions'[k].appealEvaluated = contributions[k].appealEvaluated
    <3>1. contributions[k] \in Contribution
      BY <2>1, <1>a
    <3> QED
      BY <2>2, <3>1 DEF Contribution
  <2> QED
    BY <2>1, <2>3, <2>4, <2>5, LinksPreserved DEF Links
<1>7. ASSUME NEW reply \in replies, ProveAppealEvaluation(reply)
      PROVE  Links'
  <2> DEFINE k == reply.contribution
  <2>1. k \in SourceKeys /\ contributions[k].exists
    BY <1>7, EvaluationReplyTypes DEF ProveAppealEvaluation, Unproven, Evaluations
  <2>2. contributions'[k] = [contributions[k] EXCEPT
                               !.appealEvaluated = TRUE, !.finalScore = reply.score,
                               !.appealReply = reply]
    BY <1>7, <2>1 DEF ProveAppealEvaluation, TypeOK
  <2>3. \A j \in SourceKeys \ {k} : Kept(j)
    BY <1>7 DEF ProveAppealEvaluation, TypeOK
  <2>4. replies' = replies /\ contributions[k].appealed
    BY <1>7 DEF ProveAppealEvaluation, AcceptsReevaluation
  <2>5. /\ contributions'[k].exists = contributions[k].exists
        /\ contributions'[k].run = contributions[k].run
        /\ contributions'[k].initialEvaluated = contributions[k].initialEvaluated
        /\ contributions'[k].appealed = contributions[k].appealed
        /\ contributions'[k].appealEvaluated = TRUE
    <3>1. contributions[k] \in Contribution
      BY <2>1, <1>a
    <3> QED
      BY <2>2, <3>1 DEF Contribution
  <2> QED
    BY <2>1, <2>3, <2>4, <2>5, LinksPreserved DEF Links
<1>8. ASSUME NEW r \in Rounds,
             \/ CloseCollection(r) \/ OpenAppealPhase(r) \/ SubmitRoundSummary(r)
             \/ SettleRound(r) \/ PrepareOpenAppeal(r) \/ PrepareRoundSummary(r)
      PROVE  Links'
  <2>1. \A k \in SourceKeys : Kept(k)
    BY <1>8 DEF CloseCollection, OpenAppealPhase, SubmitRoundSummary, SettleRound,
                PrepareOpenAppeal, PrepareRoundSummary
  <2>2. NoEvaluation
    BY <1>8 DEF CloseCollection, OpenAppealPhase, SubmitRoundSummary, SettleRound,
                PrepareOpenAppeal, PrepareRoundSummary, AnchorProven, Reply, Evaluations
  <2> QED
    BY <1>b, <2>1, <2>2
<1>9. ASSUME \/ Run \/ Tick \/ \E a \in Agents, w \in Addresses : SetWallet(a, w)
             \/ UNCHANGED vars
      PROVE  Links'
  BY <1>9, <1>b DEF Run, Tick, SetWallet, vars
<1> QED
  BY <1>1, <1>2, <1>3, <1>4, <1>5, <1>6, <1>7, <1>8, <1>9 DEF Next, OnAgentReply, OnAgentProve

\* Every step keeps the state well typed.
LEMMA TypeStep ==
    ASSUME TypeOK, Links, [Next]_vars
    PROVE  TypeOK'
<1>1. ASSUME UNCHANGED vars PROVE TypeOK'
  BY <1>1 DEF TypeOK, vars
<1> QED
  BY <1>1, RunType, SubmitContributionType, AppendSupportingMaterialType,
     SubmitInitialEvaluationType, SubmitAppealType, SubmitAppealEvaluationType,
     CloseCollectionType, OpenAppealPhaseType, SubmitRoundSummaryType, SettleRoundType,
     ProveInitialEvaluationType, ProveAppealEvaluationType, PrepareOpenAppealType,
     PrepareRoundSummaryType, EnvironmentType
  DEF Next, OnAgentReply, OnAgentProve

\* Every reachable state is well typed, whatever the interleaving: no counter
\* goes below zero, no settlement pays the null address, no reply names a
\* task that does not exist.
THEOREM TypeCorrect == Spec => []TypeOK
<1>1. Init => TypeOK /\ Links
  BY InitType, ConstantsAssumption DEF Init, Links, NewContribution
<1>2. TypeOK /\ Links /\ [Next]_vars => (TypeOK /\ Links)'
  BY TypeStep, LinksStep
<1> QED
  BY <1>1, <1>2, PTL DEF Spec

-----------------------------------------------------------------------------
(* What the settlement rests on                                            *)

Evaluated(r) == {k \in ContributionsOf(r) : contributions[k].initialEvaluated}
Pending(r) == {k \in ContributionsOf(r) :
                 contributions[k].appealed /\ ~contributions[k].appealEvaluated}

\* A contribution as far as the counters and the transitions see it.
SameContribution(k) ==
    /\ contributions'[k].exists = contributions[k].exists
    /\ contributions'[k].run = contributions[k].run
    /\ contributions'[k].initialEvaluated = contributions[k].initialEvaluated
    /\ contributions'[k].appealed = contributions[k].appealed
    /\ contributions'[k].appealEvaluated = contributions[k].appealEvaluated

SameCounts(r) ==
    /\ rounds'[r].contributionCount = rounds[r].contributionCount
    /\ rounds'[r].initialEvaluatedCount = rounds[r].initialEvaluatedCount
    /\ rounds'[r].pendingAppealEvaluationCount = rounds[r].pendingAppealEvaluationCount

\* Rounds beyond the current one are untouched, and hold no contribution.
RoundsInOrder ==
    /\ \A r \in Rounds : r > currentRound => rounds[r].phase = "None"
    /\ \A k \in SourceKeys : contributions[k].exists => contributions[k].run <= currentRound

-----------------------------------------------------------------------------
(* The effect of each operation that changes contributions or counters     *)

\* A contribution is new, joins an open round and is counted once.
LEMMA SubmitContributionEffect ==
    ASSUME TypeOK, NEW r \in Rounds, NEW k \in SourceKeys, NEW a \in Agents,
           NEW reviewed \in SourceKeys \cup {NoKey}, NEW s \in Wallets,
           SubmitContribution(r, k, a, reviewed, s)
    PROVE  /\ \A j \in SourceKeys \ {k} : SameContribution(j)
           /\ ~contributions[k].exists
           /\ contributions'[k].exists /\ contributions'[k].run = r
           /\ ~contributions'[k].initialEvaluated /\ ~contributions'[k].appealed
           /\ ~contributions'[k].appealEvaluated
           /\ rounds[r].phase = "Open"
           /\ \A q \in Rounds \ {r} : rounds'[q] = rounds[q]
           /\ rounds' = [rounds EXCEPT ![r] = [rounds[r] EXCEPT
                           !.contributionCount = rounds[r].contributionCount + 1]]
<1>1. contributions'[k] = NewContribution(TRUE, r, a, reviewed, NextTask(r))
  BY DEF SubmitContribution, TypeOK
<1>2. \A j \in SourceKeys \ {k} : contributions'[j] = contributions[j]
  BY DEF SubmitContribution, TypeOK
<1>3. /\ contributions'[k].exists /\ contributions'[k].run = r
      /\ ~contributions'[k].initialEvaluated /\ ~contributions'[k].appealed
      /\ ~contributions'[k].appealEvaluated
  BY <1>1 DEF NewContribution
<1>4. ~contributions[k].exists /\ rounds[r].phase = "Open"
  BY DEF SubmitContribution, ValidContribution
<1>5. /\ \A q \in Rounds \ {r} : rounds'[q] = rounds[q]
      /\ rounds' = [rounds EXCEPT ![r] = [rounds[r] EXCEPT
                      !.contributionCount = rounds[r].contributionCount + 1]]
  BY DEF SubmitContribution, TypeOK
<1>6. \A j \in SourceKeys \ {k} : SameContribution(j)
  BY <1>2 DEF SameContribution
<1> QED
  BY <1>3, <1>4, <1>5, <1>6

\* Material changes no counter, and only while the round is open.
LEMMA AppendSupportingMaterialEffect ==
    ASSUME TypeOK, NEW k \in SourceKeys, NEW s \in Wallets, AppendSupportingMaterial(k, s)
    PROVE  /\ \A j \in SourceKeys : SameContribution(j)
           /\ \A j \in SourceKeys \ {k} : contributions'[j] = contributions[j]
           /\ rounds' = rounds
           /\ rounds[contributions[k].run].phase = "Open"
<1>1. contributions[k] \in Contribution
  BY PartTypes
<1>2. contributions'[k] = [contributions[k] EXCEPT
                             !.materials = contributions[k].materials + 1,
                             !.evaluateTask = NextTask(contributions[k].run)]
  BY DEF AppendSupportingMaterial, TypeOK
<1>3. \A j \in SourceKeys \ {k} : contributions'[j] = contributions[j]
  BY DEF AppendSupportingMaterial, TypeOK
<1>4. SameContribution(k)
  BY <1>1, <1>2, ContributionFields DEF SameContribution
<1>5. \A j \in SourceKeys : SameContribution(j)
  BY <1>3, <1>4 DEF SameContribution
<1> QED
  BY <1>3, <1>5 DEF AppendSupportingMaterial, TakesMaterial

\* An appeal makes one reevaluation outstanding, before the deadline.
LEMMA SubmitAppealEffect ==
    ASSUME TypeOK, Links, NEW k \in SourceKeys, NEW s \in Wallets, SubmitAppeal(k, s)
    PROVE  LET r == contributions[k].run IN
           /\ r \in Rounds /\ contributions[k].exists
           /\ \A j \in SourceKeys \ {k} : contributions'[j] = contributions[j]
           /\ contributions'[k].exists /\ contributions'[k].run = r
           /\ contributions[k].initialEvaluated /\ contributions'[k].initialEvaluated
           /\ ~contributions[k].appealed /\ contributions'[k].appealed
           /\ ~contributions[k].appealEvaluated /\ ~contributions'[k].appealEvaluated
           /\ rounds[r].phase = "Appealing" /\ now <= rounds[r].appealDeadline
           /\ rounds' = [rounds EXCEPT ![r] = [rounds[r] EXCEPT
                           !.pendingAppealEvaluationCount =
                               rounds[r].pendingAppealEvaluationCount + 1]]
<1> DEFINE r == contributions[k].run
<1>1. contributions[k] \in Contribution
  BY PartTypes
<1>2. contributions'[k] = [contributions[k] EXCEPT
                             !.appealed = TRUE,
                             !.reevaluateTask = NextTask(contributions[k].run)]
  BY DEF SubmitAppeal, TypeOK
<1>3. \A j \in SourceKeys \ {k} : contributions'[j] = contributions[j]
  BY DEF SubmitAppeal, TypeOK
<1>4. /\ contributions[k].exists /\ contributions[k].initialEvaluated
      /\ ~contributions[k].appealed
      /\ rounds[r].phase = "Appealing" /\ now <= rounds[r].appealDeadline
  BY DEF SubmitAppeal, Appealable
<1>5. r \in Rounds /\ ~contributions[k].appealEvaluated
  BY <1>4 DEF Links
<1>6. /\ contributions'[k].exists = contributions[k].exists /\ contributions'[k].run = r
      /\ contributions'[k].initialEvaluated = contributions[k].initialEvaluated
      /\ contributions'[k].appealed = TRUE
      /\ contributions'[k].appealEvaluated = contributions[k].appealEvaluated
  BY <1>1, <1>2 DEF Contribution
<1>7. rounds' = [rounds EXCEPT ![r] = [rounds[r] EXCEPT
                   !.pendingAppealEvaluationCount = rounds[r].pendingAppealEvaluationCount + 1]]
  BY DEF SubmitAppeal
<1> QED
  BY <1>3, <1>4, <1>5, <1>6, <1>7

\* An accepted initial evaluation evaluates one contribution, within the cap.
LEMMA ProveInitialEvaluationEffect ==
    ASSUME TypeOK, Links, NEW reply \in replies, ProveInitialEvaluation(reply)
    PROVE  LET k == reply.contribution
               r == reply.run IN
           /\ r \in Rounds /\ k \in SourceKeys /\ reply.score \in Nat
           /\ contributions[k].exists /\ contributions[k].run = r
           /\ \A j \in SourceKeys \ {k} : contributions'[j] = contributions[j]
           /\ contributions'[k].exists /\ contributions'[k].run = r
           /\ ~contributions[k].initialEvaluated /\ contributions'[k].initialEvaluated
           /\ ~contributions[k].appealed /\ ~contributions'[k].appealed
           /\ ~contributions'[k].appealEvaluated
           /\ rounds[r].totalFinalScore + reply.score <= RoundPointCap
           /\ rounds' = [rounds EXCEPT ![r] = [rounds[r] EXCEPT
                           !.initialEvaluatedCount = rounds[r].initialEvaluatedCount + 1,
                           !.totalFinalScore = rounds[r].totalFinalScore + reply.score]]
<1> DEFINE k == reply.contribution
           r == reply.run
<1>1. /\ r \in Rounds /\ k \in SourceKeys /\ reply.score \in Nat
      /\ contributions[k].exists /\ contributions[k].run = r
  BY EvaluationReplyTypes DEF ProveInitialEvaluation, Unproven, Evaluations
<1>2. contributions[k] \in Contribution
  BY <1>1, PartTypes
<1>3. contributions'[k] = [contributions[k] EXCEPT
                             !.initialEvaluated = TRUE, !.initialScore = reply.score,
                             !.finalScore = reply.score, !.initialReply = reply]
  BY <1>1 DEF ProveInitialEvaluation, TypeOK
<1>4. \A j \in SourceKeys \ {k} : contributions'[j] = contributions[j]
  BY DEF ProveInitialEvaluation, TypeOK
<1>5. /\ contributions'[k].exists = contributions[k].exists
      /\ contributions'[k].run = contributions[k].run
      /\ contributions'[k].initialEvaluated = TRUE
      /\ contributions'[k].appealed = contributions[k].appealed
      /\ contributions'[k].appealEvaluated = contributions[k].appealEvaluated
  BY <1>2, <1>3 DEF Contribution
<1>6. ~contributions[k].initialEvaluated
  BY DEF ProveInitialEvaluation, AcceptsInitial
<1>7. ~contributions[k].appealed /\ ~contributions[k].appealEvaluated
  BY <1>1, <1>6 DEF Links
<1>8. /\ rounds[r].totalFinalScore + reply.score <= RoundPointCap
      /\ rounds' = [rounds EXCEPT ![r] = [rounds[r] EXCEPT
                      !.initialEvaluatedCount = rounds[r].initialEvaluatedCount + 1,
                      !.totalFinalScore = rounds[r].totalFinalScore + reply.score]]
  BY DEF ProveInitialEvaluation, WithinCap
<1> QED
  BY <1>1, <1>4, <1>5, <1>6, <1>7, <1>8

\* An accepted reevaluation ends one outstanding appeal, within the cap.
LEMMA ProveAppealEvaluationEffect ==
    ASSUME TypeOK, Links, NEW reply \in replies, ProveAppealEvaluation(reply)
    PROVE  LET k == reply.contribution
               r == reply.run
               total == rounds[r].totalFinalScore - contributions[k].finalScore + reply.score IN
           /\ r \in Rounds /\ k \in SourceKeys /\ reply.score \in Nat
           /\ contributions[k].exists /\ contributions[k].run = r
           /\ \A j \in SourceKeys \ {k} : contributions'[j] = contributions[j]
           /\ contributions'[k].exists /\ contributions'[k].run = r
           /\ contributions[k].initialEvaluated /\ contributions'[k].initialEvaluated
           /\ contributions[k].appealed /\ contributions'[k].appealed
           /\ ~contributions[k].appealEvaluated /\ contributions'[k].appealEvaluated
           /\ total <= RoundPointCap
           /\ rounds' = [rounds EXCEPT ![r] = [rounds[r] EXCEPT
                           !.totalFinalScore = total,
                           !.pendingAppealEvaluationCount =
                               rounds[r].pendingAppealEvaluationCount - 1]]
<1> DEFINE k == reply.contribution
           r == reply.run
           total == rounds[r].totalFinalScore - contributions[k].finalScore + reply.score
<1>1. /\ r \in Rounds /\ k \in SourceKeys /\ reply.score \in Nat
      /\ contributions[k].exists /\ contributions[k].run = r
  BY EvaluationReplyTypes DEF ProveAppealEvaluation, Unproven, Evaluations
<1>2. contributions[k] \in Contribution
  BY <1>1, PartTypes
<1>3. contributions'[k] = [contributions[k] EXCEPT
                             !.appealEvaluated = TRUE, !.finalScore = reply.score,
                             !.appealReply = reply]
  BY <1>1 DEF ProveAppealEvaluation, TypeOK
<1>4. \A j \in SourceKeys \ {k} : contributions'[j] = contributions[j]
  BY DEF ProveAppealEvaluation, TypeOK
<1>5. /\ contributions'[k].exists = contributions[k].exists
      /\ contributions'[k].run = contributions[k].run
      /\ contributions'[k].initialEvaluated = contributions[k].initialEvaluated
      /\ contributions'[k].appealed = contributions[k].appealed
      /\ contributions'[k].appealEvaluated = TRUE
  BY <1>2, <1>3 DEF Contribution
<1>6. contributions[k].appealed /\ ~contributions[k].appealEvaluated
  BY DEF ProveAppealEvaluation, AcceptsReevaluation
<1>7. contributions[k].initialEvaluated
  BY <1>1, <1>6 DEF Links
<1>8. /\ total <= RoundPointCap
      /\ rounds' = [rounds EXCEPT ![r] = [rounds[r] EXCEPT
                      !.totalFinalScore = total,
                      !.pendingAppealEvaluationCount =
                          rounds[r].pendingAppealEvaluationCount - 1]]
  BY DEF ProveAppealEvaluation, WithinCap
<1> QED
  BY <1>1, <1>4, <1>5, <1>6, <1>7, <1>8

\* The transitions of a round leave its counters alone.
LEMMA OtherTransitionsEffect ==
    ASSUME TypeOK, NEW r \in Rounds,
           \/ CloseCollection(r) \/ OpenAppealPhase(r) \/ SubmitRoundSummary(r)
           \/ SettleRound(r) \/ PrepareOpenAppeal(r) \/ PrepareRoundSummary(r)
    PROVE  SameCounts(r) /\ rounds'[r].totalFinalScore = rounds[r].totalFinalScore
<1>a. rounds[r] \in Round /\ rounds \in [Rounds -> Round]
  BY DEF TypeOK
<1> USE <1>a DEF SameCounts, Round
<1>1. CASE CloseCollection(r)
  BY <1>1 DEF CloseCollection
<1>2. CASE OpenAppealPhase(r)
  BY <1>2 DEF OpenAppealPhase
<1>3. CASE SubmitRoundSummary(r)
  BY <1>3 DEF SubmitRoundSummary
<1>4. CASE SettleRound(r)
  BY <1>4 DEF SettleRound
<1>5. CASE PrepareOpenAppeal(r)
  BY <1>5 DEF PrepareOpenAppeal
<1>6. CASE PrepareRoundSummary(r)
  BY <1>6 DEF PrepareRoundSummary
<1> QED
  BY <1>1, <1>2, <1>3, <1>4, <1>5, <1>6

-----------------------------------------------------------------------------
(* The sets that are counted                                               *)

\* The counted sets are finite: the source keys are.
LEMMA SetsFinite ==
    ASSUME NEW r \in Rounds
    PROVE  IsFiniteSet(ContributionsOf(r)) /\ IsFiniteSet(Evaluated(r)) /\ IsFiniteSet(Pending(r))
<1>1. /\ ContributionsOf(r) \in SUBSET SourceKeys
      /\ Evaluated(r) \in SUBSET SourceKeys /\ Pending(r) \in SUBSET SourceKeys
  BY DEF ContributionsOf, Evaluated, Pending
<1> QED
  BY <1>1, FS_Subset, ConstantsAssumption

\* The counted sets change only when a contribution does.
LEMMA SetsUnchanged ==
    ASSUME \A k \in SourceKeys : SameContribution(k), NEW r \in Rounds
    PROVE  /\ ContributionsOf(r)' = ContributionsOf(r)
           /\ Evaluated(r)' = Evaluated(r) /\ Pending(r)' = Pending(r)
BY DEF SameContribution, ContributionsOf, Evaluated, Pending

\* When one contribution k of round r changes, or joins r, only r's sets
\* change, and only at k.
LEMMA SetsAfterOne ==
    ASSUME NEW k \in SourceKeys, NEW r \in Rounds,
           \A j \in SourceKeys \ {k} : SameContribution(j),
           contributions'[k].exists, contributions'[k].run = r,
           contributions[k].exists => contributions[k].run = r
    PROVE  /\ \A q \in Rounds \ {r} : /\ ContributionsOf(q)' = ContributionsOf(q)
                                      /\ Evaluated(q)' = Evaluated(q)
                                      /\ Pending(q)' = Pending(q)
           /\ ContributionsOf(r)' = ContributionsOf(r) \cup {k}
           /\ Evaluated(r)' = IF contributions'[k].initialEvaluated
                              THEN Evaluated(r) \cup {k} ELSE Evaluated(r) \ {k}
           /\ Pending(r)' = IF contributions'[k].appealed /\ ~contributions'[k].appealEvaluated
                            THEN Pending(r) \cup {k} ELSE Pending(r) \ {k}
<1>1. \A q \in Rounds \ {r} : /\ ContributionsOf(q)' = ContributionsOf(q)
                              /\ Evaluated(q)' = Evaluated(q)
                              /\ Pending(q)' = Pending(q)
  BY DEF SameContribution, ContributionsOf, Evaluated, Pending
<1>2. ContributionsOf(r)' = ContributionsOf(r) \cup {k}
  BY DEF SameContribution, ContributionsOf
<1>3. Evaluated(r)' = IF contributions'[k].initialEvaluated
                      THEN Evaluated(r) \cup {k} ELSE Evaluated(r) \ {k}
  BY DEF SameContribution, ContributionsOf, Evaluated
<1>4. Pending(r)' = IF contributions'[k].appealed /\ ~contributions'[k].appealEvaluated
                    THEN Pending(r) \cup {k} ELSE Pending(r) \ {k}
  BY DEF SameContribution, ContributionsOf, Pending
<1> QED
  BY <1>1, <1>2, <1>3, <1>4

\* CountsAgree, round by round, with the sets named.
CountsOf(r) ==
    /\ rounds[r].contributionCount = Cardinality(ContributionsOf(r))
    /\ rounds[r].initialEvaluatedCount = Cardinality(Evaluated(r))
    /\ rounds[r].pendingAppealEvaluationCount = Cardinality(Pending(r))

\* CountsAgree, with the counted sets named.
LEMMA CountsAgreeByRound == CountsAgree <=> \A r \in Rounds : CountsOf(r)
BY DEF CountsAgree, CountsOf, Evaluated, Pending

\* A step that changes neither the sets nor the counters keeps them agreeing.
LEMMA CountsUnchanged ==
    ASSUME CountsAgree, \A k \in SourceKeys : SameContribution(k), \A r \in Rounds : SameCounts(r)
    PROVE  CountsAgree'
<1>1. ASSUME NEW r \in Rounds PROVE CountsOf(r)'
  <2>1. CountsOf(r)
    BY CountsAgreeByRound
  <2>2. /\ ContributionsOf(r)' = ContributionsOf(r)
        /\ Evaluated(r)' = Evaluated(r) /\ Pending(r)' = Pending(r)
    BY SetsUnchanged
  <2> QED
    BY <2>1, <2>2 DEF CountsOf, SameCounts
<1>2. (\A r \in Rounds : CountsOf(r))' => CountsAgree'
  BY DEF CountsAgree, CountsOf, Evaluated, Pending
<1> QED
  BY <1>1, <1>2

-----------------------------------------------------------------------------
(* The counters count what they say                                        *)

CountInv == TypeOK /\ Links /\ RoundsInOrder /\ CountsAgree

\* Every step moves a counter exactly when it moves the set it counts.
LEMMA CountsStep ==
    ASSUME CountInv, [Next]_vars
    PROVE  CountsAgree'
<1> USE DEF CountInv
<1>a. \A r \in Rounds : rounds[r] \in Round
  BY PartTypes
<1>b. (\A r \in Rounds : CountsOf(r))' => CountsAgree'
  BY DEF CountsAgree, CountsOf, Evaluated, Pending
<1>c. \A r \in Rounds : CountsOf(r)
  BY CountsAgreeByRound
<1>1. ASSUME NEW r \in Rounds, NEW k \in SourceKeys, NEW a \in Agents,
             NEW reviewed \in SourceKeys \cup {NoKey}, NEW s \in Wallets,
             SubmitContribution(r, k, a, reviewed, s)
      PROVE  CountsAgree'
  <2>1. /\ ContributionsOf(r)' = ContributionsOf(r) \cup {k}
        /\ Evaluated(r)' = Evaluated(r) \ {k} /\ Pending(r)' = Pending(r) \ {k}
        /\ \A q \in Rounds \ {r} : /\ ContributionsOf(q)' = ContributionsOf(q)
                                   /\ Evaluated(q)' = Evaluated(q)
                                   /\ Pending(q)' = Pending(q)
    BY <1>1, SubmitContributionEffect, SetsAfterOne
  <2>2. k \notin ContributionsOf(r) /\ k \notin Evaluated(r) /\ k \notin Pending(r)
    BY <1>1, SubmitContributionEffect DEF ContributionsOf, Evaluated, Pending
  <2>3. Cardinality(ContributionsOf(r)') = Cardinality(ContributionsOf(r)) + 1
    BY <2>1, <2>2, SetsFinite, FS_AddElement
  <2>4. Evaluated(r)' = Evaluated(r) /\ Pending(r)' = Pending(r)
    BY <2>1, <2>2
  <2>5. /\ rounds'[r].contributionCount = rounds[r].contributionCount + 1
        /\ rounds'[r].initialEvaluatedCount = rounds[r].initialEvaluatedCount
        /\ rounds'[r].pendingAppealEvaluationCount = rounds[r].pendingAppealEvaluationCount
        /\ \A q \in Rounds \ {r} : rounds'[q] = rounds[q]
    <3>1. rounds' = [rounds EXCEPT ![r] = [rounds[r] EXCEPT
                       !.contributionCount = rounds[r].contributionCount + 1]]
      BY <1>1, SubmitContributionEffect
    <3> QED
      BY <3>1, <1>a DEF Round, TypeOK
  <2>6. CountsOf(r)'
    BY <1>c, <2>3, <2>4, <2>5 DEF CountsOf
  <2>7. \A q \in Rounds \ {r} : CountsOf(q)'
    BY <1>c, <2>1, <2>5 DEF CountsOf
  <2> QED
    BY <1>b, <2>6, <2>7
<1>2. ASSUME NEW reply \in replies, ProveInitialEvaluation(reply)
      PROVE  CountsAgree'
  <2> DEFINE k == reply.contribution
             r == reply.run
  <2>1. /\ r \in Rounds /\ k \in SourceKeys /\ reply.score \in Nat
        /\ contributions[k].exists /\ contributions[k].run = r
        /\ \A j \in SourceKeys \ {k} : SameContribution(j)
        /\ contributions'[k].exists /\ contributions'[k].run = r
        /\ ~contributions[k].initialEvaluated /\ contributions'[k].initialEvaluated
        /\ ~contributions[k].appealed /\ ~contributions'[k].appealed
    BY <1>2, ProveInitialEvaluationEffect DEF SameContribution
  <2>2. /\ ContributionsOf(r)' = ContributionsOf(r) \cup {k}
        /\ Evaluated(r)' = Evaluated(r) \cup {k} /\ Pending(r)' = Pending(r) \ {k}
        /\ \A q \in Rounds \ {r} : /\ ContributionsOf(q)' = ContributionsOf(q)
                                   /\ Evaluated(q)' = Evaluated(q)
                                   /\ Pending(q)' = Pending(q)
    BY <2>1, SetsAfterOne
  <2>3. k \in ContributionsOf(r) /\ k \notin Evaluated(r) /\ k \notin Pending(r)
    BY <2>1 DEF ContributionsOf, Evaluated, Pending
  <2>4. Cardinality(Evaluated(r)') = Cardinality(Evaluated(r)) + 1
    <3>1. IsFiniteSet(Evaluated(r))
      BY <2>1, SetsFinite
    <3>2. Cardinality(Evaluated(r) \cup {k}) = Cardinality(Evaluated(r)) + 1
      BY <3>1, <2>3, FS_AddElement
    <3> QED
      BY <2>2, <3>2
  <2>5. ContributionsOf(r)' = ContributionsOf(r) /\ Pending(r)' = Pending(r)
    BY <2>2, <2>3
  <2>6. rounds' = [rounds EXCEPT ![r] = [rounds[r] EXCEPT
                     !.initialEvaluatedCount = rounds[r].initialEvaluatedCount + 1,
                     !.totalFinalScore = rounds[r].totalFinalScore + reply.score]]
    BY <1>2, ProveInitialEvaluationEffect
  <2>7. /\ rounds'[r].contributionCount = rounds[r].contributionCount
        /\ rounds'[r].initialEvaluatedCount = rounds[r].initialEvaluatedCount + 1
        /\ rounds'[r].pendingAppealEvaluationCount = rounds[r].pendingAppealEvaluationCount
        /\ \A q \in Rounds \ {r} : rounds'[q] = rounds[q]
    BY <2>1, <2>6, <1>a DEF Round, TypeOK
  <2>8. CountsOf(r)'
    BY <1>c, <2>1, <2>4, <2>5, <2>7 DEF CountsOf
  <2>9. \A q \in Rounds \ {r} : CountsOf(q)'
    BY <1>c, <2>2, <2>7 DEF CountsOf
  <2> QED
    BY <1>b, <2>8, <2>9
<1>3. ASSUME NEW k \in SourceKeys, NEW s \in Wallets, SubmitAppeal(k, s)
      PROVE  CountsAgree'
  <2>r. PICK r \in Rounds : r = contributions[k].run
    BY <1>3, SubmitAppealEffect
  <2>1. /\ r \in Rounds /\ contributions[k].exists /\ contributions[k].run = r
        /\ \A j \in SourceKeys \ {k} : SameContribution(j)
        /\ contributions'[k].exists /\ contributions'[k].run = r
        /\ contributions[k].initialEvaluated /\ contributions'[k].initialEvaluated
        /\ ~contributions[k].appealed /\ contributions'[k].appealed
        /\ ~contributions'[k].appealEvaluated
    BY <1>3, <2>r, SubmitAppealEffect DEF SameContribution
  <2>2. /\ ContributionsOf(r)' = ContributionsOf(r) \cup {k}
        /\ Evaluated(r)' = Evaluated(r) \cup {k} /\ Pending(r)' = Pending(r) \cup {k}
        /\ \A q \in Rounds \ {r} : /\ ContributionsOf(q)' = ContributionsOf(q)
                                   /\ Evaluated(q)' = Evaluated(q)
                                   /\ Pending(q)' = Pending(q)
    BY <2>1, SetsAfterOne
  <2>3. k \in ContributionsOf(r) /\ k \in Evaluated(r) /\ k \notin Pending(r)
    BY <2>1 DEF ContributionsOf, Evaluated, Pending
  <2>4. Cardinality(Pending(r)') = Cardinality(Pending(r)) + 1
    <3>1. IsFiniteSet(Pending(r))
      BY <2>1, SetsFinite
    <3>2. Cardinality(Pending(r) \cup {k}) = Cardinality(Pending(r)) + 1
      BY <3>1, <2>3, FS_AddElement
    <3> QED
      BY <2>2, <3>2
  <2>5. ContributionsOf(r)' = ContributionsOf(r) /\ Evaluated(r)' = Evaluated(r)
    BY <2>2, <2>3
  <2>6. rounds' = [rounds EXCEPT ![r] = [rounds[r] EXCEPT
                     !.pendingAppealEvaluationCount =
                         rounds[r].pendingAppealEvaluationCount + 1]]
    BY <1>3, <2>r, SubmitAppealEffect
  <2>7. /\ rounds'[r].contributionCount = rounds[r].contributionCount
        /\ rounds'[r].initialEvaluatedCount = rounds[r].initialEvaluatedCount
        /\ rounds'[r].pendingAppealEvaluationCount = rounds[r].pendingAppealEvaluationCount + 1
        /\ \A q \in Rounds \ {r} : rounds'[q] = rounds[q]
    BY <2>1, <2>6, <1>a DEF Round, TypeOK
  <2>8. CountsOf(r)'
    BY <1>c, <2>1, <2>4, <2>5, <2>7 DEF CountsOf
  <2>9. \A q \in Rounds \ {r} : CountsOf(q)'
    BY <1>c, <2>2, <2>7 DEF CountsOf
  <2> QED
    BY <1>b, <2>8, <2>9
<1>4. ASSUME NEW reply \in replies, ProveAppealEvaluation(reply)
      PROVE  CountsAgree'
  <2> DEFINE k == reply.contribution
             r == reply.run
             total == rounds[r].totalFinalScore - contributions[k].finalScore + reply.score
  <2>1. /\ r \in Rounds /\ k \in SourceKeys
        /\ contributions[k].exists /\ contributions[k].run = r
        /\ \A j \in SourceKeys \ {k} : SameContribution(j)
        /\ contributions'[k].exists /\ contributions'[k].run = r
        /\ contributions[k].initialEvaluated /\ contributions'[k].initialEvaluated
        /\ contributions[k].appealed /\ contributions'[k].appealed
        /\ ~contributions[k].appealEvaluated /\ contributions'[k].appealEvaluated
    BY <1>4, ProveAppealEvaluationEffect DEF SameContribution
  <2>2. /\ ContributionsOf(r)' = ContributionsOf(r) \cup {k}
        /\ Evaluated(r)' = Evaluated(r) \cup {k} /\ Pending(r)' = Pending(r) \ {k}
        /\ \A q \in Rounds \ {r} : /\ ContributionsOf(q)' = ContributionsOf(q)
                                   /\ Evaluated(q)' = Evaluated(q)
                                   /\ Pending(q)' = Pending(q)
    BY <2>1, SetsAfterOne
  <2>3. k \in ContributionsOf(r) /\ k \in Evaluated(r) /\ k \in Pending(r)
    BY <2>1 DEF ContributionsOf, Evaluated, Pending
  <2>4. Cardinality(Pending(r)') = Cardinality(Pending(r)) - 1
    <3>1. IsFiniteSet(Pending(r))
      BY <2>1, SetsFinite
    <3>2. Cardinality(Pending(r) \ {k}) = Cardinality(Pending(r)) - 1
      BY <3>1, <2>3, FS_RemoveElement
    <3> QED
      BY <2>2, <3>2
  <2>5. ContributionsOf(r)' = ContributionsOf(r) /\ Evaluated(r)' = Evaluated(r)
    BY <2>2, <2>3
  <2>6. rounds' = [rounds EXCEPT ![r] = [rounds[r] EXCEPT
                     !.totalFinalScore = total,
                     !.pendingAppealEvaluationCount =
                         rounds[r].pendingAppealEvaluationCount - 1]]
    BY <1>4, ProveAppealEvaluationEffect
  <2>7. /\ rounds'[r].contributionCount = rounds[r].contributionCount
        /\ rounds'[r].initialEvaluatedCount = rounds[r].initialEvaluatedCount
        /\ rounds'[r].pendingAppealEvaluationCount = rounds[r].pendingAppealEvaluationCount - 1
        /\ \A q \in Rounds \ {r} : rounds'[q] = rounds[q]
    BY <2>1, <2>6, <1>a DEF Round, TypeOK
  <2>8. CountsOf(r)'
    BY <1>c, <2>1, <2>4, <2>5, <2>7 DEF CountsOf
  <2>9. \A q \in Rounds \ {r} : CountsOf(q)'
    BY <1>c, <2>2, <2>7 DEF CountsOf
  <2> QED
    BY <1>b, <2>8, <2>9
<1>5. ASSUME Run PROVE CountsAgree'
  <2>r. PICK r \in Rounds : r = currentRound + 1
    BY <1>5 DEF Run
  <2>1. /\ r \in Rounds /\ contributions' = contributions
        /\ rounds' = [rounds EXCEPT ![r] =
                        NewRound("Open", StoredTime(now), StoredTime(now + RoundDuration))]
    BY <1>5, <2>r DEF Run
  <2>2. currentRound \in Nat /\ r > currentRound
    BY <2>r, PartTypes DEF TypeOK
  <2>3. ContributionsOf(r) = {}
    <3>1. \A k \in SourceKeys : contributions[k].exists => contributions[k].run # r
      <4>1. ASSUME NEW k \in SourceKeys, contributions[k].exists
            PROVE  contributions[k].run # r
        <5>1. contributions[k].run <= currentRound
          BY <4>1 DEF RoundsInOrder
        <5>2. contributions[k].run \in Int
          BY PartTypes, ConstantsAssumption DEF Contribution
        <5> QED
          BY <5>1, <5>2, <2>2
      <4> QED
        BY <4>1
    <3> QED
      BY <3>1 DEF ContributionsOf
  <2>4. Evaluated(r) = {} /\ Pending(r) = {}
    BY <2>3 DEF Evaluated, Pending
  <2>5. \A k \in SourceKeys : SameContribution(k)
    BY <2>1 DEF SameContribution
  <2>6. \A q \in Rounds : /\ ContributionsOf(q)' = ContributionsOf(q)
                          /\ Evaluated(q)' = Evaluated(q) /\ Pending(q)' = Pending(q)
    BY <2>5, SetsUnchanged
  <2>7. /\ rounds'[r].contributionCount = 0
        /\ rounds'[r].initialEvaluatedCount = 0
        /\ rounds'[r].pendingAppealEvaluationCount = 0
        /\ \A q \in Rounds \ {r} : rounds'[q] = rounds[q]
    BY <2>1 DEF NewRound, TypeOK
  <2>8. CountsOf(r)'
    BY <2>1, <2>3, <2>4, <2>6, <2>7, FS_EmptySet DEF CountsOf
  <2>9. \A q \in Rounds \ {r} : CountsOf(q)'
    BY <1>c, <2>6, <2>7 DEF CountsOf
  <2> QED
    BY <1>b, <2>8, <2>9
<1>6. ASSUME NEW k \in SourceKeys, NEW s \in Wallets, AppendSupportingMaterial(k, s)
      PROVE  CountsAgree'
  BY <1>6, AppendSupportingMaterialEffect, CountsUnchanged DEF SameCounts
<1>7. ASSUME NEW r \in Rounds,
             \/ CloseCollection(r) \/ OpenAppealPhase(r) \/ SubmitRoundSummary(r)
             \/ SettleRound(r) \/ PrepareOpenAppeal(r) \/ PrepareRoundSummary(r)
      PROVE  CountsAgree'
  <2>1. \A k \in SourceKeys : SameContribution(k)
    BY <1>7 DEF CloseCollection, OpenAppealPhase, SubmitRoundSummary, SettleRound,
                PrepareOpenAppeal, PrepareRoundSummary, SameContribution
  <2>2. \A q \in Rounds \ {r} : rounds'[q] = rounds[q]
    BY <1>7 DEF CloseCollection, OpenAppealPhase, SubmitRoundSummary, SettleRound,
                PrepareOpenAppeal, PrepareRoundSummary, TypeOK
  <2>3. SameCounts(r)
    BY <1>7, OtherTransitionsEffect
  <2> QED
    BY <2>1, <2>2, <2>3, CountsUnchanged DEF SameCounts
<1>8. ASSUME \/ \E k \in SourceKeys, score \in Scores : SubmitInitialEvaluation(k, score)
             \/ \E k \in SourceKeys, score \in Scores : SubmitAppealEvaluation(k, score)
             \/ Tick \/ \E a \in Agents, w \in Addresses : SetWallet(a, w)
             \/ UNCHANGED vars
      PROVE  CountsAgree'
  <2>1. contributions' = contributions /\ rounds' = rounds
    BY <1>8 DEF SubmitInitialEvaluation, SubmitAppealEvaluation, Tick, SetWallet, vars
  <2> QED
    BY <2>1, CountsUnchanged DEF SameContribution, SameCounts
<1> QED
  BY <1>1, <1>2, <1>3, <1>4, <1>5, <1>6, <1>7, <1>8 DEF Next, OnAgentReply, OnAgentProve

-----------------------------------------------------------------------------
(* Rounds open in order, and one at a time                                 *)

\* What any step but run does to the phase of round r.
PhaseMoves(r) ==
    \/ rounds'[r].phase = rounds[r].phase
    \/ /\ rounds[r].phase \in {"Open", "Evaluating", "Appealing"}
       /\ rounds'[r].phase \in {"Evaluating", "Appealing", "Settled"}

\* A contribution stays in its round; a new one joins a round that is open.
RunMoves(k) ==
    contributions'[k].exists =>
        \/ contributions[k].exists /\ contributions'[k].run = contributions[k].run
        \/ /\ contributions'[k].run \in Rounds
           /\ rounds[contributions'[k].run].phase = "Open"

\* A step that is not run moves phases forward only, and leaves the current
\* round and the round of every contribution where they are.
LEMMA MovesStep ==
    ASSUME TypeOK, Links, [Next]_vars, ~Run
    PROVE  /\ currentRound' = currentRound
           /\ \A r \in Rounds : PhaseMoves(r)
           /\ \A k \in SourceKeys : RunMoves(k)
<1>a. \A r \in Rounds : rounds[r] \in Round
  BY PartTypes
<1>b. rounds \in [Rounds -> Round]
  BY DEF TypeOK
<1>1. ASSUME NEW r \in Rounds, NEW k \in SourceKeys, NEW a \in Agents,
             NEW reviewed \in SourceKeys \cup {NoKey}, NEW s \in Wallets,
             SubmitContribution(r, k, a, reviewed, s)
      PROVE  /\ currentRound' = currentRound
             /\ \A q \in Rounds : PhaseMoves(q)
             /\ \A j \in SourceKeys : RunMoves(j)
  <2>1. rounds' = [rounds EXCEPT ![r] = [rounds[r] EXCEPT
                     !.contributionCount = rounds[r].contributionCount + 1]]
    BY <1>1, SubmitContributionEffect
  <2>2. \A q \in Rounds : PhaseMoves(q)
    BY <2>1, <1>a, <1>b DEF Round, PhaseMoves
  <2>3. \A j \in SourceKeys : RunMoves(j)
    BY <1>1, SubmitContributionEffect DEF SameContribution, RunMoves
  <2> QED
    BY <1>1, <2>2, <2>3 DEF SubmitContribution
<1>2. ASSUME NEW reply \in replies, ProveInitialEvaluation(reply)
      PROVE  /\ currentRound' = currentRound
             /\ \A q \in Rounds : PhaseMoves(q)
             /\ \A j \in SourceKeys : RunMoves(j)
  <2>1. reply.run \in Rounds /\ rounds' = [rounds EXCEPT ![reply.run] =
                [rounds[reply.run] EXCEPT
                   !.initialEvaluatedCount = rounds[reply.run].initialEvaluatedCount + 1,
                   !.totalFinalScore = rounds[reply.run].totalFinalScore + reply.score]]
    BY <1>2, ProveInitialEvaluationEffect
  <2>2. \A q \in Rounds : PhaseMoves(q)
    BY <2>1, <1>a, <1>b DEF Round, PhaseMoves
  <2>3. \A j \in SourceKeys : RunMoves(j)
    BY <1>2, ProveInitialEvaluationEffect DEF RunMoves
  <2> QED
    BY <1>2, <2>2, <2>3 DEF ProveInitialEvaluation
<1>3. ASSUME NEW k \in SourceKeys, NEW s \in Wallets, SubmitAppeal(k, s)
      PROVE  /\ currentRound' = currentRound
             /\ \A q \in Rounds : PhaseMoves(q)
             /\ \A j \in SourceKeys : RunMoves(j)
  <2>r. PICK r \in Rounds : r = contributions[k].run
    BY <1>3, SubmitAppealEffect
  <2>1. rounds' = [rounds EXCEPT ![r] = [rounds[r] EXCEPT
                     !.pendingAppealEvaluationCount =
                         rounds[r].pendingAppealEvaluationCount + 1]]
    BY <1>3, <2>r, SubmitAppealEffect
  <2>2. \A q \in Rounds : PhaseMoves(q)
    BY <2>1, <1>a, <1>b DEF Round, PhaseMoves
  <2>3. \A j \in SourceKeys : RunMoves(j)
    BY <1>3, SubmitAppealEffect DEF RunMoves
  <2> QED
    BY <1>3, <2>2, <2>3 DEF SubmitAppeal
<1>4. ASSUME NEW reply \in replies, ProveAppealEvaluation(reply)
      PROVE  /\ currentRound' = currentRound
             /\ \A q \in Rounds : PhaseMoves(q)
             /\ \A j \in SourceKeys : RunMoves(j)
  <2> DEFINE r == reply.run
             total == rounds[r].totalFinalScore
                        - contributions[reply.contribution].finalScore + reply.score
  <2>1. r \in Rounds /\ rounds' = [rounds EXCEPT ![r] = [rounds[r] EXCEPT
                !.totalFinalScore = total,
                !.pendingAppealEvaluationCount = rounds[r].pendingAppealEvaluationCount - 1]]
    BY <1>4, ProveAppealEvaluationEffect
  <2> HIDE DEF total
  <2>2. \A q \in Rounds : PhaseMoves(q)
    BY <2>1, <1>a, <1>b DEF Round, PhaseMoves
  <2>3. \A j \in SourceKeys : RunMoves(j)
    BY <1>4, ProveAppealEvaluationEffect DEF RunMoves
  <2> QED
    BY <1>4, <2>2, <2>3 DEF ProveAppealEvaluation
<1>5. ASSUME NEW k \in SourceKeys, NEW s \in Wallets, AppendSupportingMaterial(k, s)
      PROVE  /\ currentRound' = currentRound
             /\ \A q \in Rounds : PhaseMoves(q)
             /\ \A j \in SourceKeys : RunMoves(j)
  BY <1>5, AppendSupportingMaterialEffect
     DEF AppendSupportingMaterial, SameContribution, PhaseMoves, RunMoves
<1>6. ASSUME NEW r \in Rounds,
             \/ CloseCollection(r) \/ OpenAppealPhase(r) \/ SubmitRoundSummary(r)
             \/ SettleRound(r) \/ PrepareOpenAppeal(r) \/ PrepareRoundSummary(r)
      PROVE  /\ currentRound' = currentRound
             /\ \A q \in Rounds : PhaseMoves(q)
             /\ \A j \in SourceKeys : RunMoves(j)
  <2> USE <1>a, <1>b DEF Round, PhaseMoves, RunMoves
  <2>1. CASE CloseCollection(r)
    BY <2>1 DEF CloseCollection, Closable
  <2>2. CASE OpenAppealPhase(r)
    BY <2>2 DEF OpenAppealPhase
  <2>3. CASE SubmitRoundSummary(r)
    BY <2>3 DEF SubmitRoundSummary
  <2>4. CASE SettleRound(r)
    BY <2>4 DEF SettleRound, Settleable
  <2>5. CASE PrepareOpenAppeal(r)
    BY <2>5 DEF PrepareOpenAppeal
  <2>6. CASE PrepareRoundSummary(r)
    BY <2>6 DEF PrepareRoundSummary
  <2> QED
    BY <1>6, <2>1, <2>2, <2>3, <2>4, <2>5, <2>6
<1>7. ASSUME \/ \E k \in SourceKeys, score \in Scores : SubmitInitialEvaluation(k, score)
             \/ \E k \in SourceKeys, score \in Scores : SubmitAppealEvaluation(k, score)
             \/ Tick \/ \E a \in Agents, w \in Addresses : SetWallet(a, w)
             \/ UNCHANGED vars
      PROVE  /\ currentRound' = currentRound
             /\ \A q \in Rounds : PhaseMoves(q)
             /\ \A j \in SourceKeys : RunMoves(j)
  BY <1>7 DEF SubmitInitialEvaluation, SubmitAppealEvaluation, Tick, SetWallet, vars,
              PhaseMoves, RunMoves
<1> QED
  BY <1>1, <1>2, <1>3, <1>4, <1>5, <1>6, <1>7 DEF Next, OnAgentReply, OnAgentProve

\* run opens the round after the current one, which no longer collects; every
\* other step keeps the order of the rounds.
LEMMA RoundsStep ==
    ASSUME TypeOK, Links, RoundsInOrder, OneOpenRound, [Next]_vars
    PROVE  RoundsInOrder' /\ OneOpenRound'
<1>a. currentRound \in Nat /\ \A r \in Rounds : r \in Nat
  BY PartTypes, ConstantsAssumption DEF TypeOK, Rounds
<1>1. CASE Run
  <2>r. PICK r \in Rounds : r = currentRound + 1
    BY <1>1 DEF Run
  <2>1. /\ currentRound' = r /\ contributions' = contributions
        /\ \A q \in Rounds \ {r} : rounds'[q] = rounds[q]
    BY <1>1, <2>r DEF Run, TypeOK
  <2>2. OneOpenRound'
    <3> SUFFICES ASSUME NEW q \in Rounds, rounds'[q].phase = "Open", q # r
                 PROVE  FALSE
      BY <2>1 DEF OneOpenRound
    <3>1. q = currentRound
      BY <2>1 DEF OneOpenRound
    <3>2. rounds'[q] = rounds[q]
      BY <2>1
    <3>3. currentRound # 0 => rounds[currentRound].phase # "Open"
      BY <1>1 DEF Run, MayOpenRound
    <3>4. currentRound # 0
      BY <3>1, ConstantsAssumption DEF Rounds
    <3> QED
      BY <3>1, <3>2, <3>3, <3>4
  <2>3. \A q \in Rounds : q > r => rounds'[q].phase = "None"
    BY <2>r, <2>1, <1>a DEF RoundsInOrder
  <2>4. ASSUME NEW k \in SourceKeys, contributions[k].exists
        PROVE  contributions[k].run <= r
    <3>1. contributions[k].run <= currentRound
      BY <2>4 DEF RoundsInOrder
    <3>2. contributions[k].run \in Rounds
      BY <2>4 DEF Links
    <3> QED
      <4> DEFINE n == contributions[k].run
      <4>1. n <= currentRound /\ n \in Nat
        BY <3>1, <3>2, <1>a
      <4> HIDE DEF n
      <4>2. n <= r
        BY <4>1, <2>r, <1>a
      <4> QED
        BY <4>2 DEF n
  <2> QED
    BY <2>1, <2>2, <2>3, <2>4 DEF RoundsInOrder
<1>2. CASE ~Run
  <2>1. /\ currentRound' = currentRound
        /\ \A r \in Rounds : PhaseMoves(r)
        /\ \A k \in SourceKeys : RunMoves(k)
    BY <1>2, MovesStep
  <2>2. OneOpenRound'
    BY <2>1 DEF PhaseMoves, OneOpenRound
  <2>3. \A r \in Rounds : r > currentRound => rounds'[r].phase = "None"
    BY <2>1 DEF PhaseMoves, RoundsInOrder
  <2>4. ASSUME NEW k \in SourceKeys, contributions'[k].exists
        PROVE  contributions'[k].run <= currentRound
    <3>1. CASE contributions[k].exists /\ contributions'[k].run = contributions[k].run
      BY <3>1 DEF RoundsInOrder
    <3>2. CASE /\ contributions'[k].run \in Rounds
               /\ rounds[contributions'[k].run].phase = "Open"
      BY <3>2, <1>a DEF OneOpenRound
    <3> QED
      BY <2>1, <2>4, <3>1, <3>2 DEF RunMoves
  <2> QED
    BY <2>1, <2>2, <2>3, <2>4 DEF RoundsInOrder
<1> QED
  BY <1>1, <1>2

-----------------------------------------------------------------------------
(* Nothing is outstanding once the summary task exists                     *)

\* The appeals of a round open when all its contributions are evaluated; its
\* summary task exists after the deadline, with no reevaluation outstanding.
FrozenOf(r) ==
    /\ rounds[r].openAppealTask # 0 =>
         rounds[r].phase \in {"Evaluating", "Appealing", "Settled"}
           /\ Evaluated(r) = ContributionsOf(r)
    /\ rounds[r].phase \in {"Appealing", "Settled"} => rounds[r].openAppealTask # 0
    /\ rounds[r].summaryTask # 0 =>
         /\ rounds[r].phase \in {"Appealing", "Settled"}
         /\ now > rounds[r].appealDeadline
         /\ Pending(r) = {}

Frozen == \A r \in Rounds : FrozenOf(r)

\* The fields of round r its transitions are decided by.
SameTransitions(r) ==
    /\ rounds'[r].phase = rounds[r].phase
    /\ rounds'[r].openAppealTask = rounds[r].openAppealTask
    /\ rounds'[r].summaryTask = rounds[r].summaryTask
    /\ rounds'[r].appealDeadline = rounds[r].appealDeadline

SameSets(r) ==
    /\ ContributionsOf(r)' = ContributionsOf(r)
    /\ Evaluated(r)' = Evaluated(r)
    /\ Pending(r)' = Pending(r)

\* Time alone, and steps that leave a round alone, keep it frozen.
LEMMA FrozenKept ==
    ASSUME TypeOK, NEW r \in Rounds, FrozenOf(r), SameTransitions(r), SameSets(r),
           now' = now \/ now' = now + 1
    PROVE  FrozenOf(r)'
<1>1. now \in Nat /\ rounds[r].appealDeadline \in Nat
  BY DEF TypeOK, Round
<1>2. now > rounds[r].appealDeadline => now' > rounds'[r].appealDeadline
  BY <1>1 DEF SameTransitions
<1> QED
  BY <1>2 DEF FrozenOf, SameTransitions, SameSets

\* A step on round r leaves the other rounds frozen.
LEMMA FrozenByRound ==
    ASSUME TypeOK, Frozen, NEW r \in Rounds, now' = now,
           \A q \in Rounds \ {r} : rounds'[q] = rounds[q] /\ SameSets(q),
           FrozenOf(r)'
    PROVE  Frozen'
<1>1. ASSUME NEW q \in Rounds \ {r} PROVE FrozenOf(q)'
  BY FrozenKept DEF Frozen, SameTransitions
<1> QED
  BY <1>1 DEF Frozen

\* The transitions of a round: the two that prepare a task check the counters,
\* which are the sizes of the sets.
LEMMA FrozenTransitions ==
    ASSUME CountInv, Frozen, NEW r \in Rounds,
           \/ CloseCollection(r) \/ OpenAppealPhase(r) \/ SubmitRoundSummary(r)
           \/ SettleRound(r) \/ PrepareOpenAppeal(r) \/ PrepareRoundSummary(r)
    PROVE  Frozen'
<1> USE DEF CountInv
<1>a. rounds[r] \in Round /\ rounds \in [Rounds -> Round] /\ FrozenOf(r) /\ CountsOf(r)
  BY CountsAgreeByRound, PartTypes DEF Frozen, TypeOK
<1>b. now' = now /\ \A q \in Rounds \ {r} : rounds'[q] = rounds[q]
  BY <1>a DEF CloseCollection, OpenAppealPhase, SubmitRoundSummary, SettleRound,
              PrepareOpenAppeal, PrepareRoundSummary, environmentVars
<1>c. \A k \in SourceKeys : SameContribution(k)
  BY DEF CloseCollection, OpenAppealPhase, SubmitRoundSummary, SettleRound,
         PrepareOpenAppeal, PrepareRoundSummary, SameContribution
<1>d. \A q \in Rounds : SameSets(q)
  BY <1>c, SetsUnchanged DEF SameSets
<1>1. CASE CloseCollection(r)
  <2>1. rounds[r].phase = "Open"
    BY <1>1 DEF CloseCollection, Closable
  <2>2. /\ rounds'[r].phase = "Evaluating"
        /\ rounds'[r].openAppealTask = rounds[r].openAppealTask
        /\ rounds'[r].summaryTask = rounds[r].summaryTask
    BY <1>1, <1>a DEF CloseCollection, Round
  <2>3. rounds[r].openAppealTask = 0 /\ rounds[r].summaryTask = 0
    BY <2>1, <1>a DEF FrozenOf
  <2> QED
    <3>1. FrozenOf(r)'
      BY <2>2, <2>3 DEF FrozenOf
    <3> QED
      BY <1>b, <1>d, <3>1, FrozenByRound
<1>2. CASE OpenAppealPhase(r)
  <2>1. rounds[r].phase = "Evaluating" /\ rounds[r].openAppealTask # 0
    BY <1>2 DEF OpenAppealPhase
  <2>2. /\ rounds'[r].phase = "Appealing"
        /\ rounds'[r].openAppealTask = rounds[r].openAppealTask
        /\ rounds'[r].summaryTask = rounds[r].summaryTask
    BY <1>2, <1>a DEF OpenAppealPhase, Round
  <2>3. rounds[r].summaryTask = 0 /\ Evaluated(r) = ContributionsOf(r)
    BY <2>1, <1>a DEF FrozenOf
  <2>4. FrozenOf(r)'
    BY <1>d, <2>1, <2>2, <2>3 DEF FrozenOf, SameSets
  <2> QED
    BY <1>b, <1>d, <2>4, FrozenByRound
<1>3. CASE SubmitRoundSummary(r)
  <2>1. SameTransitions(r)
    BY <1>3, <1>a DEF SubmitRoundSummary, Round, SameTransitions
  <2>2. FrozenOf(r)'
    BY <1>a, <1>b, <1>d, <2>1, FrozenKept
  <2> QED
    BY <1>b, <1>d, <2>2, FrozenByRound
<1>4. CASE SettleRound(r)
  <2>1. rounds[r].phase = "Appealing"
    BY <1>4 DEF SettleRound, Settleable
  <2>2. /\ rounds'[r].phase = "Settled"
        /\ rounds'[r].openAppealTask = rounds[r].openAppealTask
        /\ rounds'[r].summaryTask = rounds[r].summaryTask
        /\ rounds'[r].appealDeadline = rounds[r].appealDeadline
    BY <1>4, <1>a DEF SettleRound, Round
  <2>3. FrozenOf(r)'
    BY <1>a, <1>b, <1>d, <2>1, <2>2 DEF FrozenOf, SameSets
  <2> QED
    BY <1>b, <1>d, <2>3, FrozenByRound
<1>5. CASE PrepareOpenAppeal(r)
  <2>1. /\ rounds[r].phase = "Evaluating"
        /\ rounds[r].initialEvaluatedCount = rounds[r].contributionCount
    BY <1>5 DEF PrepareOpenAppeal, ReadyForAppeals
  <2>2. Evaluated(r) = ContributionsOf(r)
    <3>1. Cardinality(Evaluated(r)) = Cardinality(ContributionsOf(r))
      BY <2>1, <1>a DEF CountsOf
    <3>2. Evaluated(r) \in SUBSET ContributionsOf(r) /\ IsFiniteSet(ContributionsOf(r))
      BY SetsFinite DEF Evaluated
    <3> QED
      BY <3>1, <3>2, FS_Subset
  <2>3. /\ rounds'[r].phase = "Evaluating"
        /\ rounds'[r].summaryTask = rounds[r].summaryTask
    BY <1>5, <1>a, <2>1 DEF PrepareOpenAppeal, Round
  <2>4. rounds[r].summaryTask = 0
    BY <2>1, <1>a DEF FrozenOf
  <2>5. FrozenOf(r)'
    BY <1>d, <2>2, <2>3, <2>4 DEF FrozenOf, SameSets
  <2> QED
    BY <1>b, <1>d, <2>5, FrozenByRound
<1>6. CASE PrepareRoundSummary(r)
  <2>1. /\ rounds[r].phase = "Appealing"
        /\ now > rounds[r].appealDeadline
        /\ rounds[r].pendingAppealEvaluationCount = 0
    BY <1>6 DEF PrepareRoundSummary, Summarizable
  <2>2. Pending(r) = {}
    BY <2>1, <1>a, SetsFinite, FS_EmptySet DEF CountsOf
  <2>3. /\ rounds'[r].phase = "Appealing"
        /\ rounds'[r].openAppealTask = rounds[r].openAppealTask
        /\ rounds'[r].appealDeadline = rounds[r].appealDeadline
    BY <1>6, <1>a, <2>1 DEF PrepareRoundSummary, Round
  <2>4. FrozenOf(r)'
    BY <1>a, <1>b, <1>d, <2>1, <2>2, <2>3 DEF FrozenOf, SameSets
  <2> QED
    BY <1>b, <1>d, <2>4, FrozenByRound
<1> QED
  BY <1>1, <1>2, <1>3, <1>4, <1>5, <1>6

\* A contribution joins an open round only; an evaluation is accepted while
\* appeals are not open; an appeal is in time, so before the summary task; and
\* a reevaluation is outstanding until it is accepted.
LEMMA FrozenStep ==
    ASSUME CountInv, Frozen, [Next]_vars
    PROVE  Frozen'
<1> USE DEF CountInv
<1>a. /\ \A r \in Rounds : rounds[r] \in Round /\ FrozenOf(r)
      /\ rounds \in [Rounds -> Round]
      /\ now \in Nat
  BY PartTypes DEF Frozen, TypeOK
<1>1. ASSUME NEW r \in Rounds, NEW k \in SourceKeys, NEW a \in Agents,
             NEW reviewed \in SourceKeys \cup {NoKey}, NEW s \in Wallets,
             SubmitContribution(r, k, a, reviewed, s)
      PROVE  Frozen'
  <2>1. rounds' = [rounds EXCEPT ![r] = [rounds[r] EXCEPT
                     !.contributionCount = rounds[r].contributionCount + 1]]
    BY <1>1, SubmitContributionEffect
  <2>2. SameTransitions(r) /\ \A q \in Rounds \ {r} : rounds'[q] = rounds[q]
    BY <2>1, <1>a DEF Round, SameTransitions
  <2>3. rounds[r].phase = "Open"
    BY <1>1, SubmitContributionEffect
  <2>4. FrozenOf(r)'
    BY <2>2, <2>3, <1>a DEF FrozenOf, SameTransitions
  <2>5. \A q \in Rounds \ {r} : SameSets(q)
    BY <1>1, SubmitContributionEffect, SetsAfterOne DEF SameSets
  <2>6. now' = now
    BY <1>1 DEF SubmitContribution, environmentVars
  <2> QED
    BY <2>2, <2>4, <2>5, <2>6, FrozenByRound
<1>2. ASSUME NEW reply \in replies, ProveInitialEvaluation(reply)
      PROVE  Frozen'
  <2> DEFINE k == reply.contribution
             r == reply.run
  <2>1. /\ r \in Rounds /\ k \in SourceKeys
        /\ contributions[k].exists /\ contributions[k].run = r
        /\ \A j \in SourceKeys \ {k} : SameContribution(j)
        /\ contributions'[k].exists /\ contributions'[k].run = r
        /\ ~contributions[k].initialEvaluated
    BY <1>2, ProveInitialEvaluationEffect DEF SameContribution
  <2>2. rounds' = [rounds EXCEPT ![r] = [rounds[r] EXCEPT
                     !.initialEvaluatedCount = rounds[r].initialEvaluatedCount + 1,
                     !.totalFinalScore = rounds[r].totalFinalScore + reply.score]]
    BY <1>2, ProveInitialEvaluationEffect
  <2>3. SameTransitions(r) /\ \A q \in Rounds \ {r} : rounds'[q] = rounds[q]
    BY <2>1, <2>2, <1>a DEF Round, SameTransitions
  <2>4. Evaluated(r) # ContributionsOf(r)
    BY <2>1 DEF Evaluated, ContributionsOf
  <2>5. FrozenOf(r)
    BY <2>1, <1>a
  <2>6. FrozenOf(r)'
    BY <2>3, <2>4, <2>5 DEF FrozenOf, SameTransitions
  <2>7. \A q \in Rounds \ {r} : SameSets(q)
    BY <2>1, SetsAfterOne DEF SameSets
  <2>8. now' = now
    BY <1>2 DEF ProveInitialEvaluation, environmentVars
  <2> QED
    BY <2>1, <2>3, <2>6, <2>7, <2>8, FrozenByRound
<1>3. ASSUME NEW k \in SourceKeys, NEW s \in Wallets, SubmitAppeal(k, s)
      PROVE  Frozen'
  <2>r. PICK r \in Rounds : r = contributions[k].run
    BY <1>3, SubmitAppealEffect
  <2>1. /\ contributions[k].exists /\ contributions[k].run = r
        /\ \A j \in SourceKeys \ {k} : SameContribution(j)
        /\ contributions'[k].exists /\ contributions'[k].run = r
        /\ contributions[k].initialEvaluated /\ contributions'[k].initialEvaluated
        /\ rounds[r].phase = "Appealing" /\ now <= rounds[r].appealDeadline
    BY <1>3, <2>r, SubmitAppealEffect DEF SameContribution
  <2>2. rounds' = [rounds EXCEPT ![r] = [rounds[r] EXCEPT
                     !.pendingAppealEvaluationCount =
                         rounds[r].pendingAppealEvaluationCount + 1]]
    BY <1>3, <2>r, SubmitAppealEffect
  <2>3. SameTransitions(r) /\ \A q \in Rounds \ {r} : rounds'[q] = rounds[q]
    BY <2>2, <1>a DEF Round, SameTransitions
  <2>4. rounds[r].summaryTask = 0
    <3>1. rounds[r].appealDeadline \in Nat
      BY <1>a DEF Round
    <3> QED
      BY <2>1, <3>1, <1>a DEF FrozenOf
  <2>5. ContributionsOf(r)' = ContributionsOf(r) /\ Evaluated(r)' = Evaluated(r)
    BY <2>1, SetsAfterOne DEF ContributionsOf, Evaluated
  <2>6. FrozenOf(r)'
    BY <2>3, <2>4, <2>5, <1>a DEF FrozenOf, SameTransitions
  <2>7. \A q \in Rounds \ {r} : SameSets(q)
    BY <2>1, SetsAfterOne DEF SameSets
  <2>8. now' = now
    BY <1>3 DEF SubmitAppeal, environmentVars
  <2> QED
    BY <2>3, <2>6, <2>7, <2>8, FrozenByRound
<1>4. ASSUME NEW reply \in replies, ProveAppealEvaluation(reply)
      PROVE  Frozen'
  <2> DEFINE k == reply.contribution
             r == reply.run
             total == rounds[r].totalFinalScore - contributions[k].finalScore + reply.score
  <2>1. /\ r \in Rounds /\ k \in SourceKeys
        /\ contributions[k].exists /\ contributions[k].run = r
        /\ \A j \in SourceKeys \ {k} : SameContribution(j)
        /\ contributions'[k].exists /\ contributions'[k].run = r
        /\ contributions[k].initialEvaluated /\ contributions'[k].initialEvaluated
        /\ contributions[k].appealed /\ ~contributions[k].appealEvaluated
    BY <1>4, ProveAppealEvaluationEffect DEF SameContribution
  <2>2. rounds' = [rounds EXCEPT ![r] = [rounds[r] EXCEPT
                     !.totalFinalScore = total,
                     !.pendingAppealEvaluationCount =
                         rounds[r].pendingAppealEvaluationCount - 1]]
    BY <1>4, ProveAppealEvaluationEffect
  <2> HIDE DEF total
  <2>3. SameTransitions(r) /\ \A q \in Rounds \ {r} : rounds'[q] = rounds[q]
    BY <2>1, <2>2, <1>a DEF Round, SameTransitions
  <2>4. rounds[r].summaryTask = 0
    <3>1. Pending(r) # {}
      BY <2>1 DEF Pending, ContributionsOf
    <3>2. FrozenOf(r)
      BY <2>1, <1>a
    <3> QED
      BY <3>1, <3>2 DEF FrozenOf
  <2>5. ContributionsOf(r)' = ContributionsOf(r) /\ Evaluated(r)' = Evaluated(r)
    BY <2>1, SetsAfterOne DEF ContributionsOf, Evaluated
  <2>6. FrozenOf(r)
    BY <2>1, <1>a
  <2>7. FrozenOf(r)'
    BY <2>3, <2>4, <2>5, <2>6 DEF FrozenOf, SameTransitions
  <2>8. \A q \in Rounds \ {r} : SameSets(q)
    BY <2>1, SetsAfterOne DEF SameSets
  <2>9. now' = now
    BY <1>4 DEF ProveAppealEvaluation, environmentVars
  <2> QED
    BY <2>1, <2>3, <2>7, <2>8, <2>9, FrozenByRound
<1>5. ASSUME Run PROVE Frozen'
  <2>r. PICK r \in Rounds : r = currentRound + 1
    BY <1>5 DEF Run
  <2>1. /\ contributions' = contributions /\ now' = now
        /\ rounds' = [rounds EXCEPT ![r] =
                        NewRound("Open", StoredTime(now), StoredTime(now + RoundDuration))]
    BY <1>5, <2>r DEF Run, environmentVars
  <2>2. /\ rounds'[r].phase = "Open" /\ rounds'[r].openAppealTask = 0
        /\ rounds'[r].summaryTask = 0
        /\ \A q \in Rounds \ {r} : rounds'[q] = rounds[q]
    BY <2>1, <1>a DEF NewRound
  <2>3. FrozenOf(r)'
    BY <2>2 DEF FrozenOf
  <2>4. \A q \in Rounds : SameSets(q)
    BY <2>1, SetsUnchanged DEF SameContribution, SameSets
  <2> QED
    BY <2>1, <2>2, <2>3, <2>4, FrozenByRound
<1>6. ASSUME NEW r \in Rounds,
             \/ CloseCollection(r) \/ OpenAppealPhase(r) \/ SubmitRoundSummary(r)
             \/ SettleRound(r) \/ PrepareOpenAppeal(r) \/ PrepareRoundSummary(r)
      PROVE  Frozen'
  BY <1>6, FrozenTransitions
<1>7. ASSUME \/ \E k \in SourceKeys, s \in Wallets : AppendSupportingMaterial(k, s)
             \/ \E k \in SourceKeys, score \in Scores : SubmitInitialEvaluation(k, score)
             \/ \E k \in SourceKeys, score \in Scores : SubmitAppealEvaluation(k, score)
             \/ Tick \/ \E a \in Agents, w \in Addresses : SetWallet(a, w)
             \/ UNCHANGED vars
      PROVE  Frozen'
  <2>1. rounds' = rounds /\ (now' = now \/ now' = now + 1)
    BY <1>7 DEF AppendSupportingMaterial, SubmitInitialEvaluation, SubmitAppealEvaluation,
                Tick, SetWallet, vars, environmentVars
  <2>2. \A k \in SourceKeys : SameContribution(k)
    BY <1>7, AppendSupportingMaterialEffect
       DEF SubmitInitialEvaluation, SubmitAppealEvaluation, Tick, SetWallet, vars,
           SameContribution
  <2>3. \A r \in Rounds : SameSets(r) /\ SameTransitions(r)
    BY <2>1, <2>2, SetsUnchanged DEF SameSets, SameTransitions
  <2> QED
    BY <1>a, <2>1, <2>3, FrozenKept DEF Frozen
<1> QED
  BY <1>1, <1>2, <1>3, <1>4, <1>5, <1>6, <1>7 DEF Next, OnAgentReply, OnAgentProve

-----------------------------------------------------------------------------
(* What the summary has frozen                                             *)

\* What SummaryFreezesScores asks of round r.
Unmoved(r) ==
    /\ rounds'[r].totalFinalScore = rounds[r].totalFinalScore
    /\ agentRoundScores'[r] = agentRoundScores[r]
    /\ rewardedAgentIds'[r] = rewardedAgentIds[r]
    /\ ContributionsOf(r)' = ContributionsOf(r)
    /\ \A k \in ContributionsOf(r) : contributions'[k] = contributions[k]

\* A step that leaves the round, its scores and its contributions alone.
LEMMA UnmovedWhen ==
    ASSUME NEW r \in Rounds,
           rounds'[r].totalFinalScore = rounds[r].totalFinalScore,
           agentRoundScores'[r] = agentRoundScores[r],
           rewardedAgentIds'[r] = rewardedAgentIds[r],
           \A k \in SourceKeys :
              \/ contributions'[k] = contributions[k]
              \/ /\ contributions[k].exists => contributions[k].run # r
                 /\ contributions'[k].exists => contributions'[k].run # r
    PROVE  Unmoved(r)
BY DEF Unmoved, ContributionsOf

\* Every operation that would move a score or a contribution of a round needs
\* a phase, an outstanding evaluation or a time the summary task rules out.
LEMMA FreezeStep ==
    ASSUME CountInv, Frozen, [Next]_vars, NEW r \in Rounds, rounds[r].summaryTask # 0
    PROVE  Unmoved(r)
<1> USE DEF CountInv
<1>a. /\ \A q \in Rounds : rounds[q] \in Round
      /\ rounds \in [Rounds -> Round]
      /\ agentRoundScores \in [Rounds -> [Agents -> Nat]]
      /\ rewardedAgentIds \in [Rounds -> Seq(Agents)]
  BY PartTypes DEF TypeOK
<1>b. /\ rounds[r].phase \in {"Appealing", "Settled"}
      /\ now > rounds[r].appealDeadline
      /\ Pending(r) = {} /\ Evaluated(r) = ContributionsOf(r)
  BY DEF Frozen, FrozenOf
<1>1. ASSUME NEW q \in Rounds, NEW k \in SourceKeys, NEW a \in Agents,
             NEW reviewed \in SourceKeys \cup {NoKey}, NEW s \in Wallets,
             SubmitContribution(q, k, a, reviewed, s)
      PROVE  Unmoved(r)
  <2>1. /\ rounds[q].phase = "Open" /\ ~contributions[k].exists
        /\ contributions'[k].run = q
        /\ \A p \in Rounds \ {q} : rounds'[p] = rounds[p]
    BY <1>1, SubmitContributionEffect
  <2>2. q # r
    BY <2>1, <1>b
  <2>3. \A j \in SourceKeys \ {k} : contributions'[j] = contributions[j]
    BY <1>1 DEF SubmitContribution, TypeOK
  <2>4. agentRoundScores' = agentRoundScores /\ rewardedAgentIds' = rewardedAgentIds
    BY <1>1 DEF SubmitContribution, scoreVars
  <2> QED
    BY <2>1, <2>2, <2>3, <2>4, UnmovedWhen
<1>2. ASSUME NEW reply \in replies, ProveInitialEvaluation(reply)
      PROVE  Unmoved(r)
  <2> DEFINE k == reply.contribution
             q == reply.run
  <2>1. /\ q \in Rounds /\ k \in SourceKeys
        /\ contributions[k].exists /\ contributions[k].run = q
        /\ \A j \in SourceKeys \ {k} : contributions'[j] = contributions[j]
        /\ contributions'[k].run = q
        /\ ~contributions[k].initialEvaluated
        /\ rounds' = [rounds EXCEPT ![q] = [rounds[q] EXCEPT
                        !.initialEvaluatedCount = rounds[q].initialEvaluatedCount + 1,
                        !.totalFinalScore = rounds[q].totalFinalScore + reply.score]]
    BY <1>2, ProveInitialEvaluationEffect
  <2>2. q # r
    BY <2>1, <1>b DEF Evaluated, ContributionsOf
  <2>3. rounds'[r] = rounds[r]
    BY <2>1, <2>2, <1>a
  <2>4. agentRoundScores'[r] = agentRoundScores[r]
    BY <1>2, <2>2, <1>a DEF ProveInitialEvaluation
  <2>5. rewardedAgentIds'[r] = rewardedAgentIds[r]
    BY <1>2, <2>2, <1>a DEF ProveInitialEvaluation
  <2> QED
    BY <2>1, <2>2, <2>3, <2>4, <2>5, UnmovedWhen
<1>3. ASSUME NEW k \in SourceKeys, NEW s \in Wallets, SubmitAppeal(k, s)
      PROVE  Unmoved(r)
  <2>r. PICK q \in Rounds : q = contributions[k].run
    BY <1>3, SubmitAppealEffect
  <2>1. /\ contributions[k].run = q /\ contributions'[k].run = q
        /\ \A j \in SourceKeys \ {k} : contributions'[j] = contributions[j]
        /\ now <= rounds[q].appealDeadline
        /\ rounds' = [rounds EXCEPT ![q] = [rounds[q] EXCEPT
                        !.pendingAppealEvaluationCount =
                            rounds[q].pendingAppealEvaluationCount + 1]]
    BY <1>3, <2>r, SubmitAppealEffect
  <2>2. q # r
    <3>1. now \in Nat /\ rounds[r].appealDeadline \in Nat
      BY <1>a, PartTypes DEF TypeOK, Round
    <3> QED
      BY <3>1, <2>1, <1>b
  <2>3. rounds'[r] = rounds[r]
    BY <2>1, <2>2, <1>a
  <2>4. agentRoundScores' = agentRoundScores /\ rewardedAgentIds' = rewardedAgentIds
    BY <1>3 DEF SubmitAppeal, scoreVars
  <2> QED
    BY <2>1, <2>2, <2>3, <2>4, UnmovedWhen
<1>4. ASSUME NEW reply \in replies, ProveAppealEvaluation(reply)
      PROVE  Unmoved(r)
  <2> DEFINE k == reply.contribution
             q == reply.run
             total == rounds[q].totalFinalScore - contributions[k].finalScore + reply.score
  <2>1. /\ q \in Rounds /\ k \in SourceKeys
        /\ contributions[k].exists /\ contributions[k].run = q
        /\ \A j \in SourceKeys \ {k} : contributions'[j] = contributions[j]
        /\ contributions'[k].run = q
        /\ contributions[k].appealed /\ ~contributions[k].appealEvaluated
        /\ rounds' = [rounds EXCEPT ![q] = [rounds[q] EXCEPT
                        !.totalFinalScore = total,
                        !.pendingAppealEvaluationCount =
                            rounds[q].pendingAppealEvaluationCount - 1]]
    BY <1>4, ProveAppealEvaluationEffect
  <2> HIDE DEF total
  <2>2. q # r
    BY <2>1, <1>b DEF Pending, ContributionsOf
  <2>3. rounds'[r] = rounds[r]
    BY <2>1, <2>2, <1>a
  <2>4. agentRoundScores'[r] = agentRoundScores[r]
    BY <1>4, <2>2, <1>a DEF ProveAppealEvaluation
  <2>5. rewardedAgentIds'[r] = rewardedAgentIds[r]
    BY <1>4, <2>2, <1>a DEF ProveAppealEvaluation
  <2> QED
    BY <2>1, <2>2, <2>3, <2>4, <2>5, UnmovedWhen
<1>5. ASSUME Run PROVE Unmoved(r)
  <2>r. PICK q \in Rounds : q = currentRound + 1
    BY <1>5 DEF Run
  <2>1. q # r
    <3>1. r > currentRound => rounds[r].phase = "None"
      BY DEF RoundsInOrder
    <3>2. currentRound \in Nat
      BY PartTypes, ConstantsAssumption DEF TypeOK
    <3> QED
      BY <3>1, <3>2, <2>r, <1>b
  <2>2. rounds'[r] = rounds[r]
    BY <1>5, <2>r, <2>1, <1>a DEF Run
  <2> QED
    BY <1>5, <2>2, UnmovedWhen DEF Run, scoreVars
<1>6. ASSUME NEW q \in Rounds,
             \/ CloseCollection(q) \/ OpenAppealPhase(q) \/ SubmitRoundSummary(q)
             \/ SettleRound(q) \/ PrepareOpenAppeal(q) \/ PrepareRoundSummary(q)
      PROVE  Unmoved(r)
  <2>1. /\ contributions' = contributions
        /\ agentRoundScores' = agentRoundScores /\ rewardedAgentIds' = rewardedAgentIds
    BY <1>6 DEF CloseCollection, OpenAppealPhase, SubmitRoundSummary, SettleRound,
                PrepareOpenAppeal, PrepareRoundSummary, scoreVars
  <2>2. rounds'[r].totalFinalScore = rounds[r].totalFinalScore
    <3>1. CASE q = r
      BY <1>6, <3>1, OtherTransitionsEffect
    <3>2. CASE q # r
      BY <1>6, <1>a, <3>2 DEF CloseCollection, OpenAppealPhase, SubmitRoundSummary,
                SettleRound, PrepareOpenAppeal, PrepareRoundSummary
    <3> QED
      BY <3>1, <3>2
  <2> QED
    BY <2>1, <2>2, UnmovedWhen
<1>7. ASSUME NEW k \in SourceKeys, NEW s \in Wallets, AppendSupportingMaterial(k, s)
      PROVE  Unmoved(r)
  <2>1. /\ \A j \in SourceKeys \ {k} : contributions'[j] = contributions[j]
        /\ rounds' = rounds /\ contributions[k].run # r
        /\ contributions'[k].run = contributions[k].run
    BY <1>7, <1>b, AppendSupportingMaterialEffect DEF SameContribution
  <2>2. agentRoundScores' = agentRoundScores /\ rewardedAgentIds' = rewardedAgentIds
    BY <1>7 DEF AppendSupportingMaterial, scoreVars
  <2> QED
    BY <2>1, <2>2, UnmovedWhen
<1>8. ASSUME \/ \E k \in SourceKeys, score \in Scores : SubmitInitialEvaluation(k, score)
             \/ \E k \in SourceKeys, score \in Scores : SubmitAppealEvaluation(k, score)
             \/ Tick \/ \E a \in Agents, w \in Addresses : SetWallet(a, w)
             \/ UNCHANGED vars
      PROVE  Unmoved(r)
  <2>1. /\ rounds' = rounds /\ contributions' = contributions
        /\ agentRoundScores' = agentRoundScores /\ rewardedAgentIds' = rewardedAgentIds
    BY <1>8 DEF SubmitInitialEvaluation, SubmitAppealEvaluation, Tick, SetWallet, vars,
                scoreVars
  <2> QED
    BY <2>1, UnmovedWhen
<1> QED
  BY <1>1, <1>2, <1>3, <1>4, <1>5, <1>6, <1>7, <1>8 DEF Next, OnAgentReply, OnAgentProve

-----------------------------------------------------------------------------
(* The budget                                                              *)

\* Only an accepted evaluation moves the total of a round, and it is accepted
\* within the cap; a new round starts from zero.
LEMMA BudgetStep ==
    ASSUME TypeOK, Links, BudgetHolds, [Next]_vars
    PROVE  BudgetHolds'
<1>a. /\ \A q \in Rounds : rounds[q] \in Round
      /\ rounds \in [Rounds -> Round]
  BY PartTypes DEF TypeOK
<1>1. ASSUME NEW r \in Rounds, NEW k \in SourceKeys, NEW a \in Agents,
             NEW reviewed \in SourceKeys \cup {NoKey}, NEW s \in Wallets,
             SubmitContribution(r, k, a, reviewed, s)
      PROVE  BudgetHolds'
  <2>1. rounds' = [rounds EXCEPT ![r] = [rounds[r] EXCEPT
                     !.contributionCount = rounds[r].contributionCount + 1]]
    BY <1>1, SubmitContributionEffect
  <2>2. \A q \in Rounds : rounds'[q].totalFinalScore = rounds[q].totalFinalScore
    BY <2>1, <1>a DEF Round
  <2> QED
    BY <2>2 DEF BudgetHolds
<1>2. ASSUME NEW reply \in replies, ProveInitialEvaluation(reply)
      PROVE  BudgetHolds'
  <2> DEFINE r == reply.run
             total == rounds[r].totalFinalScore + reply.score
  <2>1. /\ r \in Rounds /\ total <= RoundPointCap
        /\ rounds' = [rounds EXCEPT ![r] = [rounds[r] EXCEPT
                        !.initialEvaluatedCount = rounds[r].initialEvaluatedCount + 1,
                        !.totalFinalScore = total]]
    BY <1>2, ProveInitialEvaluationEffect
  <2> HIDE DEF total
  <2>2. rounds'[r].totalFinalScore = total
    BY <2>1, <1>a DEF Round
  <2>3. \A q \in Rounds \ {r} : rounds'[q] = rounds[q]
    BY <2>1, <1>a
  <2> QED
    BY <2>1, <2>2, <2>3 DEF BudgetHolds
<1>3. ASSUME NEW k \in SourceKeys, NEW s \in Wallets, SubmitAppeal(k, s)
      PROVE  BudgetHolds'
  <2>r. PICK r \in Rounds : r = contributions[k].run
    BY <1>3, SubmitAppealEffect
  <2>1. rounds' = [rounds EXCEPT ![r] = [rounds[r] EXCEPT
                     !.pendingAppealEvaluationCount =
                         rounds[r].pendingAppealEvaluationCount + 1]]
    BY <1>3, <2>r, SubmitAppealEffect
  <2>2. \A q \in Rounds : rounds'[q].totalFinalScore = rounds[q].totalFinalScore
    BY <2>1, <1>a DEF Round
  <2> QED
    BY <2>2 DEF BudgetHolds
<1>4. ASSUME NEW reply \in replies, ProveAppealEvaluation(reply)
      PROVE  BudgetHolds'
  <2> DEFINE r == reply.run
             total == rounds[r].totalFinalScore
                        - contributions[reply.contribution].finalScore + reply.score
  <2>1. /\ r \in Rounds /\ total <= RoundPointCap
        /\ rounds' = [rounds EXCEPT ![r] = [rounds[r] EXCEPT
                        !.totalFinalScore = total,
                        !.pendingAppealEvaluationCount =
                            rounds[r].pendingAppealEvaluationCount - 1]]
    BY <1>4, ProveAppealEvaluationEffect
  <2> HIDE DEF total
  <2>2. rounds'[r].totalFinalScore = total
    BY <2>1, <1>a DEF Round
  <2>3. \A q \in Rounds \ {r} : rounds'[q] = rounds[q]
    BY <2>1, <1>a
  <2> QED
    BY <2>1, <2>2, <2>3 DEF BudgetHolds
<1>5. ASSUME Run PROVE BudgetHolds'
  <2>r. PICK r \in Rounds : r = currentRound + 1
    BY <1>5 DEF Run
  <2>1. rounds' = [rounds EXCEPT ![r] =
                     NewRound("Open", StoredTime(now), StoredTime(now + RoundDuration))]
    BY <1>5, <2>r DEF Run
  <2>2. rounds'[r].totalFinalScore = 0
    BY <2>1, <1>a DEF NewRound
  <2>3. \A q \in Rounds \ {r} : rounds'[q] = rounds[q]
    BY <2>1, <1>a
  <2>4. 0 <= RoundPointCap
    BY ConstantsAssumption
  <2> QED
    BY <2>2, <2>3, <2>4 DEF BudgetHolds
<1>6. ASSUME NEW r \in Rounds,
             \/ CloseCollection(r) \/ OpenAppealPhase(r) \/ SubmitRoundSummary(r)
             \/ SettleRound(r) \/ PrepareOpenAppeal(r) \/ PrepareRoundSummary(r)
      PROVE  BudgetHolds'
  <2>1. \A q \in Rounds \ {r} : rounds'[q] = rounds[q]
    BY <1>6, <1>a DEF CloseCollection, OpenAppealPhase, SubmitRoundSummary, SettleRound,
                      PrepareOpenAppeal, PrepareRoundSummary
  <2>2. rounds'[r].totalFinalScore = rounds[r].totalFinalScore
    BY <1>6, OtherTransitionsEffect
  <2> QED
    BY <2>1, <2>2 DEF BudgetHolds
<1>7. ASSUME \/ \E k \in SourceKeys, s \in Wallets : AppendSupportingMaterial(k, s)
             \/ \E k \in SourceKeys, score \in Scores : SubmitInitialEvaluation(k, score)
             \/ \E k \in SourceKeys, score \in Scores : SubmitAppealEvaluation(k, score)
             \/ Tick \/ \E a \in Agents, w \in Addresses : SetWallet(a, w)
             \/ UNCHANGED vars
      PROVE  BudgetHolds'
  BY <1>7 DEF AppendSupportingMaterial, SubmitInitialEvaluation, SubmitAppealEvaluation,
              Tick, SetWallet, vars, BudgetHolds
<1> QED
  BY <1>1, <1>2, <1>3, <1>4, <1>5, <1>6, <1>7 DEF Next, OnAgentReply, OnAgentProve

-----------------------------------------------------------------------------
(* The theorems                                                            *)

\* The inductive invariant: every part is needed by the step of another one.
SettlementInv ==
    TypeOK /\ Links /\ RoundsInOrder /\ OneOpenRound /\ CountsAgree /\ Frozen /\ BudgetHolds

\* Before the first run there is no round and no contribution.
LEMMA SettlementInit == Init => SettlementInv
<1> SUFFICES ASSUME Init PROVE SettlementInv
  OBVIOUS
<1>1. TypeOK /\ Links
  BY InitType, ConstantsAssumption DEF Init, Links, NewContribution
<1>2. /\ \A r \in Rounds : rounds[r] = NewRound("None", 0, 0)
      /\ \A k \in SourceKeys : contributions[k].exists = FALSE
  BY DEF Init, NewContribution
<1>3. RoundsInOrder /\ OneOpenRound
  BY <1>2 DEF RoundsInOrder, OneOpenRound, NewRound
<1>4. \A r \in Rounds : ContributionsOf(r) = {} /\ Evaluated(r) = {} /\ Pending(r) = {}
  BY <1>2 DEF ContributionsOf, Evaluated, Pending
<1>5. \A r \in Rounds : CountsOf(r)
  BY <1>2, <1>4, FS_EmptySet DEF CountsOf, NewRound
<1>6. CountsAgree
  BY <1>5, CountsAgreeByRound
<1>7. Frozen
  BY <1>2 DEF Frozen, FrozenOf, NewRound
<1>8. BudgetHolds
  BY <1>2, ConstantsAssumption DEF BudgetHolds, NewRound
<1> QED
  BY <1>1, <1>3, <1>6, <1>7, <1>8 DEF SettlementInv

\* Every step keeps the inductive invariant.
LEMMA SettlementStep == SettlementInv /\ [Next]_vars => SettlementInv'
BY TypeStep, LinksStep, RoundsStep, CountsStep, FrozenStep, BudgetStep
   DEF SettlementInv, CountInv

\* The inductive invariant holds throughout.
THEOREM SettlementInvariant == Spec => []SettlementInv
BY SettlementInit, SettlementStep, PTL DEF Spec

\* However many rounds overlap, at most one collects (run).
THEOREM OneRoundCollects == Spec => []OneOpenRound
<1>1. SettlementInv => OneOpenRound
  BY DEF SettlementInv
<1> QED
  BY <1>1, SettlementInvariant, PTL

\* The counters that prepareOpenAppeal and prepareRoundSummary trust are exact.
THEOREM CountersExact == Spec => []CountsAgree
<1>1. SettlementInv => CountsAgree
  BY DEF SettlementInv
<1> QED
  BY <1>1, SettlementInvariant, PTL

\* Evaluations and reevaluations together never take a round over its cap.
THEOREM WithinBudget == Spec => []BudgetHolds
<1>1. SettlementInv => BudgetHolds
  BY DEF SettlementInv
<1> QED
  BY <1>1, SettlementInvariant, PTL

\* From prepareRoundSummary on, no proof in flight and no appeal changes what
\* settlement pays by.
THEOREM SummaryFreezes == Spec => SummaryFreezesScores
<1>1. SettlementInv /\ [Next]_vars =>
        [\A r \in Rounds : rounds[r].summaryTask # 0 => Unmoved(r)]_vars
  BY FreezeStep DEF SettlementInv, CountInv
<1>2. SettlementInv /\ [Next]_vars =>
        [\A r \in Rounds :
          rounds[r].summaryTask # 0 =>
              /\ rounds'[r].totalFinalScore = rounds[r].totalFinalScore
              /\ agentRoundScores'[r] = agentRoundScores[r]
              /\ rewardedAgentIds'[r] = rewardedAgentIds[r]
              /\ ContributionsOf(r)' = ContributionsOf(r)
              /\ \A k \in ContributionsOf(r) : contributions'[k] = contributions[k]]_vars
  BY <1>1 DEF Unmoved
<1> QED
  BY <1>2, SettlementInvariant, PTL DEF Spec, SummaryFreezesScores

=============================================================================
