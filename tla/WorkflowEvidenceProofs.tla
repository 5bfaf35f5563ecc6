----------------------- MODULE WorkflowEvidenceProofs -----------------------
(***************************************************************************)
(* The evidence of a round and its payment, for every value of the         *)
(* constants: what a task names was proven before, an accepted evaluation  *)
(* answers the last material, the summary joins the final evaluations, no  *)
(* appeal window is cut short, the scores are the sums of what is proven,  *)
(* and a settlement pays them.                                             *)
(***************************************************************************)
EXTENDS WorkflowProofs, WellFoundedInduction

\* Every task was created from proven replies, and not in the future.
TasksInv ==
    \A r \in Rounds : \A t \in 1 .. Len(tasks[r]) :
        /\ tasks[r][t].proven /\ tasks[r][t].prev \subseteq proven
        /\ tasks[r][t].timestamp <= now

\* The evaluation a contribution stands on is proven and is about it: the
\* initial one on its latest task, the reevaluation once there is one.
KeyInv(k) ==
    /\ contributions[k].initialEvaluated =>
         /\ contributions[k].initialReply \in proven
         /\ contributions[k].initialReply.contribution = k
         /\ contributions[k].initialReply.task = contributions[k].evaluateTask
         /\ contributions[k].initialReply.score = contributions[k].initialScore
    /\ contributions[k].initialEvaluated /\ ~contributions[k].appealEvaluated =>
         contributions[k].finalScore = contributions[k].initialScore
    /\ contributions[k].appealEvaluated =>
         /\ contributions[k].appealReply \in proven
         /\ contributions[k].appealReply.contribution = k
         /\ contributions[k].appealReply.score = contributions[k].finalScore

\* The replies that closed the collection of a round and opened its appeals.
GateInv(r) ==
    /\ rounds[r].phase \in {"Evaluating", "Appealing", "Settled"} =>
         rounds[r].closeReply \in proven
    /\ rounds[r].phase \in {"Appealing", "Settled"} =>
         /\ rounds[r].openAppealReply \in proven
         /\ rounds[r].openAppealReply.contribution = NoKey

\* What the evidence of a round rests on.
EvidenceInv ==
    TasksInv /\ (\A k \in SourceKeys : KeyInv(k)) /\ (\A r \in Rounds : GateInv(r))

\* The replies the summary of round r joins.
Joined(r) == {rounds[r].openAppealReply} \cup {FinalReply(k) : k \in ContributionsOf(r)}

\* The appeal window of a round begins with its appeal task; appeals are within it
\* and the summary task is behind it.
WindowInv(r) ==
    /\ rounds[r].phase \in {"Appealing", "Settled"} => rounds[r].appealTask # 0
    /\ rounds[r].appealTask # 0 =>
         /\ rounds[r].phase \in {"Appealing", "Settled"}
         /\ rounds[r].appealTask \in 1 .. Len(tasks[r])
         /\ rounds[r].appealDeadline =
              StoredTime(tasks[r][rounds[r].appealTask].timestamp + AppealDuration)
    /\ rounds[r].summaryTask # 0 =>
         /\ rounds[r].summaryTask \in 1 .. Len(tasks[r])
         /\ tasks[r][rounds[r].summaryTask].prev = Joined(r)
         /\ tasks[r][rounds[r].summaryTask].timestamp > rounds[r].appealDeadline

\* An appeal came in time.
AppealInv(k) ==
    contributions[k].appealed =>
        LET r == contributions[k].run IN
        /\ rounds[r].appealTask # 0
        /\ contributions[k].reevaluateTask \in 1 .. Len(tasks[r])
        /\ tasks[r][contributions[k].reevaluateTask].timestamp <= rounds[r].appealDeadline

\* What the summary of a round rests on.
SummaryInv ==
    /\ now <= MaxTime
    /\ \A r \in Rounds : WindowInv(r)
    /\ \A k \in SourceKeys : AppealInv(k)

-----------------------------------------------------------------------------
(* What every step does                                                    *)

\* The task list of round r only grows.
Grown(r) ==
    /\ Len(tasks[r]) \in Nat /\ Len(tasks'[r]) \in Nat /\ Len(tasks[r]) <= Len(tasks'[r])
    /\ \A t \in 1 .. Len(tasks[r]) : tasks'[r][t] = tasks[r][t]

\* _storeTask appends one task to one round.
LEMMA NewTask ==
    ASSUME TypeOK, NEW r \in Rounds, NEW stage, NEW prev, NEW pr, StoreTask(r, stage, prev, pr)
    PROVE  /\ \A q \in Rounds : Grown(q)
           /\ \A q \in Rounds \ {r} : tasks'[q] = tasks[q]
           /\ Len(tasks[r]) \in Nat /\ NextTask(r) = Len(tasks[r]) + 1
           /\ Len(tasks'[r]) = NextTask(r)
           /\ tasks'[r][NextTask(r)] = [stage |-> stage, timestamp |-> now, prev |-> prev,
                                        proven |-> prev \subseteq pr]
<1> DEFINE task == [stage |-> stage, timestamp |-> now, prev |-> prev,
                    proven |-> prev \subseteq pr]
<1>1. \A q \in Rounds : tasks[q] \in Seq(Task) /\ Len(tasks[q]) \in Nat
  BY DEF TypeOK
<1>2. /\ \A q \in Rounds \ {r} : tasks'[q] = tasks[q]
      /\ tasks'[r] = Append(tasks[r], task)
  BY DEF TypeOK, StoreTask
<1> HIDE DEF task
<1>3. /\ Len(tasks'[r]) = Len(tasks[r]) + 1
      /\ tasks'[r][Len(tasks[r]) + 1] = task
      /\ \A t \in 1 .. Len(tasks[r]) : tasks'[r][t] = tasks[r][t]
  BY <1>1, <1>2
<1>4. \A q \in Rounds : Grown(q)
  BY <1>1, <1>2, <1>3 DEF Grown
<1> QED
  BY <1>1, <1>2, <1>3, <1>4 DEF task, NextTask

\* Time, proofs and the tasks of a round go one way.
LEMMA Onward ==
    ASSUME TypeOK, Links, [Next]_vars
    PROVE  /\ now' = now \/ (now' = now + 1 /\ now < MaxTime)
           /\ proven \subseteq proven'
           /\ \A r \in Rounds : Grown(r)
<1>a. \A r \in Rounds : Len(tasks[r]) \in Nat
  BY DEF TypeOK
<1>1. CASE Run
  <2>1. currentRound + 1 \in Rounds /\ StoreTask(currentRound + 1, "Collect", {}, proven)
    BY <1>1 DEF Run
  <2>2. now' = now /\ proven' = proven
    BY <1>1 DEF Run, environmentVars
  <2> QED
    BY <2>1, <2>2, NewTask
<1>2. ASSUME NEW r \in Rounds, NEW k \in SourceKeys, NEW a \in Agents,
             NEW reviewed \in SourceKeys \cup {NoKey}, NEW s \in Wallets,
             SubmitContribution(r, k, a, reviewed, s)
      PROVE  now' = now /\ proven \subseteq proven' /\ \A q \in Rounds : Grown(q)
  BY <1>2, NewTask DEF SubmitContribution, AnchorProven, environmentVars
<1>3. ASSUME NEW k \in SourceKeys, NEW s \in Wallets, AppendSupportingMaterial(k, s)
      PROVE  now' = now /\ proven \subseteq proven' /\ \A q \in Rounds : Grown(q)
  <2>1. contributions[k].run \in Rounds
    BY <1>3 DEF AppendSupportingMaterial, TakesMaterial, Links
  <2> QED
    BY <1>3, <2>1, NewTask DEF AppendSupportingMaterial, AnchorProven, environmentVars
<1>4. ASSUME NEW k \in SourceKeys, NEW s \in Wallets, SubmitAppeal(k, s)
      PROVE  now' = now /\ proven \subseteq proven' /\ \A q \in Rounds : Grown(q)
  <2>1. contributions[k].run \in Rounds
    BY <1>4 DEF SubmitAppeal, Links
  <2> QED
    BY <1>4, <2>1, NewTask DEF SubmitAppeal, AnchorProven, environmentVars
<1>5. ASSUME NEW r \in Rounds,
             \/ PrepareOpenAppeal(r) \/ OpenAppealPhase(r) \/ PrepareRoundSummary(r)
             \/ SubmitRoundSummary(r) \/ SettleRound(r)
      PROVE  now' = now /\ proven \subseteq proven' /\ \A q \in Rounds : Grown(q)
  BY <1>5, NewTask DEF PrepareOpenAppeal, OpenAppealPhase, PrepareRoundSummary,
                       SubmitRoundSummary, SettleRound, AnchorProven, environmentVars
<1>6. CASE \/ \E r \in Rounds : CloseCollection(r)
           \/ \E k \in SourceKeys, score \in Scores : SubmitInitialEvaluation(k, score)
           \/ \E k \in SourceKeys, score \in Scores : SubmitAppealEvaluation(k, score)
           \/ \E reply \in replies : ProveInitialEvaluation(reply)
           \/ \E reply \in replies : ProveAppealEvaluation(reply)
           \/ \E a \in Agents, w \in Addresses : SetWallet(a, w)
  <2>1. now' = now /\ tasks' = tasks
    BY <1>6 DEF CloseCollection, SubmitInitialEvaluation, SubmitAppealEvaluation,
                ProveInitialEvaluation, ProveAppealEvaluation, SetWallet, environmentVars
  <2>2. proven \subseteq proven'
    BY <1>6 DEF CloseCollection, SubmitInitialEvaluation, SubmitAppealEvaluation,
                ProveInitialEvaluation, ProveAppealEvaluation, SetWallet,
                AnchorProven, AnchorUnproven
  <2> QED
    BY <1>a, <2>1, <2>2 DEF Grown
<1>7. CASE Tick \/ UNCHANGED vars
  BY <1>a, <1>7 DEF Tick, vars, Grown
<1> QED
  BY <1>1, <1>2, <1>3, <1>4, <1>5, <1>6, <1>7 DEF Next, OnAgentReply, OnAgentProve

-----------------------------------------------------------------------------
(* The evidence                                                            *)

\* A task that is created from proven replies is sound evidence.
LEMMA TaskAdded ==
    ASSUME TypeOK, TasksInv, now' = now, proven \subseteq proven',
           NEW r \in Rounds, NEW stage, NEW prev, NEW pr, StoreTask(r, stage, prev, pr),
           prev \subseteq pr, pr \subseteq proven'
    PROVE  TasksInv'
<1>a. /\ \A q \in Rounds : Grown(q)
      /\ \A q \in Rounds \ {r} : tasks'[q] = tasks[q]
      /\ Len(tasks[r]) \in Nat /\ NextTask(r) = Len(tasks[r]) + 1
      /\ Len(tasks'[r]) = NextTask(r)
  BY NewTask
<1> DEFINE task == tasks'[r][NextTask(r)]
<1>b. task.proven /\ task.prev = prev /\ task.timestamp = now
  <2>1. task = [stage |-> stage, timestamp |-> now, prev |-> prev,
                proven |-> prev \subseteq pr]
    BY NewTask
  <2> HIDE DEF task
  <2> QED
    BY <2>1
<1>1. ASSUME NEW q \in Rounds, NEW t \in 1 .. Len(tasks'[q])
      PROVE  /\ tasks'[q][t].proven /\ tasks'[q][t].prev \subseteq proven'
             /\ tasks'[q][t].timestamp <= now'
  <2>1. CASE t \in 1 .. Len(tasks[q])
    <3>1. tasks'[q][t] = tasks[q][t]
      BY <1>a, <2>1 DEF Grown
    <3>2. /\ tasks[q][t].proven /\ tasks[q][t].prev \subseteq proven
          /\ tasks[q][t].timestamp <= now
      BY <2>1 DEF TasksInv
    <3> QED
      BY <3>1, <3>2
  <2>2. CASE t \notin 1 .. Len(tasks[q])
    <3>1. q = r /\ t = NextTask(r)
      BY <1>a, <2>2 DEF Grown
    <3>2. now <= now'
      BY DEF TypeOK
    <3> QED
      BY <1>b, <3>1, <3>2
  <2> QED
    BY <2>1, <2>2
<1> QED
  BY <1>1 DEF TasksInv

\* Steps that create no task keep the evidence of those there are.
LEMMA TasksKept ==
    ASSUME TypeOK, Links, TasksInv, [Next]_vars, tasks' = tasks
    PROVE  TasksInv'
<1>1. now \in Nat /\ now' \in Nat /\ now <= now' /\ proven \subseteq proven'
  BY Onward DEF TypeOK
<1>2. ASSUME NEW r \in Rounds, NEW t \in 1 .. Len(tasks[r]) PROVE tasks[r][t].timestamp \in Nat
  <2>1. tasks[r] \in Seq(Task)
    BY DEF TypeOK
  <2>2. tasks[r][t] \in Task
    BY <2>1
  <2> QED
    BY <2>2 DEF Task
<1> QED
  BY <1>1, <1>2 DEF TasksInv

\* The two tasks that join many replies are created when each of these is proven.
LEMMA JoinedProven ==
    ASSUME SettlementInv, SettlementInv', EvidenceInv, NEW r \in Rounds
    PROVE  /\ PrepareOpenAppeal(r) =>
                {rounds[r].closeReply}
                  \cup {contributions[k].initialReply : k \in ContributionsOf(r)} \subseteq proven
           /\ PrepareRoundSummary(r) => Joined(r) \subseteq proven
<1>a. rounds[r] \in Round /\ NextTask(r) \in Nat \ {0}
  BY PartTypes DEF SettlementInv
<1>b. FrozenOf(r) /\ FrozenOf(r)' /\ GateInv(r)
  BY DEF SettlementInv, Frozen, EvidenceInv
<1>1. ASSUME PrepareOpenAppeal(r)
      PROVE  {rounds[r].closeReply}
                \cup {contributions[k].initialReply : k \in ContributionsOf(r)} \subseteq proven
  <2>1. /\ rounds[r].phase = "Evaluating" /\ contributions' = contributions
        /\ rounds'[r].openAppealTask # 0
    BY <1>1, <1>a DEF PrepareOpenAppeal, ReadyForAppeals, SettlementInv, TypeOK, Round
  <2>2. Evaluated(r) = ContributionsOf(r)
    BY <1>b, <2>1 DEF FrozenOf, Evaluated, ContributionsOf
  <2>3. \A k \in ContributionsOf(r) : contributions[k].initialReply \in proven
    BY <2>2 DEF Evaluated, ContributionsOf, EvidenceInv, KeyInv
  <2> QED
    BY <1>b, <2>1, <2>3 DEF GateInv
<1>2. ASSUME PrepareRoundSummary(r) PROVE Joined(r) \subseteq proven
  <2>1. /\ rounds[r].phase = "Appealing" /\ contributions' = contributions
        /\ rounds'[r].summaryTask # 0
    BY <1>2, <1>a DEF PrepareRoundSummary, Summarizable, SettlementInv, TypeOK, Round
  <2>2. Evaluated(r) = ContributionsOf(r) /\ Pending(r) = {}
    BY <1>b, <2>1 DEF FrozenOf, Pending, ContributionsOf
  <2>3. \A k \in ContributionsOf(r) : FinalReply(k) \in proven
    BY <2>2 DEF Evaluated, Pending, ContributionsOf, EvidenceInv, KeyInv, FinalReply
  <2> QED
    BY <1>b, <2>1, <2>3 DEF GateInv, Joined
<1> QED
  BY <1>1, <1>2

\* No step creates a task from a reply that is not proven.
LEMMA TasksStep ==
    ASSUME SettlementInv, SettlementInv', EvidenceInv, [Next]_vars
    PROVE  TasksInv'
<1> USE DEF SettlementInv
<1>a. TasksInv
  BY DEF EvidenceInv
<1>1. CASE Run
  <2>1. currentRound + 1 \in Rounds /\ StoreTask(currentRound + 1, "Collect", {}, proven)
    BY <1>1 DEF Run
  <2>2. now' = now /\ proven' = proven
    BY <1>1 DEF Run, environmentVars
  <2> QED
    BY <1>a, <2>1, <2>2, TaskAdded
<1>2. ASSUME NEW r \in Rounds, NEW k \in SourceKeys, NEW a \in Agents,
             NEW reviewed \in SourceKeys \cup {NoKey}, NEW s \in Wallets,
             SubmitContribution(r, k, a, reviewed, s)
      PROVE  TasksInv'
  <2> DEFINE reply == Reply(r, 1, "SubmitContribution", k, 0)
  <2>1. /\ StoreTask(r, "EvaluateContribution", {reply}, proven \cup {reply})
        /\ proven' = proven \cup {reply} /\ now' = now
    BY <1>2 DEF SubmitContribution, AnchorProven, environmentVars
  <2> HIDE DEF reply
  <2> QED
    BY <1>a, <2>1, TaskAdded
<1>3. ASSUME NEW k \in SourceKeys, NEW s \in Wallets, AppendSupportingMaterial(k, s)
      PROVE  TasksInv'
  <2> DEFINE r == contributions[k].run
             reply == Reply(r, contributions[k].evaluateTask, "AppendSupportingMaterial", k, 0)
  <2>1. /\ StoreTask(r, "EvaluateContribution", {reply}, proven \cup {reply})
        /\ proven' = proven \cup {reply} /\ now' = now
    BY <1>3 DEF AppendSupportingMaterial, AnchorProven, environmentVars
  <2>2. r \in Rounds
    BY <1>3 DEF AppendSupportingMaterial, TakesMaterial, Links
  <2> HIDE DEF reply, r
  <2> QED
    BY <1>a, <2>1, <2>2, TaskAdded
<1>4. ASSUME NEW k \in SourceKeys, NEW s \in Wallets, SubmitAppeal(k, s)
      PROVE  TasksInv'
  <2> DEFINE r == contributions[k].run
             reply == Reply(r, rounds[r].appealTask, "SubmitAppeal", k, 0)
  <2>1. /\ StoreTask(r, "ReevaluateContribution", {reply}, proven \cup {reply})
        /\ proven' = proven \cup {reply} /\ now' = now
    BY <1>4 DEF SubmitAppeal, AnchorProven, environmentVars
  <2>2. r \in Rounds
    BY <1>4 DEF SubmitAppeal, Links
  <2> HIDE DEF reply, r
  <2> QED
    BY <1>a, <2>1, <2>2, TaskAdded
<1>5. ASSUME NEW r \in Rounds, OpenAppealPhase(r) PROVE TasksInv'
  <2> DEFINE reply == Reply(r, rounds[r].openAppealTask, "OpenAppealPhase", NoKey, 0)
  <2>1. /\ StoreTask(r, "AppealContribution", {reply}, proven \cup {reply})
        /\ proven' = proven \cup {reply} /\ now' = now
    BY <1>5 DEF OpenAppealPhase, AnchorProven, environmentVars
  <2> HIDE DEF reply
  <2> QED
    BY <1>a, <2>1, TaskAdded
<1>6. ASSUME NEW r \in Rounds, SubmitRoundSummary(r) PROVE TasksInv'
  <2> DEFINE reply == Reply(r, rounds[r].summaryTask, "SubmitRoundSummary", NoKey, 0)
  <2>1. /\ StoreTask(r, "SettleRound", {reply}, proven \cup {reply})
        /\ proven' = proven \cup {reply} /\ now' = now
    BY <1>6 DEF SubmitRoundSummary, AnchorProven, environmentVars
  <2> HIDE DEF reply
  <2> QED
    BY <1>a, <2>1, TaskAdded
<1>7. ASSUME NEW r \in Rounds, SettleRound(r) PROVE TasksInv'
  <2> DEFINE reply == Reply(r, rounds[r].settlementTask, "SettleRound", NoKey, 0)
  <2>1. /\ StoreTask(r, "Terminal", {reply}, proven \cup {reply})
        /\ proven' = proven \cup {reply} /\ now' = now
    BY <1>7 DEF SettleRound, AnchorProven, environmentVars
  <2> HIDE DEF reply
  <2> QED
    BY <1>a, <2>1, TaskAdded
<1>8. ASSUME NEW r \in Rounds, PrepareOpenAppeal(r) PROVE TasksInv'
  <2> DEFINE prev == {rounds[r].closeReply}
                       \cup {contributions[k].initialReply : k \in ContributionsOf(r)}
  <2>1. StoreTask(r, "OpenAppealPhase", prev, proven) /\ proven' = proven /\ now' = now
    BY <1>8 DEF PrepareOpenAppeal, environmentVars
  <2>2. prev \subseteq proven
    BY <1>8, JoinedProven
  <2> HIDE DEF prev
  <2> QED
    BY <1>a, <2>1, <2>2, TaskAdded
<1>9. ASSUME NEW r \in Rounds, PrepareRoundSummary(r) PROVE TasksInv'
  <2>1. StoreTask(r, "SummarizeRound", Joined(r), proven) /\ proven' = proven /\ now' = now
    BY <1>9 DEF PrepareRoundSummary, Joined, environmentVars
  <2>2. Joined(r) \subseteq proven
    BY <1>9, JoinedProven
  <2> QED
    BY <1>a, <2>1, <2>2, TaskAdded
<1>10. CASE \/ \E r \in Rounds : CloseCollection(r)
            \/ \E k \in SourceKeys, score \in Scores : SubmitInitialEvaluation(k, score)
            \/ \E k \in SourceKeys, score \in Scores : SubmitAppealEvaluation(k, score)
            \/ \E reply \in replies : ProveInitialEvaluation(reply)
            \/ \E reply \in replies : ProveAppealEvaluation(reply)
            \/ \E a \in Agents, w \in Addresses : SetWallet(a, w)
            \/ Tick \/ UNCHANGED vars
  <2>1. tasks' = tasks
    BY <1>10 DEF CloseCollection, SubmitInitialEvaluation, SubmitAppealEvaluation,
                 ProveInitialEvaluation, ProveAppealEvaluation, SetWallet, Tick, vars
  <2> QED
    BY <1>a, <2>1, TasksKept
<1> QED
  BY <1>1, <1>2, <1>3, <1>4, <1>5, <1>6, <1>7, <1>8, <1>9, <1>10
     DEF Next, OnAgentReply, OnAgentProve

\* A contribution that does not change keeps its evaluation.
LEMMA KeyKept ==
    ASSUME NEW k \in SourceKeys, KeyInv(k), proven \subseteq proven',
           contributions'[k] = contributions[k]
    PROVE  KeyInv(k)'
BY DEF KeyInv

\* An evaluation is accepted for the task of the latest material only, and no
\* material is taken after it.
LEMMA KeysStep ==
    ASSUME SettlementInv, EvidenceInv, [Next]_vars, NEW k \in SourceKeys
    PROVE  KeyInv(k)'
<1> USE DEF SettlementInv
<1>a. /\ KeyInv(k) /\ proven \subseteq proven'
      /\ contributions[k] \in Contribution /\ contributions \in [SourceKeys -> Contribution]
  BY Onward, PartTypes DEF EvidenceInv, TypeOK
<1>1. ASSUME NEW r \in Rounds, NEW j \in SourceKeys, NEW a \in Agents,
             NEW reviewed \in SourceKeys \cup {NoKey}, NEW s \in Wallets,
             SubmitContribution(r, j, a, reviewed, s)
      PROVE  KeyInv(k)'
  <2>1. CASE j = k
    BY <1>1, <2>1, SubmitContributionEffect DEF KeyInv
  <2>2. CASE j # k
    BY <1>1, <1>a, <2>2, KeyKept DEF SubmitContribution
  <2> QED
    BY <2>1, <2>2
<1>2. ASSUME NEW j \in SourceKeys, NEW s \in Wallets, AppendSupportingMaterial(j, s)
      PROVE  KeyInv(k)'
  <2>1. CASE j = k
    <3>1. /\ ~contributions[k].initialEvaluated /\ ~contributions[k].appealEvaluated
      BY <1>2, <2>1 DEF AppendSupportingMaterial, TakesMaterial, Links
    <3>2. SameContribution(k)
      BY <1>2, AppendSupportingMaterialEffect
    <3> QED
      BY <3>1, <3>2 DEF KeyInv, SameContribution
  <2>2. CASE j # k
    BY <1>2, <1>a, <2>2, KeyKept DEF AppendSupportingMaterial
  <2> QED
    BY <2>1, <2>2
<1>3. ASSUME NEW j \in SourceKeys, NEW s \in Wallets, SubmitAppeal(j, s)
      PROVE  KeyInv(k)'
  <2>1. CASE j = k
    <3> DEFINE c == contributions[k]
               d == [c EXCEPT !.appealed = TRUE, !.reevaluateTask = NextTask(c.run)]
    <3>1. contributions'[k] = d
      BY <1>3, <1>a, <2>1 DEF SubmitAppeal
    <3>2. /\ d.initialEvaluated = c.initialEvaluated /\ d.initialReply = c.initialReply
          /\ d.evaluateTask = c.evaluateTask /\ d.initialScore = c.initialScore
          /\ d.finalScore = c.finalScore /\ d.appealEvaluated = c.appealEvaluated
          /\ d.appealReply = c.appealReply
      BY <1>a DEF Contribution
    <3> HIDE DEF d
    <3> QED
      BY <1>a, <3>1, <3>2 DEF KeyInv
  <2>2. CASE j # k
    BY <1>3, <1>a, <2>2, KeyKept DEF SubmitAppeal
  <2> QED
    BY <2>1, <2>2
<1>4. ASSUME NEW reply \in replies, ProveInitialEvaluation(reply) PROVE KeyInv(k)'
  <2>1. CASE reply.contribution = k
    <3> DEFINE c == contributions[k]
               d == [c EXCEPT !.initialEvaluated = TRUE, !.initialScore = reply.score,
                              !.finalScore = reply.score, !.initialReply = reply]
    <3>1. contributions'[k] = d /\ reply \in proven' /\ reply.task = c.evaluateTask
      BY <1>4, <1>a, <2>1 DEF ProveInitialEvaluation, AcceptsInitial
    <3>2. ~contributions'[k].appealEvaluated
      BY <1>4, <2>1, ProveInitialEvaluationEffect
    <3>3. /\ d.initialReply = reply /\ d.evaluateTask = c.evaluateTask
          /\ d.initialScore = reply.score /\ d.finalScore = reply.score
      BY <1>a DEF Contribution
    <3> HIDE DEF d
    <3> QED
      BY <2>1, <3>1, <3>2, <3>3 DEF KeyInv
  <2>2. CASE reply.contribution # k
    BY <1>4, <1>a, <2>2, KeyKept DEF ProveInitialEvaluation
  <2> QED
    BY <2>1, <2>2
<1>5. ASSUME NEW reply \in replies, ProveAppealEvaluation(reply) PROVE KeyInv(k)'
  <2>1. CASE reply.contribution = k
    <3> DEFINE c == contributions[k]
               d == [c EXCEPT !.appealEvaluated = TRUE, !.finalScore = reply.score,
                              !.appealReply = reply]
    <3>1. contributions'[k] = d /\ reply \in proven'
      BY <1>5, <1>a, <2>1 DEF ProveAppealEvaluation
    <3>2. /\ d.initialEvaluated = c.initialEvaluated /\ d.initialReply = c.initialReply
          /\ d.evaluateTask = c.evaluateTask /\ d.initialScore = c.initialScore
          /\ d.finalScore = reply.score /\ d.appealEvaluated = TRUE /\ d.appealReply = reply
      BY <1>a DEF Contribution
    <3> HIDE DEF d
    <3> QED
      BY <1>a, <2>1, <3>1, <3>2 DEF KeyInv
  <2>2. CASE reply.contribution # k
    BY <1>5, <1>a, <2>2, KeyKept DEF ProveAppealEvaluation
  <2> QED
    BY <2>1, <2>2
<1>6. CASE contributions' = contributions
  BY <1>6, <1>a, KeyKept
<1>7. CASE \/ Run \/ Tick \/ UNCHANGED vars
           \/ \E r \in Rounds : \/ CloseCollection(r) \/ OpenAppealPhase(r)
                                \/ SubmitRoundSummary(r) \/ SettleRound(r)
                                \/ PrepareOpenAppeal(r) \/ PrepareRoundSummary(r)
           \/ \E j \in SourceKeys, score \in Scores :
                  SubmitInitialEvaluation(j, score) \/ SubmitAppealEvaluation(j, score)
           \/ \E a \in Agents, w \in Addresses : SetWallet(a, w)
  <2>1. contributions' = contributions
    BY <1>7 DEF Run, Tick, vars, CloseCollection, OpenAppealPhase, SubmitRoundSummary,
                SettleRound, PrepareOpenAppeal, PrepareRoundSummary,
                SubmitInitialEvaluation, SubmitAppealEvaluation, SetWallet
  <2> QED
    BY <1>6, <2>1
<1> QED
  BY <1>1, <1>2, <1>3, <1>4, <1>5, <1>7 DEF Next, OnAgentReply, OnAgentProve

\* What of a round its transitions set, its counters aside.
SameAnchors(r) ==
    /\ rounds'[r].phase = rounds[r].phase
    /\ rounds'[r].closeReply = rounds[r].closeReply
    /\ rounds'[r].openAppealReply = rounds[r].openAppealReply
    /\ rounds'[r].appealTask = rounds[r].appealTask
    /\ rounds'[r].appealDeadline = rounds[r].appealDeadline
    /\ rounds'[r].summaryTask = rounds[r].summaryTask
    /\ rounds'[r].settlementTask = rounds[r].settlementTask

\* A counter of one round has changed.
LEMMA CounterChanged ==
    ASSUME TypeOK, NEW q \in Rounds, NEW r \in Rounds, NEW m, NEW n,
           \/ rounds' = [rounds EXCEPT ![q] = [rounds[q] EXCEPT !.contributionCount = m]]
           \/ rounds' = [rounds EXCEPT ![q] = [rounds[q] EXCEPT
                            !.initialEvaluatedCount = m, !.totalFinalScore = n]]
           \/ rounds' = [rounds EXCEPT ![q] = [rounds[q] EXCEPT
                            !.pendingAppealEvaluationCount = m]]
           \/ rounds' = [rounds EXCEPT ![q] = [rounds[q] EXCEPT
                            !.totalFinalScore = n, !.pendingAppealEvaluationCount = m]]
    PROVE  SameAnchors(r)
<1>1. rounds \in [Rounds -> Round] /\ rounds[q] \in Round
  BY DEF TypeOK
<1>2. CASE rounds' = [rounds EXCEPT ![q] = [rounds[q] EXCEPT !.contributionCount = m]]
  BY <1>1, <1>2 DEF SameAnchors, Round
<1>3. CASE rounds' = [rounds EXCEPT ![q] = [rounds[q] EXCEPT
                        !.initialEvaluatedCount = m, !.totalFinalScore = n]]
  BY <1>1, <1>3 DEF SameAnchors, Round
<1>4. CASE rounds' = [rounds EXCEPT ![q] = [rounds[q] EXCEPT !.pendingAppealEvaluationCount = m]]
  BY <1>1, <1>4 DEF SameAnchors, Round
<1>5. CASE rounds' = [rounds EXCEPT ![q] = [rounds[q] EXCEPT
                        !.totalFinalScore = n, !.pendingAppealEvaluationCount = m]]
  BY <1>1, <1>5 DEF SameAnchors, Round
<1> QED
  BY <1>2, <1>3, <1>4, <1>5

\* The steps of contributions and evaluations change counters only.
LEMMA CountersOnly ==
    ASSUME TypeOK, Links, NEW r \in Rounds,
           \/ \E q \in Rounds, k \in SourceKeys, a \in Agents, s \in Wallets,
                 reviewed \in SourceKeys \cup {NoKey} : SubmitContribution(q, k, a, reviewed, s)
           \/ \E reply \in replies : ProveInitialEvaluation(reply)
           \/ \E reply \in replies : ProveAppealEvaluation(reply)
           \/ \E k \in SourceKeys, s \in Wallets : SubmitAppeal(k, s)
           \/ \E k \in SourceKeys, s \in Wallets : AppendSupportingMaterial(k, s)
           \/ \E k \in SourceKeys, score \in Scores : SubmitInitialEvaluation(k, score)
           \/ \E k \in SourceKeys, score \in Scores : SubmitAppealEvaluation(k, score)
           \/ Tick \/ \E a \in Agents, w \in Addresses : SetWallet(a, w)
           \/ UNCHANGED vars
    PROVE  SameAnchors(r)
<1>1. ASSUME NEW q \in Rounds, NEW k \in SourceKeys, NEW a \in Agents,
             NEW reviewed \in SourceKeys \cup {NoKey}, NEW s \in Wallets,
             SubmitContribution(q, k, a, reviewed, s)
      PROVE  SameAnchors(r)
  <2>1. rounds' = [rounds EXCEPT ![q] = [rounds[q] EXCEPT
                     !.contributionCount = rounds[q].contributionCount + 1]]
    BY <1>1, SubmitContributionEffect
  <2> QED
    BY <2>1, CounterChanged
<1>2. ASSUME NEW reply \in replies, ProveInitialEvaluation(reply) PROVE SameAnchors(r)
  <2> DEFINE q == reply.run
  <2>1. /\ q \in Rounds
        /\ rounds' = [rounds EXCEPT ![q] = [rounds[q] EXCEPT
                        !.initialEvaluatedCount = rounds[q].initialEvaluatedCount + 1,
                        !.totalFinalScore = rounds[q].totalFinalScore + reply.score]]
    BY <1>2, ProveInitialEvaluationEffect
  <2> HIDE DEF q
  <2> QED
    BY <2>1, CounterChanged
<1>3. ASSUME NEW reply \in replies, ProveAppealEvaluation(reply) PROVE SameAnchors(r)
  <2> DEFINE q == reply.run
             total == rounds[q].totalFinalScore
                        - contributions[reply.contribution].finalScore + reply.score
  <2>1. /\ q \in Rounds
        /\ rounds' = [rounds EXCEPT ![q] = [rounds[q] EXCEPT
                        !.totalFinalScore = total,
                        !.pendingAppealEvaluationCount =
                            rounds[q].pendingAppealEvaluationCount - 1]]
    BY <1>3, ProveAppealEvaluationEffect
  <2> HIDE DEF q, total
  <2> QED
    BY <2>1, CounterChanged
<1>4. ASSUME NEW k \in SourceKeys, NEW s \in Wallets, SubmitAppeal(k, s) PROVE SameAnchors(r)
  <2> DEFINE q == contributions[k].run
  <2>1. /\ q \in Rounds
        /\ rounds' = [rounds EXCEPT ![q] = [rounds[q] EXCEPT
                        !.pendingAppealEvaluationCount =
                            rounds[q].pendingAppealEvaluationCount + 1]]
    BY <1>4, SubmitAppealEffect
  <2> HIDE DEF q
  <2> QED
    BY <2>1, CounterChanged
<1>5. CASE \/ \E k \in SourceKeys, s \in Wallets : AppendSupportingMaterial(k, s)
           \/ \E k \in SourceKeys, score \in Scores : SubmitInitialEvaluation(k, score)
           \/ \E k \in SourceKeys, score \in Scores : SubmitAppealEvaluation(k, score)
           \/ Tick \/ \E a \in Agents, w \in Addresses : SetWallet(a, w)
           \/ UNCHANGED vars
  <2>1. rounds' = rounds
    BY <1>5 DEF AppendSupportingMaterial, SubmitInitialEvaluation, SubmitAppealEvaluation,
                Tick, SetWallet, vars
  <2> QED
    BY <2>1 DEF SameAnchors
<1> QED
  BY <1>1, <1>2, <1>3, <1>4, <1>5

\* A round that keeps its phase and its replies keeps its gates.
LEMMA GateKept ==
    ASSUME NEW r \in Rounds, GateInv(r), proven \subseteq proven',
           rounds'[r].phase = rounds[r].phase, rounds'[r].closeReply = rounds[r].closeReply,
           rounds'[r].openAppealReply = rounds[r].openAppealReply
    PROVE  GateInv(r)'
BY DEF GateInv

\* A phase is entered with a proven reply.
LEMMA GatesStep ==
    ASSUME SettlementInv, EvidenceInv, [Next]_vars, NEW r \in Rounds
    PROVE  GateInv(r)'
<1> USE DEF SettlementInv
<1>a. /\ GateInv(r) /\ proven \subseteq proven'
      /\ rounds[r] \in Round /\ rounds \in [Rounds -> Round]
  BY Onward, PartTypes DEF EvidenceInv, TypeOK
<1>0. CASE rounds'[r] = rounds[r]
  BY <1>0, <1>a, GateKept
<1>1. CASE Run
  <2>1. \/ rounds'[r] = rounds[r]
        \/ rounds'[r] = NewRound("Open", StoredTime(now), StoredTime(now + RoundDuration))
    BY <1>1, <1>a DEF Run
  <2>2. CASE rounds'[r] = NewRound("Open", StoredTime(now), StoredTime(now + RoundDuration))
    BY <2>2 DEF NewRound, GateInv
  <2> QED
    BY <1>0, <2>1, <2>2
<1>2. CASE CloseCollection(r)
  <2> DEFINE reply == Reply(r, 1, "CloseCollection", NoKey, 0)
  <2>1. /\ rounds'[r].phase = "Evaluating" /\ rounds'[r].closeReply = reply
        /\ reply \in proven'
    BY <1>2, <1>a DEF CloseCollection, AnchorProven, Round
  <2> HIDE DEF reply
  <2> QED
    BY <2>1 DEF GateInv
<1>3. CASE OpenAppealPhase(r)
  <2> DEFINE reply == Reply(r, rounds[r].openAppealTask, "OpenAppealPhase", NoKey, 0)
  <2>1. /\ rounds[r].phase = "Evaluating" /\ rounds'[r].phase = "Appealing"
        /\ rounds'[r].openAppealReply = reply
        /\ rounds'[r].closeReply = rounds[r].closeReply /\ reply \in proven'
    BY <1>3, <1>a DEF OpenAppealPhase, AnchorProven, Round
  <2>2. reply.contribution = NoKey
    BY DEF Reply
  <2> HIDE DEF reply
  <2> QED
    BY <1>a, <2>1, <2>2 DEF GateInv
<1>4. CASE SettleRound(r)
  <2>1. /\ rounds[r].phase = "Appealing" /\ rounds'[r].phase = "Settled"
        /\ rounds'[r].openAppealReply = rounds[r].openAppealReply
        /\ rounds'[r].closeReply = rounds[r].closeReply
    BY <1>4, <1>a DEF SettleRound, Settleable, Round
  <2> QED
    BY <1>a, <2>1 DEF GateInv
<1>5. CASE \/ PrepareOpenAppeal(r) \/ PrepareRoundSummary(r) \/ SubmitRoundSummary(r)
  <2>1. /\ rounds'[r].phase = rounds[r].phase /\ rounds'[r].closeReply = rounds[r].closeReply
        /\ rounds'[r].openAppealReply = rounds[r].openAppealReply
    BY <1>5, <1>a DEF PrepareOpenAppeal, PrepareRoundSummary, SubmitRoundSummary, Round
  <2> QED
    BY <1>a, <2>1, GateKept
<1>6. ASSUME NEW q \in Rounds, q # r,
             \/ CloseCollection(q) \/ OpenAppealPhase(q) \/ SubmitRoundSummary(q)
             \/ SettleRound(q) \/ PrepareOpenAppeal(q) \/ PrepareRoundSummary(q)
      PROVE  GateInv(r)'
  <2>1. rounds'[r] = rounds[r]
    BY <1>6, <1>a DEF CloseCollection, OpenAppealPhase, SubmitRoundSummary, SettleRound,
                      PrepareOpenAppeal, PrepareRoundSummary
  <2> QED
    BY <1>0, <2>1
<1>7. SameAnchors(r) => GateInv(r)'
  BY <1>a, GateKept DEF SameAnchors
<1> QED
  BY <1>1, <1>2, <1>3, <1>4, <1>5, <1>6, <1>7, CountersOnly
     DEF Next, OnAgentReply, OnAgentProve

\* The evidence stays sound.
LEMMA EvidenceStep ==
    ASSUME SettlementInv, SettlementInv', EvidenceInv, [Next]_vars
    PROVE  EvidenceInv'
<1>1. TasksInv'
  BY TasksStep
<1>2. \A k \in SourceKeys : KeyInv(k)'
  BY KeysStep
<1>3. \A r \in Rounds : GateInv(r)'
  BY GatesStep
<1> QED
  BY <1>1, <1>2, <1>3 DEF EvidenceInv

\* Before the first run there is no evidence.
LEMMA EvidenceInit == Init => EvidenceInv
BY DEF Init, EvidenceInv, TasksInv, KeyInv, GateInv, NewContribution, NewRound

\* Every task of a round follows from replies that were proven before, and the
\* accepted initial evaluation answers the latest material (onAgentProve,
\* prepareOpenAppeal, prepareRoundSummary).
THEOREM SoundEvidence == Spec => []EvidenceSound
<1>1. EvidenceInv => EvidenceSound
  BY DEF EvidenceInv, TasksInv, KeyInv, EvidenceSound
<1> QED
  BY <1>1, EvidenceInit, EvidenceStep, SettlementInvariant, PTL DEF Spec

-----------------------------------------------------------------------------
(* What a closed collection and a settlement leave alone                   *)

\* The task an evaluation of contribution k has to answer, and its round, move
\* only while the round collects.
EvidenceMoves(k) ==
    \/ /\ contributions'[k].exists = contributions[k].exists
       /\ contributions'[k].run = contributions[k].run
       /\ contributions'[k].evaluateTask = contributions[k].evaluateTask
    \/ /\ contributions[k].exists => contributions[k].run = contributions'[k].run
       /\ contributions'[k].exists /\ rounds[contributions'[k].run].phase = "Open"

\* Material and new contributions need an open round.
LEMMA EvidenceMovesStep ==
    ASSUME TypeOK, Links, [Next]_vars, NEW k \in SourceKeys
    PROVE  EvidenceMoves(k)
<1>a. contributions[k] \in Contribution /\ contributions \in [SourceKeys -> Contribution]
  BY PartTypes DEF TypeOK
<1>0. CASE contributions'[k] = contributions[k]
  BY <1>0 DEF EvidenceMoves
<1>1. ASSUME NEW r \in Rounds, NEW j \in SourceKeys, NEW a \in Agents,
             NEW reviewed \in SourceKeys \cup {NoKey}, NEW s \in Wallets,
             SubmitContribution(r, j, a, reviewed, s)
      PROVE  EvidenceMoves(k)
  <2>1. CASE j = k
    BY <1>1, <2>1, SubmitContributionEffect DEF EvidenceMoves
  <2>2. CASE j # k
    BY <1>0, <1>1, <1>a, <2>2 DEF SubmitContribution
  <2> QED
    BY <2>1, <2>2
<1>2. ASSUME NEW j \in SourceKeys, NEW s \in Wallets, AppendSupportingMaterial(j, s)
      PROVE  EvidenceMoves(k)
  <2>1. CASE j = k
    <3>1. contributions[k].exists /\ rounds[contributions[k].run].phase = "Open"
      BY <1>2, <2>1 DEF AppendSupportingMaterial, TakesMaterial
    <3>2. SameContribution(k)
      BY <1>2, AppendSupportingMaterialEffect
    <3> QED
      BY <3>1, <3>2 DEF EvidenceMoves, SameContribution
  <2>2. CASE j # k
    BY <1>0, <1>2, <1>a, <2>2 DEF AppendSupportingMaterial
  <2> QED
    BY <2>1, <2>2
<1>3. ASSUME NEW j \in SourceKeys, NEW c,
             \/ \E m : contributions' = [contributions EXCEPT ![j] = [contributions[j] EXCEPT
                          !.appealed = TRUE, !.reevaluateTask = m]]
             \/ contributions' = [contributions EXCEPT ![j] = [contributions[j] EXCEPT
                          !.initialEvaluated = TRUE, !.initialScore = c.score,
                          !.finalScore = c.score, !.initialReply = c]]
             \/ contributions' = [contributions EXCEPT ![j] = [contributions[j] EXCEPT
                          !.appealEvaluated = TRUE, !.finalScore = c.score, !.appealReply = c]]
      PROVE  EvidenceMoves(k)
  <2>1. CASE j = k
    <3>1. /\ contributions'[k].exists = contributions[k].exists
          /\ contributions'[k].run = contributions[k].run
          /\ contributions'[k].evaluateTask = contributions[k].evaluateTask
      <4>1. CASE \E m : contributions' = [contributions EXCEPT ![j] = [contributions[j] EXCEPT
                          !.appealed = TRUE, !.reevaluateTask = m]]
        BY <1>a, <2>1, <4>1 DEF Contribution
      <4>2. CASE contributions' = [contributions EXCEPT ![j] = [contributions[j] EXCEPT
                          !.initialEvaluated = TRUE, !.initialScore = c.score,
                          !.finalScore = c.score, !.initialReply = c]]
        BY <1>a, <2>1, <4>2 DEF Contribution
      <4>3. CASE contributions' = [contributions EXCEPT ![j] = [contributions[j] EXCEPT
                          !.appealEvaluated = TRUE, !.finalScore = c.score, !.appealReply = c]]
        BY <1>a, <2>1, <4>3 DEF Contribution
      <4> QED
        BY <1>3, <4>1, <4>2, <4>3
    <3> QED
      BY <3>1 DEF EvidenceMoves
  <2>2. CASE j # k
    BY <1>0, <1>3, <1>a, <2>2
  <2> QED
    BY <2>1, <2>2
<1>4. ASSUME NEW j \in SourceKeys, NEW s \in Wallets, SubmitAppeal(j, s) PROVE EvidenceMoves(k)
  BY <1>3, <1>4 DEF SubmitAppeal
<1>5. ASSUME NEW reply \in replies, ProveInitialEvaluation(reply) PROVE EvidenceMoves(k)
  <2>1. reply.contribution \in SourceKeys
    BY <1>5, ProveInitialEvaluationEffect
  <2> QED
    BY <1>3, <1>5, <2>1 DEF ProveInitialEvaluation
<1>6. ASSUME NEW reply \in replies, ProveAppealEvaluation(reply) PROVE EvidenceMoves(k)
  <2>1. reply.contribution \in SourceKeys
    BY <1>6, ProveAppealEvaluationEffect
  <2> QED
    BY <1>3, <1>6, <2>1 DEF ProveAppealEvaluation
<1>7. CASE \/ Run \/ Tick \/ UNCHANGED vars
           \/ \E r \in Rounds : \/ CloseCollection(r) \/ OpenAppealPhase(r)
                                \/ SubmitRoundSummary(r) \/ SettleRound(r)
                                \/ PrepareOpenAppeal(r) \/ PrepareRoundSummary(r)
           \/ \E j \in SourceKeys, score \in Scores :
                  SubmitInitialEvaluation(j, score) \/ SubmitAppealEvaluation(j, score)
           \/ \E a \in Agents, w \in Addresses : SetWallet(a, w)
  <2>1. contributions' = contributions
    BY <1>7 DEF Run, Tick, vars, CloseCollection, OpenAppealPhase, SubmitRoundSummary,
                SettleRound, PrepareOpenAppeal, PrepareRoundSummary,
                SubmitInitialEvaluation, SubmitAppealEvaluation, SetWallet
  <2> QED
    BY <1>0, <2>1
<1> QED
  BY <1>1, <1>2, <1>4, <1>5, <1>6, <1>7 DEF Next, OnAgentReply, OnAgentProve

\* From _submitCloseCollection on, no contribution joins the round and none gets
\* material, so that no pending evaluation of it becomes stale.
THEOREM CloseFreezes == Spec => CloseFreezesEvidence
<1>1. ASSUME SettlementInv, [Next]_vars, NEW r \in Rounds, rounds[r].phase \notin {"None", "Open"}
      PROVE  /\ ContributionsOf(r)' = ContributionsOf(r)
             /\ \A k \in ContributionsOf(r) :
                   contributions'[k].evaluateTask = contributions[k].evaluateTask
  <2>1. \A k \in SourceKeys : EvidenceMoves(k)
    BY <1>1, EvidenceMovesStep DEF SettlementInv
  <2> QED
    BY <1>1, <2>1 DEF EvidenceMoves, ContributionsOf
<1>2. SettlementInv /\ [Next]_vars =>
        [\A r \in Rounds :
          rounds[r].phase \notin {"None", "Open"} =>
              /\ ContributionsOf(r)' = ContributionsOf(r)
              /\ \A k \in ContributionsOf(r) :
                    contributions'[k].evaluateTask = contributions[k].evaluateTask]_vars
  BY <1>1
<1> QED
  BY <1>2, SettlementInvariant, PTL DEF Spec, CloseFreezesEvidence

-----------------------------------------------------------------------------
(* The summary and the appeal window                                       *)

\* Without a step of its own the window of a round stays as it is: what the
\* summary joined is frozen.
LEMMA WindowKept ==
    ASSUME SettlementInv, SummaryInv, [Next]_vars, NEW r \in Rounds,
           SameAnchors(r) \/ SubmitRoundSummary(r) \/ SettleRound(r)
    PROVE  WindowInv(r)'
<1> USE DEF SettlementInv
<1>a. WindowInv(r) /\ Grown(r) /\ rounds[r] \in Round /\ rounds \in [Rounds -> Round]
  BY Onward, PartTypes DEF SummaryInv, TypeOK
<1>1. /\ rounds'[r].openAppealReply = rounds[r].openAppealReply
      /\ rounds'[r].appealTask = rounds[r].appealTask
      /\ rounds'[r].appealDeadline = rounds[r].appealDeadline
      /\ rounds'[r].summaryTask = rounds[r].summaryTask
      /\ rounds'[r].phase \in {"Appealing", "Settled"}
           <=> rounds[r].phase \in {"Appealing", "Settled"}
  <2>1. CASE SameAnchors(r)
    BY <2>1 DEF SameAnchors
  <2>2. CASE SettleRound(r)
    BY <1>a, <2>2 DEF SettleRound, Settleable, Round
  <2>3. CASE SubmitRoundSummary(r)
    BY <1>a, <2>3 DEF SubmitRoundSummary, Round
  <2> QED
    BY <2>1, <2>2, <2>3
<1>2. ASSUME rounds[r].appealTask # 0
      PROVE  /\ rounds[r].appealTask \in 1 .. Len(tasks'[r])
             /\ tasks'[r][rounds[r].appealTask] = tasks[r][rounds[r].appealTask]
  BY <1>a, <1>2 DEF WindowInv, Grown
<1>3. ASSUME rounds[r].summaryTask # 0
      PROVE  /\ rounds[r].summaryTask \in 1 .. Len(tasks'[r])
             /\ tasks'[r][rounds[r].summaryTask] = tasks[r][rounds[r].summaryTask]
             /\ Joined(r)' = Joined(r)
  <2>1. Unmoved(r)
    BY <1>3, FreezeStep DEF CountInv
  <2>2. \A k \in ContributionsOf(r) : FinalReply(k)' = FinalReply(k)
    BY <2>1 DEF Unmoved, FinalReply
  <2>3. Joined(r)' = Joined(r)
    BY <1>1, <2>1, <2>2 DEF Unmoved, Joined
  <2> QED
    BY <1>a, <1>3, <2>3 DEF WindowInv, Grown
<1> QED
  BY <1>a, <1>1, <1>2, <1>3 DEF WindowInv

\* openAppealPhase begins the window, and prepareRoundSummary waits for its end.
LEMMA WindowsStep ==
    ASSUME SettlementInv, SummaryInv, [Next]_vars, NEW r \in Rounds
    PROVE  WindowInv(r)'
<1> USE DEF SettlementInv
<1>a. /\ WindowInv(r) /\ Grown(r) /\ FrozenOf(r)
      /\ rounds[r] \in Round /\ rounds \in [Rounds -> Round]
      /\ NextTask(r) \in Nat \ {0}
  BY Onward, PartTypes DEF SummaryInv, TypeOK, Frozen
<1>0. CASE rounds'[r] = rounds[r]
  BY <1>0, WindowKept DEF SameAnchors
<1>1. CASE Run
  <2>1. \/ rounds'[r] = rounds[r]
        \/ rounds'[r] = NewRound("Open", StoredTime(now), StoredTime(now + RoundDuration))
    BY <1>1, <1>a DEF Run
  <2>2. CASE rounds'[r] = NewRound("Open", StoredTime(now), StoredTime(now + RoundDuration))
    BY <2>2 DEF NewRound, WindowInv
  <2> QED
    BY <1>0, <2>1, <2>2
<1>2. CASE CloseCollection(r)
  <2>1. /\ rounds[r].phase = "Open" /\ rounds'[r].phase = "Evaluating"
        /\ rounds'[r].appealTask = rounds[r].appealTask
        /\ rounds'[r].summaryTask = rounds[r].summaryTask
    BY <1>2, <1>a DEF CloseCollection, Closable, Round
  <2> QED
    BY <1>a, <2>1 DEF WindowInv, FrozenOf
<1>3. CASE OpenAppealPhase(r)
  <2>1. /\ rounds[r].phase = "Evaluating" /\ rounds'[r].phase = "Appealing"
        /\ rounds'[r].appealTask = NextTask(r)
        /\ rounds'[r].appealDeadline = StoredTime(now + AppealDuration)
        /\ rounds'[r].summaryTask = rounds[r].summaryTask
    BY <1>3, <1>a DEF OpenAppealPhase, Round
  <2>2. rounds[r].summaryTask = 0
    BY <1>a, <2>1 DEF FrozenOf
  <2>3. NextTask(r) \in 1 .. Len(tasks'[r]) /\ tasks'[r][NextTask(r)].timestamp = now
    <3> DEFINE prev == {Reply(r, rounds[r].openAppealTask, "OpenAppealPhase", NoKey, 0)}
               known == proven \cup prev
               task == [stage |-> "AppealContribution", timestamp |-> now, prev |-> prev,
                        proven |-> prev \subseteq known]
    <3>1. StoreTask(r, "AppealContribution", prev, known)
      BY <1>3 DEF OpenAppealPhase
    <3> HIDE DEF prev, known
    <3>2. /\ Len(tasks'[r]) = NextTask(r) /\ tasks'[r][NextTask(r)] = task
      BY <3>1, NewTask
    <3>3. task.timestamp = now
      OBVIOUS
    <3> HIDE DEF task
    <3> QED
      BY <1>a, <3>2, <3>3
  <2> QED
    BY <1>a, <2>1, <2>2, <2>3 DEF WindowInv
<1>4. CASE PrepareRoundSummary(r)
  <2>1. /\ rounds[r].phase = "Appealing" /\ now > rounds[r].appealDeadline
        /\ rounds'[r].phase = rounds[r].phase
        /\ rounds'[r].appealTask = rounds[r].appealTask
        /\ rounds'[r].appealDeadline = rounds[r].appealDeadline
        /\ rounds'[r].openAppealReply = rounds[r].openAppealReply
        /\ rounds'[r].summaryTask = NextTask(r)
        /\ contributions' = contributions
    BY <1>4, <1>a DEF PrepareRoundSummary, Summarizable, Round
  <2>2. Joined(r)' = Joined(r)
    BY <2>1 DEF Joined, FinalReply, ContributionsOf
  <2>3. /\ NextTask(r) \in 1 .. Len(tasks'[r])
        /\ tasks'[r][NextTask(r)].timestamp = now /\ tasks'[r][NextTask(r)].prev = Joined(r)
    <3> DEFINE prev == Joined(r)
               task == [stage |-> "SummarizeRound", timestamp |-> now, prev |-> prev,
                        proven |-> prev \subseteq proven]
    <3>1. StoreTask(r, "SummarizeRound", prev, proven)
      BY <1>4 DEF PrepareRoundSummary, Joined
    <3> HIDE DEF prev
    <3>2. Len(tasks'[r]) = NextTask(r) /\ tasks'[r][NextTask(r)] = task
      BY <3>1, NewTask
    <3>3. task.timestamp = now /\ task.prev = prev
      OBVIOUS
    <3> HIDE DEF task
    <3> QED
      BY <1>a, <3>2, <3>3 DEF prev
  <2>4. rounds[r].appealTask # 0 =>
          /\ rounds[r].appealTask \in 1 .. Len(tasks'[r])
          /\ tasks'[r][rounds[r].appealTask] = tasks[r][rounds[r].appealTask]
    BY <1>a DEF WindowInv, Grown
  <2> QED
    BY <1>a, <2>1, <2>2, <2>3, <2>4 DEF WindowInv
<1>5. CASE PrepareOpenAppeal(r)
  <2>1. SameAnchors(r)
    BY <1>5, <1>a DEF PrepareOpenAppeal, SameAnchors, Round
  <2> QED
    BY <2>1, WindowKept
<1>6. ASSUME NEW q \in Rounds, q # r,
             \/ CloseCollection(q) \/ OpenAppealPhase(q) \/ SubmitRoundSummary(q)
             \/ SettleRound(q) \/ PrepareOpenAppeal(q) \/ PrepareRoundSummary(q)
      PROVE  WindowInv(r)'
  <2>1. rounds'[r] = rounds[r]
    BY <1>6, <1>a DEF CloseCollection, OpenAppealPhase, SubmitRoundSummary, SettleRound,
                      PrepareOpenAppeal, PrepareRoundSummary
  <2> QED
    BY <1>0, <2>1
<1>7. CASE SameAnchors(r) \/ SubmitRoundSummary(r) \/ SettleRound(r)
  BY <1>7, WindowKept
<1> QED
  BY <1>1, <1>2, <1>3, <1>4, <1>5, <1>6, <1>7, CountersOnly
     DEF Next, OnAgentReply, OnAgentProve

\* The window of a round, once begun, is not moved.
LEMMA WindowFixed ==
    ASSUME SettlementInv, SummaryInv, [Next]_vars, NEW r \in Rounds, rounds[r].appealTask # 0
    PROVE  /\ rounds'[r].appealTask = rounds[r].appealTask
           /\ rounds'[r].appealDeadline = rounds[r].appealDeadline
<1> USE DEF SettlementInv
<1>a. /\ rounds[r].phase \in {"Appealing", "Settled"}
      /\ rounds[r] \in Round /\ rounds \in [Rounds -> Round]
  BY PartTypes DEF SummaryInv, WindowInv, TypeOK
<1>1. ASSUME Run PROVE rounds'[r] = rounds[r]
  <2>1. r # currentRound + 1
    <3>1. currentRound \in Nat /\ r \in Nat
      BY PartTypes, ConstantsAssumption DEF TypeOK, Rounds
    <3> QED
      BY <1>1, <1>a, <3>1 DEF RoundsInOrder
  <2> QED
    BY <1>1, <1>a, <2>1 DEF Run
<1>2. ~CloseCollection(r) /\ ~OpenAppealPhase(r) /\ ~PrepareOpenAppeal(r)
  BY <1>a DEF CloseCollection, Closable, OpenAppealPhase, PrepareOpenAppeal, ReadyForAppeals
<1>3. ASSUME SettleRound(r) \/ PrepareRoundSummary(r) \/ SubmitRoundSummary(r)
      PROVE  /\ rounds'[r].appealTask = rounds[r].appealTask
             /\ rounds'[r].appealDeadline = rounds[r].appealDeadline
  <2>1. CASE SettleRound(r)
    BY <1>a, <2>1 DEF SettleRound, Round
  <2>2. CASE PrepareRoundSummary(r)
    BY <1>a, <2>2 DEF PrepareRoundSummary, Round
  <2>3. CASE SubmitRoundSummary(r)
    BY <1>a, <2>3 DEF SubmitRoundSummary, Round
  <2> QED
    BY <1>3, <2>1, <2>2, <2>3
<1>4. ASSUME NEW q \in Rounds, q # r,
             \/ CloseCollection(q) \/ OpenAppealPhase(q) \/ SubmitRoundSummary(q)
             \/ SettleRound(q) \/ PrepareOpenAppeal(q) \/ PrepareRoundSummary(q)
      PROVE  rounds'[r] = rounds[r]
  BY <1>4, <1>a DEF CloseCollection, OpenAppealPhase, SubmitRoundSummary, SettleRound,
                    PrepareOpenAppeal, PrepareRoundSummary
<1>5. SameAnchors(r) => /\ rounds'[r].appealTask = rounds[r].appealTask
                        /\ rounds'[r].appealDeadline = rounds[r].appealDeadline
  BY DEF SameAnchors
<1> QED
  BY <1>1, <1>2, <1>3, <1>4, <1>5, CountersOnly DEF Next, OnAgentReply, OnAgentProve

\* Only an appeal makes a reevaluation task.
LEMMA AppealMoves ==
    ASSUME TypeOK, Links, [Next]_vars, NEW k \in SourceKeys, contributions'[k].appealed
    PROVE  \/ /\ contributions[k].appealed
              /\ contributions'[k].run = contributions[k].run
              /\ contributions'[k].reevaluateTask = contributions[k].reevaluateTask
           \/ \E s \in Wallets : SubmitAppeal(k, s)
<1>a. contributions[k] \in Contribution /\ contributions \in [SourceKeys -> Contribution]
  BY PartTypes DEF TypeOK
<1> DEFINE Same == /\ contributions[k].appealed
                   /\ contributions'[k].run = contributions[k].run
                   /\ contributions'[k].reevaluateTask = contributions[k].reevaluateTask
<1>0. CASE contributions'[k] = contributions[k]
  BY <1>0
<1>1. ASSUME NEW r \in Rounds, NEW j \in SourceKeys, NEW a \in Agents,
             NEW reviewed \in SourceKeys \cup {NoKey}, NEW s \in Wallets,
             SubmitContribution(r, j, a, reviewed, s)
      PROVE  Same
  <2>1. j # k
    BY <1>1, SubmitContributionEffect
  <2> QED
    BY <1>0, <1>1, <1>a, <2>1 DEF SubmitContribution
<1>2. ASSUME NEW j \in SourceKeys, NEW s \in Wallets, AppendSupportingMaterial(j, s)
      PROVE  Same
  <2>1. j # k
    <3>1. SameContribution(k) /\ (j = k => ~contributions[k].appealed)
      BY <1>2, AppendSupportingMaterialEffect DEF AppendSupportingMaterial, TakesMaterial, Links
    <3> QED
      BY <3>1 DEF SameContribution
  <2> QED
    BY <1>0, <1>2, <1>a, <2>1 DEF AppendSupportingMaterial
<1>3. ASSUME NEW j \in SourceKeys, NEW s \in Wallets, SubmitAppeal(j, s), j # k PROVE Same
  BY <1>0, <1>3, <1>a DEF SubmitAppeal
<1>4. ASSUME NEW reply \in replies, ProveInitialEvaluation(reply) PROVE Same
  <2>1. reply.contribution # k
    BY <1>4, ProveInitialEvaluationEffect
  <2> QED
    BY <1>0, <1>4, <1>a, <2>1 DEF ProveInitialEvaluation
<1>5. ASSUME NEW reply \in replies, ProveAppealEvaluation(reply) PROVE Same
  <2>1. CASE reply.contribution = k
    <3>1. contributions[k].appealed
      BY <1>5, <2>1 DEF ProveAppealEvaluation, AcceptsReevaluation
    <3> DEFINE c == contributions[k]
               d == [c EXCEPT !.appealEvaluated = TRUE, !.finalScore = reply.score,
                              !.appealReply = reply]
    <3>2. contributions'[k] = d
      BY <1>5, <1>a, <2>1 DEF ProveAppealEvaluation
    <3>3. d.run = c.run /\ d.reevaluateTask = c.reevaluateTask
      BY <1>a DEF Contribution
    <3> HIDE DEF d
    <3> QED
      BY <3>1, <3>2, <3>3
  <2>2. CASE reply.contribution # k
    BY <1>0, <1>5, <1>a, <2>2 DEF ProveAppealEvaluation
  <2> QED
    BY <2>1, <2>2
<1>6. CASE \/ Run \/ Tick \/ UNCHANGED vars
           \/ \E r \in Rounds : \/ CloseCollection(r) \/ OpenAppealPhase(r)
                                \/ SubmitRoundSummary(r) \/ SettleRound(r)
                                \/ PrepareOpenAppeal(r) \/ PrepareRoundSummary(r)
           \/ \E j \in SourceKeys, score \in Scores :
                  SubmitInitialEvaluation(j, score) \/ SubmitAppealEvaluation(j, score)
           \/ \E a \in Agents, w \in Addresses : SetWallet(a, w)
  <2>1. contributions' = contributions
    BY <1>6 DEF Run, Tick, vars, CloseCollection, OpenAppealPhase, SubmitRoundSummary,
                SettleRound, PrepareOpenAppeal, PrepareRoundSummary,
                SubmitInitialEvaluation, SubmitAppealEvaluation, SetWallet
  <2> QED
    BY <1>0, <2>1
<1> QED
  BY <1>1, <1>2, <1>3, <1>4, <1>5, <1>6 DEF Next, OnAgentReply, OnAgentProve

\* Appeals stay within the window: _submitAppeal compares with the deadline.
LEMMA AppealsStep ==
    ASSUME SettlementInv, SummaryInv, [Next]_vars, NEW k \in SourceKeys
    PROVE  AppealInv(k)'
<1> USE DEF SettlementInv
<1> SUFFICES ASSUME contributions'[k].appealed PROVE AppealInv(k)'
  BY DEF AppealInv
<1>a. /\ AppealInv(k) /\ \A q \in Rounds : Grown(q) /\ WindowInv(q)
      /\ contributions \in [SourceKeys -> Contribution]
  BY Onward DEF SummaryInv, TypeOK
<1>1. CASE /\ contributions[k].appealed
           /\ contributions'[k].run = contributions[k].run
           /\ contributions'[k].reevaluateTask = contributions[k].reevaluateTask
  <2> DEFINE r == contributions[k].run
             t == contributions[k].reevaluateTask
  <2>1. r \in Rounds
    BY <1>1 DEF Links
  <2>2. /\ rounds[r].appealTask # 0 /\ t \in 1 .. Len(tasks[r])
        /\ tasks[r][t].timestamp <= rounds[r].appealDeadline
    BY <1>1, <1>a DEF AppealInv
  <2>3. /\ rounds'[r].appealTask = rounds[r].appealTask
        /\ rounds'[r].appealDeadline = rounds[r].appealDeadline
    BY <2>1, <2>2, WindowFixed
  <2>4. t \in 1 .. Len(tasks'[r]) /\ tasks'[r][t] = tasks[r][t]
    BY <1>a, <2>1, <2>2 DEF Grown
  <2> QED
    BY <1>1, <2>2, <2>3, <2>4 DEF AppealInv
<1>2. ASSUME NEW s \in Wallets, SubmitAppeal(k, s) PROVE AppealInv(k)'
  <2>r. PICK r \in Rounds : r = contributions[k].run
    BY <1>2, SubmitAppealEffect
  <2>1. /\ contributions'[k].run = r /\ rounds[r].phase = "Appealing"
        /\ now <= rounds[r].appealDeadline
    BY <1>2, <2>r, SubmitAppealEffect
  <2>2. rounds[r].appealTask # 0
    BY <1>a, <2>1 DEF WindowInv
  <2>3. /\ rounds'[r].appealTask = rounds[r].appealTask
        /\ rounds'[r].appealDeadline = rounds[r].appealDeadline
    BY <2>2, WindowFixed
  <2>4. contributions'[k].reevaluateTask = NextTask(r)
    <3> DEFINE c == contributions[k]
               d == [c EXCEPT !.appealed = TRUE, !.reevaluateTask = NextTask(c.run)]
    <3>1. contributions'[k] = d
      BY <1>2, <1>a DEF SubmitAppeal
    <3>2. d.reevaluateTask = NextTask(c.run)
      BY <1>a DEF Contribution
    <3> HIDE DEF d
    <3> QED
      BY <2>r, <3>1, <3>2
  <2>5. NextTask(r) \in 1 .. Len(tasks'[r]) /\ tasks'[r][NextTask(r)].timestamp = now
    <3> DEFINE prev == {Reply(r, rounds[r].appealTask, "SubmitAppeal", k, 0)}
               known == proven \cup prev
               task == [stage |-> "ReevaluateContribution", timestamp |-> now, prev |-> prev,
                        proven |-> prev \subseteq known]
    <3>1. StoreTask(r, "ReevaluateContribution", prev, known)
      BY <1>2, <2>r DEF SubmitAppeal
    <3> HIDE DEF prev, known
    <3>2. Len(tasks'[r]) = NextTask(r) /\ tasks'[r][NextTask(r)] = task
      BY <3>1, NewTask
    <3>3. task.timestamp = now /\ NextTask(r) \in Nat \ {0}
      BY PartTypes
    <3> HIDE DEF task
    <3> QED
      BY <3>2, <3>3
  <2> QED
    BY <2>1, <2>2, <2>3, <2>4, <2>5 DEF AppealInv
<1> QED
  BY <1>1, <1>2, AppealMoves

\* The summary stays what it is.
LEMMA SummaryStep ==
    ASSUME SettlementInv, SummaryInv, [Next]_vars
    PROVE  SummaryInv'
<1>1. now' <= MaxTime
  BY Onward, ConstantsAssumption DEF SummaryInv, SettlementInv, TypeOK
<1>2. \A r \in Rounds : WindowInv(r)'
  BY WindowsStep
<1>3. \A k \in SourceKeys : AppealInv(k)'
  BY AppealsStep
<1> QED
  BY <1>1, <1>2, <1>3 DEF SummaryInv

\* Before the first run there is no summary and no appeal.
LEMMA SummaryInit == Init => SummaryInv
BY ConstantsAssumption
   DEF Init, SummaryInv, WindowInv, AppealInv, NewContribution, NewRound

\* uint64 of a time that fits is that time.
LEMMA TimeFits == ASSUME NEW t \in Nat, t < TimeModulus PROVE StoredTime(t) = t
BY ConstantsAssumption DEF StoredTime

\* What the invariants say of the summary of round r.
LEMMA SummaryOf ==
    ASSUME SettlementInv, EvidenceInv, SummaryInv, MaxTime + AppealDuration < TimeModulus,
           NEW r \in Rounds
    PROVE  LET summary == rounds[r].summaryTask
               deadline == tasks[r][rounds[r].appealTask].timestamp + AppealDuration IN
           /\ summary # 0 =>
                \A k \in ContributionsOf(r) :
                   LET about == {reply \in tasks[r][summary].prev : reply.contribution = k} IN
                   /\ Cardinality(about) = 1
                   /\ \A reply \in about : reply.score = contributions[k].finalScore
           /\ summary # 0 => tasks[r][summary].timestamp > deadline
           /\ rounds[r].appealTask # 0 =>
                \A k \in ContributionsOf(r) :
                   contributions[k].appealed =>
                       tasks[r][contributions[k].reevaluateTask].timestamp <= deadline
<1> USE DEF SettlementInv
<1> DEFINE summary == rounds[r].summaryTask
           deadline == tasks[r][rounds[r].appealTask].timestamp + AppealDuration
<1>a. WindowInv(r) /\ FrozenOf(r) /\ GateInv(r)
  BY DEF SummaryInv, EvidenceInv, Frozen
<1>1. ASSUME summary # 0, NEW k \in ContributionsOf(r)
      PROVE  LET about == {reply \in tasks[r][summary].prev : reply.contribution = k} IN
             /\ Cardinality(about) = 1
             /\ \A reply \in about : reply.score = contributions[k].finalScore
  <2>1. /\ tasks[r][summary].prev = Joined(r)
        /\ Evaluated(r) = ContributionsOf(r) /\ Pending(r) = {}
        /\ rounds[r].openAppealReply.contribution = NoKey
    BY <1>a, <1>1 DEF WindowInv, FrozenOf, GateInv
  <2>2. \A j \in ContributionsOf(r) : /\ FinalReply(j).contribution = j
                                      /\ FinalReply(j).score = contributions[j].finalScore
    BY <2>1 DEF EvidenceInv, KeyInv, FinalReply, Evaluated, Pending, ContributionsOf, Links
  <2>3. k # NoKey
    BY ConstantsAssumption DEF ContributionsOf
  <2>4. {reply \in tasks[r][summary].prev : reply.contribution = k} = {FinalReply(k)}
    BY <2>1, <2>2, <2>3 DEF Joined
  <2>5. Cardinality({FinalReply(k)}) = 1
    BY FS_Singleton
  <2> QED
    BY <2>2, <2>4, <2>5
<1>2. ASSUME rounds[r].appealTask # 0 PROVE rounds[r].appealDeadline = deadline
  <2> DEFINE began == tasks[r][rounds[r].appealTask].timestamp
  <2>1. /\ rounds[r].appealTask \in 1 .. Len(tasks[r])
        /\ rounds[r].appealDeadline = StoredTime(began + AppealDuration)
    BY <1>a, <1>2 DEF WindowInv
  <2>2. tasks[r] \in Seq(Task)
    BY DEF TypeOK
  <2>3. tasks[r][rounds[r].appealTask] \in Task
    BY <2>1, <2>2
  <2>4. began \in Nat /\ began <= now /\ now \in Nat /\ now <= MaxTime
    BY <2>1, <2>3 DEF Task, EvidenceInv, TasksInv, SummaryInv, TypeOK
  <2> HIDE DEF began
  <2>5. began + AppealDuration \in Nat /\ began + AppealDuration < TimeModulus
    BY <2>4, ConstantsAssumption
  <2> QED
    BY <2>1, <2>5, TimeFits DEF began
<1>3. ASSUME summary # 0 PROVE tasks[r][summary].timestamp > deadline
  <2>1. rounds[r].appealTask # 0 /\ tasks[r][summary].timestamp > rounds[r].appealDeadline
    BY <1>a, <1>3 DEF WindowInv, FrozenOf
  <2> QED
    BY <1>2, <2>1
<1>4. ASSUME rounds[r].appealTask # 0, NEW k \in ContributionsOf(r), contributions[k].appealed
      PROVE  tasks[r][contributions[k].reevaluateTask].timestamp <= deadline
  <2>1. tasks[r][contributions[k].reevaluateTask].timestamp <= rounds[r].appealDeadline
    BY <1>4 DEF SummaryInv, AppealInv, ContributionsOf
  <2> QED
    BY <1>2, <1>4, <2>1
<1> QED
  BY <1>1, <1>3, <1>4

\* The summary joins exactly one proven evaluation of every contribution, with
\* the score it is settled at, and no agent's appeal window is cut short, as long
\* as the end of the window fits in the 64 bits it is stored in.
THEOREM SoundSummary ==
    ASSUME MaxTime + AppealDuration < TimeModulus
    PROVE  Spec => []SummarySound
<1>1. SettlementInv /\ EvidenceInv /\ SummaryInv => SummarySound
  BY SummaryOf DEF SummarySound
<1> QED
  BY <1>1, EvidenceInit, EvidenceStep, SummaryInit, SummaryStep, SettlementInvariant, PTL DEF Spec

-----------------------------------------------------------------------------
(* Sums over a finite set.  The recursion of MapThenSumSet is well founded  *)
(* because every set of numbers has a least one; each proof by induction on *)
(* the size of a set is one on a smallest counterexample.                   *)

\* The sum of the values v gives to the elements of S, as ScoreOf computes it.
Total(v, S) == MapThenSumSet(LAMBDA k : v[k], S)

\* The function that MapThenSumSet defines by recursion: g takes an element out of s,
\* whichever CHOOSE picks, until nothing is left.
Sums(g, v, S) ==
    g = [s \in SUBSET S |-> IF s = {} THEN 0
                            ELSE v[CHOOSE x \in s : TRUE] + g[s \ {CHOOSE x \in s : TRUE}]]

\* Every nonempty set of numbers has a least one.
LEMMA LeastNumber ==
    ASSUME NEW T, T \subseteq Nat, T # {}
    PROVE  \E n \in T : \A m \in T : n <= m
<1> DEFINE Less == {p \in Nat \X Nat : p[1] < p[2]}
<1>1. IsWellFoundedOn(Less, Nat)
  BY NatLessThanWellFounded DEF OpToRel
<1>2. \E n \in T : \A m \in T : <<m, n>> \notin Less
  <2> HIDE DEF Less
  <2> QED
    BY <1>1, WFMin
<1>3. PICK n \in T : \A m \in T : <<m, n>> \notin Less
  BY <1>2
<1>4. n \in Nat /\ \A m \in T : m \in Nat /\ ~(m < n)
  BY <1>3
<1> QED
  BY <1>4

\* What holds of a set when it holds of all the smaller ones holds of every finite set.
LEMMA SmallestSet ==
    ASSUME NEW S, IsFiniteSet(S), NEW Bad, Bad \subseteq SUBSET S, Bad # {}
    PROVE  \E s \in Bad : \A q \in SUBSET s : q # s => q \notin Bad
<1>1. \A s \in SUBSET S : IsFiniteSet(s) /\ Cardinality(s) \in Nat
  BY FS_Subset, FS_CardinalityType
<1> DEFINE sizes == {Cardinality(s) : s \in Bad}
<1>2. sizes \subseteq Nat /\ sizes # {}
  BY <1>1
<1>3. PICK n \in sizes : \A m \in sizes : n <= m
  <2> HIDE DEF sizes
  <2> QED
    BY <1>2, LeastNumber
<1>4. PICK s \in Bad : Cardinality(s) = n
  BY <1>3
<1>5. ASSUME NEW q \in SUBSET s, q # s PROVE q \notin Bad
  <2>1. Cardinality(q) < Cardinality(s)
    <3>1. IsFiniteSet(s) /\ IsFiniteSet(q) /\ Cardinality(s) \in Nat /\ Cardinality(q) \in Nat
      BY <1>1, <1>5
    <3>2. Cardinality(q) <= Cardinality(s) /\ Cardinality(q) # Cardinality(s)
      BY <1>5, <3>1, FS_Subset
    <3> QED
      BY <3>1, <3>2
  <2> QED
    BY <1>1, <1>3, <1>4, <2>1
<1> QED
  BY <1>5

\* One step of the recursion.
LEMMA SumsStep ==
    ASSUME NEW g, NEW v, NEW S, Sums(g, v, S), NEW s \in SUBSET S
    PROVE  /\ s = {} => g[s] = 0
           /\ s # {} => \E x \in s : x = (CHOOSE y \in s : TRUE) /\ g[s] = v[x] + g[s \ {x}]
<1>1. g[s] = IF s = {} THEN 0
             ELSE v[CHOOSE x \in s : TRUE] + g[s \ {CHOOSE x \in s : TRUE}]
  BY DEF Sums
<1>2. s # {} => (CHOOSE x \in s : TRUE) \in s
  OBVIOUS
<1> QED
  BY <1>1, <1>2

\* Where two value functions agree, the recursions agree.
LEMMA SumsUnique ==
    ASSUME NEW g, NEW v, NEW S, Sums(g, v, S), NEW h, NEW w, NEW T, Sums(h, w, T),
           NEW U, U \subseteq S, U \subseteq T, IsFiniteSet(U), \A x \in U : v[x] = w[x]
    PROVE  g[U] = h[U]
<1> DEFINE Bad == {s \in SUBSET U : g[s] # h[s]}
<1>1. ASSUME Bad # {} PROVE FALSE
  <2>1. PICK s \in Bad : \A q \in SUBSET s : q # s => q \notin Bad
    <3>1. Bad \subseteq SUBSET U
      OBVIOUS
    <3> HIDE DEF Bad
    <3> QED
      BY <1>1, <3>1, SmallestSet
  <2>2. s \in SUBSET U /\ s \in SUBSET S /\ s \in SUBSET T /\ g[s] # h[s]
    BY <2>1
  <2>3. s # {}
    BY <2>2, SumsStep
  <2>4. PICK x \in s : x = (CHOOSE y \in s : TRUE) /\ g[s] = v[x] + g[s \ {x}]
    BY <2>2, <2>3, SumsStep
  <2>5. PICK z \in s : z = (CHOOSE y \in s : TRUE) /\ h[s] = w[z] + h[s \ {z}]
    BY <2>2, <2>3, SumsStep
  <2>6. x = z /\ v[x] = w[x] /\ g[s \ {x}] = h[s \ {x}]
    BY <2>1, <2>2, <2>4, <2>5
  <2> QED
    BY <2>2, <2>4, <2>5, <2>6
<1>2. Bad = {} => g[U] = h[U]
  OBVIOUS
<1> QED
  BY <1>1, <1>2

\* Such a function exists for every finite set.
LEMMA SumsExist ==
    ASSUME NEW v, NEW S, IsFiniteSet(S)
    PROVE  \E g : Sums(g, v, S)
<1> DEFINE Bad == {s \in SUBSET S : ~ \E g : Sums(g, v, s)}
           Value(t) == (CHOOSE g : Sums(g, v, t))[t]
           First(t) == CHOOSE x \in t : TRUE
<1>1. CASE Bad = {}
  BY <1>1
<1>2. CASE Bad # {}
  <2>1. PICK s \in Bad : \A q \in SUBSET s : q # s => q \notin Bad
    <3>1. Bad \subseteq SUBSET S
      OBVIOUS
    <3> HIDE DEF Bad
    <3> QED
      BY <1>2, <3>1, SmallestSet
  <2>2. \A q \in SUBSET s : q # s => Sums(CHOOSE g : Sums(g, v, q), v, q)
    <3>1. \A q \in SUBSET s : q # s => \E g : Sums(g, v, q)
      BY <2>1
    <3> QED
      BY <3>1
  <2> DEFINE f == [t \in SUBSET s |-> IF t = {} THEN 0 ELSE v[First(t)] + Value(t \ {First(t)})]
  <2>3. ASSUME NEW u \in SUBSET s, u # s PROVE Value(u) = f[u]
    <3> DEFINE h == CHOOSE g : Sums(g, v, u)
    <3>1. Sums(h, v, u) /\ Value(u) = h[u]
      BY <2>2, <2>3
    <3>2. CASE u = {}
      <4> HIDE DEF h, Value
      <4> QED
        BY <3>1, <3>2, SumsStep
    <3>3. CASE u # {}
      <4> DEFINE x == First(u)
                 k == CHOOSE g : Sums(g, v, u \ {x})
      <4>1. x \in u /\ h[u] = v[x] + h[u \ {x}]
        <5>1. PICK y \in u : y = (CHOOSE z \in u : TRUE) /\ h[u] = v[y] + h[u \ {y}]
          <6> HIDE DEF h, Value
          <6> QED
            BY <3>1, <3>3, SumsStep
        <5>2. y = x
          BY <5>1
        <5> HIDE DEF h, x, Value
        <5> QED
          BY <5>1, <5>2
      <4>2. u \ {x} \in SUBSET s /\ u \ {x} # s /\ IsFiniteSet(u \ {x})
        <5>1. u \ {x} \in SUBSET S
          BY <2>1
        <5> QED
          BY <5>1, <4>1, FS_Subset
      <4>3. Sums(k, v, u \ {x}) /\ Value(u \ {x}) = k[u \ {x}]
        BY <2>2, <4>2
      <4>4. h[u \ {x}] = k[u \ {x}]
        <5> HIDE DEF h, k, Value, x
        <5> QED
          BY <3>1, <4>2, <4>3, SumsUnique
      <4>5. f[u] = v[x] + Value(u \ {x})
        <5> HIDE DEF Value
        <5> QED
          BY <3>3
      <4> HIDE DEF h, k, Value, f, x
      <4> QED
        BY <3>1, <4>1, <4>3, <4>4, <4>5
    <3> QED
      BY <3>2, <3>3
  <2>4. \A t \in SUBSET s : t # {} => /\ First(t) \in t
                                      /\ t \ {First(t)} \in SUBSET s /\ t \ {First(t)} # s
    OBVIOUS
  <2>5. Sums(f, v, s)
    <3>1. \A t \in SUBSET s : t # {} => Value(t \ {First(t)}) = f[t \ {First(t)}]
      <4> HIDE DEF Value, f, First
      <4> QED
        BY <2>3, <2>4
    <3>2. \A t \in SUBSET s : f[t] = IF t = {} THEN 0 ELSE v[First(t)] + f[t \ {First(t)}]
      <4>1. \A t \in SUBSET s : f[t] = IF t = {} THEN 0
                                       ELSE v[First(t)] + Value(t \ {First(t)})
        <5> HIDE DEF Value, First
        <5> QED
          OBVIOUS
      <4> HIDE DEF Value, f, First
      <4> QED
        BY <3>1, <4>1
    <3>3. f = [t \in SUBSET s |-> f[t]]
      <4> HIDE DEF Value, First
      <4> QED
        OBVIOUS
    <3> HIDE DEF Value, f
    <3> QED
      BY <3>2, <3>3 DEF Sums
  <2> HIDE DEF f, Value
  <2> QED
    BY <2>1, <2>5
<1> QED
  BY <1>1, <1>2

\* Total is the value of any such function.
LEMMA TotalIs ==
    ASSUME NEW v, NEW S, IsFiniteSet(S), NEW T, S \subseteq T, NEW g, Sums(g, v, T)
    PROVE  Total(v, S) = g[S]
<1>1. Total(v, S) = (CHOOSE h : Sums(h, v, S))[S]
  BY DEF Total, MapThenSumSet, MapThenFoldSet, Sums
<1>2. Sums(CHOOSE h : Sums(h, v, S), v, S)
  BY SumsExist
<1> DEFINE h == CHOOSE h : Sums(h, v, S)
<1> HIDE DEF h
<1>3. h[S] = g[S]
  BY <1>2, SumsUnique DEF h
<1> QED
  BY <1>1, <1>3 DEF h

\* The sum over no element.
LEMMA TotalEmpty == ASSUME NEW v PROVE Total(v, {}) = 0
<1>1. IsFiniteSet({})
  BY FS_EmptySet
<1>2. PICK g : Sums(g, v, {})
  BY <1>1, SumsExist
<1> QED
  BY <1>1, <1>2, TotalIs, SumsStep

\* The sum depends on the values of the elements alone.
LEMMA TotalSame ==
    ASSUME NEW v, NEW w, NEW S, IsFiniteSet(S), \A x \in S : v[x] = w[x]
    PROVE  Total(v, S) = Total(w, S)
<1>1. PICK g : Sums(g, v, S)
  BY SumsExist
<1>2. PICK h : Sums(h, w, S)
  BY SumsExist
<1>3. g[S] = h[S]
  BY <1>1, <1>2, SumsUnique
<1> QED
  BY <1>1, <1>2, <1>3, TotalIs

\* Of a nonempty set some element can be taken out first.
LEMMA TotalFirst ==
    ASSUME NEW v, NEW S, IsFiniteSet(S), S # {}
    PROVE  \E x \in S : Total(v, S) = v[x] + Total(v, S \ {x})
<1>1. PICK g : Sums(g, v, S)
  BY SumsExist
<1>2. PICK x \in S : g[S] = v[x] + g[S \ {x}]
  BY <1>1, SumsStep
<1>3. IsFiniteSet(S \ {x})
  BY FS_Subset
<1>4. Total(v, S) = g[S] /\ Total(v, S \ {x}) = g[S \ {x}]
  BY <1>1, <1>3, TotalIs
<1> QED
  BY <1>2, <1>4

\* The sum of numbers is a number.
LEMMA TotalType ==
    ASSUME NEW v, NEW S, IsFiniteSet(S), \A x \in S : v[x] \in Nat
    PROVE  Total(v, S) \in Nat
<1> DEFINE Bad == {s \in SUBSET S : Total(v, s) \notin Nat}
<1>1. ASSUME Bad # {} PROVE FALSE
  <2>1. PICK s \in Bad : \A q \in SUBSET s : q # s => q \notin Bad
    <3>1. Bad \subseteq SUBSET S
      OBVIOUS
    <3> HIDE DEF Bad
    <3> QED
      BY <1>1, <3>1, SmallestSet
  <2>2. s \in SUBSET S /\ Total(v, s) \notin Nat /\ IsFiniteSet(s)
    BY <2>1, FS_Subset
  <2>3. s # {}
    BY <2>2, TotalEmpty
  <2>4. PICK x \in s : Total(v, s) = v[x] + Total(v, s \ {x})
    BY <2>2, <2>3, TotalFirst
  <2>5. Total(v, s \ {x}) \in Nat /\ v[x] \in Nat
    BY <2>1, <2>2
  <2> QED
    BY <2>2, <2>4, <2>5
<1> QED
  BY <1>1

\* Any element can be taken out first.
LEMMA TotalWithout ==
    ASSUME NEW v, NEW S, IsFiniteSet(S), \A x \in S : v[x] \in Nat, NEW x \in S
    PROVE  Total(v, S) = v[x] + Total(v, S \ {x})
<1> DEFINE Bad == {s \in SUBSET S : \E y \in s : Total(v, s) # v[y] + Total(v, s \ {y})}
<1>1. ASSUME Bad # {} PROVE FALSE
  <2>1. PICK s \in Bad : \A q \in SUBSET s : q # s => q \notin Bad
    <3>1. Bad \subseteq SUBSET S
      OBVIOUS
    <3> HIDE DEF Bad
    <3> QED
      BY <1>1, <3>1, SmallestSet
  <2>2. s \in SUBSET S /\ IsFiniteSet(s)
    BY <2>1, FS_Subset
  <2>3. PICK y \in s : Total(v, s) # v[y] + Total(v, s \ {y})
    BY <2>1
  <2>4. PICK z \in s : Total(v, s) = v[z] + Total(v, s \ {z})
    BY <2>2, <2>3, TotalFirst
  <2>5. y # z
    BY <2>3, <2>4
  <2> DEFINE rest == (s \ {y}) \ {z}
  <2>6. /\ s \ {y} \in SUBSET s /\ s \ {y} # s /\ z \in s \ {y}
        /\ s \ {z} \in SUBSET s /\ s \ {z} # s /\ y \in s \ {z}
        /\ (s \ {z}) \ {y} = rest
    BY <2>5
  <2>7. Total(v, s \ {y}) = v[z] + Total(v, rest)
    BY <2>1, <2>2, <2>6
  <2>8. Total(v, s \ {z}) = v[y] + Total(v, rest)
    <3>1. Total(v, s \ {z}) = v[y] + Total(v, (s \ {z}) \ {y})
      BY <2>1, <2>2, <2>6
    <3> QED
      BY <2>6, <3>1
  <2>9. Total(v, rest) \in Nat /\ v[y] \in Nat /\ v[z] \in Nat
    <3>1. rest \in SUBSET S /\ \A u \in rest : v[u] \in Nat
      BY <2>2
    <3>2. IsFiniteSet(rest)
      BY <3>1, FS_Subset
    <3> HIDE DEF rest
    <3> QED
      BY <2>2, <3>1, <3>2, TotalType
  <2> HIDE DEF rest
  <2> QED
    BY <2>3, <2>4, <2>7, <2>8, <2>9
<1> QED
  BY <1>1

-----------------------------------------------------------------------------
(* The scores                                                              *)

\* The scores the contributions stand at, and those of an agent in a round.
Finals == [k \in SourceKeys |-> contributions[k].finalScore]
WorkOf(r, a) == {k \in ContributionsOf(r) : contributions[k].agent = a}

\* Of the evaluations of a contribution the accepted one alone is proven.
ProvenInv ==
    \A reply \in proven :
        /\ reply.action = "SubmitInitialEvaluation" =>
             /\ contributions[reply.contribution].initialEvaluated
             /\ contributions[reply.contribution].initialReply = reply
        /\ reply.action = "SubmitAppealEvaluation" =>
             /\ contributions[reply.contribution].appealEvaluated
             /\ contributions[reply.contribution].appealReply = reply

\* The running sums are the sums.
SumsInv(r) ==
    /\ rounds[r].totalFinalScore = Total(Finals, ContributionsOf(r))
    /\ \A a \in Agents : agentRoundScores[r][a] = Total(Finals, WorkOf(r, a))

\* Every agent with a score is on the list of a round, once.
RewardedInv(r) ==
    /\ \A i, j \in 1 .. Len(rewardedAgentIds[r]) :
          rewardedAgentIds[r][i] = rewardedAgentIds[r][j] => i = j
    /\ \A a \in Agents : agentRoundScores[r][a] > 0 =>
          \E i \in 1 .. Len(rewardedAgentIds[r]) : rewardedAgentIds[r][i] = a

\* A round that is not settled has paid nothing; a settled one has a summary, and
\* has paid what the scores say.
PaidInv(r) ==
    /\ rounds[r].settlementTask # 0 => rounds[r].summaryTask # 0
    /\ rounds[r].phase = "Settled" => rounds[r].summaryTask # 0
    /\ rounds[r].phase # "Settled" => transfers[r] = {} /\ spent[r] = 0
    /\ rounds[r].phase = "Settled" =>
         /\ spent[r] = rounds[r].totalFinalScore
         /\ \A a \in Agents :
               LET payments == {p \in transfers[r] : p.agent = a} IN
               IF agentRoundScores[r][a] = 0 THEN payments = {}
               ELSE \E p \in payments : payments = {p} /\ p.amount = agentRoundScores[r][a]

\* A contribution without an accepted evaluation stands at no score.
UnscoredInv(k) == ~contributions[k].initialEvaluated => contributions[k].finalScore = 0

ScoresInv ==
    /\ ProvenInv
    /\ \A k \in SourceKeys : UnscoredInv(k)
    /\ \A r \in Rounds : SumsInv(r) /\ RewardedInv(r) /\ PaidInv(r)

\* ScoreOf is the sum over the scores.
LEMMA ScoreOfIs ==
    ASSUME NEW K, K \subseteq SourceKeys
    PROVE  ScoreOf(K) = Total(Finals, K)
<1> DEFINE Body(g) == g = [s \in SUBSET K |->
                             IF s = {} THEN 0
                             ELSE contributions[CHOOSE x \in s : TRUE].finalScore
                                    + g[s \ {CHOOSE x \in s : TRUE}]]
<1>1. ScoreOf(K) = (CHOOSE g : Body(g))[K]
  BY DEF ScoreOf, MapThenSumSet, MapThenFoldSet
<1>2. IsFiniteSet(K)
  BY FS_Subset, ConstantsAssumption
<1>3. ASSUME NEW g PROVE Body(g) <=> Sums(g, Finals, K)
  <2>1. \A s \in SUBSET K : s # {} =>
          Finals[CHOOSE x \in s : TRUE] = contributions[CHOOSE x \in s : TRUE].finalScore
    BY DEF Finals
  <2>2. [s \in SUBSET K |-> IF s = {} THEN 0
                            ELSE contributions[CHOOSE x \in s : TRUE].finalScore
                                   + g[s \ {CHOOSE x \in s : TRUE}]]
          = [s \in SUBSET K |-> IF s = {} THEN 0
                                ELSE Finals[CHOOSE x \in s : TRUE]
                                       + g[s \ {CHOOSE x \in s : TRUE}]]
    BY <2>1
  <2> QED
    BY <2>2 DEF Sums
<1>4. Body(CHOOSE g : Body(g))
  <2>1. \E g : Body(g)
    <3>1. PICK g : Sums(g, Finals, K)
      BY <1>2, SumsExist
    <3> HIDE DEF Body
    <3> QED
      BY <1>3, <3>1
  <2> HIDE DEF Body
  <2> QED
    BY <2>1
<1>5. Sums(CHOOSE g : Body(g), Finals, K)
  <2> HIDE DEF Body
  <2> QED
    BY <1>3, <1>4
<1> DEFINE h == CHOOSE g : Body(g)
<1> HIDE DEF h, Body
<1>6. Total(Finals, K) = h[K]
  BY <1>2, <1>5, TotalIs DEF h
<1> QED
  BY <1>1, <1>6 DEF h

\* One element changes its value.
LEMMA TotalMoved ==
    ASSUME NEW v, NEW w, NEW S, IsFiniteSet(S), NEW k \in S,
           \A x \in S : v[x] \in Nat, w[k] \in Nat, \A x \in S \ {k} : w[x] = v[x]
    PROVE  Total(w, S) = Total(v, S) - v[k] + w[k]
<1>1. IsFiniteSet(S \ {k})
  BY FS_Subset
<1>2. Total(w, S \ {k}) = Total(v, S \ {k})
  BY <1>1, TotalSame
<1>3. Total(v, S) = v[k] + Total(v, S \ {k})
  BY TotalWithout
<1>4. Total(w, S) = w[k] + Total(w, S \ {k})
  <2>1. \A x \in S : w[x] \in Nat
    OBVIOUS
  <2> QED
    BY <2>1, TotalWithout
<1>5. Total(v, S \ {k}) \in Nat
  BY <1>1, TotalType
<1> QED
  BY <1>2, <1>3, <1>4, <1>5

\* An element without value joins.
LEMMA TotalJoined ==
    ASSUME NEW v, NEW w, NEW S, IsFiniteSet(S), NEW k, k \notin S,
           \A x \in S : v[x] \in Nat /\ w[x] = v[x], w[k] = 0
    PROVE  Total(w, S \cup {k}) = Total(v, S)
<1>1. IsFiniteSet(S \cup {k})
  BY FS_AddElement
<1>2. (S \cup {k}) \ {k} = S
  OBVIOUS
<1>3. \A x \in S \cup {k} : w[x] \in Nat
  OBVIOUS
<1>4. Total(w, S \cup {k}) = w[k] + Total(w, (S \cup {k}) \ {k})
  BY <1>1, <1>3, TotalWithout
<1>5. Total(w, S) = Total(v, S) /\ Total(v, S) \in Nat
  BY TotalSame, TotalType
<1> QED
  BY <1>2, <1>4, <1>5

\* The scores are numbers, and there are finitely many.
LEMMA ScoresType ==
    ASSUME TypeOK, NEW r \in Rounds
    PROVE  /\ IsFiniteSet(ContributionsOf(r)) /\ \A a \in Agents : IsFiniteSet(WorkOf(r, a))
           /\ \A k \in SourceKeys : /\ Finals[k] = contributions[k].finalScore
                                    /\ Finals[k] \in Nat
           /\ ContributionsOf(r) \subseteq SourceKeys
           /\ \A a \in Agents : WorkOf(r, a) \subseteq ContributionsOf(r)
<1>1. IsFiniteSet(ContributionsOf(r)) /\ ContributionsOf(r) \subseteq SourceKeys
  BY SetsFinite DEF ContributionsOf
<1>2. \A a \in Agents : WorkOf(r, a) \subseteq ContributionsOf(r)
  BY DEF WorkOf
<1>3. \A k \in SourceKeys : Finals[k] = contributions[k].finalScore /\ Finals[k] \in Nat
  BY ContributionTypes DEF Finals
<1> QED
  BY <1>1, <1>2, <1>3, FS_Subset

\* What a step leaves of the sums of a round: its contributions k with their authors
\* and scores, and the sums.
SameScore(k) ==
    /\ contributions'[k].agent = contributions[k].agent
    /\ contributions'[k].finalScore = contributions[k].finalScore

SameSums(r) ==
    /\ rounds'[r].totalFinalScore = rounds[r].totalFinalScore
    /\ agentRoundScores'[r] = agentRoundScores[r]

\* A round whose contributions and sums stay.
LEMMA SumsKept ==
    ASSUME TypeOK, NEW r \in Rounds, SumsInv(r), SameSums(r),
           ContributionsOf(r)' = ContributionsOf(r), \A k \in ContributionsOf(r) : SameScore(k)
    PROVE  SumsInv(r)'
<1>1. \A k \in ContributionsOf(r) : Finals'[k] = Finals[k]
  BY DEF SameScore, Finals, ContributionsOf
<1>2. \A a \in Agents : WorkOf(r, a)' = WorkOf(r, a)
  BY DEF SameScore, WorkOf
<1>3. Total(Finals', ContributionsOf(r)) = Total(Finals, ContributionsOf(r))
  BY <1>1, ScoresType, TotalSame
<1>4. ASSUME NEW a \in Agents PROVE Total(Finals', WorkOf(r, a)) = Total(Finals, WorkOf(r, a))
  BY <1>1, ScoresType, TotalSame
<1> QED
  BY <1>2, <1>3, <1>4 DEF SumsInv, SameSums

\* A round that contribution k joins, without a score.
LEMMA SumsJoined ==
    ASSUME TypeOK, NEW r \in Rounds, SumsInv(r), SameSums(r), NEW k \in SourceKeys,
           ~contributions[k].exists, contributions'[k].finalScore = 0,
           ContributionsOf(r)' = ContributionsOf(r) \cup {k},
           \A j \in ContributionsOf(r) : SameScore(j)
    PROVE  SumsInv(r)'
<1>1. \A j \in ContributionsOf(r) : Finals'[j] = Finals[j]
  BY DEF SameScore, Finals, ContributionsOf
<1>2. Finals'[k] = 0 /\ k \notin ContributionsOf(r)
  BY DEF Finals, ContributionsOf
<1>3. Total(Finals', ContributionsOf(r) \cup {k}) = Total(Finals, ContributionsOf(r))
  BY <1>1, <1>2, ScoresType, TotalJoined
<1>4. ASSUME NEW a \in Agents PROVE Total(Finals', WorkOf(r, a)') = Total(Finals, WorkOf(r, a))
  <2>1. CASE contributions'[k].agent = a
    <3>1. WorkOf(r, a)' = WorkOf(r, a) \cup {k} /\ k \notin WorkOf(r, a)
      BY <1>2, <2>1 DEF SameScore, WorkOf
    <3>2. Total(Finals', WorkOf(r, a) \cup {k}) = Total(Finals, WorkOf(r, a))
      BY <1>1, <1>2, <3>1, ScoresType, TotalJoined
    <3> QED
      BY <3>1, <3>2
  <2>2. CASE contributions'[k].agent # a
    <3>1. WorkOf(r, a)' = WorkOf(r, a)
      BY <1>2, <2>2 DEF SameScore, WorkOf
    <3> QED
      BY <1>1, <3>1, ScoresType, TotalSame
  <2> QED
    BY <2>1, <2>2
<1> QED
  BY <1>3, <1>4 DEF SumsInv, SameSums

\* A round in which contribution k changes its score.
LEMMA SumsMoved ==
    ASSUME TypeOK, TypeOK', NEW r \in Rounds, SumsInv(r), NEW k \in ContributionsOf(r),
           ContributionsOf(r)' = ContributionsOf(r),
           \A j \in ContributionsOf(r) \ {k} : SameScore(j),
           contributions'[k].agent = contributions[k].agent,
           rounds'[r].totalFinalScore =
             rounds[r].totalFinalScore - contributions[k].finalScore + contributions'[k].finalScore,
           \A a \in Agents : agentRoundScores'[r][a] =
             IF a = contributions[k].agent
             THEN agentRoundScores[r][a] - contributions[k].finalScore
                    + contributions'[k].finalScore
             ELSE agentRoundScores[r][a]
    PROVE  SumsInv(r)'
<1>1. k \in SourceKeys /\ \A j \in ContributionsOf(r) \ {k} : Finals'[j] = Finals[j]
  BY DEF SameScore, Finals, ContributionsOf
<1>2. /\ Finals'[k] = contributions'[k].finalScore /\ Finals[k] = contributions[k].finalScore
      /\ Finals'[k] \in Nat
  <2>1. contributions'[k] \in Contribution
    BY <1>1 DEF TypeOK
  <2>2. Finals'[k] = contributions'[k].finalScore /\ Finals[k] = contributions[k].finalScore
    BY <1>1 DEF Finals
  <2> QED
    BY <2>1, <2>2 DEF Contribution
<1>3. Total(Finals', ContributionsOf(r))
        = Total(Finals, ContributionsOf(r)) - Finals[k] + Finals'[k]
  <2>1. \A x \in ContributionsOf(r) : Finals[x] \in Nat
    BY ScoresType
  <2>2. IsFiniteSet(ContributionsOf(r))
    BY ScoresType
  <2> QED
    BY <1>1, <1>2, <2>1, <2>2, TotalMoved
<1>4. ASSUME NEW a \in Agents PROVE agentRoundScores'[r][a] = Total(Finals', WorkOf(r, a)')
  <2>1. /\ WorkOf(r, a)' = WorkOf(r, a) /\ WorkOf(r, a) \subseteq ContributionsOf(r)
        /\ k \in WorkOf(r, a) <=> a = contributions[k].agent
    BY DEF SameScore, WorkOf
  <2>2. \A x \in WorkOf(r, a) : Finals[x] \in Nat
    BY ScoresType
  <2>3. IsFiniteSet(WorkOf(r, a))
    BY ScoresType
  <2>4. CASE a = contributions[k].agent
    <3>1. Total(Finals', WorkOf(r, a)) = Total(Finals, WorkOf(r, a)) - Finals[k] + Finals'[k]
      BY <1>1, <1>2, <2>1, <2>2, <2>3, <2>4, TotalMoved
    <3> QED
      BY <1>2, <2>1, <2>4, <3>1 DEF SumsInv
  <2>5. CASE a # contributions[k].agent
    <3>1. Total(Finals', WorkOf(r, a)) = Total(Finals, WorkOf(r, a))
      BY <1>1, <2>1, <2>3, <2>5, TotalSame
    <3> QED
      BY <2>1, <2>5, <3>1 DEF SumsInv
  <2> QED
    BY <2>4, <2>5
<1> QED
  BY <1>2, <1>3, <1>4 DEF SumsInv

-----------------------------------------------------------------------------
(* How a step moves the scores                                             *)

\* What of contribution k its score rests on.
SameStanding(k) ==
    /\ SameScore(k)
    /\ contributions'[k].exists = contributions[k].exists
    /\ contributions'[k].run = contributions[k].run
    /\ contributions'[k].initialEvaluated = contributions[k].initialEvaluated
    /\ contributions'[k].initialReply = contributions[k].initialReply
    /\ contributions'[k].appealEvaluated = contributions[k].appealEvaluated
    /\ contributions'[k].appealReply = contributions[k].appealReply

\* Nothing is scored: no contribution, no list of agents, and no evaluation is proven.
Quiet ==
    /\ \A k \in SourceKeys : SameStanding(k)
    /\ UNCHANGED scoreVars
    /\ \A reply \in proven' \ proven : reply.action \notin Evaluations

Submits ==
    \E r \in Rounds, k \in SourceKeys, a \in Agents, s \in Wallets,
       reviewed \in SourceKeys \cup {NoKey} : SubmitContribution(r, k, a, reviewed, s)
Proves ==
    \/ \E reply \in replies : ProveInitialEvaluation(reply)
    \/ \E reply \in replies : ProveAppealEvaluation(reply)

\* Everything but a new contribution and an accepted evaluation is quiet.
LEMMA QuietStep ==
    ASSUME TypeOK, Links, [Next]_vars, ~Submits, ~Proves
    PROVE  Quiet
<1>1. ASSUME NEW k \in SourceKeys, NEW s \in Wallets, AppendSupportingMaterial(k, s)
      PROVE  Quiet
  <2>1. contributions[k] \in Contribution
    BY PartTypes
  <2>2. /\ contributions'[k] = [contributions[k] EXCEPT
                                 !.materials = contributions[k].materials + 1,
                                 !.evaluateTask = NextTask(contributions[k].run)]
        /\ \A j \in SourceKeys \ {k} : contributions'[j] = contributions[j]
    BY <1>1 DEF AppendSupportingMaterial, TypeOK
  <2>3. SameStanding(k)
    BY <2>1, <2>2 DEF Contribution, SameStanding, SameScore
  <2>4. \A j \in SourceKeys : SameStanding(j)
    BY <2>2, <2>3 DEF SameStanding, SameScore
  <2>5. \A reply \in proven' \ proven : reply.action \notin Evaluations
    BY <1>1 DEF AppendSupportingMaterial, AnchorProven, Reply, Evaluations
  <2> QED
    BY <1>1, <2>4, <2>5 DEF AppendSupportingMaterial, scoreVars, Quiet
<1>2. ASSUME NEW k \in SourceKeys, NEW s \in Wallets, SubmitAppeal(k, s)
      PROVE  Quiet
  <2>1. contributions[k] \in Contribution
    BY PartTypes
  <2>2. /\ contributions'[k] = [contributions[k] EXCEPT
                                 !.appealed = TRUE,
                                 !.reevaluateTask = NextTask(contributions[k].run)]
        /\ \A j \in SourceKeys \ {k} : contributions'[j] = contributions[j]
    BY <1>2 DEF SubmitAppeal, TypeOK
  <2>3. SameStanding(k)
    BY <2>1, <2>2 DEF Contribution, SameStanding, SameScore
  <2>4. \A j \in SourceKeys : SameStanding(j)
    BY <2>2, <2>3 DEF SameStanding, SameScore
  <2>5. \A reply \in proven' \ proven : reply.action \notin Evaluations
    BY <1>2 DEF SubmitAppeal, AnchorProven, Reply, Evaluations
  <2> QED
    BY <1>2, <2>4, <2>5 DEF SubmitAppeal, scoreVars, Quiet
<1>3. ASSUME NEW r \in Rounds,
             \/ CloseCollection(r) \/ OpenAppealPhase(r) \/ SubmitRoundSummary(r)
             \/ SettleRound(r)
      PROVE  Quiet
  <2>1. contributions' = contributions /\ UNCHANGED scoreVars
    BY <1>3 DEF CloseCollection, OpenAppealPhase, SubmitRoundSummary, SettleRound
  <2>2. \A reply \in proven' \ proven : reply.action \notin Evaluations
    BY <1>3 DEF CloseCollection, OpenAppealPhase, SubmitRoundSummary, SettleRound,
                AnchorProven, Reply, Evaluations
  <2> QED
    BY <2>1, <2>2 DEF Quiet, SameStanding, SameScore
<1>4. CASE \/ Run \/ Tick \/ \E a \in Agents, w \in Addresses : SetWallet(a, w)
           \/ \E k \in SourceKeys, score \in Scores : SubmitInitialEvaluation(k, score)
           \/ \E k \in SourceKeys, score \in Scores : SubmitAppealEvaluation(k, score)
           \/ \E r \in Rounds : PrepareOpenAppeal(r)
           \/ \E r \in Rounds : PrepareRoundSummary(r)
           \/ UNCHANGED vars
  <2>1. contributions' = contributions /\ UNCHANGED scoreVars /\ proven' = proven
    BY <1>4 DEF Run, Tick, SetWallet, SubmitInitialEvaluation, SubmitAppealEvaluation,
                AnchorUnproven, PrepareOpenAppeal, PrepareRoundSummary, vars, scoreVars
  <2> QED
    BY <2>1 DEF Quiet, SameStanding, SameScore
<1> QED
  BY <1>1, <1>2, <1>3, <1>4 DEF Next, OnAgentReply, OnAgentProve, Submits, Proves

\* An accepted initial evaluation scores its contribution and its author.
LEMMA FirstScore ==
    ASSUME SettlementInv, NEW reply \in replies, ProveInitialEvaluation(reply),
           NEW k, k = reply.contribution, NEW r, r = reply.run
    PROVE  /\ r \in Rounds /\ k \in ContributionsOf(r) /\ reply.score \in Nat
           /\ proven' = proven \cup {reply} /\ reply.action = "SubmitInitialEvaluation"
           /\ \A j \in SourceKeys \ {k} : contributions'[j] = contributions[j]
           /\ ~contributions[k].initialEvaluated /\ contributions'[k].initialEvaluated
           /\ contributions'[k].initialReply = reply
           /\ contributions'[k].exists /\ contributions'[k].run = r
           /\ contributions'[k].agent = contributions[k].agent
           /\ contributions'[k].finalScore = reply.score
           /\ contributions'[k].appealEvaluated = contributions[k].appealEvaluated
           /\ contributions'[k].appealReply = contributions[k].appealReply
           /\ contributions[k].agent \in Agents
           /\ rounds'[r].totalFinalScore = rounds[r].totalFinalScore + reply.score
           /\ \A q \in Rounds \ {r} : rounds'[q] = rounds[q]
           /\ \A q \in Rounds : SameAnchors(q)
           /\ \A p \in Rounds \ {r} : agentRoundScores'[p] = agentRoundScores[p]
           /\ \A a \in Agents : agentRoundScores'[r][a] =
                IF a = contributions[k].agent THEN agentRoundScores[r][a] + reply.score ELSE agentRoundScores[r][a]
           /\ \A p \in Rounds \ {r} : rewardedAgentIds'[p] = rewardedAgentIds[p]
           /\ rewardedAgentIds'[r] = RewardedWith(r, contributions[k].agent, reply.score)
<1> USE DEF SettlementInv
<1>1. /\ r \in Rounds /\ k \in SourceKeys /\ reply.score \in Nat
      /\ contributions[k].exists /\ contributions[k].run = r
      /\ \A j \in SourceKeys \ {k} : contributions'[j] = contributions[j]
      /\ ~contributions[k].initialEvaluated
      /\ rounds' = [rounds EXCEPT ![r] = [rounds[r] EXCEPT
                      !.initialEvaluatedCount = rounds[r].initialEvaluatedCount + 1,
                      !.totalFinalScore = rounds[r].totalFinalScore + reply.score]]
  BY ProveInitialEvaluationEffect
<1>2. k \in ContributionsOf(r)
  BY <1>1 DEF ContributionsOf
<1>3. contributions[k] \in Contribution /\ rounds[r] \in Round
  BY <1>1, PartTypes
<1>4. contributions'[k] = [contributions[k] EXCEPT
                             !.initialEvaluated = TRUE, !.initialScore = reply.score,
                             !.finalScore = reply.score, !.initialReply = reply]
  BY <1>1 DEF ProveInitialEvaluation, TypeOK
<1>5. /\ contributions'[k].initialEvaluated /\ contributions'[k].initialReply = reply
      /\ contributions'[k].exists /\ contributions'[k].run = r
      /\ contributions'[k].agent = contributions[k].agent
      /\ contributions'[k].finalScore = reply.score
      /\ contributions'[k].appealEvaluated = contributions[k].appealEvaluated
      /\ contributions'[k].appealReply = contributions[k].appealReply
      /\ contributions[k].agent \in Agents
  BY <1>1, <1>3, <1>4 DEF Contribution
<1>6. /\ rounds'[r].totalFinalScore = rounds[r].totalFinalScore + reply.score
      /\ \A q \in Rounds \ {r} : rounds'[q] = rounds[q]
  BY <1>1, <1>3 DEF TypeOK, Round
<1>7. \A q \in Rounds : SameAnchors(q)
  BY CountersOnly
<1>8. /\ proven' = proven \cup {reply} /\ reply.action = "SubmitInitialEvaluation"
      /\ \A p \in Rounds \ {r} : agentRoundScores'[p] = agentRoundScores[p]
      /\ \A a \in Agents : agentRoundScores'[r][a] =
           IF a = contributions[k].agent THEN agentRoundScores[r][a] + reply.score ELSE agentRoundScores[r][a]
      /\ \A p \in Rounds \ {r} : rewardedAgentIds'[p] = rewardedAgentIds[p]
      /\ rewardedAgentIds'[r] = RewardedWith(r, contributions[k].agent, reply.score)
  BY <1>1, <1>5 DEF ProveInitialEvaluation, Unproven, TypeOK
<1> QED
  BY <1>1, <1>2, <1>5, <1>6, <1>7, <1>8

\* An accepted reevaluation replaces the score the contribution had.
LEMMA SecondScore ==
    ASSUME SettlementInv, EvidenceInv, NEW reply \in replies, ProveAppealEvaluation(reply),
           NEW k, k = reply.contribution, NEW r, r = reply.run
    PROVE  /\ r \in Rounds /\ k \in ContributionsOf(r) /\ reply.score \in Nat
           /\ proven' = proven \cup {reply} /\ reply.action = "SubmitAppealEvaluation"
           /\ \A j \in SourceKeys \ {k} : contributions'[j] = contributions[j]
           /\ ~contributions[k].appealEvaluated /\ contributions'[k].appealEvaluated
           /\ contributions'[k].appealReply = reply
           /\ contributions'[k].exists /\ contributions'[k].run = r
           /\ contributions'[k].agent = contributions[k].agent
           /\ contributions'[k].finalScore = reply.score
           /\ contributions[k].initialEvaluated /\ contributions'[k].initialEvaluated
           /\ contributions'[k].initialReply = contributions[k].initialReply
           /\ contributions[k].agent \in Agents
           /\ agentRoundScores[r][contributions[k].agent] >= contributions[k].finalScore
           /\ rounds'[r].totalFinalScore =
                rounds[r].totalFinalScore - contributions[k].finalScore + reply.score
           /\ \A q \in Rounds \ {r} : rounds'[q] = rounds[q]
           /\ \A q \in Rounds : SameAnchors(q)
           /\ \A p \in Rounds \ {r} : agentRoundScores'[p] = agentRoundScores[p]
           /\ \A a \in Agents : agentRoundScores'[r][a] =
                IF a = contributions[k].agent THEN agentRoundScores[r][a]
                  - contributions[k].finalScore + reply.score ELSE agentRoundScores[r][a]
           /\ \A p \in Rounds \ {r} : rewardedAgentIds'[p] = rewardedAgentIds[p]
           /\ rewardedAgentIds'[r] = RewardedWith(r, contributions[k].agent, reply.score)
<1> USE DEF SettlementInv
<1> DEFINE total == rounds[r].totalFinalScore - contributions[k].finalScore + reply.score
<1>1. /\ r \in Rounds /\ k \in SourceKeys /\ reply.score \in Nat
      /\ contributions[k].exists /\ contributions[k].run = r
      /\ \A j \in SourceKeys \ {k} : contributions'[j] = contributions[j]
      /\ contributions[k].initialEvaluated
      /\ ~contributions[k].appealEvaluated
      /\ rounds' = [rounds EXCEPT ![r] = [rounds[r] EXCEPT
                      !.totalFinalScore = total,
                      !.pendingAppealEvaluationCount =
                          rounds[r].pendingAppealEvaluationCount - 1]]
  BY ProveAppealEvaluationEffect
<1>2. k \in ContributionsOf(r)
  BY <1>1 DEF ContributionsOf
<1>3. contributions[k] \in Contribution /\ rounds[r] \in Round
  BY <1>1, PartTypes
<1>4. contributions'[k] = [contributions[k] EXCEPT
                             !.appealEvaluated = TRUE, !.finalScore = reply.score,
                             !.appealReply = reply]
  BY <1>1 DEF ProveAppealEvaluation, TypeOK
<1>5. /\ contributions'[k].appealEvaluated /\ contributions'[k].appealReply = reply
      /\ contributions'[k].exists /\ contributions'[k].run = r
      /\ contributions'[k].agent = contributions[k].agent
      /\ contributions'[k].finalScore = reply.score
      /\ contributions'[k].initialEvaluated
      /\ contributions'[k].initialReply = contributions[k].initialReply
      /\ contributions[k].agent \in Agents
  BY <1>1, <1>3, <1>4 DEF Contribution
<1>6. rounds'[r].totalFinalScore = total /\ \A q \in Rounds \ {r} : rounds'[q] = rounds[q]
  <2> HIDE DEF total
  <2> QED
    BY <1>1, <1>3 DEF TypeOK, Round
<1>7. \A q \in Rounds : SameAnchors(q)
  BY CountersOnly
<1>8. contributions[k].initialScore = contributions[k].finalScore
  BY <1>1 DEF EvidenceInv, KeyInv
<1>9. /\ proven' = proven \cup {reply} /\ reply.action = "SubmitAppealEvaluation"
      /\ agentRoundScores[r][contributions[k].agent] >= contributions[k].finalScore
      /\ \A p \in Rounds \ {r} : agentRoundScores'[p] = agentRoundScores[p]
      /\ \A a \in Agents : agentRoundScores'[r][a] =
           IF a = contributions[k].agent THEN agentRoundScores[r][a]
             - contributions[k].finalScore + reply.score ELSE agentRoundScores[r][a]
      /\ \A p \in Rounds \ {r} : rewardedAgentIds'[p] = rewardedAgentIds[p]
      /\ rewardedAgentIds'[r] = RewardedWith(r, contributions[k].agent, reply.score)
  <2> DEFINE score == agentRoundScores[r][contributions[k].agent]
                        - contributions[k].finalScore + reply.score
  <2>1. /\ proven' = proven \cup {reply} /\ reply.action = "SubmitAppealEvaluation"
        /\ agentRoundScores[r][contributions[k].agent] >= contributions[k].finalScore
        /\ agentRoundScores' = [agentRoundScores EXCEPT ![r] =
             [agentRoundScores[r] EXCEPT ![contributions[k].agent] = score]]
        /\ rewardedAgentIds' = [rewardedAgentIds EXCEPT ![r] =
             RewardedWith(r, contributions[k].agent, reply.score)]
    BY <1>8 DEF ProveAppealEvaluation, Unproven, ReplacedScore
  <2> HIDE DEF score
  <2>2. /\ \A p \in Rounds \ {r} : /\ agentRoundScores'[p] = agentRoundScores[p]
                                  /\ rewardedAgentIds'[p] = rewardedAgentIds[p]
        /\ rewardedAgentIds'[r] = RewardedWith(r, contributions[k].agent, reply.score)
        /\ \A a \in Agents : agentRoundScores'[r][a] =
             IF a = contributions[k].agent THEN score ELSE agentRoundScores[r][a]
    BY <1>1, <1>5, <2>1 DEF TypeOK
  <2> QED
    BY <2>1, <2>2 DEF score
<1> QED
  BY <1>1, <1>2, <1>5, <1>6, <1>7, <1>9

\* A new contribution starts without a score, and nothing else is scored.
LEMMA NoScore ==
    ASSUME SettlementInv, NEW r \in Rounds, NEW k \in SourceKeys, NEW a \in Agents,
           NEW reviewed \in SourceKeys \cup {NoKey}, NEW s \in Wallets,
           SubmitContribution(r, k, a, reviewed, s)
    PROVE  /\ \A j \in SourceKeys \ {k} : contributions'[j] = contributions[j]
           /\ ~contributions[k].exists /\ contributions'[k].exists /\ contributions'[k].run = r
           /\ ~contributions[k].initialEvaluated /\ ~contributions[k].appealEvaluated
           /\ contributions'[k].finalScore = 0
           /\ UNCHANGED scoreVars
           /\ \A q \in Rounds : rounds'[q].totalFinalScore = rounds[q].totalFinalScore
           /\ \A reply \in proven' \ proven : reply.action \notin Evaluations
<1> USE DEF SettlementInv
<1>1. /\ \A j \in SourceKeys \ {k} : contributions'[j] = contributions[j]
      /\ contributions'[k] = NewContribution(TRUE, r, a, reviewed, NextTask(r))
  BY DEF SubmitContribution, TypeOK
<1>2. /\ ~contributions[k].exists
      /\ rounds' = [rounds EXCEPT ![r] = [rounds[r] EXCEPT
                      !.contributionCount = rounds[r].contributionCount + 1]]
  BY SubmitContributionEffect
<1>3. \A q \in Rounds : rounds'[q].totalFinalScore = rounds[q].totalFinalScore
  BY <1>2, PartTypes DEF TypeOK, Round
<1>4. contributions'[k].exists /\ contributions'[k].run = r /\ contributions'[k].finalScore = 0
  BY <1>1 DEF NewContribution
<1>5. ~contributions[k].initialEvaluated /\ ~contributions[k].appealEvaluated
  BY <1>2 DEF Links
<1>6. \A reply \in proven' \ proven : reply.action \notin Evaluations
  BY DEF SubmitContribution, AnchorProven, Reply, Evaluations
<1>7. UNCHANGED scoreVars
  BY DEF SubmitContribution
<1> QED
  BY <1>1, <1>2, <1>3, <1>4, <1>5, <1>6, <1>7

\* A second evaluation of a contribution is never proven.
LEMMA ProvenStep ==
    ASSUME SettlementInv, EvidenceInv, ProvenInv, [Next]_vars
    PROVE  ProvenInv'
<1>a. \A reply \in proven : reply.action \in Evaluations => reply.contribution \in SourceKeys
  BY DEF SettlementInv, TypeOK, Links
<1> USE DEF Evaluations
<1>1. CASE Submits
  <2> PICK r \in Rounds, k \in SourceKeys, a \in Agents, s \in Wallets,
           reviewed \in SourceKeys \cup {NoKey} : SubmitContribution(r, k, a, reviewed, s)
    BY <1>1 DEF Submits
  <2>1. /\ \A j \in SourceKeys \ {k} : contributions'[j] = contributions[j]
        /\ ~contributions[k].initialEvaluated /\ ~contributions[k].appealEvaluated
        /\ \A reply \in proven' \ proven : reply.action \notin Evaluations
    BY NoScore
  <2> QED
    BY <2>1, <1>a DEF ProvenInv
<1>2. ASSUME NEW new \in replies, ProveInitialEvaluation(new) PROVE ProvenInv'
  <2> DEFINE k == new.contribution
  <2>1. /\ proven' = proven \cup {new} /\ new.action = "SubmitInitialEvaluation"
        /\ \A j \in SourceKeys \ {k} : contributions'[j] = contributions[j]
        /\ ~contributions[k].initialEvaluated /\ contributions'[k].initialEvaluated
        /\ contributions'[k].initialReply = new
        /\ contributions'[k].appealEvaluated = contributions[k].appealEvaluated
        /\ contributions'[k].appealReply = contributions[k].appealReply
    BY <1>2, FirstScore
  <2> QED
    BY <2>1, <1>a DEF ProvenInv
<1>3. ASSUME NEW new \in replies, ProveAppealEvaluation(new) PROVE ProvenInv'
  <2> DEFINE k == new.contribution
  <2>1. /\ proven' = proven \cup {new} /\ new.action = "SubmitAppealEvaluation"
        /\ \A j \in SourceKeys \ {k} : contributions'[j] = contributions[j]
        /\ ~contributions[k].appealEvaluated /\ contributions'[k].appealEvaluated
        /\ contributions'[k].appealReply = new
        /\ contributions'[k].initialEvaluated
        /\ contributions'[k].initialReply = contributions[k].initialReply
    BY <1>3, SecondScore
  <2> QED
    BY <2>1, <1>a DEF ProvenInv
<1>4. CASE Quiet
  <2>1. \A reply \in proven : reply \in proven' => ProvenInv
    OBVIOUS
  <2> QED
    BY <1>4, <1>a DEF ProvenInv, Quiet, SameStanding
<1> QED
  BY <1>1, <1>2, <1>3, <1>4, QuietStep DEF Proves, SettlementInv

\* A score comes with an evaluation.
LEMMA UnscoredStep ==
    ASSUME SettlementInv, EvidenceInv, [Next]_vars, NEW k \in SourceKeys, UnscoredInv(k)
    PROVE  UnscoredInv(k)'
<1>0. CASE contributions'[k] = contributions[k]
  BY <1>0 DEF UnscoredInv
<1>1. CASE Submits
  BY <1>0, <1>1, NoScore DEF Submits, UnscoredInv
<1>2. CASE Proves
  <2>1. ASSUME NEW reply \in replies, ProveInitialEvaluation(reply) PROVE UnscoredInv(k)'
    <3>1. CASE reply.contribution = k
      BY <2>1, <3>1, FirstScore DEF UnscoredInv
    <3>2. CASE reply.contribution # k
      BY <1>0, <2>1, <3>2, FirstScore
    <3> QED
      BY <3>1, <3>2
  <2>2. ASSUME NEW reply \in replies, ProveAppealEvaluation(reply) PROVE UnscoredInv(k)'
    <3>1. CASE reply.contribution = k
      BY <2>2, <3>1, SecondScore DEF UnscoredInv
    <3>2. CASE reply.contribution # k
      BY <1>0, <2>2, <3>2, SecondScore
    <3> QED
      BY <3>1, <3>2
  <2> QED
    BY <1>2, <2>1, <2>2 DEF Proves
<1>3. CASE Quiet
  BY <1>3 DEF UnscoredInv, Quiet, SameStanding, SameScore
<1> QED
  BY <1>1, <1>2, <1>3, QuietStep DEF SettlementInv

\* The total of round r moves with an accepted evaluation only; run resets it in a
\* round without contributions.
LEMMA QuietTotals ==
    ASSUME SettlementInv, [Next]_vars, ~Submits, ~Proves, NEW r \in Rounds
    PROVE  \/ rounds'[r].totalFinalScore = rounds[r].totalFinalScore
           \/ rounds'[r].totalFinalScore = 0 /\ ContributionsOf(r) = {}
<1> USE DEF SettlementInv
<1>a. rounds \in [Rounds -> Round] /\ rounds[r] \in Round
  BY PartTypes DEF TypeOK
<1>1. CASE Run
  <2> DEFINE q == currentRound + 1
  <2>1. /\ q \in Rounds
        /\ rounds' = [rounds EXCEPT ![q] =
             NewRound("Open", StoredTime(now), StoredTime(now + RoundDuration))]
    BY <1>1 DEF Run
  <2>2. CASE r = q
    <3>1. rounds'[r].totalFinalScore = 0
      BY <2>1, <2>2, <1>a DEF NewRound
    <3>2. ContributionsOf(r) = {}
      BY <2>2, ConstantsAssumption DEF ContributionsOf, RoundsInOrder, TypeOK
    <3> QED
      BY <3>1, <3>2
  <2>3. CASE r # q
    BY <2>1, <2>3, <1>a
  <2> QED
    BY <2>2, <2>3
<1>2. ASSUME NEW q \in Rounds,
             \/ CloseCollection(q) \/ OpenAppealPhase(q) \/ SubmitRoundSummary(q)
             \/ SettleRound(q) \/ PrepareOpenAppeal(q) \/ PrepareRoundSummary(q)
      PROVE  rounds'[r].totalFinalScore = rounds[r].totalFinalScore
  <2>1. CASE q = r
    BY <1>2, <2>1, OtherTransitionsEffect
  <2>2. CASE q # r
    BY <1>2, <2>2, <1>a DEF CloseCollection, OpenAppealPhase, SubmitRoundSummary, SettleRound,
                            PrepareOpenAppeal, PrepareRoundSummary
  <2> QED
    BY <2>1, <2>2
<1>3. ASSUME NEW k \in SourceKeys, NEW s \in Wallets, SubmitAppeal(k, s)
      PROVE  rounds'[r].totalFinalScore = rounds[r].totalFinalScore
  <2> DEFINE q == contributions[k].run
  <2>1. /\ q \in Rounds
        /\ rounds' = [rounds EXCEPT ![q] = [rounds[q] EXCEPT
                        !.pendingAppealEvaluationCount =
                            rounds[q].pendingAppealEvaluationCount + 1]]
    BY <1>3, SubmitAppealEffect
  <2> HIDE DEF q
  <2> QED
    BY <2>1, <1>a, PartTypes DEF Round
<1>4. CASE \/ \E k \in SourceKeys, s \in Wallets : AppendSupportingMaterial(k, s)
           \/ \E k \in SourceKeys, score \in Scores : SubmitInitialEvaluation(k, score)
           \/ \E k \in SourceKeys, score \in Scores : SubmitAppealEvaluation(k, score)
           \/ Tick \/ \E a \in Agents, w \in Addresses : SetWallet(a, w)
           \/ UNCHANGED vars
  BY <1>4 DEF AppendSupportingMaterial, SubmitInitialEvaluation, SubmitAppealEvaluation,
              Tick, SetWallet, vars
<1> QED
  BY <1>1, <1>2, <1>3, <1>4 DEF Next, OnAgentReply, OnAgentProve, Submits, Proves

\* The running sums stay the sums.
LEMMA SumsKeptExact ==
    ASSUME SettlementInv, TypeOK', EvidenceInv, [Next]_vars, \A k \in SourceKeys : UnscoredInv(k),
           NEW r \in Rounds, SumsInv(r)
    PROVE  SumsInv(r)'
<1> USE DEF SettlementInv
<1>a. agentRoundScores \in [Rounds -> [Agents -> Nat]]
  BY DEF TypeOK
<1>1. CASE Submits
  <2> PICK q \in Rounds, k \in SourceKeys, a \in Agents, s \in Wallets,
           reviewed \in SourceKeys \cup {NoKey} : SubmitContribution(q, k, a, reviewed, s)
    BY <1>1 DEF Submits
  <2>1. /\ \A j \in SourceKeys \ {k} : contributions'[j] = contributions[j]
        /\ ~contributions[k].exists /\ contributions'[k].exists /\ contributions'[k].run = q
        /\ contributions'[k].finalScore = 0
        /\ SameSums(r)
    BY NoScore DEF SameSums, scoreVars
  <2>2. k \notin ContributionsOf(r) /\ \A j \in ContributionsOf(r) : SameScore(j)
    BY <2>1 DEF ContributionsOf, SameScore
  <2>3. CASE q = r
    <3>1. ContributionsOf(r)' = ContributionsOf(r) \cup {k}
      BY <2>1, <2>3 DEF ContributionsOf
    <3> QED
      BY <2>1, <2>2, <3>1, SumsJoined
  <2>4. CASE q # r
    <3>1. ContributionsOf(r)' = ContributionsOf(r)
      BY <2>1, <2>4 DEF ContributionsOf
    <3> QED
      BY <2>1, <2>2, <3>1, SumsKept
  <2> QED
    BY <2>3, <2>4
<1>2. ASSUME NEW reply \in replies, NEW k, k = reply.contribution, NEW q, q = reply.run,
             NEW old, old = contributions[k].finalScore, old \in Nat,
             q \in Rounds, k \in ContributionsOf(q), reply.score \in Nat,
             \A j \in SourceKeys \ {k} : contributions'[j] = contributions[j],
             contributions'[k].exists, contributions'[k].run = q,
             contributions'[k].agent = contributions[k].agent,
             contributions'[k].finalScore = reply.score, contributions[k].agent \in Agents,
             rounds'[q].totalFinalScore = rounds[q].totalFinalScore - old + reply.score,
             \A p \in Rounds \ {q} : rounds'[p] = rounds[p],
             \A p \in Rounds \ {q} : agentRoundScores'[p] = agentRoundScores[p],
             \A a \in Agents : agentRoundScores'[q][a] =
               IF a = contributions[k].agent THEN agentRoundScores[q][a] - old + reply.score
               ELSE agentRoundScores[q][a]
      PROVE  SumsInv(r)'
  <2>1. ContributionsOf(r)' = ContributionsOf(r)
    BY <1>2 DEF ContributionsOf
  <2>2. \A j \in ContributionsOf(r) \ {k} : SameScore(j)
    BY <1>2 DEF ContributionsOf, SameScore
  <2>3. CASE q = r
    <3>1. \A a \in Agents : agentRoundScores'[r][a] =
             IF a = contributions[k].agent
             THEN agentRoundScores[r][a] - contributions[k].finalScore
                    + contributions'[k].finalScore
             ELSE agentRoundScores[r][a]
      BY <1>2, <1>a, <2>3
    <3>2. rounds'[r].totalFinalScore =
            rounds[r].totalFinalScore - contributions[k].finalScore + contributions'[k].finalScore
      BY <1>2, <2>3
    <3>3. k \in ContributionsOf(r) /\ contributions'[k].agent = contributions[k].agent
      BY <1>2, <2>3
    <3> QED
      BY <2>1, <2>2, <3>1, <3>2, <3>3, SumsMoved
  <2>4. CASE q # r
    <3>1. k \notin ContributionsOf(r) /\ SameSums(r)
      BY <1>2, <1>a, <2>4 DEF ContributionsOf, SameSums
    <3> QED
      BY <2>1, <2>2, <3>1, SumsKept
  <2> QED
    BY <2>3, <2>4
<1>3. ASSUME NEW reply \in replies, ProveInitialEvaluation(reply) PROVE SumsInv(r)'
  <2> DEFINE k == reply.contribution
             q == reply.run
  <2>1. contributions[k].finalScore = 0
    BY <1>3, FirstScore DEF UnscoredInv, ContributionsOf
  <2>2. /\ q \in Rounds /\ k \in ContributionsOf(q) /\ reply.score \in Nat
        /\ contributions[k].agent \in Agents
    BY <1>3, FirstScore
  <2>3. /\ rounds[q].totalFinalScore \in Nat
        /\ agentRoundScores[q][contributions[k].agent] \in Nat
    BY <1>a, <2>2, PartTypes DEF Round
  <2> DEFINE old == contributions[k].finalScore
  <2>4. /\ q \in Rounds /\ k \in ContributionsOf(q) /\ reply.score \in Nat
        /\ \A j \in SourceKeys \ {k} : contributions'[j] = contributions[j]
        /\ contributions'[k].exists /\ contributions'[k].run = q
        /\ contributions'[k].agent = contributions[k].agent
        /\ contributions'[k].finalScore = reply.score /\ contributions[k].agent \in Agents
        /\ \A p \in Rounds \ {q} : rounds'[p] = rounds[p]
    BY <1>3, FirstScore
  <2>5. /\ rounds'[q].totalFinalScore = rounds[q].totalFinalScore - old + reply.score
        /\ \A p \in Rounds \ {q} : agentRoundScores'[p] = agentRoundScores[p]
        /\ \A a \in Agents : agentRoundScores'[q][a] =
             IF a = contributions[k].agent THEN agentRoundScores[q][a] - old + reply.score
             ELSE agentRoundScores[q][a]
    BY <1>3, <1>a, <2>1, <2>2, <2>3, FirstScore
  <2> HIDE DEF k, q, old
  <2>6. /\ k = reply.contribution /\ q = reply.run /\ old = contributions[k].finalScore
        /\ old \in Nat
    BY <2>1 DEF k, q, old
  <2> QED
    BY <1>2, <2>4, <2>5, <2>6
<1>4. ASSUME NEW reply \in replies, ProveAppealEvaluation(reply) PROVE SumsInv(r)'
  <2> DEFINE k == reply.contribution
             q == reply.run
  <2>1. k \in ContributionsOf(q)
    BY <1>4, SecondScore
  <2>2. contributions[k].finalScore \in Nat
    BY <2>1, ContributionTypes DEF ContributionsOf
  <2> DEFINE old == contributions[k].finalScore
  <2>4. /\ q \in Rounds /\ k \in ContributionsOf(q) /\ reply.score \in Nat
        /\ \A j \in SourceKeys \ {k} : contributions'[j] = contributions[j]
        /\ contributions'[k].exists /\ contributions'[k].run = q
        /\ contributions'[k].agent = contributions[k].agent
        /\ contributions'[k].finalScore = reply.score /\ contributions[k].agent \in Agents
        /\ \A p \in Rounds \ {q} : rounds'[p] = rounds[p]
    BY <1>4, SecondScore
  <2>5. /\ rounds'[q].totalFinalScore = rounds[q].totalFinalScore - old + reply.score
        /\ \A p \in Rounds \ {q} : agentRoundScores'[p] = agentRoundScores[p]
        /\ \A a \in Agents : agentRoundScores'[q][a] =
             IF a = contributions[k].agent THEN agentRoundScores[q][a] - old + reply.score
             ELSE agentRoundScores[q][a]
    BY <1>4, SecondScore
  <2> HIDE DEF k, q, old
  <2>6. k = reply.contribution /\ q = reply.run /\ old = contributions[k].finalScore
    BY DEF k, q, old
  <2> QED
    BY <1>2, <2>4, <2>5, <2>6, <2>2
<1>5. CASE Quiet /\ ~Submits /\ ~Proves
  <2>1. ContributionsOf(r)' = ContributionsOf(r) /\ \A k \in ContributionsOf(r) : SameScore(k)
    BY <1>5 DEF Quiet, SameStanding, ContributionsOf
  <2>2. rounds'[r].totalFinalScore = rounds[r].totalFinalScore
    BY <1>5, QuietTotals, TotalEmpty DEF SumsInv
  <2> QED
    BY <1>5, <2>1, <2>2, SumsKept DEF Quiet, SameSums, scoreVars
<1> QED
  BY <1>1, <1>3, <1>4, <1>5, QuietStep DEF Proves

-----------------------------------------------------------------------------
(* The agents that are paid, and the payments                              *)

\* Adding agent a to the list when it scores keeps everyone with a score on it, once.
LEMMA RewardedScored ==
    ASSUME TypeOK, NEW r \in Rounds, RewardedInv(r), NEW a \in Agents, NEW score \in Nat,
           rewardedAgentIds'[r] = RewardedWith(r, a, score),
           \A b \in Agents \ {a} : agentRoundScores'[r][b] = agentRoundScores[r][b],
           agentRoundScores'[r][a] > 0 => score > 0 \/ agentRoundScores[r][a] > 0
    PROVE  RewardedInv(r)'
<1> DEFINE list == rewardedAgentIds[r]
           new == rewardedAgentIds'[r]
           Listed == \E i \in 1 .. Len(list) : list[i] = a
<1>1. list \in Seq(Agents) /\ Len(list) \in Nat
  BY DEF TypeOK
<1>2. CASE score > 0 /\ ~Listed
  <2>1. new = Append(list, a)
    BY <1>2 DEF RewardedWith
  <2> HIDE DEF list, new
  <2>2. /\ Len(new) = Len(list) + 1 /\ new[Len(list) + 1] = a
        /\ \A i \in 1 .. Len(list) : new[i] = list[i] /\ new[i] # a
    BY <1>1, <1>2, <2>1
  <2>3. ASSUME NEW i \in 1 .. Len(new), NEW j \in 1 .. Len(new), new[i] = new[j] PROVE i = j
    BY <1>1, <2>2, <2>3 DEF RewardedInv, list
  <2>4. ASSUME NEW b \in Agents, agentRoundScores'[r][b] > 0
        PROVE  \E i \in 1 .. Len(new) : new[i] = b
    <3>1. CASE b = a
      BY <1>1, <2>2, <3>1
    <3>2. CASE b # a
      <4>1. PICK i \in 1 .. Len(list) : list[i] = b
        BY <2>4, <3>2 DEF RewardedInv, list
      <4> QED
        BY <1>1, <2>2, <4>1
    <3> QED
      BY <3>1, <3>2
  <2> QED
    BY <2>3, <2>4 DEF RewardedInv, new
<1>3. CASE ~(score > 0 /\ ~Listed)
  <2>1. new = list
    BY <1>3 DEF RewardedWith
  <2>2. agentRoundScores'[r][a] > 0 => Listed
    BY <1>3 DEF RewardedInv
  <2> QED
    BY <2>1, <2>2 DEF RewardedInv
<1> QED
  BY <1>2, <1>3

\* Whoever has a score is on the list, once.
LEMMA RewardedStep ==
    ASSUME SettlementInv, EvidenceInv, [Next]_vars, NEW r \in Rounds, RewardedInv(r)
    PROVE  RewardedInv(r)'
<1>a. TypeOK /\ agentRoundScores \in [Rounds -> [Agents -> Nat]]
  BY DEF SettlementInv, TypeOK
<1>1. ASSUME UNCHANGED scoreVars PROVE RewardedInv(r)'
  BY <1>1 DEF RewardedInv, scoreVars
<1>2. ASSUME rewardedAgentIds'[r] = rewardedAgentIds[r], agentRoundScores'[r] = agentRoundScores[r]
      PROVE  RewardedInv(r)'
  BY <1>2 DEF RewardedInv
<1>3. ASSUME NEW reply \in replies, ProveInitialEvaluation(reply) PROVE RewardedInv(r)'
  <2> DEFINE a == contributions[reply.contribution].agent
  <2>1. CASE reply.run = r
    <3>1. /\ a \in Agents /\ reply.score \in Nat
          /\ rewardedAgentIds'[r] = RewardedWith(r, a, reply.score)
          /\ \A b \in Agents \ {a} : agentRoundScores'[r][b] = agentRoundScores[r][b]
          /\ agentRoundScores'[r][a] = agentRoundScores[r][a] + reply.score
      BY <1>3, <2>1, FirstScore
    <3>2. agentRoundScores[r][a] \in Nat
      BY <1>a, <3>1
    <3> HIDE DEF a
    <3>3. agentRoundScores'[r][a] > 0 => reply.score > 0 \/ agentRoundScores[r][a] > 0
      BY <3>1, <3>2
    <3> QED
      BY <1>a, <3>1, <3>3, RewardedScored
  <2>2. CASE reply.run # r
    BY <1>2, <1>3, <2>2, FirstScore
  <2> QED
    BY <2>1, <2>2
<1>4. ASSUME NEW reply \in replies, ProveAppealEvaluation(reply) PROVE RewardedInv(r)'
  <2> DEFINE a == contributions[reply.contribution].agent
             old == contributions[reply.contribution].finalScore
  <2>1. CASE reply.run = r
    <3>1. /\ a \in Agents /\ reply.score \in Nat
          /\ rewardedAgentIds'[r] = RewardedWith(r, a, reply.score)
          /\ \A b \in Agents \ {a} : agentRoundScores'[r][b] = agentRoundScores[r][b]
          /\ agentRoundScores'[r][a] = agentRoundScores[r][a] - old + reply.score
          /\ reply.contribution \in ContributionsOf(r)
      BY <1>4, <2>1, SecondScore
    <3>2. agentRoundScores[r][a] \in Nat /\ old \in Nat
      BY <1>a, <3>1, ContributionTypes DEF ContributionsOf
    <3> HIDE DEF a, old
    <3>3. agentRoundScores'[r][a] > 0 => reply.score > 0 \/ agentRoundScores[r][a] > 0
      BY <3>1, <3>2
    <3> QED
      BY <1>a, <3>1, <3>3, RewardedScored
  <2>2. CASE reply.run # r
    BY <1>2, <1>4, <2>2, SecondScore
  <2> QED
    BY <2>1, <2>2
<1>5. CASE Submits
  BY <1>1, <1>5, NoScore DEF Submits
<1>6. CASE Quiet
  BY <1>1, <1>6 DEF Quiet
<1> QED
  BY <1>3, <1>4, <1>5, <1>6, QuietStep DEF Proves, SettlementInv

\* What a step other than its settlement does to the last tasks and the phase of round r.
LEMMA UnsettledMoves ==
    ASSUME SettlementInv, [Next]_vars, NEW r \in Rounds, ~SettleRound(r)
    PROVE  /\ rounds'[r].phase = "Settled" <=> rounds[r].phase = "Settled"
           /\ rounds[r].summaryTask # 0 => rounds'[r].summaryTask # 0
           /\ rounds'[r].settlementTask # 0 =>
                rounds[r].settlementTask # 0 \/ rounds[r].summaryTask # 0
<1> DEFINE Goal == /\ rounds'[r].phase = "Settled" <=> rounds[r].phase = "Settled"
                   /\ rounds[r].summaryTask # 0 => rounds'[r].summaryTask # 0
                   /\ rounds'[r].settlementTask # 0 =>
                        rounds[r].settlementTask # 0 \/ rounds[r].summaryTask # 0
<1> USE DEF SettlementInv
<1>a. rounds[r] \in Round /\ rounds \in [Rounds -> Round]
  BY PartTypes DEF TypeOK
<1>0. CASE rounds'[r] = rounds[r]
  BY <1>0
<1>1. CASE Run
  <2> DEFINE q == currentRound + 1
  <2>1. /\ q \in Rounds
        /\ rounds' = [rounds EXCEPT ![q] =
             NewRound("Open", StoredTime(now), StoredTime(now + RoundDuration))]
    BY <1>1 DEF Run
  <2>2. CASE r = q
    <3>1. rounds[r].phase = "None"
      BY <2>2, ConstantsAssumption DEF RoundsInOrder, TypeOK
    <3>2. rounds[r].summaryTask = 0
      BY <3>1 DEF Frozen, FrozenOf
    <3>3. rounds'[r].phase = "Open" /\ rounds'[r].settlementTask = 0
      BY <2>1, <2>2, <1>a DEF NewRound
    <3> QED
      BY <3>1, <3>2, <3>3
  <2>3. CASE r # q
    BY <1>0, <2>1, <2>3, <1>a
  <2> QED
    BY <2>2, <2>3
<1>2. CASE CloseCollection(r)
  BY <1>2, <1>a DEF CloseCollection, Closable, Round
<1>3. CASE OpenAppealPhase(r)
  BY <1>3, <1>a DEF OpenAppealPhase, Round
<1>4. CASE PrepareOpenAppeal(r)
  BY <1>4, <1>a DEF PrepareOpenAppeal, Round
<1>5. CASE PrepareRoundSummary(r)
  <2>1. NextTask(r) # 0
    BY NextTaskType
  <2> QED
    BY <1>5, <1>a, <2>1 DEF PrepareRoundSummary, Round
<1>6. CASE SubmitRoundSummary(r)
  BY <1>6, <1>a DEF SubmitRoundSummary, Round
<1>7. ASSUME NEW q \in Rounds, q # r,
             \/ CloseCollection(q) \/ OpenAppealPhase(q) \/ SubmitRoundSummary(q)
             \/ SettleRound(q) \/ PrepareOpenAppeal(q) \/ PrepareRoundSummary(q)
      PROVE  rounds'[r] = rounds[r]
  BY <1>7, <1>a DEF CloseCollection, OpenAppealPhase, SubmitRoundSummary, SettleRound,
                    PrepareOpenAppeal, PrepareRoundSummary
<1>8. SameAnchors(r) => Goal
  BY DEF SameAnchors
<1> QED
  BY <1>0, <1>1, <1>2, <1>3, <1>4, <1>5, <1>6, <1>7, <1>8, CountersOnly
     DEF Next, OnAgentReply, OnAgentProve

\* Only its settlement pays for round r.
LEMMA PaymentsKept ==
    ASSUME TypeOK, [Next]_vars, NEW r \in Rounds, ~SettleRound(r)
    PROVE  spent'[r] = spent[r] /\ transfers'[r] = transfers[r]
<1>1. ASSUME NEW q \in Rounds, SettleRound(q), q # r
      PROVE  spent'[r] = spent[r] /\ transfers'[r] = transfers[r]
  BY <1>1 DEF SettleRound, TypeOK
<1>2. (\E q \in Rounds : SettleRound(q) /\ q # r) \/ UNCHANGED paymentVars
  BY DEF Next, OnAgentReply, OnAgentProve, Run, SubmitContribution, AppendSupportingMaterial,
         SubmitInitialEvaluation, SubmitAppeal, SubmitAppealEvaluation, CloseCollection,
         OpenAppealPhase, SubmitRoundSummary, ProveInitialEvaluation, ProveAppealEvaluation,
         PrepareOpenAppeal, PrepareRoundSummary, SetWallet, Tick, vars, paymentVars
<1> QED
  BY <1>1, <1>2 DEF paymentVars

\* The payments of a settlement: one to everyone with a score, of that score.
LEMMA SettlementPays ==
    ASSUME TypeOK, NEW r \in Rounds, RewardedInv(r), NEW a \in Agents
    PROVE  LET payments == {p \in {PaymentTo(r, i) : i \in Payees(r)} : p.agent = a} IN
           IF agentRoundScores[r][a] = 0 THEN payments = {}
           ELSE \E p \in payments : payments = {p} /\ p.amount = agentRoundScores[r][a]
<1> DEFINE list == rewardedAgentIds[r]
           payments == {p \in {PaymentTo(r, i) : i \in Payees(r)} : p.agent = a}
<1>1. \A i : /\ PaymentTo(r, i).agent = list[i]
             /\ PaymentTo(r, i).amount = agentRoundScores[r][list[i]]
  BY DEF PaymentTo
<1>2. agentRoundScores[r][a] \in Nat
  BY DEF TypeOK
<1>3. CASE agentRoundScores[r][a] = 0
  <2>1. \A i \in Payees(r) : list[i] # a
    BY <1>3 DEF Payees
  <2> QED
    BY <1>1, <1>3, <2>1
<1>4. CASE agentRoundScores[r][a] # 0
  <2>1. PICK i \in 1 .. Len(list) : list[i] = a
    BY <1>2, <1>4 DEF RewardedInv
  <2>2. i \in Payees(r)
    BY <1>2, <1>4, <2>1 DEF Payees
  <2>3. \A j \in Payees(r) : list[j] = a => j = i
    BY <2>1 DEF Payees, RewardedInv
  <2>4. PaymentTo(r, i) \in payments
    BY <1>1, <2>1, <2>2
  <2>5. payments = {PaymentTo(r, i)}
    BY <1>1, <2>3, <2>4
  <2>6. PaymentTo(r, i).amount = agentRoundScores[r][a]
    BY <1>1, <2>1
  <2> QED
    BY <1>4, <2>4, <2>5, <2>6
<1> QED
  BY <1>3, <1>4

\* A settlement pays what the scores say, and afterwards neither moves.
LEMMA PaidStep ==
    ASSUME SettlementInv, [Next]_vars, NEW r \in Rounds, RewardedInv(r), PaidInv(r)
    PROVE  PaidInv(r)'
<1> DEFINE Pays(paid, scores) ==
             \A a \in Agents :
                LET payments == {p \in paid : p.agent = a} IN
                IF scores[a] = 0 THEN payments = {}
                ELSE \E p \in payments : payments = {p} /\ p.amount = scores[a]
<1>a. TypeOK /\ rounds[r] \in Round /\ rounds \in [Rounds -> Round]
  BY PartTypes DEF SettlementInv, TypeOK
<1>b. /\ PaidInv(r) <=>
           /\ rounds[r].settlementTask # 0 => rounds[r].summaryTask # 0
           /\ rounds[r].phase = "Settled" => rounds[r].summaryTask # 0
           /\ rounds[r].phase # "Settled" => transfers[r] = {} /\ spent[r] = 0
           /\ rounds[r].phase = "Settled" => /\ spent[r] = rounds[r].totalFinalScore
                                             /\ Pays(transfers[r], agentRoundScores[r])
      /\ PaidInv(r)' <=>
           /\ rounds'[r].settlementTask # 0 => rounds'[r].summaryTask # 0
           /\ rounds'[r].phase = "Settled" => rounds'[r].summaryTask # 0
           /\ rounds'[r].phase # "Settled" => transfers'[r] = {} /\ spent'[r] = 0
           /\ rounds'[r].phase = "Settled" => /\ spent'[r] = rounds'[r].totalFinalScore
                                              /\ Pays(transfers'[r], agentRoundScores'[r])
  BY DEF PaidInv
<1>1. CASE ~SettleRound(r)
  <2>1. /\ rounds'[r].phase = "Settled" <=> rounds[r].phase = "Settled"
        /\ rounds[r].summaryTask # 0 => rounds'[r].summaryTask # 0
        /\ rounds'[r].settlementTask # 0 =>
             rounds[r].settlementTask # 0 \/ rounds[r].summaryTask # 0
    BY <1>1, UnsettledMoves
  <2>2. spent'[r] = spent[r] /\ transfers'[r] = transfers[r]
    BY <1>1, <1>a, PaymentsKept
  <2>3. rounds[r].phase = "Settled" =>
          /\ rounds'[r].totalFinalScore = rounds[r].totalFinalScore
          /\ agentRoundScores'[r] = agentRoundScores[r]
    <3>1. ASSUME rounds[r].phase = "Settled"
          PROVE  Unmoved(r)
      BY <1>b, <3>1, FreezeStep DEF SettlementInv, CountInv
    <3> QED
      BY <3>1 DEF Unmoved
  <2> HIDE DEF Pays
  <2> QED
    BY <1>b, <2>1, <2>2, <2>3
<1>2. CASE SettleRound(r)
  <2>1. /\ rounds[r].phase = "Appealing" /\ rounds[r].settlementTask # 0
        /\ rounds' = [rounds EXCEPT ![r].phase = "Settled"]
        /\ spent' = [spent EXCEPT ![r] = rounds[r].totalFinalScore]
        /\ transfers' = [transfers EXCEPT ![r] = @ \cup {PaymentTo(r, i) : i \in Payees(r)}]
        /\ agentRoundScores' = agentRoundScores
    BY <1>2 DEF SettleRound, Settleable, scoreVars
  <2>2. /\ rounds'[r].phase = "Settled" /\ rounds'[r].summaryTask = rounds[r].summaryTask
        /\ rounds'[r].totalFinalScore = rounds[r].totalFinalScore
    BY <2>1, <1>a DEF Round
  <2>3. spent'[r] = rounds[r].totalFinalScore
    BY <2>1, <1>a DEF TypeOK
  <2>4. transfers'[r] = {PaymentTo(r, i) : i \in Payees(r)}
    <3>1. transfers'[r] = transfers[r] \cup {PaymentTo(r, i) : i \in Payees(r)}
      BY <2>1, <1>a DEF TypeOK
    <3>2. transfers[r] = {}
      BY <1>b, <2>1
    <3> QED
      BY <3>1, <3>2
  <2>5. Pays({PaymentTo(r, i) : i \in Payees(r)}, agentRoundScores[r])
    BY <1>a, SettlementPays
  <2>6. rounds[r].summaryTask # 0
    BY <1>b, <2>1
  <2> HIDE DEF Pays
  <2> QED
    BY <1>b, <2>1, <2>2, <2>3, <2>4, <2>5, <2>6
<1> QED
  BY <1>1, <1>2

\* Every step keeps the scores and the payments in agreement.
LEMMA ScoresStep ==
    ASSUME SettlementInv, SettlementInv', EvidenceInv, ScoresInv, [Next]_vars
    PROVE  ScoresInv'
<1>1. ProvenInv'
  BY ProvenStep DEF ScoresInv
<1>2. \A k \in SourceKeys : UnscoredInv(k)'
  BY UnscoredStep DEF ScoresInv
<1>3. TypeOK'
  BY DEF SettlementInv
<1>4. \A r \in Rounds : SumsInv(r)'
  BY <1>3, SumsKeptExact DEF ScoresInv
<1>5. \A r \in Rounds : RewardedInv(r)'
  BY RewardedStep DEF ScoresInv
<1>6. \A r \in Rounds : PaidInv(r)'
  BY PaidStep DEF ScoresInv
<1> QED
  BY <1>1, <1>2, <1>4, <1>5, <1>6 DEF ScoresInv

\* Before the first run nothing is scored or paid.
LEMMA ScoresInit == Init => ScoresInv
<1> SUFFICES ASSUME Init PROVE ScoresInv
  OBVIOUS
<1>1. /\ proven = {} /\ spent = [r \in Rounds |-> 0] /\ transfers = [r \in Rounds |-> {}]
      /\ \A r \in Rounds : rounds[r] = NewRound("None", 0, 0)
      /\ \A k \in SourceKeys : contributions[k].exists = FALSE
      /\ \A k \in SourceKeys : contributions[k].finalScore = 0
      /\ \A r \in Rounds, a \in Agents : agentRoundScores[r][a] = 0
      /\ \A r \in Rounds : rewardedAgentIds[r] = <<>>
  BY DEF Init, NewContribution
<1>2. ASSUME NEW r \in Rounds PROVE SumsInv(r) /\ RewardedInv(r) /\ PaidInv(r)
  <2>1. ContributionsOf(r) = {} /\ \A a \in Agents : WorkOf(r, a) = {}
    BY <1>1 DEF ContributionsOf, WorkOf
  <2>2. SumsInv(r)
    <3>1. rounds[r].totalFinalScore = 0 /\ Total(Finals, {}) = 0
      BY <1>1, TotalEmpty DEF NewRound
    <3> QED
      BY <1>1, <2>1, <3>1 DEF SumsInv
  <2>3. RewardedInv(r)
    BY <1>1 DEF RewardedInv
  <2>4. PaidInv(r)
    BY <1>1 DEF PaidInv, NewRound
  <2> QED
    BY <2>2, <2>3, <2>4
<1> QED
  BY <1>1, <1>2 DEF ScoresInv, ProvenInv, UnscoredInv

\* The invariant of the scores holds throughout.
THEOREM ScoresInvariant == Spec => []ScoresInv
BY ScoresInit, ScoresStep, EvidenceInit, EvidenceStep, SettlementInvariant, PTL DEF Spec

\* However evaluations, appeals and reevaluations interleave, the running total of a
\* round and the running score of an agent (_acceptInitialEvaluation,
\* _acceptAppealEvaluation) are the sums of the final scores they stand for, and a
\* second evaluation of a contribution is never proven.
THEOREM ScoresExact == Spec => []ScoresAddUp
<1>1. ScoresInv => ScoresAddUp
  <2> SUFFICES ASSUME ScoresInv PROVE ScoresAddUp
    OBVIOUS
  <2>1. ASSUME NEW r \in Rounds
        PROVE  /\ ScoreOf(ContributionsOf(r)) = Total(Finals, ContributionsOf(r))
               /\ \A a \in Agents : ScoreOf(WorkOf(r, a)) = Total(Finals, WorkOf(r, a))
    BY ScoreOfIs DEF ContributionsOf, WorkOf
  <2> QED
    BY <2>1 DEF ScoresInv, SumsInv, ProvenInv, ScoresAddUp, WorkOf
<1> QED
  BY <1>1, ScoresInvariant, PTL

\* A settlement pays every agent the sum of the final scores of its contributions, in
\* one transfer, and in total no more than the cap (_submitSettlement, _settle).
THEOREM PaysScores == Spec => []SettledPaysScores
<1>1. ScoresInv /\ BudgetHolds => SettledPaysScores
  <2> SUFFICES ASSUME ScoresInv, BudgetHolds, NEW r \in Rounds
               PROVE  LET payments(a) == {p \in transfers[r] : p.agent = a} IN
                      IF rounds[r].phase # "Settled" THEN transfers[r] = {} /\ spent[r] = 0
                      ELSE /\ \A a \in Agents :
                                LET due == ScoreOf(WorkOf(r, a)) IN
                                IF due = 0 THEN payments(a) = {}
                                ELSE \E p \in payments(a) : payments(a) = {p} /\ p.amount = due
                           /\ spent[r] = ScoreOf(ContributionsOf(r))
                           /\ spent[r] <= RoundPointCap
    BY DEF SettledPaysScores, WorkOf
  <2>1. /\ ScoreOf(ContributionsOf(r)) = rounds[r].totalFinalScore
        /\ \A a \in Agents : ScoreOf(WorkOf(r, a)) = agentRoundScores[r][a]
    BY ScoreOfIs DEF ScoresInv, SumsInv, ContributionsOf, WorkOf
  <2>2. PaidInv(r) /\ rounds[r].totalFinalScore <= RoundPointCap
    BY DEF ScoresInv, BudgetHolds
  <2> QED
    BY <2>1, <2>2 DEF PaidInv
<1> QED
  BY <1>1, ScoresInvariant, WithinBudget, PTL

=============================================================================
