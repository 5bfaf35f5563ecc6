\* One round, two contributions of any two agents, no supporting material:
\* races of evaluations, appeals, reevaluations and proofs, against a budget
\* that some of the scores exceed; enough time for every order of steps, and
\* progress under the fairness of FairSpec.
CONSTANTS
    evaluator = evaluator
    author = author
    walletE = walletE
    walletA = walletA
    walletB = walletB
    k1 = k1
    k2 = k2
    Agents = {evaluator, author}
    Members = {evaluator, author}
    Evaluator = evaluator
    Wallets = {walletE, walletA}
    NoWallet = NoWallet
    InitialWallet <- MCWallet
    WalletMoves <- MCNoMoves
    SourceKeys = {k1, k2}
    NoKey = NoKey
    Scores <- MCScores
    RoundDuration = 1
    AppealDuration = 1
    RoundPointCap = 3
    MaxContributionsPerRound = 2
    TimeModulus = 1000
    MaxRounds = 1
    MaxMaterials = 0
    MaxTime = 14
SPECIFICATION FairSpec
INVARIANTS
    TypeOK
    CountsAgree
    ScoresAddUp
    BudgetHolds
    SummarySound
    SettledPaysScores
PROPERTIES
    SummaryFreezesScores
    RoundEventuallySettles
CHECK_DEADLOCK FALSE
