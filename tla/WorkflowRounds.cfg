\* Two rounds that overlap, the second collecting and evaluated while the first is
\* evaluated, appealed and settled; a contribution gets supporting material while
\* evaluations of it are pending, and the author's wallet rotates or is cleared.
CONSTANTS
    evaluator = evaluator
    author = author
    walletE = walletE
    walletA = walletA
    walletB = walletB
    k1 = k1
    k2 = k2
    Agents = {evaluator, author}
    Members = {evaluator, author}
    Evaluator = evaluator
    Wallets = {walletE, walletA, walletB}
    NoWallet = NoWallet
    InitialWallet <- MCWallet
    WalletMoves <- MCRotation
    SourceKeys = {k1, k2}
    NoKey = NoKey
    Scores <- MCOneScore
    RoundDuration = 1
    AppealDuration = 1
    RoundPointCap = 3
    MaxContributionsPerRound = 1
    TimeModulus = 1000
    MaxRounds = 2
    MaxMaterials = 1
    MaxTime = 7
SPECIFICATION Spec
SYMMETRY MCKeys
INVARIANTS
    OneOpenRound
    SettledPaysScores
    EvidenceSound
    CountsAgree
PROPERTIES
    CloseFreezesEvidence
CHECK_DEADLOCK FALSE
