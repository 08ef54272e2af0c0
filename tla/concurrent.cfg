SPECIFICATION Spec
CONSTANTS
    alice = alice
    bob = bob
    admin = admin
    contract = contract
    ZeroAddress = ZeroAddress
    Address <- MCAddress
    Player <- MCPlayer
    This = contract
    Owner = admin
    Deployer = admin
    TokenCallers <- MCNone
    MaxUint64 = 31
    MaxUint256 = 63
    MintAmounts <- MCNone
    TransferAmounts <- MCNone
    ApproveAmounts <- MCNone
    CardWords <- MCCardWords
    EmptyWord = "empty"
    CardNumbers <- MCCardNumbers
    InitialBalances <- MCConcurrentBalances
    InitialAllowances <- MCAllowances
    InitialEntryFee = 1
    InitialJoinDuration = 2
    InitialTurnDuration = 1
    EntryFees <- MCConcurrentFees
    JoinDurations <- MCNone
    TurnDurations <- MCNone
    TimeSteps <- MCTimeSteps
    MaxBlock = 5
    MaxTimestamp = 20
    Outcomes <- MCConcurrentOutcomes
    GameId <- MCConcurrentGames
INVARIANTS
    Solvent
    PoolIsFees
    ClaimNeverBlocked
    NoStandingAllowance
PROPERTIES
    PrizeGoesToWinner
    GamesAreEscrows
