SPECIFICATION Spec
CONSTANTS
    alice = alice
    bob = bob
    admin = admin
    contract = contract
    ZeroAddress = ZeroAddress
    Address <- MCFeesAddress
    Player <- MCPlayer
    This = contract
    Owner = bob
    Deployer = bob
    TokenCallers <- MCAlice
    MaxUint64 = 4
    MaxUint256 = 63
    MintAmounts <- MCNone
    TransferAmounts <- MCOne
    ApproveAmounts <- MCUnlimited
    CardWords <- MCCardWords
    EmptyWord = "empty"
    CardNumbers <- MCCardNumbers
    InitialBalances <- MCFeesBalances
    InitialAllowances <- MCFeesAllowances
    InitialEntryFee = 1
    InitialJoinDuration = 5
    InitialTurnDuration = 1
    EntryFees <- MCFees
    JoinDurations <- MCNone
    TurnDurations <- MCNone
    TimeSteps <- MCTimeSteps
    MaxBlock = 2
    MaxTimestamp = 4
    Outcomes <- MCFeesOutcomes
    GameId <- MCFeesGames
INVARIANTS
    TypeOK
    PoolNeverOverflows
