SPECIFICATION Spec
CONSTANTS
    alice = alice
    bob = bob
    admin = admin
    contract = contract
    ZeroAddress = ZeroAddress
    Address <- MCAddress
    Player <- MCPlayer
    This = contract
    Owner = admin
    Deployer = admin
    TokenCallers <- MCNone
    MaxUint64 = 31
    MaxUint256 = 63
    MintAmounts <- MCNone
    TransferAmounts <- MCNone
    ApproveAmounts <- MCNone
    CardWords <- MCCardWords
    EmptyWord = "empty"
    CardNumbers <- MCCardNumbers
    InitialBalances <- MCBalances
    InitialAllowances <- MCAllowances
    InitialEntryFee = 1
    InitialJoinDuration = 2
    InitialTurnDuration = 1
    EntryFees <- MCOne
    JoinDurations <- MCJoinDurations
    TurnDurations <- MCTurnDurations
    TimeSteps <- MCTimeSteps
    MaxBlock = 6
    MaxTimestamp = 20
    Outcomes <- MCSettingsOutcomes
    GameId <- MCPlayGames
PROPERTY
    CardsFixedOncePlayBegins
