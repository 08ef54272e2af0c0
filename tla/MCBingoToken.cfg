SPECIFICATION TokenSpec
CONSTANTS
    alice = alice
    bob = bob
    ZeroAddress = ZeroAddress
    Deployer = alice
    Address <- MCAddress
    MaxUint64 = 3
    MaxUint256 = 5
    MintAmounts <- MCAmounts
    TransferAmounts <- MCAmounts
    ApproveAmounts <- MCApproveAmounts
INVARIANTS
    SupplyIsBalances
PROPERTIES
    SpentAllowanceIsPaid
