SPECIFICATION Spec
CONSTANTS
    BucketBits = 2
    WordBits = 10
    HitBits = 6
    Buckets = 5
INVARIANTS
    CardHoldsNumbers
    DealNeverReverts
    HitsAreMarks
PROPERTY ImplementsCard
