--------------------------- MODULE CardStorageProofs --------------------------
(***************************************************************************)
(* A card in storage words, for words, buckets and cards of any size: what *)
(* is read from a word is what was written to it.                          *)
(*                                                                         *)
(* The first part is the arithmetic of words.  The solver has no rule for  *)
(* a divisor that is not a literal, nor for powers: the quotient comes     *)
(* from the least rest (LeastNatural, which is the well-foundedness of <), *)
(* the powers of 2 from counting the subsets of an interval.               *)
(***************************************************************************)
EXTENDS CardStorage, Integers, FiniteSets, FiniteSetTheorems, FunctionTheorems,
        WellFoundedInduction, TLAPS

LEMMA LeastNatural ==
    ASSUME NEW T \in SUBSET Nat, T # {}
    PROVE  \E x \in T : \A y \in T : x <= y
<1>1. PICK x \in T : \A y \in T : ~ (<<y, x>> \in OpToRel(<, Nat))
  BY WFMin, NatLessThanWellFounded
<1>2. \A y \in T : ~ (y < x)
  BY <1>1 DEF OpToRel
<1> QED
  BY <1>2

\* There is one way only to write a number as a multiple and a rest.
LEMMA Quotient ==
    ASSUME NEW a \in Nat, NEW d \in Nat \ {0}, NEW q \in Nat,
           NEW r \in 0 .. d - 1, a = q * d + r
    PROVE  a \div d = q /\ a % d = r
<1>1. a \div d = q
  OBVIOUS
<1>2. a % d = r
  OBVIOUS
<1> QED
  BY <1>1, <1>2

LEMMA Division ==
    ASSUME NEW a \in Nat, NEW d \in Nat \ {0}
    PROVE  \E q \in Nat, r \in 0 .. d - 1 : a = q * d + r
<1> DEFINE Rests == {r \in Nat : \E q \in Nat : a = q * d + r}
<1>1. a \in Rests
  <2>1. a = 0 * d + a
    OBVIOUS
  <2> QED
    BY <2>1
<1>2. PICK r \in Rests : \A s \in Rests : r <= s
  <2> HIDE DEF Rests
  <2> QED
    BY <1>1, LeastNatural DEF Rests
<1>3. PICK q \in Nat : a = q * d + r
  BY <1>2
<1>4. r < d
  <2> SUFFICES ASSUME d <= r PROVE FALSE
    BY <1>2
  <2>1. a = (q + 1) * d + (r - d)
    BY <1>3
  <2>2. r - d \in Rests
    BY <2>1
  <2> QED
    BY <1>2, <2>2
<1> QED
  BY <1>2, <1>3, <1>4

\* What is added above the divisor is added to the quotient.
LEMMA AddMultiple ==
    ASSUME NEW a \in Nat, NEW b \in Nat, NEW d \in Nat \ {0}
    PROVE  /\ a \div d \in Nat
           /\ (a + b * d) \div d = a \div d + b
<1>1. PICK q \in Nat, r \in 0 .. d - 1 : a = q * d + r
  BY Division
<1>2. a \div d = q /\ a % d = r
  BY <1>1, Quotient
<1>3. PICK c \in Nat : c = a + b * d
  OBVIOUS
<1>4. c = (q + b) * d + r
  BY <1>1, <1>3
<1>5. c \div d = q + b
  BY <1>4, Quotient
<1> QED
  BY <1>2, <1>3, <1>5

LEMMA RestOfMultiple ==
    ASSUME NEW a \in Nat, NEW b \in Nat, NEW d \in Nat \ {0}
    PROVE  (a + b * d) % d = a % d
<1>1. PICK q \in Nat, r \in 0 .. d - 1 : a = q * d + r
  BY Division
<1>2. a % d = r
  BY <1>1, Quotient
<1>3. PICK c \in Nat : c = a + b * d
  OBVIOUS
<1>4. c = (q + b) * d + r
  BY <1>1, <1>3
<1>5. c % d = r
  BY <1>4, Quotient
<1> QED
  BY <1>2, <1>3, <1>5

LEMMA SmallDividend ==
    ASSUME NEW a \in Nat, NEW d \in Nat \ {0}, a < d
    PROVE  a \div d = 0 /\ a % d = a
<1>1. a = 0 * d + a
  OBVIOUS
<1> QED
  BY <1>1, Quotient

\* To shift twice is to shift once by both.
LEMMA DivideTwice ==
    ASSUME NEW a \in Nat, NEW d \in Nat \ {0}, NEW e \in Nat \ {0}
    PROVE  (a \div d) \div e = a \div (d * e)
<1>1. PICK q \in Nat, r \in 0 .. d - 1 : a = q * d + r
  BY Division
<1>2. PICK p \in Nat, s \in 0 .. e - 1 : q = p * e + s
  BY Division
<1>3. a \div d = q /\ q \div e = p
  BY <1>1, <1>2, Quotient
<1>4. PICK de \in Nat \ {0} : de = d * e
  OBVIOUS
<1>5. PICK t \in Nat : t = s * d + r
  OBVIOUS
<1>6. t < de
  <2>1. s * d + d <= e * d
    OBVIOUS
  <2> QED
    BY <1>4, <1>5, <2>1
<1>7. a = p * de + t
  <2>1. q * d = (p * e) * d + s * d
    BY <1>2
  <2>2. (p * e) * d = p * de
    BY <1>4
  <2> QED
    BY <1>1, <1>5, <2>1, <2>2
<1>8. a \div de = p
  BY <1>6, <1>7, Quotient
<1> QED
  BY <1>3, <1>4, <1>8

LEMMA PowerIsCount ==
    ASSUME NEW n \in Nat
    PROVE  /\ IsFiniteSet(SUBSET (1 .. n))
           /\ Cardinality(SUBSET (1 .. n)) = 2^n
           /\ 2^n \in Nat
<1>1. IsFiniteSet(1 .. n) /\ Cardinality(1 .. n) = n
  BY FS_Interval
<1>2. IsFiniteSet(SUBSET (1 .. n)) /\ Cardinality(SUBSET (1 .. n)) = 2^n
  BY <1>1, FS_SUBSET
<1> QED
  BY <1>2, FS_CardinalityType

\* A subset of an interval is a subset of its lower and one of its upper part.
LEMMA PowerSum ==
    ASSUME NEW m \in Nat, NEW n \in Nat
    PROVE  2^(m + n) = 2^m * 2^n
<1> DEFINE A == 1 .. m
           B == m + 1 .. m + n
           C == 1 .. m + n
<1>1. IsFiniteSet(A) /\ Cardinality(A) = m
  BY FS_Interval
<1>2. IsFiniteSet(B) /\ Cardinality(B) = n
  BY FS_Interval
<1>3. IsFiniteSet(C) /\ Cardinality(C) = m + n
  <2>1. m + n \in Nat
    OBVIOUS
  <2> HIDE DEF C
  <2>2. \A k \in Nat : IsFiniteSet(1 .. k) /\ Cardinality(1 .. k) = k
    BY FS_Interval
  <2> QED
    BY <2>1, <2>2 DEF C
<1>4. /\ IsFiniteSet(SUBSET A) /\ Cardinality(SUBSET A) = 2^m
      /\ IsFiniteSet(SUBSET B) /\ Cardinality(SUBSET B) = 2^n
      /\ IsFiniteSet(SUBSET C) /\ Cardinality(SUBSET C) = 2^(m + n)
  BY <1>1, <1>2, <1>3, FS_SUBSET
<1>5. /\ IsFiniteSet((SUBSET A) \X (SUBSET B))
      /\ Cardinality((SUBSET A) \X (SUBSET B)) = 2^m * 2^n
  <2>1. /\ IsFiniteSet((SUBSET A) \X (SUBSET B))
        /\ Cardinality((SUBSET A) \X (SUBSET B)) =
              Cardinality(SUBSET A) * Cardinality(SUBSET B)
    BY <1>4, FS_Product, Zenon
  <2> QED
    BY <1>4, <2>1, Zenon
<1> DEFINE parts == [s \in SUBSET C |-> <<s \cap A, s \cap B>>]
<1>6. parts \in Bijection(SUBSET C, (SUBSET A) \X (SUBSET B))
  <2>1. parts \in [SUBSET C -> (SUBSET A) \X (SUBSET B)]
    OBVIOUS
  <2>2. ASSUME NEW s \in SUBSET C, NEW t \in SUBSET C, parts[s] = parts[t]
        PROVE  s = t
    <3>1. C = A \cup B
      OBVIOUS
    <3>2. s \cap A = t \cap A /\ s \cap B = t \cap B
      BY <2>2
    <3> QED
      BY <3>1, <3>2
  <2>3. ASSUME NEW p \in (SUBSET A) \X (SUBSET B)
        PROVE  \E s \in SUBSET C : parts[s] = p
    <3>1. PICK a \in SUBSET A, b \in SUBSET B : p = <<a, b>>
      OBVIOUS
    <3>2. a \cup b \in SUBSET C
      OBVIOUS
    <3>3. A \cap B = {}
      OBVIOUS
    <3>4. (a \cup b) \cap A = a /\ (a \cup b) \cap B = b
      BY <3>3
    <3>5. parts[a \cup b] = p
      BY <3>1, <3>2, <3>4
    <3> QED
      BY <3>2, <3>5
  <2> QED
    BY <2>1, <2>2, <2>3, Fun_IsBij
<1>7. Cardinality((SUBSET A) \X (SUBSET B)) = Cardinality(SUBSET C)
  BY <1>4, <1>6, FS_Bijection DEF ExistsBijection
<1> QED
  BY <1>4, <1>5, <1>7

LEMMA PowerFacts ==
    /\ 2^0 = 1 /\ 2^1 = 2
    /\ \A n \in Nat : 2^n \in Nat \ {0}
<1>1. 2^0 = 1
  <2>1. IsFiniteSet({}) /\ Cardinality({}) = 0
    BY FS_EmptySet
  <2>2. Cardinality(SUBSET {}) = 2^0
    BY <2>1, FS_SUBSET
  <2>3. SUBSET {} = {{}}
    OBVIOUS
  <2>4. Cardinality({{}}) = 1
    BY FS_Singleton
  <2> QED
    BY <2>2, <2>3, <2>4, Zenon
<1>2. ASSUME NEW n \in Nat
      PROVE  2^n \in Nat \ {0}
  <2>1. IsFiniteSet(SUBSET (1 .. n)) /\ Cardinality(SUBSET (1 .. n)) = 2^n
        /\ 2^n \in Nat
    BY PowerIsCount
  <2>2. Cardinality(SUBSET (1 .. n)) # 0
    <3>1. SUBSET (1 .. n) # {}
      OBVIOUS
    <3> QED
      BY <2>1, <3>1, FS_EmptySet
  <2> QED
    BY <2>1, <2>2
<1>3. 2^1 = 2
  <2>1. IsFiniteSet({0}) /\ Cardinality({0}) = 1
    BY FS_Singleton
  <2>2. Cardinality(SUBSET {0}) = 2^1
    BY <2>1, FS_SUBSET
  <2>3. SUBSET {0} = {{}, {0}}
    OBVIOUS
  <2>4. IsFiniteSet({{0}}) /\ Cardinality({{0}}) = 1
    BY FS_Singleton
  <2>5. Cardinality({{0}} \cup {{}}) = 2
    <3>1. {} \notin {{0}}
      OBVIOUS
    <3>2. Cardinality({{0}} \cup {{}}) = Cardinality({{0}}) + 1
      BY <2>4, <3>1, FS_AddElement, Zenon
    <3> QED
      BY <2>4, <3>2
  <2>6. {{0}} \cup {{}} = {{}, {0}}
    OBVIOUS
  <2> QED
    BY <2>2, <2>3, <2>5, <2>6
<1> QED
  BY <1>1, <1>2, <1>3

LEMMA PowerMonotone ==
    ASSUME NEW m \in Nat, NEW n \in Nat, m <= n
    PROVE  2^m <= 2^n
<1>1. PICK k \in Nat : n = m + k
  OBVIOUS
<1>2. 2^n = 2^m * 2^k
  BY <1>1, PowerSum
<1>3. PICK a \in Nat, b \in Nat \ {0} : a = 2^m /\ b = 2^k
  BY PowerFacts
<1>4. a <= a * b
  OBVIOUS
<1> QED
  BY <1>2, <1>3, <1>4

-------------------------------------------------------------------------------

\* What is added above a slice of w bits leaves the slice alone.
LEMMA AddAbove ==
    ASSUME NEW word \in Nat, NEW v \in Nat,
           NEW j \in Nat, NEW k \in Nat, NEW w \in Nat, k + w <= j
    PROVE  ShiftRight(word + v * 2^j, k) % 2^w = ShiftRight(word, k) % 2^w
<1>1. PICK e \in Nat : j = (k + w) + e
  OBVIOUS
<1>2. PICK pk \in Nat \ {0}, pw \in Nat \ {0}, pe \in Nat \ {0} :
         pk = 2^k /\ pw = 2^w /\ pe = 2^e
  BY PowerFacts
<1>3. 2^j = (pk * pw) * pe
  <2>1. k + w \in Nat
    OBVIOUS
  <2> QED
    BY <1>1, <1>2, <2>1, PowerSum
<1>4. PICK u \in Nat : u = v * pe
  OBVIOUS
<1>5. PICK x \in Nat : x = u * pw
  OBVIOUS
<1>6. v * 2^j = x * pk
  <2>1. v * ((pk * pw) * pe) = ((v * pe) * pw) * pk
    OBVIOUS
  <2> QED
    BY <1>3, <1>4, <1>5, <2>1
<1>7. (word + x * pk) \div pk = word \div pk + x /\ word \div pk \in Nat
  BY AddMultiple
<1>8. PICK q \in Nat : q = word \div pk
  BY <1>7
<1>9. (q + u * pw) % pw = q % pw
  BY RestOfMultiple
<1> QED
  BY <1>2, <1>5, <1>6, <1>7, <1>8, <1>9 DEF ShiftRight

\* What is added at a position is added to what is read from there.
LEMMA AddHere ==
    ASSUME NEW word \in Nat, NEW v \in Nat, NEW k \in Nat
    PROVE  /\ ShiftRight(word, k) \in Nat
           /\ ShiftRight(word + v * 2^k, k) = ShiftRight(word, k) + v
<1>1. 2^k \in Nat \ {0}
  BY PowerFacts
<1> QED
  BY <1>1, AddMultiple DEF ShiftRight

\* Nothing is read from above the highest 1 bit.
LEMMA NothingAbove ==
    ASSUME NEW word \in Nat, NEW j \in Nat, NEW k \in Nat,
           word < 2^j, j <= k
    PROVE  ShiftRight(word, k) = 0
<1>1. PICK pj \in Nat, pk \in Nat \ {0} : pj = 2^j /\ pk = 2^k
  BY PowerFacts
<1>2. pj <= pk
  BY <1>1, PowerMonotone
<1> QED
  BY <1>1, <1>2, SmallDividend DEF ShiftRight

\* A number of w bits that is shifted to a place within the word loses none.
LEMMA ShiftKeeps ==
    ASSUME NEW v \in Nat, NEW k \in Nat, NEW w \in Nat \ {0}, NEW bits \in Nat,
           v < 2^w, k + w <= bits
    PROVE  /\ ShiftLeft(v, k, bits) = v * 2^k
           /\ v * 2^k \in Nat
<1>1. PICK pk \in Nat \ {0}, pw \in Nat \ {0}, pb \in Nat \ {0} :
         pk = 2^k /\ pw = 2^w /\ pb = 2^bits
  BY PowerFacts
<1>2. pk * pw <= pb
  <2>1. k + w \in Nat /\ 2^(k + w) = 2^k * 2^w
    BY PowerSum
  <2> QED
    BY <1>1, <2>1, PowerMonotone
<1>3. v * pk + pk <= pw * pk
  BY <1>1
<1>4. v * pk \in Nat /\ v * pk < pb
  <2>1. pw * pk = pk * pw
    OBVIOUS
  <2>2. v * pk \in Nat
    OBVIOUS
  <2> QED
    BY <1>2, <1>3, <2>1, <2>2
<1>5. (v * pk) % pb = v * pk
  BY <1>4, SmallDividend
<1> QED
  BY <1>1, <1>4, <1>5 DEF ShiftLeft

\* Above a position whose bit is 0, another power there is not seen.
LEMMA AddBelow ==
    ASSUME NEW word \in Nat, NEW j \in Nat, NEW k \in Nat, j < k,
           ~ HasBit(word, j)
    PROVE  ShiftRight(word + 1 * 2^j, k) = ShiftRight(word, k)
<1>1. PICK e \in Nat : k = (j + 1) + e
  OBVIOUS
<1>2. PICK p \in Nat \ {0}, pe \in Nat \ {0} : p = 2^j /\ pe = 2^e
  BY PowerFacts
<1>3. PICK d \in Nat \ {0} : d = p * 2
  OBVIOUS
<1>4. 2^k = d * pe
  <2>1. 2^(j + 1) = 2^j * 2^1
    BY PowerSum
  <2>2. 2^(j + 1) = d
    BY <1>2, <1>3, <2>1, PowerFacts
  <2>3. j + 1 \in Nat
    OBVIOUS
  <2> QED
    BY <1>1, <1>2, <2>2, <2>3, PowerSum
<1>5. PICK x \in Nat : x = word \div p
  BY AddMultiple
<1>6. x \div 2 = (x + 1) \div 2
  <2>1. x % 2 # 1
    BY <1>2, <1>5 DEF HasBit, ShiftRight
  <2> QED
    BY <2>1
<1>7. PICK sum \in Nat : sum = word + 1 * p
  OBVIOUS
<1>8. sum \div p = x + 1
  BY <1>5, <1>7, AddMultiple
<1>9. word \div d = sum \div d
  <2>1. word \div (p * 2) = (word \div p) \div 2
        /\ sum \div (p * 2) = (sum \div p) \div 2
    <3>1. 2 \in Nat \ {0}
      OBVIOUS
    <3> QED
      BY <3>1, DivideTwice, Zenon
  <2> QED
    BY <1>3, <1>5, <1>6, <1>8, <2>1
<1>10. word \div (d * pe) = sum \div (d * pe)
  <2>1. word \div (d * pe) = (word \div d) \div pe
    BY DivideTwice
  <2>2. sum \div (d * pe) = (sum \div d) \div pe
    BY DivideTwice
  <2> QED
    BY <1>9, <2>1, <2>2
<1> QED
  BY <1>2, <1>4, <1>7, <1>10 DEF ShiftRight

\* setBitValueByIndex sets one bit and leaves the others.
LEMMA SetBit ==
    ASSUME NEW word \in Nat, NEW location \in Nat, location < HitBits,
           HitBits \in Nat
    PROVE  /\ setBitValueByIndex(word, location) \in Nat
           /\ \A k \in Nat : HasBit(setBitValueByIndex(word, location), k)
                                <=> (k = location \/ HasBit(word, k))
<1>1. CASE HasBit(word, location)
  BY <1>1 DEF setBitValueByIndex
<1>2. CASE ~ HasBit(word, location)
  <2>1. ShiftLeft(1, location, HitBits) = 1 * 2^location
        /\ 1 * 2^location \in Nat
    <3>1. 1 < 2^1 /\ location + 1 <= HitBits /\ 1 \in Nat /\ 1 \in Nat \ {0}
      BY PowerFacts
    <3> QED
      BY <3>1, ShiftKeeps, Zenon
  <2>2. PICK sum \in Nat : sum = word + 1 * 2^location
    BY <2>1
  <2>3. setBitValueByIndex(word, location) = sum
    BY <1>2, <2>1, <2>2 DEF setBitValueByIndex
  <2>4. ASSUME NEW k \in Nat, k < location
        PROVE  HasBit(sum, k) <=> HasBit(word, k)
    <3>1. PICK one \in Nat : one = 1
      OBVIOUS
    <3>2. k + one <= location
      BY <2>4, <3>1
    <3>3. ShiftRight(word + one * 2^location, k) % 2^one
             = ShiftRight(word, k) % 2^one
      BY <3>2, AddAbove
    <3>4. 2^one = 2
      BY <3>1, PowerFacts
    <3> QED
      BY <2>2, <3>1, <3>3, <3>4 DEF HasBit
  <2>5. HasBit(sum, location)
    <3>1. PICK n \in Nat : n = ShiftRight(word, location)
      BY AddHere
    <3>2. n % 2 # 1
      BY <1>2, <3>1 DEF HasBit
    <3>3. (n + 1) % 2 = 1
      BY <3>2
    <3>4. ShiftRight(sum, location) = n + 1
      BY <2>2, <3>1, AddHere
    <3> QED
      BY <3>3, <3>4 DEF HasBit
  <2>6. ASSUME NEW k \in Nat, location < k
        PROVE  HasBit(sum, k) <=> HasBit(word, k)
    BY <1>2, <2>2, <2>6, AddBelow DEF HasBit
  <2>7. ASSUME NEW k \in Nat
        PROVE  HasBit(sum, k) <=> (k = location \/ HasBit(word, k))
    <3>1. k < location \/ k = location \/ location < k
      OBVIOUS
    <3> QED
      BY <2>4, <2>5, <2>6, <3>1
  <2> QED
    BY <2>3, <2>7
<1> QED
  BY <1>1, <1>2

-------------------------------------------------------------------------------

\* While the card is dealt its bits above the last tile are 0, so that no sum
\* carries, and nothing is marked.
IInv ==
    /\ i \in 0 .. Buckets
    /\ updatedCard \in Nat /\ updatedCard < 2^(BucketBits * i)
    /\ rands \in [Tile -> Rands]
    /\ hitStorage \in Nat
    /\ i < Buckets => marked = {}
    /\ CardHoldsNumbers
    /\ HitsAreMarks

\* The places of the buckets, and that all of them are within the word.
LEMMA Places ==
    /\ BucketBits \in Nat \ {0} /\ Buckets \in Nat \ {0}
    /\ WordBits \in Nat /\ HitBits \in Nat \ {0} /\ Buckets <= HitBits
    /\ \A k \in Nat : BucketBits * k \in Nat
    /\ \A k, l \in Nat : k < l =>
          BucketBits * k + BucketBits <= BucketBits * l
    /\ \A k \in Nat : BucketBits * (k + 1) = BucketBits * k + BucketBits
    /\ \A k \in Nat : k < Buckets => BucketBits * k + BucketBits <= WordBits
<1>1. /\ BucketBits \in Nat \ {0} /\ Buckets \in Nat \ {0}
      /\ WordBits \in Nat /\ HitBits \in Nat \ {0} /\ Buckets <= HitBits
      /\ BucketBits * Buckets <= WordBits
  BY WidthsAssumption, CardAssumption
<1>2. \A k \in Nat : BucketBits * k \in Nat
  BY <1>1
<1>3. \A k, l \in Nat : k < l =>
         BucketBits * k + BucketBits <= BucketBits * l
  <2> SUFFICES ASSUME NEW k \in Nat, NEW l \in Nat, k < l
               PROVE  BucketBits * k + BucketBits <= BucketBits * l
    OBVIOUS
  <2>1. PICK m \in Nat : l = k + 1 + m
    OBVIOUS
  <2>2. BucketBits * l = BucketBits * k + BucketBits + BucketBits * m
    BY <1>1, <2>1
  <2>3. BucketBits * m \in Nat /\ BucketBits * k \in Nat
    BY <1>1
  <2> QED
    BY <1>1, <2>2, <2>3
<1>4. \A k \in Nat : BucketBits * (k + 1) = BucketBits * k + BucketBits
  BY <1>1
<1>5. ASSUME NEW k \in Nat, k < Buckets
      PROVE  BucketBits * k + BucketBits <= WordBits
  <2>1. BucketBits * k + BucketBits <= BucketBits * Buckets
    BY <1>1, <1>3, <1>5
  <2>2. BucketBits * k \in Nat /\ BucketBits * Buckets \in Nat
    BY <1>1
  <2> QED
    BY <1>1, <2>1, <2>2
<1> QED
  BY <1>1, <1>2, <1>3, <1>4, <1>5

\* A number dealt fills the bucket above the last one and no other.
LEMMA DealtWord ==
    ASSUME IInv, i < Buckets, NEW rand \in Rands
    PROVE  /\ rand \in Nat /\ rand < 2^BucketBits
           /\ setBucketValueByIndex(updatedCard, i, rand)
                 = updatedCard + rand * 2^(BucketBits * i)
           /\ updatedCard + rand * 2^(BucketBits * i) \in Nat
           /\ updatedCard + rand * 2^(BucketBits * i) < 2^(BucketBits * (i + 1))
           /\ 2^(BucketBits * (i + 1)) <= 2^WordBits
<1>1. i \in Nat /\ updatedCard \in Nat /\ updatedCard < 2^(BucketBits * i)
  BY Places DEF IInv
<1>2. PICK place \in Nat : place = BucketBits * i
  BY <1>1, Places
<1>3. BucketBits * (i + 1) = place + BucketBits /\ place + BucketBits <= WordBits
  BY <1>1, <1>2, Places
<1>4. PICK p \in Nat \ {0}, b \in Nat \ {0} : p = 2^place /\ b = 2^BucketBits
  BY PowerFacts, Places
<1>5. 2^(place + BucketBits) = p * b
  BY <1>4, PowerSum, Places
<1>6. rand \in Nat /\ rand < b
  BY <1>4 DEF Rands
<1>7. ShiftLeft(rand, place, WordBits) = rand * 2^place
      /\ rand * 2^place \in Nat
  BY <1>3, <1>4, <1>6, ShiftKeeps, Places
<1>8. updatedCard + rand * p < p * b
  <2>1. rand * p + p <= b * p
    BY <1>6
  <2>2. b * p = p * b
    OBVIOUS
  <2>3. rand * p \in Nat /\ p * b \in Nat
    BY <1>6
  <2>4. updatedCard < p
    BY <1>1, <1>2, <1>4
  <2> QED
    BY <1>1, <2>1, <2>2, <2>3, <2>4
<1>9. 2^(place + BucketBits) <= 2^WordBits
  <2>1. place + BucketBits \in Nat /\ WordBits \in Nat
    BY Places
  <2> QED
    BY <1>3, <2>1, PowerMonotone
<1> QED
  BY <1>1, <1>2, <1>3, <1>4, <1>5, <1>6, <1>7, <1>8, <1>9
     DEF setBucketValueByIndex

LEMMA DealReverts ==
    ASSUME IInv
    PROVE  DealNeverReverts
<1> SUFFICES ASSUME i < Buckets, NEW rand \in Rands
             PROVE  ~ setBucketReverts(updatedCard, i, rand)
  BY DEF DealNeverReverts
<1>1. PICK sum \in Nat : sum = updatedCard + rand * 2^(BucketBits * i)
  BY DealtWord
<1>2. BucketBits * (i + 1) \in Nat
  BY Places DEF IInv
<1>3. PICK hi \in Nat, top \in Nat :
         hi = 2^(BucketBits * (i + 1)) /\ top = 2^WordBits
  BY <1>2, PowerFacts, Places
<1>4. setBucketValueByIndex(updatedCard, i, rand) = sum /\ sum < hi /\ hi <= top
  BY <1>1, <1>3, DealtWord
<1> QED
  BY <1>3, <1>4 DEF setBucketReverts

LEMMA InitIInv ==
    Init => IInv
<1> SUFFICES ASSUME Init PROVE IInv
  OBVIOUS
<1>1. /\ updatedCard = 0 /\ i = 0 /\ marked = {}
      /\ rands = [t \in Tile |-> 0]
      /\ hitStorage = ShiftLeft(1, FreeBit, HitBits)
  BY DEF Init
<1>2. 0 \in Rands
  <2>1. PICK one \in Nat : one = 1
    OBVIOUS
  <2>2. one <= BucketBits /\ BucketBits \in Nat
    BY <2>1, Places
  <2>3. 2^one <= 2^BucketBits
    BY <2>2, PowerMonotone
  <2>4. 2 <= 2^BucketBits /\ 2^BucketBits \in Nat
    BY <2>1, <2>2, <2>3, PowerFacts
  <2> QED
    BY <2>4 DEF Rands
<1>3. \A k \in Nat : ShiftRight(0, k) = 0
  BY PowerFacts, SmallDividend DEF ShiftRight
<1>4. \A k \in Nat : ~ HasBit(0, k)
  BY <1>3 DEF HasBit
<1>5. FreeBit \in Nat /\ FreeBit < HitBits
  BY Places DEF FreeBit
<1>6. /\ hitStorage \in Nat
      /\ \A k \in Nat : HasBit(hitStorage, k) <=> k = FreeBit
  <2>1. hitStorage = setBitValueByIndex(0, FreeBit)
    <3>1. PICK one \in Nat \ {0} : one = 1
      OBVIOUS
    <3>2. one < 2^one /\ FreeBit + one <= HitBits
      BY <1>5, <3>1, PowerFacts, Places
    <3>3. ShiftLeft(one, FreeBit, HitBits) \in Nat
      BY <1>5, <3>2, ShiftKeeps, Places
    <3> QED
      BY <1>1, <1>4, <1>5, <3>1, <3>3 DEF setBitValueByIndex
  <2> QED
    BY <1>4, <1>5, <2>1, SetBit, Places
<1>7. HitsAreMarks
  <2>1. \A t \in Tile : t \in Nat
    BY Places DEF Tile
  <2> QED
    BY <1>1, <1>6, <2>1 DEF HitsAreMarks, getHitsArrayForCard, getBitValueByIndex
<1>8. CardHoldsNumbers
  <2>1. \A t \in Tile : t \in Nat /\ BucketBits * t \in Nat /\ ~ (t < 0)
    BY Places DEF Tile
  <2>2. 0 % 2^BucketBits = 0
    BY PowerFacts, SmallDividend, Places
  <2>3. \A t \in Tile : getBucketValueByIndex(updatedCard, t) = 0
    BY <1>1, <1>3, <2>1, <2>2 DEF getBucketValueByIndex
  <2>4. ShiftRight(updatedCard, BucketBits * Buckets) = 0
    BY <1>1, <1>3, Places
  <2> QED
    BY <1>1, <2>1, <2>3, <2>4 DEF CardHoldsNumbers, getNumbersArrayForCard
<1>9. updatedCard < 2^(BucketBits * i)
  BY <1>1, PowerFacts, Places
<1> QED
  BY <1>1, <1>2, <1>6, <1>7, <1>8, <1>9, Places DEF IInv

\* What the getter returns after one more tile.
LEMMA DealtNumbers ==
    ASSUME IInv, i < Buckets, NEW rand \in Rands, NEW sum \in Nat,
           sum = updatedCard + rand * 2^(BucketBits * i)
    PROVE  /\ \A t \in Tile : getBucketValueByIndex(sum, t) =
                 IF t < i THEN rands[t] ELSE IF t = i THEN rand ELSE 0
           /\ ShiftRight(sum, BucketBits * Buckets) = 0
<1>1. /\ i \in Nat /\ updatedCard \in Nat /\ updatedCard < 2^(BucketBits * i)
      /\ rand \in Nat /\ rand < 2^BucketBits /\ sum < 2^(BucketBits * (i + 1))
      /\ i + 1 \in Nat
  BY DealtWord DEF IInv
<1>2. ASSUME NEW t \in Nat, t < i
      PROVE  getBucketValueByIndex(sum, t)
                = getBucketValueByIndex(updatedCard, t)
  <2>1. BucketBits * t \in Nat /\ BucketBits * i \in Nat /\ BucketBits \in Nat
        /\ BucketBits * t + BucketBits <= BucketBits * i
    BY <1>1, <1>2, Places
  <2> QED
    BY <1>1, <2>1, AddAbove DEF getBucketValueByIndex
<1>3. getBucketValueByIndex(sum, i) = rand
  <2>1. BucketBits * i \in Nat
    BY <1>1, Places
  <2>2. ShiftRight(updatedCard, BucketBits * i) = 0
    BY <1>1, <2>1, NothingAbove
  <2>3. ShiftRight(sum, BucketBits * i) = 0 + rand
    BY <1>1, <2>1, <2>2, AddHere
  <2>4. rand % 2^BucketBits = rand
    BY <1>1, PowerFacts, SmallDividend, Places
  <2> QED
    BY <1>1, <2>3, <2>4 DEF getBucketValueByIndex
<1>4. ASSUME NEW t \in Nat, i + 1 <= t
      PROVE  ShiftRight(sum, BucketBits * t) = 0
  <2>1. BucketBits * (i + 1) \in Nat /\ BucketBits * t \in Nat
        /\ BucketBits * (i + 1) <= BucketBits * t
    <3>1. BucketBits * (i + 1) = BucketBits * i + BucketBits
          /\ BucketBits * i + BucketBits <= BucketBits * t
      BY <1>1, <1>4, Places
    <3> QED
      BY <1>1, <3>1, Places
  <2> QED
    BY <1>1, <2>1, NothingAbove
<1>5. 0 % 2^BucketBits = 0
  BY PowerFacts, SmallDividend, Places
<1>6. \A t \in Tile : t \in Nat /\ getBucketValueByIndex(updatedCard, t)
                                   = IF t < i THEN rands[t] ELSE 0
  BY Places DEF IInv, CardHoldsNumbers, getNumbersArrayForCard, Tile
<1>7. ASSUME NEW t \in Tile
      PROVE  getBucketValueByIndex(sum, t) =
                IF t < i THEN rands[t] ELSE IF t = i THEN rand ELSE 0
  <2>1. t \in Nat /\ (t < i \/ t = i \/ (i + 1 <= t /\ ~ t < i /\ t # i))
    BY <1>1, <1>6
  <2>2. CASE t < i
    BY <1>2, <1>6, <2>1, <2>2
  <2>3. CASE t = i
    BY <1>1, <1>3, <2>3
  <2>4. CASE i + 1 <= t /\ ~ t < i /\ t # i
    BY <1>4, <1>5, <2>1, <2>4 DEF getBucketValueByIndex
  <2> QED
    BY <2>1, <2>2, <2>3, <2>4
<1>8. ShiftRight(sum, BucketBits * Buckets) = 0
  BY <1>1, <1>4, Places
<1> QED
  BY <1>7, <1>8

LEMMA dealTileIInv ==
    ASSUME IInv, NEW rand \in Rands, dealTile(rand)
    PROVE  IInv'
<1>1. /\ i < Buckets /\ i' = i + 1
      /\ rands' = [rands EXCEPT ![i] = rand]
      /\ hitStorage' = hitStorage /\ marked' = marked
      /\ updatedCard' = setBucketValueByIndex(updatedCard, i, rand)
  BY DEF dealTile
<1>2. /\ i \in Tile /\ rands \in [Tile -> Rands] /\ marked = {}
      /\ i \in Nat /\ i' \in 0 .. Buckets
  BY <1>1, Places DEF IInv, Tile
<1>3. /\ updatedCard' = updatedCard + rand * 2^(BucketBits * i)
      /\ updatedCard' \in Nat /\ updatedCard' < 2^(BucketBits * i')
  BY <1>1, DealtWord
<1>4. /\ rands' \in [Tile -> Rands]
      /\ \A t \in Tile : rands'[t] = IF t = i THEN rand ELSE rands[t]
  BY <1>1, <1>2
<1>5. CardHoldsNumbers'
  <2>1. /\ \A t \in Tile : getBucketValueByIndex(updatedCard', t) =
              IF t < i THEN rands[t] ELSE IF t = i THEN rand ELSE 0
        /\ ShiftRight(updatedCard', BucketBits * Buckets) = 0
    BY <1>1, <1>3, DealtNumbers
  <2>2. \A t \in Tile : t \in Nat
    BY Places DEF Tile
  <2>3. \A t \in Tile : getBucketValueByIndex(updatedCard', t) =
           IF t < i' THEN rands'[t] ELSE 0
    BY <1>1, <1>2, <1>4, <2>1, <2>2
  <2> QED
    BY <2>1, <2>3 DEF CardHoldsNumbers, getNumbersArrayForCard
<1>6. HitsAreMarks'
  BY <1>1, <1>2 DEF IInv, HitsAreMarks, getHitsArrayForCard
<1> QED
  BY <1>1, <1>2, <1>3, <1>4, <1>5, <1>6 DEF IInv

\* A mark sets the bit of the first tile that bears the number.
LEMMA markIInv ==
    ASSUME IInv, NEW target \in Targets, markNumberOnCard(target)
    PROVE  IInv'
<1>1. PICK location \in Tile :
         /\ playerHasNumber(getNumbersArrayForCard, target, location)
         /\ hitStorage' = setBitValueByIndex(hitStorage, location)
  BY DEF markNumberOnCard
<1>2. /\ i = Buckets /\ marked' = marked \cup {target}
      /\ updatedCard' = updatedCard /\ i' = i /\ rands' = rands
  BY DEF markNumberOnCard
<1>3. \A t \in Tile : t \in Nat /\ t < Buckets /\ t < HitBits
  BY Places DEF Tile
<1>4. \A t \in Tile : getNumbersArrayForCard[t] = rands[t]
  BY <1>2, <1>3 DEF IInv, CardHoldsNumbers
<1>5. /\ rands[location] = target
      /\ \A t \in Tile : t < location => rands[t] # target
  BY <1>1, <1>4 DEF playerHasNumber
<1>6. \A t \in Tile :
         (rands[t] = target /\ \A u \in Tile : u < t => rands[u] # rands[t])
            <=> t = location
  <2>1. ASSUME NEW t \in Tile, rands[t] = target, location < t
        PROVE  \E u \in Tile : u < t /\ rands[u] = rands[t]
    BY <1>5, <2>1
  <2> QED
    BY <1>3, <1>5, <2>1
<1>7. /\ hitStorage' \in Nat
      /\ \A t \in Tile : HasBit(hitStorage', t)
                         <=> (t = location \/ HasBit(hitStorage, t))
  BY <1>1, <1>3, SetBit, Places DEF IInv
<1>8. HitsAreMarks'
  <2>1. \A t \in Tile : HasBit(hitStorage, t) <=>
           (t = FreeBit \/ (rands[t] \in marked /\
                            \A u \in Tile : u < t => rands[u] # rands[t]))
    BY DEF IInv, HitsAreMarks, getHitsArrayForCard, getBitValueByIndex
  <2>2. \A t \in Tile : HasBit(hitStorage', t) <=>
           (t = FreeBit \/ (rands'[t] \in marked' /\
                            \A u \in Tile : u < t => rands'[u] # rands'[t]))
    BY <1>2, <1>6, <1>7, <2>1
  <2> QED
    BY <2>2 DEF HitsAreMarks, getHitsArrayForCard, getBitValueByIndex
<1>9. CardHoldsNumbers'
  BY <1>2 DEF IInv, CardHoldsNumbers, getNumbersArrayForCard
<1> QED
  BY <1>2, <1>7, <1>8, <1>9 DEF IInv

LEMMA Invariant ==
    Spec => []IInv
<1>1. ASSUME IInv, [Next]_cardVars PROVE IInv'
  <2>1. CASE UNCHANGED cardVars
    BY <1>1, <2>1 DEF cardVars, IInv, CardHoldsNumbers, HitsAreMarks,
                      getNumbersArrayForCard, getHitsArrayForCard
  <2> QED
    BY <1>1, <2>1, dealTileIInv, markIInv DEF Next
<1> QED
  BY <1>1, InitIInv, PTL DEF Spec

-------------------------------------------------------------------------------

\* The numbers read from the card are the numbers dealt, whatever was dealt.
THEOREM CardIsReadBack ==
    Spec => []CardHoldsNumbers
<1>1. IInv => CardHoldsNumbers
  BY DEF IInv
<1> QED
  BY <1>1, Invariant, PTL

\* No sum needs a bit beyond the word: a card can be dealt to its last tile.
THEOREM CardsCanBeDealt ==
    Spec => []DealNeverReverts
BY DealReverts, Invariant, PTL

\* The hits read from the card are the free tile and the numbers marked.
THEOREM HitsAreReadBack ==
    Spec => []HitsAreMarks
<1>1. IInv => HitsAreMarks
  BY DEF IInv
<1> QED
  BY <1>1, Invariant, PTL

-------------------------------------------------------------------------------
(* The refinement: each step on the words is the same step on the card.    *)

LEMMA HitTile ==
    ASSUME NEW t \in Tile
    PROVE  t \in hitTiles <=> HasBit(hitStorage, t)
BY DEF hitTiles, getHitsArrayForCard, getBitValueByIndex

LEMMA InitCard ==
    ASSUME Init
    PROVE  Card!Init
<1>1. /\ IInv /\ i = 0 /\ marked = {}
  BY InitIInv DEF Init
<1>2. \A t \in Tile : t \in Nat /\ ~ (t < 0)
  BY Places DEF Tile
<1>3. getNumbersArrayForCard = [t \in Tile |-> 0]
  BY <1>1, <1>2 DEF IInv, CardHoldsNumbers
<1>4. FreeBit \in Tile
  BY Places DEF FreeBit, Tile
<1>5. \A t \in Tile : getHitsArrayForCard[t] = IF t = FreeBit THEN 1 ELSE 0
  BY <1>1 DEF IInv, HitsAreMarks
<1>6. hitTiles = {FreeBit}
  BY <1>4, <1>5 DEF hitTiles
<1> QED
  BY <1>1, <1>3, <1>6 DEF Card!Init

LEMMA DealCard ==
    ASSUME IInv, NEW rand \in Rands, dealTile(rand)
    PROVE  Card!Deal(rand)
<1>1. /\ i < Buckets /\ i' = i + 1 /\ hitStorage' = hitStorage
      /\ updatedCard' = setBucketValueByIndex(updatedCard, i, rand)
  BY DEF dealTile
<1>2. i \in Tile
  BY <1>1, Places DEF IInv, Tile
<1>3. /\ updatedCard' = updatedCard + rand * 2^(BucketBits * i)
      /\ updatedCard' \in Nat
  BY <1>1, DealtWord
<1>4. \A t \in Tile : getBucketValueByIndex(updatedCard', t) =
         IF t < i THEN rands[t] ELSE IF t = i THEN rand ELSE 0
  BY <1>1, <1>3, DealtNumbers
<1>5. \A t \in Tile : getNumbersArrayForCard[t] = IF t < i THEN rands[t] ELSE 0
  BY DEF IInv, CardHoldsNumbers
<1>6. \A t \in Tile : getNumbersArrayForCard'[t] =
         IF t = i THEN rand ELSE getNumbersArrayForCard[t]
  <2> SUFFICES ASSUME NEW t \in Tile
               PROVE  getNumbersArrayForCard'[t] =
                         IF t = i THEN rand ELSE getNumbersArrayForCard[t]
    OBVIOUS
  <2>1. getNumbersArrayForCard'[t] = getBucketValueByIndex(updatedCard', t)
    BY DEF getNumbersArrayForCard
  <2>2. t \in Int /\ i \in Int
    BY <1>2, Places DEF Tile
  <2> QED
    BY <1>4, <1>5, <2>1, <2>2
<1>7. getNumbersArrayForCard' = [getNumbersArrayForCard EXCEPT ![i] = rand]
  BY <1>2, <1>6 DEF getNumbersArrayForCard
<1>8. hitTiles' = hitTiles
  BY <1>1 DEF hitTiles, getHitsArrayForCard
<1> QED
  BY <1>1, <1>2, <1>7, <1>8 DEF Card!Deal

LEMMA MarkCard ==
    ASSUME IInv, NEW target \in Targets, markNumberOnCard(target)
    PROVE  Card!Mark(target)
<1>1. PICK location \in Tile :
         /\ playerHasNumber(getNumbersArrayForCard, target, location)
         /\ hitStorage' = setBitValueByIndex(hitStorage, location)
  BY DEF markNumberOnCard
<1>2. i = Buckets /\ i' = i /\ updatedCard' = updatedCard
  BY DEF markNumberOnCard
<1>3. \A t \in Tile : t \in Nat /\ t < Buckets /\ t < HitBits
  BY Places DEF Tile
<1>4. i \notin Tile
  BY <1>2, <1>3, Places
<1>5. \A t \in Tile : HasBit(hitStorage', t)
                        <=> (t = location \/ HasBit(hitStorage, t))
  BY <1>1, <1>3, SetBit, Places DEF IInv
<1>6. \A t \in Tile : t \in hitTiles' <=> HasBit(hitStorage', t)
  BY DEF hitTiles, getHitsArrayForCard, getBitValueByIndex
<1>7. hitTiles' = hitTiles \cup {location}
  <2>1. hitTiles \subseteq Tile /\ hitTiles' \subseteq Tile
    BY DEF hitTiles
  <2> QED
    BY <1>5, <1>6, <2>1, HitTile
<1>8. getNumbersArrayForCard' = getNumbersArrayForCard
  BY <1>2 DEF getNumbersArrayForCard
<1>9. /\ getNumbersArrayForCard[location] = target
      /\ \A t \in Tile : t < location => getNumbersArrayForCard[t] # target
  BY <1>1 DEF playerHasNumber
<1> QED
  BY <1>2, <1>4, <1>7, <1>8, <1>9 DEF Card!Mark

\* The words implement the card: what GameMechanics and BitmaskBingo say of
\* numbers and sets of tiles is true of the shifted and masked words.
THEOREM WordsImplementCard ==
    Spec => ImplementsCard
<1>1. Init => Card!Init
  BY InitCard
<1>2. ASSUME IInv, [Next]_cardVars
      PROVE  [Card!Next]_Card!card
  <2>1. CASE UNCHANGED cardVars
    BY <2>1 DEF cardVars, Card!card, getNumbersArrayForCard, hitTiles,
                getHitsArrayForCard
  <2>2. ASSUME NEW rand \in Rands, dealTile(rand)
        PROVE  Card!Next
    BY <1>2, <2>2, DealCard DEF Card!Next
  <2>3. ASSUME NEW target \in Targets, markNumberOnCard(target)
        PROVE  Card!Next
    BY <1>2, <2>3, MarkCard DEF Card!Next
  <2> QED
    BY <1>2, <2>1, <2>2, <2>3 DEF Next
<1> QED
  BY <1>1, <1>2, Invariant, PTL DEF Spec, ImplementsCard, Card!Spec
===============================================================================
