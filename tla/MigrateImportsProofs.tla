-------------------------- MODULE MigrateImportsProofs ------------------------
(***************************************************************************)
(* Proofs about the import migration, for every tree of files, every table *)
(* of paths and every pattern of stops and restarts.                       *)
(***************************************************************************)
EXTENDS MigrateImports, FiniteSetTheorems, FunctionTheorems, TLAPS

Import == Packages \X Paths

LEMMA LeastNatural ==
    ASSUME NEW T \in SUBSET Nat, T # {}
    PROVE  \E x \in T : \A y \in T : x <= y
<1>1. PICK x \in T : \A y \in T : ~ (<<y, x>> \in OpToRel(<, Nat))
  BY WFMin, NatLessThanWellFounded
<1>2. \A y \in T : ~ (y < x)
  BY <1>1 DEF OpToRel
<1> QED
  BY <1>2

\* replace changes nothing but one occurrence of the old import.
LEMMA Replace ==
    ASSUME NEW text \in Seq(Import), NEW old, NEW new, old \in ToSet(text)
    PROVE  \E k \in 1 .. Len(text) :
              text[k] = old /\ replace(text, old, new) = [text EXCEPT ![k] = new]
<1> DEFINE I == {i \in 1 .. Len(text) : text[i] = old}
           k == SelectInSeq(text, LAMBDA import : import = old)
<1>1. k = IF I # {} THEN Min(I) ELSE 0
  BY DEF SelectInSeq
<1>2. I # {}
  BY DEF ToSet
<1>3. Min(I) \in I
  <2>1. I \in SUBSET Nat
    OBVIOUS
  <2> HIDE DEF I
  <2>2. \E x \in I : \A y \in I : x <= y
    BY <1>2, <2>1, LeastNatural
  <2> QED
    BY <2>2 DEF Min
<1>4. k \in 1 .. Len(text) /\ text[k] = old
  BY <1>1, <1>2, <1>3
<1>5. replace(text, old, new) = [text EXCEPT ![k] = new]
  BY DEF replace
<1> HIDE DEF k
<1> QED
  BY <1>4, <1>5

\* Induction along a loop of n passes.
LEMMA EveryPass ==
    ASSUME NEW n \in Nat, NEW S \in SUBSET (0 .. n), 0 \in S,
           \A k \in 1 .. n : k - 1 \in S => k \in S
    PROVE  \A k \in 0 .. n : k \in S
<1> SUFFICES ASSUME (0 .. n) \ S # {} PROVE FALSE
  OBVIOUS
<1>1. (0 .. n) \ S \in SUBSET Nat
  OBVIOUS
<1>2. PICK k \in (0 .. n) \ S : \A l \in (0 .. n) \ S : k <= l
  BY <1>1, LeastNatural
<1>3. k \in 1 .. n /\ k - 1 \in 0 .. n
  BY <1>2
<1>4. k - 1 \in S
  BY <1>2, <1>3
<1> QED
  BY <1>2, <1>3, <1>4

\* The recursive function of updateImportPaths exists, so that the loop has a
\* text before each pass.
LEMMA Loop ==
    ASSUME NEW text
    PROVE  \E after :
              /\ after[0] = text
              /\ \A n \in 1 .. Len(PathUpdates) :
                    after[n] = replaceBoth(after[n - 1], PathUpdates[n])
              /\ updateImportPaths(text) = after[Len(PathUpdates)]
<1> DEFINE N == Len(PathUpdates)
           Passes(f, n) == f = [m \in 0 .. n |-> IF m = 0 THEN text
                                  ELSE replaceBoth(f[m - 1], PathUpdates[m])]
           S == {n \in 0 .. N : \E f : Passes(f, n)}
<1>1. N \in Nat
  BY PathsAssumption
<1>2. 0 \in S
  <2>1. Passes([m \in 0 .. 0 |-> text], 0)
    OBVIOUS
  <2>2. 0 \in 0 .. N
    BY <1>1
  <2> HIDE DEF Passes
  <2> QED
    BY <2>1, <2>2
<1>3. ASSUME NEW n \in 1 .. N, n - 1 \in S
      PROVE  n \in S
  <2>1. PICK f : Passes(f, n - 1)
    BY <1>3
  <2> DEFINE g == [m \in 0 .. n |-> IF m = n
                      THEN replaceBoth(f[n - 1], PathUpdates[n]) ELSE f[m]]
  <2>2. ASSUME NEW m \in 0 .. n
        PROVE  g[m] = IF m = 0 THEN text
                      ELSE replaceBoth(g[m - 1], PathUpdates[m])
    <3>1. CASE m = n
      <4>1. n # 0 /\ n - 1 \in 0 .. n /\ n - 1 # n
        BY <1>1
      <4> QED
        BY <3>1, <4>1
    <3>2. CASE m # n
      <4>1. m \in 0 .. n - 1 /\ (m # 0 => m - 1 \in 0 .. n /\ m - 1 # n)
        BY <1>1, <3>2
      <4>2. f[m] = IF m = 0 THEN text ELSE replaceBoth(f[m - 1], PathUpdates[m])
        BY <2>1, <4>1
      <4> QED
        BY <3>2, <4>1, <4>2
    <3> QED
      BY <3>1, <3>2
  <2>3. Passes(g, n)
    BY <2>2
  <2>4. n \in 0 .. N
    BY <1>1
  <2> HIDE DEF g, Passes
  <2> QED
    BY <2>3, <2>4
<1>4. \A n \in 0 .. N : n \in S
  <2>1. S \in SUBSET (0 .. N)
    OBVIOUS
  <2> HIDE DEF S, N
  <2> QED
    BY <1>1, <1>2, <1>3, <2>1, EveryPass
<1>5. \E f : Passes(f, N)
  BY <1>1, <1>4
<1> DEFINE after == CHOOSE f : Passes(f, N)
<1>6. Passes(after, N)
  <2> HIDE DEF Passes
  <2> QED
    BY <1>5
<1>7. updateImportPaths(text) = after[N]
  BY DEF updateImportPaths
<1> HIDE DEF after
<1>8. after[0] = text /\ \A n \in 1 .. N :
         after[n] = replaceBoth(after[n - 1], PathUpdates[n])
  BY <1>1, <1>6
<1> QED
  BY <1>7, <1>8

-------------------------------------------------------------------------------

\* Each import is as it was or moved.
Kept(t, s) ==
    /\ s \in Seq(Import)
    /\ Len(s) = Len(t)
    /\ \A i \in 1 .. Len(t) : s[i] \in {t[i], Moved(t[i])}

\* What has moved does not move again, and what has not moved stays.
LEMMA MovedFacts ==
    ASSUME NEW x \in Import
    PROVE  /\ Moved(x) \in Import
           /\ Moved(x)[2] \notin OldPaths
           /\ x[2] \notin OldPaths => Moved(x) = x
           /\ \A k \in 1 .. Len(PathUpdates) : x[2] = PathUpdates[k][1] =>
                 x[2] \in OldPaths /\ Moved(x) = <<x[1], PathUpdates[k][2]>>
<1>1. /\ DOMAIN PathUpdates = 1 .. Len(PathUpdates)
      /\ \A k \in 1 .. Len(PathUpdates) : PathUpdates[k] \in Paths \X Paths
  BY PathsAssumption
<1>2. x[1] \in Packages /\ x[2] \in Paths
  BY DEF Import
<1>3. CASE x[2] \notin OldPaths
  BY <1>1, <1>3 DEF Moved, OldPaths
<1>4. CASE x[2] \in OldPaths
  <2>1. PICK k \in DOMAIN PathUpdates : PathUpdates[k][1] = x[2]
    BY <1>4 DEF OldPaths
  <2>2. (CHOOSE i \in DOMAIN PathUpdates : PathUpdates[i][1] = x[2]) = k
    BY <2>1, PathsAssumption
  <2>3. Moved(x) = <<x[1], PathUpdates[k][2]>>
    BY <1>4, <2>2 DEF Moved
  <2>4. PathUpdates[k][2] \in Paths /\ PathUpdates[k][2] \in NewPaths
    BY <1>1 DEF NewPaths
  <2>5. \A l \in DOMAIN PathUpdates : PathUpdates[l][1] = x[2] => l = k
    BY <2>1, PathsAssumption
  <2> QED
    BY <1>1, <1>2, <1>4, <2>3, <2>4, <2>5, PathsAssumption DEF Import
<1> QED
  BY <1>3, <1>4

\* To keep what was kept is to keep.
LEMMA KeptTwice ==
    ASSUME NEW r \in Seq(Import), NEW s, NEW t, Kept(r, s), Kept(s, t)
    PROVE  Kept(r, t)
<1>1. \A i \in 1 .. Len(r) : r[i] \in Import
  OBVIOUS
<1>2. ASSUME NEW i \in 1 .. Len(r)
      PROVE  t[i] \in {r[i], Moved(r[i])}
  <2>1. s[i] \in {r[i], Moved(r[i])} /\ t[i] \in {s[i], Moved(s[i])}
    BY <1>2 DEF Kept
  <2>2. Moved(Moved(r[i])) = Moved(r[i])
    BY <1>1, MovedFacts
  <2> QED
    BY <2>1, <2>2
<1> QED
  BY <1>2 DEF Kept

\* One call of replace in the loop: was is the import of an old path.
LEMMA OneMove ==
    ASSUME NEW t \in Seq(Import), NEW s \in Seq(Import), Kept(t, s),
           NEW was \in Import, was[2] \in OldPaths
    PROVE  LET r == replace(s, was, Moved(was)) IN
              /\ Kept(t, r)
              /\ \A i \in 1 .. Len(t) : r[i] = s[i] \/ r[i][2] \notin OldPaths
              /\ OldOnce(t) => \A i \in 1 .. Len(t) : r[i] # was
<1>1. PICK now \in Import : now = Moved(was) /\ now[2] \notin OldPaths
  BY MovedFacts
<1>2. /\ Len(s) = Len(t)
      /\ \A i \in 1 .. Len(t) : s[i] \in {t[i], Moved(t[i])}
  BY DEF Kept
<1>3. ASSUME NEW i \in 1 .. Len(t), s[i] = was
      PROVE  t[i] = was
  <2>1. t[i] \in Import
    OBVIOUS
  <2>2. Moved(t[i])[2] \notin OldPaths
    BY <2>1, MovedFacts
  <2> QED
    BY <1>2, <1>3, <2>2
<1>4. CASE was \notin ToSet(s)
  <2>1. replace(s, was, now) = s
    BY <1>4 DEF replace
  <2>2. \A i \in 1 .. Len(t) : s[i] # was
    BY <1>2, <1>4 DEF ToSet
  <2> QED
    BY <1>1, <2>1, <2>2
<1>5. CASE was \in ToSet(s)
  <2>1. PICK k \in 1 .. Len(s) :
           s[k] = was /\ replace(s, was, now) = [s EXCEPT ![k] = now]
    BY <1>5, Replace
  <2>2. PICK r : r = [s EXCEPT ![k] = now]
    OBVIOUS
  <2>3. /\ r \in Seq(Import) /\ Len(r) = Len(s)
        /\ \A i \in 1 .. Len(s) : r[i] = IF i = k THEN now ELSE s[i]
    BY <2>2
  <2>4. t[k] = was
    BY <1>2, <1>3, <2>1
  <2>5. \A i \in 1 .. Len(t) : r[i] \in {t[i], Moved(t[i])}
    BY <1>1, <1>2, <2>3, <2>4
  <2>6. \A i \in 1 .. Len(t) : r[i] = s[i] \/ r[i][2] \notin OldPaths
    BY <1>1, <1>2, <2>3
  <2>7. ASSUME OldOnce(t), NEW i \in 1 .. Len(t), r[i] = was
        PROVE  FALSE
    <3>1. i # k /\ s[i] = was
      BY <1>1, <1>2, <2>3, <2>7
    <3>2. t[i] = t[k] /\ t[i][2] \in OldPaths
      BY <1>3, <2>4, <3>1
    <3> QED
      BY <1>2, <2>7, <3>1, <3>2 DEF OldOnce
  <2>8. Kept(t, r)
    BY <1>2, <2>3, <2>5 DEF Kept
  <2> QED
    BY <1>1, <2>1, <2>2, <2>6, <2>7, <2>8
<1> QED
  BY <1>4, <1>5

\* One pass of the loop.
LEMMA OnePass ==
    ASSUME NEW t \in Seq(Import), NEW s \in Seq(Import), Kept(t, s),
           NEW k \in 1 .. Len(PathUpdates)
    PROVE  LET r == replaceBoth(s, PathUpdates[k]) IN
              /\ Kept(t, r)
              /\ \A i \in 1 .. Len(t) : r[i] = s[i] \/ r[i][2] \notin OldPaths
              /\ OldOnce(t) => \A i \in 1 .. Len(t) : r[i][2] # PathUpdates[k][1]
<1> DEFINE Old(package) == <<package, PathUpdates[k][1]>>
           New(package) == <<package, PathUpdates[k][2]>>
<1>1. ASSUME NEW package \in Packages
      PROVE  /\ Old(package) \in Import /\ Old(package)[2] \in OldPaths
             /\ Moved(Old(package)) = New(package)
  <2>1. PathUpdates[k] \in Paths \X Paths
    BY PathsAssumption
  <2>2. Old(package) \in Import
    BY <2>1 DEF Import
  <2> QED
    BY <2>2, MovedFacts
<1>2. PICK x \in Import, y \in Import :
         /\ x = Old("contracts") /\ y = Old("contracts-upgradeable")
         /\ x[2] \in OldPaths /\ y[2] \in OldPaths
         /\ Moved(x) = New("contracts") /\ Moved(y) = New("contracts-upgradeable")
  BY <1>1 DEF Packages
<1>3. PICK m : m = replace(s, x, Moved(x))
  OBVIOUS
<1>4. /\ Kept(t, m)
      /\ \A i \in 1 .. Len(t) : m[i] = s[i] \/ m[i][2] \notin OldPaths
      /\ OldOnce(t) => \A i \in 1 .. Len(t) : m[i] # x
  BY <1>2, <1>3, OneMove
<1>5. m \in Seq(Import)
  BY <1>4 DEF Kept
<1>6. PICK r : r = replace(m, y, Moved(y))
  OBVIOUS
<1>7. /\ Kept(t, r)
      /\ \A i \in 1 .. Len(t) : r[i] = m[i] \/ r[i][2] \notin OldPaths
      /\ OldOnce(t) => \A i \in 1 .. Len(t) : r[i] # y
  BY <1>2, <1>4, <1>5, <1>6, OneMove
<1>8. replaceBoth(s, PathUpdates[k]) = r
  BY <1>2, <1>3, <1>6 DEF replaceBoth
<1>9. ASSUME OldOnce(t), NEW i \in 1 .. Len(t)
      PROVE  r[i][2] # PathUpdates[k][1]
  <2>1. r[i] \in Import
    BY <1>7 DEF Kept
  <2>2. r[i] = <<r[i][1], r[i][2]>>
        /\ r[i][1] \in {"contracts", "contracts-upgradeable"}
    BY <2>1 DEF Import, Packages
  <2>3. r[i] # y /\ m[i] # x
    BY <1>4, <1>7, <1>9
  <2>4. r[i] = m[i] \/ r[i][2] \notin OldPaths
    BY <1>7
  <2> QED
    BY <1>2, <2>2, <2>3, <2>4
<1> QED
  BY <1>4, <1>7, <1>8, <1>9

\* updateImportPaths moves imports and changes nothing else; of a text that
\* names no old import twice it moves all.
LEMMA Update ==
    ASSUME NEW text \in Seq(Import)
    PROVE  /\ Kept(text, updateImportPaths(text))
           /\ OldOnce(text) => Migrated(updateImportPaths(text))
<1> DEFINE N == Len(PathUpdates)
<1>1. N \in Nat
  BY PathsAssumption
<1>2. PICK after : /\ after[0] = text
                   /\ \A n \in 1 .. N :
                         after[n] = replaceBoth(after[n - 1], PathUpdates[n])
                   /\ updateImportPaths(text) = after[N]
  BY Loop
<1> DEFINE S == {n \in 0 .. N :
                    /\ Kept(text, after[n])
                    /\ OldOnce(text) =>
                          \A i \in 1 .. Len(text) : \A k \in 1 .. n :
                             after[n][i][2] # PathUpdates[k][1]}
<1>3. 0 \in S
  <2>1. Kept(text, after[0])
    BY <1>2 DEF Kept
  <2> QED
    BY <1>1, <2>1
<1>4. ASSUME NEW n \in 1 .. N, n - 1 \in S
      PROVE  n \in S
  <2>1. PICK s, r : s = after[n - 1] /\ r = after[n]
    OBVIOUS
  <2>2. /\ Kept(text, s)
        /\ OldOnce(text) => \A i \in 1 .. Len(text) : \A k \in 1 .. n - 1 :
                              s[i][2] # PathUpdates[k][1]
    BY <1>4, <2>1
  <2>3. /\ Kept(text, r)
        /\ \A i \in 1 .. Len(text) : r[i] = s[i] \/ r[i][2] \notin OldPaths
        /\ OldOnce(text) =>
              \A i \in 1 .. Len(text) : r[i][2] # PathUpdates[n][1]
    <3>1. s \in Seq(Import) /\ r = replaceBoth(s, PathUpdates[n])
      BY <1>2, <2>1, <2>2 DEF Kept
    <3> QED
      BY <2>2, <3>1, OnePass
  <2>4. ASSUME OldOnce(text), NEW i \in 1 .. Len(text), NEW k \in 1 .. n
        PROVE  r[i][2] # PathUpdates[k][1]
    <3>1. PathUpdates[k][1] \in OldPaths
      BY <1>1, PathsAssumption DEF OldPaths
    <3>2. k = n \/ k \in 1 .. n - 1
      BY <1>1
    <3> QED
      BY <2>2, <2>3, <2>4, <3>1, <3>2
  <2> QED
    BY <1>1, <2>1, <2>3, <2>4
<1>5. \A n \in 0 .. N : n \in S
  <2>1. S \in SUBSET (0 .. N)
    OBVIOUS
  <2> HIDE DEF S, N
  <2> QED
    BY <1>1, <1>3, <1>4, <2>1, EveryPass
<1>6. N \in S
  BY <1>1, <1>5
<1>7. ASSUME OldOnce(text)
      PROVE  Migrated(updateImportPaths(text))
  <2>1. \A i \in 1 .. Len(text) : \A k \in 1 .. N :
           after[N][i][2] # PathUpdates[k][1]
    BY <1>6, <1>7
  <2>2. DOMAIN PathUpdates = 1 .. N
    BY PathsAssumption
  <2>3. \A i \in 1 .. Len(text) : after[N][i][2] \notin OldPaths
    BY <2>1, <2>2 DEF OldPaths
  <2>4. Len(after[N]) = Len(text)
    BY <1>6 DEF Kept
  <2> QED
    BY <1>2, <2>3, <2>4 DEF Migrated
<1> QED
  BY <1>2, <1>6, <1>7

-------------------------------------------------------------------------------

\* A text of which nothing is left to be moved stays as it is.
LEMMA UpdateAgain ==
    ASSUME NEW text \in Seq(Import), Migrated(text)
    PROVE  updateImportPaths(text) = text
<1>1. Kept(text, updateImportPaths(text))
  BY Update
<1>2. PICK s \in Seq(Import) : s = updateImportPaths(text)
  BY <1>1 DEF Kept
<1>3. ASSUME NEW i \in 1 .. Len(text)
      PROVE  s[i] = text[i]
  <2>1. text[i] \in Import /\ text[i][2] \notin OldPaths
    BY DEF Migrated
  <2> QED
    BY <1>1, <1>2, <2>1, MovedFacts DEF Kept
<1>4. Len(s) = Len(text)
  BY <1>1, <1>2 DEF Kept
<1> QED
  BY <1>2, <1>3, <1>4

\* What has moved never comes back.
LEMMA KeptBack ==
    ASSUME NEW b \in Seq(Import), NEW s \in Seq(Import), Kept(b, s), Kept(s, b)
    PROVE  b = s
<1>1. ASSUME NEW i \in 1 .. Len(b)
      PROVE  b[i] = s[i]
  <2>1. Len(s) = Len(b) /\ b[i] \in Import
    BY DEF Kept
  <2>2. s[i] \in {b[i], Moved(b[i])} /\ b[i] \in {s[i], Moved(s[i])}
    BY <2>1 DEF Kept
  <2>3. Moved(Moved(b[i])) = Moved(b[i])
    BY <2>1, MovedFacts
  <2> QED
    BY <2>2, <2>3
<1> QED
  BY <1>1 DEF Kept

LEMMA KeptItself ==
    ASSUME NEW t \in Seq(Import)
    PROVE  Kept(t, t)
BY DEF Kept

\* The first imports of t, each as it was or moved.
FirstsKept(t, s) ==
    /\ s \in Seq(Import)
    /\ Len(s) <= Len(t)
    /\ \A i \in 1 .. Len(s) : s[i] \in {t[i], Moved(t[i])}

\* A text that was cut off and one that is complete are updated alike.
LEMMA FirstsThenKept ==
    ASSUME NEW r \in Seq(Import), NEW s, NEW t, FirstsKept(r, s), Kept(s, t)
    PROVE  FirstsKept(r, t) /\ Len(t) = Len(s)
<1>1. s \in Seq(Import) /\ Len(s) <= Len(r)
  BY DEF FirstsKept
<1>2. ASSUME NEW i \in 1 .. Len(s)
      PROVE  t[i] \in {r[i], Moved(r[i])}
  <2>1. r[i] \in Import
    BY <1>1
  <2>2. s[i] \in {r[i], Moved(r[i])} /\ t[i] \in {s[i], Moved(s[i])}
    BY <1>1 DEF FirstsKept, Kept
  <2>3. Moved(Moved(r[i])) = Moved(r[i])
    BY <2>1, MovedFacts
  <2> QED
    BY <2>2, <2>3
<1>3. t \in Seq(Import) /\ Len(t) = Len(s)
  BY DEF Kept
<1> QED
  BY <1>1, <1>2, <1>3 DEF FirstsKept

LEMMA FirstsOfFirsts ==
    ASSUME NEW r \in Seq(Import), NEW t, FirstsKept(r, t), NEW n \in 0 .. Len(t)
    PROVE  FirstsKept(r, SubSeq(t, 1, n))
<1>1. t \in Seq(Import)
  BY DEF FirstsKept
<1>2. PICK s : s = SubSeq(t, 1, n)
  OBVIOUS
<1>3. n \in Nat /\ Len(s) = n /\ \A i \in 1 .. n : s[i] = t[i]
  BY <1>1, <1>2
<1>4. s \in Seq(Import)
  BY <1>1, <1>2
<1> QED
  BY <1>1, <1>2, <1>3, <1>4 DEF FirstsKept

LEMMA FirstsItself ==
    ASSUME NEW t \in Seq(Import)
    PROVE  FirstsKept(t, t)
BY DEF FirstsKept

LEMMA OldOnceFirsts ==
    ASSUME NEW t \in Seq(Import), NEW s, FirstsKept(t, s), OldOnce(t)
    PROVE  OldOnce(s)
<1>1. s \in Seq(Import) /\ Len(s) <= Len(t)
  BY DEF FirstsKept
<1>2. ASSUME NEW i \in 1 .. Len(s), s[i][2] \in OldPaths
      PROVE  s[i] = t[i]
  <2>1. t[i] \in Import
    BY <1>1
  <2>2. Moved(t[i])[2] \notin OldPaths
    BY <2>1, MovedFacts
  <2> QED
    BY <1>2, <2>2 DEF FirstsKept
<1>3. ASSUME NEW i \in 1 .. Len(s), NEW j \in 1 .. Len(s),
             s[i] = s[j], s[i][2] \in OldPaths
      PROVE  i = j
  <2>1. i \in DOMAIN t /\ j \in DOMAIN t
    BY <1>1
  <2>2. s[i] = t[i] /\ s[j] = t[j]
    BY <1>2, <1>3
  <2> QED
    BY <1>3, <2>1, <2>2 DEF OldOnce
<1>4. DOMAIN s = 1 .. Len(s)
  BY <1>1
<1> QED
  BY <1>3, <1>4 DEF OldOnce

-------------------------------------------------------------------------------

Path == Files \cup Directories

Texts == [Files -> Seq(Import)]

TypeInv ==
    /\ source \in Texts /\ original \in Texts /\ before \in Texts
    /\ pc \in {"idle", "list", "read", "write", "writing", "done"}
    /\ queue \in Seq(Path) /\ files \in Seq(Files) /\ updatedFiles \in Seq(Files)
    /\ pc \in {"write", "writing"} => files # << >>
    /\ pc = "done" => files = << >>

\* What has been read of the file that is written: the text still to be written
\* is made of it, when the file itself holds nothing any more.
Read ==
    /\ content \in Seq(Import)
    /\ FirstsKept(original[Head(files)], content)
    /\ Head(files) \notin cut => Len(content) = Len(original[Head(files)])

IInv ==
    /\ TypeInv
    /\ \A f \in Files : FirstsKept(original[f], source[f])
    /\ \A f \in Files \ Unfinished : Len(source[f]) = Len(original[f])
    /\ pc = "write" => content = source[Head(files)]
    /\ pc = "writing" => Read

LEMMA InitIInv ==
    Init => IInv
<1> SUFFICES ASSUME Init PROVE IInv
  OBVIOUS
<1>1. source \in [Files -> Seq(Import)]
  BY FilesAssumption DEF Init, Import
<1> QED
  BY <1>1, FirstsItself DEF Init, IInv, TypeInv, Texts, Unfinished

LEMMA StartIInv ==
    ASSUME IInv, NEW paths \in Arguments, Start(paths)
    PROVE  IInv'
<1>1. /\ UNCHANGED <<source, original, cut>> /\ before' = source /\ pc' = "list"
      /\ queue' = paths /\ files' = << >> /\ updatedFiles' = << >> /\ pc # "writing"
  BY DEF Start
<1>2. TypeInv /\ paths \in Seq(Path)
  BY FilesAssumption DEF IInv, Path
<1>3. TypeInv'
  BY <1>1, <1>2 DEF TypeInv
<1> QED
  BY <1>1, <1>3 DEF IInv, Unfinished

\* The sequences that list a directory list each entry of it.
LEMMA Listings ==
    ASSUME NEW S, IsFiniteSet(S), NEW names \in SetToSeqs(S)
    PROVE  names \in Seq(S) /\ \A x \in S : \E i \in 1 .. Len(names) : names[i] = x
<1> DEFINE n == Cardinality(S)
           D == 1 .. n
<1>1. n \in Nat
  BY FS_CardinalityType
<1>2. names \in [D -> S] /\ \A i, j \in D : i # j => names[i] # names[j]
  BY DEF SetToSeqs
<1>3. names \in Seq(S) /\ Len(names) = n
  BY <1>1, <1>2
<1>4. IsFiniteSet(D) /\ Cardinality(D) = n
  BY <1>1, FS_Interval
<1> HIDE DEF D, n
<1>5. names \in Injection(D, S)
  BY <1>2 DEF Injection, IsInjective
<1>6. names \in Surjection(D, S)
  BY <1>4, <1>5, FS_Injection DEF n
<1>7. \A x \in S : \E i \in D : names[i] = x
  BY <1>6 DEF Surjection
<1> QED
  BY <1>3, <1>7 DEF D

\* Listing reads and writes no file.
LEMMA ListIInv ==
    ASSUME IInv, ListFile \/ ListDirectory \/ Listed
    PROVE  IInv'
<1>1. /\ UNCHANGED <<source, content, updatedFiles, runs, original, before, cut>>
      /\ pc = "list" /\ pc' \in {"list", "read"}
  BY DEF ListFile, ListDirectory, Listed, history
<1>2. TypeInv
  BY DEF IInv
<1>3. queue' \in Seq(Path) /\ files' \in Seq(Files)
  <2>1. CASE ListFile
    BY <1>2, <2>1 DEF ListFile, TypeInv
  <2>2. CASE ListDirectory
    <3>1. PICK names \in SetToSeqs(Children[Head(queue)]) :
             queue' = Tail(queue) \o names
      BY <2>2 DEF ListDirectory
    <3>2. Head(queue) \in Directories /\ queue # << >> /\ files' = files
      BY <2>2 DEF ListDirectory
    <3>3. Children[Head(queue)] \subseteq Path /\ IsFiniteSet(Children[Head(queue)])
      BY <3>2, FilesAssumption DEF Path
    <3>4. names \in Seq(Path)
      <4>1. names \in Seq(Children[Head(queue)])
        BY <3>1, <3>3, Listings
      <4> QED
        BY <3>3, <4>1
    <3> QED
      BY <1>2, <3>1, <3>2, <3>4 DEF TypeInv
  <2>3. CASE Listed
    BY <1>2, <2>3 DEF Listed, TypeInv
  <2> QED
    BY <2>1, <2>2, <2>3
<1>4. TypeInv'
  BY <1>1, <1>2, <1>3 DEF TypeInv
<1> QED
  BY <1>1, <1>4 DEF IInv, Unfinished

\* The file that updateFile is about.
LEMMA Current ==
    ASSUME TypeInv, pc \in {"write", "writing"}
    PROVE  /\ Head(files) \in Files /\ Tail(files) \in Seq(Files)
           /\ files # << >> /\ Head(files) = files[1]
           /\ source[Head(files)] \in Seq(Import)
           /\ original[Head(files)] \in Seq(Import)
           /\ before[Head(files)] \in Seq(Import)
<1>1. files \in Seq(Files) /\ files # << >>
  BY DEF TypeInv
<1>2. Head(files) \in Files /\ Tail(files) \in Seq(Files)
  BY <1>1
<1> QED
  BY <1>1, <1>2 DEF TypeInv, Texts

LEMMA KeepIInv ==
    ASSUME IInv, KeepFile
    PROVE  IInv'
<1>1. /\ UNCHANGED <<source, queue, updatedFiles, original, before, cut>>
      /\ pc = "write" /\ pc' = "read" /\ files' = Tail(files)
  BY DEF KeepFile, history
<1>2. TypeInv /\ Tail(files) \in Seq(Files)
  BY <1>1, Current DEF IInv
<1>3. TypeInv'
  BY <1>1, <1>2 DEF TypeInv
<1> QED
  BY <1>1, <1>3 DEF IInv, Unfinished

LEMMA OpenIInv ==
    ASSUME IInv, OpenFile
    PROVE  IInv'
<1>1. /\ UNCHANGED <<queue, files, content, updatedFiles, original, before, cut>>
      /\ pc = "write" /\ pc' = "writing"
      /\ source' = [source EXCEPT ![Head(files)] = << >>]
  BY DEF OpenFile, history
<1>2. PICK file \in Files : file = Head(files)
  BY <1>1, Current DEF IInv
<1>3. TypeInv /\ source \in Texts /\ original \in Texts
  BY DEF IInv, TypeInv
<1>4. /\ source' \in Texts /\ source'[file] = << >>
      /\ \A f \in Files \ {file} : source'[f] = source[f]
  BY <1>1, <1>2, <1>3 DEF Texts
<1>5. TypeInv'
  BY <1>1, <1>3, <1>4 DEF TypeInv
<1>6. FirstsKept(original[file], << >>)
  BY <1>3 DEF FirstsKept, Texts
<1>7. \A f \in Files : FirstsKept(original'[f], source'[f])
  BY <1>1, <1>4, <1>6 DEF IInv
<1>8. Unfinished = cut /\ Unfinished' = cut \cup {file}
  BY <1>1, <1>2 DEF Unfinished
<1>9. \A f \in Files \ Unfinished' : Len(source'[f]) = Len(original'[f])
  BY <1>1, <1>4, <1>8 DEF IInv
<1>10. Read'
  <2>1. content = source[file] /\ content \in Seq(Import)
    BY <1>1, <1>2, <1>3 DEF IInv, Texts
  <2>2. FirstsKept(original[file], content)
    BY <2>1 DEF IInv
  <2>3. file \notin cut => Len(content) = Len(original[file])
    BY <1>8, <2>1 DEF IInv
  <2> QED
    BY <1>1, <1>2, <2>1, <2>2, <2>3 DEF Read
<1> QED
  BY <1>1, <1>5, <1>7, <1>9, <1>10 DEF IInv

\* What is being written.
LEMMA NewText ==
    ASSUME IInv, pc = "writing"
    PROVE  /\ updateImportPaths(content) \in Seq(Import)
           /\ Kept(content, updateImportPaths(content))
           /\ FirstsKept(original[Head(files)], updateImportPaths(content))
           /\ Head(files) \notin cut =>
                 Len(updateImportPaths(content)) = Len(original[Head(files)])
<1>1. Read /\ original[Head(files)] \in Seq(Import)
  BY Current DEF IInv
<1>2. Kept(content, updateImportPaths(content))
  BY <1>1, Update DEF Read
<1>3. /\ FirstsKept(original[Head(files)], updateImportPaths(content))
      /\ Len(updateImportPaths(content)) = Len(content)
  BY <1>1, <1>2, FirstsThenKept DEF Read
<1> QED
  BY <1>1, <1>2, <1>3 DEF Kept, Read

LEMMA ChunkIInv ==
    ASSUME IInv, WriteChunk
    PROVE  IInv'
<1>1. /\ UNCHANGED <<pc, queue, files, content, updatedFiles, original, before, cut>>
      /\ pc = "writing"
  BY DEF WriteChunk, history
<1>2. PICK file \in Files : file = Head(files)
  BY <1>1, Current DEF IInv
<1>3. PICK text \in Seq(Import) : text = updateImportPaths(content)
                                  /\ FirstsKept(original[file], text)
  BY <1>1, <1>2, NewText
<1>4. PICK n \in Len(source[file]) + 1 .. Len(text) :
         source' = [source EXCEPT ![file] = SubSeq(text, 1, n)]
  BY <1>2, <1>3 DEF WriteChunk
<1>5. TypeInv /\ source \in Texts /\ original \in Texts
  BY DEF IInv, TypeInv
<1>6. n \in 0 .. Len(text)
  <2>1. source[file] \in Seq(Import)
    BY <1>5 DEF Texts
  <2>2. Len(source[file]) \in Nat /\ Len(text) \in Nat
    BY <2>1
  <2> QED
    BY <2>2
<1>7. FirstsKept(original[file], SubSeq(text, 1, n))
  BY <1>3, <1>5, <1>6, FirstsOfFirsts DEF Texts
<1>8. /\ source' \in Texts
      /\ source'[file] = SubSeq(text, 1, n)
      /\ \A f \in Files \ {file} : source'[f] = source[f]
  BY <1>4, <1>5, <1>7 DEF Texts, FirstsKept
<1>9. TypeInv'
  BY <1>1, <1>5, <1>8 DEF TypeInv
<1>10. \A f \in Files : FirstsKept(original'[f], source'[f])
  BY <1>1, <1>7, <1>8 DEF IInv
<1>11. Unfinished' = Unfinished /\ file \in Unfinished
  BY <1>1, <1>2 DEF Unfinished
<1>12. \A f \in Files \ Unfinished' : Len(source'[f]) = Len(original'[f])
  BY <1>1, <1>8, <1>11 DEF IInv
<1>13. Read'
  BY <1>1 DEF IInv, Read
<1> QED
  BY <1>1, <1>9, <1>10, <1>12, <1>13 DEF IInv

LEMMA WriteIInv ==
    ASSUME IInv, WriteFile
    PROVE  IInv'
<1>1. /\ UNCHANGED <<source, queue, original, before, cut>>
      /\ pc = "writing" /\ pc' = "read" /\ files' = Tail(files)
      /\ updatedFiles' = Append(updatedFiles, Head(files))
      /\ source[Head(files)] = updateImportPaths(content)
  BY DEF WriteFile, history
<1>2. PICK file \in Files : file = Head(files)
  BY <1>1, Current DEF IInv
<1>3. TypeInv /\ Tail(files) \in Seq(Files)
  BY <1>1, Current DEF IInv
<1>4. TypeInv'
  BY <1>1, <1>2, <1>3 DEF TypeInv
<1>5. Unfinished' = cut /\ Unfinished = cut \cup {file}
  BY <1>1, <1>2 DEF Unfinished
<1>6. file \notin cut => Len(source[file]) = Len(original[file])
  BY <1>1, <1>2, NewText
<1>7. \A f \in Files \ Unfinished' : Len(source'[f]) = Len(original'[f])
  BY <1>1, <1>5, <1>6 DEF IInv
<1> QED
  BY <1>1, <1>4, <1>7 DEF IInv

\* A stop leaves the file that was being written among those cut off.
LEMMA StopIInv ==
    ASSUME IInv, Stop
    PROVE  IInv'
<1>1. /\ UNCHANGED <<source, original, before>> /\ pc' = "idle"
      /\ queue' = << >> /\ files' = << >> /\ updatedFiles' = << >>
      /\ cut' = IF pc = "writing" THEN cut \cup {Head(files)} ELSE cut
  BY DEF Stop
<1>2. TypeInv'
  BY <1>1 DEF IInv, TypeInv
<1>3. Unfinished' = Unfinished
  BY <1>1 DEF Unfinished
<1> QED
  BY <1>1, <1>2, <1>3 DEF IInv

LEMMA NextIInv ==
    ASSUME IInv, [Next]_vars
    PROVE  IInv'
<1>1. CASE UNCHANGED vars
  BY <1>1 DEF vars, history, IInv, TypeInv, Read, Unfinished
<1>2. CASE ListFile \/ ListDirectory \/ Listed
  BY <1>2, ListIInv
<1>3. CASE ReadFile
  BY <1>3 DEF ReadFile, history, IInv, TypeInv, Unfinished
<1>4. CASE KeepFile \/ OpenFile \/ WriteChunk \/ WriteFile
  BY <1>4, KeepIInv, OpenIInv, ChunkIInv, WriteIInv
<1>5. CASE Finish
  BY <1>5 DEF Finish, history, IInv, TypeInv, Unfinished
<1>6. CASE Stop
  BY <1>6, StopIInv
<1>7. ASSUME NEW paths \in Arguments, Start(paths)
      PROVE  IInv'
  BY <1>7, StartIInv
<1> QED
  BY <1>1, <1>2, <1>3, <1>4, <1>5, <1>6, <1>7 DEF Next, Script

LEMMA Invariant ==
    Spec => []IInv
BY InitIInv, NextIInv, PTL DEF Spec

\* At every moment, in the middle of a write and after any number of stops, a
\* file holds its own first imports, in their order, each as it was or moved,
\* and all of them unless it is being written or a stop cut its writing off.
THEOREM OnlyImportsMove ==
    Spec => []NothingElseChanges
<1>1. IInv => NothingElseChanges
  <2> SUFFICES ASSUME IInv, NEW f \in Files
               PROVE  /\ \A i \in DOMAIN source[f] :
                            /\ i \in DOMAIN original[f]
                            /\ source[f][i] \in {original[f][i], Moved(original[f][i])}
                      /\ f \notin Unfinished => Len(source[f]) = Len(original[f])
    BY DEF NothingElseChanges
  <2>1. FirstsKept(original[f], source[f])
    BY DEF IInv
  <2>2. source[f] \in Seq(Import) /\ original[f] \in Seq(Import)
    BY DEF IInv, TypeInv, Texts
  <2>3. \A i \in DOMAIN source[f] :
           /\ i \in DOMAIN original[f]
           /\ source[f][i] \in {original[f][i], Moved(original[f][i])}
    BY <2>1, <2>2 DEF FirstsKept
  <2> QED
    BY <2>3 DEF IInv
<1> QED
  BY <1>1, Invariant, PTL

-------------------------------------------------------------------------------

\* The file that is being written is neither as it was nor as it will be.
InHand == IF pc = "writing" THEN {Head(files)} ELSE {}

Reported == {f \in Files : \E i \in 1 .. Len(updatedFiles) : updatedFiles[i] = f}

ReportedOnce ==
    \A i, j \in 1 .. Len(updatedFiles) :
       updatedFiles[i] = updatedFiles[j] /\ OldOnce(before[updatedFiles[i]]) => i = j

\* Since the start a file has been written from what was read of it, as nobody
\* else writes, and what has moved stays: so the files that differ are those
\* reported, and a file that named no old path twice is not written again.
RInv ==
    pc # "idle" =>
       /\ \A f \in Files \ InHand : /\ Kept(before[f], source[f])
                                    /\ f \in Reported <=> source[f] # before[f]
       /\ pc = "writing" => /\ Kept(before[Head(files)], content)
                            /\ updateImportPaths(content) # content
       /\ \A f \in Reported : OldOnce(before[f]) => f \notin InHand /\ Migrated(source[f])
       /\ ReportedOnce

LEMMA StartRInv ==
    ASSUME IInv, NEW paths \in Arguments, Start(paths)
    PROVE  RInv'
<1>1. /\ source' = source /\ before' = source /\ pc' = "list" /\ updatedFiles' = << >>
      /\ source \in [Files -> Seq(Import)]
  BY DEF Start, IInv, TypeInv, Texts
<1>2. Reported' = {} /\ InHand' = {}
  BY <1>1 DEF Reported, InHand
<1>3. \A f \in Files : Kept(before'[f], source'[f])
  BY <1>1, KeptItself
<1> QED
  BY <1>1, <1>2, <1>3 DEF RInv, ReportedOnce

LEMMA OpenRInv ==
    ASSUME IInv, RInv, OpenFile
    PROVE  RInv'
<1>1. /\ UNCHANGED <<files, content, updatedFiles, before>>
      /\ pc = "write" /\ pc' = "writing" /\ updateImportPaths(content) # content
      /\ source' = [source EXCEPT ![Head(files)] = << >>]
  BY DEF OpenFile, history
<1>2. PICK file \in Files : file = Head(files)
  BY <1>1, Current DEF IInv
<1>3. /\ content = source[file] /\ content \in Seq(Import)
      /\ source \in [Files -> Seq(Import)]
  BY <1>1, <1>2 DEF IInv, TypeInv, Texts
<1>4. \A f \in Files \ {file} : source'[f] = source[f]
  BY <1>1, <1>2, <1>3
<1>5. InHand = {} /\ InHand' = {file} /\ Reported' = Reported /\ Reported \subseteq Files
  BY <1>1, <1>2 DEF InHand, Reported
<1>6. ASSUME NEW f \in Reported, OldOnce(before[f])
      PROVE  f # file /\ Migrated(source'[f])
  <2>1. Migrated(source[f])
    BY <1>1, <1>6 DEF RInv
  <2>2. f # file
    BY <1>1, <1>3, <2>1, UpdateAgain
  <2> QED
    BY <1>4, <1>5, <2>1, <2>2
<1>7. Kept(before[file], content)
  BY <1>1, <1>3, <1>5 DEF RInv
<1>8. ReportedOnce'
  BY <1>1 DEF RInv, ReportedOnce
<1> QED
  BY <1>1, <1>2, <1>4, <1>5, <1>6, <1>7, <1>8 DEF RInv

LEMMA ChunkRInv ==
    ASSUME IInv, RInv, WriteChunk
    PROVE  RInv'
<1>1. /\ UNCHANGED <<pc, files, content, updatedFiles, before>> /\ pc = "writing"
  BY DEF WriteChunk, history
<1>2. PICK file \in Files : file = Head(files)
  BY <1>1, Current DEF IInv
<1>3. \E text : source' = [source EXCEPT ![file] = text]
  BY <1>2 DEF WriteChunk
<1>4. \A f \in Files \ {file} : source'[f] = source[f]
  BY <1>3 DEF IInv, TypeInv, Texts
<1>5. InHand = {file} /\ InHand' = {file} /\ Reported' = Reported /\ Reported \subseteq Files
  BY <1>1, <1>2 DEF InHand, Reported
<1>6. ReportedOnce'
  BY <1>1 DEF RInv, ReportedOnce
<1> QED
  BY <1>1, <1>4, <1>5, <1>6 DEF RInv

LEMMA WriteRInv ==
    ASSUME IInv, RInv, WriteFile
    PROVE  RInv'
<1>1. /\ UNCHANGED <<source, before>> /\ pc = "writing" /\ pc' = "read"
      /\ updatedFiles' = Append(updatedFiles, Head(files))
      /\ source[Head(files)] = updateImportPaths(content)
  BY DEF WriteFile, history
<1>2. PICK file \in Files : file = Head(files)
  BY <1>1, Current DEF IInv
<1>3. /\ content \in Seq(Import) /\ Kept(before[file], content)
      /\ before[file] \in Seq(Import)
      /\ updatedFiles \in Seq(Files)
      /\ updateImportPaths(content) # content
  BY <1>1, <1>2, Current DEF IInv, RInv, Read, TypeInv
<1>4. PICK b \in Seq(Import), c \in Seq(Import), s \in Seq(Import) :
         b = before[file] /\ c = content /\ s = source[file]
  BY <1>2, <1>3 DEF IInv, TypeInv, Texts
<1>5. Kept(b, c) /\ Kept(c, s) /\ s # c /\ s = updateImportPaths(c)
  BY <1>1, <1>2, <1>3, <1>4, Update
<1>6. Kept(b, s)
  BY <1>5, KeptTwice
<1>7. s # b
  BY <1>5, KeptBack
<1>8. OldOnce(b) => Migrated(s)
  <2>1. FirstsKept(b, c)
    BY <1>5 DEF Kept, FirstsKept
  <2> QED
    BY <1>5, <2>1, OldOnceFirsts, Update
<1>9. InHand = {file} /\ InHand' = {}
  BY <1>1, <1>2 DEF InHand
<1>10. /\ Len(updatedFiles) \in Nat /\ Len(updatedFiles') = Len(updatedFiles) + 1
       /\ updatedFiles'[Len(updatedFiles) + 1] = file
       /\ \A i \in 1 .. Len(updatedFiles) : updatedFiles'[i] = updatedFiles[i]
  BY <1>1, <1>2, <1>3
<1>11. Reported' = Reported \cup {file}
  <2>1. file \in Reported'
    <3>1. Len(updatedFiles) + 1 \in 1 .. Len(updatedFiles')
      BY <1>10
    <3> QED
      BY <1>10, <3>1 DEF Reported
  <2>2. ASSUME NEW f \in Reported
        PROVE  f \in Reported'
    <3>1. PICK i \in 1 .. Len(updatedFiles) : updatedFiles[i] = f
      BY DEF Reported
    <3>2. i \in 1 .. Len(updatedFiles') /\ updatedFiles'[i] = f
      BY <1>10, <3>1
    <3> QED
      BY <3>2 DEF Reported
  <2>3. ASSUME NEW f \in Reported', f # file
        PROVE  f \in Reported
    <3>1. PICK i \in 1 .. Len(updatedFiles') : updatedFiles'[i] = f
      BY DEF Reported
    <3>2. i \in 1 .. Len(updatedFiles) /\ updatedFiles[i] = f
      BY <1>10, <2>3, <3>1
    <3> QED
      BY <3>2 DEF Reported
  <2> QED
    BY <2>1, <2>2, <2>3 DEF Reported
<1>12. ASSUME NEW f \in Files
       PROVE  /\ Kept(before'[f], source'[f])
              /\ f \in Reported' <=> source'[f] # before'[f]
  <2>1. CASE f = file
    BY <1>1, <1>4, <1>6, <1>7, <1>11, <2>1
  <2>2. CASE f # file
    BY <1>1, <1>9, <1>11, <2>2 DEF RInv
  <2> QED
    BY <2>1, <2>2
<1>13. ASSUME NEW f \in Reported', OldOnce(before'[f])
       PROVE  Migrated(source'[f])
  <2>1. CASE f = file
    BY <1>1, <1>4, <1>8, <1>13, <2>1
  <2>2. CASE f # file
    BY <1>1, <1>11, <1>13, <2>2 DEF RInv
  <2> QED
    BY <2>1, <2>2
<1>14. ReportedOnce'
  <2> DEFINE n == Len(updatedFiles)
  <2>1. \A i \in 1 .. n : updatedFiles[i] \in Reported
    BY <1>3 DEF Reported
  <2>2. OldOnce(before[file]) => \A i \in 1 .. n : updatedFiles[i] # file
    BY <1>1, <1>9, <2>1 DEF RInv
  <2>3. ASSUME NEW i \in 1 .. n + 1, NEW j \in 1 .. n + 1,
               updatedFiles'[i] = updatedFiles'[j], OldOnce(before[updatedFiles'[i]])
        PROVE  i = j
    <3>1. CASE i \in 1 .. n /\ j \in 1 .. n
      BY <1>1, <1>10, <2>3, <3>1 DEF RInv, ReportedOnce
    <3>2. CASE i = n + 1 /\ j \in 1 .. n
      BY <1>10, <2>2, <2>3, <3>2
    <3>3. CASE i \in 1 .. n /\ j = n + 1
      BY <1>10, <2>2, <2>3, <3>3
    <3> QED
      BY <1>10, <3>1, <3>2, <3>3
  <2> QED
    BY <1>1, <1>10, <2>3 DEF ReportedOnce
<1> QED
  BY <1>1, <1>9, <1>12, <1>13, <1>14 DEF RInv

LEMMA NextRInv ==
    ASSUME IInv, RInv, [Next]_vars
    PROVE  RInv'
<1>1. CASE UNCHANGED vars
  BY <1>1 DEF vars, history, RInv, InHand, Reported, ReportedOnce
<1>2. ASSUME UNCHANGED <<source, updatedFiles, before>>, pc # "writing", pc' # "writing",
             pc # "idle"
      PROVE  RInv'
  BY <1>2 DEF RInv, InHand, Reported, ReportedOnce
<1>3. CASE ListFile \/ ListDirectory \/ Listed
  BY <1>2, <1>3 DEF ListFile, ListDirectory, Listed, history
<1>4. CASE ReadFile \/ KeepFile \/ Finish
  BY <1>2, <1>4 DEF ReadFile, KeepFile, Finish, history
<1>5. CASE OpenFile \/ WriteChunk \/ WriteFile
  BY <1>5, OpenRInv, ChunkRInv, WriteRInv
<1>6. CASE Stop
  BY <1>6 DEF Stop, RInv
<1>7. ASSUME NEW paths \in Arguments, Start(paths)
      PROVE  RInv'
  BY <1>7, StartRInv
<1> QED
  BY <1>1, <1>3, <1>4, <1>5, <1>6, <1>7 DEF Next, Script

\* The files reported are those whose text has changed since the start, and a
\* file that named no old path twice is reported once, however often it is in
\* the list and whatever a stop left of it before.
THEOREM ReportIsExact ==
    Spec => []ReportIsRight
<1>1. Init => RInv
  BY DEF Init, RInv
<1>2. IInv /\ RInv /\ [Next]_vars => RInv'
  BY NextRInv
<1>3. IInv /\ RInv => ReportIsRight
  <2> SUFFICES ASSUME IInv, RInv, pc = "done"
               PROVE  /\ ToSet(updatedFiles) = {f \in Files : source[f] # before[f]}
                      /\ \A i, j \in DOMAIN updatedFiles :
                            /\ updatedFiles[i] = updatedFiles[j]
                            /\ OldOnce(before[updatedFiles[i]])
                            => i = j
    BY DEF ReportIsRight
  <2>1. updatedFiles \in Seq(Files) /\ DOMAIN updatedFiles = 1 .. Len(updatedFiles)
    BY DEF IInv, TypeInv
  <2>2. InHand = {} /\ ReportedOnce
    BY DEF InHand, RInv
  <2>3. ToSet(updatedFiles) = Reported
    BY <2>1 DEF ToSet, Reported
  <2>4. Reported = {f \in Files : source[f] # before[f]}
    <3>1. \A f \in Files : f \in Reported <=> source[f] # before[f]
      BY <2>2 DEF RInv
    <3> QED
      BY <3>1 DEF Reported
  <2> QED
    BY <2>1, <2>2, <2>3, <2>4 DEF ReportedOnce
<1> QED
  BY <1>1, <1>2, <1>3, Invariant, PTL DEF Spec

-------------------------------------------------------------------------------

\* The files below a path: those in every set that contains the path and, with
\* a directory, its entries.
Closed(S) == \A d \in S \cap Directories : Children[d] \subseteq S
Below(path) == {f \in Files : \A S \in SUBSET Path : path \in S /\ Closed(S) => f \in S}

LEMMA BelowDirectory ==
    ASSUME NEW d \in Directories, NEW f \in Below(d)
    PROVE  \E entry \in Children[d] : f \in Below(entry)
<1> SUFFICES ASSUME \A entry \in Children[d] : f \notin Below(entry)
             PROVE  FALSE
  OBVIOUS
<1>1. f \in Files /\ f # d /\ Children[d] \subseteq Path /\ d \in Path
  BY FilesAssumption DEF Below, Path
<1> DEFINE Without == {S \in SUBSET Path : Closed(S) /\ f \notin S}
           S0 == {d} \cup UNION Without
<1>2. \A entry \in Children[d] : \E S \in Without : entry \in S
  BY <1>1 DEF Below
<1>3. S0 \in SUBSET Path /\ d \in S0 /\ f \notin S0
  BY <1>1
<1>4. Closed(S0)
  <2> SUFFICES ASSUME NEW e \in S0 \cap Directories
               PROVE  Children[e] \subseteq S0
    BY DEF Closed
  <2>1. CASE e = d
    BY <1>2, <2>1
  <2>2. CASE e # d
    <3>1. PICK S \in Without : e \in S
      BY <2>2
    <3>2. Children[e] \subseteq S
      BY <3>1 DEF Closed
    <3> QED
      BY <3>1, <3>2
  <2> QED
    BY <2>1, <2>2
<1>5. \A S \in SUBSET Path : d \in S /\ Closed(S) => f \in S
  BY DEF Below
<1> HIDE DEF S0
<1> QED
  BY <1>3, <1>4, <1>5

LEMMA BelowFile ==
    ASSUME NEW file \in Files
    PROVE  Below(file) \subseteq {file}
<1>1. {file} \in SUBSET Path /\ Closed({file})
  BY FilesAssumption DEF Closed, Path
<1> QED
  BY <1>1 DEF Below

\* A file is migrated, or it is in the list, or below a path in the queue.
Awaited(f) ==
    \/ \E i \in 1 .. Len(files) : files[i] = f
    \/ pc = "list" /\ \E i \in 1 .. Len(queue) : f \in Below(queue[i])

MInv ==
    pc # "idle" =>
       \A f \in Files : OldOnce(original[f]) => Migrated(source[f]) \/ Awaited(f)

\* What the documentation of the script leaves unsaid: every file is below one
\* of the paths that the script is given.
AllFilesGiven ==
    \A paths \in Arguments : \A f \in Files :
       \E i \in 1 .. Len(paths) : f \in Below(paths[i])

\* The listing loses no file.
LEMMA ListMInv ==
    ASSUME IInv, MInv, ListFile \/ ListDirectory \/ Listed
    PROVE  MInv'
<1>1. /\ UNCHANGED <<source, original>> /\ pc = "list" /\ pc' \in {"list", "read"}
  BY DEF ListFile, ListDirectory, Listed, history
<1>2. queue \in Seq(Path) /\ files \in Seq(Files)
  BY DEF IInv, TypeInv
<1> SUFFICES ASSUME NEW f \in Files, Awaited(f)
             PROVE  Awaited(f)'
  BY <1>1 DEF MInv
<1>3. CASE ListFile
  <2>1. /\ queue # << >> /\ Head(queue) \in Files /\ queue' = Tail(queue)
        /\ files' = Append(files, Head(queue)) /\ pc' = "list"
    BY <1>1, <1>3 DEF ListFile
  <2>2. CASE \E i \in 1 .. Len(files) : files[i] = f
    BY <1>2, <2>1, <2>2 DEF Awaited
  <2>3. ASSUME NEW i \in 1 .. Len(queue), f \in Below(queue[i])
        PROVE  Awaited(f)'
    <3>1. CASE i = 1
      <4>1. f = Head(queue)
        BY <1>2, <2>1, <2>3, <3>1, BelowFile
      <4>2. Len(files) + 1 \in 1 .. Len(files') /\ files'[Len(files) + 1] = f
        BY <1>2, <2>1, <4>1
      <4> QED
        BY <4>2 DEF Awaited
    <3>2. CASE i # 1
      <4>1. i - 1 \in 1 .. Len(queue') /\ queue'[i - 1] = queue[i]
        BY <1>2, <2>1, <3>2
      <4> QED
        BY <2>1, <2>3, <4>1 DEF Awaited
    <3> QED
      BY <3>1, <3>2
  <2> QED
    BY <2>2, <2>3 DEF Awaited
<1>4. CASE ListDirectory
  <2>1. PICK names \in SetToSeqs(Children[Head(queue)]) :
           queue' = Tail(queue) \o names
    BY <1>4 DEF ListDirectory
  <2>2. /\ queue # << >> /\ Head(queue) \in Directories
        /\ files' = files /\ pc' = "list"
    BY <1>1, <1>4 DEF ListDirectory
  <2>3. /\ names \in Seq(Children[Head(queue)])
        /\ \A x \in Children[Head(queue)] : \E i \in 1 .. Len(names) : names[i] = x
    BY <2>2, FilesAssumption, Listings
  <2>4. CASE \E i \in 1 .. Len(files) : files[i] = f
    BY <2>2, <2>4 DEF Awaited
  <2>5. ASSUME NEW i \in 1 .. Len(queue), f \in Below(queue[i])
        PROVE  Awaited(f)'
    <3>1. Tail(queue) \in Seq(Path) /\ Len(Tail(queue)) = Len(queue) - 1
          /\ Len(queue) \in Nat
      BY <1>2, <2>2
    <3>2. /\ Len(queue') = Len(queue) - 1 + Len(names)
          /\ \A j \in 1 .. Len(queue) - 1 : queue'[j] = Tail(queue)[j]
          /\ \A j \in 1 .. Len(names) : queue'[Len(queue) - 1 + j] = names[j]
      BY <2>1, <2>3, <3>1
    <3>3. CASE i = 1
      <4>1. f \in Below(Head(queue))
        BY <1>2, <2>2, <2>5, <3>3
      <4>2. PICK entry \in Children[Head(queue)] : f \in Below(entry)
        BY <2>2, <4>1, BelowDirectory
      <4>3. PICK j \in 1 .. Len(names) : names[j] = entry
        BY <2>3
      <4>4. Len(queue) - 1 + j \in 1 .. Len(queue')
        BY <2>3, <3>1, <3>2
      <4>5. f \in Below(queue'[Len(queue) - 1 + j])
        BY <3>2, <4>2, <4>3
      <4> QED
        BY <2>2, <4>4, <4>5 DEF Awaited
    <3>4. CASE i # 1
      <4>1. i - 1 \in 1 .. Len(queue) - 1 /\ Tail(queue)[i - 1] = queue[i]
        BY <1>2, <2>2, <3>4
      <4>2. i - 1 \in 1 .. Len(queue') /\ queue'[i - 1] = queue[i]
        BY <2>3, <3>1, <3>2, <4>1
      <4> QED
        BY <2>2, <2>5, <4>2 DEF Awaited
    <3> QED
      BY <3>3, <3>4
  <2> QED
    BY <2>4, <2>5 DEF Awaited
<1>5. CASE Listed
  <2>1. queue = << >> /\ files' = files
    BY <1>5 DEF Listed
  <2>2. \E i \in 1 .. Len(files) : files[i] = f
    BY <2>1 DEF Awaited
  <2> QED
    BY <2>1, <2>2 DEF Awaited
<1> QED
  BY <1>3, <1>4, <1>5

\* The file that updateFile leaves has been migrated.
LEMMA LeaveMInv ==
    ASSUME IInv, MInv, KeepFile \/ WriteFile
    PROVE  MInv'
<1>1. /\ UNCHANGED <<source, original>> /\ pc \in {"write", "writing"} /\ pc' = "read"
      /\ files' = Tail(files)
  BY DEF KeepFile, WriteFile, history
<1>2. PICK file \in Files : file = Head(files) /\ file = files[1]
  BY <1>1, Current DEF IInv
<1>3. files \in Seq(Files) /\ files # << >>
  BY <1>1, Current DEF IInv, TypeInv
<1>4. /\ content \in Seq(Import) /\ FirstsKept(original[file], content)
      /\ source[file] = updateImportPaths(content)
  <2>1. CASE KeepFile
    <3>1. content = source[file] /\ source[file] = updateImportPaths(content)
      BY <1>2, <2>1 DEF KeepFile, IInv
    <3> QED
      BY <3>1 DEF IInv, FirstsKept
  <2>2. CASE WriteFile
    BY <1>2, <2>2 DEF WriteFile, IInv, Read
  <2> QED
    BY <2>1, <2>2
<1>5. OldOnce(original[file]) => Migrated(source[file])
  <2>1. original[file] \in Seq(Import)
    BY DEF IInv, TypeInv, Texts
  <2> QED
    BY <1>4, <2>1, OldOnceFirsts, Update
<1>6. ASSUME NEW f \in Files, OldOnce(original[f]), ~ Migrated(source[f])
      PROVE  Awaited(f)'
  <2>1. f # file
    BY <1>5, <1>6
  <2>2. PICK i \in 1 .. Len(files) : files[i] = f
    BY <1>1, <1>6 DEF MInv, Awaited
  <2>3. i # 1
    BY <1>2, <2>1, <2>2
  <2>4. /\ Len(files) \in Nat /\ Len(Tail(files)) = Len(files) - 1
        /\ \A k \in 1 .. Len(files) - 1 : Tail(files)[k] = files[k + 1]
    BY <1>3
  <2>5. i \in Nat /\ i - 1 \in 1 .. Len(files) - 1 /\ (i - 1) + 1 = i
    BY <2>2, <2>3, <2>4
  <2>6. i - 1 \in 1 .. Len(Tail(files)) /\ Tail(files)[i - 1] = f
    BY <2>2, <2>4, <2>5
  <2> QED
    BY <1>1, <2>6 DEF Awaited
<1> QED
  BY <1>1, <1>6 DEF MInv

\* The file that is emptied and written is still in the list.
LEMMA WritingMInv ==
    ASSUME IInv, MInv, OpenFile \/ WriteChunk
    PROVE  MInv'
<1>1. /\ UNCHANGED <<files, original>> /\ pc \in {"write", "writing"} /\ pc' = "writing"
      /\ \E text : source' = [source EXCEPT ![Head(files)] = text]
  BY DEF OpenFile, WriteChunk, history
<1>2. PICK file \in Files : file = Head(files) /\ file = files[1]
  BY <1>1, Current DEF IInv
<1>3. files \in Seq(Files) /\ files # << >> /\ source \in [Files -> Seq(Import)]
  BY <1>1, Current DEF IInv, TypeInv, Texts
<1>4. ASSUME NEW f \in Files, OldOnce(original[f])
      PROVE  Migrated(source'[f]) \/ Awaited(f)'
  <2>1. CASE f = file
    <3>1. 1 \in 1 .. Len(files)
      BY <1>3
    <3> QED
      BY <1>1, <1>2, <2>1, <3>1 DEF Awaited
  <2>2. CASE f # file
    <3>1. source'[f] = source[f]
      BY <1>1, <1>2, <1>3, <2>2
    <3>2. Awaited(f) => Awaited(f)'
      BY <1>1 DEF Awaited
    <3> QED
      BY <1>1, <1>4, <3>1, <3>2 DEF MInv
  <2> QED
    BY <2>1, <2>2
<1> QED
  BY <1>1, <1>4 DEF MInv

LEMMA NextMInv ==
    ASSUME AllFilesGiven, IInv, MInv, [Next]_vars
    PROVE  MInv'
<1>1. CASE UNCHANGED vars
  BY <1>1 DEF vars, history, MInv, Awaited
<1>2. CASE ListFile \/ ListDirectory \/ Listed
  BY <1>2, ListMInv
<1>3. CASE ReadFile
  BY <1>3 DEF ReadFile, history, MInv, Awaited
<1>4. CASE KeepFile \/ OpenFile \/ WriteChunk \/ WriteFile
  BY <1>4, LeaveMInv, WritingMInv
<1>5. CASE Finish
  BY <1>5 DEF Finish, history, MInv, Awaited
<1>6. CASE Stop
  BY <1>6 DEF Stop, MInv
<1>7. ASSUME NEW paths \in Arguments, Start(paths)
      PROVE  MInv'
  BY <1>7 DEF Start, MInv, Awaited, AllFilesGiven
<1> QED
  BY <1>1, <1>2, <1>3, <1>4, <1>5, <1>6, <1>7 DEF Next, Script

\* When a run of the script ends, no file that named no old path twice at first
\* imports an old path: whatever was stopped before, in the middle of a write
\* too, and in whatever order the directories are listed.
THEOREM AllImportsMigrated ==
    ASSUME AllFilesGiven
    PROVE  Spec => []ImportsMigrated
<1>1. Init => MInv
  BY DEF Init, MInv
<1>2. IInv /\ MInv /\ [Next]_vars => MInv'
  BY AllFilesGiven, NextMInv
<1>3. IInv /\ MInv => ImportsMigrated
  <2> SUFFICES ASSUME IInv, MInv, pc = "done", NEW f \in Files, OldOnce(original[f])
               PROVE  Migrated(source[f])
    BY DEF ImportsMigrated
  <2>1. files = << >>
    BY DEF IInv, TypeInv
  <2>2. ~ Awaited(f)
    BY <2>1 DEF Awaited
  <2> QED
    BY <2>2 DEF MInv
<1> QED
  BY <1>1, <1>2, <1>3, Invariant, PTL DEF Spec
===============================================================================
