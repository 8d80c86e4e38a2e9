---------------------------- MODULE WorldProofs ----------------------------
(***************************************************************************)
(* First Section::with_block, for a section of any size, any palette and   *)
(* any limit on its indices. Then what World.tla promises, for a world of  *)
(* any size, any blocks and any positions: a type-correct state reads back *)
(* what was placed, refuses only when a palette is full, and is drawn by   *)
(* the client as it is, out of words of any width that holds an index.     *)
(***************************************************************************)
EXTENDS World, FiniteSetTheorems, TLAPS

-----------------------------------------------------------------------------
(* Section.                                                                 *)

\* A block that is in a palette has an index, and it is the block's.
LEMMA IndexFinds ==
  ASSUME NEW palette \in Seq(Blocks), NEW block \in Range(palette)
  PROVE  /\ IndexIn(palette, block) \in 0 .. Len(palette) - 1
         /\ palette[IndexIn(palette, block) + 1] = block
<1>1. PICK i \in DOMAIN palette : palette[i] = block
  BY DEF Range
<1>2. /\ IndexIn(palette, block) + 1 \in DOMAIN palette
      /\ palette[IndexIn(palette, block) + 1] = block
  <2> DEFINE j == CHOOSE k \in DOMAIN palette : palette[k] = block
  <2>1. j \in DOMAIN palette /\ palette[j] = block
    BY <1>1
  <2>2. j \in Int /\ IndexIn(palette, block) = j - 1
    BY <2>1 DEF IndexIn
  <2> HIDE DEF j
  <2>3. IndexIn(palette, block) + 1 = j
    BY <2>2
  <2> QED
    BY <2>1, <2>3
<1>3. IndexIn(palette, block) \in Int
  <2> DEFINE j == CHOOSE k \in DOMAIN palette : palette[k] = block
  <2>1. j \in DOMAIN palette
    BY <1>1
  <2> QED
    BY <2>1 DEF IndexIn
<1> QED
  BY <1>2, <1>3

\* Naming a block leaves the entries there were, and names it once.
LEMMA NamingKeeps ==
  ASSUME NEW palette \in Seq(Blocks), IsInjective(palette), NEW block \in Blocks
  PROVE  /\ Naming(palette, block) \in Seq(Blocks)
         /\ IsInjective(Naming(palette, block))
         /\ block \in Range(Naming(palette, block))
         /\ Len(palette) <= Len(Naming(palette, block))
         /\ \A i \in DOMAIN palette : Naming(palette, block)[i] = palette[i]
<1>1. CASE block \in Range(palette)
  BY <1>1 DEF Naming
<1>2. CASE block \notin Range(palette)
  <2> DEFINE named == Append(palette, block)
  <2>1. Naming(palette, block) = named
    BY <1>2 DEF Naming
  <2>2. /\ named \in Seq(Blocks)
        /\ Len(named) = Len(palette) + 1
        /\ named[Len(palette) + 1] = block
        /\ \A i \in DOMAIN palette : named[i] = palette[i]
    OBVIOUS
  <2>3. \A i \in DOMAIN palette : palette[i] # block
    BY <1>2 DEF Range
  <2>4. IsInjective(named)
    BY <2>2, <2>3 DEF IsInjective
  <2>5. block \in Range(named)
    BY <2>2 DEF Range
  <2> QED
    BY <2>1, <2>2, <2>4, <2>5
<1> QED
  BY <1>1, <1>2

\* A cell of a well-formed section has an index, which names a block.
LEMMA CellsHaveBlocks ==
  ASSUME NEW s, WellFormed(s), NEW cell \in Cells
  PROVE  /\ IndexAt(s, cell) = <<IndexAt(s, cell)[1]>>
         /\ IndexAt(s, cell)[1] \in 0 .. Len(s.palette) - 1
         /\ Get(s, cell) = <<s.palette[IndexAt(s, cell)[1] + 1]>>
<1>1. CASE s.indices = <<>> /\ Len(s.palette) = 1
  <2>1. IndexAt(s, cell) = <<0>>
    BY <1>1 DEF IndexAt
  <2> QED
    BY <1>1, <2>1 DEF Get
<1>2. CASE \E indices \in IndexArrays(s) : s.indices = <<indices>>
  <2>1. PICK indices \in IndexArrays(s) : s.indices = <<indices>>
    BY <1>2
  <2>2. IndexAt(s, cell) = <<indices[cell]>>
    BY <2>1 DEF IndexAt
  <2>3. indices[cell] \in 0 .. Len(s.palette) - 1
    BY <2>1 DEF IndexArrays
  <2> QED
    BY <2>2, <2>3 DEF Get
<1> QED
  BY <1>1, <1>2 DEF WellFormed

\* with_block answers a section or none.
LEMMA WithBlockAnswers ==
  ASSUME NEW s, NEW cell, NEW block
  PROVE  WithBlock(s, cell, block) = <<>> \/ \E t : WithBlock(s, cell, block) = <<t>>
BY DEF WithBlock

(* with_block, when it answers a section: the section is well formed, has  *)
(* the block at the cell, and every other cell as it was. The palette may  *)
(* have grown and the index array may be new; no index has moved.          *)
THEOREM WithBlockPlaces ==
  ASSUME NEW s, WellFormed(s), NEW cell \in Cells, NEW block \in Blocks,
         NEW t, WithBlock(s, cell, block) = <<t>>
  PROVE  /\ WellFormed(t)
         /\ Get(t, cell) = <<block>>
         /\ \A c \in Cells \ {cell} : Get(t, c) = Get(s, c)
         /\ Len(t.palette) >= Len(s.palette)
<1>1. CASE Get(s, cell) = <<block>>
  <2>1. t = s
    BY <1>1 DEF WithBlock
  <2> QED
    BY <1>1, <2>1 DEF WellFormed
<1>2. CASE Get(s, cell) # <<block>>
  <2> DEFINE palette == Naming(s.palette, block)
             index   == IndexIn(palette, block)
             before  == [c \in Cells |-> IndexAt(s, c)[1]]
             after   == [before EXCEPT ![cell] = index]
  <2>1. FitsIndex(index) /\ t = [palette |-> palette, indices |-> <<after>>]
    BY <1>2 DEF WithBlock
  <2>2. /\ s.palette \in Seq(Blocks) /\ IsInjective(s.palette)
        /\ Len(s.palette) \in 1 .. MaxIndex + 1
    BY DEF WellFormed
  <2>3. /\ palette \in Seq(Blocks) /\ IsInjective(palette) /\ block \in Range(palette)
        /\ Len(s.palette) <= Len(palette)
        /\ \A i \in DOMAIN s.palette : palette[i] = s.palette[i]
    BY <2>2, NamingKeeps
  <2>4. index \in 0 .. Len(palette) - 1 /\ palette[index + 1] = block
    BY <2>3, IndexFinds
  <2>5. Len(palette) <= MaxIndex + 1
    <3>1. CASE block \in Range(s.palette)
      BY <2>2, <3>1 DEF Naming
    <3>2. CASE block \notin Range(s.palette)
      <4>1. palette = Append(s.palette, block) /\ Len(palette) = Len(s.palette) + 1
        BY <2>2, <3>2 DEF Naming
      <4>2. index + 1 \notin DOMAIN s.palette
        BY <2>2, <2>3, <2>4, <3>2 DEF Range
      <4>3. index = Len(s.palette)
        BY <2>2, <2>4, <4>1, <4>2
      <4> QED
        BY <2>1, <2>2, <4>1, <4>3, SizesAssumption DEF FitsIndex
    <3> QED
      BY <3>1, <3>2
  <2> HIDE DEF palette, index
  <2>6. before \in [Cells -> 0 .. Len(s.palette) - 1]
    BY CellsHaveBlocks
  <2>7. after \in [Cells -> 0 .. Len(palette) - 1]
    BY <2>2, <2>3, <2>4, <2>6
  <2>8. WellFormed(t)
    <3> HIDE DEF after
    <3>1. t.palette = palette /\ t.indices = <<after>>
      BY <2>1
    <3>2. Len(palette) \in 1 .. MaxIndex + 1
      BY <2>2, <2>3, <2>5, SizesAssumption
    <3>3. \E indices \in IndexArrays(t) : t.indices = <<indices>>
      BY <2>7, <3>1 DEF IndexArrays
    <3> QED
      BY <2>3, <3>1, <3>2, <3>3 DEF WellFormed
  <2>9. \A c \in Cells : Get(t, c) = <<palette[after[c] + 1]>>
    BY <2>1 DEF Get, IndexAt
  <2>10. Get(t, cell) = <<block>>
    BY <2>4, <2>6, <2>9
  <2>11. ASSUME NEW c \in Cells \ {cell} PROVE Get(t, c) = Get(s, c)
    <3>1. after[c] = IndexAt(s, c)[1]
      OBVIOUS
    <3>2. /\ IndexAt(s, c)[1] + 1 \in DOMAIN s.palette
          /\ Get(s, c) = <<s.palette[IndexAt(s, c)[1] + 1]>>
      BY <2>2, CellsHaveBlocks
    <3> QED
      BY <2>3, <2>9, <3>1, <3>2
  <2>12. Len(t.palette) >= Len(s.palette)
    BY <2>1, <2>2, <2>3
  <2> QED
    BY <2>8, <2>10, <2>11, <2>12
<1> QED
  BY <1>1, <1>2

(* with_block, when it answers none inside the section: the palette has    *)
(* named as many blocks as an index can tell apart, and this is another.   *)
THEOREM WithBlockRefuses ==
  ASSUME NEW s, WellFormed(s), NEW cell \in Cells, NEW block \in Blocks,
         WithBlock(s, cell, block) = <<>>
  PROVE  Len(s.palette) = MaxIndex + 1 /\ block \notin Range(s.palette)
<1> DEFINE palette == Naming(s.palette, block)
           index   == IndexIn(palette, block)
<1>1. /\ s.palette \in Seq(Blocks) /\ IsInjective(s.palette)
      /\ Len(s.palette) \in 1 .. MaxIndex + 1
  BY DEF WellFormed
<1>2. ~ FitsIndex(index)
  BY DEF WithBlock
<1>3. palette \in Seq(Blocks) /\ block \in Range(palette)
  BY <1>1, NamingKeeps
<1>4. index \in 0 .. Len(palette) - 1
  BY <1>3, IndexFinds
<1>5. Len(palette) > MaxIndex + 1
  BY <1>2, <1>3, <1>4, SizesAssumption DEF FitsIndex
<1>6. block \notin Range(s.palette)
  BY <1>1, <1>5, SizesAssumption DEF Naming
<1>7. Len(palette) = Len(s.palette) + 1
  BY <1>1, <1>6 DEF Naming
<1> QED
  BY <1>1, <1>5, <1>6, <1>7, SizesAssumption

-----------------------------------------------------------------------------
(* Division, powers of two and digits.                                      *)

LEMMA Quotient ==
  ASSUME NEW e \in Nat \ {0}, NEW q \in Int, NEW r \in 0 .. e - 1
  PROVE  (e * q + r) \div e = q /\ (e * q + r) % e = r
<1>1. PICK x \in Int : x = e * q + r
  OBVIOUS
<1>2. x \div e = q
  BY <1>1
<1>3. x % e = r
  BY <1>1
<1> QED
  BY <1>1, <1>2, <1>3

LEMMA Division ==
  ASSUME NEW e \in Nat \ {0}, NEW x \in Int
  PROVE  \E q \in Int : \E r \in 0 .. e - 1 : x = e * q + r /\ x \div e = q /\ x % e = r
<1>1. x \div e \in Int
  OBVIOUS
<1>2. PICK q \in Int : q = x \div e
  BY <1>1
<1>3. e * q <= x
  BY <1>2
<1>4. x < e * q + e
  BY <1>2
<1>5. PICK m \in Int : m = e * q
  OBVIOUS
<1>6. x - m \in 0 .. e - 1 /\ x = m + (x - m)
  BY <1>3, <1>4, <1>5
<1>7. PICK r \in 0 .. e - 1 : x = m + r
  BY <1>6
<1>8. x = e * q + r
  BY <1>5, <1>7
<1>9. x % e = r
  BY <1>8, Quotient
<1> QED
  BY <1>2, <1>8, <1>9

\* By how many subsets there are.
LEMMA PowerCounts ==
  ASSUME NEW m \in Nat
  PROVE  IsFiniteSet(SUBSET (1 .. m)) /\ Cardinality(SUBSET (1 .. m)) = 2 ^ m /\ 2 ^ m \in Nat
<1>1. IsFiniteSet(1 .. m) /\ Cardinality(1 .. m) = m
  <2>1. IsFiniteSet(1 .. m) /\ Cardinality(1 .. m) = IF 1 > m THEN 0 ELSE m - 1 + 1
    BY FS_Interval
  <2> QED
    BY <2>1
<1>2. IsFiniteSet(SUBSET (1 .. m)) /\ Cardinality(SUBSET (1 .. m)) = 2 ^ m
  BY <1>1, FS_SUBSET
<1> QED
  BY <1>2, FS_CardinalityType

LEMMA PowerZero == 2 ^ 0 = 1
<1>1. SUBSET (1 .. 0) = {{}}
  OBVIOUS
<1>2. Cardinality({{}}) = 1
  BY FS_Singleton
<1> QED
  BY <1>1, <1>2, PowerCounts

LEMMA PowerNext ==
  ASSUME NEW m \in Nat
  PROVE  2 ^ (m + 1) = 2 * 2 ^ m
<1> DEFINE A == SUBSET (1 .. m)
           With(s) == s \cup {m + 1}
           f == [s \in A |-> With(s)]
           B == {With(s) : s \in A}
<1>1. IsFiniteSet(A) /\ Cardinality(A) = 2 ^ m /\ 2 ^ m \in Nat
  BY PowerCounts
<1>2. ExistsBijection(A, B)
  <2>1. f \in [A -> B]
    OBVIOUS
  <2>2. \A s, t \in A : With(s) = With(t) => s = t
    <3> SUFFICES ASSUME NEW s \in A, NEW t \in A, With(s) = With(t) PROVE s = t
      OBVIOUS
    <3>1. m + 1 \notin s /\ m + 1 \notin t
      OBVIOUS
    <3> QED
      BY <3>1
  <2>3. \A b \in B : \E s \in A : f[s] = b
    OBVIOUS
  <2>4. \A s, t \in A : f[s] = f[t] => s = t
    BY <2>2
  <2> HIDE DEF A, B, f
  <2>5. f \in Injection(A, B)
    BY <2>1, <2>4 DEF Injection, IsInjective
  <2>6. f \in Surjection(A, B)
    BY <2>1, <2>3 DEF Surjection
  <2> QED
    BY <2>5, <2>6 DEF ExistsBijection, Bijection
<1>3. IsFiniteSet(B) /\ Cardinality(B) = 2 ^ m
  <2> HIDE DEF A, B
  <2> QED
    BY <1>1, <1>2, FS_Bijection
<1>4. A \cap B = {}
  <2>1. \A s \in A : m + 1 \notin s
    OBVIOUS
  <2>2. \A s \in B : m + 1 \in s
    OBVIOUS
  <2> HIDE DEF A, B
  <2> QED
    BY <2>1, <2>2
<1>5. SUBSET (1 .. (m + 1)) = A \cup B
  <2>1. ASSUME NEW s \in SUBSET (1 .. (m + 1)) PROVE s \in A \cup B
    <3>1. CASE m + 1 \notin s
      BY <3>1
    <3>2. CASE m + 1 \in s
      <4>1. s \ {m + 1} \in A
        OBVIOUS
      <4>2. s = With(s \ {m + 1})
        BY <3>2
      <4> QED
        BY <4>1, <4>2
    <3> QED
      BY <3>1, <3>2
  <2>2. ASSUME NEW s \in A \cup B PROVE s \in SUBSET (1 .. (m + 1))
    OBVIOUS
  <2> QED
    BY <2>1, <2>2
<1>6. Cardinality(A \cup B) = 2 ^ m + 2 ^ m
  <2>1. Cardinality(A \cap B) = 0
    BY <1>4, FS_EmptySet
  <2> HIDE DEF A, B
  <2>2. Cardinality(A \cup B) = Cardinality(A) + Cardinality(B) - Cardinality(A \cap B)
    BY <1>1, <1>3, FS_Union
  <2> QED
    BY <1>1, <1>3, <2>1, <2>2
<1>7. Cardinality(SUBSET (1 .. (m + 1))) = 2 ^ (m + 1)
  <2>1. m + 1 \in Nat
    OBVIOUS
  <2> QED
    BY <2>1, PowerCounts
<1>8. 2 ^ (m + 1) = 2 ^ m + 2 ^ m
  BY <1>5, <1>6, <1>7
<1>9. PICK x \in Nat : x = 2 ^ m
  BY <1>1
<1>10. 2 ^ (m + 1) = x + x
  BY <1>8, <1>9
<1>11. x + x = 2 * x
  OBVIOUS
<1> QED
  BY <1>9, <1>10, <1>11

LEMMA PowerPositive ==
  ASSUME NEW m \in Nat
  PROVE  2 ^ m \in Nat \ {0}
<1>1. IsFiniteSet(SUBSET (1 .. m)) /\ Cardinality(SUBSET (1 .. m)) = 2 ^ m /\ 2 ^ m \in Nat
  BY PowerCounts
<1>2. {} \in SUBSET (1 .. m)
  OBVIOUS
<1>3. 2 ^ m # 0
  BY <1>1, <1>2, FS_EmptySet
<1> QED
  BY <1>1, <1>3

\* The digit of x above the first q numbers, of m that it may be.
Digit(x, q, m) == (x \div q) % m

\* Adding a multiple of what lies above a digit leaves the digit.
LEMMA LowDigitsStay ==
  ASSUME NEW q \in Nat \ {0}, NEW m \in Nat \ {0}, NEW high \in Nat, NEW x \in Nat,
         NEW rest \in Nat, NEW step \in Nat, step = q * (m * rest)
  PROVE  Digit(x + high * step, q, m) = Digit(x, q, m)
<1>1. PICK a \in Int, r \in 0 .. q - 1 : x = q * a + r /\ x \div q = a
  BY Division
<1>2. PICK b \in Int, d \in 0 .. m - 1 : a = m * b + d /\ a % m = d
  BY Division
<1>3. PICK w \in Nat : w = high * rest
  OBVIOUS
<1>4. high * step = q * (m * w)
  BY <1>3
<1>5. PICK c \in Int : c = m * w
  OBVIOUS
<1>6. q * a + q * c = q * (a + c)
  OBVIOUS
<1>7. x + high * step = q * (a + c) + r
  <2>1. PICK u \in Int : u = q * c
    OBVIOUS
  <2>2. PICK v \in Int : v = q * a
    OBVIOUS
  <2> QED
    BY <1>1, <1>4, <1>5, <1>6, <2>1, <2>2
<1>8. (x + high * step) \div q = a + c
  <2>1. PICK e \in Int : e = a + c
    OBVIOUS
  <2>2. (q * e + r) \div q = e
    BY Quotient
  <2> QED
    BY <1>7, <2>1, <2>2
<1>9. a + c = m * (b + w) + d
  <2>1. m * (b + w) = m * b + m * w
    OBVIOUS
  <2>2. PICK v \in Int : v = m * b
    OBVIOUS
  <2> QED
    BY <1>2, <1>5, <2>1, <2>2
<1>10. (a + c) % m = d
  <2>1. PICK e \in Int : e = b + w
    OBVIOUS
  <2>2. (m * e + d) % m = d
    BY Quotient
  <2> QED
    BY <1>9, <2>1, <2>2
<1> QED
  BY <1>1, <1>2, <1>8, <1>10 DEF Digit

\* The digit added above all there is can be read, and the number has grown by
\* one digit.
LEMMA TopDigitReads ==
  ASSUME NEW q \in Nat \ {0}, NEW m \in Nat \ {0}, NEW v \in 0 .. m - 1, NEW x \in 0 .. q - 1
  PROVE  /\ Digit(x + v * q, q, m) = v
         /\ x + v * q \in Nat /\ x + v * q < m * q
<1>1. x + v * q = q * v + x
  OBVIOUS
<1>2. (x + v * q) \div q = v
  BY <1>1, Quotient
<1>3. v = m * 0 + v
  OBVIOUS
<1>4. v % m = v
  <2>1. (m * 0 + v) % m = v
    BY Quotient
  <2> QED
    BY <1>3, <2>1
<1>5. v * q \in Nat
  OBVIOUS
<1>6. (v + 1) * q <= m * q
  <2>1. m - (v + 1) \in Nat
    OBVIOUS
  <2>2. (m - (v + 1)) * q \in Nat
    BY <2>1
  <2>3. (m - (v + 1)) * q = m * q - (v + 1) * q
    OBVIOUS
  <2>4. m * q \in Int /\ (v + 1) * q \in Int
    OBVIOUS
  <2> QED
    BY <2>2, <2>3, <2>4
<1>7. (v + 1) * q = v * q + q
  OBVIOUS
<1>8. x + v * q < m * q
  <2>1. PICK u \in Nat : u = v * q
    BY <1>5
  <2>2. PICK w \in Int : w = m * q
    OBVIOUS
  <2> QED
    BY <1>6, <1>7, <2>1, <2>2
<1> QED
  BY <1>2, <1>4, <1>5, <1>8 DEF Digit

-----------------------------------------------------------------------------
(* Packing: the loop of PackedWord.                                         *)

\* What the loop of PackedWord has after k slots: a digit for each of them.
Packed(fixed, packed, k) ==
  /\ packed \in Nat /\ packed < 2 ^ (k * fixed.bits)
  /\ \A slot \in 0 .. k - 1 :
       LET position == fixed.word * fixed.perWord + slot
       IN position < Edge * Edge =>
            Digit(packed, 2 ^ (slot * fixed.bits), 2 ^ fixed.bits) = fixed.indices[position]

Packing == INSTANCE Folding WITH Op <- Or, Holds <- Packed

LEMMA PowerSum ==
  ASSUME NEW m \in Nat, NEW n \in Nat
  PROVE  2 ^ (m + n) = 2 ^ m * 2 ^ n
<1> DEFINE T == {j \in 0 .. n : 2 ^ (m + j) = 2 ^ m * 2 ^ j}
<1>1. 0 \in T
  <2>1. 2 ^ m \in Nat
    BY PowerPositive
  <2>2. 2 ^ m * 1 = 2 ^ m
    BY <2>1
  <2>3. m + 0 = m
    OBVIOUS
  <2> QED
    BY <2>2, <2>3, PowerZero
<1>2. ASSUME NEW j \in 0 .. (n - 1), j \in T PROVE j + 1 \in T
  <2>1. j \in Nat /\ m + j \in Nat /\ m + (j + 1) = (m + j) + 1 /\ j + 1 \in 0 .. n
    OBVIOUS
  <2>2. PICK a \in Nat, b \in Nat, c \in Nat : a = 2 ^ m /\ b = 2 ^ j /\ c = 2 ^ (m + j)
    BY <2>1, PowerPositive
  <2>3. c = a * b
    BY <1>2, <2>2
  <2>4. 2 ^ (m + (j + 1)) = 2 * c /\ 2 ^ (j + 1) = 2 * b
    BY <2>1, <2>2, PowerNext
  <2>5. 2 * (a * b) = a * (2 * b)
    OBVIOUS
  <2>6. 2 ^ (m + (j + 1)) = 2 ^ m * 2 ^ (j + 1)
    BY <2>2, <2>3, <2>4, <2>5
  <2> QED
    BY <2>1, <2>6
<1>3. \A j \in 0 .. n : j \in T
  <2> HIDE DEF T
  <2> QED
    BY <1>1, <1>2, Packing!UpTo
<1> QED
  BY <1>3

\* What goes into slot k leaves a slot below it as it was.
SlotStays(packed, v, bits, k, slot) ==
  Digit(packed + v * 2 ^ (k * bits), 2 ^ (slot * bits), 2 ^ bits)
    = Digit(packed, 2 ^ (slot * bits), 2 ^ bits)

LEMMA LowerSlotStays ==
  ASSUME NEW bits \in Nat, NEW k \in Nat, NEW slot \in 0 .. k - 1, NEW v \in Nat,
         NEW packed \in Nat
  PROVE  SlotStays(packed, v, bits, k, slot)
<1>1. PICK a \in Nat, b \in Nat : a = slot * bits /\ b = (k - slot - 1) * bits
  <2>1. slot \in Nat /\ k - slot - 1 \in Nat
    OBVIOUS
  <2> QED
    BY <2>1
<1>2. bits + b \in Nat /\ k * bits = a + (bits + b)
  BY <1>1
<1>3. 2 ^ (bits + b) = 2 ^ bits * 2 ^ b
  BY <1>1, PowerSum
<1>4. 2 ^ (a + (bits + b)) = 2 ^ a * 2 ^ (bits + b)
  BY <1>1, <1>2, PowerSum
<1>5. PICK low \in Nat \ {0}, m \in Nat \ {0}, rest \in Nat \ {0} :
        low = 2 ^ a /\ m = 2 ^ bits /\ rest = 2 ^ b
  BY <1>1, PowerPositive
<1>6. PICK step \in Nat : step = 2 ^ (k * bits)
  <2>1. k * bits \in Nat
    OBVIOUS
  <2> QED
    BY <2>1, PowerPositive
<1>7. step = low * (m * rest)
  BY <1>2, <1>3, <1>4, <1>5, <1>6
<1>8. Digit(packed + v * step, low, m) = Digit(packed, low, m)
  BY <1>7, LowDigitsStay
<1> QED
  BY <1>1, <1>5, <1>6, <1>8 DEF SlotStays

LEMMA PackedWordIs ==
  \A indices, bits, perWord, word :
    PackedWord(indices, bits, perWord, word) =
      Packing!Loop(0, [k \in 1 .. perWord |-> InSlot(indices, bits, word * perWord + k - 1, k - 1)])
BY DEF PackedWord, Or, Packing!Loop, Packing!MapThenFoldSet, Packing!Greatest, FoldLeft, MapThenFoldSet, Max

\* A word while every index fits its bits: each slot reads back, and the word is
\* no wider than its slots.
LEMMA WordReads ==
  ASSUME NEW bits \in Nat, NEW perWord \in Nat, NEW word \in Nat,
         NEW indices, \A position \in 0 .. Edge * Edge - 1 : indices[position] \in 0 .. 2 ^ bits - 1
  PROVE  LET packed == PackedWord(indices, bits, perWord, word)
         IN /\ packed \in Nat /\ packed < 2 ^ (perWord * bits)
            /\ \A slot \in 0 .. perWord - 1 :
                 word * perWord + slot < Edge * Edge =>
                   Digit(packed, 2 ^ (slot * bits), 2 ^ bits) = indices[word * perWord + slot]
<1> DEFINE fixed == [indices |-> indices, bits |-> bits, word |-> word, perWord |-> perWord]
           part(k) == InSlot(indices, bits, word * perWord + k - 1, k - 1)
           parts == [k \in 1 .. perWord |-> part(k)]
<1>1. \A k \in 0 .. perWord : k * bits \in Nat
  OBVIOUS
<1>2. \A k \in 1 .. perWord : word * perWord + k - 1 \in Nat /\ word * perWord + k - 1 = word * perWord + (k - 1)
  <2>1. word * perWord \in Nat
    OBVIOUS
  <2> QED
    BY <2>1
<1>3. ASSUME NEW k \in 1 .. perWord
      PROVE  \E v \in 0 .. 2 ^ bits - 1 :
               /\ part(k) = v * 2 ^ ((k - 1) * bits)
               /\ word * perWord + (k - 1) < Edge * Edge => v = indices[word * perWord + (k - 1)]
  <2>1. PICK p \in Nat : p = word * perWord + k - 1 /\ p = word * perWord + (k - 1)
    BY <1>2
  <2>2. k - 1 \in 0 .. perWord
    OBVIOUS
  <2>3. 2 ^ ((k - 1) * bits) \in Nat /\ 2 ^ bits \in Nat \ {0}
    BY <1>1, <2>2, PowerPositive
  <2>4. Edge * Edge \in Nat
    BY SizesAssumption
  <2>5. part(k) = IF p < Edge * Edge THEN indices[p] * 2 ^ ((k - 1) * bits) ELSE 0
    BY <2>1 DEF InSlot
  <2>6. CASE p < Edge * Edge
    <3>1. p \in 0 .. Edge * Edge - 1
      BY <2>1, <2>4, <2>6
    <3>2. indices[p] \in 0 .. 2 ^ bits - 1
      BY <3>1
    <3> QED
      BY <2>1, <2>5, <2>6, <3>2
  <2>7. CASE ~ (p < Edge * Edge)
    <3>1. part(k) = 0 * 2 ^ ((k - 1) * bits)
      BY <2>3, <2>5, <2>7
    <3>2. 0 \in 0 .. 2 ^ bits - 1
      BY <2>3
    <3> QED
      BY <2>1, <2>7, <3>1, <3>2
  <2> QED
    BY <2>6, <2>7
<1>4. parts \in Seq(Nat) /\ Len(parts) = perWord /\ \A k \in 1 .. perWord : parts[k] = part(k)
  <2>1. \A k \in 1 .. perWord : part(k) \in Nat
    <3> SUFFICES ASSUME NEW k \in 1 .. perWord PROVE part(k) \in Nat
      OBVIOUS
    <3>1. PICK v \in 0 .. 2 ^ bits - 1 : part(k) = v * 2 ^ ((k - 1) * bits)
      BY <1>3
    <3>2. k - 1 \in 0 .. perWord
      OBVIOUS
    <3>3. 2 ^ ((k - 1) * bits) \in Nat /\ 2 ^ bits \in Nat
      BY <1>1, <3>2, PowerPositive
    <3>4. PICK n \in Nat : n = 2 ^ ((k - 1) * bits)
      BY <3>3
    <3>5. v \in Nat
      BY <3>3
    <3> HIDE DEF part
    <3> QED
      BY <3>1, <3>4, <3>5
  <2> HIDE DEF part
  <2> QED
    BY <2>1
<1> HIDE DEF part, parts
<1>5. Packed(fixed, 0, 0)
  <2>1. 0 * bits = 0 /\ fixed.bits = bits
    OBVIOUS
  <2>2. 0 .. 0 - 1 = {}
    OBVIOUS
  <2>3. 0 * fixed.bits = 0
    BY <2>1
  <2> HIDE DEF fixed
  <2>4. 2 ^ (0 * fixed.bits) = 1
    BY <2>3, PowerZero, Zenon
  <2> QED
    BY <2>2, <2>4 DEF Packed
<1>6. ASSUME NEW k \in 0 .. (perWord - 1), NEW packed, Packed(fixed, packed, k)
      PROVE  Packed(fixed, Or(packed, parts[k + 1]), k + 1)
  <2>1. k + 1 \in 1 .. perWord /\ (k + 1) - 1 = k /\ k \in Nat
    OBVIOUS
  <2>2. PICK v \in 0 .. 2 ^ bits - 1 :
          /\ parts[k + 1] = v * 2 ^ (k * bits)
          /\ word * perWord + k < Edge * Edge => v = indices[word * perWord + k]
    <3> DEFINE i == k + 1
    <3>1. \E v \in 0 .. 2 ^ bits - 1 :
            /\ parts[i] = v * 2 ^ ((i - 1) * bits)
            /\ word * perWord + (i - 1) < Edge * Edge => v = indices[word * perWord + (i - 1)]
      <4> HIDE DEF i
      <4>1. i \in 1 .. perWord
        BY <2>1 DEF i
      <4> QED
        BY <4>1, <1>3, <1>4
    <3> QED
      BY <2>1, <3>1
  <2>3. PICK q \in Nat \ {0}, m \in Nat \ {0} : q = 2 ^ (k * bits) /\ m = 2 ^ bits
    BY <2>1, PowerPositive
  <2>4. packed \in 0 .. q - 1
    BY <1>6, <2>3 DEF Packed
  <2>5. Or(packed, parts[k + 1]) = packed + v * q /\ v \in 0 .. m - 1
    BY <2>2, <2>3 DEF Or
  <2>6. /\ Digit(packed + v * q, q, m) = v
        /\ packed + v * q \in Nat /\ packed + v * q < m * q
    BY <2>3, <2>4, <2>5, TopDigitReads
  <2>7. 2 ^ ((k + 1) * bits) = m * q
    <3>1. (k + 1) * bits = bits + k * bits /\ k * bits \in Nat
      OBVIOUS
    <3> QED
      BY <2>3, <3>1, PowerSum
  <2>8. ASSUME NEW slot \in 0 .. k, word * perWord + slot < Edge * Edge
        PROVE  Digit(packed + v * q, 2 ^ (slot * bits), m) = indices[word * perWord + slot]
    <3>1. CASE slot = k
      BY <2>2, <2>3, <2>6, <2>8, <3>1
    <3>2. CASE slot # k
      <4>1. slot \in 0 .. k - 1 /\ packed \in Nat /\ v \in Nat
        BY <2>4, <2>5, <3>2
      <4>2. Digit(packed + v * q, 2 ^ (slot * bits), m) = Digit(packed, 2 ^ (slot * bits), m)
        <5>1. SlotStays(packed, v, bits, k, slot)
          BY <2>1, <4>1, LowerSlotStays
        <5> QED
          BY <2>3, <5>1 DEF SlotStays
      <4>3. Digit(packed, 2 ^ (slot * bits), m) = indices[word * perWord + slot]
        BY <1>6, <2>3, <2>8, <4>1 DEF Packed
      <4> QED
        BY <4>2, <4>3
    <3> QED
      BY <3>1, <3>2
  <2>9. (k + 1) - 1 = k
    OBVIOUS
  <2> QED
    BY <2>3, <2>5, <2>6, <2>7, <2>8, <2>9 DEF Packed
<1>7. Packed(fixed, Packing!Loop(0, parts), perWord)
  <2> HIDE DEF fixed
  <2>1. \A k \in 0 .. (Len(parts) - 1) : \A packed :
          Packed(fixed, packed, k) => Packed(fixed, Or(packed, parts[k + 1]), k + 1)
    BY <1>4, <1>6
  <2>2. Packed(fixed, Packing!Loop(0, parts), Len(parts))
    BY <1>4, <1>5, <2>1, Packing!FoldKeeps
  <2> QED
    BY <1>4, <2>2
<1>8. PackedWord(indices, bits, perWord, word) = Packing!Loop(0, parts)
  BY PackedWordIs DEF parts, part
<1> QED
  BY <1>7, <1>8 DEF Packed

-----------------------------------------------------------------------------
(* Coordinates. Dividing by the edge of a section rounds down and leaves a  *)
(* remainder inside it, so a coordinate is its section or column and its    *)
(* place there, and no two coordinates are the same.                        *)

\* Of a height: its section and offset give it back.
LEMMA Vertical ==
  ASSUME NEW y \in Int
  PROVE  /\ SectionIndex(y) \in Int
         /\ SectionOffset(y) \in 0 .. Edge - 1
         /\ y = Edge * SectionIndex(y) + SectionOffset(y)
BY Division, SizesAssumption DEF SectionIndex, SectionOffset

LEMMA Horizontal ==
  ASSUME NEW x \in Int
  PROVE  /\ ChunkOf(x) \in Int
         /\ LocalOf(x) \in 0 .. Edge - 1
         /\ x = Edge * ChunkOf(x) + LocalOf(x)
BY Division, SizesAssumption DEF ChunkOf, LocalOf

\* A position of a column is in that column, in one of its sections.
LEMMA PositionsInside ==
  ASSUME NEW c \in Int, NEW p \in PositionsOf(c)
  PROVE  /\ p \in Int \X Int /\ p = <<p[1], p[2]>>
         /\ ChunkOf(p[1]) = c
         /\ SectionIndex(p[2]) - MinSection + 1 \in Slots
         /\ SlotOf(SectionIndex(p[2])) = <<SectionIndex(p[2]) - MinSection + 1>>
         /\ <<LocalOf(p[1]), SectionOffset(p[2])>> \in Cells
<1>1. PICK x \in 0 .. Edge - 1, y \in Ys : p = <<c * Edge + x, y>>
  BY DEF PositionsOf
<1>2. Edge \in Nat \ {0} /\ MinSection \in Int /\ MaxSection \in Int
  BY SizesAssumption, SpanAssumption
<1>3. c * Edge \in Int /\ MinSection * Edge \in Int /\ (MaxSection + 1) * Edge \in Int
  BY <1>2
<1>4. p \in Int \X Int /\ p = <<p[1], p[2]>> /\ p[1] = c * Edge + x /\ p[2] = y
  BY <1>1, <1>2, <1>3 DEF Ys
<1>5. ChunkOf(p[1]) = c /\ LocalOf(p[1]) = x
  <2>1. p[1] = Edge * c + x
    BY <1>2, <1>4
  <2> QED
    BY <1>2, <2>1, Quotient DEF ChunkOf, LocalOf
<1>6. SectionIndex(y) \in MinSection .. MaxSection /\ SectionOffset(y) \in 0 .. Edge - 1
  <2>1. PICK q \in Int, r \in Int :
          q = SectionIndex(y) /\ r = SectionOffset(y) /\ r \in 0 .. Edge - 1 /\ y = Edge * q + r
    BY <1>2, Vertical, SMTT(60) DEF Ys
  <2>2. MinSection * Edge <= Edge * q + r /\ Edge * q + r < (MaxSection + 1) * Edge
    BY <1>3, <2>1 DEF Ys
  <2>3. MinSection <= q
    <3>1. SUFFICES ASSUME q + 1 <= MinSection PROVE FALSE
      BY <1>2
    <3>2. Edge * (q + 1) <= Edge * MinSection
      BY <1>2, <3>1
    <3>3. Edge * (q + 1) = Edge * q + Edge
      BY <1>2
    <3> QED
      BY <1>2, <2>1, <2>2, <3>2, <3>3
  <2>4. q <= MaxSection
    <3>1. SUFFICES ASSUME MaxSection + 1 <= q PROVE FALSE
      BY <1>2
    <3>2. Edge * (MaxSection + 1) <= Edge * q
      BY <1>2, <3>1
    <3> QED
      BY <1>2, <2>1, <2>2, <3>2
  <2> QED
    BY <2>1, <2>3, <2>4
<1>7. SectionIndex(y) - MinSection + 1 \in Slots
  BY <1>2, <1>6 DEF Slots, SectionCount
<1> QED
  BY <1>4, <1>5, <1>6, <1>7 DEF SlotOf, Cells

-----------------------------------------------------------------------------
(* The generator.                                                           *)

LEMMA UniformIs ==
  ASSUME NEW block \in Blocks
  PROVE  WellFormed(Uniform(block)) /\ \A cell \in Cells : Get(Uniform(block), cell) = <<block>>
<1>1. /\ <<block>> \in Seq(Blocks) /\ IsInjective(<<block>>) /\ Len(<<block>>) = 1
      /\ Uniform(block) = [palette |-> <<block>>, indices |-> <<>>]
  BY DEF IsInjective, Uniform
<1>2. WellFormed(Uniform(block))
  BY <1>1, SizesAssumption DEF WellFormed
<1> QED
  BY <1>1, <1>2 DEF Get, IndexAt

LEMMA CutIs ==
  ASSUME NEW height \in Int
  PROVE  /\ WellFormed(CutSection(height))
         /\ \A cell \in Cells :
              Get(CutSection(height), cell) = <<IF cell[2] < height THEN Stone ELSE Air>>
<1> DEFINE palette == <<Stone, Air>>
           array   == [cell \in Cells |-> IF cell[2] < height THEN 0 ELSE 1]
<1>1. CutSection(height) = [palette |-> palette, indices |-> <<array>>]
  BY DEF CutSection
<1>2. palette \in Seq(Blocks) /\ Len(palette) = 2 /\ palette[1] = Stone /\ palette[2] = Air
  BY DEF Blocks
<1>3. IsInjective(palette)
  BY <1>2, BlocksAssumption DEF IsInjective
<1>4. array \in [Cells -> 0 .. Len(palette) - 1]
  BY <1>2
<1> HIDE DEF palette, array
<1>5. WellFormed(CutSection(height))
  <2>1. \E indices \in IndexArrays(CutSection(height)) : CutSection(height).indices = <<indices>>
    BY <1>1, <1>4 DEF IndexArrays
  <2>2. CutSection(height).palette = palette
    BY <1>1
  <2>3. Len(palette) \in 1 .. MaxIndex + 1
    BY <1>2, SizesAssumption
  <2> QED
    BY <1>2, <1>3, <2>1, <2>2, <2>3 DEF WellFormed
<1>6. ASSUME NEW cell \in Cells
      PROVE  Get(CutSection(height), cell) = <<IF cell[2] < height THEN Stone ELSE Air>>
  <2>1. Get(CutSection(height), cell) = <<palette[array[cell] + 1]>>
    BY <1>1 DEF Get, IndexAt
  <2> QED
    BY <1>2, <2>1 DEF array
<1> QED
  BY <1>5, <1>6

\* What the generator puts at a height.
Ground(y) == IF y < surface THEN Stone ELSE Air

LEMMA GenerateIs ==
  ASSUME surface \in Int
  PROVE  /\ DOMAIN Generate = Slots
         /\ \A slot \in Slots : WellFormed(Generate[slot])
         /\ \A c \in Int : \A p \in PositionsOf(c) :
              BlockAtIn(Generate, LocalOf(p[1]), p[2]) = <<Ground(p[2])>>
<1>1. Stone \in Blocks /\ Air \in Blocks
  BY DEF Blocks
<1>2. ASSUME NEW slot \in Slots
      PROVE  /\ WellFormed(Generate[slot])
             /\ \A cell \in Cells :
                  Get(Generate[slot], cell) = <<Ground((MinSection + slot - 1) * Edge + cell[2])>>
  <2>1. PICK bottom \in Int : bottom = (MinSection + slot - 1) * Edge
    BY SpanAssumption, SizesAssumption DEF Slots, SectionCount
  <2>2. Generate[slot] = IF bottom + Edge <= surface THEN Uniform(Stone)
                         ELSE IF bottom >= surface THEN Uniform(Air)
                         ELSE CutSection(surface - bottom)
    BY <2>1 DEF Generate, Template
  <2>3. \A cell \in Cells : cell[2] \in 0 .. Edge - 1
    BY DEF Cells
  <2>4. CASE bottom + Edge <= surface
    BY <1>1, <2>1, <2>2, <2>3, <2>4, UniformIs, SizesAssumption DEF Ground
  <2>5. CASE ~ (bottom + Edge <= surface) /\ bottom >= surface
    BY <1>1, <2>1, <2>2, <2>3, <2>5, UniformIs, SizesAssumption DEF Ground
  <2>6. CASE ~ (bottom + Edge <= surface) /\ ~ (bottom >= surface)
    <3>1. surface - bottom \in Int
      OBVIOUS
    <3>2. Generate[slot] = CutSection(surface - bottom)
      BY <2>2, <2>6
    <3>3. \A cell \in Cells : cell[2] < surface - bottom <=> bottom + cell[2] < surface
      BY <2>3, SizesAssumption
    <3> QED
      BY <2>1, <3>1, <3>2, <3>3, CutIs DEF Ground
  <2> QED
    BY <2>4, <2>5, <2>6
<1>3. ASSUME NEW c \in Int, NEW p \in PositionsOf(c)
      PROVE  BlockAtIn(Generate, LocalOf(p[1]), p[2]) = <<Ground(p[2])>>
  <2>1. PICK slot \in Slots : slot = SectionIndex(p[2]) - MinSection + 1
    BY <1>3, PositionsInside
  <2>2. /\ SlotOf(SectionIndex(p[2])) = <<slot>>
        /\ <<LocalOf(p[1]), SectionOffset(p[2])>> \in Cells
        /\ p[2] \in Int
    BY <2>1, PositionsInside
  <2>3. BlockAtIn(Generate, LocalOf(p[1]), p[2])
          = Get(Generate[slot], <<LocalOf(p[1]), SectionOffset(p[2])>>)
    BY <2>2 DEF BlockAtIn
  <2>4. p[2] = (MinSection + slot - 1) * Edge + SectionOffset(p[2])
    <3>1. SectionIndex(p[2]) \in Int /\ p[2] = Edge * SectionIndex(p[2]) + SectionOffset(p[2])
      BY <2>2, Vertical
    <3>2. MinSection + slot - 1 = SectionIndex(p[2])
      BY <2>1, <3>1, SpanAssumption
    <3> QED
      BY <3>1, <3>2, SizesAssumption
  <2> QED
    BY <1>2, <2>2, <2>3, <2>4
<1>4. DOMAIN Generate = Slots
  BY DEF Generate, Template
<1> QED
  BY <1>2, <1>3, <1>4

-----------------------------------------------------------------------------
(* Changing a block of a column.                                            *)

\* A column: one well-formed section to a slot.
ColumnOK(chunk) == DOMAIN chunk = Slots /\ \A slot \in Slots : WellFormed(chunk[slot])

\* set_block, when it changes the column: the block is at the position, every
\* other position is as it was, and no palette has lost an entry.
LEMMA SetBlockPlaces ==
  ASSUME NEW chunk, ColumnOK(chunk), NEW p \in Int \X Int, NEW block \in Blocks,
         NEW changed, SetBlockIn(chunk, LocalOf(p[1]), p[2], block) = <<changed>>
  PROVE  /\ ColumnOK(changed)
         /\ BlockAtIn(changed, LocalOf(p[1]), p[2]) = <<block>>
         /\ \A q \in PositionsOf(ChunkOf(p[1])) :
              q # p => BlockAtIn(changed, LocalOf(q[1]), q[2]) = BlockAtIn(chunk, LocalOf(q[1]), q[2])
         /\ \A slot \in Slots : Len(changed[slot].palette) >= Len(chunk[slot].palette)
<1> DEFINE cell == <<LocalOf(p[1]), SectionOffset(p[2])>>
<1>1. PICK k : SlotOf(SectionIndex(p[2])) = <<k>> /\ k \in Slots
               /\ k = SectionIndex(p[2]) - MinSection + 1
  BY DEF SetBlockIn, SlotOf
<1>2. p[1] \in Int /\ p[2] \in Int /\ p = <<p[1], p[2]>>
  OBVIOUS
<1>3. cell \in Cells
  BY <1>2, Horizontal, Vertical DEF Cells
<1>4. PICK t : WithBlock(chunk[k], cell, block) = <<t>>
  BY <1>1, WithBlockAnswers DEF SetBlockIn
<1>5. changed = [chunk EXCEPT ![k] = t]
  BY <1>1, <1>4 DEF SetBlockIn
<1>6. WellFormed(chunk[k]) /\ DOMAIN chunk = Slots
  BY <1>1 DEF ColumnOK
<1>7. /\ WellFormed(t)
      /\ Get(t, cell) = <<block>>
      /\ \A other \in Cells \ {cell} : Get(t, other) = Get(chunk[k], other)
      /\ Len(t.palette) >= Len(chunk[k].palette)
  BY <1>3, <1>4, <1>6, WithBlockPlaces
<1>8. /\ DOMAIN changed = Slots /\ changed[k] = t
      /\ \A slot \in Slots \ {k} : changed[slot] = chunk[slot]
  BY <1>1, <1>5, <1>6
<1>9. ColumnOK(changed)
  BY <1>7, <1>8 DEF ColumnOK
<1>10. BlockAtIn(changed, LocalOf(p[1]), p[2]) = <<block>>
  BY <1>1, <1>7, <1>8 DEF BlockAtIn
<1>11. ASSUME NEW q \in PositionsOf(ChunkOf(p[1])), q # p
       PROVE  BlockAtIn(changed, LocalOf(q[1]), q[2]) = BlockAtIn(chunk, LocalOf(q[1]), q[2])
  <2>1. ChunkOf(p[1]) \in Int
    BY <1>2, Horizontal
  <2>2. /\ q \in Int \X Int /\ q = <<q[1], q[2]>> /\ q[1] \in Int /\ q[2] \in Int
        /\ ChunkOf(q[1]) = ChunkOf(p[1])
        /\ <<LocalOf(q[1]), SectionOffset(q[2])>> \in Cells
    BY <2>1, PositionsInside
  <2>3. PICK slot \in Slots : SlotOf(SectionIndex(q[2])) = <<slot>>
                             /\ slot = SectionIndex(q[2]) - MinSection + 1
    BY <2>1, PositionsInside
  <2>4. CASE slot # k
    BY <1>8, <2>3, <2>4 DEF BlockAtIn
  <2>5. CASE slot = k
    <3>1. SectionIndex(q[2]) = SectionIndex(p[2])
      BY <1>1, <1>2, <2>2, <2>3, <2>5, Vertical, SpanAssumption
    <3>2. <<LocalOf(q[1]), SectionOffset(q[2])>> # cell
      <4>1. SUFFICES ASSUME LocalOf(q[1]) = LocalOf(p[1]), SectionOffset(q[2]) = SectionOffset(p[2])
                     PROVE  FALSE
        OBVIOUS
      <4>2. q[1] = p[1]
        <5>1. /\ q[1] = Edge * ChunkOf(q[1]) + LocalOf(q[1])
              /\ p[1] = Edge * ChunkOf(p[1]) + LocalOf(p[1])
          BY <1>2, <2>2, Horizontal
        <5> QED
          BY <2>2, <4>1, <5>1
      <4>3. q[2] = p[2]
        <5>1. /\ q[2] = Edge * SectionIndex(q[2]) + SectionOffset(q[2])
              /\ p[2] = Edge * SectionIndex(p[2]) + SectionOffset(p[2])
          BY <1>2, <2>2, Vertical
        <5> QED
          BY <3>1, <4>1, <5>1
      <4> QED
        BY <1>2, <1>11, <2>2, <4>2, <4>3
    <3>3. Get(t, <<LocalOf(q[1]), SectionOffset(q[2])>>)
            = Get(chunk[k], <<LocalOf(q[1]), SectionOffset(q[2])>>)
      BY <1>7, <2>2, <3>2
    <3> QED
      BY <1>8, <2>3, <2>5, <3>3 DEF BlockAtIn
  <2> QED
    BY <2>4, <2>5
<1>12. \A slot \in Slots : Len(changed[slot].palette) >= Len(chunk[slot].palette)
  <2>1. \A slot \in Slots : Len(chunk[slot].palette) \in Int
    BY DEF ColumnOK, WellFormed
  <2> QED
    BY <1>7, <1>8, <2>1
<1> QED
  BY <1>9, <1>10, <1>11, <1>12

\* set_block, when it answers false: the position is over or under the column,
\* or its section's palette is full.
LEMMA SetBlockRefuses ==
  ASSUME NEW chunk, ColumnOK(chunk), NEW p \in Int \X Int, NEW block \in Blocks,
         SetBlockIn(chunk, LocalOf(p[1]), p[2], block) = <<>>
  PROVE  LET slot == SlotOf(SectionIndex(p[2]))
         IN slot = <<>> \/ Len(chunk[slot[1]].palette) = MaxIndex + 1
<1>1. SUFFICES ASSUME SlotOf(SectionIndex(p[2])) # <<>>
               PROVE  Len(chunk[SlotOf(SectionIndex(p[2]))[1]].palette) = MaxIndex + 1
  OBVIOUS
<1>2. PICK k \in Slots : SlotOf(SectionIndex(p[2])) = <<k>>
  BY <1>1 DEF SlotOf
<1>3. <<LocalOf(p[1]), SectionOffset(p[2])>> \in Cells
  BY Horizontal, Vertical DEF Cells
<1>4. WithBlock(chunk[k], <<LocalOf(p[1]), SectionOffset(p[2])>>, block) = <<>>
  BY <1>2, WithBlockAnswers DEF SetBlockIn
<1>5. WellFormed(chunk[k])
  BY DEF ColumnOK
<1>6. Len(chunk[k].palette) = MaxIndex + 1
  BY <1>3, <1>4, <1>5, WithBlockRefuses
<1> QED
  BY <1>2, <1>6

-----------------------------------------------------------------------------
(* What a client is sent of a column.                                       *)

LEMMA Powers ==
  /\ 2 ^ 1 = 2 /\ 2 ^ 2 = 4 /\ 2 ^ 3 = 8 /\ 2 ^ 4 = 16 /\ 2 ^ 5 = 32 /\ 2 ^ 6 = 64
  /\ 2 ^ 8 = 256 /\ 2 ^ 16 = 65536
<1>1. 2 ^ (0 + 1) = 2 * 2 ^ 0 /\ 2 ^ (1 + 1) = 2 * 2 ^ 1 /\ 2 ^ (2 + 1) = 2 * 2 ^ 2
      /\ 2 ^ (3 + 1) = 2 * 2 ^ 3 /\ 2 ^ (4 + 1) = 2 * 2 ^ 4 /\ 2 ^ (5 + 1) = 2 * 2 ^ 5
  BY PowerNext
<1>2. 2 ^ 1 = 2 /\ 2 ^ 2 = 4 /\ 2 ^ 3 = 8 /\ 2 ^ 4 = 16 /\ 2 ^ 5 = 32 /\ 2 ^ 6 = 64
  BY <1>1, PowerZero
<1>3. 2 ^ (4 + 4) = 2 ^ 4 * 2 ^ 4
  BY PowerSum
<1>4. 2 ^ 8 = 256
  BY <1>2, <1>3
<1>5. 2 ^ (8 + 8) = 2 ^ 8 * 2 ^ 8
  BY PowerSum
<1> QED
  BY <1>2, <1>4, <1>5

\* Every index of a palette fits the bits the palette is written with, and those
\* fit a word.
LEMMA BitsFit ==
  ASSUME NEW len \in 2 .. MaxIndex + 1
  PROVE  /\ BitsPerBlock(len) \in Nat \ {0}
         /\ BitsPerBlock(len) <= WordBits
         /\ len <= 2 ^ BitsPerBlock(len)
<1>1. MaxIndex \in Nat /\ WordBits \in Nat /\ MaxIndex + 1 <= 65536 /\ len <= 65536
  BY SizesAssumption, WidthsAssumption
<1>2. BitsPerBlock(len) \in {1, 2, 3, 4, 5, 6, 8, 16}
  BY <1>1 DEF BitsPerBlock
<1>3. len <= 2 ^ BitsPerBlock(len)
  <2>1. CASE len <= 2
    <3>1. BitsPerBlock(len) = 1
      BY <2>1 DEF BitsPerBlock
    <3> QED
      BY <1>1, <2>1, <3>1, Powers
  <2>2. CASE len \in 3 .. 4
    <3>1. BitsPerBlock(len) = 2
      BY <2>2 DEF BitsPerBlock
    <3> QED
      BY <1>1, <2>2, <3>1, Powers
  <2>3. CASE len \in 5 .. 8
    <3>1. BitsPerBlock(len) = 3
      BY <2>3 DEF BitsPerBlock
    <3> QED
      BY <1>1, <2>3, <3>1, Powers
  <2>4. CASE len \in 9 .. 16
    <3>1. BitsPerBlock(len) = 4
      BY <2>4 DEF BitsPerBlock
    <3> QED
      BY <1>1, <2>4, <3>1, Powers
  <2>5. CASE len \in 17 .. 32
    <3>1. BitsPerBlock(len) = 5
      BY <2>5 DEF BitsPerBlock
    <3> QED
      BY <1>1, <2>5, <3>1, Powers
  <2>6. CASE len \in 33 .. 64
    <3>1. BitsPerBlock(len) = 6
      BY <2>6 DEF BitsPerBlock
    <3> QED
      BY <1>1, <2>6, <3>1, Powers
  <2>7. CASE len \in 65 .. 256
    <3>1. BitsPerBlock(len) = 8
      BY <2>7 DEF BitsPerBlock
    <3> QED
      BY <1>1, <2>7, <3>1, Powers
  <2>8. CASE len > 256
    <3>1. BitsPerBlock(len) = 16
      BY <2>8 DEF BitsPerBlock
    <3> QED
      BY <1>1, <2>8, <3>1, Powers
  <2> QED
    BY <2>1, <2>2, <2>3, <2>4, <2>5, <2>6, <2>7, <2>8
<1>4. BitsPerBlock(len) <= BitsPerBlock(MaxIndex + 1)
  <2>1. PICK most \in Nat : most = MaxIndex + 1 /\ len <= most
    BY <1>1
  <2>2. BitsPerBlock(len) <= BitsPerBlock(most)
    BY <2>1 DEF BitsPerBlock
  <2> QED
    BY <2>1, <2>2
<1>5. BitsPerBlock(MaxIndex + 1) \in Nat
  BY <1>1 DEF BitsPerBlock
<1> QED
  BY <1>1, <1>2, <1>3, <1>4, <1>5, WidthsAssumption

\* The offset of a cell is one of the positions written, and the cell's own.
LEMMA OffsetIs ==
  ASSUME NEW cell \in Cells
  PROVE  BlockOffset(cell) \in 0 .. Edge * Edge - 1 /\ CellAt(BlockOffset(cell)) = cell
<1>1. PICK x \in 0 .. Edge - 1, y \in 0 .. Edge - 1 : cell = <<x, y>>
  BY DEF Cells
<1>2. Edge \in Nat \ {0}
  BY SizesAssumption
<1>3. BlockOffset(cell) = Edge * x + y
  BY <1>1, <1>2 DEF BlockOffset
<1>4. (Edge * x + y) \div Edge = x /\ (Edge * x + y) % Edge = y
  BY <1>2, Quotient
<1>5. Edge * x + y \in Nat
  BY <1>2
<1>6. Edge * x + y < Edge * Edge
  <2>1. PICK n \in Nat : n = Edge - 1 - x
    BY <1>2
  <2>2. Edge * Edge = Edge * x + Edge * n + Edge
    <3>1. Edge = x + n + 1
      BY <1>2, <2>1
    <3>2. Edge * (x + n + 1) = Edge * x + Edge * n + Edge
      BY <1>2
    <3> QED
      BY <3>1, <3>2
  <2>3. PICK a \in Nat, b \in Nat, c \in Nat : a = Edge * x /\ b = Edge * n /\ c = Edge * Edge
    BY <1>2, <2>1
  <2> QED
    BY <1>2, <2>2, <2>3
<1>7. Edge * Edge \in Nat
  BY <1>2
<1> QED
  BY <1>1, <1>3, <1>4, <1>5, <1>6, <1>7 DEF CellAt

\* Where a position stands among the words: in one of those written, in a slot.
LEMMA WordOf ==
  ASSUME NEW all \in Nat, NEW perWord \in Nat \ {0}, NEW offset \in 0 .. all - 1
  PROVE  /\ offset \div perWord \in Nat /\ offset % perWord \in 0 .. perWord - 1
         /\ (offset \div perWord) * perWord + (offset % perWord) = offset
         /\ offset \div perWord + 1 \in 1 .. (all + perWord - 1) \div perWord
<1>1. PICK q \in Int, r \in 0 .. perWord - 1 :
        offset = perWord * q + r /\ offset \div perWord = q /\ offset % perWord = r
  BY Division
<1>2. q \in Nat
  <2>1. SUFFICES ASSUME q <= -1 PROVE FALSE
    BY <1>1
  <2>2. PICK n \in Nat : n = -1 - q
    BY <2>1
  <2>3. perWord * q = -(perWord * n) - perWord
    <3>1. q = -1 - n
      BY <2>2
    <3> QED
      BY <3>1
  <2>4. perWord * n \in Nat
    BY <2>2
  <2> QED
    BY <1>1, <2>3, <2>4
<1>3. PICK p \in Int, s \in 0 .. perWord - 1 :
        all + perWord - 1 = perWord * p + s /\ (all + perWord - 1) \div perWord = p
  <2>1. all + perWord - 1 \in Int
    OBVIOUS
  <2> QED
    BY <2>1, Division
<1>4. q + 1 <= p
  <2>1. SUFFICES ASSUME p <= q PROVE FALSE
    BY <1>1, <1>3
  <2>2. PICK n \in Nat : n = q - p
    BY <2>1
  <2>3. perWord * q = perWord * p + perWord * n
    <3>1. q = p + n
      BY <2>2
    <3> QED
      BY <3>1
  <2>4. perWord * n \in Nat /\ perWord * p \in Int
    BY <2>2
  <2>5. perWord * p + s <= offset + s
    BY <1>1, <2>3, <2>4
  <2> QED
    BY <1>3, <2>4, <2>5
<1>5. q * perWord + r = offset
  <2>1. q * perWord = perWord * q
    OBVIOUS
  <2> QED
    BY <1>1, <2>1
<1>6. q + 1 \in 1 .. p
  BY <1>2, <1>4
<1>7. offset \div perWord \in Nat /\ offset % perWord \in 0 .. perWord - 1
  BY <1>1, <1>2
<1>8. (offset \div perWord) * perWord + (offset % perWord) = offset
  BY <1>1, <1>5
<1>9. offset \div perWord + 1 \in 1 .. (all + perWord - 1) \div perWord
  BY <1>1, <1>3, <1>6, Zenon
<1> QED
  BY <1>7, <1>8, <1>9, Zenon

\* A position is the offset of a cell.
LEMMA CellAtIs ==
  ASSUME NEW offset \in 0 .. Edge * Edge - 1
  PROVE  CellAt(offset) \in Cells
<1>1. Edge \in Nat \ {0} /\ Edge * Edge \in Nat
  BY SizesAssumption
<1>2. offset \div Edge \in Nat /\ offset % Edge \in 0 .. Edge - 1
      /\ offset \div Edge + 1 \in 1 .. (Edge * Edge + Edge - 1) \div Edge
  BY <1>1, WordOf
<1>3. Edge * Edge + Edge - 1 = Edge * Edge + (Edge - 1) /\ Edge - 1 \in 0 .. Edge - 1
  BY <1>1
<1>4. (Edge * Edge + (Edge - 1)) \div Edge = Edge
  BY <1>1, <1>3, Quotient
<1>5. offset \div Edge \in 0 .. Edge - 1
  BY <1>1, <1>2, <1>3, <1>4
<1> QED
  BY <1>2, <1>5 DEF CellAt, Cells

\* encode_section and write_subchunk: what the client reads at a cell is the
\* runtime id of the block there.
LEMMA SubchunkReads ==
  ASSUME NEW s, WellFormed(s), NEW cell \in Cells
  PROVE  ReadSubchunk(WriteSubchunk(EncodeSection(s)), cell) = RuntimeId(Get(s, cell)[1])
<1> DEFINE palette == [i \in DOMAIN s.palette |-> RuntimeId(s.palette[i])]
           indices == [offset \in 0 .. Edge * Edge - 1 |-> IndexAt(s, CellAt(offset))[1]]
           len == Len(s.palette)
<1>1. s.palette \in Seq(Blocks) /\ len \in 1 .. MaxIndex + 1
  BY DEF WellFormed
<1>2. palette \in Seq({RuntimeId(b) : b \in Blocks}) /\ Len(palette) = len
      /\ \A i \in 1 .. len : palette[i] = RuntimeId(s.palette[i])
  <2>1. DOMAIN s.palette = 1 .. len /\ len \in Nat /\ \A i \in 1 .. len : s.palette[i] \in Blocks
    BY <1>1
  <2> QED
    BY <2>1
<1>3. Get(s, cell)[1] = s.palette[IndexAt(s, cell)[1] + 1] /\ IndexAt(s, cell)[1] \in 0 .. len - 1
  BY CellsHaveBlocks
<1>4. RuntimeId(Get(s, cell)[1]) = palette[IndexAt(s, cell)[1] + 1]
  BY <1>1, <1>2, <1>3
<1>5. /\ EncodeSection(s).palette = palette
      /\ EncodeSection(s).indices = IF IsUniform(s) \/ len <= 1 THEN <<>> ELSE <<indices>>
  BY <1>2 DEF EncodeSection
<1>6. CASE len = 1
  <2>1. EncodeSection(s).indices = <<>>
    BY <1>5, <1>6
  <2>2. WriteSubchunk(EncodeSection(s)) = [bits |-> 0, words |-> <<>>, palette |-> <<Head(palette)>>]
    BY <1>5, <2>1 DEF WriteSubchunk
  <2>3. ReadSubchunk(WriteSubchunk(EncodeSection(s)), cell) = Head(palette)
    BY <2>2 DEF ReadSubchunk
  <2>4. Head(palette) = palette[1]
    BY <1>2, <1>6
  <2> QED
    BY <1>3, <1>4, <1>6, <2>3, <2>4
<1>7. CASE len # 1
  <2>1. len \in 2 .. MaxIndex + 1 /\ Edge * Edge \in Nat /\ WordBits \in Nat
    <3>1. len \in 2 .. MaxIndex + 1
      <4> HIDE DEF len
      <4> QED
        BY <1>1, <1>7, SizesAssumption
    <3> QED
      BY <3>1, SizesAssumption
  <2>2. PICK bits \in Nat \ {0} : bits = BitsPerBlock(len) /\ bits <= WordBits /\ len <= 2 ^ bits
    BY <2>1, BitsFit
  <2>3. PICK perWord \in Nat \ {0} : perWord = WordBits \div bits
    <3>1. PICK q \in Int, r \in 0 .. bits - 1 : WordBits = bits * q + r /\ WordBits \div bits = q
      BY <2>1, Division
    <3>2. q >= 1
      <4>1. SUFFICES ASSUME q <= 0 PROVE FALSE
        BY <3>1
      <4>2. PICK n \in Nat : n = -q
        BY <4>1
      <4>3. bits * q = -(bits * n) /\ bits * n \in Nat
        BY <4>2
      <4>4. PICK m \in Nat : m = bits * n /\ bits * q = -m
        BY <4>3
      <4>5. WordBits = r - m /\ r < bits /\ bits <= WordBits
        <5>1. WordBits = bits * q + r
          BY <3>1
        <5>2. bits <= WordBits /\ r < bits
          BY <2>2, <3>1
        <5> QED
          BY <4>4, <5>1, <5>2
      <4> QED
        BY <2>1, <4>4, <4>5
    <3> QED
      BY <3>1, <3>2
  <2>4. ~ IsUniform(s)
    <3>1. PICK array \in IndexArrays(s) : s.indices = <<array>>
      BY <1>7 DEF WellFormed
    <3>2. <<array>> # <<>>
      OBVIOUS
    <3> QED
      BY <3>1, <3>2 DEF IsUniform
  <2>5. EncodeSection(s).indices = <<indices>>
    <3>1. ~ (len <= 1)
      BY <2>1
    <3> HIDE DEF indices, len
    <3> QED
      BY <1>5, <2>4, <3>1
  <2> DEFINE words == (Edge * Edge + perWord - 1) \div perWord
             written == [w \in 1 .. words |-> PackedWord(indices, bits, perWord, w - 1)]
  <2>6. WriteSubchunk(EncodeSection(s)) = [bits |-> bits, palette |-> palette, words |-> written]
    <3>1. EncodeSection(s).indices # <<>> /\ EncodeSection(s).indices[1] = indices
      BY <2>5
    <3>2. Len(EncodeSection(s).palette) = len /\ ~ (len <= 1)
      BY <1>2, <1>5, <2>1
    <3> HIDE DEF palette, indices
    <3> QED
      BY <1>5, <2>2, <2>3, <3>1, <3>2 DEF WriteSubchunk
  <2>7. PICK offset \in 0 .. Edge * Edge - 1 : offset = BlockOffset(cell) /\ CellAt(offset) = cell
    BY OffsetIs
  <2>8. PICK word \in Nat, slot \in 0 .. perWord - 1 :
          /\ word = offset \div perWord /\ slot = offset % perWord
          /\ word * perWord + slot = offset /\ word + 1 \in 1 .. words
    BY <2>1, WordOf
  <2>9. \A position \in 0 .. Edge * Edge - 1 : indices[position] \in 0 .. 2 ^ bits - 1
    <3>1. ASSUME NEW position \in 0 .. Edge * Edge - 1
          PROVE  indices[position] \in 0 .. 2 ^ bits - 1
      <4>1. IndexAt(s, CellAt(position))[1] \in 0 .. len - 1
        BY CellAtIs, CellsHaveBlocks
      <4>2. indices[position] \in 0 .. len - 1
        BY <4>1
      <4>3. 2 ^ bits \in Nat
        BY PowerPositive
      <4> HIDE DEF indices
      <4> QED
        BY <2>1, <2>2, <4>2, <4>3
    <3> QED
      BY <3>1
  <2>10. indices[offset] = IndexAt(s, cell)[1]
    BY <2>7
  <2> HIDE DEF indices, palette
  <2>11. Digit(PackedWord(indices, bits, perWord, word), 2 ^ (slot * bits), 2 ^ bits) = indices[offset]
    <3>1. word * perWord + slot < Edge * Edge
      <4>1. PICK all \in Nat : all = Edge * Edge
        BY <2>1
      <4>2. offset < all
        BY <4>1
      <4> QED
        BY <2>8, <4>1, <4>2
    <3>2. \A k \in 0 .. perWord - 1 :
            word * perWord + k < Edge * Edge =>
              Digit(PackedWord(indices, bits, perWord, word), 2 ^ (k * bits), 2 ^ bits)
                = indices[word * perWord + k]
      BY <2>9, WordReads
    <3> QED
      BY <2>8, <3>1, <3>2
  <2>12. written[word + 1] = PackedWord(indices, bits, perWord, word)
    <3>1. (word + 1) - 1 = word
      OBVIOUS
    <3> QED
      BY <2>8, <3>1
  <2> HIDE DEF written, words
  <2>13. ReadSubchunk(WriteSubchunk(EncodeSection(s)), cell)
           = palette[Digit(written[word + 1], 2 ^ (slot * bits), 2 ^ bits) + 1]
    BY <2>2, <2>3, <2>6, <2>7, <2>8 DEF ReadSubchunk, Digit
  <2> QED
    BY <1>4, <2>10, <2>11, <2>12, <2>13
<1> QED
  BY <1>6, <1>7

\* The highest of some numbers up to n.
LEMMA MaxIs ==
  ASSUME NEW n \in Nat, NEW S \in SUBSET (0 .. n), S # {}
  PROVE  Max(S) \in S /\ \A x \in S : Max(S) >= x
<1> DEFINE T == {m \in 0 .. n : \A x \in S : m >= x}
<1>1. n \in T
  OBVIOUS
<1>2. PICK m \in T : \A k \in T : m <= k
  <2>1. T \subseteq Nat
    OBVIOUS
  <2> HIDE DEF T
  <2> QED
    BY <1>1, <2>1, Packing!LeastNatural
<1>3. m \in S
  <2> SUFFICES ASSUME m \notin S PROVE FALSE
    OBVIOUS
  <2>1. PICK x \in S : TRUE
    OBVIOUS
  <2>2. m - 1 \in T
    <3>1. \A y \in S : m - 1 >= y
      OBVIOUS
    <3>2. m - 1 \in 0 .. n
      BY <2>1, <3>1
    <3> QED
      BY <3>1, <3>2
  <2> QED
    BY <1>2, <2>2
<1> QED
  BY <1>3 DEF Max

\* column_packet: for a column of well-formed sections, and every position.
LEMMA ColumnDraws ==
  ASSUME NEW chunk, ColumnOK(chunk), NEW c \in Int, NEW p \in PositionsOf(c)
  PROVE  Drawn(ColumnPacket(chunk), LocalOf(p[1]), p[2]) =
           RuntimeId(BlockAtIn(chunk, LocalOf(p[1]), p[2])[1])
<1> DEFINE cell == <<LocalOf(p[1]), SectionOffset(p[2])>>
           used == {k \in Slots : ~ IsEmpty(chunk[k])}
<1>1. PICK slot \in Slots :
        /\ slot = SectionIndex(p[2]) - MinSection + 1 /\ SlotOf(SectionIndex(p[2])) = <<slot>>
        /\ cell \in Cells
  BY PositionsInside
<1>2. WellFormed(chunk[slot])
  BY DEF ColumnOK
<1>3. BlockAtIn(chunk, LocalOf(p[1]), p[2]) = Get(chunk[slot], cell)
  BY <1>1 DEF BlockAtIn
<1>4. SectionCount \in Nat
  BY SpanAssumption DEF SectionCount
<1>5. /\ HighestUsed(chunk) \in {0} \cup Slots
      /\ \A k \in Slots : k > HighestUsed(chunk) => IsEmpty(chunk[k])
  <2>1. {0} \cup used \in SUBSET (0 .. SectionCount) /\ {0} \cup used # {}
    BY <1>4 DEF Slots
  <2>2. HighestUsed(chunk) = Max({0} \cup used)
    BY DEF HighestUsed
  <2>3. Max({0} \cup used) \in {0} \cup used /\ \A x \in {0} \cup used : Max({0} \cup used) >= x
    BY <1>4, <2>1, MaxIs
  <2> QED
    BY <1>4, <2>2, <2>3 DEF Slots
<1>6. CASE slot > HighestUsed(chunk)
  <2>1. Drawn(ColumnPacket(chunk), LocalOf(p[1]), p[2]) = Air
    BY <1>1, <1>6 DEF Drawn, ColumnPacket
  <2>2. Get(chunk[slot], cell)[1] \in Range(chunk[slot].palette)
    <3>1. /\ IndexAt(chunk[slot], cell)[1] \in 0 .. Len(chunk[slot].palette) - 1
          /\ Get(chunk[slot], cell) = <<chunk[slot].palette[IndexAt(chunk[slot], cell)[1] + 1]>>
      BY <1>1, <1>2, CellsHaveBlocks
    <3>2. chunk[slot].palette \in Seq(Blocks)
      BY <1>2 DEF WellFormed
    <3>3. IndexAt(chunk[slot], cell)[1] + 1 \in DOMAIN chunk[slot].palette
      BY <3>1, <3>2
    <3> QED
      BY <3>1, <3>3 DEF Range
  <2>3. Get(chunk[slot], cell)[1] \in AirLike
    BY <1>5, <1>6, <2>2 DEF IsEmpty
  <2>4. RuntimeId(Get(chunk[slot], cell)[1]) = Air
    BY <2>3, KnownAssumption DEF RuntimeId
  <2> QED
    BY <1>3, <2>1, <2>4
<1>7. CASE ~ (slot > HighestUsed(chunk))
  <2>1. slot \in 1 .. HighestUsed(chunk)
    BY <1>4, <1>5, <1>7 DEF Slots
  <2>2. Drawn(ColumnPacket(chunk), LocalOf(p[1]), p[2])
          = ReadSubchunk(WriteSubchunk(EncodeSection(chunk[slot])), cell)
    BY <1>1, <1>7, <2>1 DEF Drawn, ColumnPacket
  <2> QED
    BY <1>1, <1>2, <1>3, <2>2, SubchunkReads
<1> QED
  BY <1>6, <1>7

-----------------------------------------------------------------------------
(* The world.                                                               *)

IInv == TypeOK /\ ReadsBack /\ RefusedWhenFull

\* The columns once c is there: all well formed, those that were held as they
\* were, and every position as it should be.
LEMMA LoadedIs ==
  ASSUME IInv, NEW c \in Columns
  PROVE  /\ DOMAIN Loaded(c) = DOMAIN chunks \cup {c}
         /\ \A k \in DOMAIN chunks : Loaded(c)[k] = chunks[k]
         /\ \A k \in DOMAIN Loaded(c) : k \in Int /\ ColumnOK(Loaded(c)[k])
         /\ \A k \in DOMAIN Loaded(c) : \A q \in PositionsOf(k) :
              BlockAtIn(Loaded(c)[k], LocalOf(q[1]), q[2]) = <<Expected(q)>>
<1>1. /\ DOMAIN Loaded(c) = DOMAIN chunks \cup {c}
      /\ \A k \in DOMAIN chunks : Loaded(c)[k] = chunks[k]
      /\ c \notin DOMAIN chunks => Loaded(c)[c] = Generate
  BY DEF Loaded
<1>2. surface \in Int
  BY InputsAssumption DEF IInv, TypeOK
<1>3. Columns \subseteq Int
  BY InputsAssumption, Horizontal DEF Columns
<1>4. \A k \in DOMAIN chunks : k \in Int /\ ColumnOK(chunks[k])
  BY <1>3 DEF IInv, TypeOK, ColumnOK
<1>5. ASSUME NEW k \in DOMAIN Loaded(c)
      PROVE  /\ k \in Int /\ ColumnOK(Loaded(c)[k])
             /\ \A q \in PositionsOf(k) :
                  BlockAtIn(Loaded(c)[k], LocalOf(q[1]), q[2]) = <<Expected(q)>>
  <2>1. CASE k \in DOMAIN chunks
    BY <1>1, <1>4, <2>1 DEF IInv, ReadsBack
  <2>2. CASE k \notin DOMAIN chunks
    <3>1. k = c /\ Loaded(c)[k] = Generate /\ k \in Int
      BY <1>1, <1>3, <2>2
    <3>2. ColumnOK(Generate)
      BY <1>2, GenerateIs DEF ColumnOK
    <3>3. ASSUME NEW q \in PositionsOf(k) PROVE q \notin DOMAIN placed
      <4>1. ChunkOf(q[1]) = k
        BY <3>1, PositionsInside
      <4> QED
        BY <2>2, <4>1 DEF IInv, TypeOK
    <3> QED
      BY <1>2, <3>1, <3>2, <3>3, GenerateIs DEF Expected, Ground
  <2> QED
    BY <2>1, <2>2
<1> QED
  BY <1>1, <1>5

LEMMA InitInv == Init => IInv
BY DEF Init, IInv, TypeOK, ReadsBack, RefusedWhenFull

\* chunk and block_at may generate a column and change nothing else.
LEMMA ChunkStep ==
  ASSUME IInv, NEW c \in Columns, Chunk(c)
  PROVE  IInv'
<1>1. /\ chunks' = Loaded(c)
      /\ surface' = surface /\ placed' = placed /\ refused' = refused
  BY DEF Chunk
<1>2. TypeOK'
  <2>1. DOMAIN chunks' \subseteq Columns
    <3>1. DOMAIN chunks' = DOMAIN chunks \cup {c}
      BY <1>1, LoadedIs
    <3> QED
      BY <3>1 DEF IInv, TypeOK
  <2>2. \A k \in DOMAIN chunks' :
          DOMAIN chunks'[k] = Slots /\ \A slot \in Slots : WellFormed(chunks'[k][slot])
    BY <1>1, LoadedIs DEF ColumnOK
  <2>3. \A p \in DOMAIN placed \cup refused : ChunkOf(p[1]) \in DOMAIN chunks'
    BY <1>1, LoadedIs DEF IInv, TypeOK
  <2> QED
    BY <1>1, <2>1, <2>2, <2>3 DEF IInv, TypeOK
<1>3. ReadsBack'
  <2>1. \A q : Expected(q)' = Expected(q)
    BY <1>1 DEF Expected
  <2> SUFFICES ASSUME NEW k \in DOMAIN Loaded(c), NEW q \in PositionsOf(k)
               PROVE  BlockAtIn(Loaded(c)[k], LocalOf(q[1]), q[2]) = <<Expected(q)>>
    BY <1>1, <2>1 DEF ReadsBack
  <2> QED
    BY LoadedIs
<1>4. RefusedWhenFull'
  <2>1. \A p \in refused : ChunkOf(p[1]) \in DOMAIN chunks
    BY DEF IInv, TypeOK
  <2>2. \A p \in refused : chunks'[ChunkOf(p[1])] = chunks[ChunkOf(p[1])]
    BY <1>1, <2>1, LoadedIs
  <2> QED
    BY <1>1, <2>2 DEF IInv, RefusedWhenFull
<1> QED
  BY <1>2, <1>3, <1>4 DEF IInv

\* unload forgets a column and what was done to it.
LEMMA UnloadStep ==
  ASSUME IInv, NEW c \in Columns, Unload(c)
  PROVE  IInv'
<1>1. /\ DOMAIN chunks' = DOMAIN chunks \ {c}
      /\ \A k \in DOMAIN chunks' : chunks'[k] = chunks[k]
      /\ DOMAIN placed' = {r \in DOMAIN placed : ChunkOf(r[1]) # c}
      /\ \A q \in DOMAIN placed' : placed'[q] = placed[q]
      /\ refused' = {r \in refused : ChunkOf(r[1]) # c}
      /\ surface' = surface
  BY DEF Unload
<1>2. TypeOK'
  BY <1>1 DEF IInv, TypeOK
<1>3. ReadsBack'
  <2>1. SUFFICES ASSUME NEW k \in DOMAIN chunks', NEW q \in PositionsOf(k)
                 PROVE  BlockAtIn(chunks'[k], LocalOf(q[1]), q[2]) = <<Expected(q)'>>
    BY DEF ReadsBack
  <2>2. k # c /\ k \in DOMAIN chunks /\ chunks'[k] = chunks[k]
    BY <1>1
  <2>3. k \in Int
    BY <2>2, InputsAssumption, Horizontal DEF IInv, TypeOK, Columns
  <2>4. ChunkOf(q[1]) = k
    BY <2>3, PositionsInside
  <2>5. Expected(q)' = Expected(q)
    BY <1>1, <2>2, <2>4 DEF Expected
  <2> QED
    BY <2>2, <2>5 DEF IInv, ReadsBack
<1>4. RefusedWhenFull'
  <2>1. \A p \in refused' : p \in refused /\ ChunkOf(p[1]) \in DOMAIN chunks'
    BY <1>1 DEF IInv, TypeOK
  <2> QED
    BY <1>1, <2>1 DEF IInv, RefusedWhenFull
<1> QED
  BY <1>2, <1>3, <1>4 DEF IInv

\* set_block generates the column if need be, and changes it or not at all.
LEMMA SetBlockStep ==
  ASSUME IInv, NEW p \in Positions, NEW block \in Blocks, SetBlock(p, block)
  PROVE  IInv'
<1> DEFINE c       == ChunkOf(p[1])
           loaded  == Loaded(c)
           answer  == SetBlockIn(loaded[c], LocalOf(p[1]), p[2], block)
<1>1. p \in Int \X Int /\ p = <<p[1], p[2]>> /\ p[1] \in Int /\ p[2] \in Int
  BY InputsAssumption
<1>2. c \in Columns /\ c \in Int
  BY <1>1, Horizontal DEF Columns
<1>3. /\ DOMAIN loaded = DOMAIN chunks \cup {c}
      /\ \A k \in DOMAIN chunks : loaded[k] = chunks[k]
      /\ \A k \in DOMAIN loaded : k \in Int /\ ColumnOK(loaded[k])
      /\ \A k \in DOMAIN loaded : \A q \in PositionsOf(k) :
           BlockAtIn(loaded[k], LocalOf(q[1]), q[2]) = <<Expected(q)>>
  BY <1>2, LoadedIs
<1>4. DOMAIN loaded \subseteq Columns
  BY <1>2, <1>3 DEF IInv, TypeOK
<1>5. /\ surface' = surface
      /\ answer = <<>> => chunks' = loaded /\ placed' = placed /\ refused' = refused \cup {p}
      /\ answer # <<>> =>
           /\ chunks' = [loaded EXCEPT ![c] = answer[1]]
           /\ placed' = [q \in DOMAIN placed \cup {p} |-> IF q = p THEN block ELSE placed[q]]
           /\ refused' = refused
  BY DEF SetBlock
<1>6. \A q \in DOMAIN placed \cup refused :
        q \in Positions /\ ChunkOf(q[1]) \in DOMAIN chunks
  BY DEF IInv, TypeOK
<1>7. \A q \in refused : loaded[ChunkOf(q[1])] = chunks[ChunkOf(q[1])]
  BY <1>3, <1>6
<1> HIDE DEF c, loaded, answer
<1>8. CASE answer = <<>>
  <2>1. TypeOK'
    <3>1. \A q \in DOMAIN placed' \cup refused' : ChunkOf(q[1]) \in DOMAIN chunks'
      BY <1>3, <1>5, <1>6, <1>8 DEF c
    <3> QED
      BY <1>3, <1>4, <1>5, <1>6, <1>8, <3>1 DEF IInv, TypeOK, ColumnOK
  <2>2. ReadsBack'
    BY <1>3, <1>5, <1>8 DEF ReadsBack, Expected
  <2>3. RefusedWhenFull'
    <3>1. LET slot == SlotOf(SectionIndex(p[2]))
          IN slot = <<>> \/ Len(loaded[c][slot[1]].palette) = MaxIndex + 1
      BY <1>1, <1>3, <1>8, SetBlockRefuses DEF answer
    <3> QED
      BY <1>5, <1>7, <1>8, <3>1 DEF IInv, RefusedWhenFull, c
  <2> QED
    BY <2>1, <2>2, <2>3 DEF IInv
<1>9. CASE answer # <<>>
  <2>1. PICK changed : answer = <<changed>>
    BY <1>9 DEF answer, SetBlockIn
  <2>2. ColumnOK(loaded[c])
    BY <1>3
  <2>3. /\ ColumnOK(changed)
        /\ BlockAtIn(changed, LocalOf(p[1]), p[2]) = <<block>>
        /\ \A q \in PositionsOf(c) :
             q # p => BlockAtIn(changed, LocalOf(q[1]), q[2])
                        = BlockAtIn(loaded[c], LocalOf(q[1]), q[2])
        /\ \A slot \in Slots : Len(changed[slot].palette) >= Len(loaded[c][slot].palette)
    BY <1>1, <2>1, <2>2, SetBlockPlaces DEF answer, c
  <2>4. /\ DOMAIN chunks' = DOMAIN loaded /\ chunks'[c] = changed
        /\ \A k \in DOMAIN loaded \ {c} : chunks'[k] = loaded[k]
        /\ DOMAIN placed' = DOMAIN placed \cup {p} /\ placed'[p] = block
        /\ \A q \in DOMAIN placed \ {p} : placed'[q] = placed[q]
        /\ refused' = refused
    BY <1>3, <1>5, <1>9, <2>1
  <2>5. TypeOK'
    <3>1. \A q \in DOMAIN placed' \cup refused' : q \in Positions /\ ChunkOf(q[1]) \in DOMAIN chunks'
      BY <1>3, <1>6, <2>4 DEF c
    <3>2. \A k \in DOMAIN chunks' : ColumnOK(chunks'[k])
      BY <1>3, <2>3, <2>4
    <3> QED
      BY <1>4, <1>5, <2>4, <3>1, <3>2 DEF IInv, TypeOK, ColumnOK
  <2>6. ReadsBack'
    <3>1. SUFFICES ASSUME NEW k \in DOMAIN chunks', NEW q \in PositionsOf(k)
                   PROVE  BlockAtIn(chunks'[k], LocalOf(q[1]), q[2]) = <<Expected(q)'>>
      BY DEF ReadsBack
    <3>2. k \in DOMAIN loaded /\ k \in Int
      BY <1>3, <2>4
    <3>3. ChunkOf(q[1]) = k
      BY <3>2, PositionsInside
    <3>4. CASE q = p
      BY <2>3, <2>4, <3>3, <3>4 DEF c, Expected
    <3>5. CASE q # p
      <4>1. Expected(q)' = Expected(q)
        BY <1>5, <2>4, <3>5 DEF Expected
      <4>2. BlockAtIn(loaded[k], LocalOf(q[1]), q[2]) = <<Expected(q)>>
        BY <1>3, <3>2
      <4>3. BlockAtIn(chunks'[k], LocalOf(q[1]), q[2]) = BlockAtIn(loaded[k], LocalOf(q[1]), q[2])
        BY <2>3, <2>4, <3>2, <3>5
      <4> QED
        BY <4>1, <4>2, <4>3
    <3> QED
      BY <3>4, <3>5
  <2>7. RefusedWhenFull'
    <3>1. SUFFICES ASSUME NEW q \in refused, NEW k \in Slots, SlotOf(SectionIndex(q[2])) = <<k>>
                   PROVE  Len(chunks'[ChunkOf(q[1])][k].palette) = MaxIndex + 1
      BY <2>4 DEF RefusedWhenFull, SlotOf
    <3>2. ChunkOf(q[1]) \in DOMAIN loaded /\ Len(loaded[ChunkOf(q[1])][k].palette) = MaxIndex + 1
      BY <1>3, <1>6, <1>7, <3>1 DEF IInv, RefusedWhenFull
    <3>3. CASE ChunkOf(q[1]) # c
      BY <2>4, <3>2, <3>3
    <3>4. CASE ChunkOf(q[1]) = c
      <4>1. Len(changed[k].palette) \in 1 .. MaxIndex + 1
        BY <2>3 DEF ColumnOK, WellFormed
      <4>2. Len(changed[k].palette) >= MaxIndex + 1
        BY <2>3, <3>2, <3>4
      <4> QED
        BY <2>4, <3>4, <4>1, <4>2, SizesAssumption
    <3> QED
      BY <3>3, <3>4
  <2> QED
    BY <2>5, <2>6, <2>7 DEF IInv
<1> QED
  BY <1>8, <1>9

LEMMA NextInv == IInv /\ [Next]_vars => IInv'
<1> SUFFICES ASSUME IInv, [Next]_vars PROVE IInv'
  OBVIOUS
<1>1. ASSUME NEW c \in Columns, Chunk(c) PROVE IInv'
  BY <1>1, ChunkStep
<1>2. ASSUME NEW c \in Columns, Unload(c) PROVE IInv'
  BY <1>2, UnloadStep
<1>3. ASSUME NEW p \in Positions, NEW block \in Blocks, SetBlock(p, block) PROVE IInv'
  BY <1>3, SetBlockStep
<1>4. CASE UNCHANGED vars
  BY <1>4 DEF vars, IInv, TypeOK, ReadsBack, Expected, RefusedWhenFull
<1> QED
  BY <1>1, <1>2, <1>3, <1>4 DEF Next

\* World::chunk, set_block, unload: the columns held are well formed, read back and
\* refuse only when full, after any calls; inductive, and behind the theorems below.
THEOREM WorldInvariant == Spec => []IInv
<1>1. Init => IInv
  BY InitInv
<1>2. IInv /\ [Next]_vars => IInv'
  BY NextInv
<1> QED
  BY <1>1, <1>2, PTL DEF Spec

(* Types, and well-formed sections, in every reachable state.              *)
THEOREM WorldTypeOK == Spec => []TypeOK
<1>1. IInv => TypeOK
  BY DEF IInv
<1> QED
  BY <1>1, WorldInvariant, PTL

(* chunk, block_at, set_block and unload, in any order: what is read at a  *)
(* position is what was last placed there, or what was generated.          *)
THEOREM WorldReadsBack == Spec => []ReadsBack
<1>1. IInv => ReadsBack
  BY DEF IInv
<1> QED
  BY <1>1, WorldInvariant, PTL

(* set_block refuses a position inside the world only for a full palette.  *)
THEOREM WorldRefusesWhenFull == Spec => []RefusedWhenFull
<1>1. IInv => RefusedWhenFull
  BY DEF IInv
<1> QED
  BY <1>1, WorldInvariant, PTL

(* column_packet: at every position of every column held, what the client  *)
(* reads out of the words it is sent is the block that is there.           *)
THEOREM WorldIsDrawn == Spec => []ClientDrawsWorld
<1>1. IInv => ClientDrawsWorld
  <2> SUFFICES ASSUME IInv, NEW c \in DOMAIN chunks, NEW p \in PositionsOf(c)
               PROVE  Drawn(ColumnPacket(chunks[c]), LocalOf(p[1]), p[2]) =
                        RuntimeId(BlockAtIn(chunks[c], LocalOf(p[1]), p[2])[1])
    BY DEF ClientDrawsWorld
  <2>1. ColumnOK(chunks[c]) /\ c \in Columns
    BY DEF IInv, TypeOK, ColumnOK
  <2>2. c \in Int
    BY <2>1, InputsAssumption, Horizontal DEF Columns
  <2> QED
    BY <2>1, <2>2, ColumnDraws
<1> QED
  BY <1>1, WorldInvariant, PTL
=============================================================================
