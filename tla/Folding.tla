------------------------------ MODULE Folding ------------------------------
(***************************************************************************)
(* A loop over a sequence, for any step: what it returns on a sequence one *)
(* longer, and that what holds at the start and is kept by every element   *)
(* holds at the end. The proofs about Session take one instance for each   *)
(* of its loops. Loop is FoldLeft of SequencesExt, spelled out: extending  *)
(* that module here would bring all of it in again with every instance.    *)
(***************************************************************************)
EXTENDS Integers, Sequences, Folds, WellFoundedInduction, TLAPS

CONSTANTS
  Op(_, _),         \* one step of the loop
  Holds(_, _, _)    \* of what is fixed, the accumulator and the steps done

LEMMA LeastNatural ==
  ASSUME NEW T, T \subseteq Nat, T # {}
  PROVE  \E x \in T : \A y \in T : x <= y
<1>1. IsWellFoundedOn(OpToRel(<, Nat), Nat)
  BY NatLessThanWellFounded
<1>2. PICK x \in T : \A y \in T : ~ (<<y, x>> \in OpToRel(<, Nat))
  BY <1>1, WFMin
<1>3. \A y \in T : ~ (y < x)
  BY <1>2 DEF OpToRel
<1> QED
  BY <1>3

\* Induction, for sets.
LEMMA UpTo ==
  ASSUME NEW n \in Nat, NEW T, 0 \in T, \A j \in 0 .. (n - 1) : j \in T => j + 1 \in T
  PROVE  \A j \in 0 .. n : j \in T
<1> DEFINE Missing == {j \in 0 .. n : j \notin T}
<1> SUFFICES ASSUME Missing # {} PROVE FALSE
  OBVIOUS
<1>1. PICK j \in Missing : \A k \in Missing : j <= k
  <2>1. Missing \subseteq Nat
    OBVIOUS
  <2> HIDE DEF Missing
  <2> QED
    BY <2>1, LeastNatural
<1>2. j # 0 /\ j \in 0 .. n /\ j \notin T
  OBVIOUS
<1>3. j - 1 \in 0 .. (n - 1) /\ j - 1 \notin Missing
  BY <1>1, <1>2
<1>4. j - 1 \in T
  BY <1>3
<1> QED
  BY <1>2, <1>3, <1>4

-----------------------------------------------------------------------------
Greatest(S) == CHOOSE x \in S : \A y \in S : x >= y

Loop(base, seq) ==
  MapThenFoldSet(LAMBDA x, y : Op(y, x), base, LAMBDA i : seq[i], LAMBDA S : Greatest(S), DOMAIN seq)

(* The function Loop is the last value of.                                  *)

Folds(iter, base, seq, n) ==
  iter = [s \in SUBSET (1 .. n) |->
            IF s = {} THEN base ELSE Op(iter[s \ {Greatest(s)}], seq[Greatest(s)])]

LEMMA GreatestIs ==
  ASSUME NEW n \in Nat, NEW s \in SUBSET (1 .. (n + 1)), n + 1 \in s
  PROVE  Greatest(s) = n + 1
<1>1. \A y \in s : n + 1 >= y
  OBVIOUS
<1>2. \A x \in s : (\A y \in s : x >= y) => x = n + 1
  OBVIOUS
<1> QED
  BY <1>1, <1>2 DEF Greatest

LEMMA GreatestIn ==
  ASSUME NEW n \in Nat, NEW s \in SUBSET (1 .. n), s # {}
  PROVE  Greatest(s) \in s
<1> DEFINE T == {m \in 0 .. n : \A y \in s : m >= y}
<1>1. n \in T
  OBVIOUS
<1>2. PICK m \in T : \A k \in T : m <= k
  <2>1. T \subseteq Nat
    OBVIOUS
  <2> HIDE DEF T
  <2> QED
    BY <1>1, <2>1, LeastNatural
<1>3. m \in s
  <2> SUFFICES ASSUME m \notin s PROVE FALSE
    OBVIOUS
  <2>1. m # 0
    <3>1. PICK y \in s : TRUE
      OBVIOUS
    <3>2. y >= 1 /\ m >= y
      OBVIOUS
    <3> QED
      BY <3>2
  <2>2. m - 1 \in T
    BY <2>1
  <2> QED
    BY <1>2, <2>2
<1>4. \E x \in s : \A y \in s : x >= y
  BY <1>3
<1> QED
  BY <1>4 DEF Greatest

LEMMA FoldsExists ==
  ASSUME NEW base, NEW seq, NEW n \in Nat
  PROVE  \E iter : Folds(iter, base, seq, n)
<1> DEFINE T == {k \in 0 .. n : \E iter : Folds(iter, base, seq, k)}
<1>1. 0 \in T
  <2> DEFINE iter == [s \in SUBSET (1 .. 0) |-> base]
  <2>1. \A s \in SUBSET (1 .. 0) : s = {}
    OBVIOUS
  <2>2. Folds(iter, base, seq, 0)
    BY <2>1 DEF Folds
  <2> QED
    BY <2>2
<1>2. ASSUME NEW k \in 0 .. (n - 1), k \in T PROVE k + 1 \in T
  <2>1. PICK g : Folds(g, base, seq, k)
    BY <1>2
  <2> DEFINE h == [s \in SUBSET (1 .. (k + 1)) |->
                     IF k + 1 \in s THEN Op(g[s \ {k + 1}], seq[k + 1]) ELSE g[s]]
             rest(s) == IF s = {} THEN base ELSE Op(h[s \ {Greatest(s)}], seq[Greatest(s)])
  <2>2. ASSUME NEW s \in SUBSET (1 .. (k + 1)) PROVE h[s] = rest(s)
    <3>1. CASE k + 1 \in s
      <4>1. Greatest(s) = k + 1
        BY <3>1, GreatestIs
      <4>2. s \ {k + 1} \in SUBSET (1 .. (k + 1)) /\ k + 1 \notin s \ {k + 1}
        OBVIOUS
      <4>3. h[s \ {k + 1}] = g[s \ {k + 1}]
        BY <4>2
      <4> QED
        BY <3>1, <4>1, <4>3
    <3>2. CASE k + 1 \notin s
      <4>1. s \in SUBSET (1 .. k)
        BY <3>2
      <4>2. h[s] = g[s]
        BY <3>2
      <4>3. g[s] = IF s = {} THEN base ELSE Op(g[s \ {Greatest(s)}], seq[Greatest(s)])
        BY <2>1, <4>1 DEF Folds
      <4>4. s # {} => h[s \ {Greatest(s)}] = g[s \ {Greatest(s)}]
        <5>1. s \ {Greatest(s)} \in SUBSET (1 .. (k + 1)) /\ k + 1 \notin s \ {Greatest(s)}
          BY <3>2
        <5> QED
          BY <5>1
      <4> QED
        BY <4>2, <4>3, <4>4
    <3> QED
      BY <3>1, <3>2
  <2>3. h = [s \in SUBSET (1 .. (k + 1)) |-> rest(s)]
    <3>1. h = [s \in SUBSET (1 .. (k + 1)) |-> h[s]]
      OBVIOUS
    <3> HIDE DEF h
    <3> QED
      BY <2>2, <3>1
  <2>4. Folds(h, base, seq, k + 1)
    <3> HIDE DEF h
    <3> QED
      BY <2>3 DEF Folds
  <2> QED
    BY <2>4
<1>3. \A k \in 0 .. n : k \in T
  <2> HIDE DEF T
  <2> QED
    BY <1>1, <1>2, UpTo
<1> QED
  BY <1>3

\* What the loop has after each element.
LEMMA Chain ==
  ASSUME NEW iter, NEW base, NEW seq, NEW n \in Nat, Folds(iter, base, seq, n)
  PROVE  /\ iter[1 .. 0] = base
         /\ \A j \in 1 .. n : iter[1 .. j] = Op(iter[1 .. (j - 1)], seq[j])
<1>1. iter[1 .. 0] = base
  <2>1. 1 .. 0 = {} /\ 1 .. 0 \in SUBSET (1 .. n)
    OBVIOUS
  <2> QED
    BY <2>1 DEF Folds
<1>2. ASSUME NEW j \in 1 .. n PROVE iter[1 .. j] = Op(iter[1 .. (j - 1)], seq[j])
  <2>1. 1 .. j \in SUBSET (1 .. n) /\ 1 .. j # {}
    OBVIOUS
  <2>2. Greatest(1 .. j) = j
    <3> DEFINE i == j - 1
    <3>1. i \in Nat /\ i + 1 = j
      OBVIOUS
    <3> HIDE DEF i
    <3>2. 1 .. j \in SUBSET (1 .. (i + 1)) /\ i + 1 \in 1 .. j
      BY <3>1
    <3>3. Greatest(1 .. j) = i + 1
      BY <3>1, <3>2, GreatestIs
    <3> QED
      BY <3>1, <3>3
  <2>3. (1 .. j) \ {j} = 1 .. (j - 1)
    OBVIOUS
  <2> QED
    BY <2>1, <2>2, <2>3 DEF Folds
<1> QED
  BY <1>1, <1>2

LEMMA FoldIs ==
  ASSUME NEW base, NEW S, NEW seq \in Seq(S)
  PROVE  \E iter : Folds(iter, base, seq, Len(seq)) /\ Loop(base, seq) = iter[1 .. Len(seq)]
<1> DEFINE Is(iter) ==
      iter = [s \in SUBSET (DOMAIN seq) |->
                IF s = {} THEN base ELSE Op(iter[s \ {Greatest(s)}], seq[Greatest(s)])]
<1>1. Loop(base, seq) = (CHOOSE iter : Is(iter))[DOMAIN seq]
  BY DEF Loop, MapThenFoldSet
<1>2. DOMAIN seq = 1 .. Len(seq) /\ Len(seq) \in Nat
  OBVIOUS
<1>3. \A iter : Is(iter) <=> Folds(iter, base, seq, Len(seq))
  BY <1>2 DEF Folds
<1>4. \E iter : Is(iter)
  <2> HIDE DEF Is
  <2> QED
    BY <1>2, <1>3, FoldsExists
<1> HIDE DEF Is
<1>5. Is(CHOOSE iter : Is(iter))
  BY <1>4
<1> QED
  BY <1>1, <1>2, <1>3, <1>5

-----------------------------------------------------------------------------
(* A loop over nothing has what it started with: a datagram that carries   *)
(* no frames leaves the session as it was.                                 *)
THEOREM FoldEmpty == \A base : Loop(base, <<>>) = base
<1> SUFFICES ASSUME NEW base PROVE Loop(base, <<>>) = base
  OBVIOUS
<1>1. <<>> \in Seq({}) /\ Len(<<>>) = 0
  OBVIOUS
<1>2. PICK iter : Folds(iter, base, <<>>, 0) /\ Loop(base, <<>>) = iter[1 .. 0]
  BY <1>1, FoldIs
<1> QED
  BY <1>2, Chain

(* One element more is one step more: how the loops of Session over the    *)
(* frames of a datagram, its payloads and its batches are taken apart.     *)
THEOREM FoldLast ==
  ASSUME NEW base, NEW S, NEW seq \in Seq(S), seq # <<>>
  PROVE  Loop(base, seq) = Op(Loop(base, SubSeq(seq, 1, Len(seq) - 1)), seq[Len(seq)])
<1> DEFINE n == Len(seq)
           front == SubSeq(seq, 1, n - 1)
<1>1. n \in Nat \ {0} /\ front \in Seq(S) /\ Len(front) = n - 1
      /\ \A j \in 1 .. (n - 1) : front[j] = seq[j]
  <2>1. n \in Nat /\ n # 0
    OBVIOUS
  <2> HIDE DEF n
  <2>2. \A j \in 1 .. (n - 1) : seq[j] \in S
    BY <2>1 DEF n
  <2>3. front \in Seq(S) /\ Len(front) = (IF 1 <= n - 1 THEN (n - 1) - 1 + 1 ELSE 0)
        /\ \A j \in 1 .. ((n - 1) - 1 + 1) : front[j] = seq[1 + j - 1]
    BY <2>1, <2>2
  <2> QED
    BY <2>1, <2>3
<1>2. PICK g : Folds(g, base, seq, n) /\ Loop(base, seq) = g[1 .. n]
  BY FoldIs
<1>3. PICK h : Folds(h, base, front, n - 1) /\ Loop(base, front) = h[1 .. (n - 1)]
  <2> HIDE DEF front
  <2> QED
    BY <1>1, FoldIs
<1> HIDE DEF n, front
<1> DEFINE T == {j \in 0 .. (n - 1) : g[1 .. j] = h[1 .. j]}
<1>4. 0 \in T
  BY <1>1, <1>2, <1>3, Chain
<1>5. ASSUME NEW j \in 0 .. ((n - 1) - 1), j \in T PROVE j + 1 \in T
  <2>1. j + 1 \in 1 .. n /\ j + 1 \in 1 .. (n - 1) /\ (j + 1) - 1 = j /\ n - 1 \in Nat /\ n \in Nat
    BY <1>1
  <2>2. g[1 .. (j + 1)] = Op(g[1 .. ((j + 1) - 1)], seq[j + 1])
    BY <1>2, <2>1, Chain
  <2>3. h[1 .. (j + 1)] = Op(h[1 .. ((j + 1) - 1)], front[j + 1])
    BY <1>3, <2>1, Chain
  <2> QED
    BY <1>1, <1>5, <2>1, <2>2, <2>3
<1>6. \A j \in 0 .. (n - 1) : j \in T
  <2>1. n - 1 \in Nat
    BY <1>1
  <2> HIDE DEF T
  <2> QED
    BY <1>4, <1>5, <2>1, UpTo
<1>7. g[1 .. n] = Op(g[1 .. (n - 1)], seq[n])
  BY <1>1, <1>2, Chain
<1>8. g[1 .. (n - 1)] = h[1 .. (n - 1)]
  BY <1>1, <1>6
<1> QED
  BY <1>2, <1>3, <1>7, <1>8 DEF n, front

(* A loop invariant: what holds of the accumulator at the start, and is    *)
(* kept by the step for every element, holds at the end.                   *)
THEOREM FoldKeeps ==
  ASSUME NEW fixed, NEW base, NEW S, NEW seq \in Seq(S),
         Holds(fixed, base, 0),
         \A k \in 0 .. (Len(seq) - 1) : \A acc :
           Holds(fixed, acc, k) => Holds(fixed, Op(acc, seq[k + 1]), k + 1)
  PROVE  Holds(fixed, Loop(base, seq), Len(seq))
<1>1. Len(seq) \in Nat
  OBVIOUS
<1>2. PICK iter : Folds(iter, base, seq, Len(seq)) /\ Loop(base, seq) = iter[1 .. Len(seq)]
  BY FoldIs
<1> DEFINE T == {j \in 0 .. Len(seq) : Holds(fixed, iter[1 .. j], j)}
<1>3. 0 \in T
  BY <1>1, <1>2, Chain
<1>4. ASSUME NEW j \in 0 .. (Len(seq) - 1), j \in T PROVE j + 1 \in T
  <2>1. j + 1 \in 1 .. Len(seq) /\ (j + 1) - 1 = j
    BY <1>1
  <2>2. iter[1 .. (j + 1)] = Op(iter[1 .. ((j + 1) - 1)], seq[j + 1])
    BY <1>1, <1>2, <2>1, Chain
  <2>3. Holds(fixed, Op(iter[1 .. j], seq[j + 1]), j + 1)
    BY <1>4
  <2> QED
    BY <1>1, <2>1, <2>2, <2>3
<1>5. \A j \in 0 .. Len(seq) : j \in T
  <2> HIDE DEF T
  <2> QED
    BY <1>1, <1>3, <1>4, UpTo
<1> QED
  BY <1>1, <1>2, <1>5
-----------------------------------------------------------------------------
(* A sequence defined by recursion, f[r + 1] out of f[r] and r + 1, is one: *)
(* its r-th value is what the loop has after 1, 2, ..., r.                  *)

IsSeries(f, base) == f = [r \in Nat |-> IF r = 0 THEN base ELSE Op(f[r - 1], r)]

LEMMA SeriesExists ==
  ASSUME NEW base
  PROVE  \E f : IsSeries(f, base)
<1> DEFINE upTo(r) == [i \in 1 .. r |-> i]
           f == [r \in Nat |-> Loop(base, upTo(r))]
<1>1. ASSUME NEW r \in Nat PROVE f[r] = IF r = 0 THEN base ELSE Op(f[r - 1], r)
  <2>1. f[r] = Loop(base, upTo(r))
    OBVIOUS
  <2>2. upTo(r) \in Seq(Nat) /\ Len(upTo(r)) = r
    OBVIOUS
  <2>3. CASE r = 0
    <3>1. upTo(r) = <<>>
      BY <2>3
    <3> QED
      BY <2>1, <2>3, <3>1, FoldEmpty
  <2>4. CASE r # 0
    <3> DEFINE seq == upTo(r)
    <3>1. seq \in Seq(Nat) /\ Len(seq) = r /\ seq # <<>> /\ seq[r] = r
      BY <2>2, <2>4
    <3>2. SubSeq(seq, 1, r - 1) = upTo(r - 1)
      <4>1. SubSeq(seq, 1, r - 1) \in Seq(Nat) /\ Len(SubSeq(seq, 1, r - 1)) = r - 1
            /\ \A i \in 1 .. (r - 1) : SubSeq(seq, 1, r - 1)[i] = i
        BY <2>4
      <4>2. upTo(r - 1) \in Seq(Nat) /\ Len(upTo(r - 1)) = r - 1
            /\ \A i \in 1 .. (r - 1) : upTo(r - 1)[i] = i
        BY <2>4
      <4> DEFINE a == SubSeq(seq, 1, r - 1)
                 b == upTo(r - 1)
      <4> HIDE DEF a, b, seq
      <4> QED
        BY <2>4, <4>1, <4>2 DEF a, b
    <3>3. f[r - 1] = Loop(base, upTo(r - 1))
      BY <2>4
    <3> HIDE DEF f, seq
    <3>4. Loop(base, seq) = Op(Loop(base, SubSeq(seq, 1, Len(seq) - 1)), seq[Len(seq)])
      BY <3>1, FoldLast
    <3> QED
      BY <2>1, <2>4, <3>1, <3>2, <3>3, <3>4 DEF seq
  <2> QED
    BY <2>3, <2>4
<1>2. f = [r \in Nat |-> f[r]]
  OBVIOUS
<1> HIDE DEF f
<1>3. IsSeries(f, base)
  BY <1>1, <1>2 DEF IsSeries
<1> QED
  BY <1>3

(* A recursive function of Nat takes the values its definition says, such  *)
(* as the least time LeastWait a datagram waits for its retries.           *)
THEOREM SeriesIs ==
  ASSUME NEW base, NEW f, f = CHOOSE g : IsSeries(g, base)
  PROVE  f[0] = base /\ \A r \in Nat : f[r + 1] = Op(f[r], r + 1)
<1>1. IsSeries(f, base)
  BY SeriesExists
<1>2. \A r \in Nat : f[r] = IF r = 0 THEN base ELSE Op(f[r - 1], r)
  BY <1>1 DEF IsSeries
<1>3. f[0] = base
  BY <1>2
<1>4. ASSUME NEW r \in Nat PROVE f[r + 1] = Op(f[r], r + 1)
  <2>1. r + 1 \in Nat /\ r + 1 # 0 /\ (r + 1) - 1 = r
    OBVIOUS
  <2> QED
    BY <1>2, <2>1
<1> QED
  BY <1>3, <1>4
-----------------------------------------------------------------------------
(* A function defined by recursion over a sequence, f[k] out of f[k - 1]   *)
(* and the k-th element: its last value is what the loop returns.          *)

IsUpTo(f, base, seq) ==
  f = [k \in 0 .. Len(seq) |-> IF k = 0 THEN base ELSE Op(f[k - 1], seq[k])]

LEMMA UpToExists ==
  ASSUME NEW base, NEW S, NEW seq \in Seq(S)
  PROVE  \E f : IsUpTo(f, base, seq)
<1> DEFINE n == Len(seq)
<1>1. n \in Nat
  OBVIOUS
<1>2. PICK iter : Folds(iter, base, seq, n)
  BY <1>1, FoldsExists
<1> DEFINE f == [k \in 0 .. n |-> iter[1 .. k]]
<1>3. ASSUME NEW k \in 0 .. n PROVE f[k] = IF k = 0 THEN base ELSE Op(f[k - 1], seq[k])
  <2>1. CASE k = 0
    BY <1>1, <1>2, <2>1, Chain
  <2>2. CASE k # 0
    <3>1. k \in 1 .. n /\ k - 1 \in 0 .. n
      BY <1>1, <2>2
    <3>2. iter[1 .. k] = Op(iter[1 .. (k - 1)], seq[k])
      BY <1>1, <1>2, <3>1, Chain
    <3> QED
      BY <2>2, <3>1, <3>2
  <2> QED
    BY <2>1, <2>2
<1>4. f = [k \in 0 .. n |-> f[k]]
  OBVIOUS
<1> HIDE DEF f, n
<1>5. f = [k \in 0 .. n |-> IF k = 0 THEN base ELSE Op(f[k - 1], seq[k])]
  BY <1>3, <1>4
<1> QED
  BY <1>5 DEF IsUpTo, n

(* How Concat, FromBig, FromVarint and Read become loops, and so have the  *)
(* loop's theorems.                                                        *)
THEOREM UpToIsLoop ==
  ASSUME NEW base, NEW S, NEW seq \in Seq(S), NEW f, IsUpTo(f, base, seq)
  PROVE  f[Len(seq)] = Loop(base, seq)
<1> DEFINE n == Len(seq)
<1>1. n \in Nat
  OBVIOUS
<1>2. PICK iter : Folds(iter, base, seq, n) /\ Loop(base, seq) = iter[1 .. n]
  BY FoldIs
<1> HIDE DEF n
<1>3. \A k \in 0 .. n : f[k] = IF k = 0 THEN base ELSE Op(f[k - 1], seq[k])
  BY DEF IsUpTo, n
<1> DEFINE T == {j \in 0 .. n : f[j] = iter[1 .. j]}
<1>4. 0 \in T
  BY <1>1, <1>2, <1>3, Chain
<1>5. ASSUME NEW j \in 0 .. (n - 1), j \in T PROVE j + 1 \in T
  <2>1. j + 1 \in 1 .. n /\ j + 1 \in 0 .. n /\ j + 1 # 0 /\ (j + 1) - 1 = j
    BY <1>1
  <2>2. iter[1 .. (j + 1)] = Op(iter[1 .. ((j + 1) - 1)], seq[j + 1])
    BY <1>1, <1>2, <2>1, Chain
  <2>3. f[j + 1] = Op(f[(j + 1) - 1], seq[j + 1])
    BY <1>3, <2>1
  <2> QED
    BY <1>5, <2>1, <2>2, <2>3
<1>6. \A j \in 0 .. n : j \in T
  <2> HIDE DEF T
  <2> QED
    BY <1>1, <1>4, <1>5, UpTo
<1>7. f[n] = iter[1 .. n]
  BY <1>1, <1>6
<1> QED
  BY <1>2, <1>7 DEF n
=============================================================================
