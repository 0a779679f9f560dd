-------------------------- MODULE BatchPathProofs --------------------------
(***************************************************************************)
(* Theorems about BatchPath, for every number of ranks, every cap and      *)
(* every configuration: the ranks meet in every collective, a step fails   *)
(* for no other reason than the four it names, the log-probabilities and   *)
(* the optimizer steps take every row exactly once, and padding is inert.  *)
(*                                                                         *)
(* The first sections are about the operators the model is built from:     *)
(* cutting rows into equal or nearly equal runs, the largest differencing  *)
(* method of SeqlenBalancing, and running micro-batches one by one.        *)
(***************************************************************************)
EXTENDS BatchPath, FiniteSetTheorems, FunctionTheorems, SequenceTheorems,
        WellFoundedInduction, TLAPS

(***************************************************************************)
(* Numbers                                                                 *)
(***************************************************************************)

\* Division with remainder.
LEMMA DivRem ==
  ASSUME NEW n \in Nat, NEW a \in Nat \ {0}
  PROVE  /\ n \div a \in Nat /\ n % a \in 0 .. a - 1
         /\ n = a * (n \div a) + (n % a)
OBVIOUS

\* Quotient and remainder are unique.
LEMMA DivUnique ==
  ASSUME NEW a \in Nat \ {0}, NEW q \in Nat, NEW r \in 0 .. a - 1
  PROVE  (a * q + r) \div a = q /\ (a * q + r) % a = r
OBVIOUS

\* A multiple is divided without a rest.
LEMMA DivMul ==
  ASSUME NEW a \in Nat \ {0}, NEW b \in Nat
  PROVE  (a * b) \div a = b /\ (a * b) % a = 0
OBVIOUS

\* Products grow with their factors.
LEMMA MulMono ==
  ASSUME NEW a \in Nat, NEW b \in Nat, NEW c \in Nat, a <= b
  PROVE  c * a <= c * b /\ a * c <= b * c
OBVIOUS

\* Products of naturals.
LEMMA MulNat ==
  ASSUME NEW a \in Nat, NEW b \in Nat
  PROVE  a * b \in Nat /\ a * b = b * a /\ (a + 1) * b = a * b + b
         /\ (a # 0 /\ b # 0 => a * b # 0)
OBVIOUS

\* Products of three naturals.
LEMMA MulAssoc ==
  ASSUME NEW a \in Nat, NEW b \in Nat, NEW c \in Nat
  PROVE  (a * b) * c = a * (b * c)
OBVIOUS

\* A non-empty set of naturals has a least member.
LEMMA Least ==
  ASSUME NEW S \in SUBSET Nat, S # {}
  PROVE  \E m \in S : \A j \in S : m <= j
<1>. DEFINE R == OpToRel(<, Nat)
<1>1. IsWellFoundedOn(R, Nat)
  BY NatLessThanWellFounded
<1>2. \A x, y \in Nat : <<x, y>> \in R <=> x < y
  BY DEF OpToRel
<1>. HIDE DEF R
<1>3. PICK m \in S : \A j \in S : ~(<<j, m>> \in R)
  BY <1>1, WFMin
<1>4. ASSUME NEW j \in S PROVE m <= j
  <2>1. m \in Nat /\ j \in Nat
    BY <1>3
  <2>2. ~(j < m)
    BY <1>2, <1>3, <2>1
  <2>. QED  BY <2>1, <2>2
<1>. QED  BY <1>3, <1>4

(***************************************************************************)
(* Runs of places, and cutting them                                        *)
(***************************************************************************)

\* The n numbers after a, one by one.
Run(a, n) == [q \in 1 .. n |-> a + q]

\* Sequences of numbers, none of them empty, that run through the numbers from a + 1 to b.
Chain(ms, a, b) ==
  /\ ms \in Seq(Seq(Nat)) /\ a \in Nat /\ b \in Nat
  /\ \A p \in DOMAIN ms : ms[p] # <<>> /\ ms[p] = Run(ms[p][1] - 1, Len(ms[p]))
  /\ \A p \in DOMAIN ms : p + 1 \in DOMAIN ms => ms[p + 1][1] = ms[p][1] + Len(ms[p])
  /\ IF ms = <<>> THEN a = b
     ELSE ms[1][1] = a + 1 /\ ms[Len(ms)][1] + Len(ms[Len(ms)]) = b + 1

\* A run is the sequence of its numbers.
LEMMA RunFacts ==
  ASSUME NEW a \in Nat, NEW n \in Nat
  PROVE  /\ Run(a, n) \in Seq(Nat) /\ Len(Run(a, n)) = n
         /\ \A q \in 1 .. n : Run(a, n)[q] = a + q
         /\ n # 0 <=> Run(a, n) # <<>>
BY DEF Run

\* A part of a run is a run.
LEMMA SubRun ==
  ASSUME NEW a \in Nat, NEW n \in Nat, NEW l \in 0 .. n, NEW h \in l .. n
  PROVE  SubSeq(Run(a, n), l + 1, h) = Run(a + l, h - l)
<1>1. SubSeq(Run(a, n), l + 1, h) = [i \in 1 .. h - l |-> Run(a, n)[i + l]]
  BY RunFacts
<1>2. \A i \in 1 .. h - l : Run(a, n)[i + l] = (a + l) + i
  BY RunFacts
<1>. QED  BY <1>1, <1>2 DEF Run

\* The same for the first numbers, by the length of the part.
LEMMA FirstRun ==
  ASSUME NEW n \in Nat
  PROVE  \A a, z \in Nat : a + z <= n => SubSeq(Run(0, n), a + 1, a + z) = Run(a, z)
<1>. SUFFICES ASSUME NEW a \in Nat, NEW z \in Nat, a + z <= n
              PROVE  SubSeq(Run(0, n), a + 1, a + z) = Run(a, z)
  OBVIOUS
<1>. DEFINE h == a + z
            o == 0
<1>1. /\ o \in Nat /\ o + a = a
      /\ a \in 0 .. n /\ h \in a .. n /\ h - a = z
  OBVIOUS
<1>. HIDE DEF h, o
<1>2. SubSeq(Run(o, n), a + 1, h) = Run(o + a, h - a)
  BY <1>1, SubRun, Zenon
<1>3. SubSeq(Run(o, n), a + 1, h) = Run(a, z)
  BY <1>1, <1>2, Zenon
<1>. QED  BY <1>3 DEF h, o

\* A run that is cut at the places f.
Cuts(f, c, n) == /\ f \in [0 .. c -> Nat] /\ f[0] = 0 /\ f[c] = n
                 /\ \A i \in 1 .. c : f[i - 1] < f[i] /\ f[i] <= n

\* ms is the run of n numbers after a, cut at f.
Sliced(ms, a, n, c, f) == ms = [i \in 1 .. c |-> SubSeq(Run(a, n), f[i - 1] + 1, f[i])]

\* The slices of a run at given ends are a chain of runs.
LEMMA SlicesChain ==
  ASSUME NEW a \in Nat, NEW n \in Nat, NEW c \in Nat \ {0}, NEW f, Cuts(f, c, n),
         NEW ms, Sliced(ms, a, n, c, f)
  PROVE  /\ Chain(ms, a, a + n) /\ ms # <<>> /\ Len(ms) = c
         /\ \A i \in 1 .. c : Len(ms[i]) = f[i] - f[i - 1]
<1>0. ms = [i \in 1 .. c |-> ms[i]]
  BY DEF Sliced
<1>1. /\ f[0] = 0 /\ f[c] = n
      /\ \A i \in 1 .. c : /\ f[i - 1] \in 0 .. n /\ f[i] \in f[i - 1] .. n /\ f[i] > f[i - 1]
                           /\ f[i] \in Nat
  <2>1. \A i \in 1 .. c : i - 1 \in 0 .. c /\ i \in 0 .. c
    OBVIOUS
  <2>2. f[0] = 0 /\ f[c] = n /\ \A i \in 0 .. c : f[i] \in Nat
    BY DEF Cuts
  <2>3. \A i \in 1 .. c : f[i - 1] < f[i] /\ f[i] <= n
    BY DEF Cuts
  <2>. QED  BY <2>1, <2>2, <2>3
<1>2. ASSUME NEW i \in 1 .. c
      PROVE  /\ ms[i] = Run(a + f[i - 1], f[i] - f[i - 1])
             /\ Len(ms[i]) = f[i] - f[i - 1]
             /\ ms[i] # <<>> /\ ms[i][1] = a + f[i - 1] + 1 /\ ms[i] \in Seq(Nat)
  <2>. DEFINE l == f[i - 1]
              h == f[i]
              d == h - l
  <2>1. l \in 0 .. n /\ h \in l .. n /\ d \in Nat \ {0} /\ a + l \in Nat
    BY <1>1
  <2>2. ms[i] = SubSeq(Run(a, n), l + 1, h)
    BY DEF Sliced
  <2>. HIDE DEF l, h
  <2>3. ms[i] = Run(a + l, d)
    BY <2>1, <2>2, SubRun
  <2>. HIDE DEF d
  <2>4. Len(ms[i]) = d /\ ms[i] # <<>> /\ ms[i][1] = (a + l) + 1 /\ ms[i] \in Seq(Nat)
    <3>1. 1 \in 1 .. d
      BY <2>1
    <3>. QED  BY <2>1, <2>3, <3>1, RunFacts
  <2>. QED  BY <2>3, <2>4 DEF l, h, d
<1>3. ms \in Seq(Seq(Nat)) /\ Len(ms) = c /\ DOMAIN ms = 1 .. c /\ ms # <<>>
  <2>1. \A i \in 1 .. c : ms[i] \in Seq(Nat)
    BY <1>2
  <2>. QED  BY <1>0, <2>1
<1>4. \A p \in DOMAIN ms : ms[p] # <<>> /\ ms[p] = Run(ms[p][1] - 1, Len(ms[p]))
  <2>. SUFFICES ASSUME NEW p \in 1 .. c
                PROVE  ms[p] # <<>> /\ ms[p] = Run(ms[p][1] - 1, Len(ms[p]))
    BY <1>3
  <2>1. f[p - 1] \in Nat
    BY <1>1
  <2>2. ms[p][1] = a + f[p - 1] + 1
    BY <1>2
  <2>3. ms[p][1] - 1 = a + f[p - 1]
    BY <2>1, <2>2
  <2>. QED  BY <1>2, <2>3
<1>5. \A p \in DOMAIN ms : p + 1 \in DOMAIN ms => ms[p + 1][1] = ms[p][1] + Len(ms[p])
  <2>. SUFFICES ASSUME NEW p \in 1 .. c, p + 1 \in 1 .. c
                PROVE  ms[p + 1][1] = ms[p][1] + Len(ms[p])
    BY <1>3
  <2>1. f[p] \in Nat /\ f[p - 1] \in Nat
    BY <1>1
  <2>2. ms[p + 1][1] = a + f[p] + 1
    <3>1. ms[p + 1][1] = a + f[(p + 1) - 1] + 1
      BY <1>2
    <3>2. (p + 1) - 1 = p
      OBVIOUS
    <3>. QED  BY <3>1, <3>2
  <2>3. ms[p][1] = a + f[p - 1] + 1 /\ Len(ms[p]) = f[p] - f[p - 1]
    BY <1>2
  <2>. QED  BY <2>1, <2>2, <2>3
<1>6. ms[1][1] = a + 1
  <2>1. 1 - 1 = 0 /\ 1 \in 1 .. c
    OBVIOUS
  <2>2. ms[1][1] = a + f[1 - 1] + 1
    BY <1>2, <2>1
  <2>. QED  BY <1>1, <2>1, <2>2
<1>7. ms[c][1] + Len(ms[c]) = (a + n) + 1
  <2>1. c \in 1 .. c
    OBVIOUS
  <2>2. f[c] = n /\ f[c - 1] \in Nat
    BY <1>1, <2>1
  <2>3. ms[c][1] = a + f[c - 1] + 1 /\ Len(ms[c]) = f[c] - f[c - 1]
    BY <1>2, <2>1
  <2>. QED  BY <2>2, <2>3
<1>8. \A i \in 1 .. c : Len(ms[i]) = f[i] - f[i - 1]
  BY <1>2
<1>9. Chain(ms, a, a + n)
  <2>. HIDE DEF Run
  <2>1. a + n \in Nat
    OBVIOUS
  <2>. QED  BY <1>3, <1>4, <1>5, <1>6, <1>7, <2>1 DEF Chain
<1>. QED  BY <1>3, <1>8, <1>9

\* Where slices of z numbers end.
Ends(z, c, n) == [i \in 0 .. c |-> IF i * z <= n THEN i * z ELSE n]

\* The ends of slices of a fixed size cut n rows.
LEMMA EndsFacts ==
  ASSUME NEW z \in Nat \ {0}, NEW c \in Nat \ {0}, NEW n \in Nat \ {0}, NEW m \in Nat, c = m + 1,
         m * z < n, n <= c * z
  PROVE  /\ Cuts(Ends(z, c, n), c, n)
         /\ \A i \in 1 .. c : Ends(z, c, n)[i - 1] = (i - 1) * z
         /\ n = c * z => \A i \in 0 .. c : Ends(z, c, n)[i] = i * z
<1>. DEFINE f == Ends(z, c, n)
<1>1. ASSUME NEW i \in 0 .. c
      PROVE  /\ i * z \in Nat /\ f[i] = IF i * z <= n THEN i * z ELSE n
             /\ i * z <= c * z
  BY MulNat, MulMono DEF Ends
<1>2. ASSUME NEW i \in 0 .. m PROVE f[i] = i * z /\ i * z \in Nat /\ i * z < n
  <2>1. i * z \in Nat /\ i * z <= m * z /\ m * z \in Nat /\ i \in 0 .. c
    BY MulNat, MulMono
  <2>2. f[i] = IF i * z <= n THEN i * z ELSE n
    BY <1>1, <2>1
  <2>. HIDE DEF f
  <2>. QED  BY <2>1, <2>2
<1>3. f[c] = n
  <2>1. c * z \in Nat /\ c \in 0 .. c
    BY MulNat
  <2>2. f[c] = IF c * z <= n THEN c * z ELSE n
    BY <1>1, <2>1
  <2>. HIDE DEF f
  <2>. QED  BY <2>1, <2>2
<1>4. f \in [0 .. c -> Nat]
  <2>1. f = [i \in 0 .. c |-> f[i]]
    BY DEF Ends
  <2>2. \A i \in 0 .. c : f[i] \in Nat
    <3>. HIDE DEF f
    <3>. QED  BY <1>1
  <2>. HIDE DEF f
  <2>. QED  BY <2>1, <2>2
<1>. HIDE DEF f
<1>5. f[0] = 0
  <2>1. 0 \in 0 .. m /\ 0 * z = 0
    OBVIOUS
  <2>. QED  BY <1>2, <2>1
<1>6. ASSUME NEW i \in 1 .. c PROVE f[i - 1] = (i - 1) * z /\ f[i - 1] < f[i] /\ f[i] <= n
  <2>1. i - 1 \in 0 .. m /\ i \in 0 .. c
    OBVIOUS
  <2>2. f[i - 1] = (i - 1) * z /\ (i - 1) * z \in Nat /\ (i - 1) * z < n
    BY <1>2, <2>1
  <2>3. CASE i = c
    BY <1>3, <2>2, <2>3
  <2>4. CASE i # c
    <3>1. i \in 0 .. m
      BY <2>4
    <3>2. f[i] = i * z /\ i * z < n /\ i * z \in Nat
      BY <1>2, <3>1
    <3>3. i * z = (i - 1) * z + z
      BY MulNat
    <3>. QED  BY <2>2, <3>2, <3>3
  <2>. QED  BY <2>3, <2>4
<1>7. ASSUME n = c * z, NEW i \in 0 .. c PROVE f[i] = i * z
  BY <1>1, <1>7
<1>8. Cuts(f, c, n)
  BY <1>3, <1>4, <1>5, <1>6 DEF Cuts
<1>. QED  BY <1>6, <1>7, <1>8 DEF f

\* CeilDiv rounds up.
LEMMA CeilDivFacts ==
  ASSUME NEW n \in Nat, NEW z \in Nat \ {0}
  PROVE  /\ CeilDiv(n, z) \in Nat
         /\ n # 0 => CeilDiv(n, z) # 0 /\ (CeilDiv(n, z) - 1) * z < n
         /\ n <= CeilDiv(n, z) * z
         /\ n % z = 0 => CeilDiv(n, z) = n \div z
         /\ n <= z /\ n # 0 => CeilDiv(n, z) = 1
<1>. DEFINE d == n + z - 1
            q == d \div z
            r == d % z
<1>1. d \in Nat /\ q \in Nat /\ r \in 0 .. z - 1 /\ d = z * q + r
  BY DivRem
<1>2. z * q \in Nat /\ z * q = q * z
  BY <1>1, MulNat
<1>3. n <= q * z
  BY <1>1, <1>2
<1>4. ASSUME n # 0 PROVE q # 0 /\ (q - 1) * z < n
  <2>1. q # 0
    BY <1>1, <1>4
  <2>2. (q - 1) * z = q * z - z
    BY <1>1
  <2>. QED  BY <1>1, <1>2, <2>1, <2>2
<1>5. ASSUME n % z = 0 PROVE q = n \div z
  <2>. DEFINE m == n \div z
  <2>1. m \in Nat /\ n = z * m
    BY <1>5, DivRem
  <2>. HIDE DEF m
  <2>2. z * m \in Nat
    BY <2>1, MulNat
  <2>3. z - 1 \in 0 .. z - 1 /\ d = z * m + (z - 1)
    BY <2>1, <2>2
  <2>4. q = m
    BY <2>1, <2>3, DivUnique
  <2>. QED  BY <2>4 DEF m
<1>6. ASSUME n <= z, n # 0 PROVE q = 1
  <2>1. n - 1 \in 0 .. z - 1 /\ d = z * 1 + (n - 1)
    BY <1>6
  <2>. QED  BY <2>1, DivUnique
<1>. QED  BY <1>1, <1>3, <1>4, <1>5, <1>6 DEF CeilDiv

\* Cuttable and Cut of a configuration whose rows are multi-modal, or not.
CuttableOf(mm, n, size) == mm => Chunkable(n, n \div size)
CutOf(mm, s, size)      == IF mm THEN Chunk(s, Len(s) \div size) ELSE Split(s, size)

\* How many pieces Cut makes of n rows, and how long the i-th of them is.
PieceCount(mm, n, size) == IF mm THEN n \div size ELSE CeilDiv(n, size)
PieceWidth(mm, n, size) == IF mm THEN n \div (n \div size) ELSE size
PieceEnds(mm, n, size)  == Ends(PieceWidth(mm, n, size), PieceCount(mm, n, size), n)

\* Pieces of the width and number Cut makes cover the rows.
LEMMA CountWidth ==
  ASSUME NEW mm, NEW n \in Nat \ {0}, NEW size \in Nat \ {0}, CuttableOf(mm, n, size)
  PROVE  LET c == PieceCount(mm, n, size)
             z == PieceWidth(mm, n, size)
         IN  /\ c \in Nat \ {0} /\ z \in Nat \ {0} /\ (c - 1) * z < n /\ n <= c * z
             /\ n % size = 0 => c = n \div size /\ z = size /\ n = c * z
             /\ mm => n = c * z
<1>1. CASE mm
  <2>. DEFINE c == n \div size
              z == n \div c
  <2>1. c \in Nat
    BY DivRem
  <2>. HIDE DEF c
  <2>2. c > 0 /\ n % c = 0
    BY <1>1 DEF CuttableOf, Chunkable, c
  <2>3. c \in Nat \ {0} /\ z \in Nat /\ n = c * z
    <3>1. c \in Nat \ {0} /\ n \in Nat
      BY <2>1, <2>2
    <3>2. n \div c \in Nat /\ n = c * (n \div c) + (n % c)
      BY <3>1, DivRem
    <3>3. c * (n \div c) \in Nat
      BY <3>1, <3>2, MulNat
    <3>. QED  BY <2>2, <3>1, <3>2, <3>3
  <2>. HIDE DEF z
  <2>4. z # 0
    BY <2>3
  <2>5. (c - 1) * z < n
    <3>1. (c - 1) * z = c * z - z /\ c * z \in Nat
      BY <2>3
    <3>. QED  BY <2>3, <2>4, <3>1
  <2>6. ASSUME n % size = 0 PROVE z = size
    <3>1. n = size * c
      BY <2>6, DivRem DEF c
    <3>2. size * c = c * size
      BY <2>1
    <3>3. z = size
      BY <2>3, <3>1, <3>2, DivMul DEF z
    <3>. QED  BY <3>3
  <2>7. PieceCount(mm, n, size) = c /\ PieceWidth(mm, n, size) = z
    BY <1>1 DEF PieceCount, PieceWidth, c, z
  <2>8. c * z \in Nat
    BY <2>3
  <2>. QED  BY <2>3, <2>4, <2>5, <2>6, <2>7, <2>8 DEF c
<1>2. CASE ~mm
  <2>. DEFINE c == CeilDiv(n, size)
  <2>1. c \in Nat \ {0} /\ (c - 1) * size < n /\ n <= c * size /\ (n % size = 0 => c = n \div size)
    BY CeilDivFacts
  <2>2. ASSUME n % size = 0 PROVE n = c * size
    <3>1. n = size * (n \div size)
      BY <2>2, DivRem
    <3>. QED  BY <2>1, <2>2, <3>1
  <2>3. PieceCount(mm, n, size) = c /\ PieceWidth(mm, n, size) = size
    BY <1>2 DEF PieceCount, PieceWidth
  <2>. QED  BY <1>2, <2>1, <2>2, <2>3
<1>. QED  BY <1>1, <1>2

\* ms are the pieces of the n numbers after a, c of them, cut at f; if the size divides n,
\* all are of that size.
CutInto(ms, a, n, size, c, f) ==
  /\ Chain(ms, a, a + n) /\ ms # <<>> /\ c \in Nat \ {0} /\ Len(ms) = c /\ Cuts(f, c, n)
  /\ \A i \in 1 .. c : ms[i] = Run(a + f[i - 1], f[i] - f[i - 1])
  /\ n % size = 0 => c = n \div size /\ n = c * size /\ \A i \in 0 .. c : f[i] = i * size

\* Cut makes a chain of runs, as many and as long as PieceCount and PieceEnds say.
LEMMA CutFacts ==
  ASSUME NEW mm, NEW a \in Nat, NEW n \in Nat \ {0}, NEW size \in Nat \ {0}, CuttableOf(mm, n, size)
  PROVE  CutInto(CutOf(mm, Run(a, n), size), a, n, size, PieceCount(mm, n, size),
                 PieceEnds(mm, n, size))
<1>. DEFINE ms == CutOf(mm, Run(a, n), size)
            c  == PieceCount(mm, n, size)
            z  == PieceWidth(mm, n, size)
            f  == PieceEnds(mm, n, size)
<1>1. /\ c \in Nat \ {0} /\ z \in Nat \ {0} /\ (c - 1) * z < n /\ n <= c * z
      /\ n % size = 0 => c = n \div size /\ z = size /\ n = c * z
      /\ mm => n = c * z
  BY CountWidth
<1>2. f = Ends(z, c, n)
  BY DEF PieceEnds
<1>3. mm => c = n \div size /\ z = n \div c
  BY DEF PieceCount, PieceWidth
<1>4. ~mm => c = CeilDiv(n, size) /\ z = size
  BY DEF PieceCount, PieceWidth
<1>. HIDE DEF c, z, f
<1>5. /\ Cuts(f, c, n) /\ \A i \in 1 .. c : f[i - 1] = (i - 1) * z
      /\ n = c * z => \A i \in 0 .. c : f[i] = i * z
  <2>. DEFINE m == c - 1
  <2>1. m \in Nat /\ c = m + 1 /\ m * z < n
    BY <1>1
  <2>. HIDE DEF m
  <2>. QED  BY <1>1, <1>2, <2>1, EndsFacts
<1>6. Len(Run(a, n)) = n
  BY RunFacts
<1>7. Sliced(ms, a, n, c, f)
  <2>1. CASE mm
    <3>1. ms = [i \in 1 .. c |-> SubSeq(Run(a, n), (i - 1) * z + 1, i * z)]
      BY <1>3, <1>6, <2>1 DEF CutOf, Chunk
    <3>2. \A i \in 1 .. c : f[i - 1] = (i - 1) * z /\ f[i] = i * z
      <4>1. \A i \in 1 .. c : i \in 0 .. c
        OBVIOUS
      <4>. QED  BY <1>1, <1>5, <2>1, <4>1
    <3>. QED  BY <3>1, <3>2 DEF Sliced
  <2>2. CASE ~mm
    <3>1. ms = [i \in 1 .. c |-> SubSeq(Run(a, n), (i - 1) * z + 1,
                                        IF i * z <= n THEN i * z ELSE n)]
      BY <1>4, <1>6, <2>2 DEF CutOf, Split
    <3>2. \A i \in 1 .. c : f[i] = IF i * z <= n THEN i * z ELSE n
      BY <1>1, <1>2 DEF Ends
    <3>3. \A i \in 1 .. c : f[i - 1] = (i - 1) * z
      BY <1>5
    <3>. QED  BY <3>1, <3>2, <3>3 DEF Sliced
  <2>. QED  BY <2>1, <2>2
<1>. HIDE DEF ms
<1>8. Chain(ms, a, a + n) /\ ms # <<>> /\ Len(ms) = c
  <2>1. Cuts(f, c, n) /\ c \in Nat \ {0} /\ n \in Nat
    BY <1>1, <1>5
  <2>. QED  BY <1>7, <2>1, SlicesChain
<1>9. ASSUME NEW i \in 1 .. c PROVE ms[i] = Run(a + f[i - 1], f[i] - f[i - 1])
  <2>1. ms[i] = SubSeq(Run(a, n), f[i - 1] + 1, f[i])
    BY <1>7 DEF Sliced
  <2>2. f[i - 1] \in 0 .. n /\ f[i] \in f[i - 1] .. n
    <3>1. i \in 0 .. c /\ i - 1 \in 0 .. c
      BY <1>1
    <3>. QED  BY <1>5, <3>1 DEF Cuts
  <2>. DEFINE l == f[i - 1]
              h == f[i]
  <2>3. a \in Nat /\ n \in Nat /\ l \in 0 .. n /\ h \in l .. n
    BY <2>2
  <2>. HIDE DEF l, h
  <2>4. SubSeq(Run(a, n), l + 1, h) = Run(a + l, h - l)
    BY <2>3, SubRun
  <2>. QED  BY <2>1, <2>4 DEF l, h
<1>10. n % size = 0 => c = n \div size /\ n = c * size /\ \A i \in 0 .. c : f[i] = i * size
  <2>. SUFFICES ASSUME n % size = 0
                PROVE  c = n \div size /\ n = c * size /\ \A i \in 0 .. c : f[i] = i * size
    OBVIOUS
  <2>1. n = c * z /\ z = size /\ c = n \div size
    BY <1>1
  <2>2. \A i \in 0 .. c : f[i] = i * z
    BY <1>5, <2>1
  <2>. QED  BY <2>1, <2>2
<1>11. CutInto(ms, a, n, size, c, f)
  BY <1>1, <1>5, <1>8, <1>9, <1>10 DEF CutInto
<1>. QED  BY <1>11 DEF ms, c, f

(***************************************************************************)
(* Joining parts                                                           *)
(***************************************************************************)

\* g joins the sequences of ss one after the other.
Flattens(g, ss) == g = [i \in 1 .. Len(ss) |-> IF i = 1 THEN ss[i] ELSE g[i - 1] \o ss[i]]

\* There is at most one such function.
LEMMA FlattensOnce ==
  ASSUME NEW ss, Len(ss) \in Nat, NEW g, Flattens(g, ss), NEW h, Flattens(h, ss)
  PROVE  \A i \in 1 .. Len(ss) : g[i] = h[i]
<1>. DEFINE n   == Len(ss)
            Bad == {i \in 1 .. n : g[i] # h[i]}
<1>1. \A i \in 1 .. n : /\ g[i] = IF i = 1 THEN ss[i] ELSE g[i - 1] \o ss[i]
                        /\ h[i] = IF i = 1 THEN ss[i] ELSE h[i - 1] \o ss[i]
  BY DEF Flattens
<1>2. SUFFICES ASSUME Bad # {} PROVE FALSE
  OBVIOUS
<1>3. PICK m \in Bad : \A j \in Bad : m <= j
  <2>1. Bad \in SUBSET Nat
    OBVIOUS
  <2>. HIDE DEF Bad
  <2>. QED  BY <1>2, <2>1, Least
<1>4. m # 1 /\ m \in 1 .. n
  BY <1>1, <1>3
<1>5. m - 1 \in 1 .. n /\ ~(m <= m - 1)
  BY <1>4
<1>6. g[m - 1] = h[m - 1]
  BY <1>3, <1>5
<1>. QED  BY <1>1, <1>3, <1>4, <1>6

\* FlattenSeq is its last value.
LEMMA FlattenIs ==
  ASSUME NEW ss, Len(ss) \in Nat \ {0}, NEW g, Flattens(g, ss)
  PROVE  FlattenSeq(ss) = g[Len(ss)]
<1>. DEFINE h == CHOOSE h : h = [i \in 1 .. Len(ss) |->
                                   IF i = 1 THEN ss[i] ELSE h[i - 1] \o ss[i]]
<1>1. Flattens(h, ss)
  BY DEF Flattens
<1>2. FlattenSeq(ss) = h[Len(ss)]
  BY DEF FlattenSeq
<1>. HIDE DEF h
<1>3. Len(ss) \in 1 .. Len(ss)
  OBVIOUS
<1>. QED  BY <1>1, <1>2, <1>3, FlattensOnce

\* g joins the n sequences ss of z members.
FlatOf(g, ss, n, z, T) ==
  /\ g \in Seq(T) /\ Len(g) = n * z
  /\ \A x \in 1 .. n * z : g[x] = ss[(x - 1) \div z + 1][((x - 1) % z) + 1]

\* Sequences of the same length, one behind the other.
LEMMA FlattenEqual ==
  ASSUME NEW T, NEW n \in Nat \ {0}, NEW z \in Nat \ {0}, NEW ss \in Seq(Seq(T)), Len(ss) = n,
         \A i \in 1 .. n : Len(ss[i]) = z
  PROVE  FlatOf(FlattenSeq(ss), ss, n, z, T)
<1>. DEFINE At1(x) == ss[(x - 1) \div z + 1][((x - 1) % z) + 1]
            g == [i \in 1 .. n |-> [x \in 1 .. i * z |-> At1(x)]]
<1>1. ASSUME NEW i \in 1 .. n, NEW x \in 1 .. i * z
      PROVE  /\ (x - 1) \div z + 1 \in 1 .. i /\ ((x - 1) % z) + 1 \in 1 .. z
             /\ (i - 1) * z < x => (x - 1) \div z + 1 = i /\ ((x - 1) % z) + 1 = x - (i - 1) * z
  <2>. DEFINE q == (x - 1) \div z
              r == (x - 1) % z
  <2>1. i * z \in Nat /\ (i - 1) * z \in Nat /\ i * z = (i - 1) * z + z
    BY MulNat
  <2>2. x - 1 \in Nat /\ x <= i * z /\ x \in Nat
    BY <2>1
  <2>3. q \in Nat /\ r \in 0 .. z - 1 /\ x - 1 = z * q + r
    BY <2>2, DivRem
  <2>4. q <= i - 1
    <3>1. SUFFICES ASSUME i <= q PROVE FALSE
      BY <2>3
    <3>. HIDE DEF q, r
    <3>2. z * i <= z * q
      BY <2>3, <3>1, MulMono
    <3>3. z * i = i * z /\ z * q \in Nat
      BY <2>3, MulNat
    <3>. DEFINE y == i * z
                w == z * q
    <3>4. y <= w /\ y \in Nat /\ w \in Nat /\ x - 1 = w + r /\ x <= y /\ x \in Nat /\ r \in Nat
      BY <2>1, <2>2, <2>3, <3>2, <3>3
    <3>. HIDE DEF y, w
    <3>. QED  BY <3>4
  <2>5. ASSUME (i - 1) * z < x PROVE q = i - 1 /\ r = (x - 1) - (i - 1) * z
    <3>. DEFINE d == (x - 1) - (i - 1) * z
    <3>1. d \in 0 .. z - 1 /\ i - 1 \in Nat
      BY <2>1, <2>2, <2>5
    <3>2. x - 1 = z * (i - 1) + d
      <4>1. z * (i - 1) = (i - 1) * z
        BY <3>1, MulNat
      <4>. QED  BY <2>1, <2>2, <4>1
    <3>. HIDE DEF d
    <3>3. (z * (i - 1) + d) \div z = i - 1 /\ (z * (i - 1) + d) % z = d
      BY <3>1, DivUnique
    <3>4. q = i - 1 /\ r = d
      BY <3>2, <3>3
    <3>. QED  BY <3>4 DEF d
  <2>. HIDE DEF q, r
  <2>6. r + 1 = x - (i - 1) * z <=> r = (x - 1) - (i - 1) * z
    <3>. DEFINE y == (i - 1) * z
    <3>1. y \in Nat /\ x \in Nat /\ r \in Int
      BY <2>1, <2>2, <2>3
    <3>. HIDE DEF y
    <3>2. r + 1 = x - y <=> r = (x - 1) - y
      BY <3>1
    <3>. QED  BY <3>2 DEF y
  <2>7. q + 1 \in 1 .. i /\ r + 1 \in 1 .. z
    BY <2>3, <2>4
  <2>. QED  BY <2>3, <2>5, <2>6, <2>7 DEF q, r
<1>2. ASSUME NEW i \in 1 .. n
      PROVE  g[i] \in Seq(T) /\ Len(g[i]) = i * z /\ \A x \in 1 .. i * z : g[i][x] = At1(x)
  <2>1. i * z \in Nat /\ g[i] = [x \in 1 .. i * z |-> At1(x)]
    BY MulNat
  <2>2. \A x \in 1 .. i * z : At1(x) \in T
    <3>. SUFFICES ASSUME NEW x \in 1 .. i * z PROVE At1(x) \in T
      OBVIOUS
    <3>1. (x - 1) \div z + 1 \in 1 .. n /\ ((x - 1) % z) + 1 \in 1 .. z
      <4>1. (x - 1) \div z + 1 \in 1 .. i /\ ((x - 1) % z) + 1 \in 1 .. z
        BY <1>1
      <4>. QED  BY <4>1
    <3>2. ss[(x - 1) \div z + 1] \in Seq(T) /\ Len(ss[(x - 1) \div z + 1]) = z
      BY <3>1
    <3>. QED  BY <3>1, <3>2
  <2>. HIDE DEF g, At1
  <2>. QED  BY <2>1, <2>2
<1>3. Flattens(g, ss)
  <2>1. ASSUME NEW i \in 1 .. n
        PROVE  g[i] = IF i = 1 THEN ss[i] ELSE g[i - 1] \o ss[i]
    <3>1. ss[i] \in Seq(T) /\ Len(ss[i]) = z
      OBVIOUS
    <3>2. g[i] \in Seq(T) /\ Len(g[i]) = i * z /\ \A x \in 1 .. i * z : g[i][x] = At1(x)
      BY <1>2
    <3>3. i * z \in Nat /\ (i - 1) * z \in Nat /\ i * z = (i - 1) * z + z
      BY MulNat
    <3>4. \A x \in 1 .. i * z : (i - 1) * z < x => At1(x) = ss[i][x - (i - 1) * z]
      BY <1>1
    <3>5. CASE i = 1
      <4>1. (i - 1) * z = 0 /\ i * z = z
        BY <3>5
      <4>. HIDE DEF g, At1
      <4>2. \A x \in 1 .. z : g[i][x] = ss[i][x]
        BY <3>2, <3>4, <4>1
      <4>3. g[i] = ss[i]
        BY <3>1, <3>2, <4>1, <4>2, SeqEqual
      <4>. QED  BY <3>5, <4>3
    <3>6. CASE i # 1
      <4>. DEFINE l == (i - 1) * z
                  u == g[i - 1] \o ss[i]
      <4>1. i - 1 \in 1 .. n
        BY <3>6
      <4>2. g[i - 1] \in Seq(T) /\ Len(g[i - 1]) = l /\ \A x \in 1 .. l : g[i - 1][x] = At1(x)
        BY <1>2, <4>1
      <4>. HIDE DEF g, At1
      <4>3. u \in Seq(T) /\ Len(u) = l + z
            /\ \A x \in 1 .. l + z : u[x] = IF x <= l THEN g[i - 1][x] ELSE ss[i][x - l]
        <5>1. /\ u \in Seq(T) /\ Len(u) = Len(g[i - 1]) + Len(ss[i])
              /\ \A x \in 1 .. Len(g[i - 1]) + Len(ss[i]) :
                   u[x] = IF x <= Len(g[i - 1]) THEN g[i - 1][x] ELSE ss[i][x - Len(g[i - 1])]
          <6>1. g[i - 1] \in Seq(T) /\ ss[i] \in Seq(T)
            BY <3>1, <4>2
          <6>. QED  BY <6>1, ConcatProperties
        <5>. QED  BY <3>1, <4>2, <5>1
      <4>4. l \in Nat /\ i * z = l + z
        BY <3>3
      <4>. HIDE DEF l, u
      <4>5. \A x \in 1 .. l + z : g[i][x] = u[x]
        <5>. SUFFICES ASSUME NEW x \in 1 .. l + z PROVE g[i][x] = u[x]
          OBVIOUS
        <5>1. g[i][x] = At1(x) /\ x \in 1 .. i * z
          BY <3>2, <4>4
        <5>2. CASE x <= l
          <6>1. x \in 1 .. l
            BY <4>4, <5>2
          <6>. QED  BY <4>2, <4>3, <5>1, <5>2, <6>1
        <5>3. CASE ~(x <= l)
          <6>1. (i - 1) * z < x
            BY <4>4, <5>3 DEF l
          <6>2. At1(x) = ss[i][x - l]
            BY <3>4, <5>1, <6>1 DEF l
          <6>. QED  BY <4>3, <5>1, <5>3, <6>2
        <5>. QED  BY <5>2, <5>3
      <4>6. g[i] = u
        BY <3>2, <4>3, <4>4, <4>5, SeqEqual
      <4>. QED  BY <3>6, <4>6 DEF u
    <3>. QED  BY <3>5, <3>6
  <2>2. g = [i \in 1 .. n |-> g[i]]
    OBVIOUS
  <2>. HIDE DEF g
  <2>. QED  BY <2>1, <2>2 DEF Flattens
<1>4. FlattenSeq(ss) = g[n]
  <2>. HIDE DEF g
  <2>. QED  BY <1>3, FlattenIs
<1>5. n \in 1 .. n
  OBVIOUS
<1>. HIDE DEF g
<1>6. FlatOf(g[n], ss, n, z, T)
  BY <1>2, <1>5 DEF FlatOf
<1>. QED  BY <1>4, <1>6, Zenon

(***************************************************************************)
(* Tokens                                                                  *)
(***************************************************************************)

\* The greatest member of a set is its Max.
LEMMA MaxIs ==
  ASSUME NEW S \in SUBSET Int, NEW m \in S, \A j \in S : j <= m
  PROVE  Max(S) = m
<1>1. \A x \in S : (\A y \in S : x >= y) => x = m
  <2>. SUFFICES ASSUME NEW x \in S, \A y \in S : x >= y PROVE x = m
    OBVIOUS
  <2>1. x \in Int /\ m \in Int /\ x >= m /\ x <= m
    OBVIOUS
  <2>. QED  BY <2>1
<1>2. \A y \in S : m >= y
  <2>. SUFFICES ASSUME NEW y \in S PROVE m >= y
    OBVIOUS
  <2>1. y \in Int /\ m \in Int /\ y <= m
    OBVIOUS
  <2>. QED  BY <2>1
<1>. QED  BY <1>1, <1>2 DEF Max

\* A part of 1 .. n has a greatest member.
LEMMA MaxIn ==
  ASSUME NEW n \in Nat, NEW s \in SUBSET (1 .. n), s # {}
  PROVE  Max(s) \in s /\ \A j \in s : j <= Max(s)
<1>. DEFINE T == {n - j : j \in s}
<1>1. T \in SUBSET Nat /\ T # {}
  <2>1. \A j \in s : j \in 1 .. n /\ n - j \in Nat
    OBVIOUS
  <2>. QED  BY <2>1
<1>2. PICK d \in T : \A e \in T : d <= e
  <2>. HIDE DEF T
  <2>. QED  BY <1>1, Least
<1>3. PICK m \in s : d = n - m
  BY <1>2
<1>4. \A j \in s : j <= m
  <2>. SUFFICES ASSUME NEW j \in s PROVE j <= m
    OBVIOUS
  <2>1. n - j \in T /\ j \in Int /\ m \in Int
    OBVIOUS
  <2>2. n - m <= n - j
    BY <1>2, <1>3, <2>1
  <2>. QED  BY <2>1, <2>2
<1>5. s \in SUBSET Int
  OBVIOUS
<1>. HIDE DEF T
<1>6. Max(s) = m
  BY <1>3, <1>4, <1>5, MaxIs
<1>. QED  BY <1>3, <1>4, <1>6

\* What FoldLeft computes to add the numbers w of the places D: a value for each of their sets.
Adds(g, w, D) == g = [s \in SUBSET D |-> IF s = {} THEN 0 ELSE g[s \ {Max(s)}] + w[Max(s)]]

\* Such a function for one more member.
LEMMA AddsFurther ==
  ASSUME NEW n \in Nat, NEW w, NEW g, Adds(g, w, 1 .. n)
  PROVE  \E h : Adds(h, w, 1 .. n + 1)
<1>. DEFINE D == 1 .. n + 1
            h == [s \in SUBSET D |-> IF n + 1 \in s THEN g[s \ {n + 1}] + w[n + 1] ELSE g[s]]
<1>1. \A s \in SUBSET (1 .. n) : g[s] = IF s = {} THEN 0 ELSE g[s \ {Max(s)}] + w[Max(s)]
  BY DEF Adds
<1>2. ASSUME NEW s \in SUBSET D
      PROVE  h[s] = IF s = {} THEN 0 ELSE h[s \ {Max(s)}] + w[Max(s)]
  <2>1. CASE n + 1 \in s
    <3>1. s \in SUBSET Int /\ (\A j \in s : j <= n + 1)
      OBVIOUS
    <3>2. Max(s) = n + 1
      BY <2>1, <3>1, MaxIs
    <3>3. s \ {n + 1} \in SUBSET D /\ n + 1 \notin s \ {n + 1} /\ s # {}
      BY <2>1
    <3>4. h[s \ {n + 1}] = g[s \ {n + 1}]
      BY <3>3
    <3>. QED  BY <2>1, <3>2, <3>3, <3>4
  <2>2. CASE n + 1 \notin s
    <3>1. s \in SUBSET (1 .. n) /\ h[s] = g[s]
      BY <2>2
    <3>2. ASSUME s # {} PROVE h[s \ {Max(s)}] = g[s \ {Max(s)}]
      <4>1. s \ {Max(s)} \in SUBSET D /\ n + 1 \notin s \ {Max(s)}
        BY <2>2
      <4>. QED  BY <4>1
    <3>. HIDE DEF h
    <3>. QED  BY <1>1, <3>1, <3>2
  <2>. QED  BY <2>1, <2>2
<1>3. h = [s \in SUBSET D |-> h[s]]
  OBVIOUS
<1>. HIDE DEF h
<1>4. Adds(h, w, D)
  BY <1>2, <1>3 DEF Adds
<1>. QED  BY <1>4

\* There is such a function for every size.
LEMMA AddsExists ==
  ASSUME NEW n \in Nat, NEW w
  PROVE  \E g : Adds(g, w, 1 .. n)
<1>. DEFINE Bad == {m \in Nat : ~\E g : Adds(g, w, 1 .. m)}
<1>1. SUFFICES ASSUME Bad # {} PROVE FALSE
  OBVIOUS
<1>2. PICK m \in Bad : \A j \in Bad : m <= j
  <2>1. Bad \in SUBSET Nat
    OBVIOUS
  <2>. HIDE DEF Bad
  <2>. QED  BY <1>1, <2>1, Least
<1>3. m # 0
  <2>. DEFINE g == [s \in SUBSET (1 .. 0) |-> 0]
  <2>1. 1 .. 0 = {} /\ \A s \in SUBSET (1 .. 0) : s = {}
    OBVIOUS
  <2>2. Adds(g, w, 1 .. 0)
    BY <2>1 DEF Adds
  <2>. HIDE DEF g
  <2>. QED  BY <1>2, <2>2
<1>4. m - 1 \in Nat /\ (m - 1) + 1 = m /\ ~(m <= m - 1)
  BY <1>2, <1>3
<1>5. PICK g : Adds(g, w, 1 .. (m - 1))
  BY <1>2, <1>4
<1>6. \E h : Adds(h, w, 1 .. m)
  <2>. DEFINE k == m - 1
  <2>1. k \in Nat /\ k + 1 = m /\ Adds(g, w, 1 .. k)
    BY <1>4, <1>5
  <2>. HIDE DEF k
  <2>. QED  BY <2>1, AddsFurther
<1>. QED  BY <1>2, <1>6

\* The sum of positive numbers.
LEMMA AddsPositive ==
  ASSUME NEW n \in Nat, NEW w, \A i \in 1 .. n : w[i] \in Nat \ {0},
         NEW g, Adds(g, w, 1 .. n)
  PROVE  g[1 .. n] \in Nat /\ (n # 0 <=> g[1 .. n] # 0)
<1>. DEFINE Good(i) == g[1 .. i] \in Nat /\ (i # 0 <=> g[1 .. i] # 0)
            Bad == {i \in 0 .. n : ~Good(i)}
<1>1. \A s \in SUBSET (1 .. n) : g[s] = IF s = {} THEN 0 ELSE g[s \ {Max(s)}] + w[Max(s)]
  BY DEF Adds
<1>2. Good(0)
  <2>1. 1 .. 0 = {} /\ {} \in SUBSET (1 .. n)
    OBVIOUS
  <2>2. g[{}] = 0
    BY <1>1, <2>1
  <2>. QED  BY <2>1, <2>2
<1>3. ASSUME NEW i \in 0 .. n, i # 0, Good(i - 1) PROVE Good(i)
  <2>1. 1 .. i \in SUBSET Int /\ i \in 1 .. i /\ (\A j \in 1 .. i : j <= i)
    BY <1>3
  <2>2. Max(1 .. i) = i
    BY <2>1, MaxIs
  <2>3. (1 .. i) \ {i} = 1 .. i - 1 /\ 1 .. i \in SUBSET (1 .. n) /\ 1 .. i # {} /\ i \in 1 .. n
    BY <1>3
  <2>4. g[1 .. i] = g[1 .. i - 1] + w[i]
    BY <1>1, <2>2, <2>3
  <2>5. w[i] \in Nat \ {0} /\ g[1 .. i - 1] \in Nat
    BY <1>3, <2>3
  <2>. QED  BY <1>3, <2>4, <2>5
<1>. HIDE DEF Good
<1>4. SUFFICES ASSUME Bad # {} PROVE FALSE
  BY DEF Good
<1>5. PICK m \in Bad : \A j \in Bad : m <= j
  <2>1. Bad \in SUBSET Nat
    OBVIOUS
  <2>. HIDE DEF Bad
  <2>. QED  BY <1>4, <2>1, Least
<1>6. m # 0 /\ m \in 0 .. n /\ m - 1 \in 0 .. n /\ ~(m <= m - 1)
  BY <1>2, <1>5
<1>7. Good(m - 1)
  BY <1>5, <1>6
<1>. QED  BY <1>3, <1>5, <1>6, <1>7

\* A sum of positive lengths is positive.
LEMMA SumPositive ==
  ASSUME NEW len \in Seq(Nat \ {0}), len # <<>>
  PROVE  FoldLeft(+, 0, len) \in Nat \ {0}
<1>. DEFINE D == DOMAIN len
            h == CHOOSE h : h = [s \in SUBSET D |->
                    IF s = {} THEN 0 ELSE LET x == Max(s) IN h[s \ {x}] + len[x]]
<1>1. D = 1 .. Len(len) /\ Len(len) \in Nat \ {0} /\ \A i \in 1 .. Len(len) : len[i] \in Nat \ {0}
  OBVIOUS
<1>2. FoldLeft(+, 0, len) = h[D]
  BY DEF FoldLeft, MapThenFoldSet
<1>3. \E g : Adds(g, len, D)
  BY <1>1, AddsExists
<1>4. Adds(h, len, D)
  <2>. HIDE DEF D
  <2>. QED  BY <1>3 DEF Adds
<1>. HIDE DEF h, D
<1>5. Adds(h, len, 1 .. Len(len)) /\ FoldLeft(+, 0, len) = h[1 .. Len(len)]
  BY <1>1, <1>2, <1>4
<1>. QED  BY <1>1, <1>5, AddsPositive

\* Rows have tokens, and no rows have none.
LEMMA TokensPositive ==
  ASSUME NEW n \in Nat, NEW len, \A i \in 1 .. n : len[i] \in Nat \ {0}, NEW rows \in Seq(1 .. n)
  PROVE  Tokens(len, rows) \in Nat /\ (rows # <<>> <=> Tokens(len, rows) # 0)
<1>. DEFINE D == DOMAIN rows
            w == [i \in D |-> len[rows[i]]]
            h == CHOOSE h : h = [s \in SUBSET D |->
                    IF s = {} THEN 0 ELSE LET x == Max(s) IN h[s \ {x}] + len[rows[x]]]
<1>1. /\ D = 1 .. Len(rows) /\ Len(rows) \in Nat /\ \A i \in 1 .. Len(rows) : w[i] \in Nat \ {0}
      /\ rows # <<>> <=> Len(rows) # 0
  OBVIOUS
<1>2. Tokens(len, rows) = h[D]
  BY DEF Tokens, FoldLeft, MapThenFoldSet
<1>3. PICK g : Adds(g, w, D)
  <2>. HIDE DEF w
  <2>. QED  BY <1>1, AddsExists
<1>4. g = [s \in SUBSET D |-> IF s = {} THEN 0 ELSE LET x == Max(s) IN g[s \ {x}] + len[rows[x]]]
  <2>1. \A s \in SUBSET D : s # {} => w[Max(s)] = len[rows[Max(s)]]
    BY <1>1, MaxIn
  <2>. HIDE DEF w
  <2>. QED  BY <1>3, <2>1 DEF Adds
<1>5. h = [s \in SUBSET D |-> IF s = {} THEN 0 ELSE LET x == Max(s) IN h[s \ {x}] + len[rows[x]]]
  <2>. HIDE DEF D
  <2>. QED  BY <1>4
<1>6. Adds(h, w, D)
  <2>1. \A s \in SUBSET D : s # {} => w[Max(s)] = len[rows[Max(s)]]
    BY <1>1, MaxIn
  <2>. HIDE DEF w, h
  <2>. QED  BY <1>5, <2>1 DEF Adds
<1>. HIDE DEF h, w, D
<1>7. Adds(h, w, 1 .. Len(rows)) /\ Tokens(len, rows) = h[1 .. Len(rows)]
  BY <1>1, <1>2, <1>6
<1>. QED  BY <1>1, <1>7, AddsPositive

\* U[j] is what stands in front of j, and j, in a total order of 1 .. n.
Orders(U, n) ==
  /\ U \in [1 .. n -> SUBSET (1 .. n)]
  /\ \A j \in 1 .. n : j \in U[j]
  /\ \A i, j \in 1 .. n : i \in U[j] \/ j \in U[i]
  /\ \A i, j \in 1 .. n : i \in U[j] /\ j \in U[i] => i = j
  /\ \A i, j, k \in 1 .. n : i \in U[j] /\ j \in U[k] => i \in U[k]

\* p is a permutation of 1 .. n.
Permutes(p, n) ==
  /\ p \in [1 .. n -> 1 .. n]
  /\ \A l, m \in 1 .. n : p[l] = p[m] => l = m
  /\ \A j \in 1 .. n : \E m \in 1 .. n : p[m] = j

\* Members of an order have different ranks, and each number is the rank of one.
LEMMA RanksPermute ==
  ASSUME NEW n \in Nat, NEW U, Orders(U, n),
         NEW p, p = [m \in 1 .. n |-> p[m]],
         \A m \in 1 .. n : (\E j \in 1 .. n : Cardinality(U[j]) = m) =>
                              p[m] \in 1 .. n /\ Cardinality(U[p[m]]) = m
  PROVE  /\ Permutes(p, n)
         /\ \A l, m \in 1 .. n : l < m => p[l] \in U[p[m]]
<1>. DEFINE D == 1 .. n
            r == [j \in D |-> Cardinality(U[j])]
<1>1. IsFiniteSet(D) /\ Cardinality(D) = n
  BY FS_Interval
<1>2. /\ \A j \in D : U[j] \in SUBSET D /\ j \in U[j]
      /\ \A i, j \in D : i \in U[j] \/ j \in U[i]
      /\ \A i, j \in D : i \in U[j] /\ j \in U[i] => i = j
      /\ \A i, j, k \in D : i \in U[j] /\ j \in U[k] => i \in U[k]
  BY DEF Orders
<1>15. \A x \in D : x \in Nat
  OBVIOUS
<1>. HIDE DEF D
<1>3. ASSUME NEW j \in D PROVE r[j] \in D /\ r[j] = Cardinality(U[j])
  <2>1. IsFiniteSet(U[j]) /\ Cardinality(U[j]) <= n
    BY <1>1, <1>2, FS_Subset
  <2>2. Cardinality(U[j]) \in Nat
    BY <2>1, FS_CardinalityType
  <2>3. Cardinality(U[j]) # 0
    BY <1>2, <2>1, FS_EmptySet
  <2>. QED  BY <2>1, <2>2, <2>3 DEF D
<1>4. ASSUME NEW i \in D, NEW j \in D, i \in U[j], i # j PROVE r[i] < r[j]
  <2>1. U[i] \in SUBSET U[j] /\ j \notin U[i] /\ j \in U[j]
    <3>1. \A k \in U[i] : k \in D /\ k \in U[j]
      BY <1>2, <1>4
    <3>. QED  BY <1>2, <1>4, <3>1
  <2>2. IsFiniteSet(U[j])
    BY <1>1, <1>2, FS_Subset
  <2>3. Cardinality(U[i]) <= Cardinality(U[j]) /\ Cardinality(U[i]) # Cardinality(U[j])
    BY <2>1, <2>2, FS_Subset
  <2>4. r[i] \in Nat /\ r[j] \in Nat
    BY <1>3, <1>15
  <2>. QED  BY <1>3, <2>3, <2>4
<1>5. \A i, j \in D : r[i] = r[j] => i = j
  <2>. SUFFICES ASSUME NEW i \in D, NEW j \in D, r[i] = r[j], i # j PROVE FALSE
    OBVIOUS
  <2>1. r[i] < r[j] \/ r[j] < r[i]
    BY <1>2, <1>4
  <2>2. r[i] \in Nat /\ r[j] \in Nat
    BY <1>3, <1>15
  <2>. QED  BY <2>1, <2>2
<1>6. r \in [D -> D]
  BY <1>3
<1>. HIDE DEF r
<1>7. r \in Injection(D, D)
  BY <1>5, <1>6 DEF Injection, IsInjective
<1>8. r \in Surjection(D, D)
  BY <1>1, <1>7, FS_Injection
<1>9. \A m \in D : \E j \in D : r[j] = m
  BY <1>8 DEF Surjection
<1>10. \A m \in D : p[m] \in D /\ r[p[m]] = m
  <2>. SUFFICES ASSUME NEW m \in D PROVE p[m] \in D /\ r[p[m]] = m
    OBVIOUS
  <2>2. \E j \in D : Cardinality(U[j]) = m
    BY <1>3, <1>9
  <2>3. p[m] \in D /\ Cardinality(U[p[m]]) = m
    BY <2>2 DEF D
  <2>. QED  BY <1>3, <2>3
<1>11. p \in [D -> D]
  <2>1. p = [m \in D |-> p[m]]
    BY DEF D
  <2>. QED  BY <1>10, <2>1
<1>12. \A l, m \in D : p[l] = p[m] => l = m
  BY <1>10
<1>13. \A j \in D : \E m \in D : p[m] = j
  <2>. SUFFICES ASSUME NEW j \in D PROVE \E m \in D : p[m] = j
    OBVIOUS
  <2>1. r[j] \in D /\ r[p[r[j]]] = r[j] /\ p[r[j]] \in D
    BY <1>3, <1>10
  <2>2. p[r[j]] = j
    BY <1>5, <2>1
  <2>. QED  BY <2>1, <2>2
<1>14. \A l, m \in D : l < m => p[l] \in U[p[m]]
  <2>. SUFFICES ASSUME NEW l \in D, NEW m \in D, l < m, p[l] \notin U[p[m]] PROVE FALSE
    OBVIOUS
  <2>1. p[l] \in D /\ p[m] \in D /\ r[p[l]] = l /\ r[p[m]] = m /\ l \in Nat /\ m \in Nat
    BY <1>10 DEF D
  <2>2. p[m] \in U[p[l]] /\ p[m] # p[l]
    BY <1>2, <2>1
  <2>3. r[p[m]] < r[p[l]]
    BY <1>4, <2>1, <2>2
  <2>. QED  BY <2>1, <2>3
<1>. QED  BY <1>11, <1>12, <1>13, <1>14 DEF D, Permutes

\* sorted() rearranges a list of numbers.
LEMMA SortedNumbers ==
  ASSUME NEW s \in Seq(Int)
  PROVE  \E p : Permutes(p, Len(s)) /\ Sorted(s, <) = [m \in 1 .. Len(s) |-> s[p[m]]]
<1>. DEFINE n == Len(s)
            U == [j \in 1 .. n |-> {i \in 1 .. n : s[i] < s[j] \/ (i <= j /\ ~(s[j] < s[i]))}]
            C(m) == CHOOSE j \in 1 .. n :
                      Cardinality({i \in 1 .. n : s[i] < s[j] \/ (i <= j /\ ~(s[j] < s[i]))}) = m
            p == [m \in 1 .. n |-> C(m)]
<1>1. n \in Nat /\ DOMAIN s = 1 .. n /\ \A i \in 1 .. n : s[i] \in Int /\ i \in Int
  OBVIOUS
<1>. HIDE DEF n
<1>2. Orders(U, n)
  <2>1. \A i, j \in 1 .. n : i \in U[j] <=> s[i] < s[j] \/ (i <= j /\ ~(s[j] < s[i]))
    OBVIOUS
  <2>2. U \in [1 .. n -> SUBSET (1 .. n)]
    OBVIOUS
  <2>. HIDE DEF U
  <2>3. \A j \in 1 .. n : j \in U[j]
    BY <1>1, <2>1
  <2>4. \A i, j \in 1 .. n : i \in U[j] \/ j \in U[i]
    BY <1>1, <2>1
  <2>5. \A i, j \in 1 .. n : i \in U[j] /\ j \in U[i] => i = j
    BY <1>1, <2>1
  <2>6. ASSUME NEW i \in 1 .. n, NEW j \in 1 .. n, NEW k \in 1 .. n, i \in U[j], j \in U[k]
        PROVE  i \in U[k]
    <3>1. s[i] \in Int /\ s[j] \in Int /\ s[k] \in Int /\ i \in Int /\ j \in Int /\ k \in Int
      BY <1>1
    <3>2. /\ s[i] < s[j] \/ (i <= j /\ ~(s[j] < s[i]))
          /\ s[j] < s[k] \/ (j <= k /\ ~(s[k] < s[j]))
      BY <2>1, <2>6
    <3>3. s[i] < s[k] \/ (i <= k /\ ~(s[k] < s[i]))
      BY <3>1, <3>2
    <3>. QED  BY <2>1, <3>3
  <2>. QED  BY <2>2, <2>3, <2>4, <2>5, <2>6 DEF Orders
<1>3. Sorted(s, <) = [m \in 1 .. n |-> s[p[m]]]
  <2>1. Sorted(s, <) = [m \in 1 .. n |-> s[C(m)]]
    BY <1>1 DEF Sorted
  <2>. HIDE DEF C
  <2>. QED  BY <2>1
<1>4. Permutes(p, n)
  <2>1. \A j \in 1 .. n : U[j] = {i \in 1 .. n : s[i] < s[j] \/ (i <= j /\ ~(s[j] < s[i]))}
    OBVIOUS
  <2>. HIDE DEF U
  <2>2. \A m \in 1 .. n : (\E j \in 1 .. n : Cardinality(U[j]) = m) =>
                             C(m) \in 1 .. n /\ Cardinality(U[C(m)]) = m
    <3>. SUFFICES ASSUME NEW m \in 1 .. n, NEW j \in 1 .. n, Cardinality(U[j]) = m
                  PROVE  C(m) \in 1 .. n /\ Cardinality(U[C(m)]) = m
      OBVIOUS
    <3>1. Cardinality({i \in 1 .. n : s[i] < s[j] \/ (i <= j /\ ~(s[j] < s[i]))}) = m
      BY <2>1
    <3>2. /\ C(m) \in 1 .. n
          /\ Cardinality({i \in 1 .. n : s[i] < s[C(m)] \/ (i <= C(m) /\ ~(s[C(m)] < s[i]))}) = m
      BY <3>1
    <3>. HIDE DEF C
    <3>. QED  BY <2>1, <3>2
  <2>. HIDE DEF C
  <2>3. \A m \in 1 .. n : p[m] = C(m)
    OBVIOUS
  <2>4. p = [m \in 1 .. n |-> p[m]]
    OBVIOUS
  <2>. HIDE DEF p
  <2>. QED  BY <1>1, <1>2, <2>2, <2>3, <2>4, RanksPermute
<1>. HIDE DEF p
<1>. QED  BY <1>3, <1>4 DEF n

(***************************************************************************)
(* The order of the largest differencing method                            *)
(***************************************************************************)

\* Lists that are empty or start differently, or a list and itself.
Comparable(s, t) == s = t \/ s = <<>> \/ t = <<>> \/ s[1] # t[1]

\* Such lists are compared by tokens, then by their numbers, then by the first one.
KeyGreater(len, s, t) ==
  \/ Tokens(len, s) > Tokens(len, t)
  \/ Tokens(len, s) = Tokens(len, t) /\ Len(s) > Len(t)
  \/ Tokens(len, s) = Tokens(len, t) /\ Len(s) = Len(t) /\ s # <<>> /\ s[1] > t[1]

\* Lists are compared by their tokens, length and first row.
LEMMA GreaterByKey ==
  ASSUME NEW n \in Nat, NEW len, \A i \in 1 .. n : len[i] \in Nat \ {0},
         NEW s \in Seq(1 .. n), NEW t \in Seq(1 .. n), Comparable(s, t)
  PROVE  Greater(len, s, t) <=> KeyGreater(len, s, t)
<1>. DEFINE u == Tokens(len, s)
            v == Tokens(len, t)
            a == <<u, Len(s)>>
            b == <<v, Len(t)>>
<1>1. u \in Nat /\ v \in Nat /\ (s # <<>> <=> u # 0) /\ (t # <<>> <=> v # 0)
  BY TokensPositive
<1>2. Greater(len, s, t) <=> IF a = b THEN ListGreater(s, t) ELSE ListGreater(a, b)
  BY DEF Greater
<1>3. KeyGreater(len, s, t) <=> \/ u > v
                                \/ u = v /\ Len(s) > Len(t)
                                \/ u = v /\ Len(s) = Len(t) /\ s # <<>> /\ s[1] > t[1]
  BY DEF KeyGreater
<1>. HIDE DEF u, v
<1>4. Len(s) \in Nat /\ Len(t) \in Nat /\ a = b <=> u = v /\ Len(s) = Len(t)
  OBVIOUS
<1>5. a # b => (ListGreater(a, b) <=> u > v \/ (u = v /\ Len(s) > Len(t)))
  <2>1. /\ DOMAIN a = {1, 2} /\ DOMAIN b = {1, 2}
        /\ a[1] = u /\ a[2] = Len(s) /\ b[1] = v /\ b[2] = Len(t)
    OBVIOUS
  <2>2. ListGreater(a, b) <=> \E e \in {1, 2} : /\ \A i \in 1 .. e - 1 : i \in {1, 2} /\ a[i] = b[i]
                                               /\ a[e] > b[e]
    BY <2>1 DEF ListGreater
  <2>3. 1 .. 1 - 1 = {} /\ 1 .. 2 - 1 = {1}
    OBVIOUS
  <2>. HIDE DEF a, b
  <2>4. ListGreater(a, b) <=> a[1] > b[1] \/ (a[1] = b[1] /\ a[2] > b[2])
    BY <2>2, <2>3
  <2>. QED  BY <2>1, <2>4
<1>6. ASSUME a = b PROVE ListGreater(s, t) <=> s # <<>> /\ s[1] > t[1]
  <2>1. Len(s) = Len(t) /\ (s = <<>> <=> t = <<>>)
        /\ DOMAIN s = 1 .. Len(s) /\ DOMAIN t = 1 .. Len(t)
    BY <1>6
  <2>2. CASE s = <<>>
    BY <2>1, <2>2 DEF ListGreater
  <2>3. CASE s # <<>> /\ s = t
    <3>1. \A m \in DOMAIN s : s[m] \in Nat
      OBVIOUS
    <3>2. \A m \in DOMAIN s : ~(s[m] > s[m])
      BY <3>1
    <3>3. ~ListGreater(s, s)
      BY <3>2 DEF ListGreater
    <3>4. 1 \in DOMAIN s
      BY <2>1, <2>3
    <3>. QED  BY <2>3, <3>2, <3>3, <3>4
  <2>4. CASE s # <<>> /\ s[1] # t[1]
    <3>1. 1 \in DOMAIN s /\ 1 \in DOMAIN t /\ 1 .. 1 - 1 = {}
      BY <2>1, <2>4
    <3>2. ASSUME NEW m \in DOMAIN s, \A i \in 1 .. m - 1 : i \in DOMAIN t /\ s[i] = t[i] PROVE m = 1
      <4>1. m \in Nat \ {0} /\ (m # 1 => 1 \in 1 .. m - 1)
        BY <2>1
      <4>. QED  BY <2>4, <3>2, <4>1
    <3>3. ListGreater(s, t) => s[1] > t[1]
      BY <3>1, <3>2 DEF ListGreater
    <3>4. s[1] > t[1] => ListGreater(s, t)
      BY <3>1 DEF ListGreater
    <3>. QED  BY <2>4, <3>3, <3>4
  <2>. QED  BY <2>1, <2>2, <2>3, <2>4 DEF Comparable
<1>. HIDE DEF a, b
<1>7. CASE a = b
  BY <1>1, <1>2, <1>3, <1>4, <1>6, <1>7
<1>8. CASE a # b
  BY <1>1, <1>2, <1>3, <1>4, <1>5, <1>8
<1>. QED  BY <1>7, <1>8

\* In a finite set some member comes before all others of a strict total order B.
LEMMA TopOf ==
  ASSUME NEW H, IsFiniteSet(H), H # {}, NEW B,
         \A x \in H : <<x, x>> \notin B,
         \A x, y \in H : x # y => <<x, y>> \in B \/ <<y, x>> \in B,
         \A x, y, z \in H : <<x, y>> \in B /\ <<y, z>> \in B => <<x, z>> \in B
  PROVE  \E x \in H : \A y \in H \ {x} : <<x, y>> \in B
<1>. DEFINE A(x) == {y \in H : <<y, x>> \in B}
            T == {Cardinality(A(x)) : x \in H}
<1>1. ASSUME NEW x \in H PROVE IsFiniteSet(A(x)) /\ Cardinality(A(x)) \in Nat
  BY FS_Subset, FS_CardinalityType
<1>2. T \in SUBSET Nat /\ T # {}
  <2>. HIDE DEF A
  <2>. QED  BY <1>1
<1>3. PICK c \in T : \A d \in T : c <= d
  <2>. HIDE DEF T
  <2>. QED  BY <1>2, Least
<1>4. PICK x \in H : c = Cardinality(A(x))
  OBVIOUS
<1>5. ASSUME NEW y \in H \ {x}, <<x, y>> \notin B PROVE FALSE
  <2>1. <<y, x>> \in B
    BY <1>5
  <2>2. A(y) \in SUBSET A(x) /\ y \in A(x) /\ y \notin A(y)
    BY <2>1
  <2>. HIDE DEF A
  <2>3. Cardinality(A(y)) <= Cardinality(A(x)) /\ Cardinality(A(y)) # Cardinality(A(x))
    BY <1>1, <2>2, FS_Subset
  <2>4. Cardinality(A(y)) \in T
    OBVIOUS
  <2>5. Cardinality(A(x)) <= Cardinality(A(y))
    BY <1>3, <1>4, <2>4
  <2>6. Cardinality(A(x)) \in Nat /\ Cardinality(A(y)) \in Nat
    BY <1>1
  <2>. QED  BY <2>3, <2>5, <2>6
<1>. QED  BY <1>5

\* Tokens, length and first row of a list.
Triple == [1 .. 3 -> Int]

\* The order of lists of three numbers, largest first.
Outranks(a, b) ==
  \/ a[1] > b[1]
  \/ a[1] = b[1] /\ a[2] > b[2]
  \/ a[1] = b[1] /\ a[2] = b[2] /\ a[3] > b[3]

\* The order of triples is strict and total.
LEMMA Ranking ==
  ASSUME NEW a \in Triple, NEW b \in Triple, NEW c \in Triple
  PROVE  /\ ~Outranks(a, a)
         /\ a # b => Outranks(a, b) \/ Outranks(b, a)
         /\ Outranks(a, b) /\ Outranks(b, c) => Outranks(a, c)
         /\ Outranks(a, c) => Outranks(a, b) \/ Outranks(b, c)
<1>1. /\ a[1] \in Int /\ a[2] \in Int /\ a[3] \in Int
      /\ b[1] \in Int /\ b[2] \in Int /\ b[3] \in Int
      /\ c[1] \in Int /\ c[2] \in Int /\ c[3] \in Int
  BY DEF Triple
<1>2. a # b => a[1] # b[1] \/ a[2] # b[2] \/ a[3] # b[3]
  <2>. SUFFICES ASSUME a # b, a[1] = b[1], a[2] = b[2], a[3] = b[3] PROVE FALSE
    OBVIOUS
  <2>1. \A i \in 1 .. 3 : a[i] = b[i]
    <3>1. \A i \in 1 .. 3 : i = 1 \/ i = 2 \/ i = 3
      OBVIOUS
    <3>. QED  BY <3>1
  <2>. QED  BY <2>1 DEF Triple
<1>3. ~Outranks(a, a)
  BY <1>1 DEF Outranks
<1>4. a # b => Outranks(a, b) \/ Outranks(b, a)
  BY <1>1, <1>2 DEF Outranks
<1>5. Outranks(a, b) /\ Outranks(b, c) => Outranks(a, c)
  BY <1>1 DEF Outranks
<1>6. Outranks(a, c) => Outranks(a, b) \/ Outranks(b, c)
  BY <1>1 DEF Outranks
<1>. QED  BY <1>3, <1>4, <1>5, <1>6

\* What Set.__lt__ compares two sets by, when they have nothing in common.
Key(len, s) == <<Tokens(len, s), Len(s), IF s = <<>> THEN 0 ELSE s[1]>>

\* Lists are compared by their keys.
LEMMA KeyRanks ==
  ASSUME NEW n \in Nat, NEW len, \A i \in 1 .. n : len[i] \in Nat \ {0},
         NEW s \in Seq(1 .. n), NEW t \in Seq(1 .. n)
  PROVE  /\ Key(len, s) \in Triple
         /\ KeyGreater(len, s, t) <=> Outranks(Key(len, s), Key(len, t))
         /\ s # <<>> /\ t # <<>> /\ s[1] # t[1] => Key(len, s) # Key(len, t)
<1>1. /\ Tokens(len, s) \in Nat /\ (s # <<>> <=> Tokens(len, s) # 0)
      /\ Tokens(len, t) \in Nat /\ (t # <<>> <=> Tokens(len, t) # 0)
  BY TokensPositive
<1>2. /\ Len(s) \in Nat /\ (s # <<>> => s[1] \in Nat)
      /\ Len(t) \in Nat /\ (t # <<>> => t[1] \in Nat)
      /\ s # <<>> => s[1] \in 1 .. n
      /\ t # <<>> => t[1] \in 1 .. n
  OBVIOUS
<1>3. ASSUME NEW u PROVE /\ Key(len, u)[1] = Tokens(len, u) /\ Key(len, u)[2] = Len(u)
                         /\ Key(len, u)[3] = IF u = <<>> THEN 0 ELSE u[1]
  BY DEF Key
<1>4. Key(len, s) \in Triple
  BY <1>1, <1>2 DEF Key, Triple
<1>5. KeyGreater(len, s, t) <=> Outranks(Key(len, s), Key(len, t))
  <2>1. Outranks(Key(len, s), Key(len, t)) <=>
          \/ Tokens(len, s) > Tokens(len, t)
          \/ Tokens(len, s) = Tokens(len, t) /\ Len(s) > Len(t)
          \/ /\ Tokens(len, s) = Tokens(len, t) /\ Len(s) = Len(t)
             /\ (IF s = <<>> THEN 0 ELSE s[1]) > (IF t = <<>> THEN 0 ELSE t[1])
    BY <1>3 DEF Outranks
  <2>2. CASE s = <<>>
    <3>1. t # <<>> => t[1] \in Nat
      BY <1>2
    <3>2. ~((IF s = <<>> THEN 0 ELSE s[1]) > (IF t = <<>> THEN 0 ELSE t[1]))
      BY <2>2, <3>1
    <3>. QED  BY <2>1, <2>2, <3>2 DEF KeyGreater
  <2>3. CASE s # <<>>
    <3>1. CASE t = <<>>
      <4>1. Tokens(len, s) # Tokens(len, t)
        BY <1>1, <2>3, <3>1
      <4>. QED  BY <2>1, <4>1 DEF KeyGreater
    <3>2. CASE t # <<>>
      BY <2>1, <2>3, <3>2 DEF KeyGreater
    <3>. QED  BY <3>1, <3>2
  <2>. QED  BY <2>2, <2>3
<1>6. s # <<>> /\ t # <<>> /\ s[1] # t[1] => Key(len, s) # Key(len, t)
  BY <1>3
<1>. QED  BY <1>4, <1>5, <1>6

\* Sets that have nothing in common, sorted as State.merge sorts them.
LEMMA KeysOrder ==
  ASSUME NEW n \in Nat, NEW g \in [1 .. n -> Triple],
         NEW U, U = [j \in 1 .. n |->
                       {i \in 1 .. n : Outranks(g[i], g[j]) \/ (i <= j /\ ~Outranks(g[j], g[i]))}]
  PROVE  Orders(U, n)
<1>0. \A i \in 1 .. n : g[i] \in Triple /\ i \in Int
  OBVIOUS
<1>1. ASSUME NEW i \in 1 .. n, NEW j \in 1 .. n
      PROVE  i \in U[j] <=> Outranks(g[i], g[j]) \/ (i <= j /\ ~Outranks(g[j], g[i]))
  <2>. DEFINE V == {k \in 1 .. n : Outranks(g[k], g[j]) \/ (k <= j /\ ~Outranks(g[j], g[k]))}
  <2>1. U[j] = V
    BY Zenon
  <2>2. i \in V <=> Outranks(g[i], g[j]) \/ (i <= j /\ ~Outranks(g[j], g[i]))
    BY Zenon
  <2>. QED  BY <2>1, <2>2
<1>2. U \in [1 .. n -> SUBSET (1 .. n)]
  OBVIOUS
<1>3. \A i \in 1 .. n : g[i] \in Triple /\ i \in Int
  OBVIOUS
<1>. HIDE DEF Triple
<1>4. \A j \in 1 .. n : j \in U[j]
  <2>. SUFFICES ASSUME NEW j \in 1 .. n PROVE j \in U[j]
    OBVIOUS
  <2>1. ~Outranks(g[j], g[j]) /\ j <= j
    BY <1>3, Ranking
  <2>. QED  BY <1>1, <2>1
<1>5. \A i, j \in 1 .. n : i \in U[j] \/ j \in U[i]
  <2>. SUFFICES ASSUME NEW i \in 1 .. n, NEW j \in 1 .. n PROVE i \in U[j] \/ j \in U[i]
    OBVIOUS
  <2>1. i <= j \/ j <= i
    BY <1>3
  <2>. QED  BY <1>1, <2>1
<1>6. \A i, j \in 1 .. n : i \in U[j] /\ j \in U[i] => i = j
  <2>. SUFFICES ASSUME NEW i \in 1 .. n, NEW j \in 1 .. n, i \in U[j], j \in U[i] PROVE i = j
    OBVIOUS
  <2>1. ~(Outranks(g[i], g[j]) /\ Outranks(g[j], g[i]))
    BY <1>3, Ranking
  <2>2. i <= j /\ j <= i
    BY <1>1, <2>1
  <2>. QED  BY <1>3, <2>2
<1>7. \A i, j, k \in 1 .. n : i \in U[j] /\ j \in U[k] => i \in U[k]
  <2>. SUFFICES ASSUME NEW i \in 1 .. n, NEW j \in 1 .. n, NEW k \in 1 .. n, i \in U[j], j \in U[k]
                PROVE  i \in U[k]
    OBVIOUS
  <2>1. /\ Outranks(g[i], g[j]) \/ (i <= j /\ ~Outranks(g[j], g[i]))
        /\ Outranks(g[j], g[k]) \/ (j <= k /\ ~Outranks(g[k], g[j]))
    BY <1>1
  <2>2. /\ Outranks(g[i], g[j]) => Outranks(g[i], g[k]) \/ Outranks(g[k], g[j])
        /\ Outranks(g[j], g[k]) => Outranks(g[j], g[i]) \/ Outranks(g[i], g[k])
        /\ Outranks(g[k], g[i]) => Outranks(g[k], g[j]) \/ Outranks(g[j], g[i])
        /\ ~(Outranks(g[i], g[j]) /\ Outranks(g[j], g[i]))
        /\ ~(Outranks(g[j], g[k]) /\ Outranks(g[k], g[j]))
    BY <1>3, Ranking
  <2>3. i <= j /\ j <= k => i <= k
    BY <1>3
  <2>4. Outranks(g[i], g[k]) \/ (i <= k /\ ~Outranks(g[k], g[i]))
    BY <2>1, <2>2, <2>3
  <2>. QED  BY <1>1, <2>4
<1>. QED  BY <1>2, <1>4, <1>5, <1>6, <1>7 DEF Orders

(***************************************************************************)
(* States of the method, and merging two of them                           *)
(***************************************************************************)

\* No number stands in two places of the lists x[1] .. x[k].
Once(x, k) ==
  \A i, j \in 1 .. k : \A l \in 1 .. Len(x[i]) : \A m \in 1 .. Len(x[j]) :
     x[i][l] = x[j][m] => i = j /\ l = m

\* k lists of numbers up to n, without a number twice.
Lists(x, k, n) == x \in [1 .. k -> Seq(1 .. n)] /\ Once(x, k)

\* Different lists of a state have comparable keys.
LEMMA ListKeys ==
  ASSUME NEW n \in Nat, NEW len, \A i \in 1 .. n : len[i] \in Nat \ {0},
         NEW k \in Nat, NEW w, Lists(w, k, n)
  PROVE  \A i, j \in 1 .. k :
            /\ Greater(len, w[i], w[j]) <=> Outranks(Key(len, w[i]), Key(len, w[j]))
            /\ Key(len, w[i]) \in Triple
<1>. SUFFICES ASSUME NEW i \in 1 .. k, NEW j \in 1 .. k
              PROVE  /\ Greater(len, w[i], w[j]) <=> Outranks(Key(len, w[i]), Key(len, w[j]))
                     /\ Key(len, w[i]) \in Triple
  OBVIOUS
<1>1. w[i] \in Seq(1 .. n) /\ w[j] \in Seq(1 .. n)
  BY DEF Lists
<1>2. Comparable(w[i], w[j])
  <2>. SUFFICES ASSUME i # j, w[i] # <<>>, w[j] # <<>>, w[i][1] = w[j][1] PROVE FALSE
    BY DEF Comparable
  <2>1. 1 \in 1 .. Len(w[i]) /\ 1 \in 1 .. Len(w[j])
    BY <1>1
  <2>. QED  BY <2>1 DEF Lists, Once
<1>. QED  BY <1>1, <1>2, GreaterByKey, KeyRanks

\* S is w from its greatest list to its least.
SortedBySize(S, len, w, k) ==
  S = [m \in 1 .. k |-> w[CHOOSE j \in 1 .. k : Cardinality(
         {i \in 1 .. k : Greater(len, w[i], w[j]) \/ (i <= j /\ ~Greater(len, w[j], w[i]))}) = m]]

\* S has the lists of w in another order, empty ones last.
Arranged(S, w, p, k) ==
  /\ Permutes(p, k)
  /\ S = [m \in 1 .. k |-> w[p[m]]]
  /\ \A l, m \in 1 .. k : l < m /\ w[p[m]] # <<>> => w[p[l]] # <<>>

\* sorted() of sets that have nothing in common: empty sets come last.
LEMMA SortedLists ==
  ASSUME NEW n \in Nat, NEW len, \A i \in 1 .. n : len[i] \in Nat \ {0},
         NEW k \in Nat, NEW w, Lists(w, k, n), NEW S, SortedBySize(S, len, w, k)
  PROVE  \E p : Arranged(S, w, p, k)
<1>. DEFINE C(m) == CHOOSE j \in 1 .. k : Cardinality(
                      {i \in 1 .. k : \/ Greater(len, w[i], w[j])
                                      \/ i <= j /\ ~Greater(len, w[j], w[i])}) = m
            p == [m \in 1 .. k |-> C(m)]
            g == [i \in 1 .. k |-> Key(len, w[i])]
            U == [j \in 1 .. k |->
                    {i \in 1 .. k : Outranks(g[i], g[j]) \/ (i <= j /\ ~Outranks(g[j], g[i]))}]
<1>1. \A i, j \in 1 .. k : Greater(len, w[i], w[j]) <=> Outranks(g[i], g[j])
  BY ListKeys
<1>2. g \in [1 .. k -> Triple]
  BY ListKeys
<1>3. \A i \in 1 .. k : g[i] = Key(len, w[i])
  OBVIOUS
<1>. HIDE DEF g
<1>4. Orders(U, k)
  BY <1>2, KeysOrder
<1>5. \A j \in 1 .. k : U[j] =
         {i \in 1 .. k : Greater(len, w[i], w[j]) \/ (i <= j /\ ~Greater(len, w[j], w[i]))}
  <2>. SUFFICES ASSUME NEW j \in 1 .. k
                PROVE  U[j] = {i \in 1 .. k : Greater(len, w[i], w[j])
                                               \/ (i <= j /\ ~Greater(len, w[j], w[i]))}
    OBVIOUS
  <2>1. U[j] = {i \in 1 .. k : Outranks(g[i], g[j]) \/ (i <= j /\ ~Outranks(g[j], g[i]))}
    OBVIOUS
  <2>. HIDE DEF U
  <2>. QED  BY <1>1, <2>1
<1>6. \A i, j \in 1 .. k : i \in U[j] <=> Outranks(g[i], g[j]) \/ (i <= j /\ ~Outranks(g[j], g[i]))
  OBVIOUS
<1>. HIDE DEF U
<1>7. \A m \in 1 .. k : (\E j \in 1 .. k : Cardinality(U[j]) = m) =>
                            C(m) \in 1 .. k /\ Cardinality(U[C(m)]) = m
  <2>. SUFFICES ASSUME NEW m \in 1 .. k, NEW j \in 1 .. k, Cardinality(U[j]) = m
                PROVE  C(m) \in 1 .. k /\ Cardinality(U[C(m)]) = m
    OBVIOUS
  <2>1. Cardinality({i \in 1 .. k : Greater(len, w[i], w[j])
                                     \/ (i <= j /\ ~Greater(len, w[j], w[i]))}) = m
    BY <1>5
  <2>2. /\ C(m) \in 1 .. k
        /\ Cardinality({i \in 1 .. k : Greater(len, w[i], w[C(m)])
                                        \/ (i <= C(m) /\ ~Greater(len, w[C(m)], w[i]))}) = m
    BY <2>1
  <2>. HIDE DEF C
  <2>. QED  BY <1>5, <2>2
<1>8. S = [m \in 1 .. k |-> w[C(m)]]
  BY DEF SortedBySize
<1>. HIDE DEF C
<1>9. S = [m \in 1 .. k |-> w[p[m]]]
  BY <1>8
<1>10. p = [m \in 1 .. k |-> p[m]] /\ \A m \in 1 .. k : p[m] = C(m)
  OBVIOUS
<1>. HIDE DEF p
<1>11. Permutes(p, k) /\ \A l, m \in 1 .. k : l < m => p[l] \in U[p[m]]
  BY <1>4, <1>7, <1>10, RanksPermute
<1>12. ASSUME NEW l \in 1 .. k, NEW m \in 1 .. k, l < m, w[p[m]] # <<>>, w[p[l]] = <<>>
       PROVE  FALSE
  <2>1. p[l] \in 1 .. k /\ p[m] \in 1 .. k /\ p[l] \in U[p[m]]
    BY <1>11, <1>12 DEF Permutes
  <2>2. w[p[l]] \in Seq(1 .. n) /\ w[p[m]] \in Seq(1 .. n)
    BY <2>1 DEF Lists
  <2>3. Tokens(len, w[p[l]]) = 0 /\ Tokens(len, w[p[m]]) \in Nat \ {0}
    BY <1>12, <2>2, TokensPositive
  <2>4. g[p[l]][1] = 0 /\ g[p[m]][1] \in Nat \ {0} /\ g[p[l]] \in Triple /\ g[p[m]] \in Triple
    BY <1>2, <1>3, <2>1, <2>3 DEF Key
  <2>5. Outranks(g[p[m]], g[p[l]]) /\ ~Outranks(g[p[l]], g[p[m]])
    BY <2>4 DEF Outranks
  <2>. QED  BY <1>6, <2>1, <2>5
<1>. QED  BY <1>9, <1>11, <1>12 DEF Arranged

\* One of the lists has q.
Held(x, k, q) == \E j \in 1 .. k : \E m \in 1 .. Len(x[j]) : x[j][m] = q

\* A state of the method: k sets, the largest first; as long as one of them is
\* empty none has more than one number.
IsState(x, k, n) ==
  /\ Lists(x, k, n)
  /\ x[1] # <<>>
  /\ \A i, j \in 1 .. k : i < j /\ x[j] # <<>> => x[i] # <<>>
  /\ (\A j \in 1 .. k : x[j] # <<>>) \/ (\A j \in 1 .. k : Len(x[j]) <= 1)

\* No number is in both.
Apart(x, y, k) == \A q : ~(Held(x, k, q) /\ Held(y, k, q))

\* The largest list with the smallest, and so on.
Joined(x, y, k) == [i \in 1 .. k |-> x[i] \o y[k + 1 - i]]

\* Position m of a joined list is a position of one of the two.
LEMMA ConcatPlaces ==
  ASSUME NEW n, NEW s \in Seq(1 .. n), NEW t \in Seq(1 .. n)
  PROVE  /\ s \o t \in Seq(1 .. n) /\ Len(s \o t) = Len(s) + Len(t)
         /\ \A m \in 1 .. Len(s) : (s \o t)[m] = s[m] /\ m \in 1 .. Len(s \o t)
         /\ \A m \in 1 .. Len(t) : (s \o t)[Len(s) + m] = t[m] /\ Len(s) + m \in 1 .. Len(s \o t)
         /\ \A m \in 1 .. Len(s \o t) : \/ m \in 1 .. Len(s) /\ (s \o t)[m] = s[m]
                                        \/ /\ m > Len(s) /\ m - Len(s) \in 1 .. Len(t)
                                           /\ (s \o t)[m] = t[m - Len(s)]
OBVIOUS

\* The element at a position of a joined list.
LEMMA ConcatPlace ==
  ASSUME NEW n, NEW s \in Seq(1 .. n), NEW t \in Seq(1 .. n), NEW m \in 1 .. Len(s \o t)
  PROVE  \/ m \in 1 .. Len(s) /\ (s \o t)[m] = s[m]
         \/ /\ m > Len(s) /\ m - Len(s) \in 1 .. Len(t)
            /\ (s \o t)[m] = t[m - Len(s)]
BY ConcatPlaces

\* Two states without a common row, joined, hold the rows of both.
LEMMA JoinedLists ==
  ASSUME NEW n \in Nat, NEW k \in Nat, NEW x, NEW y, Lists(x, k, n), Lists(y, k, n), Apart(x, y, k)
  PROVE  /\ Lists(Joined(x, y, k), k, n)
         /\ \A q : Held(Joined(x, y, k), k, q) <=> Held(x, k, q) \/ Held(y, k, q)
<1>. DEFINE w == Joined(x, y, k)
            b(i) == k + 1 - i
<1>1. \A i \in 1 .. k : b(i) \in 1 .. k /\ b(b(i)) = i
  OBVIOUS
<1>2. \A i \in 1 .. k : w[i] = x[i] \o y[b(i)]
  BY DEF Joined
<1>3. \A i \in 1 .. k : x[i] \in Seq(1 .. n) /\ y[b(i)] \in Seq(1 .. n) /\ y[i] \in Seq(1 .. n)
  BY <1>1 DEF Lists
<1>. HIDE DEF w, b
<1>4. w \in [1 .. k -> Seq(1 .. n)]
  <2>1. ASSUME NEW i \in 1 .. k PROVE w[i] \in Seq(1 .. n)
    <3>1. w[i] = x[i] \o y[b(i)] /\ x[i] \in Seq(1 .. n) /\ y[b(i)] \in Seq(1 .. n)
      BY <1>2, <1>3
    <3>. QED  BY <3>1
  <2>2. w = [i \in 1 .. k |-> w[i]]
    BY DEF w, Joined
  <2>. QED  BY <2>1, <2>2
<1>5. ASSUME NEW i \in 1 .. k, NEW m, m \in 1 .. Len(w[i])
      PROVE  \/ m \in 1 .. Len(x[i]) /\ w[i][m] = x[i][m]
             \/ /\ m \in Nat /\ m > Len(x[i]) /\ m - Len(x[i]) \in 1 .. Len(y[b(i)])
                /\ w[i][m] = y[b(i)][m - Len(x[i])]
  <2>1. w[i] = x[i] \o y[b(i)] /\ x[i] \in Seq(1 .. n) /\ y[b(i)] \in Seq(1 .. n)
    BY <1>2, <1>3
  <2>2. m \in 1 .. Len(x[i] \o y[b(i)])
    BY <1>5, <2>1
  <2>3. m \in Nat
    BY <2>1, <2>2
  <2>4. \/ m \in 1 .. Len(x[i]) /\ (x[i] \o y[b(i)])[m] = x[i][m]
        \/ /\ m > Len(x[i]) /\ m - Len(x[i]) \in 1 .. Len(y[b(i)])
           /\ (x[i] \o y[b(i)])[m] = y[b(i)][m - Len(x[i])]
    BY <2>1, <2>2, ConcatPlace
  <2>5. w[i][m] = (x[i] \o y[b(i)])[m]
    BY <2>1, Zenon
  <2>. QED  BY <2>3, <2>4, <2>5, Zenon
<1>6. ASSUME NEW q PROVE Held(w, k, q) <=> Held(x, k, q) \/ Held(y, k, q)
  <2>1. ASSUME Held(w, k, q) PROVE Held(x, k, q) \/ Held(y, k, q)
    <3>1. PICK i \in 1 .. k : \E m \in 1 .. Len(w[i]) : w[i][m] = q
      BY <2>1 DEF Held
    <3>0. PICK m \in 1 .. Len(w[i]) : w[i][m] = q
      BY <3>1
    <3>2. CASE m \in 1 .. Len(x[i]) /\ w[i][m] = x[i][m]
      <4>1. x[i][m] = q
        BY <3>0, <3>2, Zenon
      <4>. QED  BY <3>2, <4>1 DEF Held
    <3>3. CASE m - Len(x[i]) \in 1 .. Len(y[b(i)]) /\ w[i][m] = y[b(i)][m - Len(x[i])]
      <4>1. y[b(i)][m - Len(x[i])] = q /\ b(i) \in 1 .. k
        BY <1>1, <3>0, <3>3, Zenon
      <4>2. Held(y, k, q)
        BY <3>3, <4>1, Zenon DEF Held
      <4>. QED  BY <4>2, Zenon
    <3>. QED  BY <1>5, <3>0, <3>2, <3>3, Zenon
  <2>2. ASSUME Held(x, k, q) PROVE Held(w, k, q)
    <3>1. PICK i \in 1 .. k : \E m \in 1 .. Len(x[i]) : x[i][m] = q
      BY <2>2 DEF Held
    <3>0. PICK m \in 1 .. Len(x[i]) : x[i][m] = q
      BY <3>1
    <3>2. m \in 1 .. Len(w[i]) /\ w[i][m] = q
      <4>1. w[i] = x[i] \o y[b(i)] /\ x[i] \in Seq(1 .. n) /\ y[b(i)] \in Seq(1 .. n)
        BY <1>2, <1>3
      <4>2. (x[i] \o y[b(i)])[m] = x[i][m] /\ m \in 1 .. Len(x[i] \o y[b(i)])
        BY <3>0, <4>1, ConcatPlaces
      <4>. QED  BY <3>0, <4>1, <4>2
    <3>. QED  BY <3>2 DEF Held
  <2>3. ASSUME Held(y, k, q) PROVE Held(w, k, q)
    <3>1. PICK i \in 1 .. k : \E m \in 1 .. Len(y[i]) : y[i][m] = q
      BY <2>3 DEF Held
    <3>0. PICK m \in 1 .. Len(y[i]) : y[i][m] = q
      BY <3>1
    <3>2. b(i) \in 1 .. k /\ b(b(i)) = i
      BY <1>1
    <3>3. w[b(i)] = x[b(i)] \o y[i] /\ x[b(i)] \in Seq(1 .. n) /\ y[i] \in Seq(1 .. n)
      BY <1>2, <1>3, <3>2
    <3>4. Len(x[b(i)]) + m \in 1 .. Len(w[b(i)]) /\ w[b(i)][Len(x[b(i)]) + m] = q
      <4>1. /\ (x[b(i)] \o y[i])[Len(x[b(i)]) + m] = y[i][m]
            /\ Len(x[b(i)]) + m \in 1 .. Len(x[b(i)] \o y[i])
        BY <3>0, <3>3, ConcatPlaces
      <4>. QED  BY <3>0, <3>3, <4>1
    <3>. QED  BY <3>2, <3>4 DEF Held
  <2>. QED  BY <2>1, <2>2, <2>3
<1>7. Once(w, k)
  <2>. SUFFICES ASSUME NEW i \in 1 .. k, NEW j \in 1 .. k,
                       NEW l, l \in 1 .. Len(w[i]),
                       NEW m, m \in 1 .. Len(w[j]), w[i][l] = w[j][m]
                PROVE  i = j /\ l = m
    BY DEF Once
  <2>0. l \in Nat /\ m \in Nat /\ Once(x, k) /\ Once(y, k) /\ b(i) \in 1 .. k /\ b(j) \in 1 .. k
    BY <1>1 DEF Lists
  <2>1. CASE l \in 1 .. Len(x[i]) /\ w[i][l] = x[i][l]
    <3>1. CASE m \in 1 .. Len(x[j]) /\ w[j][m] = x[j][m]
      <4>1. x[i][l] = x[j][m]
        BY <2>1, <3>1
      <4>. QED  BY <2>0, <2>1, <3>1, <4>1 DEF Once
    <3>2. CASE m - Len(x[j]) \in 1 .. Len(y[b(j)]) /\ w[j][m] = y[b(j)][m - Len(x[j])]
      BY <2>0, <2>1, <3>2 DEF Apart, Held
    <3>. QED  BY <1>5, <3>1, <3>2
  <2>2. CASE l - Len(x[i]) \in 1 .. Len(y[b(i)]) /\ w[i][l] = y[b(i)][l - Len(x[i])]
    <3>1. CASE m \in 1 .. Len(x[j]) /\ w[j][m] = x[j][m]
      BY <2>0, <2>2, <3>1 DEF Apart, Held
    <3>2. CASE m - Len(x[j]) \in 1 .. Len(y[b(j)]) /\ w[j][m] = y[b(j)][m - Len(x[j])]
      <4>1. b(i) = b(j) /\ l - Len(x[i]) = m - Len(x[j])
        <5>1. y[b(i)][l - Len(x[i])] = y[b(j)][m - Len(x[j])]
          BY <2>2, <3>2
        <5>2. \A u \in 1 .. Len(y[b(i)]) : \A v \in 1 .. Len(y[b(j)]) :
                 y[b(i)][u] = y[b(j)][v] => b(i) = b(j) /\ u = v
          BY <2>0 DEF Once
        <5>. QED  BY <2>2, <3>2, <5>1, <5>2
      <4>2. i = j
        BY <1>1, <4>1
      <4>3. Len(x[i]) \in Nat
        BY <1>3
      <4>. QED  BY <2>0, <4>1, <4>2, <4>3
    <3>. QED  BY <1>5, <3>1, <3>2
  <2>. QED  BY <1>5, <2>1, <2>2
<1>. QED  BY <1>4, <1>6, <1>7 DEF Lists, w

\* Two states that share no number give a state that has the numbers of both.
LEMMA MergedState ==
  ASSUME NEW n \in Nat, NEW len, \A i \in 1 .. n : len[i] \in Nat \ {0},
         NEW k \in Nat \ {0}, NEW x, NEW y, IsState(x, k, n), IsState(y, k, n), Apart(x, y, k)
  PROVE  /\ IsState(Merged(len, x, y), k, n)
         /\ \A q : Held(Merged(len, x, y), k, q) <=> Held(x, k, q) \/ Held(y, k, q)
<1>. DEFINE w == Joined(x, y, k)
            z == Merged(len, x, y)
            b(i) == k + 1 - i
<1>1. Lists(x, k, n) /\ Lists(y, k, n) /\ Len(x) = k /\ DOMAIN x = 1 .. k
  BY DEF IsState, Lists
<1>2. Lists(w, k, n) /\ \A q : Held(w, k, q) <=> Held(x, k, q) \/ Held(y, k, q)
  BY <1>1, JoinedLists
<1>3. DOMAIN w = 1 .. k /\ \A i \in 1 .. k : w[i] = x[i] \o y[b(i)]
  BY DEF Joined
<1>4. SortedBySize(z, len, w, k)
  BY <1>1, <1>3 DEF Merged, Sorted, Joined, SortedBySize
<1>. HIDE DEF w, z, b
<1>05. PICK p : Arranged(z, w, p, k)
  <2>1. k \in Nat
    OBVIOUS
  <2>. QED  BY <1>2, <1>4, <2>1, SortedLists
<1>5. /\ Permutes(p, k)
      /\ z = [m \in 1 .. k |-> w[p[m]]]
      /\ \A l, m \in 1 .. k : l < m /\ w[p[m]] # <<>> => w[p[l]] # <<>>
  BY <1>05 DEF Arranged
<1>6. /\ \A m \in 1 .. k : z[m] = w[p[m]] /\ p[m] \in 1 .. k
      /\ \A l, m \in 1 .. k : p[l] = p[m] => l = m
      /\ \A j \in 1 .. k : \E m \in 1 .. k : p[m] = j
      /\ w \in [1 .. k -> Seq(1 .. n)] /\ Once(w, k)
  BY <1>2, <1>5 DEF Permutes, Lists
<1>7. Lists(z, k, n)
  <2>1. z \in [1 .. k -> Seq(1 .. n)]
    <3>1. z = [m \in 1 .. k |-> z[m]]
      BY <1>5
    <3>2. ASSUME NEW m \in 1 .. k PROVE z[m] \in Seq(1 .. n)
      <4>1. z[m] = w[p[m]] /\ p[m] \in 1 .. k
        BY <1>6
      <4>2. w[p[m]] \in Seq(1 .. n)
        BY <1>6, <4>1
      <4>. QED  BY <4>1, <4>2
    <3>. QED  BY <3>1, <3>2
  <2>2. Once(z, k)
    <3>. SUFFICES ASSUME NEW i \in 1 .. k, NEW j \in 1 .. k, NEW l, l \in 1 .. Len(z[i]),
                         NEW m, m \in 1 .. Len(z[j]), z[i][l] = z[j][m]
                  PROVE  i = j /\ l = m
      BY DEF Once
    <3>1. z[i] = w[p[i]] /\ z[j] = w[p[j]] /\ p[i] \in 1 .. k /\ p[j] \in 1 .. k
      BY <1>6
    <3>3. \A u \in 1 .. Len(w[p[i]]) : \A v \in 1 .. Len(w[p[j]]) :
             w[p[i]][u] = w[p[j]][v] => p[i] = p[j] /\ u = v
      BY <1>6, <3>1 DEF Once
    <3>2. p[i] = p[j] /\ l = m
      BY <3>1, <3>3
    <3>. QED  BY <1>6, <3>2
  <2>. QED  BY <2>1, <2>2 DEF Lists
<1>8. ASSUME NEW q PROVE Held(z, k, q) <=> Held(w, k, q)
  <2>1. ASSUME Held(z, k, q) PROVE Held(w, k, q)
    <3>1. PICK i \in 1 .. k : \E m \in 1 .. Len(z[i]) : z[i][m] = q
      BY <2>1 DEF Held
    <3>2. z[i] = w[p[i]] /\ p[i] \in 1 .. k
      BY <1>6
    <3>. QED  BY <3>1, <3>2 DEF Held
  <2>2. ASSUME Held(w, k, q) PROVE Held(z, k, q)
    <3>1. PICK i \in 1 .. k : \E m \in 1 .. Len(w[i]) : w[i][m] = q
      BY <2>2 DEF Held
    <3>2. PICK j \in 1 .. k : p[j] = i
      BY <1>6
    <3>3. z[j] = w[i]
      BY <1>6, <3>2
    <3>. QED  BY <3>1, <3>3 DEF Held
  <2>. QED  BY <2>1, <2>2
<1>9. \A i \in 1 .. k : b(i) \in 1 .. k /\ \A j \in 1 .. k : i < j => b(j) < b(i)
  BY DEF b
<1>10. \A i \in 1 .. k : /\ x[i] \in Seq(1 .. n) /\ y[b(i)] \in Seq(1 .. n)
                         /\ w[i] = <<>> <=> x[i] = <<>> /\ y[b(i)] = <<>>
                         /\ Len(w[i]) = Len(x[i]) + Len(y[b(i)])
                         /\ Len(x[i]) \in Nat /\ Len(y[b(i)]) \in Nat
  <2>. SUFFICES ASSUME NEW i \in 1 .. k
                PROVE  /\ x[i] \in Seq(1 .. n) /\ y[b(i)] \in Seq(1 .. n)
                       /\ w[i] = <<>> <=> x[i] = <<>> /\ y[b(i)] = <<>>
                       /\ Len(w[i]) = Len(x[i]) + Len(y[b(i)])
                       /\ Len(x[i]) \in Nat /\ Len(y[b(i)]) \in Nat
    OBVIOUS
  <2>1. x[i] \in Seq(1 .. n) /\ y[b(i)] \in Seq(1 .. n)
    BY <1>1, <1>9 DEF Lists
  <2>2. w[i] = x[i] \o y[b(i)]
    BY <1>3
  <2>. HIDE DEF b
  <2>. QED  BY <2>1, <2>2
<1>11. z[1] # <<>>
  <2>1. 1 \in 1 .. k /\ x[1] # <<>>
    BY DEF IsState
  <2>2. w[1] # <<>>
    BY <1>10, <2>1
  <2>3. PICK m \in 1 .. k : p[m] = 1
    BY <1>6, <2>1
  <2>4. m = 1 \/ 1 < m
    BY <2>3
  <2>. QED  BY <1>5, <1>6, <2>1, <2>2, <2>3, <2>4
<1>12. \A i, j \in 1 .. k : i < j /\ z[j] # <<>> => z[i] # <<>>
  BY <1>5, <1>6
<1>13. (\A j \in 1 .. k : w[j] # <<>>) \/ (\A j \in 1 .. k : Len(w[j]) <= 1)
  <2>. SUFFICES ASSUME NEW i \in 1 .. k, w[i] = <<>>, NEW j \in 1 .. k
                PROVE  Len(w[j]) <= 1
    OBVIOUS
  <2>1. x[i] = <<>> /\ y[b(i)] = <<>> /\ b(i) \in 1 .. k /\ b(j) \in 1 .. k
    BY <1>9, <1>10
  <2>2. Len(x[j]) <= 1 /\ Len(y[b(j)]) <= 1
    BY <2>1 DEF IsState
  <2>3. ASSUME x[j] # <<>>, y[b(j)] # <<>> PROVE FALSE
    <3>1. ~(i < j)
      BY <2>1, <2>3 DEF IsState
    <3>2. ~(b(i) < b(j))
      BY <2>1, <2>3 DEF IsState
    <3>3. ~(j < i)
      BY <1>9, <3>2
    <3>4. i = j
      BY <3>1, <3>3
    <3>. QED  BY <2>1, <2>3, <3>4
  <2>4. x[j] = <<>> => Len(x[j]) = 0
    OBVIOUS
  <2>5. y[b(j)] = <<>> => Len(y[b(j)]) = 0
    OBVIOUS
  <2>6. /\ Len(w[j]) = Len(x[j]) + Len(y[b(j)])
        /\ Len(x[j]) \in Nat /\ Len(y[b(j)]) \in Nat
    BY <1>10
  <2>7. x[j] = <<>> \/ y[b(j)] = <<>>
    BY <2>3
  <2>. DEFINE lx == Len(x[j])
              ly == Len(y[b(j)])
  <2>8. (lx = 0 \/ ly = 0) /\ lx <= 1 /\ ly <= 1 /\ lx \in Nat /\ ly \in Nat
    BY <2>2, <2>4, <2>5, <2>6, <2>7
  <2>9. Len(w[j]) = lx + ly
    BY <2>6
  <2>. HIDE DEF lx, ly
  <2>. QED  BY <2>8, <2>9
<1>14. (\A j \in 1 .. k : z[j] # <<>>) \/ (\A j \in 1 .. k : Len(z[j]) <= 1)
  <2>1. \A j \in 1 .. k : z[j] = w[p[j]] /\ p[j] \in 1 .. k
    BY <1>6
  <2>. HIDE DEF w, z
  <2>. QED  BY <1>13, <2>1
<1>15. IsState(z, k, n)
  BY <1>7, <1>11, <1>12, <1>14 DEF IsState
<1>. QED  BY <1>2, <1>8, <1>15 DEF z

\* States without a common number.
GoodHeap(h, k, n) ==
  /\ IsFiniteSet(h)
  /\ \A x \in h : IsState(x, k, n)
  /\ \A x, y \in h : x # y => Apart(x, y, k)

\* The order of the heap.
Tops(len, x, y) ==
  \/ Spread(len, x) > Spread(len, y)
  \/ Spread(len, x) = Spread(len, y) /\ Outranks(Key(len, x[1]), Key(len, y[1]))

\* The first list of a state is not empty.
LEMMA StateKeys ==
  ASSUME NEW n \in Nat, NEW len, \A i \in 1 .. n : len[i] \in Nat \ {0},
         NEW k \in Nat \ {0}, NEW x, IsState(x, k, n)
  PROVE  /\ x[1] \in Seq(1 .. n) /\ x[1] # <<>> /\ Head(x) = x[1]
         /\ Spread(len, x) \in Int /\ Key(len, x[1]) \in Triple
         /\ Held(x, k, x[1][1])
<1>1. x \in [1 .. k -> Seq(1 .. n)] /\ x[1] # <<>> /\ 1 \in 1 .. k /\ k \in 1 .. k
  BY DEF IsState, Lists
<1>2. x[1] \in Seq(1 .. n) /\ x[k] \in Seq(1 .. n)
  BY <1>1
<1>3. Len(x) = k /\ Head(x) = x[1] /\ Last(x) = x[k]
  BY <1>1 DEF Last
<1>4. Tokens(len, x[1]) \in Nat /\ Tokens(len, x[k]) \in Nat
  BY <1>2, TokensPositive
<1>5. Spread(len, x) \in Int
  BY <1>3, <1>4 DEF Spread
<1>6. Key(len, x[1]) \in Triple
  BY <1>2, KeyRanks
<1>7. 1 \in 1 .. Len(x[1])
  BY <1>1, <1>2
<1>8. Held(x, k, x[1][1])
  BY <1>1, <1>7 DEF Held
<1>. QED  BY <1>1, <1>2, <1>3, <1>5, <1>6, <1>8

\* States are popped by the keys of their largest and smallest list.
LEMMA PopsByKey ==
  ASSUME NEW n \in Nat, NEW len, \A i \in 1 .. n : len[i] \in Nat \ {0},
         NEW k \in Nat \ {0}, NEW x, NEW y, IsState(x, k, n), IsState(y, k, n), Apart(x, y, k)
  PROVE  /\ PopsBefore(len, x, y) <=> Tops(len, x, y)
         /\ Tops(len, x, y) \/ Tops(len, y, x)
<1>1. /\ x[1] \in Seq(1 .. n) /\ x[1] # <<>> /\ Head(x) = x[1]
      /\ Spread(len, x) \in Int /\ Key(len, x[1]) \in Triple /\ Held(x, k, x[1][1])
      /\ y[1] \in Seq(1 .. n) /\ y[1] # <<>> /\ Head(y) = y[1]
      /\ Spread(len, y) \in Int /\ Key(len, y[1]) \in Triple /\ Held(y, k, y[1][1])
  BY StateKeys
<1>2. x[1][1] # y[1][1]
  BY <1>1 DEF Apart
<1>3. Comparable(x[1], y[1])
  BY <1>2 DEF Comparable
<1>4. Greater(len, x[1], y[1]) <=> Outranks(Key(len, x[1]), Key(len, y[1]))
  BY <1>1, <1>3, GreaterByKey, KeyRanks
<1>5. Key(len, x[1]) # Key(len, y[1])
  BY <1>1, <1>2, KeyRanks
<1>6. Outranks(Key(len, x[1]), Key(len, y[1])) \/ Outranks(Key(len, y[1]), Key(len, x[1]))
  BY <1>1, <1>5, Ranking
<1>7. PopsBefore(len, x, y) <=> Tops(len, x, y)
  BY <1>1, <1>4 DEF PopsBefore, Tops
<1>8. Tops(len, x, y) \/ Tops(len, y, x)
  BY <1>1, <1>6 DEF Tops
<1>. QED  BY <1>7, <1>8

\* The order in which states are popped is strict and total.
LEMMA TopsOrder ==
  ASSUME NEW n \in Nat, NEW len, \A i \in 1 .. n : len[i] \in Nat \ {0},
         NEW k \in Nat \ {0}, NEW x, NEW y, NEW z,
         IsState(x, k, n), IsState(y, k, n), IsState(z, k, n)
  PROVE  /\ ~Tops(len, x, x)
         /\ Tops(len, x, y) /\ Tops(len, y, z) => Tops(len, x, z)
<1>. DEFINE a == Key(len, x[1])
            b == Key(len, y[1])
            c == Key(len, z[1])
<1>1. /\ Spread(len, x) \in Int /\ a \in Triple
      /\ Spread(len, y) \in Int /\ b \in Triple
      /\ Spread(len, z) \in Int /\ c \in Triple
  BY StateKeys
<1>2. /\ Tops(len, x, x) <=> Spread(len, x) > Spread(len, x)
                             \/ (Spread(len, x) = Spread(len, x) /\ Outranks(a, a))
      /\ Tops(len, x, y) <=> Spread(len, x) > Spread(len, y)
                             \/ (Spread(len, x) = Spread(len, y) /\ Outranks(a, b))
      /\ Tops(len, y, z) <=> Spread(len, y) > Spread(len, z)
                             \/ (Spread(len, y) = Spread(len, z) /\ Outranks(b, c))
      /\ Tops(len, x, z) <=> Spread(len, x) > Spread(len, z)
                             \/ (Spread(len, x) = Spread(len, z) /\ Outranks(a, c))
  BY DEF Tops
<1>. HIDE DEF a, b, c
<1>3. ~Outranks(a, a) /\ (Outranks(a, b) /\ Outranks(b, c) => Outranks(a, c))
  BY <1>1, Ranking
<1>. QED  BY <1>1, <1>2, <1>3

\* The heap always has a first state.
LEMMA PopIn ==
  ASSUME NEW n \in Nat, NEW len, \A i \in 1 .. n : len[i] \in Nat \ {0},
         NEW k \in Nat \ {0}, NEW h, GoodHeap(h, k, n), h # {}
  PROVE  Pop(len, h) \in h
<1>. DEFINE B == {e \in h \X h : Tops(len, e[1], e[2])}
<1>1. \A x, y \in h : <<x, y>> \in B <=> Tops(len, x, y)
  OBVIOUS
<1>. HIDE DEF B
<1>2. IsFiniteSet(h) /\ (\A x \in h : IsState(x, k, n)) /\ (\A x, y \in h : x # y => Apart(x, y, k))
  BY DEF GoodHeap
<1>3. ASSUME NEW x \in h PROVE <<x, x>> \notin B
  BY <1>1, <1>2, TopsOrder
<1>4. ASSUME NEW x \in h, NEW y \in h, x # y PROVE <<x, y>> \in B \/ <<y, x>> \in B
  <2>1. Tops(len, x, y) \/ Tops(len, y, x)
    BY <1>2, <1>4, PopsByKey
  <2>. QED  BY <1>1, <2>1
<1>5. ASSUME NEW x \in h, NEW y \in h, NEW z \in h, <<x, y>> \in B, <<y, z>> \in B
      PROVE  <<x, z>> \in B
  <2>1. IsState(x, k, n) /\ IsState(y, k, n) /\ IsState(z, k, n)
    BY <1>2
  <2>2. Tops(len, x, y) /\ Tops(len, y, z)
    BY <1>1, <1>5
  <2>3. Tops(len, x, z)
    BY <2>1, <2>2, TopsOrder
  <2>. QED  BY <1>1, <2>3
<1>6. PICK x \in h : \A y \in h \ {x} : <<x, y>> \in B
  BY <1>2, <1>3, <1>4, <1>5, TopOf
<1>7. ASSUME NEW y \in h \ {x} PROVE PopsBefore(len, x, y)
  <2>1. IsState(x, k, n) /\ IsState(y, k, n) /\ Apart(x, y, k) /\ Tops(len, x, y)
    BY <1>1, <1>2, <1>6
  <2>. QED  BY <2>1, PopsByKey
<1>. QED  BY <1>6, <1>7 DEF Pop

\* A heap without one of its states.
LEMMA HeapWithout ==
  ASSUME NEW n, NEW k, NEW h, GoodHeap(h, k, n), NEW x
  PROVE  GoodHeap(h \ {x}, k, n)
BY FS_RemoveElement DEF GoodHeap

\* One round: two states become one that has what they have.
LEMMA MergeTopHeap ==
  ASSUME NEW n \in Nat, NEW len, \A i \in 1 .. n : len[i] \in Nat \ {0},
         NEW k \in Nat \ {0}, NEW h, GoodHeap(h, k, n), Cardinality(h) \in Nat, Cardinality(h) > 1,
         \A q \in 1 .. n : \E x \in h : Held(x, k, q)
  PROVE  /\ GoodHeap(MergeTop(len, h), k, n)
         /\ Cardinality(MergeTop(len, h)) = Cardinality(h) - 1
         /\ \A q \in 1 .. n : \E x \in MergeTop(len, h) : Held(x, k, q)
<1>. DEFINE x == Pop(len, h)
            y == Pop(len, h \ {x})
            z == Merged(len, x, y)
            g == (h \ {x}) \ {y}
<1>1. IsFiniteSet(h) /\ (\A v \in h : IsState(v, k, n)) /\ (\A u, v \in h : u # v => Apart(u, v, k))
  BY DEF GoodHeap
<1>2. MergeTop(len, h) = g \cup {z}
  BY DEF MergeTop
<1>. HIDE DEF x, y, z, g
<1>3. x \in h
  <2>1. h # {}
    BY FS_EmptySet
  <2>. QED  BY <2>1, PopIn DEF x
<1>4. /\ GoodHeap(h \ {x}, k, n) /\ IsFiniteSet(h \ {x})
      /\ Cardinality(h \ {x}) = Cardinality(h) - 1
  BY <1>1, <1>3, HeapWithout, FS_RemoveElement
<1>5. y \in h \ {x}
  <2>1. h \ {x} # {}
    BY <1>4, FS_EmptySet
  <2>. QED  BY <1>4, <2>1, PopIn DEF y
<1>6. /\ GoodHeap(g, k, n) /\ IsFiniteSet(g)
      /\ Cardinality(g) = Cardinality(h) - 2
  <2>1. Cardinality(g) = Cardinality(h \ {x}) - 1 /\ IsFiniteSet(g) /\ GoodHeap(g, k, n)
    BY <1>4, <1>5, HeapWithout, FS_RemoveElement DEF g
  <2>. QED  BY <1>4, <2>1
<1>7. IsState(x, k, n) /\ IsState(y, k, n) /\ Apart(x, y, k)
  BY <1>1, <1>3, <1>5
<1>8. IsState(z, k, n) /\ \A q : Held(z, k, q) <=> Held(x, k, q) \/ Held(y, k, q)
  BY <1>7, MergedState DEF z
<1>9. ASSUME NEW v \in g PROVE Apart(v, z, k) /\ Apart(z, v, k)
  <2>1. v \in h /\ v # x /\ v # y
    BY <1>9 DEF g
  <2>2. Apart(v, x, k) /\ Apart(v, y, k)
    BY <1>1, <1>3, <1>5, <2>1
  <2>. QED  BY <1>8, <2>2 DEF Apart
<1>10. z \notin g
  <2>. SUFFICES ASSUME z \in g PROVE FALSE
    OBVIOUS
  <2>1. Apart(z, z, k)
    BY <1>9
  <2>2. Held(z, k, z[1][1])
    BY <1>8, StateKeys
  <2>. QED  BY <2>1, <2>2 DEF Apart
<1>11. IsFiniteSet(g \cup {z}) /\ Cardinality(g \cup {z}) = Cardinality(h) - 1
  <2>1. IsFiniteSet(g \cup {z}) /\ Cardinality(g \cup {z}) = Cardinality(g) + 1
    BY <1>6, <1>10, FS_AddElement
  <2>. QED  BY <1>6, <2>1
<1>12. GoodHeap(g \cup {z}, k, n)
  BY <1>6, <1>8, <1>9, <1>11 DEF GoodHeap
<1>13. ASSUME NEW q \in 1 .. n PROVE \E v \in g \cup {z} : Held(v, k, q)
  <2>1. PICK v \in h : Held(v, k, q)
    OBVIOUS
  <2>2. CASE v \in {x, y}
    BY <1>8, <2>1, <2>2
  <2>3. CASE v \notin {x, y}
    BY <2>1, <2>3 DEF g
  <2>. QED  BY <2>2, <2>3
<1>. QED  BY <1>2, <1>11, <1>12, <1>13

(***************************************************************************)
(* Merging all of them                                                     *)
(***************************************************************************)

\* What FoldLeft computes to merge m times: a heap for each set of rounds.
Folds(g, len, h, D) ==
  g = [s \in SUBSET D |-> IF s = {} THEN h ELSE MergeTop(len, g[s \ {Max(s)}])]

\* Such a function for one more merge.
LEMMA FoldsFurther ==
  ASSUME NEW n \in Nat, NEW len, NEW h, NEW g, Folds(g, len, h, 1 .. n)
  PROVE  \E f : Folds(f, len, h, 1 .. n + 1)
<1>. DEFINE D == 1 .. n + 1
            f == [s \in SUBSET D |-> IF n + 1 \in s THEN MergeTop(len, g[s \ {n + 1}]) ELSE g[s]]
<1>1. \A s \in SUBSET (1 .. n) : g[s] = IF s = {} THEN h ELSE MergeTop(len, g[s \ {Max(s)}])
  BY DEF Folds
<1>2. ASSUME NEW s \in SUBSET D
      PROVE  f[s] = IF s = {} THEN h ELSE MergeTop(len, f[s \ {Max(s)}])
  <2>1. CASE n + 1 \in s
    <3>1. s \in SUBSET Int /\ (\A j \in s : j <= n + 1)
      OBVIOUS
    <3>2. Max(s) = n + 1
      BY <2>1, <3>1, MaxIs
    <3>3. s \ {n + 1} \in SUBSET D /\ n + 1 \notin s \ {n + 1} /\ s # {}
      BY <2>1
    <3>4. f[s \ {n + 1}] = g[s \ {n + 1}]
      BY <3>3
    <3>5. f[s] = MergeTop(len, g[s \ {n + 1}])
      BY <2>1
    <3>. QED  BY <3>2, <3>3, <3>4, <3>5
  <2>2. CASE n + 1 \notin s
    <3>1. s \in SUBSET (1 .. n) /\ f[s] = g[s]
      BY <2>2
    <3>2. ASSUME s # {} PROVE f[s \ {Max(s)}] = g[s \ {Max(s)}]
      <4>1. s \ {Max(s)} \in SUBSET D /\ n + 1 \notin s \ {Max(s)}
        BY <2>2
      <4>. QED  BY <4>1
    <3>. HIDE DEF f
    <3>. QED  BY <1>1, <3>1, <3>2
  <2>. QED  BY <2>1, <2>2
<1>3. f = [s \in SUBSET D |-> f[s]]
  OBVIOUS
<1>. HIDE DEF f
<1>4. Folds(f, len, h, D)
  BY <1>2, <1>3 DEF Folds
<1>. QED  BY <1>4

\* There is such a function for every number of merges.
LEMMA FoldsExists ==
  ASSUME NEW n \in Nat, NEW len, NEW h
  PROVE  \E g : Folds(g, len, h, 1 .. n)
<1>. DEFINE Bad == {m \in Nat : ~\E g : Folds(g, len, h, 1 .. m)}
<1>1. SUFFICES ASSUME Bad # {} PROVE FALSE
  OBVIOUS
<1>2. PICK m \in Bad : \A j \in Bad : m <= j
  <2>1. Bad \in SUBSET Nat
    OBVIOUS
  <2>. HIDE DEF Bad
  <2>. QED  BY <1>1, <2>1, Least
<1>3. m # 0
  <2>. DEFINE g == [s \in SUBSET (1 .. 0) |-> h]
  <2>1. 1 .. 0 = {} /\ \A s \in SUBSET (1 .. 0) : s = {}
    OBVIOUS
  <2>2. Folds(g, len, h, 1 .. 0)
    BY <2>1 DEF Folds
  <2>. HIDE DEF g
  <2>. QED  BY <1>2, <2>2
<1>4. m - 1 \in Nat /\ (m - 1) + 1 = m /\ ~(m <= m - 1)
  BY <1>2, <1>3
<1>5. PICK g : Folds(g, len, h, 1 .. (m - 1))
  BY <1>2, <1>4
<1>6. \E f : Folds(f, len, h, 1 .. m)
  <2>. DEFINE j == m - 1
  <2>1. j \in Nat /\ j + 1 = m /\ Folds(g, len, h, 1 .. j)
    BY <1>4, <1>5
  <2>. HIDE DEF j
  <2>. QED  BY <2>1, FoldsFurther
<1>. QED  BY <1>2, <1>6

\* A heap of c states that have every number between them.
FullHeap(h, k, n, c) ==
  /\ GoodHeap(h, k, n)
  /\ Cardinality(h) = c
  /\ \A q \in 1 .. n : \E x \in h : Held(x, k, q)

\* Every merge leaves one state less, and all of the rows.
LEMMA FoldsHeap ==
  ASSUME NEW n \in Nat \ {0}, NEW len, \A i \in 1 .. n : len[i] \in Nat \ {0},
         NEW k \in Nat \ {0}, NEW h, FullHeap(h, k, n, n),
         NEW g, Folds(g, len, h, 1 .. (n - 1))
  PROVE  FullHeap(g[1 .. (n - 1)], k, n, 1)
<1>. DEFINE d == n - 1
            Good(i) == FullHeap(g[1 .. i], k, n, n - i)
            Bad == {i \in 0 .. d : ~Good(i)}
<1>0. d \in Nat /\ n - d = 1
  OBVIOUS
<1>1. \A s \in SUBSET (1 .. d) : g[s] = IF s = {} THEN h ELSE MergeTop(len, g[s \ {Max(s)}])
  BY DEF Folds
<1>2. Good(0)
  <2>1. 1 .. 0 = {} /\ {} \in SUBSET (1 .. d) /\ n - 0 = n
    OBVIOUS
  <2>. HIDE DEF d
  <2>2. g[{}] = h
    BY <1>1, <2>1
  <2>. QED  BY <2>1, <2>2
<1>3. ASSUME NEW i \in 0 .. d, i # 0, Good(i - 1) PROVE Good(i)
  <2>1. 1 .. i \in SUBSET Int /\ i \in 1 .. i /\ (\A j \in 1 .. i : j <= i)
    BY <1>3
  <2>2. Max(1 .. i) = i
    BY <2>1, MaxIs
  <2>3. (1 .. i) \ {i} = 1 .. i - 1 /\ 1 .. i \in SUBSET (1 .. d) /\ 1 .. i # {}
    <3>. HIDE DEF d
    <3>1. i \in Nat \ {0} /\ d \in Nat /\ i <= d
      BY <1>3 DEF d
    <3>2. (1 .. i) \ {i} = 1 .. i - 1
      BY <3>1
    <3>3. 1 .. i \in SUBSET (1 .. d)
      BY <3>1
    <3>4. 1 .. i # {}
      BY <3>1
    <3>. QED  BY <3>2, <3>3, <3>4
  <2>4. g[1 .. i] = MergeTop(len, g[1 .. i - 1])
    <3>. HIDE DEF d
    <3>. QED  BY <1>1, <2>2, <2>3
  <2>. DEFINE c == n - (i - 1)
              f == g[1 .. i - 1]
  <2>5. c \in Nat /\ c > 1 /\ c - 1 = n - i
    BY <1>3
  <2>6. FullHeap(f, k, n, c)
    BY <1>3
  <2>. HIDE DEF c, f
  <2>7. n \in Nat
    OBVIOUS
  <2>8. FullHeap(MergeTop(len, f), k, n, c - 1)
    <3>1. /\ GoodHeap(f, k, n) /\ Cardinality(f) = c
          /\ \A q \in 1 .. n : \E x \in f : Held(x, k, q)
      BY <2>6 DEF FullHeap
    <3>2. Cardinality(f) \in Nat /\ Cardinality(f) > 1
      BY <2>5, <3>1
    <3>. QED  BY <2>7, <3>1, <3>2, MergeTopHeap DEF FullHeap
  <2>. QED  BY <2>4, <2>5, <2>8 DEF f
<1>. HIDE DEF Good, d
<1>4. \A i \in 0 .. d : Good(i)
  <2>. SUFFICES ASSUME Bad # {} PROVE FALSE
    OBVIOUS
  <2>1. PICK m \in Bad : \A j \in Bad : m <= j
    <3>1. Bad \in SUBSET Nat
      OBVIOUS
    <3>. HIDE DEF Bad
    <3>. QED  BY <3>1, Least
  <2>2. m # 0 /\ m \in 0 .. d /\ m - 1 \in 0 .. d /\ ~(m <= m - 1)
    BY <1>0, <1>2, <2>1
  <2>3. Good(m - 1)
    BY <2>1, <2>2
  <2>. QED  BY <1>3, <2>1, <2>2, <2>3
<1>5. Good(d)
  BY <1>0, <1>4
<1>. QED  BY <1>0, <1>5 DEF Good, d

\* k lists, none empty, that have each number of 1 .. n once between them.
Partitions(x, k, n) ==
  /\ Lists(x, k, n)
  /\ \A j \in 1 .. k : x[j] # <<>>
  /\ \A q \in 1 .. n : Held(x, k, q)

\* The state of one row.
Single(i, k) == [j \in 1 .. k |-> IF j = 1 THEN <<i>> ELSE <<>>]

\* A state with one row.
LEMMA SingleState ==
  ASSUME NEW n \in Nat, NEW k \in Nat \ {0}, NEW i \in 1 .. n
  PROVE  /\ IsState(Single(i, k), k, n)
         /\ \A q : Held(Single(i, k), k, q) <=> q = i
<1>. DEFINE x == Single(i, k)
<1>1. 1 \in 1 .. k /\ x[1] = <<i>> /\ \A j \in 1 .. k : j # 1 => x[j] = <<>>
  BY DEF Single
<1>2. x \in [1 .. k -> Seq(1 .. n)]
  <2>1. <<i>> \in Seq(1 .. n) /\ <<>> \in Seq(1 .. n)
    OBVIOUS
  <2>. QED  BY <2>1 DEF Single
<1>3. \A j \in 1 .. k : \A m \in 1 .. Len(x[j]) : j = 1 /\ m = 1 /\ x[j][m] = i
  <2>1. Len(<<i>>) = 1 /\ <<i>>[1] = i /\ Len(<<>>) = 0
    OBVIOUS
  <2>2. \A m \in 1 .. 1 : m = 1
    OBVIOUS
  <2>3. 1 .. 0 = {}
    OBVIOUS
  <2>. HIDE DEF x
  <2>. SUFFICES ASSUME NEW j \in 1 .. k, NEW m, m \in 1 .. Len(x[j])
                PROVE  j = 1 /\ m = 1 /\ x[j][m] = i
    OBVIOUS
  <2>4. CASE j = 1
    BY <1>1, <2>1, <2>2, <2>4
  <2>5. CASE j # 1
    BY <1>1, <2>1, <2>3, <2>5
  <2>. QED  BY <2>4, <2>5
<1>4. 1 \in 1 .. Len(x[1]) /\ x[1][1] = i /\ x[1] # <<>>
  BY <1>1
<1>. HIDE DEF x
<1>5. \A q : Held(x, k, q) <=> q = i
  BY <1>1, <1>3, <1>4 DEF Held
<1>6. Lists(x, k, n)
  BY <1>2, <1>3 DEF Lists, Once
<1>7. \A j \in 1 .. k : Len(x[j]) <= 1
  <2>. SUFFICES ASSUME NEW j \in 1 .. k PROVE Len(x[j]) <= 1
    OBVIOUS
  <2>1. x[j] = <<i>> \/ x[j] = <<>>
    BY <1>1
  <2>2. Len(<<i>>) <= 1 /\ Len(<<>>) <= 1
    OBVIOUS
  <2>. QED  BY <2>1, <2>2
<1>8. \A l, j \in 1 .. k : l < j /\ x[j] # <<>> => x[l] # <<>>
  <2>. SUFFICES ASSUME NEW l \in 1 .. k, NEW j \in 1 .. k, l < j PROVE x[j] = <<>>
    OBVIOUS
  <2>1. j # 1
    OBVIOUS
  <2>. QED  BY <1>1, <2>1
<1>9. IsState(x, k, n)
  BY <1>4, <1>6, <1>7, <1>8 DEF IsState
<1>. QED  BY <1>5, <1>9 DEF x

\* The heap the method starts with holds every row.
LEMMA FirstHeap ==
  ASSUME NEW n \in Nat, NEW k \in Nat \ {0}
  PROVE  FullHeap({Single(i, k) : i \in 1 .. n}, k, n, n)
<1>. DEFINE h == {Single(i, k) : i \in 1 .. n}
            f == [i \in 1 .. n |-> Single(i, k)]
<1>1. \A i \in 1 .. n : /\ IsState(Single(i, k), k, n)
                        /\ \A q : Held(Single(i, k), k, q) <=> q = i
  BY SingleState
<1>2. \A i, j \in 1 .. n : Single(i, k) = Single(j, k) => i = j
  <2>. SUFFICES ASSUME NEW i \in 1 .. n, NEW j \in 1 .. n, Single(i, k) = Single(j, k) PROVE i = j
    OBVIOUS
  <2>1. Held(Single(i, k), k, i) /\ (Held(Single(j, k), k, i) <=> i = j)
    BY <1>1
  <2>. QED  BY <2>1
<1>3. f \in Bijection(1 .. n, h)
  BY <1>2 DEF Bijection, Injection, Surjection, IsInjective
<1>4. IsFiniteSet(1 .. n) /\ Cardinality(1 .. n) = n
  BY FS_Interval
<1>5. IsFiniteSet(h) /\ Cardinality(h) = n
  <2>1. ExistsBijection(1 .. n, h)
    BY <1>3 DEF ExistsBijection
  <2>. QED  BY <1>4, <2>1, FS_Bijection
<1>6. \A x \in h : \E i \in 1 .. n : x = Single(i, k)
  OBVIOUS
<1>7. \A i \in 1 .. n : Single(i, k) \in h
  OBVIOUS
<1>. HIDE DEF h, f
<1>8. \A x, y \in h : x # y => Apart(x, y, k)
  <2>. SUFFICES ASSUME NEW x \in h, NEW y \in h, x # y, NEW q, Held(x, k, q), Held(y, k, q)
                PROVE  FALSE
    BY DEF Apart
  <2>1. PICK i \in 1 .. n : x = Single(i, k)
    BY <1>6
  <2>2. PICK j \in 1 .. n : y = Single(j, k)
    BY <1>6
  <2>3. q = i /\ q = j
    BY <1>1, <2>1, <2>2
  <2>. QED  BY <2>1, <2>2, <2>3
<1>9. \A x \in h : IsState(x, k, n)
  BY <1>1, <1>6
<1>10. \A q \in 1 .. n : \E x \in h : Held(x, k, q)
  BY <1>1, <1>7
<1>11. GoodHeap(h, k, n)
  BY <1>5, <1>8, <1>9 DEF GoodHeap
<1>12. FullHeap(h, k, n, n)
  BY <1>5, <1>10, <1>11 DEF FullHeap
<1>. QED  BY <1>12 DEF h

\* A state that has n numbers in at most n sets leaves none of them empty.
LEMMA StatePartitions ==
  ASSUME NEW n \in Nat, NEW k \in 1 .. n, NEW x, IsState(x, k, n),
         \A q \in 1 .. n : Held(x, k, q)
  PROVE  Partitions(x, k, n)
<1>. SUFFICES ASSUME NEW e \in 1 .. k, x[e] = <<>> PROVE FALSE
  BY DEF Partitions, IsState
<1>0. k \in Nat \ {0} /\ k <= n
  OBVIOUS
<1>1. \A j \in 1 .. k : Len(x[j]) <= 1 /\ x[j] \in Seq(1 .. n)
  BY DEF IsState, Lists
<1>. DEFINE T == (1 .. k) \ {e}
            f == [q \in 1 .. n |-> CHOOSE j \in T : x[j][1] = q]
<1>2. ASSUME NEW q \in 1 .. n PROVE \E j \in T : x[j][1] = q
  <2>1. PICK j \in 1 .. k : \E m \in 1 .. Len(x[j]) : x[j][m] = q
    BY DEF Held
  <2>2. PICK m \in 1 .. Len(x[j]) : x[j][m] = q
    BY <2>1
  <2>3. x[j] # <<>> /\ m = 1
    <3>1. Len(x[j]) <= 1 /\ Len(x[j]) \in Nat /\ m \in 1 .. Len(x[j])
      BY <1>1, <2>2
    <3>2. Len(x[j]) # 0 /\ m = 1
      BY <3>1
    <3>. QED  BY <3>2
  <2>. QED  BY <2>2, <2>3
<1>3. \A q \in 1 .. n : f[q] \in T /\ x[f[q]][1] = q
  BY <1>2
<1>4. f \in Injection(1 .. n, T)
  <2>1. f \in [1 .. n -> T]
    BY <1>3
  <2>. HIDE DEF f, T
  <2>. QED  BY <1>3, <2>1 DEF Injection, IsInjective
<1>5. IsFiniteSet(T) /\ Cardinality(T) = k - 1
  <2>1. IsFiniteSet(1 .. k) /\ Cardinality(1 .. k) = k /\ e \in 1 .. k
    BY <1>0, FS_Interval
  <2>2. IsFiniteSet(T) /\ Cardinality(T) = Cardinality(1 .. k) - 1
    BY <2>1, FS_RemoveElement
  <2>. HIDE DEF T
  <2>. QED  BY <2>1, <2>2
<1>6. Cardinality(1 .. n) = n /\ IsFiniteSet(1 .. n)
  BY FS_Interval
<1>. HIDE DEF f, T
<1>7. Cardinality(1 .. n) <= Cardinality(T)
  BY <1>4, <1>5, FS_Injection
<1>. QED  BY <1>0, <1>5, <1>6, <1>7

\* The largest differencing method of seqlen_balancing.py puts every row into exactly one of k
\* micro-batches and leaves none of them empty, for all lengths and every k up to the number
\* of rows.
THEOREM KarmarkarKarpPartitions ==
  ASSUME NEW len \in Seq(Nat \ {0}), NEW k \in 1 .. Len(len)
  PROVE  Partitions(KarmarkarKarp(len, k), k, Len(len))
<1>. DEFINE n == Len(len)
            seq == [m \in 1 .. n - 1 |-> m]
            h == {Single(i, k) : i \in DOMAIN len}
            D == DOMAIN seq
            g == CHOOSE g : g = [s \in SUBSET D |->
                   IF s = {} THEN h ELSE LET m == Max(s) IN MergeTop(len, g[s \ {m}])]
<1>1. n \in Nat \ {0} /\ DOMAIN len = 1 .. n /\ (\A i \in 1 .. n : len[i] \in Nat \ {0})
      /\ k \in Nat \ {0} /\ k \in 1 .. n
  OBVIOUS
<1>2. KarmarkarKarp(len, k) = CHOOSE x \in g[D] : TRUE
  BY DEF KarmarkarKarp, FoldLeft, MapThenFoldSet, Single
<1>3. D = 1 .. (n - 1) /\ n - 1 \in Nat
  BY <1>1
<1>4. h = {Single(i, k) : i \in 1 .. n}
  BY <1>1
<1>. HIDE DEF h, D
<1>5. \E f : Folds(f, len, h, D)
  BY <1>3, FoldsExists
<1>6. Folds(g, len, h, D)
  <2>1. \E f : f = [s \in SUBSET D |-> IF s = {} THEN h ELSE MergeTop(len, f[s \ {Max(s)}])]
    BY <1>5 DEF Folds
  <2>. QED  BY <2>1 DEF Folds
<1>. HIDE DEF g
<1>7. FullHeap(h, k, n, n)
  BY <1>1, <1>4, FirstHeap
<1>8. FullHeap(g[D], k, n, 1)
  <2>. HIDE DEF n
  <2>. QED  BY <1>1, <1>3, <1>6, <1>7, FoldsHeap
<1>9. PICK x : g[D] = {x}
  <2>1. IsFiniteSet(g[D]) /\ Cardinality(g[D]) = 1
    BY <1>8 DEF FullHeap, GoodHeap
  <2>. QED  BY <2>1, FS_Singleton
<1>10. KarmarkarKarp(len, k) = x
  BY <1>2, <1>9
<1>11. IsState(x, k, n) /\ \A q \in 1 .. n : Held(x, k, q)
  BY <1>8, <1>9 DEF FullHeap, GoodHeap
<1>. QED  BY <1>1, <1>10, <1>11, StatePartitions

(***************************************************************************)
(* Running micro-batches                                                   *)
(***************************************************************************)

\* Sorting each of the lists keeps what they have.
LEMMA SortedKeeps ==
  ASSUME NEW n \in Nat, NEW k \in Nat \ {0}, NEW x, Partitions(x, k, n)
  PROVE  Partitions(SortedPartitions(x), k, n) /\ DOMAIN SortedPartitions(x) = 1 .. k
<1>. DEFINE y == SortedPartitions(x)
<1>1. /\ DOMAIN x = 1 .. k /\ \A j \in 1 .. k : x[j] \in Seq(1 .. n) /\ x[j] # <<>>
      /\ Once(x, k) /\ \A q \in 1 .. n : Held(x, k, q)
  BY DEF Partitions, Lists
<1>2. y = [j \in 1 .. k |-> Sorted(x[j], <)]
  BY <1>1 DEF SortedPartitions
<1>3. \A j \in 1 .. k : y[j] = Sorted(x[j], <)
  BY <1>2
<1>. HIDE DEF y
<1>4. ASSUME NEW j \in 1 .. k
      PROVE  /\ y[j] \in Seq(1 .. n) /\ Len(y[j]) = Len(x[j]) /\ y[j] # <<>>
             /\ \E p : Permutes(p, Len(x[j])) /\ \A m \in 1 .. Len(x[j]) : y[j][m] = x[j][p[m]]
  <2>1. x[j] \in Seq(Int) /\ x[j] \in Seq(1 .. n) /\ Len(x[j]) \in Nat /\ x[j] # <<>>
    <3>1. x[j] \in Seq(1 .. n) /\ x[j] # <<>>
      BY <1>1
    <3>. QED  BY <3>1
  <2>. DEFINE s == x[j]
              l == Len(s)
  <2>. HIDE DEF s
  <2>2. PICK p : Permutes(p, l) /\ Sorted(s, <) = [m \in 1 .. l |-> s[p[m]]]
    BY <2>1, SortedNumbers DEF s
  <2>3. y[j] = [m \in 1 .. l |-> s[p[m]]]
    BY <1>3, <2>2 DEF s
  <2>4. \A m \in 1 .. l : p[m] \in 1 .. l
    BY <2>2 DEF Permutes
  <2>5. s \in Seq(1 .. n) /\ l \in Nat /\ l # 0
    BY <2>1 DEF s
  <2>. HIDE DEF l
  <2>6. \A m \in 1 .. l : s[p[m]] \in 1 .. n
    BY <2>4, <2>5 DEF l
  <2>7. y[j] \in Seq(1 .. n) /\ Len(y[j]) = l
    BY <2>3, <2>5, <2>6
  <2>8. y[j] # <<>>
    BY <2>5, <2>7
  <2>9. \A m \in 1 .. l : y[j][m] = s[p[m]]
    BY <2>3
  <2>. QED  BY <2>2, <2>7, <2>8, <2>9 DEF l, s
<1>5. ASSUME NEW j \in 1 .. k, NEW m, m \in 1 .. Len(x[j])
      PROVE  \E l \in 1 .. Len(y[j]) : y[j][l] = x[j][m]
  <2>1. PICK p : Permutes(p, Len(x[j])) /\ \A e \in 1 .. Len(x[j]) : y[j][e] = x[j][p[e]]
    BY <1>4
  <2>2. PICK l \in 1 .. Len(x[j]) : p[l] = m
    BY <1>5, <2>1 DEF Permutes
  <2>. QED  BY <1>4, <2>1, <2>2
<1>6. \A q \in 1 .. n : Held(y, k, q)
  <2>. SUFFICES ASSUME NEW q \in 1 .. n PROVE Held(y, k, q)
    OBVIOUS
  <2>1. PICK j \in 1 .. k : \E m \in 1 .. Len(x[j]) : x[j][m] = q
    BY <1>1 DEF Held
  <2>2. PICK m \in 1 .. Len(x[j]) : x[j][m] = q
    BY <2>1
  <2>. QED  BY <1>5, <2>2 DEF Held
<1>7. Once(y, k)
  <2>. SUFFICES ASSUME NEW i \in 1 .. k, NEW j \in 1 .. k, NEW l, l \in 1 .. Len(y[i]),
                       NEW m, m \in 1 .. Len(y[j]), y[i][l] = y[j][m]
                PROVE  i = j /\ l = m
    BY DEF Once
  <2>1. PICK p : Permutes(p, Len(x[i])) /\ \A e \in 1 .. Len(x[i]) : y[i][e] = x[i][p[e]]
    BY <1>4
  <2>2. PICK o : Permutes(o, Len(x[j])) /\ \A e \in 1 .. Len(x[j]) : y[j][e] = x[j][o[e]]
    BY <1>4
  <2>3. l \in 1 .. Len(x[i]) /\ m \in 1 .. Len(x[j])
    BY <1>4
  <2>4. p[l] \in 1 .. Len(x[i]) /\ o[m] \in 1 .. Len(x[j]) /\ x[i][p[l]] = x[j][o[m]]
    BY <2>1, <2>2, <2>3 DEF Permutes
  <2>5. \A u \in 1 .. Len(x[i]) : \A v \in 1 .. Len(x[j]) : x[i][u] = x[j][v] => i = j /\ u = v
    BY <1>1 DEF Once
  <2>6. i = j /\ p[l] = o[m]
    BY <2>4, <2>5
  <2>7. x[i][p[m]] = x[i][o[m]] /\ p[m] \in 1 .. Len(x[i])
    <3>1. y[i][m] = x[i][p[m]] /\ y[i][m] = x[i][o[m]]
      BY <2>1, <2>2, <2>3, <2>6
    <3>2. p[m] \in 1 .. Len(x[i])
      BY <2>1, <2>3, <2>6 DEF Permutes
    <3>. QED  BY <3>1, <3>2
  <2>8. p[m] = o[m]
    BY <2>4, <2>5, <2>6, <2>7
  <2>9. l = m
    <3>1. \A u, v \in 1 .. Len(x[i]) : p[u] = p[v] => u = v
      BY <2>1 DEF Permutes
    <3>2. l \in 1 .. Len(x[i]) /\ m \in 1 .. Len(x[i]) /\ p[l] = p[m]
      BY <2>3, <2>6, <2>8
    <3>. QED  BY <3>1, <3>2
  <2>. QED  BY <2>6, <2>9
<1>8. y \in [1 .. k -> Seq(1 .. n)] /\ DOMAIN y = 1 .. k
  <2>1. y = [j \in 1 .. k |-> y[j]]
    BY <1>2
  <2>. QED  BY <1>4, <2>1
<1>9. Partitions(y, k, n)
  BY <1>4, <1>6, <1>7, <1>8 DEF Partitions, Lists
<1>. QED  BY <1>8, <1>9 DEF y

\* Such partitions pass the assertions of get_seqlen_balanced_partitions.
LEMMA PartitionsAreValid ==
  ASSUME NEW len, NEW n \in Nat, DOMAIN len = 1 .. n, NEW k \in Nat \ {0}, NEW x,
         Partitions(x, k, n)
  PROVE  PartitionsValid(len, x, k)
<1>1. /\ DOMAIN x = 1 .. k /\ \A j \in 1 .. k : x[j] \in Seq(1 .. n) /\ x[j] # <<>>
      /\ \A q \in 1 .. n : Held(x, k, q)
  BY DEF Partitions, Lists
<1>2. ASSUME NEW j \in 1 .. k
      PROVE  /\ DOMAIN x[j] = 1 .. Len(x[j])
             /\ \A m \in 1 .. Len(x[j]) : x[j][m] \in 1 .. n
  <2>1. x[j] \in Seq(1 .. n)
    BY <1>1
  <2>. QED  BY <2>1
<1>3. \A j \in 1 .. k : Range(x[j]) = {x[j][m] : m \in 1 .. Len(x[j])}
  BY <1>2 DEF Range
<1>4. UNION {Range(x[j]) : j \in 1 .. k} = 1 .. n
  <2>1. ASSUME NEW q \in UNION {Range(x[j]) : j \in 1 .. k} PROVE q \in 1 .. n
    <3>1. PICK j \in 1 .. k : q \in Range(x[j])
      OBVIOUS
    <3>2. PICK m \in 1 .. Len(x[j]) : q = x[j][m]
      BY <1>3, <3>1
    <3>. QED  BY <1>2, <3>2
  <2>2. ASSUME NEW q \in 1 .. n PROVE \E j \in 1 .. k : q \in Range(x[j])
    <3>1. PICK j \in 1 .. k : \E m \in 1 .. Len(x[j]) : x[j][m] = q
      BY <1>1 DEF Held
    <3>2. q \in {x[j][m] : m \in 1 .. Len(x[j])}
      BY <3>1
    <3>. QED  BY <1>3, <3>2
  <2>. QED  BY <2>1, <2>2
<1>. QED  BY <1>1, <1>4 DEF PartitionsValid

\* What a rank has run, in order, and the micro-batches it has still to run:
\* every place of a piece of n rows once.
Deals(o, ms, n) ==
  /\ o \in Seq(1 .. n) /\ ms \in Seq(Seq(1 .. n))
  /\ \A i, j \in 1 .. Len(o) : o[i] = o[j] => i = j
  /\ Once(ms, Len(ms)) /\ \A j \in 1 .. Len(ms) : ms[j] # <<>>
  /\ \A i \in 1 .. Len(o) : ~Held(ms, Len(ms), o[i])
  /\ \A q \in 1 .. n : (\E i \in 1 .. Len(o) : o[i] = q) \/ Held(ms, Len(ms), q)

\* Partitions deal out the rows.
LEMMA DealsFirst ==
  ASSUME NEW n \in Nat, NEW k \in Nat \ {0}, NEW x, Partitions(x, k, n)
  PROVE  Deals(<<>>, x, n) /\ Len(x) = k
<1>1. /\ x \in [1 .. k -> Seq(1 .. n)] /\ Once(x, k) /\ (\A j \in 1 .. k : x[j] # <<>>)
      /\ \A q \in 1 .. n : Held(x, k, q)
  BY DEF Partitions, Lists
<1>2. x \in Seq(Seq(1 .. n)) /\ Len(x) = k
  BY <1>1
<1>3. <<>> \in Seq(1 .. n) /\ 1 .. Len(<<>>) = {}
  OBVIOUS
<1>. QED  BY <1>1, <1>2, <1>3 DEF Deals

\* Rows are dealt out as micro-batches are run.
LEMMA DealsNext ==
  ASSUME NEW n \in Nat, NEW o, NEW ms, Deals(o, ms, n), ms # <<>>
  PROVE  Deals(o \o Head(ms), Tail(ms), n)
<1>. DEFINE h == Head(ms)
            t == Tail(ms)
            w == o \o h
<1>1. /\ o \in Seq(1 .. n) /\ ms \in Seq(Seq(1 .. n))
      /\ \A i, j \in 1 .. Len(o) : o[i] = o[j] => i = j
      /\ Once(ms, Len(ms)) /\ \A j \in 1 .. Len(ms) : ms[j] # <<>>
      /\ \A i \in 1 .. Len(o) : ~Held(ms, Len(ms), o[i])
      /\ \A q \in 1 .. n : (\E i \in 1 .. Len(o) : o[i] = q) \/ Held(ms, Len(ms), q)
  BY DEF Deals
<1>2. /\ h = ms[1] /\ h \in Seq(1 .. n) /\ 1 \in 1 .. Len(ms)
      /\ t \in Seq(Seq(1 .. n)) /\ Len(t) = Len(ms) - 1 /\ Len(ms) \in Nat
      /\ \A j \in 1 .. Len(t) : t[j] = ms[j + 1] /\ j + 1 \in 1 .. Len(ms) /\ j + 1 # 1
  BY <1>1
<1>3. \A j \in 1 .. Len(ms) : j = 1 \/ (j - 1 \in 1 .. Len(t) /\ t[j - 1] = ms[j])
  <2>. SUFFICES ASSUME NEW j \in 1 .. Len(ms), j # 1 PROVE j - 1 \in 1 .. Len(t) /\ t[j - 1] = ms[j]
    OBVIOUS
  <2>1. j - 1 \in 1 .. Len(t) /\ (j - 1) + 1 = j
    BY <1>2
  <2>. QED  BY <1>2, <2>1
<1>4. w \in Seq(1 .. n)
  BY <1>1, <1>2, ConcatPlaces
<1>. HIDE DEF h, t
<1>5. ASSUME NEW m, m \in 1 .. Len(w)
      PROVE  \/ m \in 1 .. Len(o) /\ w[m] = o[m]
             \/ m > Len(o) /\ m - Len(o) \in 1 .. Len(h) /\ w[m] = h[m - Len(o)]
  <2>1. h \in Seq(1 .. n) /\ o \in Seq(1 .. n)
    BY <1>1, <1>2, Zenon
  <2>2. m \in 1 .. Len(o \o h)
    BY <1>5, Zenon
  <2>. QED  BY <2>1, <2>2, ConcatPlace, Zenon
<1>6. /\ \A m \in 1 .. Len(o) : m \in 1 .. Len(w) /\ w[m] = o[m]
      /\ \A m \in 1 .. Len(h) : Len(o) + m \in 1 .. Len(w) /\ w[Len(o) + m] = h[m]
      /\ Len(o) \in Nat /\ Len(w) \in Nat
  <2>1. o \in Seq(1 .. n) /\ h \in Seq(1 .. n)
    BY <1>1, <1>2
  <2>2. /\ \A m \in 1 .. Len(o) : (o \o h)[m] = o[m] /\ m \in 1 .. Len(o \o h)
        /\ \A m \in 1 .. Len(h) : (o \o h)[Len(o) + m] = h[m] /\ Len(o) + m \in 1 .. Len(o \o h)
    BY <2>1, ConcatPlaces
  <2>3. Len(o) \in Nat /\ Len(w) \in Nat
    BY <1>4, <2>1
  <2>. QED  BY <2>2, <2>3
<1>. HIDE DEF w
<1>7. \A m \in 1 .. Len(h) : Held(ms, Len(ms), h[m])
  BY <1>2 DEF Held
<1>8. ASSUME NEW q PROVE Held(t, Len(t), q) => Held(ms, Len(ms), q)
  <2>. SUFFICES ASSUME Held(t, Len(t), q) PROVE Held(ms, Len(ms), q)
    OBVIOUS
  <2>1. PICK j \in 1 .. Len(t) : \E m \in 1 .. Len(t[j]) : t[j][m] = q
    BY DEF Held
  <2>2. t[j] = ms[j + 1] /\ j + 1 \in 1 .. Len(ms)
    BY <1>2
  <2>. QED  BY <2>1, <2>2 DEF Held
<1>9. ASSUME NEW q, Held(ms, Len(ms), q) PROVE Held(t, Len(t), q) \/ \E m \in 1 .. Len(h) : h[m] = q
  <2>1. PICK j \in 1 .. Len(ms) : \E m \in 1 .. Len(ms[j]) : ms[j][m] = q
    BY <1>9 DEF Held
  <2>2. CASE j = 1
    BY <1>2, <2>1, <2>2
  <2>3. CASE j # 1
    <3>1. j - 1 \in 1 .. Len(t) /\ t[j - 1] = ms[j]
      BY <1>3, <2>3
    <3>. QED  BY <2>1, <3>1 DEF Held
  <2>. QED  BY <2>2, <2>3
<1>10. \A i, j \in 1 .. Len(w) : w[i] = w[j] => i = j
  <2>. SUFFICES ASSUME NEW i \in 1 .. Len(w), NEW j \in 1 .. Len(w), w[i] = w[j] PROVE i = j
    OBVIOUS
  <2>0. i \in Nat /\ j \in Nat
    BY <1>6
  <2>1. CASE i \in 1 .. Len(o) /\ w[i] = o[i]
    <3>1. CASE j \in 1 .. Len(o) /\ w[j] = o[j]
      BY <1>1, <2>1, <3>1
    <3>2. CASE j - Len(o) \in 1 .. Len(h) /\ w[j] = h[j - Len(o)]
      BY <1>1, <1>7, <2>1, <3>2
    <3>. QED  BY <1>5, <3>1, <3>2
  <2>2. CASE i - Len(o) \in 1 .. Len(h) /\ w[i] = h[i - Len(o)]
    <3>1. CASE j \in 1 .. Len(o) /\ w[j] = o[j]
      BY <1>1, <1>7, <2>2, <3>1
    <3>2. CASE j - Len(o) \in 1 .. Len(h) /\ w[j] = h[j - Len(o)]
      <4>1. \A u \in 1 .. Len(ms[1]) : \A v \in 1 .. Len(ms[1]) : ms[1][u] = ms[1][v] => u = v
        BY <1>1, <1>2 DEF Once
      <4>2. h[i - Len(o)] = h[j - Len(o)]
        BY <2>2, <3>2
      <4>3. i - Len(o) = j - Len(o)
        BY <1>2, <2>2, <3>2, <4>1, <4>2
      <4>. QED  BY <1>6, <2>0, <4>3
    <3>. QED  BY <1>5, <3>1, <3>2
  <2>. QED  BY <1>5, <2>1, <2>2
<1>11. Once(t, Len(t))
  <2>. SUFFICES ASSUME NEW i \in 1 .. Len(t), NEW j \in 1 .. Len(t), NEW l, l \in 1 .. Len(t[i]),
                       NEW m, m \in 1 .. Len(t[j]), t[i][l] = t[j][m]
                PROVE  i = j /\ l = m
    BY DEF Once
  <2>1. /\ t[i] = ms[i + 1] /\ i + 1 \in 1 .. Len(ms)
        /\ t[j] = ms[j + 1] /\ j + 1 \in 1 .. Len(ms)
    BY <1>2
  <2>2. i + 1 = j + 1 /\ l = m
    <3>1. \A u \in 1 .. Len(ms[i + 1]) : \A v \in 1 .. Len(ms[j + 1]) :
             ms[i + 1][u] = ms[j + 1][v] => i + 1 = j + 1 /\ u = v
      BY <1>1, <2>1 DEF Once
    <3>. QED  BY <2>1, <3>1
  <2>3. i \in Int /\ j \in Int
    BY <1>2
  <2>. QED  BY <2>2, <2>3
<1>12. \A j \in 1 .. Len(t) : t[j] # <<>>
  <2>. SUFFICES ASSUME NEW j \in 1 .. Len(t) PROVE t[j] # <<>>
    OBVIOUS
  <2>1. t[j] = ms[j + 1] /\ j + 1 \in 1 .. Len(ms)
    BY <1>2
  <2>. QED  BY <1>1, <2>1
<1>13. \A i \in 1 .. Len(w) : ~Held(t, Len(t), w[i])
  <2>. SUFFICES ASSUME NEW i \in 1 .. Len(w), Held(t, Len(t), w[i]) PROVE FALSE
    OBVIOUS
  <2>1. CASE i \in 1 .. Len(o) /\ w[i] = o[i]
    BY <1>1, <1>8, <2>1
  <2>2. CASE i - Len(o) \in 1 .. Len(h) /\ w[i] = h[i - Len(o)]
    <3>1. PICK j \in 1 .. Len(t) : \E m \in 1 .. Len(t[j]) : t[j][m] = w[i]
      BY DEF Held
    <3>2. PICK m \in 1 .. Len(t[j]) : t[j][m] = w[i]
      BY <3>1
    <3>3. t[j] = ms[j + 1] /\ j + 1 \in 1 .. Len(ms) /\ j + 1 # 1
      BY <1>2
    <3>4. \A u \in 1 .. Len(ms[1]) : \A v \in 1 .. Len(ms[j + 1]) :
             ms[1][u] = ms[j + 1][v] => 1 = j + 1
      BY <1>1, <1>2, <3>3 DEF Once
    <3>. QED  BY <1>2, <2>2, <3>2, <3>3, <3>4
  <2>. QED  BY <1>5, <2>1, <2>2
<1>14. \A q \in 1 .. n : (\E i \in 1 .. Len(w) : w[i] = q) \/ Held(t, Len(t), q)
  <2>. SUFFICES ASSUME NEW q \in 1 .. n
                PROVE  (\E i \in 1 .. Len(w) : w[i] = q) \/ Held(t, Len(t), q)
    OBVIOUS
  <2>1. CASE \E i \in 1 .. Len(o) : o[i] = q
    BY <1>6, <2>1
  <2>2. CASE Held(ms, Len(ms), q)
    <3>1. CASE \E m \in 1 .. Len(h) : h[m] = q
      BY <1>6, <3>1
    <3>. QED  BY <1>9, <2>2, <3>1
  <2>. QED  BY <1>1, <2>1, <2>2
<1>15. Deals(w, t, n)
  BY <1>2, <1>4, <1>10, <1>11, <1>12, <1>13, <1>14 DEF Deals
<1>. QED  BY <1>15 DEF w, h, t

\* When all have been run, the order is a permutation.
LEMMA DealsDone ==
  ASSUME NEW n \in Nat, NEW o, Deals(o, <<>>, n)
  PROVE  Len(o) = n /\ Permutes(o, n)
<1>1. /\ o \in Seq(1 .. n) /\ \A i, j \in 1 .. Len(o) : o[i] = o[j] => i = j
      /\ \A q \in 1 .. n : \E i \in 1 .. Len(o) : o[i] = q
  <2>1. 1 .. Len(<<>>) = {}
    OBVIOUS
  <2>. QED  BY <2>1 DEF Deals, Held
<1>2. Len(o) \in Nat /\ o \in [1 .. Len(o) -> 1 .. n]
  <2>1. o \in Seq(1 .. n)
    BY <1>1
  <2>. QED  BY <2>1
<1>3. o \in Bijection(1 .. Len(o), 1 .. n)
  BY <1>1, <1>2 DEF Bijection, Injection, Surjection, IsInjective
<1>4. /\ IsFiniteSet(1 .. Len(o)) /\ Cardinality(1 .. Len(o)) = Len(o)
      /\ Cardinality(1 .. n) = n
  <2>1. Len(o) \in Nat
    BY <1>2
  <2>2. \A m \in Nat : IsFiniteSet(1 .. m) /\ Cardinality(1 .. m) = m
    BY FS_Interval
  <2>. QED  BY <2>1, <2>2
<1>5. Len(o) = n
  <2>1. ExistsBijection(1 .. Len(o), 1 .. n)
    BY <1>3 DEF ExistsBijection
  <2>. QED  BY <1>4, <2>1, FS_Bijection
<1>. QED  BY <1>1, <1>2, <1>5 DEF Permutes

\* The micro-batches of a fixed size a rank has still to run, when it has run the first ones.
Through(o, ms, n) ==
  /\ o = Run(0, Len(o)) /\ Len(o) \in Nat
  /\ Chain(ms, Len(o), n)

\* A chain runs through the rows.
LEMMA ThroughFirst ==
  ASSUME NEW n \in Nat, NEW ms, Chain(ms, 0, n)
  PROVE  Through(<<>>, ms, n)
<1>1. Len(<<>>) = 0 /\ Run(0, 0) = <<>>
  BY RunFacts
<1>. QED  BY <1>1 DEF Through

\* Two runs, one behind the other.
LEMMA RunJoin ==
  ASSUME NEW a \in Nat, NEW n \in Nat, NEW m \in Nat
  PROVE  Run(a, n) \o Run(a + n, m) = Run(a, n + m)
<1>. DEFINE s == Run(a, n)
            t == Run(a + n, m)
            u == Run(a, n + m)
<1>0. a + n \in Nat /\ n + m \in Nat
  OBVIOUS
<1>1. s \in Seq(Nat) /\ Len(s) = n /\ \A q \in 1 .. n : s[q] = a + q
  BY RunFacts
<1>2. t \in Seq(Nat) /\ Len(t) = m /\ \A q \in 1 .. m : t[q] = (a + n) + q
  BY <1>0, RunFacts
<1>3. u \in Seq(Nat) /\ Len(u) = n + m /\ \A q \in 1 .. n + m : u[q] = a + q
  BY <1>0, RunFacts
<1>. HIDE DEF s, t, u
<1>4. /\ s \o t \in Seq(Nat) /\ Len(s \o t) = n + m
      /\ \A i \in 1 .. n + m : (s \o t)[i] = IF i <= n THEN s[i] ELSE t[i - n]
  <2>1. s \in Seq(Nat) /\ Len(s) = n /\ t \in Seq(Nat) /\ Len(t) = m
    BY <1>1, <1>2
  <2>. QED  BY <2>1
<1>5. ASSUME NEW i \in 1 .. n + m PROVE (s \o t)[i] = u[i]
  <2>1. (s \o t)[i] = IF i <= n THEN s[i] ELSE t[i - n]
    BY <1>4
  <2>2. u[i] = a + i
    BY <1>3
  <2>3. CASE i <= n
    <3>1. i \in 1 .. n
      BY <2>3
    <3>2. s[i] = a + i
      BY <1>1, <3>1
    <3>. QED  BY <2>1, <2>2, <2>3, <3>2
  <2>4. CASE i > n
    <3>1. i - n \in 1 .. m /\ (a + n) + (i - n) = a + i /\ ~(i <= n)
      BY <2>4
    <3>2. t[i - n] = (a + n) + (i - n)
      BY <1>2, <3>1
    <3>. QED  BY <2>1, <2>2, <3>1, <3>2
  <2>5. i <= n \/ i > n
    OBVIOUS
  <2>. QED  BY <2>3, <2>4, <2>5
<1>6. s \o t = u
  <2>1. u \in Seq(Nat) /\ Len(u) = Len(s \o t) /\ Len(s \o t) = n + m /\ s \o t \in Seq(Nat)
    BY <1>3, <1>4
  <2>. DEFINE v == s \o t
  <2>2. v \in Seq(Nat) /\ Len(v) = Len(u) /\ \A i \in 1 .. Len(u) : v[i] = u[i]
    BY <1>5, <2>1
  <2>. HIDE DEF v
  <2>3. v = u
    BY <2>1, <2>2
  <2>. QED  BY <2>3 DEF v
<1>. QED  BY <1>6 DEF s, t, u

\* A chain without its first run.
LEMMA ChainNext ==
  ASSUME NEW a \in Nat, NEW b, NEW ms, Chain(ms, a, b), ms # <<>>
  PROVE  /\ Head(ms) = Run(a, Len(Head(ms))) /\ Len(Head(ms)) \in Nat \ {0}
         /\ Chain(Tail(ms), a + Len(Head(ms)), b)
<1>. DEFINE t == Tail(ms)
            l == Len(ms[1])
<1>1. /\ ms \in Seq(Seq(Nat)) /\ b \in Nat
      /\ ms[1][1] = a + 1 /\ ms[Len(ms)][1] + Len(ms[Len(ms)]) = b + 1
  BY DEF Chain
<1>2. \A p \in DOMAIN ms : ms[p] # <<>> /\ ms[p] = Run(ms[p][1] - 1, Len(ms[p]))
  BY DEF Chain
<1>3. \A p \in DOMAIN ms : p + 1 \in DOMAIN ms => ms[p + 1][1] = ms[p][1] + Len(ms[p])
  BY DEF Chain
<1>4. /\ Head(ms) = ms[1] /\ DOMAIN ms = 1 .. Len(ms) /\ Len(ms) \in Nat \ {0}
      /\ 1 \in DOMAIN ms
  <2>1. ms \in Seq(Seq(Nat))
    BY <1>1
  <2>. QED  BY <2>1
<1>5. /\ t \in Seq(Seq(Nat)) /\ Len(t) = Len(ms) - 1 /\ DOMAIN t = 1 .. Len(t)
      /\ \A j \in 1 .. Len(t) : t[j] = ms[j + 1] /\ j + 1 \in DOMAIN ms
  <2>1. ms \in Seq(Seq(Nat))
    BY <1>1
  <2>. QED  BY <2>1
<1>6. l \in Nat \ {0} /\ ms[1] = Run(a, l)
  <2>1. ms[1] \in Seq(Nat) /\ ms[1] # <<>>
    <3>1. ms \in Seq(Seq(Nat))
      BY <1>1
    <3>2. ms[1] \in Seq(Nat)
      BY <1>4, <3>1
    <3>. QED  BY <1>2, <1>4, <3>2
  <2>2. l \in Nat \ {0}
    BY <2>1
  <2>3. ms[1][1] - 1 = a
    BY <1>1
  <2>. QED  BY <1>2, <1>4, <2>2, <2>3
<1>. HIDE DEF t
<1>7. \A p \in DOMAIN t : t[p] # <<>> /\ t[p] = Run(t[p][1] - 1, Len(t[p]))
  <2>. SUFFICES ASSUME NEW p \in DOMAIN t PROVE t[p] # <<>> /\ t[p] = Run(t[p][1] - 1, Len(t[p]))
    OBVIOUS
  <2>1. t[p] = ms[p + 1] /\ p + 1 \in DOMAIN ms
    BY <1>5
  <2>. QED  BY <1>2, <2>1
<1>8. \A p \in DOMAIN t : p + 1 \in DOMAIN t => t[p + 1][1] = t[p][1] + Len(t[p])
  <2>. SUFFICES ASSUME NEW p \in DOMAIN t, p + 1 \in DOMAIN t
                PROVE  t[p + 1][1] = t[p][1] + Len(t[p])
    OBVIOUS
  <2>1. /\ t[p] = ms[p + 1] /\ p + 1 \in DOMAIN ms
        /\ t[p + 1] = ms[(p + 1) + 1] /\ (p + 1) + 1 \in DOMAIN ms
    BY <1>5
  <2>. QED  BY <1>3, <2>1
<1>. HIDE DEF l
<1>9. IF t = <<>> THEN a + l = b
      ELSE t[1][1] = (a + l) + 1 /\ t[Len(t)][1] + Len(t[Len(t)]) = b + 1
  <2>1. CASE t = <<>>
    <3>1. Len(ms) = 1
      <4>1. Len(t) = 0 /\ Len(t) = Len(ms) - 1 /\ Len(ms) \in Nat
        BY <1>4, <1>5, <2>1
      <4>. QED  BY <4>1
    <3>2. (a + 1) + l = b + 1
      BY <1>1, <3>1 DEF l
    <3>3. a + l = b
      BY <1>1, <1>6, <3>2
    <3>. QED  BY <2>1, <3>3
  <2>2. CASE t # <<>>
    <3>1. Len(t) \in Nat \ {0}
      <4>1. t \in Seq(Seq(Nat))
        BY <1>5
      <4>. QED  BY <2>2, <4>1
    <3>2. 1 \in 1 .. Len(t) /\ Len(t) \in 1 .. Len(t) /\ Len(t) + 1 = Len(ms)
      BY <1>4, <1>5, <3>1
    <3>3. t[1] = ms[1 + 1] /\ 1 + 1 \in DOMAIN ms /\ t[Len(t)] = ms[Len(ms)]
      BY <1>5, <3>2
    <3>4. t[1][1] = ms[1][1] + Len(ms[1])
      BY <1>3, <1>4, <3>3
    <3>5. t[1][1] = (a + l) + 1
      <4>1. t[1][1] = (a + 1) + l
        BY <1>1, <3>4 DEF l
      <4>. QED  BY <1>6, <4>1
    <3>. QED  BY <1>1, <2>2, <3>3, <3>5
  <2>. QED  BY <2>1, <2>2
<1>10. Chain(t, a + l, b)
  <2>1. a + l \in Nat
    BY <1>6
  <2>. QED  BY <1>1, <1>5, <1>7, <1>8, <1>9, <2>1 DEF Chain
<1>. QED  BY <1>4, <1>6, <1>10 DEF t, l

\* Rows are passed as micro-batches are run.
LEMMA ThroughNext ==
  ASSUME NEW n, NEW o, NEW ms, Through(o, ms, n), ms # <<>>
  PROVE  Through(o \o Head(ms), Tail(ms), n)
<1>. DEFINE a == Len(o)
            l == Len(Head(ms))
<1>1. o = Run(0, a) /\ a \in Nat /\ Chain(ms, a, n)
  BY DEF Through
<1>2. Head(ms) = Run(a, l) /\ l \in Nat \ {0} /\ Chain(Tail(ms), a + l, n)
  BY <1>1, ChainNext
<1>. HIDE DEF a, l
<1>3. o \o Head(ms) = Run(0, a + l)
  <2>1. Run(0, a) \o Run(0 + a, l) = Run(0, a + l) /\ 0 + a = a
    <3>1. 0 \in Nat /\ a \in Nat /\ l \in Nat /\ 0 + a = a
      BY <1>1, <1>2
    <3>. QED  BY <3>1, RunJoin
  <2>. QED  BY <1>1, <1>2, <2>1
<1>4. Len(o \o Head(ms)) = a + l /\ a + l \in Nat
  <2>1. 0 \in Nat /\ a + l \in Nat
    BY <1>1, <1>2
  <2>2. Len(Run(0, a + l)) = a + l
    BY <2>1, RunFacts
  <2>. QED  BY <1>3, <2>1, <2>2
<1>. QED  BY <1>2, <1>3, <1>4 DEF Through

\* When all have been run, the order is that of the rows.
LEMMA ThroughDone ==
  ASSUME NEW n, NEW o, Through(o, <<>>, n)
  PROVE  Len(o) = n /\ n \in Nat /\ o = Run(0, n)
BY DEF Through, Chain

\* The pieces of s behind the first d of them.
Rest(s, d) == [i \in 1 .. Len(s) - d |-> s[d + i]]

\* What is left of a sequence.
LEMMA RestFacts ==
  ASSUME NEW T, NEW s \in Seq(T), NEW d \in 0 .. Len(s)
  PROVE  /\ Rest(s, d) \in Seq(T) /\ Len(Rest(s, d)) = Len(s) - d
         /\ Rest(s, 0) = s
         /\ Rest(s, d) # <<>> <=> d < Len(s)
         /\ d < Len(s) => Head(Rest(s, d)) = s[d + 1] /\ Tail(Rest(s, d)) = Rest(s, d + 1)
<1>. DEFINE u == Rest(s, d)
            m == Len(s) - d
<1>1. Len(s) \in Nat /\ d \in Nat /\ m \in Nat
  OBVIOUS
<1>2. \A i \in 1 .. m : d + i \in 1 .. Len(s) /\ s[d + i] \in T
  OBVIOUS
<1>3. u = [i \in 1 .. m |-> s[d + i]]
  BY DEF Rest
<1>. HIDE DEF u
<1>4. u \in Seq(T) /\ Len(u) = m
  BY <1>1, <1>2, <1>3
<1>5. Rest(s, 0) = s
  <2>1. Rest(s, 0) = [i \in 1 .. Len(s) |-> s[0 + i]]
    BY <1>1 DEF Rest
  <2>2. \A i \in 1 .. Len(s) : 0 + i = i
    OBVIOUS
  <2>3. Rest(s, 0) = [i \in 1 .. Len(s) |-> s[i]]
    BY <2>1, <2>2
  <2>. QED  BY <2>3
<1>6. u # <<>> <=> d < Len(s)
  BY <1>1, <1>4
<1>7. ASSUME d < Len(s) PROVE Head(u) = s[d + 1] /\ Tail(u) = Rest(s, d + 1)
  <2>1. u[1] = s[d + 1] /\ Head(u) = u[1]
    BY <1>1, <1>3, <1>4, <1>7
  <2>. DEFINE v == Tail(u)
  <2>2. v \in Seq(T) /\ Len(v) = m - 1 /\ \A i \in 1 .. m - 1 : v[i] = u[i + 1]
    <3>1. u \in Seq(T) /\ u # <<>> /\ Len(u) = m
      BY <1>4, <1>6, <1>7
    <3>. HIDE DEF m
    <3>. QED  BY <3>1
  <2>3. \A i \in 1 .. m - 1 : u[i + 1] = s[(d + 1) + i]
    <3>. SUFFICES ASSUME NEW i \in 1 .. m - 1 PROVE u[i + 1] = s[(d + 1) + i]
      OBVIOUS
    <3>1. i + 1 \in 1 .. m /\ d + (i + 1) = (d + 1) + i
      BY <1>1
    <3>. QED  BY <1>3, <3>1
  <2>4. Rest(s, d + 1) = [i \in 1 .. m - 1 |-> s[(d + 1) + i]]
    <3>1. Len(s) - (d + 1) = m - 1
      BY <1>1
    <3>. QED  BY <3>1 DEF Rest
  <2>5. v = [i \in 1 .. m - 1 |-> v[i]]
    <3>. HIDE DEF v, m
    <3>. QED  BY <2>2
  <2>. HIDE DEF v
  <2>6. v = Rest(s, d + 1)
    BY <2>2, <2>3, <2>4, <2>5
  <2>. QED  BY <2>1, <2>6 DEF v
<1>. QED  BY <1>4, <1>5, <1>6, <1>7 DEF u

(***************************************************************************)
(* Parts of a batch and pieces of a part                                   *)
(***************************************************************************)

\* The part of a rank, and the pieces the rank cuts it into.
Part(b)     == Len(b) \div World
Local(b, r) == Run((r - 1) * Part(b), Part(b))
Whole(c, st, b, r) ==
  IF st = "old_log_prob" THEN <<Local(b, r)>> ELSE CutOf(c.mm, Local(b, r), c.mini)

\* A batch that the ranks and the mini-batches divide.
Even(c, b) == Len(b) % (World * c.mini) = 0

\* What is assumed of a configuration.
Config(c) ==
  /\ c.lens \in Seq(Nat \ {0}) /\ c.lens # <<>>
  /\ c.mini \in Nat \ {0} /\ c.micro \in Nat \ {0} /\ c.lp_micro \in Nat \ {0}
  /\ c.max_token_len \in Nat \ {0}
  /\ c.mini % c.micro = 0

\* What BatchAssumption says of a configuration.
LEMMA ConfigsAre ==
  /\ World \in Nat \ {0} /\ Cap \in Nat \ {0}
  /\ \A c \in Configs : Config(c)
BY BatchAssumption DEF Config

\* A batch is as many parts as there are ranks.
LEMMA PartFacts ==
  ASSUME NEW b, Len(b) \in Nat \ {0}, Len(b) % World = 0
  PROVE  /\ Part(b) \in Nat \ {0} /\ Len(b) = World * Part(b)
         /\ \A r \in Rank : (r - 1) * Part(b) \in Nat
<1>. DEFINE n == Len(b)
            z == Part(b)
            w == World
<1>1. w \in Nat \ {0}
  BY ConfigsAre
<1>2. z = n \div w /\ n % w = 0 /\ n \in Nat \ {0}
  BY DEF Part
<1>. HIDE DEF n, z, w
<1>3. z \in Nat /\ n = w * z + (n % w)
  BY <1>1, <1>2, DivRem
<1>4. w * z \in Nat /\ n = w * z
  BY <1>1, <1>2, <1>3, MulNat
<1>5. z # 0
  <2>. SUFFICES ASSUME z = 0 PROVE FALSE
    OBVIOUS
  <2>1. w * z = 0
    BY <1>1, <1>3
  <2>. QED  BY <1>2, <1>4, <2>1
<1>6. \A r \in Rank : (r - 1) * z \in Nat
  <2>. SUFFICES ASSUME NEW r \in Rank PROVE (r - 1) * z \in Nat
    OBVIOUS
  <2>1. r - 1 \in Nat
    BY <1>1 DEF Rank, w
  <2>. QED  BY <1>3, <2>1, MulNat
<1>. QED  BY <1>3, <1>4, <1>5, <1>6 DEF n, z, w

\* What the driver sends to a rank is its part.
LEMMA LocalIs ==
  ASSUME NEW b, Len(b) \in Nat \ {0}, Len(b) % World = 0, NEW r \in Rank
  PROVE  /\ Chunk(Places(Len(b)), World)[r] = Local(b, r)
         /\ Local(b, r) \in Seq(Nat) /\ Len(Local(b, r)) = Part(b)
         /\ \A j \in 1 .. Part(b) : /\ Local(b, r)[j] = (r - 1) * Part(b) + j
                                    /\ Local(b, r)[j] \in 1 .. Len(b)
<1>. DEFINE n == Len(b)
            z == Part(b)
            a == (r - 1) * z
<1>1. /\ World \in Nat \ {0} /\ r \in Nat \ {0} /\ r <= World /\ r - 1 \in Nat /\ r \in 1 .. World
      /\ n \in Nat \ {0}
  BY ConfigsAre DEF Rank
<1>2. z \in Nat \ {0} /\ n = World * z /\ a \in Nat
  BY PartFacts
<1>3. r * z = a + z /\ r * z <= n /\ r * z \in Nat
  <2>1. ((r - 1) + 1) * z = (r - 1) * z + z
    BY <1>1, <1>2, MulNat
  <2>2. (r - 1) + 1 = r
    BY <1>1
  <2>3. r * z <= World * z
    BY <1>1, <1>2, MulMono
  <2>4. r * z = a + z
    BY <2>1, <2>2
  <2>. HIDE DEF a, z
  <2>. QED  BY <1>2, <2>3, <2>4
<1>4. Places(n) = Run(0, n)
  <2>1. \A i \in 1 .. n : 0 + i = i
    OBVIOUS
  <2>. QED  BY <2>1 DEF Places, Run
<1>5. Len(Places(n)) = n
  BY <1>1, <1>4, RunFacts
<1>6. Chunk(Places(n), World)[r] = SubSeq(Places(n), a + 1, r * z)
  <2>1. Len(Places(n)) \div World = z
    BY <1>5 DEF Part
  <2>. QED  BY <1>1, <2>1 DEF Chunk
<1>. HIDE DEF n, a, z
<1>7. SubSeq(Run(0, n), a + 1, r * z) = Run(a, z)
  <2>1. \A i, j \in Nat : i + j <= n => SubSeq(Run(0, n), i + 1, i + j) = Run(i, j)
    BY <1>1, FirstRun
  <2>2. a \in Nat /\ z \in Nat /\ a + z <= n
    BY <1>2, <1>3
  <2>3. SubSeq(Run(0, n), a + 1, a + z) = Run(a, z)
    BY <2>1, <2>2, Zenon
  <2>. QED  BY <1>3, <2>3, Zenon
<1>8. Chunk(Places(n), World)[r] = Run(a, z)
  BY <1>4, <1>6, <1>7
<1>9. /\ Run(a, z) \in Seq(Nat) /\ Len(Run(a, z)) = z
      /\ \A j \in 1 .. z : Run(a, z)[j] = a + j
  BY <1>2, RunFacts
<1>10. \A j \in 1 .. z : a + j \in 1 .. n
  BY <1>1, <1>2, <1>3
<1>. QED  BY <1>8, <1>9, <1>10 DEF Local, n, a, z

\* How many pieces a rank makes and how long they are: the same on all ranks.
PieceTotal(c, st, b) == IF st = "old_log_prob" THEN 1 ELSE PieceCount(c.mm, Part(b), c.mini)
PieceLen(c, st, b, i) ==
  IF st = "old_log_prob" THEN Part(b)
  ELSE PieceEnds(c.mm, Part(b), c.mini)[i] - PieceEnds(c.mm, Part(b), c.mini)[i - 1]

\* The pieces of a rank are a chain of runs of its part, alike on all ranks.
LEMMA WholeFacts ==
  ASSUME NEW c, Config(c), NEW st, NEW b, Len(b) \in Nat \ {0}, Len(b) % World = 0,
         st # "old_log_prob" => CuttableOf(c.mm, Part(b), c.mini), NEW r \in Rank
  PROVE  /\ Whole(c, st, b, r) \in Seq(Seq(Nat))
         /\ Chain(Whole(c, st, b, r), (r - 1) * Part(b), (r - 1) * Part(b) + Part(b))
         /\ Len(Whole(c, st, b, r)) = PieceTotal(c, st, b) /\ PieceTotal(c, st, b) \in Nat \ {0}
         /\ \A i \in 1 .. PieceTotal(c, st, b) :
               /\ Len(Whole(c, st, b, r)[i]) = PieceLen(c, st, b, i)
               /\ PieceLen(c, st, b, i) \in Nat \ {0}
               /\ \A j \in 1 .. PieceLen(c, st, b, i) : Whole(c, st, b, r)[i][j] \in 1 .. Len(b)
<1>. DEFINE a == (r - 1) * Part(b)
            z == Part(b)
            s == Whole(c, st, b, r)
            k == PieceTotal(c, st, b)
<1>1. a \in Nat /\ z \in Nat \ {0} /\ Local(b, r) = Run(a, z)
  BY PartFacts DEF Local
<1>0. \A j \in 1 .. z : a + j \in 1 .. Len(b)
  <2>1. \A j \in 1 .. z : Local(b, r)[j] = a + j /\ Local(b, r)[j] \in 1 .. Len(b)
    BY LocalIs
  <2>. QED  BY <2>1
<1>2. \E f : /\ Cuts(f, k, z) /\ Chain(s, a, a + z) /\ Len(s) = k /\ k \in Nat \ {0}
            /\ \A i \in 1 .. k : /\ s[i] = Run(a + f[i - 1], f[i] - f[i - 1])
                                 /\ PieceLen(c, st, b, i) = f[i] - f[i - 1]
  <2>1. CASE st = "old_log_prob"
    <3>1. s = <<Run(a, z)>> /\ k = 1 /\ \A i \in 1 .. 1 : i = 1 /\ PieceLen(c, st, b, i) = z
      BY <1>1, <2>1 DEF Whole, PieceTotal, PieceLen
    <3>. DEFINE f == [i \in 0 .. 1 |-> i * z]
    <3>. HIDE DEF s, k, a, z
    <3>2. /\ Run(a, z) \in Seq(Nat) /\ Len(Run(a, z)) = z /\ Run(a, z) # <<>>
          /\ Run(a, z)[1] = a + 1
      <4>1. /\ Run(a, z) \in Seq(Nat) /\ Len(Run(a, z)) = z /\ z # 0
            /\ \A q \in 1 .. z : Run(a, z)[q] = a + q
        BY <1>1, RunFacts
      <4>2. 1 \in 1 .. z
        BY <1>1
      <4>3. Run(a, z) # <<>>
        BY <1>1, RunFacts
      <4>. QED  BY <4>1, <4>2, <4>3
    <3>3. (a + 1) - 1 = a /\ a + z \in Nat /\ (a + 1) + z = (a + z) + 1
      BY <1>1
    <3>4. s \in Seq(Seq(Nat)) /\ DOMAIN s = {1} /\ Len(s) = 1 /\ s[1] = Run(a, z) /\ s # <<>>
      BY <3>1, <3>2
    <3>5. Chain(s, a, a + z)
      <4>1. \A p \in DOMAIN s : p = 1 /\ p + 1 \notin DOMAIN s
        BY <3>4
      <4>2. s[1] = Run(s[1][1] - 1, Len(s[1])) /\ s[1] # <<>>
        BY <3>2, <3>3, <3>4
      <4>3. s[1][1] = a + 1 /\ s[Len(s)][1] + Len(s[Len(s)]) = (a + z) + 1
        BY <3>2, <3>3, <3>4
      <4>. QED  BY <1>1, <3>3, <3>4, <4>1, <4>2, <4>3 DEF Chain
    <3>6. f[0] = 0 /\ f[1] = z /\ f \in [0 .. 1 -> Nat]
      <4>1. \A i \in 0 .. 1 : i * z \in Nat
        BY <1>1, MulNat
      <4>2. 0 * z = 0 /\ 1 * z = z
        BY <1>1
      <4>. QED  BY <4>1, <4>2
    <3>. HIDE DEF f
    <3>7. Cuts(f, 1, z)
      BY <1>1, <3>6 DEF Cuts
    <3>8. \A i \in 1 .. 1 : i = 1 /\ a + f[i - 1] = a /\ f[i] - f[i - 1] = z
      BY <1>1, <3>6
    <3>. QED  BY <3>1, <3>4, <3>5, <3>7, <3>8
  <2>2. CASE st # "old_log_prob"
    <3>1. /\ s = CutOf(c.mm, Run(a, z), c.mini) /\ k = PieceCount(c.mm, z, c.mini)
          /\ \A i : PieceLen(c, st, b, i)
                      = PieceEnds(c.mm, z, c.mini)[i] - PieceEnds(c.mm, z, c.mini)[i - 1]
      BY <1>1, <2>2 DEF Whole, PieceTotal, PieceLen
    <3>2. c.mini \in Nat \ {0} /\ CuttableOf(c.mm, z, c.mini)
      BY <2>2 DEF Config
    <3>. DEFINE m == c.mini
                f == PieceEnds(c.mm, z, m)
    <3>3. m \in Nat \ {0} /\ CuttableOf(c.mm, z, m)
      BY <3>2
    <3>. HIDE DEF s, k, a, z, m
    <3>4. CutInto(CutOf(c.mm, Run(a, z), m), a, z, m, PieceCount(c.mm, z, m), PieceEnds(c.mm, z, m))
      BY <1>1, <3>3, CutFacts
    <3>5. CutInto(s, a, z, m, k, f)
      BY <3>1, <3>4 DEF m
    <3>6. \A i : PieceLen(c, st, b, i) = f[i] - f[i - 1]
      BY <3>1 DEF m
    <3>. HIDE DEF f
    <3>. QED  BY <3>5, <3>6 DEF CutInto
  <2>. QED  BY <2>1, <2>2
<1>. HIDE DEF s, k, a, z
<1>3. PICK f : /\ Cuts(f, k, z) /\ Chain(s, a, a + z) /\ Len(s) = k /\ k \in Nat \ {0}
               /\ \A i \in 1 .. k : /\ s[i] = Run(a + f[i - 1], f[i] - f[i - 1])
                                    /\ PieceLen(c, st, b, i) = f[i] - f[i - 1]
  BY <1>2
<1>4. s \in Seq(Seq(Nat))
  BY <1>3 DEF Chain
<1>5. ASSUME NEW i \in 1 .. k
      PROVE  /\ Len(s[i]) = PieceLen(c, st, b, i) /\ PieceLen(c, st, b, i) \in Nat \ {0}
             /\ \A j \in 1 .. PieceLen(c, st, b, i) : s[i][j] \in 1 .. Len(b)
  <2>. DEFINE l == f[i - 1]
              h == f[i]
  <2>1. l \in Nat /\ h \in Nat /\ l < h /\ h <= z
    <3>1. f \in [0 .. k -> Nat] /\ f[i - 1] < f[i] /\ f[i] <= z
      BY <1>3 DEF Cuts
    <3>2. i \in 0 .. k /\ i - 1 \in 0 .. k
      BY <1>3
    <3>. QED  BY <3>1, <3>2
  <2>2. s[i] = Run(a + l, h - l) /\ PieceLen(c, st, b, i) = h - l
    BY <1>3
  <2>. HIDE DEF l, h
  <2>3. a + l \in Nat /\ h - l \in Nat
    BY <1>1, <2>1
  <2>4. Len(s[i]) = h - l /\ \A j \in 1 .. h - l : s[i][j] = (a + l) + j
    <3>. DEFINE x == a + l
                w == h - l
    <3>1. x \in Nat /\ w \in Nat /\ s[i] = Run(x, w)
      BY <2>2, <2>3
    <3>. HIDE DEF x, w
    <3>2. Len(Run(x, w)) = w /\ \A j \in 1 .. w : Run(x, w)[j] = x + j
      BY <3>1, RunFacts
    <3>3. Len(s[i]) = w /\ \A j \in 1 .. w : s[i][j] = x + j
      BY <3>1, <3>2
    <3>. QED  BY <3>3 DEF x, w
  <2>5. \A j \in 1 .. h - l : l + j \in 1 .. z /\ (a + l) + j = a + (l + j)
    BY <1>1, <2>1
  <2>6. \A j \in 1 .. h - l : s[i][j] \in 1 .. Len(b)
    BY <1>0, <2>4, <2>5
  <2>. QED  BY <2>1, <2>2, <2>4, <2>6
<1>. QED  BY <1>3, <1>4, <1>5 DEF s, k, a, z

\* With a batch that is divided, mini-batches are cut without a rest.
LEMMA EvenParts ==
  ASSUME NEW c, Config(c), NEW b, Len(b) \in Nat \ {0}, Even(c, b)
  PROVE  /\ Len(b) % World = 0 /\ Part(b) % c.mini = 0 /\ CuttableOf(c.mm, Part(b), c.mini)
         /\ Part(b) \div c.mini \in Nat \ {0} /\ Part(b) = (Part(b) \div c.mini) * c.mini
<1>. DEFINE n == Len(b)
            w == World
            m == c.mini
            q == n \div (w * m)
            z == Part(b)
<1>1. w \in Nat \ {0} /\ m \in Nat \ {0} /\ n \in Nat \ {0}
  BY ConfigsAre DEF Config
<1>2. n % (w * m) = 0 /\ z = n \div w
  BY DEF Even, Part
<1>. HIDE DEF n, w, m, z, q
<1>3. w * m \in Nat \ {0}
  BY <1>1, MulNat
<1>4. q \in Nat /\ n = (w * m) * q
  <2>. DEFINE v == w * m
  <2>1. v \in Nat \ {0} /\ n \in Nat
    BY <1>1, <1>3
  <2>2. q = n \div v /\ n % v = 0
    BY <1>2 DEF q
  <2>. HIDE DEF v
  <2>3. q \in Nat /\ n = v * q + (n % v)
    BY <2>1, <2>2, DivRem
  <2>4. v * q \in Nat
    BY <2>1, <2>3, MulNat
  <2>5. n = v * q
    BY <2>2, <2>3, <2>4
  <2>. QED  BY <2>3, <2>5 DEF v
<1>5. n = w * (m * q) /\ m * q \in Nat
  BY <1>1, <1>4, MulAssoc, MulNat
<1>6. z = m * q /\ n % w = 0
  <2>. DEFINE y == m * q
  <2>1. y \in Nat /\ n = w * y
    BY <1>5
  <2>. HIDE DEF y
  <2>2. (w * y) \div w = y /\ (w * y) % w = 0
    BY <1>1, <2>1, DivMul
  <2>. QED  BY <1>2, <2>1, <2>2 DEF y
<1>7. z % m = 0 /\ z \div m = q /\ z = q * m
  BY <1>1, <1>4, <1>6, DivMul, MulNat
<1>8. q # 0
  <2>. SUFFICES ASSUME q = 0 PROVE FALSE
    OBVIOUS
  <2>1. (w * m) * q = 0
    BY <1>3
  <2>. QED  BY <1>1, <1>4, <2>1
<1>9. z % q = 0
  BY <1>4, <1>1, <1>7, <1>8, DivMul
<1>10. CuttableOf(c.mm, z, m)
  BY <1>4, <1>7, <1>8, <1>9 DEF CuttableOf, Chunkable
<1>. QED  BY <1>4, <1>6, <1>7, <1>8, <1>10 DEF n, w, m, z

\* All mini-batches are then full, and micro-batches of a fixed size cut them without a rest.
LEMMA EvenPieces ==
  ASSUME NEW c, Config(c), NEW b, Len(b) \in Nat \ {0}, Even(c, b), NEW st, st # "old_log_prob",
         NEW r \in Rank
  PROVE  /\ PieceTotal(c, st, b) = Part(b) \div c.mini
         /\ \A i \in 1 .. PieceTotal(c, st, b) :
               /\ PieceLen(c, st, b, i) = c.mini
               /\ Whole(c, st, b, r)[i] = Run((r - 1) * Part(b) + (i - 1) * c.mini, c.mini)
         /\ CuttableOf(c.mm, c.mini, c.micro)
<1>. DEFINE z == Part(b)
            m == c.mini
            u == c.micro
            a == (r - 1) * Part(b)
            f == PieceEnds(c.mm, z, m)
            s == Whole(c, st, b, r)
            k == PieceCount(c.mm, z, m)
<1>1. z % m = 0 /\ CuttableOf(c.mm, z, m) /\ Len(b) % World = 0
  BY EvenParts
<1>2. z \in Nat \ {0} /\ m \in Nat \ {0} /\ u \in Nat \ {0} /\ m % u = 0 /\ 0 \in Nat
  BY <1>1, PartFacts DEF Config
<1>3. PieceTotal(c, st, b) = k /\ s = CutOf(c.mm, Run(a, z), m) /\ a \in Nat
  BY <1>1, PartFacts DEF PieceTotal, Whole, Local
<1>4. \A i : PieceLen(c, st, b, i) = f[i] - f[i - 1]
  BY DEF PieceLen
<1>. HIDE DEF z, m, u, a
<1>5. k = z \div m /\ \A i \in 1 .. k : f[i] - f[i - 1] = m /\ s[i] = Run(a + (i - 1) * m, m)
  <2>1. CuttableOf(c.mm, z, m) /\ z % m = 0 /\ z \in Nat \ {0} /\ m \in Nat \ {0}
    BY <1>1, <1>2
  <2>2. CutInto(CutOf(c.mm, Run(a, z), m), a, z, m, k, f)
    BY <1>3, <2>1, CutFacts
  <2>3. CutInto(s, a, z, m, k, f)
    BY <1>3, <2>2
  <2>. HIDE DEF k, f, s
  <2>4. /\ k = z \div m /\ k \in Nat \ {0}
        /\ \A i \in 0 .. k : f[i] = i * m
        /\ \A i \in 1 .. k : s[i] = Run(a + f[i - 1], f[i] - f[i - 1])
    BY <2>1, <2>3 DEF CutInto
  <2>5. ASSUME NEW i \in 1 .. k PROVE f[i - 1] = (i - 1) * m /\ f[i] - f[i - 1] = m
    <3>1. i \in 0 .. k /\ i - 1 \in 0 .. k /\ i - 1 \in Nat
      BY <2>4
    <3>2. f[i] = i * m /\ f[i - 1] = (i - 1) * m
      BY <2>4, <3>1
    <3>3. i * m = (i - 1) * m + m /\ (i - 1) * m \in Nat
      BY <2>1, <3>1, MulNat
    <3>. QED  BY <2>1, <3>2, <3>3
  <2>6. ASSUME NEW i \in 1 .. k PROVE s[i] = Run(a + (i - 1) * m, m)
    BY <2>4, <2>5
  <2>. QED  BY <2>4, <2>5, <2>6
<1>6. CuttableOf(c.mm, m, u)
  <2>. DEFINE q == m \div u
  <2>1. q \in Nat /\ m = u * q
    <3>1. q \in Nat /\ m = u * q + (m % u)
      BY <1>2, DivRem
    <3>. HIDE DEF q
    <3>2. u * q \in Nat
      BY <1>2, <3>1, MulNat
    <3>. QED  BY <1>2, <3>1, <3>2
  <2>2. q = m \div u
    OBVIOUS
  <2>. HIDE DEF q
  <2>3. q # 0
    <3>. SUFFICES ASSUME q = 0 PROVE FALSE
      OBVIOUS
    <3>1. u * q = 0
      BY <1>2
    <3>. QED  BY <1>2, <2>1, <3>1
  <2>4. m % q = 0
    <3>1. (q * u) % q = 0 /\ q * u = u * q
      BY <1>2, <2>1, <2>3, DivMul, MulNat
    <3>. QED  BY <2>1, <3>1
  <2>. QED  BY <2>1, <2>2, <2>3, <2>4 DEF CuttableOf, Chunkable
<1>. QED  BY <1>3, <1>4, <1>5, <1>6 DEF z, m, u, a

(***************************************************************************)
(* The inductive invariant                                                 *)
(***************************************************************************)

\* The batch can be dealt out to the ranks.
Parted(b) == Len(b) \in Nat \ {0} /\ Len(b) % World = 0

\* Rows of a micro-batch of a fixed size.
Micro(c, st) == IF st = "old_log_prob" THEN c.lp_micro ELSE c.micro

\* The mini-batches of a rank can be cut.
MiniCut(c, st, b) == st # "old_log_prob" => CuttableOf(c.mm, Part(b), c.mini)

\* A rank has d pieces behind it and the pieces pc before it.
InPart(c, st, b, r, pc, d) ==
  /\ MiniCut(c, st, b) /\ d \in Nat /\ d < PieceTotal(c, st, b)
  /\ pc = Rest(Whole(c, st, b, r), d)

\* The weights of a step are those of a whole mini-batch.
Weighs(c, b) == Even(c, b) /\ ~(c.mm /\ c.dynamic)

\* A rank has run the places ord of a piece of n rows, and has still to run the micro-batches ms.
Running(c, st, b, n, ms, ord) ==
  IF c.dynamic THEN Deals(ord, ms, n)
  ELSE /\ Through(ord, ms, n) /\ CuttableOf(c.mm, n, Micro(c, st))
       /\ ord = <<>> => Len(ms) = PieceCount(c.mm, n, Micro(c, st))
       /\ st # "old_log_prob" /\ Even(c, b) => \A i \in 1 .. Len(ms) : Len(ms[i]) = c.micro

\* What has come out of running them: log-probabilities, or the sums since the last step.
Result(c, st, b, hd, ord, o, g) ==
  IF st = "old_log_prob"
  THEN o = [i \in 1 .. Len(ord) |-> b[hd[ord[i]]].src] /\ g = NoGain
  ELSE /\ g = [rows |-> [i \in 1 .. Len(ord) |-> hd[ord[i]]], weight |-> g.weight]
       /\ g.weight \in Nat
       /\ Weighs(c, b) => g.weight = Len(ord)

\* Step s was taken with the rows p in some order.
Taken(c, b, p, s) ==
  /\ \E ord \in [1 .. Len(p) -> 1 .. Len(p)] :
        Permutes(ord, Len(p)) /\ s.rows = [i \in 1 .. Len(p) |-> p[ord[i]]]
  /\ Weighs(c, b) => s.weight = Len(p)

\* Each of the steps sp was taken with a mini-batch of the rank, one after the other.
StepsOK(c, b, r, sp) ==
  /\ sp \in Seq([rows : Seq(Nat), weight : Nat])
  /\ \A k \in 1 .. Len(sp) : Taken(c, b, Whole(c, "update_actor", b, r)[k], sp[k])

\* WidthFits, of a configuration.
Fits(c) == c.dynamic => c.width <= c.max_token_len

\* A rank that raises cannot cut its part, or the piece in hand.
Refused(c, st, b, d) ==
  \/ ~MiniCut(c, st, b)
  \/ ~Fits(c)
  \/ ~c.dynamic /\ d + 1 \in 1 .. PieceTotal(c, st, b)
       /\ ~CuttableOf(c.mm, PieceLen(c, st, b, d + 1), Micro(c, st))

\* A rank that is done has run all of its pieces.
AllRun(c, st, b, r, o, d) ==
  IF st = "old_log_prob" THEN o = [i \in 1 .. Part(b) |-> b[Local(b, r)[i]].src]
  ELSE MiniCut(c, st, b) /\ d = PieceTotal(c, st, b)

\* What rank r may be doing (w) and hold at each stage.
RankOK(c, st, b, r, w, pc, ms, o, ord, g, sp) ==
  /\ StepsOK(c, b, r, sp)
  /\ st \notin {"update_actor", "done"} => sp = <<>>
  /\ w # "run" => g = NoGain
  /\ \/ w = "idle" /\ (IF st = "done" THEN AllRun(c, st, b, r, o, Len(sp)) ELSE sp = <<>>)
     \/ w = "start" /\ pc = <<Local(b, r)>> /\ sp = <<>>
     \/ w = "piece" /\ InPart(c, st, b, r, pc, Len(sp)) /\ (st = "old_log_prob" => o = <<>>)
     \/ w = "reduce" /\ InPart(c, st, b, r, pc, Len(sp)) /\ (st = "old_log_prob" => o = <<>>)
          /\ c.dynamic /\ Fits(c) /\ ord = <<>>
     \/ w = "run" /\ InPart(c, st, b, r, pc, Len(sp))
          /\ Running(c, st, b, Len(Head(pc)), ms, ord)
          /\ Result(c, st, b, Head(pc), ord, o, g)
     \/ w = "done" /\ AllRun(c, st, b, r, o, Len(sp))
     \/ w = "raised" /\ Refused(c, st, b, Len(sp))

\* What a rank that does v tells about another one, that does w: they hold the micro-batches ms
\* and mt, have run the places or and os, and have taken d and e steps.
PairOK(c, v, w, ms, mt, os, d, e) ==
  /\ d = e
  /\ v = "idle" => w = "idle"
  /\ v \in {"start", "piece", "reduce"} /\ w = "run" => ~c.dynamic /\ os = <<>>
  /\ v = "done" => w = "done" \/ (w = "run" /\ mt = <<>>)
  /\ v = "run" /\ w = "run" => Len(ms) = Len(mt)
  /\ v = "raised" => w \in {"start", "piece", "raised"}
  /\ v = "reduce" => w \in {"start", "piece", "reduce"}

\* A function of the ranks.
OnRanks(f) == f = [r \in Rank |-> f[r]]

\* What ranks hold are functions of the ranks.
Typed == /\ OnRanks(at) /\ OnRanks(pieces) /\ OnRanks(micros) /\ OnRanks(output)
         /\ OnRanks(order) /\ OnRanks(gain) /\ OnRanks(steps)

\* Every rank, and every two of them, are sound.
RanksOK == \A r \in Rank : RankOK(cfg, stage, batch, r, at[r], pieces[r], micros[r],
                                  output[r], order[r], gain[r], steps[r])
PairsOK == \A r, s \in Rank : PairOK(cfg, at[r], at[s], micros[r], micros[s], order[s],
                                     Len(steps[r]), Len(steps[s]))

\* A row of a batch made from m rows.
RowOf(m) == [src : 1 .. m, pad : BOOLEAN]

\* A batch with m rows of the splitter in front and padding behind them.
Padded(b, m) ==
  /\ m <= Len(b)
  /\ \A i \in 1 .. Len(b) : IF i <= m THEN b[i].src = i /\ ~b[i].pad ELSE b[i].pad

\* What Resize makes of the batch.
SizedBatch(c, b) == /\ b \in Seq(RowOf(Len(c.lens))) /\ Len(b) \in Nat \ {0}
                    /\ c.padding => Padded(b, Len(c.lens))

\* Where the step may be.
StageNames == {"resize", "old_log_prob", "adv", "update_actor", "done", "failed"}

\* The batch has a size the ranks can divide, unless it was cut to the cap.
Sized ==
  /\ cfg \in Configs /\ stage \in StageNames
  /\ stage # "resize" => SizedBatch(cfg, batch) /\ (CapFits => Even(cfg, batch))

\* What the stage tells of the ranks and of the log-probabilities.
Stages ==
  /\ (\E r \in Rank : at[r] # "idle") => stage \in Calls
  /\ stage \in {"adv", "update_actor", "done"} \/ (\E r \in Rank : at[r] # "idle") => Parted(batch)
  /\ stage \in {"adv", "update_actor", "done"} => log_probs = [i \in DOMAIN batch |-> batch[i].src]

\* When the step has failed, no rank moves again.
Stopped == CollectivesMatch /\ FailsOnlyIfRefused /\ \E r \in Rank : at[r] # "reduce"

\* A step that has not failed.
Sound == Typed /\ RanksOK /\ PairsOK /\ Stages

\* CollectivesMatch compares two ranks that run, and says nothing of what brought them there.
BatchInv == Sized /\ (IF stage = "failed" THEN Stopped ELSE Sound)

(***************************************************************************)
(* What a rank has run                                                     *)
(***************************************************************************)

\* The piece in hand is the one behind the first d, and its rows are rows of the batch.
InHand(c, st, b, r, pc, d) ==
  /\ pc \in Seq(Seq(Nat)) /\ pc # <<>> /\ Len(pc) = PieceTotal(c, st, b) - d
  /\ PieceTotal(c, st, b) \in Nat \ {0} /\ d + 1 \in 1 .. PieceTotal(c, st, b)
  /\ Head(pc) = Whole(c, st, b, r)[d + 1] /\ Head(pc) \in Seq(Nat)
  /\ Len(Head(pc)) = PieceLen(c, st, b, d + 1) /\ Len(Head(pc)) \in Nat \ {0}
  /\ \A j \in 1 .. Len(Head(pc)) : Head(pc)[j] \in 1 .. Len(b)
  /\ Len(pc) > 1 <=> d + 1 < PieceTotal(c, st, b)
  /\ d + 1 < PieceTotal(c, st, b) => InPart(c, st, b, r, Tail(pc), d + 1)

\* The piece in hand is the next one of the rank.
LEMMA HeadPiece ==
  ASSUME NEW c, Config(c), NEW st, NEW b, Parted(b), NEW r \in Rank, NEW pc, NEW d,
         InPart(c, st, b, r, pc, d)
  PROVE  InHand(c, st, b, r, pc, d)
<1>. DEFINE s == Whole(c, st, b, r)
            k == PieceTotal(c, st, b)
<1>1. MiniCut(c, st, b) /\ d \in Nat /\ d < k /\ pc = Rest(s, d)
  BY DEF InPart
<1>2. /\ s \in Seq(Seq(Nat)) /\ Len(s) = k /\ k \in Nat \ {0}
      /\ \A i \in 1 .. k : /\ Len(s[i]) = PieceLen(c, st, b, i)
                           /\ PieceLen(c, st, b, i) \in Nat \ {0}
                           /\ \A j \in 1 .. PieceLen(c, st, b, i) : s[i][j] \in 1 .. Len(b)
  <2>1. /\ Len(b) \in Nat \ {0} /\ Len(b) % World = 0
        /\ st # "old_log_prob" => CuttableOf(c.mm, Part(b), c.mini)
    BY <1>1 DEF Parted, MiniCut
  <2>. QED  BY <2>1, WholeFacts
<1>. HIDE DEF s, k
<1>3. d + 1 \in 1 .. k /\ d \in 0 .. Len(s)
  BY <1>1, <1>2
<1>4. /\ pc \in Seq(Seq(Nat)) /\ Len(pc) = k - d /\ pc # <<>>
      /\ Head(pc) = s[d + 1] /\ Tail(pc) = Rest(s, d + 1)
  <2>1. s \in Seq(Seq(Nat))
    BY <1>2
  <2>. DEFINE T == Seq(Nat)
  <2>2. s \in Seq(T)
    BY <2>1
  <2>. HIDE DEF T
  <2>3. /\ Rest(s, d) \in Seq(T) /\ Len(Rest(s, d)) = Len(s) - d
        /\ Rest(s, d) # <<>> <=> d < Len(s)
        /\ d < Len(s) => Head(Rest(s, d)) = s[d + 1] /\ Tail(Rest(s, d)) = Rest(s, d + 1)
    BY <1>3, <2>2, RestFacts
  <2>. QED  BY <1>1, <1>2, <2>3 DEF T
<1>5. Head(pc) \in Seq(Nat)
  BY <1>2, <1>3, <1>4
<1>6. d + 1 < k => InPart(c, st, b, r, Tail(pc), d + 1)
  BY <1>1, <1>4 DEF InPart, s, k
<1>7. Len(pc) > 1 <=> d + 1 < k
  BY <1>1, <1>2, <1>4
<1>8. /\ Len(Head(pc)) = PieceLen(c, st, b, d + 1) /\ Len(Head(pc)) \in Nat \ {0}
      /\ \A j \in 1 .. Len(Head(pc)) : Head(pc)[j] \in 1 .. Len(b)
  BY <1>2, <1>3, <1>4
<1>. QED  BY <1>2, <1>3, <1>4, <1>5, <1>6, <1>7, <1>8 DEF InHand, s, k

\* Before the first piece all are left.
LEMMA FirstPiece ==
  ASSUME NEW c, Config(c), NEW st, NEW b, Parted(b), NEW r \in Rank, MiniCut(c, st, b)
  PROVE  InPart(c, st, b, r, Whole(c, st, b, r), 0)
<1>. DEFINE s == Whole(c, st, b, r)
<1>1. s \in Seq(Seq(Nat)) /\ Len(s) = PieceTotal(c, st, b) /\ PieceTotal(c, st, b) \in Nat \ {0}
  <2>1. /\ Len(b) \in Nat \ {0} /\ Len(b) % World = 0
        /\ st # "old_log_prob" => CuttableOf(c.mm, Part(b), c.mini)
    BY DEF Parted, MiniCut
  <2>. QED  BY <2>1, WholeFacts
<1>. HIDE DEF s
<1>2. Rest(s, 0) = s
  <2>. DEFINE T == Seq(Nat)
  <2>1. s \in Seq(T) /\ 0 \in 0 .. Len(s)
    BY <1>1
  <2>. HIDE DEF T
  <2>. QED  BY <2>1, RestFacts
<1>. QED  BY <1>1, <1>2 DEF InPart, s

\* Micro-batches of a fixed size, before the first of them is run.
LEMMA FixedFirst ==
  ASSUME NEW c, Config(c), NEW st, NEW b, NEW n \in Nat \ {0}, ~c.dynamic,
         CuttableOf(c.mm, n, Micro(c, st)), st # "old_log_prob" /\ Even(c, b) => n = c.mini
  PROVE  /\ Running(c, st, b, n, CutOf(c.mm, Places(n), Micro(c, st)), <<>>)
         /\ Len(CutOf(c.mm, Places(n), Micro(c, st))) = PieceCount(c.mm, n, Micro(c, st))
<1>. DEFINE z == Micro(c, st)
            ms == CutOf(c.mm, Places(n), z)
            k == PieceCount(c.mm, n, z)
            f == PieceEnds(c.mm, n, z)
<1>1. z \in Nat \ {0} /\ 0 \in Nat /\ CuttableOf(c.mm, n, z)
  BY DEF Micro, Config
<1>2. st # "old_log_prob" => z = c.micro
  BY DEF Micro
<1>3. Places(n) = Run(0, n)
  <2>1. \A i \in 1 .. n : 0 + i = i
    OBVIOUS
  <2>. QED  BY <2>1 DEF Places, Run
<1>. HIDE DEF z
<1>4. CutInto(ms, 0, n, z, k, f)
  <2>1. CutInto(CutOf(c.mm, Run(0, n), z), 0, n, z, PieceCount(c.mm, n, z), PieceEnds(c.mm, n, z))
    BY <1>1, CutFacts
  <2>. QED  BY <1>3, <2>1
<1>. HIDE DEF ms, k, f
<1>5. /\ Chain(ms, 0, 0 + n) /\ Len(ms) = k /\ k \in Nat \ {0}
      /\ \A i \in 1 .. k : ms[i] = Run(0 + f[i - 1], f[i] - f[i - 1])
      /\ n % z = 0 => \A i \in 0 .. k : f[i] = i * z
  BY <1>4 DEF CutInto
<1>6. Through(<<>>, ms, n)
  <2>1. 0 + n = n
    OBVIOUS
  <2>. QED  BY <1>5, <2>1, ThroughFirst
<1>7. ASSUME st # "old_log_prob", Even(c, b), NEW i \in 1 .. Len(ms) PROVE Len(ms[i]) = c.micro
  <2>1. n % z = 0 /\ z = c.micro
    BY <1>2, <1>7 DEF Config
  <2>2. i \in 1 .. k /\ i \in 0 .. k /\ i - 1 \in 0 .. k /\ i - 1 \in Nat
    BY <1>5, <1>7
  <2>3. f[i] = i * z /\ f[i - 1] = (i - 1) * z
    BY <1>5, <2>1, <2>2
  <2>4. i * z = (i - 1) * z + z /\ (i - 1) * z \in Nat
    BY <1>1, <2>2, MulNat
  <2>5. 0 + f[i - 1] \in Nat /\ f[i] - f[i - 1] = z
    BY <1>1, <2>3, <2>4
  <2>6. ms[i] = Run(0 + f[i - 1], z)
    BY <1>5, <2>2, <2>5
  <2>. DEFINE a == 0 + f[i - 1]
  <2>. HIDE DEF a
  <2>7. a \in Nat /\ ms[i] = Run(a, z)
    BY <2>5, <2>6 DEF a
  <2>8. Len(Run(a, z)) = z
    BY <1>1, <2>7, RunFacts
  <2>. QED  BY <2>1, <2>7, <2>8
<1>8. Running(c, st, b, n, ms, <<>>)
  BY <1>1, <1>5, <1>6, <1>7 DEF Running, z, k
<1>. QED  BY <1>5, <1>8 DEF ms, k, z

\* One micro-batch more.
RunOn(c, st, b, n, ms, ord) ==
  /\ Running(c, st, b, n, Tail(ms), ord \o Head(ms))
  /\ ord \in Seq(Nat) /\ Head(ms) \in Seq(Nat)
  /\ Len(ms) \in Nat \ {0} /\ Len(Tail(ms)) = Len(ms) - 1
  /\ ~c.dynamic /\ st # "old_log_prob" /\ Even(c, b) => Len(Head(ms)) = c.micro

\* A rank runs its next micro-batch.
LEMMA RunningNext ==
  ASSUME NEW c, NEW st, NEW b, NEW n \in Nat, NEW ms, NEW ord, Running(c, st, b, n, ms, ord),
         ms # <<>>
  PROVE  RunOn(c, st, b, n, ms, ord)
<1>1. CASE c.dynamic
  <2>1. Deals(ord, ms, n)
    BY <1>1 DEF Running
  <2>2. Deals(ord \o Head(ms), Tail(ms), n)
    BY <2>1, DealsNext
  <2>3. ord \in Seq(1 .. n) /\ ms \in Seq(Seq(1 .. n))
    BY <2>1 DEF Deals
  <2>4. Head(ms) \in Seq(1 .. n) /\ Len(ms) \in Nat \ {0} /\ Len(Tail(ms)) = Len(ms) - 1
    BY <2>3
  <2>5. ord \in Seq(Nat) /\ Head(ms) \in Seq(Nat)
    BY <2>3, <2>4
  <2>6. Running(c, st, b, n, Tail(ms), ord \o Head(ms))
    BY <1>1, <2>2 DEF Running
  <2>. QED  BY <1>1, <2>4, <2>5, <2>6 DEF RunOn
<1>2. CASE ~c.dynamic
  <2>1. /\ Through(ord, ms, n) /\ CuttableOf(c.mm, n, Micro(c, st))
        /\ st # "old_log_prob" /\ Even(c, b) => \A i \in 1 .. Len(ms) : Len(ms[i]) = c.micro
    BY <1>2 DEF Running
  <2>2. Through(ord \o Head(ms), Tail(ms), n)
    BY <2>1, ThroughNext
  <2>3. ord = Run(0, Len(ord)) /\ Len(ord) \in Nat /\ Chain(ms, Len(ord), n)
    BY <2>1 DEF Through
  <2>4. ms \in Seq(Seq(Nat))
    BY <2>3 DEF Chain
  <2>5. /\ Head(ms) \in Seq(Nat) /\ Head(ms) = ms[1] /\ Len(ms) \in Nat \ {0}
        /\ Len(Tail(ms)) = Len(ms) - 1 /\ 1 \in 1 .. Len(ms)
        /\ \A i \in 1 .. Len(Tail(ms)) : Tail(ms)[i] = ms[i + 1] /\ i + 1 \in 1 .. Len(ms)
    BY <2>4
  <2>6. ord \in Seq(Nat)
    <3>. DEFINE l == Len(ord)
    <3>1. 0 \in Nat /\ l \in Nat /\ ord = Run(0, l)
      BY <2>3
    <3>. HIDE DEF l
    <3>2. Run(0, l) \in Seq(Nat)
      BY <3>1, RunFacts
    <3>. QED  BY <3>1, <3>2
  <2>7. ord \o Head(ms) # <<>>
    <3>. DEFINE h == Head(ms)
    <3>1. Len(h) \in Nat \ {0}
      <4>1. Chain(ms, Len(ord), n) /\ Len(ord) \in Nat
        BY <2>3
      <4>. QED  BY <4>1, ChainNext
    <3>2. h \in Seq(Nat)
      BY <2>5
    <3>. HIDE DEF h
    <3>3. Len(ord \o h) = Len(ord) + Len(h) /\ Len(ord) \in Nat
      BY <2>6, <3>2
    <3>4. Len(ord \o h) # 0
      BY <3>1, <3>3
    <3>5. Len(<<>>) = 0
      OBVIOUS
    <3>. QED  BY <3>4, <3>5 DEF h
  <2>8. st # "old_log_prob" /\ Even(c, b) =>
          \A i \in 1 .. Len(Tail(ms)) : Len(Tail(ms)[i]) = c.micro
    BY <2>1, <2>5
  <2>9. Running(c, st, b, n, Tail(ms), ord \o Head(ms))
    BY <1>2, <2>1, <2>2, <2>7, <2>8 DEF Running
  <2>10. st # "old_log_prob" /\ Even(c, b) => Len(Head(ms)) = c.micro
    BY <2>1, <2>5
  <2>. QED  BY <2>5, <2>6, <2>9, <2>10 DEF RunOn
<1>. QED  BY <1>1, <1>2

\* All micro-batches are run.
LEMMA RunningDone ==
  ASSUME NEW c, NEW st, NEW b, NEW n \in Nat, NEW ord, Running(c, st, b, n, <<>>, ord)
  PROVE  Len(ord) = n /\ Permutes(ord, n) /\ (~c.dynamic => ord = Run(0, n))
<1>1. CASE c.dynamic
  <2>1. Deals(ord, <<>>, n)
    BY <1>1 DEF Running
  <2>. QED  BY <1>1, <2>1, DealsDone
<1>2. CASE ~c.dynamic
  <2>1. Through(ord, <<>>, n)
    BY <1>2 DEF Running
  <2>2. Len(ord) = n /\ ord = Run(0, n)
    BY <2>1, ThroughDone
  <2>3. Permutes(Run(0, n), n)
    <3>1. Run(0, n) = [q \in 1 .. n |-> q]
      <4>1. \A q \in 1 .. n : 0 + q = q
        OBVIOUS
      <4>. QED  BY <4>1 DEF Run
    <3>. QED  BY <3>1 DEF Permutes
  <2>. QED  BY <2>2, <2>3
<1>. QED  BY <1>1, <1>2

\* Two sequences, one behind the other.
LEMMA JoinIs ==
  ASSUME NEW T, NEW s \in Seq(T), NEW t \in Seq(T)
  PROVE  /\ s \o t \in Seq(T) /\ Len(s \o t) = Len(s) + Len(t)
         /\ \A i \in 1 .. Len(s) + Len(t) :
              (s \o t)[i] = IF i <= Len(s) THEN s[i] ELSE t[i - Len(s)]
OBVIOUS

\* Looking up two lists of places, and looking up the two joined.
Looked(F, places) == [i \in 1 .. Len(places) |-> F[places[i]]]

\* Looking up two lists of places, one behind the other.
LEMMA LookUps ==
  ASSUME NEW ord \in Seq(Nat), NEW h \in Seq(Nat), NEW F
  PROVE  Looked(F, ord) \o Looked(F, h) = Looked(F, ord \o h)
<1>. DEFINE T == {F[x] : x \in Nat}
            s == Looked(F, ord)
            t == Looked(F, h)
            w == ord \o h
            u == Looked(F, w)
<1>1. /\ Len(ord) \in Nat /\ Len(h) \in Nat /\ DOMAIN h = 1 .. Len(h)
      /\ \A i \in 1 .. Len(ord) : ord[i] \in Nat
      /\ \A i \in 1 .. Len(h) : h[i] \in Nat
  OBVIOUS
<1>2. s \in Seq(T) /\ Len(s) = Len(ord) /\ \A i \in 1 .. Len(ord) : s[i] = F[ord[i]]
  BY <1>1 DEF Looked
<1>3. t \in Seq(T) /\ Len(t) = Len(h) /\ \A i \in 1 .. Len(h) : t[i] = F[h[i]]
  BY <1>1 DEF Looked
<1>4. /\ w \in Seq(Nat) /\ Len(w) = Len(ord) + Len(h)
      /\ \A i \in 1 .. Len(w) : w[i] = IF i <= Len(ord) THEN ord[i] ELSE h[i - Len(ord)]
  OBVIOUS
<1>. HIDE DEF s, t, w, T
<1>5. /\ s \o t \in Seq(T) /\ Len(s \o t) = Len(ord) + Len(h)
      /\ \A i \in 1 .. Len(ord) + Len(h) :
            (s \o t)[i] = IF i <= Len(ord) THEN s[i] ELSE t[i - Len(ord)]
  <2>1. s \in Seq(T) /\ t \in Seq(T) /\ Len(s) = Len(ord) /\ Len(t) = Len(h)
    BY <1>2, <1>3
  <2>2. /\ s \o t \in Seq(T) /\ Len(s \o t) = Len(s) + Len(t)
        /\ \A i \in 1 .. Len(s) + Len(t) : (s \o t)[i] = IF i <= Len(s) THEN s[i] ELSE t[i - Len(s)]
    BY <2>1, JoinIs
  <2>. QED  BY <2>1, <2>2
<1>6. ASSUME NEW i \in 1 .. Len(ord) + Len(h) PROVE (s \o t)[i] = F[w[i]]
  <2>1. CASE i <= Len(ord)
    <3>1. i \in 1 .. Len(ord)
      BY <1>1, <2>1
    <3>. QED  BY <1>2, <1>4, <1>5, <2>1, <3>1
  <2>2. CASE ~(i <= Len(ord))
    <3>1. i - Len(ord) \in 1 .. Len(h)
      BY <1>1, <2>2
    <3>. QED  BY <1>3, <1>4, <1>5, <2>2, <3>1
  <2>. QED  BY <2>1, <2>2
<1>7. s \o t = [i \in 1 .. Len(ord) + Len(h) |-> (s \o t)[i]]
  <2>. DEFINE v == s \o t
  <2>1. v \in Seq(T) /\ Len(v) = Len(ord) + Len(h)
    BY <1>5
  <2>. HIDE DEF v
  <2>2. v = [i \in 1 .. Len(ord) + Len(h) |-> v[i]]
    BY <2>1
  <2>. QED  BY <2>2 DEF v
<1>8. s \o t = u
  BY <1>4, <1>6, <1>7 DEF Looked
<1>. QED  BY <1>8 DEF s, t, w

\* What a micro-batch adds to the weight.
WeightOf(c, h) == IF ~c.dynamic THEN c.micro ELSE IF c.mm THEN Fields ELSE Len(h)

\* What comes out is that of the places run so far.
LEMMA ResultNext ==
  ASSUME NEW c, Config(c), NEW st, NEW b, NEW hd, NEW ord \in Seq(Nat), NEW h \in Seq(Nat),
         NEW o, NEW g, Result(c, st, b, hd, ord, o, g),
         ~c.dynamic /\ st # "old_log_prob" /\ Even(c, b) => Len(h) = c.micro
  PROVE  /\ st = "old_log_prob" =>
              Result(c, st, b, hd, ord \o h,
                     o \o [i \in DOMAIN h |-> b[[j \in DOMAIN h |-> hd[h[j]]][i]].src], g)
         /\ st # "old_log_prob" =>
              Result(c, st, b, hd, ord \o h, o,
                     [rows   |-> g.rows \o [i \in DOMAIN h |-> hd[h[i]]],
                      weight |-> g.weight + WeightOf(c, h)])
<1>1. CASE st = "old_log_prob"
  <2>1. o = [i \in 1 .. Len(ord) |-> b[hd[ord[i]]].src] /\ g = NoGain
    BY <1>1 DEF Result
  <2>2. [i \in DOMAIN h |-> b[[j \in DOMAIN h |-> hd[h[j]]][i]].src]
          = [i \in DOMAIN h |-> b[hd[h[i]]].src]
    OBVIOUS
  <2>. DEFINE F == [x \in Nat |-> b[hd[x]].src]
  <2>9. /\ \A i \in 1 .. Len(ord) : ord[i] \in Nat
        /\ \A i \in DOMAIN h : h[i] \in Nat
        /\ \A i \in 1 .. Len(ord \o h) : (ord \o h)[i] \in Nat
    <3>1. ord \o h \in Seq(Nat)
      OBVIOUS
    <3>. DEFINE w == ord \o h
    <3>2. w \in Seq(Nat)
      BY <3>1
    <3>. HIDE DEF w
    <3>3. \A i \in 1 .. Len(w) : w[i] \in Nat
      BY <3>2
    <3>. QED  BY <3>3 DEF w
  <2>10. \A x \in Nat : F[x] = b[hd[x]].src
    OBVIOUS
  <2>. HIDE DEF F
  <2>3. o = [i \in 1 .. Len(ord) |-> F[ord[i]]]
    BY <2>1, <2>9, <2>10
  <2>4. DOMAIN h = 1 .. Len(h) /\ Looked(F, ord) \o Looked(F, h) = Looked(F, ord \o h)
    BY LookUps
  <2>5. o \o [i \in DOMAIN h |-> F[h[i]]] = [i \in 1 .. Len(ord \o h) |-> F[(ord \o h)[i]]]
    BY <2>3, <2>4 DEF Looked
  <2>11. [i \in DOMAIN h |-> F[h[i]]] = [i \in DOMAIN h |-> b[hd[h[i]]].src]
    BY <2>9, <2>10
  <2>12. [i \in 1 .. Len(ord \o h) |-> F[(ord \o h)[i]]]
           = [i \in 1 .. Len(ord \o h) |-> b[hd[(ord \o h)[i]]].src]
    BY <2>9, <2>10
  <2>6. o \o [i \in DOMAIN h |-> b[hd[h[i]]].src]
          = [i \in 1 .. Len(ord \o h) |-> b[hd[(ord \o h)[i]]].src]
    BY <2>5, <2>11, <2>12
  <2>. QED  BY <1>1, <2>1, <2>2, <2>6 DEF Result
<1>2. CASE st # "old_log_prob"
  <2>1. /\ g = [rows |-> [i \in 1 .. Len(ord) |-> hd[ord[i]]], weight |-> g.weight]
        /\ g.weight \in Nat /\ (Weighs(c, b) => g.weight = Len(ord))
    BY <1>2 DEF Result
  <2>2. g.rows = [i \in 1 .. Len(ord) |-> hd[ord[i]]]
    BY <2>1
  <2>3. g.rows \o [i \in DOMAIN h |-> hd[h[i]]] = [i \in 1 .. Len(ord \o h) |-> hd[(ord \o h)[i]]]
    <3>1. DOMAIN h = 1 .. Len(h) /\ Looked(hd, ord) \o Looked(hd, h) = Looked(hd, ord \o h)
      BY LookUps
    <3>. QED  BY <2>2, <3>1 DEF Looked
  <2>4. WeightOf(c, h) \in Nat /\ (Weighs(c, b) => WeightOf(c, h) = Len(h))
    <3>1. c.micro \in Nat /\ Len(h) \in Nat
      BY DEF Config
    <3>. QED  BY <1>2, <3>1 DEF WeightOf, Weighs, Fields
  <2>5. g.weight + WeightOf(c, h) \in Nat
    BY <2>1, <2>4
  <2>6. Weighs(c, b) => g.weight + WeightOf(c, h) = Len(ord \o h)
    <3>1. Len(ord \o h) = Len(ord) + Len(h)
      OBVIOUS
    <3>. QED  BY <2>1, <2>4, <3>1
  <2>. DEFINE w == g.weight + WeightOf(c, h)
              p == g.rows \o [i \in DOMAIN h |-> hd[h[i]]]
              q == [rows |-> p, weight |-> w]
  <2>7. w \in Nat /\ (Weighs(c, b) => w = Len(ord \o h))
    BY <2>5, <2>6
  <2>8. p = [i \in 1 .. Len(ord \o h) |-> hd[(ord \o h)[i]]]
    BY <2>3
  <2>. HIDE DEF w, p
  <2>9. q.weight = w /\ q.rows = p /\ q = [rows |-> p, weight |-> q.weight]
    OBVIOUS
  <2>. HIDE DEF q
  <2>10. Result(c, st, b, hd, ord \o h, o, q)
    BY <1>2, <2>7, <2>8, <2>9 DEF Result
  <2>. QED  BY <1>2, <2>10 DEF q, p, w
<1>. QED  BY <1>1, <1>2

\* An optimizer step: the rows of the piece in hand.
LEMMA StepTaken ==
  ASSUME NEW c, NEW b, NEW p \in Seq(Nat), NEW ord, NEW o, NEW g, NEW st, st # "old_log_prob",
         Running(c, st, b, Len(p), <<>>, ord), Result(c, st, b, p, ord, o, g)
  PROVE  Taken(c, b, p, g) /\ g \in [rows : Seq(Nat), weight : Nat]
<1>. DEFINE n == Len(p)
<1>1. n \in Nat /\ \A i \in 1 .. n : p[i] \in Nat
  OBVIOUS
<1>2. Len(ord) = n /\ Permutes(ord, n)
  BY <1>1, RunningDone
<1>3. /\ g = [rows |-> [i \in 1 .. n |-> p[ord[i]]], weight |-> g.weight]
      /\ g.weight \in Nat /\ (Weighs(c, b) => g.weight = n)
  BY <1>2 DEF Result
<1>. HIDE DEF n
<1>4. ord \in [1 .. n -> 1 .. n]
  BY <1>2 DEF Permutes
<1>5. g.rows = [i \in 1 .. n |-> p[ord[i]]]
  BY <1>3
<1>6. g.rows \in Seq(Nat)
  <2>1. \A i \in 1 .. n : p[ord[i]] \in Nat
    BY <1>1, <1>4
  <2>. QED  BY <1>1, <1>5, <2>1
<1>7. g \in [rows : Seq(Nat), weight : Nat]
  BY <1>3, <1>5, <1>6
<1>. QED  BY <1>2, <1>3, <1>4, <1>5, <1>7 DEF Taken, n

\* The results of a rank, put back into the order of its rows.
LEMMA BackInOrder ==
  ASSUME NEW c, NEW st, NEW b, NEW hd, NEW n \in Nat, NEW ord, Running(c, st, b, n, <<>>, ord),
         NEW o, o = [i \in 1 .. Len(ord) |-> b[hd[ord[i]]].src]
  PROVE  (IF c.dynamic THEN LET back == ReverseIdx(ord) IN [i \in DOMAIN back |-> o[back[i]]]
          ELSE o) = [i \in 1 .. n |-> b[hd[i]].src]
<1>. DEFINE v == [i \in 1 .. n |-> b[hd[i]].src]
<1>1. Len(ord) = n /\ Permutes(ord, n) /\ (~c.dynamic => ord = Run(0, n))
  BY RunningDone
<1>2. /\ ord \in [1 .. n -> 1 .. n] /\ \A l, m \in 1 .. n : ord[l] = ord[m] => l = m
      /\ \A j \in 1 .. n : \E m \in 1 .. n : ord[m] = j
  BY <1>1 DEF Permutes
<1>3. o = [i \in 1 .. n |-> b[hd[ord[i]]].src]
  BY <1>1
<1>4. CASE c.dynamic
  <2>. DEFINE back == ReverseIdx(ord)
  <2>1. back = [j \in 1 .. n |-> CHOOSE i \in 1 .. n : ord[i] = j]
    <3>1. DOMAIN ord = 1 .. n
      BY <1>2
    <3>. QED  BY <3>1 DEF ReverseIdx
  <2>2. ASSUME NEW j \in 1 .. n PROVE back[j] \in 1 .. n /\ ord[back[j]] = j
    <3>1. \E i \in 1 .. n : ord[i] = j
      BY <1>2
    <3>2. back[j] = CHOOSE i \in 1 .. n : ord[i] = j
      BY <2>1
    <3>. HIDE DEF back
    <3>. QED  BY <3>1, <3>2
  <2>. HIDE DEF back
  <2>3. \A j \in 1 .. n : o[back[j]] = b[hd[j]].src
    BY <1>3, <2>2
  <2>4. DOMAIN back = 1 .. n
    BY <2>1
  <2>5. [i \in DOMAIN back |-> o[back[i]]] = v
    BY <2>3, <2>4
  <2>. QED  BY <1>4, <2>5 DEF back
<1>5. CASE ~c.dynamic
  <2>1. \A i \in 1 .. n : ord[i] = i
    <3>1. \A i \in 1 .. n : ord[i] = 0 + i /\ 0 + i = i
      BY <1>1, <1>5 DEF Run
    <3>. QED  BY <3>1
  <2>2. o = v
    BY <1>3, <2>1
  <2>. QED  BY <1>5, <2>2
<1>. QED  BY <1>4, <1>5

(***************************************************************************)
(* Joining and counting what ranks have run                                *)
(***************************************************************************)

\* The x-th of n times z members is the (x - 1) % z + 1-st of the (x - 1) \div z + 1-st group.
Grouped(x, n, z, q, e) == /\ q \in Nat /\ e \in 0 .. z - 1 /\ q + 1 \in 1 .. n /\ e + 1 \in 1 .. z
                          /\ x = (q * z) + (e + 1)

\* A place of the batch is a place in one part.
LEMMA Groups ==
  ASSUME NEW n \in Nat \ {0}, NEW z \in Nat \ {0}, NEW x \in 1 .. n * z
  PROVE  Grouped(x, n, z, (x - 1) \div z, (x - 1) % z)
<1>. DEFINE y == x - 1
            q == y \div z
            e == y % z
<1>1. n * z \in Nat
  BY MulNat
<1>2. y \in Nat /\ y < n * z
  BY <1>1
<1>. HIDE DEF y
<1>3. q \in Nat /\ e \in 0 .. z - 1 /\ y = z * q + e
  BY <1>2, DivRem
<1>. HIDE DEF q, e
<1>4. z * q = q * z /\ q * z \in Nat
  BY <1>3, MulNat
<1>5. q < n
  <2>. SUFFICES ASSUME n <= q PROVE FALSE
    BY <1>3
  <2>1. n * z <= q * z
    BY <1>3, MulMono
  <2>. QED  BY <1>1, <1>2, <1>3, <1>4, <2>1
<1>6. x = q * z + (e + 1)
  BY <1>3, <1>4 DEF y
<1>7. Grouped(x, n, z, q, e)
  BY <1>3, <1>5, <1>6 DEF Grouped
<1>. QED  BY <1>7 DEF q, e, y

\* Rank r has computed the log-probabilities of its part, and each rank has.
ComputedBy(o, b, r) == o = [i \in 1 .. Part(b) |-> b[Local(b, r)[i]].src]
Computed(out, b)    == \A r \in Rank : ComputedBy(out[r], b, r)

\* Joined they are those of the batch.
JoinedUp(out, b) == FlattenSeq([r \in Rank |-> out[r]]) = [i \in DOMAIN b |-> b[i].src]

\* The results of the ranks, joined in the order of the ranks, are those of the batch.
LEMMA JoinedParts ==
  ASSUME NEW m \in Nat, NEW b \in Seq([src : 1 .. m, pad : BOOLEAN]), Parted(b), NEW out,
         Computed(out, b)
  PROVE  JoinedUp(out, b)
<1>. DEFINE z == Part(b)
            n == World
            T == 1 .. m
            ss == [r \in Rank |-> out[r]]
            g == FlattenSeq(ss)
<1>1. /\ n \in Nat \ {0} /\ Len(b) % World = 0 /\ Len(b) \in Nat \ {0}
      /\ DOMAIN b = 1 .. Len(b) /\ \A i \in 1 .. Len(b) : b[i].src \in T
  <2>1. n \in Nat \ {0} /\ Len(b) % World = 0 /\ Len(b) \in Nat \ {0}
    BY ConfigsAre DEF Parted
  <2>2. DOMAIN b = 1 .. Len(b) /\ \A i \in 1 .. Len(b) : b[i] \in [src : 1 .. m, pad : BOOLEAN]
    <3>. DEFINE B == [src : 1 .. m, pad : BOOLEAN]
    <3>1. b \in Seq(B)
      OBVIOUS
    <3>. HIDE DEF B
    <3>2. DOMAIN b = 1 .. Len(b) /\ \A i \in 1 .. Len(b) : b[i] \in B
      BY <3>1
    <3>. QED  BY <3>2 DEF B
  <2>3. \A i \in 1 .. Len(b) : b[i].src \in 1 .. m
    BY <2>2
  <2>. QED  BY <2>1, <2>2, <2>3
<1>2. z \in Nat \ {0} /\ Len(b) = n * z
  BY <1>1, PartFacts
<1>3. ASSUME NEW r \in Rank, NEW j \in 1 .. z
      PROVE  Local(b, r)[j] = (r - 1) * z + j /\ Local(b, r)[j] \in 1 .. Len(b)
  BY <1>1, LocalIs
<1>4. \A r \in Rank : ss[r] = [i \in 1 .. z |-> b[Local(b, r)[i]].src]
  BY DEF Computed, ComputedBy
<1>. HIDE DEF z, T
<1>5. \A r \in Rank : ss[r] \in Seq(T) /\ Len(ss[r]) = z
  <2>. SUFFICES ASSUME NEW r \in Rank PROVE ss[r] \in Seq(T) /\ Len(ss[r]) = z
    OBVIOUS
  <2>1. \A i \in 1 .. z : b[Local(b, r)[i]].src \in T
    BY <1>1, <1>3
  <2>2. ss[r] = [i \in 1 .. z |-> b[Local(b, r)[i]].src] /\ z \in Nat
    BY <1>2, <1>4
  <2>. HIDE DEF ss
  <2>. QED  BY <2>1, <2>2
<1>6. ss \in Seq(Seq(T)) /\ Len(ss) = n
  BY <1>1, <1>5 DEF Rank
<1>7. \A i \in 1 .. n : Len(ss[i]) = z
  BY <1>5 DEF Rank
<1>. HIDE DEF ss, n
<1>8. /\ g \in Seq(T) /\ Len(g) = n * z
      /\ \A x \in 1 .. n * z : g[x] = ss[(x - 1) \div z + 1][((x - 1) % z) + 1]
  <2>1. n \in Nat \ {0} /\ z \in Nat \ {0} /\ ss \in Seq(Seq(T)) /\ Len(ss) = n
    BY <1>1, <1>2, <1>6
  <2>2. FlatOf(FlattenSeq(ss), ss, n, z, T)
    BY <1>7, <2>1, FlattenEqual
  <2>. QED  BY <2>2 DEF FlatOf
<1>. HIDE DEF g
<1>9. ASSUME NEW x \in 1 .. n * z PROVE g[x] = b[x].src
  <2>. DEFINE q == (x - 1) \div z
              e == (x - 1) % z
  <2>1. /\ q \in Nat /\ e \in 0 .. z - 1 /\ q + 1 \in 1 .. n /\ e + 1 \in 1 .. z
        /\ x = (q * z) + (e + 1)
    <3>1. n \in Nat \ {0} /\ z \in Nat \ {0}
      BY <1>1, <1>2
    <3>2. Grouped(x, n, z, q, e)
      BY <3>1, Groups
    <3>. HIDE DEF q, e
    <3>. QED  BY <3>2 DEF Grouped
  <2>2. g[x] = ss[q + 1][e + 1]
    BY <1>8
  <2>. HIDE DEF q, e
  <2>3. q + 1 \in Rank /\ (q + 1) - 1 = q
    BY <2>1 DEF Rank, n
  <2>4. Local(b, q + 1)[e + 1] = ((q + 1) - 1) * z + (e + 1)
    BY <1>3, <2>1, <2>3
  <2>5. Local(b, q + 1)[e + 1] = x
    BY <2>1, <2>3, <2>4
  <2>6. ss[q + 1][e + 1] = b[Local(b, q + 1)[e + 1]].src
    <3>1. ss[q + 1] = [i \in 1 .. z |-> b[Local(b, q + 1)[i]].src]
      BY <1>4, <2>3
    <3>2. e + 1 \in 1 .. z
      BY <2>1
    <3>. QED  BY <3>1, <3>2
  <2>. QED  BY <2>2, <2>5, <2>6
<1>10. g = [i \in 1 .. n * z |-> g[i]]
  BY <1>8
<1>. QED  BY <1>1, <1>2, <1>9, <1>10 DEF JoinedUp, g, ss

\* The rows of the steps sp.
RowsTaken(sp) == UNION {Range(sp[k].rows) : k \in DOMAIN sp}

\* Steps that were taken with the mini-batches of a batch that is divided.
LEMMA WholeSteps ==
  ASSUME NEW c, Config(c), NEW b, Len(b) \in Nat \ {0}, Even(c, b), NEW r \in Rank,
         NEW sp, StepsOK(c, b, r, sp), Len(sp) = PieceTotal(c, "update_actor", b),
         NEW all, all = FlattenSeq([k \in DOMAIN sp |-> sp[k].rows]),
         NEW local, local = Chunk(Places(Len(b)), World)[r]
  PROVE  /\ Len(all) = Len(local) /\ Range(all) = Range(local)
         /\ RowsTaken(sp) = Range(local)
         /\ \A k \in DOMAIN sp : /\ Len(sp[k].rows) = c.mini
                                 /\ ~(c.mm /\ c.dynamic) => sp[k].weight = c.mini
<1>. DEFINE z == c.mini
            w == Part(b)
            n == w \div z
            a == (r - 1) * w
            W == Whole(c, "update_actor", b, r)
            ss == [k \in DOMAIN sp |-> sp[k].rows]
<1>1. Len(b) % World = 0 /\ n \in Nat \ {0} /\ w = n * z /\ z \in Nat \ {0}
  BY EvenParts DEF Config
<1>2. w \in Nat \ {0} /\ a \in Nat
  BY <1>1, PartFacts
<1>3. Len(sp) = n /\ \A k \in 1 .. n : W[k] = Run(a + (k - 1) * z, z)
  <2>1. "update_actor" # "old_log_prob"
    OBVIOUS
  <2>2. /\ PieceTotal(c, "update_actor", b) = n
        /\ \A k \in 1 .. PieceTotal(c, "update_actor", b) :
              Whole(c, "update_actor", b, r)[k] = Run((r - 1) * Part(b) + (k - 1) * c.mini, c.mini)
    BY <2>1, EvenPieces
  <2>. QED  BY <2>2
<1>4. /\ sp \in Seq([rows : Seq(Nat), weight : Nat]) /\ DOMAIN sp = 1 .. n
      /\ \A k \in 1 .. n : Taken(c, b, W[k], sp[k])
  <2>1. /\ sp \in Seq([rows : Seq(Nat), weight : Nat])
        /\ \A k \in 1 .. Len(sp) : Taken(c, b, W[k], sp[k])
    BY DEF StepsOK
  <2>. HIDE DEF W, n
  <2>2. DOMAIN sp = 1 .. Len(sp)
    BY <2>1
  <2>. QED  BY <1>3, <2>1, <2>2
<1>5. /\ Len(local) = w /\ DOMAIN local = 1 .. w
      /\ \A j \in 1 .. w : local[j] = a + j
  <2>1. /\ local = Local(b, r) /\ local \in Seq(Nat) /\ Len(local) = w
        /\ \A j \in 1 .. w : local[j] = a + j
    BY <1>1, LocalIs
  <2>. HIDE DEF w, a
  <2>. QED  BY <2>1
<1>. HIDE DEF z, w, n, a, W
<1>6. ASSUME NEW k \in 1 .. n
      PROVE  /\ (k - 1) * z \in Nat /\ Len(W[k]) = z
             /\ \A j \in 1 .. z : W[k][j] = (a + (k - 1) * z) + j
             /\ \E ord \in [1 .. z -> 1 .. z] :
                   Permutes(ord, z) /\ sp[k].rows = [i \in 1 .. z |-> W[k][ord[i]]]
             /\ ~(c.mm /\ c.dynamic) => sp[k].weight = z
  <2>1. k - 1 \in Nat
    BY <1>1
  <2>2. (k - 1) * z \in Nat
    BY <1>1, <2>1, MulNat
  <2>. DEFINE x == a + (k - 1) * z
  <2>3. x \in Nat /\ W[k] = Run(x, z)
    BY <1>2, <1>3, <2>2
  <2>. HIDE DEF x
  <2>4. Len(W[k]) = z /\ \A j \in 1 .. z : W[k][j] = x + j
    <3>1. Len(Run(x, z)) = z /\ \A j \in 1 .. z : Run(x, z)[j] = x + j
      BY <1>1, <2>3, RunFacts
    <3>. QED  BY <2>3, <3>1
  <2>5. Taken(c, b, W[k], sp[k])
    BY <1>4
  <2>6. Weighs(c, b) <=> ~(c.mm /\ c.dynamic)
    BY DEF Weighs
  <2>. QED  BY <2>2, <2>4, <2>5, <2>6 DEF Taken, x
<1>7. \A k \in 1 .. n : sp[k].rows \in Seq(Nat)
  <2>1. sp \in Seq([rows : Seq(Nat), weight : Nat])
    BY <1>4
  <2>2. \A k \in DOMAIN sp : sp[k] \in [rows : Seq(Nat), weight : Nat]
    <3>. DEFINE S == [rows : Seq(Nat), weight : Nat]
    <3>1. sp \in Seq(S)
      BY <2>1
    <3>. HIDE DEF S
    <3>2. \A k \in DOMAIN sp : sp[k] \in S
      BY <3>1
    <3>. QED  BY <3>2 DEF S
  <2>. QED  BY <1>4, <2>2
<1>8. ss \in Seq(Seq(Nat)) /\ Len(ss) = n /\ \A k \in 1 .. n : ss[k] = sp[k].rows
  <2>1. ss = [k \in 1 .. n |-> sp[k].rows]
    BY <1>4
  <2>. HIDE DEF ss
  <2>. QED  BY <1>1, <1>7, <2>1
<1>9. ASSUME NEW k \in 1 .. n PROVE Len(ss[k]) = z
  <2>1. PICK ord \in [1 .. z -> 1 .. z] : sp[k].rows = [i \in 1 .. z |-> W[k][ord[i]]]
    BY <1>6
  <2>2. Len(sp[k].rows) = z
    BY <1>1, <2>1
  <2>. QED  BY <1>8, <2>2
<1>. HIDE DEF ss
<1>10. /\ all \in Seq(Nat) /\ Len(all) = n * z
       /\ \A x \in 1 .. n * z : all[x] = ss[(x - 1) \div z + 1][((x - 1) % z) + 1]
  <2>1. all = FlattenSeq(ss)
    BY DEF ss
  <2>. DEFINE T == Nat
  <2>2. n \in Nat \ {0} /\ z \in Nat \ {0} /\ ss \in Seq(Seq(T)) /\ Len(ss) = n
    BY <1>1, <1>8
  <2>. HIDE DEF T
  <2>3. FlatOf(FlattenSeq(ss), ss, n, z, T)
    BY <1>9, <2>2, FlattenEqual
  <2>. QED  BY <2>1, <2>3 DEF FlatOf, T
<1>11. DOMAIN all = 1 .. w
  <2>1. all \in Seq(Nat) /\ Len(all) = w
    BY <1>1, <1>10
  <2>. QED  BY <2>1
<1>12. ASSUME NEW x \in 1 .. w PROVE \E j \in 1 .. w : all[x] = local[j]
  <2>. DEFINE q == (x - 1) \div z
              e == (x - 1) % z
  <2>1. x \in 1 .. n * z
    BY <1>1
  <2>2. q \in Nat /\ q + 1 \in 1 .. n /\ e + 1 \in 1 .. z
    <3>1. n \in Nat \ {0} /\ z \in Nat \ {0}
      BY <1>1
    <3>2. Grouped(x, n, z, q, e)
      BY <2>1, <3>1, Groups
    <3>. HIDE DEF q, e
    <3>. QED  BY <3>2 DEF Grouped
  <2>3. all[x] = ss[q + 1][e + 1]
    BY <1>10, <2>1
  <2>. HIDE DEF q, e
  <2>4. (q + 1) - 1 = q
    BY <2>2
  <2>5. PICK ord \in [1 .. z -> 1 .. z] : sp[q + 1].rows = [i \in 1 .. z |-> W[q + 1][ord[i]]]
    BY <1>6, <2>2
  <2>6. ord[e + 1] \in 1 .. z /\ ss[q + 1][e + 1] = W[q + 1][ord[e + 1]]
    BY <1>8, <2>2, <2>5
  <2>. DEFINE y == ord[e + 1]
  <2>7. y \in 1 .. z /\ all[x] = W[q + 1][y]
    BY <2>3, <2>6
  <2>. HIDE DEF y
  <2>8. W[q + 1][y] = (a + ((q + 1) - 1) * z) + y
    BY <1>6, <2>2, <2>7
  <2>9. W[q + 1][y] = a + (q * z + y)
    <3>1. q * z \in Nat
      BY <1>1, <2>2, MulNat
    <3>. QED  BY <1>2, <2>4, <2>7, <2>8, <3>1
  <2>10. q * z + y \in 1 .. w
    <3>1. (q + 1) * z <= n * z
      <4>1. q + 1 \in Nat /\ n \in Nat /\ q + 1 <= n /\ z \in Nat
        BY <1>1, <2>2
      <4>. QED  BY <4>1, MulMono
    <3>2. (q + 1) * z = q * z + z /\ q * z \in Nat
      BY <1>1, <2>2, MulNat
    <3>. DEFINE u == q * z
                v == n * z
    <3>3. u \in Nat /\ u + z <= w /\ z \in Nat /\ w \in Nat
      BY <1>1, <1>2, <3>1, <3>2
    <3>. HIDE DEF u
    <3>4. u + y \in 1 .. w
      BY <2>7, <3>3
    <3>. QED  BY <3>4 DEF u
  <2>. QED  BY <1>5, <2>7, <2>9, <2>10
<1>13. ASSUME NEW j \in 1 .. w PROVE \E x \in 1 .. w : all[x] = local[j]
  <2>. DEFINE q == (j - 1) \div z
              e == (j - 1) % z
  <2>1. j \in 1 .. n * z
    BY <1>1
  <2>2. q \in Nat /\ e + 1 \in 1 .. z /\ q + 1 \in 1 .. n /\ j = (q * z) + (e + 1)
    <3>1. n \in Nat \ {0} /\ z \in Nat \ {0}
      BY <1>1
    <3>2. Grouped(j, n, z, q, e)
      BY <2>1, <3>1, Groups
    <3>. HIDE DEF q, e
    <3>. QED  BY <3>2 DEF Grouped
  <2>. HIDE DEF q, e
  <2>3. (q + 1) - 1 = q /\ q * z \in Nat /\ z * q = q * z
    BY <1>1, <2>2, MulNat
  <2>4. PICK ord \in [1 .. z -> 1 .. z] :
           Permutes(ord, z) /\ sp[q + 1].rows = [i \in 1 .. z |-> W[q + 1][ord[i]]]
    BY <1>6, <2>2
  <2>5. PICK m \in 1 .. z : ord[m] = e + 1
    BY <2>2, <2>4 DEF Permutes
  <2>. DEFINE x == q * z + m
  <2>6. x \in 1 .. n * z /\ m - 1 \in 0 .. z - 1 /\ m \in Nat /\ x - 1 = q * z + (m - 1)
    <3>1. (q + 1) * z <= n * z
      <4>1. q + 1 \in Nat /\ n \in Nat /\ q + 1 <= n /\ z \in Nat
        BY <1>1, <2>2
      <4>. QED  BY <4>1, MulMono
    <3>2. (q + 1) * z = q * z + z
      BY <1>1, <2>2, MulNat
    <3>3. n * z \in Nat
      BY <1>1, <1>2
    <3>. DEFINE u == q * z
                v == n * z
    <3>4. u \in Nat /\ u + z <= v /\ z \in Nat /\ v \in Nat
      BY <1>1, <2>3, <3>1, <3>2, <3>3
    <3>. HIDE DEF u, v
    <3>5. u + m \in 1 .. v /\ m - 1 \in 0 .. z - 1 /\ m \in Nat /\ (u + m) - 1 = u + (m - 1)
      BY <3>4
    <3>. QED  BY <3>5 DEF u, v
  <2>7. (x - 1) \div z = q /\ (x - 1) % z = m - 1
    <3>. DEFINE l == m - 1
    <3>1. l \in 0 .. z - 1
      BY <2>6
    <3>. HIDE DEF l
    <3>2. (z * q + l) \div z = q /\ (z * q + l) % z = l
      BY <1>1, <2>2, <3>1, DivUnique
    <3>3. x - 1 = z * q + l
      BY <2>3, <2>6 DEF l
    <3>. HIDE DEF x
    <3>. QED  BY <3>2, <3>3 DEF l
  <2>. HIDE DEF x
  <2>8. all[x] = ss[q + 1][m]
    <3>1. all[x] = ss[(x - 1) \div z + 1][((x - 1) % z) + 1]
      BY <1>10, <2>6
    <3>2. (m - 1) + 1 = m
      BY <2>6
    <3>. QED  BY <2>7, <3>1, <3>2
  <2>9. ss[q + 1][m] = W[q + 1][e + 1]
    BY <1>8, <2>2, <2>4, <2>5
  <2>10. W[q + 1][e + 1] = (a + ((q + 1) - 1) * z) + (e + 1)
    BY <1>6, <2>2
  <2>11. W[q + 1][e + 1] = a + j
    BY <1>2, <2>2, <2>3, <2>10
  <2>12. x \in 1 .. w
    BY <1>1, <2>6
  <2>. QED  BY <1>5, <2>8, <2>9, <2>11, <2>12
<1>14. Range(all) = Range(local)
  <2>1. Range(all) = {all[x] : x \in 1 .. w} /\ Range(local) = {local[x] : x \in 1 .. w}
    BY <1>5, <1>11 DEF Range
  <2>2. ASSUME NEW v \in Range(all) PROVE v \in Range(local)
    <3>1. PICK x \in 1 .. w : v = all[x]
      BY <2>1
    <3>2. PICK j \in 1 .. w : all[x] = local[j]
      BY <1>12
    <3>. QED  BY <2>1, <3>1, <3>2
  <2>3. ASSUME NEW v \in Range(local) PROVE v \in Range(all)
    <3>1. PICK j \in 1 .. w : v = local[j]
      BY <2>1
    <3>2. PICK x \in 1 .. w : all[x] = local[j]
      BY <1>13
    <3>. QED  BY <2>1, <3>1, <3>2
  <2>. QED  BY <2>2, <2>3
<1>15. Len(all) = Len(local)
  BY <1>1, <1>5, <1>10
<1>16. \A k \in DOMAIN sp : Len(sp[k].rows) = z /\ (~(c.mm /\ c.dynamic) => sp[k].weight = z)
  BY <1>4, <1>6, <1>8, <1>9
<1>17. RowsTaken(sp) = Range(local)
  <2>. DEFINE R(k) == Range(sp[k].rows)
  <2>1. \A k \in 1 .. n : /\ DOMAIN ss[k] = 1 .. z /\ ss[k] = sp[k].rows
                          /\ R(k) = {ss[k][i] : i \in 1 .. z}
    <3>. SUFFICES ASSUME NEW k \in 1 .. n
                  PROVE  DOMAIN ss[k] = 1 .. z /\ ss[k] = sp[k].rows /\ R(k) = {ss[k][i] : i \in 1 .. z}
      OBVIOUS
    <3>1. ss[k] = sp[k].rows /\ ss[k] \in Seq(Nat) /\ Len(ss[k]) = z
      BY <1>7, <1>8, <1>9
    <3>2. DOMAIN ss[k] = 1 .. z
      BY <3>1
    <3>. QED  BY <3>1, <3>2 DEF Range
  <2>2. ASSUME NEW k \in 1 .. n, NEW v \in R(k) PROVE v \in Range(local)
    <3>1. PICK i \in 1 .. z : v = ss[k][i]
      BY <2>1
    <3>2. PICK ord \in [1 .. z -> 1 .. z] : sp[k].rows = [m \in 1 .. z |-> W[k][ord[m]]]
      BY <1>6
    <3>. DEFINE y == ord[i]
    <3>3. y \in 1 .. z /\ v = W[k][y]
      BY <2>1, <3>1, <3>2
    <3>. HIDE DEF y
    <3>4. v = (a + (k - 1) * z) + y
      BY <1>6, <3>3
    <3>. DEFINE u == (k - 1) * z
    <3>5. u \in Nat /\ u + z <= w
      <4>1. k - 1 \in Nat /\ (k - 1) + 1 = k /\ k <= n /\ z \in Nat /\ n \in Nat /\ k \in Nat
        BY <1>1
      <4>2. k * z <= n * z
        BY <4>1, MulMono
      <4>3. ((k - 1) + 1) * z = (k - 1) * z + z /\ (k - 1) * z \in Nat
        BY <4>1, MulNat
      <4>. QED  BY <1>1, <4>1, <4>2, <4>3
    <3>. HIDE DEF u
    <3>6. u + y \in 1 .. w /\ v = a + (u + y)
      <4>1. v = (a + u) + y
        BY <3>4 DEF u
      <4>. QED  BY <1>1, <1>2, <3>3, <3>5, <4>1
    <3>7. local[u + y] = v
      BY <1>5, <3>6
    <3>. QED  BY <1>5, <3>6, <3>7 DEF Range
  <2>3. ASSUME NEW v \in Range(local) PROVE \E k \in 1 .. n : v \in R(k)
    <3>1. PICK x \in 1 .. n * z : v = all[x]
      <4>1. v \in Range(all)
        BY <1>14
      <4>. QED  BY <1>1, <1>11, <4>1 DEF Range
    <3>. DEFINE g == (x - 1) \div z
                e == (x - 1) % z
    <3>2. g + 1 \in 1 .. n /\ e + 1 \in 1 .. z
      <4>1. n \in Nat \ {0} /\ z \in Nat \ {0}
        BY <1>1
      <4>2. Grouped(x, n, z, g, e)
        BY <3>1, <4>1, Groups
      <4>. HIDE DEF g, e
      <4>. QED  BY <4>2 DEF Grouped
    <3>3. v = ss[g + 1][e + 1]
      BY <1>10, <3>1
    <3>. HIDE DEF g, e
    <3>. QED  BY <2>1, <3>2, <3>3
  <2>4. RowsTaken(sp) = UNION {R(k) : k \in 1 .. n}
    BY <1>4 DEF RowsTaken
  <2>. HIDE DEF R
  <2>. QED  BY <2>2, <2>3, <2>4
<1>. QED  BY <1>14, <1>15, <1>16, <1>17 DEF z

(***************************************************************************)
(* The size of the batch                                                   *)
(***************************************************************************)

\* Copies of rows are rows.
LEMMA CopiesAre ==
  ASSUME NEW m \in Nat, NEW n \in Nat, NEW rows \in [1 .. n -> 1 .. m], NEW pad \in BOOLEAN
  PROVE  /\ Copies(rows, pad) \in Seq(RowOf(m)) /\ Len(Copies(rows, pad)) = n
         /\ \A i \in 1 .. n : Copies(rows, pad)[i] = [src |-> rows[i], pad |-> pad]
<1>1. Copies(rows, pad) = [i \in 1 .. n |-> [src |-> rows[i], pad |-> pad]]
  BY DEF Copies
<1>2. \A i \in 1 .. n : [src |-> rows[i], pad |-> pad] \in RowOf(m)
  BY DEF RowOf
<1>. DEFINE T == RowOf(m)
            F == [i \in 1 .. n |-> [src |-> rows[i], pad |-> pad]]
<1>3. F \in [1 .. n -> T]
  BY <1>2
<1>. HIDE DEF T
<1>4. \A i \in 1 .. n : F[i] = [src |-> rows[i], pad |-> pad]
  OBVIOUS
<1>5. DOMAIN F = 1 .. n
  OBVIOUS
<1>. HIDE DEF F
<1>6. F \in Seq(T) /\ Len(F) = n
  BY <1>3, <1>5
<1>. QED  BY <1>1, <1>4, <1>6 DEF T, F

\* The sizes _up_sample computes with.
LEMMA Sizes ==
  ASSUME cfg \in Configs
  PROVE  /\ Orig \in Nat \ {0} /\ NMod \in Nat \ {0} /\ Cap \in Nat \ {0}
         /\ UpSize \in Nat /\ Orig <= UpSize /\ UpSize % NMod = 0
<1>1. Config(cfg) /\ World \in Nat \ {0} /\ Cap \in Nat \ {0}
  BY ConfigsAre
<1>2. Orig \in Nat \ {0}
  BY <1>1 DEF Config, Orig
<1>3. NMod \in Nat \ {0}
  <2>. DEFINE m == cfg.mini
  <2>1. m \in Nat \ {0}
    BY <1>1 DEF Config
  <2>. HIDE DEF m
  <2>2. World * m \in Nat \ {0}
    BY <1>1, <2>1, MulNat
  <2>. QED  BY <2>2 DEF NMod, m
<1>4. CeilDiv(Orig, NMod) \in Nat /\ Orig <= CeilDiv(Orig, NMod) * NMod
  BY <1>2, <1>3, CeilDivFacts
<1>5. UpSize \in Nat /\ UpSize % NMod = 0
  <2>. DEFINE q == CeilDiv(Orig, NMod)
              w == NMod
  <2>1. q \in Nat /\ w \in Nat \ {0}
    BY <1>3, <1>4
  <2>2. UpSize = q * w
    BY DEF UpSize
  <2>. HIDE DEF q, w
  <2>3. q * w \in Nat /\ q * w = w * q /\ (w * q) % w = 0
    BY <2>1, MulNat, DivMul
  <2>4. UpSize \in Nat /\ UpSize % w = 0
    BY <2>2, <2>3
  <2>. QED  BY <2>4 DEF w
<1>. QED  BY <1>1, <1>2, <1>3, <1>4, <1>5 DEF UpSize

\* The rows of the splitter, and copies of some of them.
LEMMA Originals ==
  ASSUME cfg \in Configs, NEW idx \in Extra, NEW pad \in BOOLEAN
  PROVE  /\ Original \in Seq(RowOf(Orig)) /\ Len(Original) = Orig
         /\ Padded(Original, Orig)
         /\ Original \o Copies(idx, pad) \in Seq(RowOf(Orig))
         /\ Len(Original \o Copies(idx, pad)) = UpSize
         /\ pad => Padded(Original \o Copies(idx, pad), Orig)
<1>. DEFINE m == Orig
            n == UpSize - Orig
            s == Original
            t == Copies(idx, pad)
            T == RowOf(Orig)
<1>1. m \in Nat \ {0} /\ n \in Nat /\ UpSize \in Nat /\ m + n = UpSize
  BY Sizes
<1>2. idx \in [1 .. n -> 1 .. m]
  BY DEF Extra
<1>3. s \in Seq(T) /\ Len(s) = m /\ \A i \in 1 .. m : s[i] = [src |-> i, pad |-> FALSE]
  <2>1. Places(m) \in [1 .. m -> 1 .. m] /\ \A i \in 1 .. m : Places(m)[i] = i
    BY DEF Places
  <2>2. s = Copies(Places(m), FALSE)
    BY DEF Original
  <2>. HIDE DEF m, s, T
  <2>3. FALSE \in BOOLEAN /\ m \in Nat
    BY <1>1
  <2>4. /\ Copies(Places(m), FALSE) \in Seq(RowOf(m)) /\ Len(Copies(Places(m), FALSE)) = m
        /\ \A i \in 1 .. m : Copies(Places(m), FALSE)[i] = [src |-> Places(m)[i], pad |-> FALSE]
    BY <2>1, <2>3, CopiesAre
  <2>. QED  BY <2>1, <2>2, <2>4 DEF m, T
<1>4. t \in Seq(T) /\ Len(t) = n /\ \A i \in 1 .. n : t[i] = [src |-> idx[i], pad |-> pad]
  <2>1. m \in Nat /\ n \in Nat
    BY <1>1
  <2>. HIDE DEF m, n
  <2>2. /\ Copies(idx, pad) \in Seq(RowOf(m)) /\ Len(Copies(idx, pad)) = n
        /\ \A i \in 1 .. n : Copies(idx, pad)[i] = [src |-> idx[i], pad |-> pad]
    BY <1>2, <2>1, CopiesAre
  <2>. QED  BY <2>2 DEF m
<1>. HIDE DEF m, n, s, t, T
<1>5. /\ s \o t \in Seq(T) /\ Len(s \o t) = m + n
      /\ \A i \in 1 .. m + n : (s \o t)[i] = IF i <= m THEN s[i] ELSE t[i - m]
  <2>1. s \in Seq(T) /\ t \in Seq(T) /\ Len(s) = m /\ Len(t) = n
    BY <1>3, <1>4
  <2>2. /\ s \o t \in Seq(T) /\ Len(s \o t) = Len(s) + Len(t)
        /\ \A i \in 1 .. Len(s) + Len(t) : (s \o t)[i] = IF i <= Len(s) THEN s[i] ELSE t[i - Len(s)]
    BY <2>1, JoinIs
  <2>. QED  BY <2>1, <2>2
<1>6. Padded(s, m)
  BY <1>1, <1>3 DEF Padded
<1>7. ASSUME pad PROVE Padded(s \o t, m)
  <2>. SUFFICES ASSUME NEW i \in 1 .. m + n
                PROVE  IF i <= m THEN (s \o t)[i].src = i /\ ~(s \o t)[i].pad ELSE (s \o t)[i].pad
    BY <1>1, <1>5 DEF Padded
  <2>1. CASE i <= m
    <3>1. i \in 1 .. m
      BY <1>1, <2>1
    <3>2. (s \o t)[i] = [src |-> i, pad |-> FALSE]
      BY <1>3, <1>5, <2>1, <3>1
    <3>. QED  BY <2>1, <3>2
  <2>2. CASE ~(i <= m)
    <3>1. i - m \in 1 .. n
      BY <1>1, <2>2
    <3>2. (s \o t)[i] = [src |-> idx[i - m], pad |-> pad]
      BY <1>4, <1>5, <2>2, <3>1
    <3>. QED  BY <1>7, <2>2, <3>2
  <2>. QED  BY <2>1, <2>2
<1>. QED  BY <1>1, <1>3, <1>5, <1>6, <1>7 DEF m, n, s, t, T

\* Resize makes a batch that is divided unless it is cut to the cap, or fails.
LEMMA ResizeSizes ==
  ASSUME cfg \in Configs, Resize
  PROVE  /\ stage' \in {"old_log_prob", "failed"} /\ cfg' = cfg
         /\ SizedBatch(cfg, batch') /\ (CapFits => Even(cfg, batch'))
         /\ stage' = "failed" => ~PairReturned
<1>1. cfg' = cfg /\ (UpSample \/ UpSampleWithPadding)
  BY DEF Resize
<1>2. /\ Orig \in Nat \ {0} /\ NMod \in Nat \ {0} /\ Cap \in Nat \ {0}
      /\ UpSize \in Nat /\ Orig <= UpSize /\ UpSize % NMod = 0
  BY Sizes
<1>3. /\ Orig = Len(cfg.lens)
      /\ \A b : Even(cfg, b) <=> Len(b) % NMod = 0
  BY DEF Orig, Even, NMod
<1>4. \E idx \in Extra : TRUE
  <2>1. [i \in 1 .. UpSize - Orig |-> 1] \in Extra
    <3>1. 1 \in 1 .. Orig
      BY <1>2
    <3>. QED  BY <3>1 DEF Extra
  <2>. QED  BY <2>1
<1>5. /\ Original \in Seq(RowOf(Orig)) /\ Len(Original) = Orig
      /\ Padded(Original, Orig)
  <2>1. FALSE \in BOOLEAN
    OBVIOUS
  <2>. QED  BY <1>4, <2>1, Originals
<1>6. CASE batch' = Original /\ Orig % NMod = 0 /\ (stage' = "failed" => ~PairReturned)
           /\ stage' \in {"old_log_prob", "failed"}
  BY <1>1, <1>2, <1>3, <1>5, <1>6 DEF SizedBatch
<1>7. CASE \E idx \in Extra : \E pad \in {TRUE, FALSE} : /\ (cfg.padding => pad)
                                                    /\ Resized(Original \o Copies(idx, pad))
  <2>1. PICK idx \in Extra : \E pad \in BOOLEAN : /\ (cfg.padding => pad)
                                                 /\ Resized(Original \o Copies(idx, pad))
    BY <1>7
  <2>2. PICK pad \in BOOLEAN : (cfg.padding => pad) /\ Resized(Original \o Copies(idx, pad))
    BY <2>1
  <2>3. batch' = Original \o Copies(idx, pad) /\ stage' = "old_log_prob"
    BY <2>2 DEF Resized
  <2>. DEFINE v == Original \o Copies(idx, pad)
  <2>4. v \in Seq(RowOf(Orig)) /\ Len(v) = UpSize /\ (pad => Padded(v, Orig))
    BY Originals
  <2>. HIDE DEF v
  <2>5. batch' = v
    BY <2>3 DEF v
  <2>. QED  BY <1>1, <1>2, <1>3, <2>2, <2>3, <2>4, <2>5 DEF SizedBatch
<1>8. CASE ~cfg.padding /\ Orig % NMod # 0 /\ Orig > Cap
           /\ \E keep \in Kept : Resized(Copies(keep, FALSE))
  <2>1. PICK keep \in Kept : batch' = Copies(keep, FALSE) /\ stage' = "old_log_prob"
    BY <1>8 DEF Resized
  <2>2. keep \in [1 .. Cap -> 1 .. Orig] /\ FALSE \in BOOLEAN
    BY DEF Kept
  <2>3. batch' \in Seq(RowOf(Orig)) /\ Len(batch') = Cap
    <3>. DEFINE m == Orig
                n == Cap
    <3>1. m \in Nat /\ n \in Nat /\ keep \in [1 .. n -> 1 .. m] /\ FALSE \in BOOLEAN
      BY <1>2, <2>2
    <3>. HIDE DEF m, n
    <3>2. /\ Copies(keep, FALSE) \in Seq(RowOf(m)) /\ Len(Copies(keep, FALSE)) = n
          /\ \A i \in 1 .. n : Copies(keep, FALSE)[i] = [src |-> keep[i], pad |-> FALSE]
      BY <3>1, CopiesAre
    <3>. QED  BY <2>1, <3>2 DEF m, n
  <2>4. CapFits => Cap % NMod = 0
    BY <1>8 DEF CapFits
  <2>. QED  BY <1>1, <1>2, <1>3, <1>8, <2>1, <2>3, <2>4 DEF SizedBatch
<1>9. CASE UpSample
  <2>1. ~cfg.padding
    BY <1>9 DEF UpSample
  <2>2. CASE Orig % NMod = 0
    BY <1>6, <1>9, <2>2 DEF UpSample, Resized
  <2>3. CASE Orig % NMod # 0 /\ Orig > Cap
    BY <1>8, <1>9, <2>1, <2>3 DEF UpSample
  <2>4. CASE Orig % NMod # 0 /\ ~(Orig > Cap)
    <3>1. PICK idx \in Extra : Resized(Original \o Copies(idx, FALSE))
      BY <1>9, <2>4 DEF UpSample
    <3>. QED  BY <1>7, <2>1, <3>1
  <2>. QED  BY <2>2, <2>3, <2>4
<1>10. CASE UpSampleWithPadding
  <2>1. cfg.padding
    BY <1>10 DEF UpSampleWithPadding
  <2>2. CASE Orig % NMod = 0
    BY <1>6, <1>10, <2>1, <2>2 DEF UpSampleWithPadding, PairReturned
  <2>3. CASE Orig % NMod # 0
    <3>1. PICK idx \in Extra : Resized(Original \o Copies(idx, TRUE))
      BY <1>10, <2>3 DEF UpSampleWithPadding
    <3>. QED  BY <1>7, <3>1
  <2>. QED  BY <2>2, <2>3
<1>. QED  BY <1>1, <1>9, <1>10

\* The stages that have advantages.
Advanced == {"update_actor", "done"}

\* Only Resize changes the batch and leaves the first stage, and only after
\* ComputeAdvantage the actor is updated.
LEMMA StepKeeps ==
  ASSUME Sized, [Next]_vars
  PROVE  \/ stage = "resize" /\ Resize /\ stage' \notin Advanced
         \/ /\ cfg' = cfg /\ batch' = batch /\ stage' \in StageNames
            /\ stage # "resize" <=> stage' # "resize"
            /\ \/ advantages' = advantages /\ (stage' \in Advanced => stage \in Advanced)
               \/ stage = "adv" /\ ComputeAdvantage
<1>1. stage \in StageNames
  BY DEF Sized
<1>2. CASE Resize
  BY <1>2 DEF Resize, UpSample, UpSampleWithPadding, Resized, Advanced
<1>3. CASE Dispatch
  BY <1>1, <1>3 DEF Dispatch, Calls, StageNames, Advanced
<1>4. CASE Collect
  BY <1>1, <1>4 DEF Collect, Calls, StageNames, Advanced
<1>5. CASE Raise
  BY <1>1, <1>5 DEF Raise, Calls, StageNames, Advanced
<1>6. CASE ComputeAdvantage
  BY <1>1, <1>6 DEF ComputeAdvantage, StageNames
<1>7. ASSUME NEW r \in Rank, RankStep(r)
      PROVE  cfg' = cfg /\ batch' = batch /\ stage' = stage /\ advantages' = advantages
  BY <1>7 DEF RankStep, Start, CutPiece, JoinReduce, Finish
<1>8. CASE Collective
  BY <1>1, <1>8 DEF Collective, Rearrange, Forward, OptimizerStep
<1>9. CASE UNCHANGED vars
  BY <1>1, <1>9 DEF vars
<1>. QED  BY <1>1, <1>2, <1>3, <1>4, <1>5, <1>6, <1>7, <1>8, <1>9 DEF Next, Driver, Ended

\* Sizes are an invariant by themselves.
LEMMA SizedHolds == Spec => []Sized
<1>1. Init => Sized
  BY DEF Init, Sized, StageNames
<1>2. Sized /\ [Next]_vars => Sized'
  <2>. SUFFICES ASSUME Sized, [Next]_vars PROVE Sized'
    OBVIOUS
  <2>0. /\ cfg \in Configs
        /\ (stage # "resize" => SizedBatch(cfg, batch) /\ (CapFits => Even(cfg, batch)))
    BY DEF Sized
  <2>1. CASE stage = "resize" /\ Resize
    <3>1. /\ stage' \in {"old_log_prob", "failed"} /\ cfg' = cfg
          /\ SizedBatch(cfg, batch') /\ (CapFits => Even(cfg, batch'))
      BY <2>0, <2>1, ResizeSizes
    <3>2. CapFits' <=> CapFits
      BY <3>1 DEF CapFits, Orig, NMod
    <3>3. SizedBatch(cfg', batch') /\ (CapFits' => Even(cfg', batch'))
      BY <3>1, <3>2
    <3>. QED  BY <2>0, <3>1, <3>3 DEF Sized, StageNames
  <2>2. CASE cfg' = cfg /\ batch' = batch /\ stage' \in StageNames
             /\ (stage # "resize" <=> stage' # "resize")
    <3>1. CapFits' <=> CapFits
      BY <2>2 DEF CapFits, Orig, NMod
    <3>2. stage' # "resize" => SizedBatch(cfg', batch') /\ (CapFits' => Even(cfg', batch'))
      BY <2>0, <2>2, <3>1
    <3>. QED  BY <2>0, <2>2, <3>2 DEF Sized
  <2>. QED  BY <2>1, <2>2, StepKeeps
<1>. QED  BY <1>1, <1>2, PTL DEF Spec

\* Advantages are those of the batch as it is.
Compared ==
  /\ stage \in Advanced => advantages # <<>>
  /\ advantages # <<>> =>
       /\ stage # "resize"
       /\ advantages = [i \in DOMAIN batch |->
                          [score |-> Score(i),
                           group |-> {j \in DOMAIN batch : Uid(j) = Uid(i)},
                           scale |-> SampleRatio]]

\* So are advantages.
LEMMA ComparedHolds == Spec => []Compared
<1>1. Init => Compared
  BY DEF Init, Compared, Advanced
<1>2. Sized /\ Compared /\ [Next]_vars => Compared'
  <2>. SUFFICES ASSUME Sized, Compared, [Next]_vars PROVE Compared'
    OBVIOUS
  <2>1. CASE stage = "resize" /\ Resize /\ stage' \notin Advanced
    BY <2>1 DEF Resize, Compared
  <2>2. CASE /\ cfg' = cfg /\ batch' = batch /\ (stage # "resize" => stage' # "resize")
             /\ advantages' = advantages /\ (stage' \in Advanced => stage \in Advanced)
    BY <2>2 DEF Compared, Score, Uid, Group, SampleRatio, Orig
  <2>3. CASE stage = "adv" /\ ComputeAdvantage
    <3>1. DOMAIN batch = 1 .. Len(batch) /\ Len(batch) \in Nat \ {0}
      BY <2>3 DEF Sized, SizedBatch
    <3>2. advantages' # <<>>
      <4>1. DOMAIN advantages' = DOMAIN batch /\ 1 \in DOMAIN batch
        BY <2>3, <3>1 DEF ComputeAdvantage
      <4>. QED  BY <4>1
    <3>. QED  BY <2>3, <3>2 DEF ComputeAdvantage, Compared, Score, Uid, Group, SampleRatio, Orig
  <2>. QED  BY <2>1, <2>2, <2>3, StepKeeps
<1>. QED  BY <1>1, <1>2, SizedHolds, PTL DEF Spec

\* Padding is compared with zeros only, a real row with the real rows of its task.
GroupsApart ==
  cfg.padding =>
    \A i \in DOMAIN advantages :
      IF batch[i].pad THEN \A j \in advantages[i].group : advantages[j].score = 0
      ELSE advantages[i].group = {j \in 1 .. Orig : j % 2 = i % 2}

\* The groups compute_grpo_outcome_advantage compares are those of the batch the
\* splitter returned.
LEMMA PaddingApart ==
  ASSUME Sized, Compared
  PROVE  GroupsApart
<1>. SUFFICES ASSUME cfg.padding, NEW i \in DOMAIN advantages
              PROVE  IF batch[i].pad THEN \A j \in advantages[i].group : advantages[j].score = 0
                     ELSE advantages[i].group = {j \in 1 .. Orig : j % 2 = i % 2}
  BY DEF GroupsApart
<1>1. advantages # <<>>
  OBVIOUS
<1>2. /\ stage # "resize" /\ i \in DOMAIN batch
      /\ \A j \in DOMAIN batch : advantages[j].score = Score(j)
      /\ advantages[i].group = {j \in DOMAIN batch : Uid(j) = Uid(i)}
  BY <1>1 DEF Compared
<1>3. cfg \in Configs /\ SizedBatch(cfg, batch)
  BY <1>2 DEF Sized
<1>. DEFINE m == Orig
<1>4. Padded(batch, m) /\ batch \in Seq(RowOf(m)) /\ m \in Nat
  BY <1>3, Sizes DEF SizedBatch, Orig
<1>. HIDE DEF m
<1>5. /\ DOMAIN batch = 1 .. Len(batch) /\ Len(batch) \in Nat /\ m <= Len(batch)
      /\ \A j \in 1 .. Len(batch) : IF j <= m THEN batch[j].src = j /\ ~batch[j].pad
                                    ELSE batch[j].pad
  <2>. DEFINE T == RowOf(m)
  <2>1. batch \in Seq(T)
    BY <1>4
  <2>. HIDE DEF T
  <2>2. DOMAIN batch = 1 .. Len(batch) /\ Len(batch) \in Nat
    BY <2>1
  <2>. QED  BY <1>4, <2>2 DEF Padded
<1>6. \A j \in DOMAIN batch : Uid(j) = IF j <= m THEN j % 2 ELSE 2
  BY <1>5 DEF Uid, Padding
<1>7. \A j \in DOMAIN batch : j \in Nat /\ j % 2 \in 0 .. 1
  BY <1>5
<1>8. CASE batch[i].pad
  <2>1. ~(i <= m)
    BY <1>2, <1>5, <1>8
  <2>2. ASSUME NEW j \in advantages[i].group PROVE advantages[j].score = 0
    <3>1. j \in DOMAIN batch /\ Uid(j) = Uid(i)
      BY <1>2
    <3>2. Uid(i) = 2
      BY <1>2, <1>6, <2>1
    <3>3. ~(j <= m)
      BY <1>6, <1>7, <3>1, <3>2
    <3>4. batch[j].pad
      BY <1>5, <3>1, <3>3
    <3>. QED  BY <1>2, <3>1, <3>4 DEF Score
  <2>. QED  BY <1>8, <2>2
<1>9. CASE ~batch[i].pad
  <2>1. i <= m
    BY <1>2, <1>5, <1>9
  <2>2. Uid(i) = i % 2
    BY <1>2, <1>6, <2>1
  <2>3. \A j : j \in DOMAIN batch /\ Uid(j) = Uid(i) <=> j \in 1 .. m /\ j % 2 = i % 2
    <3>1. \A j : j \in 1 .. m <=> j \in DOMAIN batch /\ j <= m
      BY <1>4, <1>5
    <3>. QED  BY <1>2, <1>6, <1>7, <2>2, <3>1
  <2>4. advantages[i].group = {j \in 1 .. m : j % 2 = i % 2}
    BY <1>2, <2>3
  <2>. QED  BY <1>9, <2>4 DEF m
<1>. QED  BY <1>8, <1>9

(***************************************************************************)
(* The steps of one rank                                                   *)
(***************************************************************************)

\* A rank that has taken no step satisfies whatever is said of its steps.
LEMMA NoSteps ==
  ASSUME NEW c, NEW b, NEW r
  PROVE  StepsOK(c, b, r, <<>>)
<1>1. 1 .. Len(<<>>) = {} /\ <<>> \in Seq([rows : Seq(Nat), weight : Nat])
  OBVIOUS
<1>. QED  BY <1>1 DEF StepsOK

\* An idle rank stays idle in another stage but the last.
LEMMA RankIdle ==
  ASSUME NEW c, NEW b, NEW r, NEW st, NEW v, NEW u, NEW pc, NEW ms, NEW o, NEW ord, NEW g, NEW sp,
         RankOK(c, st, b, r, "idle", pc, ms, o, ord, g, sp), st # "done", u # "done"
  PROVE  RankOK(c, u, v, r, "idle", pc, ms, o, ord, g, sp)
<1>1. sp = <<>> /\ g = NoGain
  BY DEF RankOK
<1>2. StepsOK(c, v, r, sp)
  BY <1>1, NoSteps
<1>. QED  BY <1>1, <1>2 DEF RankOK

\* A rank is sent its part.
LEMMA RankDispatched ==
  ASSUME NEW c, NEW b, NEW r, NEW st, NEW pc, NEW ms, NEW o, NEW ord, NEW g, NEW sp,
         RankOK(c, st, b, r, "idle", pc, ms, o, ord, g, sp), st \in Calls
  PROVE  RankOK(c, st, b, r, "start", <<Local(b, r)>>, ms, o, ord, g, sp)
<1>1. sp = <<>> /\ g = NoGain /\ StepsOK(c, b, r, sp)
  BY DEF RankOK, Calls
<1>. QED  BY <1>1 DEF RankOK

\* A rank starts on its part.
LEMMA RankStarted ==
  ASSUME NEW c, Config(c), NEW b, Parted(b), NEW r \in Rank, NEW st \in Calls, NEW pc, NEW ms,
         NEW o, NEW ord, NEW g, NEW sp, RankOK(c, st, b, r, "start", pc, ms, o, ord, g, sp)
  PROVE  /\ Head(pc) = Local(b, r) /\ Len(Head(pc)) = Part(b)
         /\ st = "old_log_prob" => RankOK(c, st, b, r, "piece", pc, ms, <<>>, ord, g, sp)
         /\ st # "old_log_prob" =>
              IF CuttableOf(c.mm, Len(Head(pc)), c.mini)
              THEN RankOK(c, st, b, r, "piece", CutOf(c.mm, Head(pc), c.mini), ms, <<>>, ord, g, sp)
              ELSE RankOK(c, st, b, r, "raised", pc, ms, <<>>, ord, g, sp)
<1>1. sp = <<>> /\ g = NoGain /\ StepsOK(c, b, r, sp) /\ pc = <<Local(b, r)>>
  BY DEF RankOK
<1>2. Head(pc) = Local(b, r) /\ Len(Local(b, r)) = Part(b)
  <2>1. Len(b) \in Nat \ {0} /\ Len(b) % World = 0
    BY DEF Parted
  <2>2. Len(Local(b, r)) = Part(b)
    BY <2>1, LocalIs
  <2>. QED  BY <1>1, <2>2
<1>3. Len(sp) = 0
  BY <1>1
<1>4. CASE st = "old_log_prob"
  <2>1. MiniCut(c, st, b) /\ Whole(c, st, b, r) = pc
    BY <1>1, <1>4 DEF MiniCut, Whole
  <2>2. InPart(c, st, b, r, pc, 0)
    BY <2>1, FirstPiece
  <2>3. RankOK(c, st, b, r, "piece", pc, ms, <<>>, ord, g, sp)
    BY <1>1, <1>3, <1>4, <2>2 DEF RankOK
  <2>. QED  BY <1>2, <1>4, <2>3
<1>5. CASE st # "old_log_prob" /\ CuttableOf(c.mm, Part(b), c.mini)
  <2>1. MiniCut(c, st, b) /\ Whole(c, st, b, r) = CutOf(c.mm, Head(pc), c.mini)
    BY <1>2, <1>5 DEF MiniCut, Whole
  <2>2. InPart(c, st, b, r, CutOf(c.mm, Head(pc), c.mini), 0)
    <3>1. InPart(c, st, b, r, Whole(c, st, b, r), 0)
      BY <2>1, FirstPiece
    <3>. QED  BY <2>1, <3>1
  <2>. DEFINE x == CutOf(c.mm, Head(pc), c.mini)
  <2>3. InPart(c, st, b, r, x, Len(sp))
    BY <1>3, <2>2
  <2>. HIDE DEF x
  <2>4. RankOK(c, st, b, r, "piece", x, ms, <<>>, ord, g, sp)
    BY <1>1, <1>5, <2>3 DEF RankOK, Calls
  <2>. QED  BY <1>2, <1>5, <2>4 DEF x
<1>6. CASE st # "old_log_prob" /\ ~CuttableOf(c.mm, Part(b), c.mini)
  <2>1. Refused(c, st, b, Len(sp))
    BY <1>6 DEF Refused, MiniCut
  <2>2. RankOK(c, st, b, r, "raised", pc, ms, <<>>, ord, g, sp)
    BY <1>1, <1>6, <2>1 DEF RankOK, Calls
  <2>. QED  BY <1>2, <1>6, <2>2
<1>. QED  BY <1>4, <1>5, <1>6

\* Nothing has come out before the first micro-batch.
LEMMA ResultFirst ==
  ASSUME NEW c, NEW st, NEW b, NEW hd, NEW o, st = "old_log_prob" => o = <<>>
  PROVE  Result(c, st, b, hd, <<>>, o, NoGain)
<1>. DEFINE e == <<>>
<1>1. Len(e) = 0 /\ 1 .. Len(e) = {}
  OBVIOUS
<1>2. [i \in 1 .. Len(e) |-> b[hd[e[i]]].src] = <<>> /\ [i \in 1 .. Len(e) |-> hd[e[i]]] = <<>>
  BY <1>1
<1>3. NoGain.rows = <<>> /\ NoGain.weight = 0 /\ NoGain = [rows |-> <<>>, weight |-> NoGain.weight]
  BY DEF NoGain
<1>. HIDE DEF e
<1>4. st = "old_log_prob" => o = [i \in 1 .. Len(e) |-> b[hd[e[i]]].src]
  BY <1>2
<1>5. /\ NoGain = [rows |-> [i \in 1 .. Len(e) |-> hd[e[i]]], weight |-> NoGain.weight]
      /\ NoGain.weight \in Nat /\ NoGain.weight = Len(e)
  BY <1>1, <1>2, <1>3
<1>6. Result(c, st, b, hd, e, o, NoGain)
  BY <1>4, <1>5 DEF Result
<1>. QED  BY <1>6 DEF e

\* A rank cuts its next piece, or cannot.
LEMMA RankCut ==
  ASSUME NEW c, Config(c), NEW b, Parted(b), NEW r \in Rank, NEW st \in Calls, NEW pc, NEW ms,
         NEW o, NEW ord, NEW g, NEW sp, RankOK(c, st, b, r, "piece", pc, ms, o, ord, g, sp),
         ~c.dynamic
  PROVE  IF CuttableOf(c.mm, Len(Head(pc)), Micro(c, st))
         THEN /\ RankOK(c, st, b, r, "run", pc, CutOf(c.mm, Places(Len(Head(pc))), Micro(c, st)),
                        o, <<>>, g, sp)
              /\ Len(CutOf(c.mm, Places(Len(Head(pc))), Micro(c, st)))
                   = PieceCount(c.mm, PieceLen(c, st, b, Len(sp) + 1), Micro(c, st))
         ELSE RankOK(c, st, b, r, "raised", pc, ms, o, <<>>, g, sp)
<1>. DEFINE n == Len(Head(pc))
            x == CutOf(c.mm, Places(n), Micro(c, st))
<1>1. /\ StepsOK(c, b, r, sp) /\ (st \notin {"update_actor", "done"} => sp = <<>>)
      /\ g = NoGain /\ InPart(c, st, b, r, pc, Len(sp)) /\ (st = "old_log_prob" => o = <<>>)
  BY DEF RankOK
<1>2. /\ n \in Nat \ {0} /\ n = PieceLen(c, st, b, Len(sp) + 1)
      /\ Len(sp) + 1 \in 1 .. PieceTotal(c, st, b)
  <2>1. InHand(c, st, b, r, pc, Len(sp))
    BY <1>1, HeadPiece
  <2>. QED  BY <2>1 DEF InHand
<1>3. CASE CuttableOf(c.mm, n, Micro(c, st))
  <2>1. st # "old_log_prob" /\ Even(c, b) => n = c.mini
    <3>. SUFFICES ASSUME st # "old_log_prob", Even(c, b) PROVE n = c.mini
      OBVIOUS
    <3>1. Len(b) \in Nat \ {0}
      BY DEF Parted
    <3>2. \A i \in 1 .. PieceTotal(c, st, b) : PieceLen(c, st, b, i) = c.mini
      BY <3>1, EvenPieces
    <3>. QED  BY <1>2, <3>2
  <2>2. Running(c, st, b, n, x, <<>>) /\ Len(x) = PieceCount(c.mm, n, Micro(c, st))
    <3>1. n \in Nat \ {0}
      BY <1>2
    <3>. HIDE DEF n
    <3>. QED  BY <1>3, <2>1, <3>1, FixedFirst
  <2>3. Result(c, st, b, Head(pc), <<>>, o, g)
    BY <1>1, ResultFirst
  <2>. HIDE DEF x
  <2>4. RankOK(c, st, b, r, "run", pc, x, o, <<>>, g, sp)
    BY <1>1, <2>2, <2>3 DEF RankOK
  <2>. QED  BY <1>2, <1>3, <2>2, <2>4 DEF x
<1>4. CASE ~CuttableOf(c.mm, n, Micro(c, st))
  <2>1. Refused(c, st, b, Len(sp))
    BY <1>2, <1>4 DEF Refused
  <2>2. RankOK(c, st, b, r, "raised", pc, ms, o, <<>>, g, sp)
    BY <1>1, <2>1 DEF RankOK
  <2>. QED  BY <1>4, <2>2
<1>. QED  BY <1>3, <1>4

\* A rank joins the all_reduce, or finds its rows too wide.
LEMMA RankJoins ==
  ASSUME NEW c, NEW b, NEW r \in Rank, NEW st \in Calls, NEW pc, NEW ms,
         NEW o, NEW ord, NEW g, NEW sp, RankOK(c, st, b, r, "piece", pc, ms, o, ord, g, sp),
         c.dynamic
  PROVE  IF Fits(c) THEN RankOK(c, st, b, r, "reduce", pc, ms, o, <<>>, g, sp)
         ELSE RankOK(c, st, b, r, "raised", pc, ms, o, <<>>, g, sp)
<1>1. CASE Fits(c)
  BY <1>1 DEF RankOK
<1>2. CASE ~Fits(c)
  BY <1>2 DEF RankOK, Refused
<1>. QED  BY <1>1, <1>2

\* A rank has its piece in balanced partitions.
LEMMA RankRearranged ==
  ASSUME NEW c, Config(c), NEW b, Parted(b), NEW r \in Rank, NEW st, NEW pc, NEW ms,
         NEW o, NEW ord, NEW g, NEW sp, RankOK(c, st, b, r, "reduce", pc, ms, o, ord, g, sp),
         NEW k \in Nat \ {0}, NEW x, Partitions(x, k, Len(Head(pc)))
  PROVE  /\ RankOK(c, st, b, r, "run", pc, SortedPartitions(x), o, ord, g, sp)
         /\ Len(SortedPartitions(x)) = k
<1>. DEFINE n == Len(Head(pc))
            y == SortedPartitions(x)
<1>1. /\ StepsOK(c, b, r, sp) /\ (st \notin {"update_actor", "done"} => sp = <<>>)
      /\ g = NoGain /\ InPart(c, st, b, r, pc, Len(sp)) /\ (st = "old_log_prob" => o = <<>>)
      /\ c.dynamic /\ ord = <<>>
  BY DEF RankOK
<1>2. n \in Nat
  <2>1. InHand(c, st, b, r, pc, Len(sp))
    BY <1>1, HeadPiece
  <2>. QED  BY <2>1 DEF InHand
<1>. HIDE DEF n
<1>3. Partitions(y, k, n)
  BY <1>2, SortedKeeps DEF n
<1>. HIDE DEF y
<1>4. Deals(<<>>, y, n) /\ Len(y) = k
  BY <1>2, <1>3, DealsFirst
<1>5. Running(c, st, b, n, y, ord)
  BY <1>1, <1>4 DEF Running
<1>6. Result(c, st, b, Head(pc), ord, o, g)
  BY <1>1, ResultFirst
<1>7. RankOK(c, st, b, r, "run", pc, y, o, ord, g, sp)
  BY <1>1, <1>5, <1>6 DEF RankOK, n
<1>. QED  BY <1>4, <1>7 DEF y

\* What is known of a rank that runs.
Runs(c, st, b, r, pc, ms, o, ord, g, sp) ==
  /\ StepsOK(c, b, r, sp) /\ (st \notin {"update_actor", "done"} => sp = <<>>)
  /\ InPart(c, st, b, r, pc, Len(sp)) /\ InHand(c, st, b, r, pc, Len(sp))
  /\ Len(Head(pc)) \in Nat \ {0} /\ Head(pc) \in Seq(Nat)
  /\ Running(c, st, b, Len(Head(pc)), ms, ord)
  /\ Result(c, st, b, Head(pc), ord, o, g)

\* A rank that runs has a piece in hand.
LEMMA RankRuns ==
  ASSUME NEW c, Config(c), NEW b, Parted(b), NEW r \in Rank, NEW st, NEW pc, NEW ms,
         NEW o, NEW ord, NEW g, NEW sp, RankOK(c, st, b, r, "run", pc, ms, o, ord, g, sp)
  PROVE  Runs(c, st, b, r, pc, ms, o, ord, g, sp)
<1>1. /\ StepsOK(c, b, r, sp) /\ (st \notin {"update_actor", "done"} => sp = <<>>)
      /\ InPart(c, st, b, r, pc, Len(sp)) /\ Running(c, st, b, Len(Head(pc)), ms, ord)
      /\ Result(c, st, b, Head(pc), ord, o, g)
  BY DEF RankOK
<1>2. InHand(c, st, b, r, pc, Len(sp))
  BY <1>1, HeadPiece
<1>3. Len(Head(pc)) \in Nat \ {0} /\ Head(pc) \in Seq(Nat)
  BY <1>2 DEF InHand
<1>. QED  BY <1>1, <1>2, <1>3 DEF Runs

\* Running the next micro-batch of ms, with the rows t, leaves p and h where o and g were.
CameOut(c, st, b, pc, ms, t, o, g, p, h) ==
  /\ t = [i \in DOMAIN Head(ms) |-> Head(pc)[Head(ms)[i]]]
  /\ st = "old_log_prob" => p = o \o [i \in DOMAIN Head(ms) |-> b[t[i]].src] /\ h = g
  /\ st # "old_log_prob" => /\ p = o
                            /\ h = [rows   |-> g.rows \o t,
                                    weight |-> g.weight + WeightOf(c, Head(ms))]

\* A rank runs its next micro-batch.
LEMMA RankForward ==
  ASSUME NEW c, Config(c), NEW b, Parted(b), NEW r \in Rank, NEW st, NEW pc, NEW ms,
         NEW o, NEW ord, NEW g, NEW sp, RankOK(c, st, b, r, "run", pc, ms, o, ord, g, sp),
         ms # <<>>, NEW rows, NEW p, NEW h, CameOut(c, st, b, pc, ms, rows, o, g, p, h)
  PROVE  /\ RankOK(c, st, b, r, "run", pc, Tail(ms), p, ord \o Head(ms), h, sp)
         /\ Len(ms) \in Nat \ {0} /\ Len(Tail(ms)) = Len(ms) - 1
<1>. DEFINE n == Len(Head(pc))
            hd == Head(pc)
            m == Head(ms)
<1>0. /\ rows = [i \in DOMAIN Head(ms) |-> Head(pc)[Head(ms)[i]]]
      /\ st = "old_log_prob" => p = o \o [i \in DOMAIN Head(ms) |-> b[rows[i]].src] /\ h = g
      /\ st # "old_log_prob" => /\ p = o
                                /\ h = [rows   |-> g.rows \o rows,
                                        weight |-> g.weight + WeightOf(c, Head(ms))]
  BY DEF CameOut
<1>1. /\ StepsOK(c, b, r, sp) /\ (st \notin {"update_actor", "done"} => sp = <<>>)
      /\ InPart(c, st, b, r, pc, Len(sp))
      /\ n \in Nat /\ Running(c, st, b, n, ms, ord) /\ Result(c, st, b, hd, ord, o, g)
  <2>1. Runs(c, st, b, r, pc, ms, o, ord, g, sp)
    BY RankRuns
  <2>. QED  BY <2>1 DEF Runs
<1>2. /\ Running(c, st, b, n, Tail(ms), ord \o m) /\ ord \in Seq(Nat) /\ m \in Seq(Nat)
      /\ Len(ms) \in Nat \ {0} /\ Len(Tail(ms)) = Len(ms) - 1
      /\ ~c.dynamic /\ st # "old_log_prob" /\ Even(c, b) => Len(m) = c.micro
  <2>1. n \in Nat /\ Running(c, st, b, n, ms, ord)
    BY <1>1
  <2>. HIDE DEF n, m
  <2>2. RunOn(c, st, b, n, ms, ord)
    BY <2>1, RunningNext
  <2>. QED  BY <2>2 DEF RunOn, m
<1>3. Result(c, st, b, hd, ord \o m, p, h)
  <2>. HIDE DEF hd, m
  <2>1. /\ st = "old_log_prob" =>
              Result(c, st, b, hd, ord \o m,
                     o \o [i \in DOMAIN m |-> b[[j \in DOMAIN m |-> hd[m[j]]][i]].src], g)
        /\ st # "old_log_prob" =>
              Result(c, st, b, hd, ord \o m, o,
                     [rows   |-> g.rows \o [i \in DOMAIN m |-> hd[m[i]]],
                      weight |-> g.weight + WeightOf(c, m)])
    BY <1>1, <1>2, ResultNext
  <2>2. rows = [i \in DOMAIN m |-> hd[m[i]]]
    BY <1>0 DEF hd, m
  <2>3. CASE st = "old_log_prob"
    <3>1. Result(c, st, b, hd, ord \o m, o \o [i \in DOMAIN m |-> b[rows[i]].src], g)
      BY <2>1, <2>2, <2>3
    <3>. QED  BY <1>0, <2>3, <3>1 DEF m
  <2>4. CASE st # "old_log_prob"
    <3>1. Result(c, st, b, hd, ord \o m, o, [rows   |-> g.rows \o rows,
                                             weight |-> g.weight + WeightOf(c, m)])
      BY <2>1, <2>2, <2>4
    <3>. QED  BY <1>0, <2>4, <3>1 DEF m
  <2>. QED  BY <2>3, <2>4
<1>4. RankOK(c, st, b, r, "run", pc, Tail(ms), p, ord \o m, h, sp)
  BY <1>1, <1>2, <1>3 DEF RankOK
<1>. QED  BY <1>2, <1>4

\* A rank leaves compute_log_prob.
LEMMA RankFinished ==
  ASSUME NEW c, Config(c), NEW b, Parted(b), NEW r \in Rank, NEW pc,
         NEW o, NEW ord, NEW g, NEW sp, NEW rest, NEW st, st = "old_log_prob",
         RankOK(c, st, b, r, "run", pc, <<>>, o, ord, g, sp),
         NEW p, p = IF c.dynamic THEN LET back == ReverseIdx(ord)
                                      IN  [i \in DOMAIN back |-> o[back[i]]]
                    ELSE o
  PROVE  /\ RankOK(c, st, b, r, "done", rest, <<>>, p, ord, g, sp)
         /\ ord # <<>>
<1>. DEFINE n == Len(Head(pc))
            hd == Head(pc)
<1>1. /\ StepsOK(c, b, r, sp) /\ sp = <<>> /\ InHand(c, st, b, r, pc, Len(sp))
      /\ n \in Nat \ {0} /\ Running(c, st, b, n, <<>>, ord) /\ Result(c, st, b, hd, ord, o, g)
  <2>1. st \notin {"update_actor", "done"}
    OBVIOUS
  <2>2. Runs(c, st, b, r, pc, <<>>, o, ord, g, sp)
    BY RankRuns
  <2>. QED  BY <2>1, <2>2 DEF Runs
<1>2. g = NoGain /\ o = [i \in 1 .. Len(ord) |-> b[hd[ord[i]]].src]
  BY <1>1 DEF Result
<1>3. n = Part(b) /\ hd = Local(b, r)
  <2>1. Len(sp) = 0
    BY <1>1
  <2>2. n = PieceLen(c, st, b, 0 + 1) /\ hd = Whole(c, st, b, r)[0 + 1]
    BY <1>1, <2>1 DEF InHand
  <2>. QED  BY <2>2 DEF PieceLen, Whole
<1>. HIDE DEF n, hd
<1>4. p = [i \in 1 .. n |-> b[hd[i]].src]
  <2>1. n \in Nat
    BY <1>1
  <2>. QED  BY <1>1, <1>2, <2>1, BackInOrder
<1>5. ord # <<>>
  <2>1. n \in Nat
    BY <1>1
  <2>2. Len(ord) = n
    BY <1>1, <2>1, RunningDone
  <2>3. Len(<<>>) = 0
    OBVIOUS
  <2>. QED  BY <1>1, <2>2, <2>3
<1>6. AllRun(c, st, b, r, p, Len(sp))
  BY <1>3, <1>4 DEF AllRun
<1>7. RankOK(c, st, b, r, "done", rest, <<>>, p, ord, g, sp)
  BY <1>1, <1>2, <1>6 DEF RankOK
<1>. QED  BY <1>5, <1>7

\* A rank takes an optimizer step.
LEMMA RankStepped ==
  ASSUME NEW c, Config(c), NEW b, Parted(b), NEW r \in Rank, NEW pc,
         NEW o, NEW ord, NEW g, NEW sp, NEW st, st = "update_actor",
         RankOK(c, st, b, r, "run", pc, <<>>, o, ord, g, sp)
  PROVE  /\ RankOK(c, st, b, r, IF Len(pc) > 1 THEN "piece" ELSE "done", Tail(pc), <<>>, o, ord,
                   NoGain, Append(sp, g))
         /\ Len(Append(sp, g)) = Len(sp) + 1
<1>. DEFINE n == Len(Head(pc))
            hd == Head(pc)
            d == Len(sp)
            S == [rows : Seq(Nat), weight : Nat]
            q == Append(sp, g)
<1>1. /\ StepsOK(c, b, r, sp) /\ InPart(c, st, b, r, pc, d) /\ InHand(c, st, b, r, pc, d)
      /\ hd \in Seq(Nat) /\ Running(c, st, b, n, <<>>, ord) /\ Result(c, st, b, hd, ord, o, g)
  <2>1. Runs(c, st, b, r, pc, <<>>, o, ord, g, sp)
    BY RankRuns
  <2>. QED  BY <2>1 DEF Runs
<1>2. st # "old_log_prob" /\ Whole(c, st, b, r) = Whole(c, "update_actor", b, r)
  OBVIOUS
<1>3. Taken(c, b, hd, g) /\ g \in S
  <2>. HIDE DEF hd
  <2>1. Running(c, st, b, Len(hd), <<>>, ord)
    BY <1>1 DEF hd
  <2>. QED  BY <1>1, <1>2, <2>1, StepTaken
<1>4. sp \in Seq(S) /\ \A k \in 1 .. d : Taken(c, b, Whole(c, "update_actor", b, r)[k], sp[k])
  BY <1>1 DEF StepsOK
<1>5. /\ PieceTotal(c, st, b) \in Nat \ {0} /\ d + 1 \in 1 .. PieceTotal(c, st, b)
      /\ hd = Whole(c, "update_actor", b, r)[d + 1]
      /\ Len(pc) > 1 <=> d + 1 < PieceTotal(c, st, b)
      /\ d + 1 < PieceTotal(c, st, b) => InPart(c, st, b, r, Tail(pc), d + 1)
  BY <1>1, <1>2 DEF InHand
<1>. HIDE DEF S, hd
<1>6. /\ q \in Seq(S) /\ Len(q) = d + 1 /\ d \in Nat
      /\ \A k \in 1 .. d + 1 : q[k] = IF k <= d THEN sp[k] ELSE g
  BY <1>3, <1>4
<1>. HIDE DEF d, q
<1>7. StepsOK(c, b, r, q)
  <2>. SUFFICES ASSUME NEW k \in 1 .. d + 1
                PROVE  Taken(c, b, Whole(c, "update_actor", b, r)[k], q[k])
    BY <1>6 DEF StepsOK, S
  <2>1. CASE k <= d
    <3>1. k \in 1 .. d
      BY <1>6, <2>1
    <3>. QED  BY <1>4, <1>6, <2>1, <3>1
  <2>2. CASE ~(k <= d)
    <3>1. k = d + 1
      BY <1>6, <2>2
    <3>2. q[k] = g
      BY <1>6, <2>2
    <3>. QED  BY <1>3, <1>5, <3>1, <3>2
  <2>. QED  BY <2>1, <2>2
<1>8. CASE Len(pc) > 1
  <2>1. InPart(c, st, b, r, Tail(pc), Len(q))
    BY <1>5, <1>6, <1>8
  <2>2. RankOK(c, st, b, r, "piece", Tail(pc), <<>>, o, ord, NoGain, q)
    BY <1>7, <2>1 DEF RankOK
  <2>. QED  BY <1>6, <1>8, <2>2 DEF q, d
<1>9. CASE ~(Len(pc) > 1)
  <2>1. Len(q) = PieceTotal(c, st, b)
    BY <1>5, <1>6, <1>9
  <2>2. MiniCut(c, st, b)
    BY <1>1 DEF InPart
  <2>3. AllRun(c, st, b, r, o, Len(q))
    BY <2>1, <2>2 DEF AllRun
  <2>4. RankOK(c, st, b, r, "done", Tail(pc), <<>>, o, ord, NoGain, q)
    BY <1>7, <2>3 DEF RankOK
  <2>. QED  BY <1>6, <1>9, <2>4 DEF q, d
<1>. QED  BY <1>8, <1>9

\* The stage after the call st.
After(st) == IF st = "old_log_prob" THEN "adv" ELSE "done"

\* The results of a rank are collected.
LEMMA RankCollected ==
  ASSUME NEW c, NEW b, NEW r \in Rank, NEW pc, NEW ms,
         NEW o, NEW ord, NEW g, NEW sp, NEW st \in Calls,
         RankOK(c, st, b, r, "done", pc, ms, o, ord, g, sp)
  PROVE  /\ RankOK(c, After(st), b, r, "idle", pc, ms, o, ord, g, sp)
         /\ st = "old_log_prob" => ComputedBy(o, b, r)
<1>1. /\ StepsOK(c, b, r, sp) /\ (st \notin {"update_actor", "done"} => sp = <<>>)
      /\ g = NoGain /\ AllRun(c, st, b, r, o, Len(sp))
  BY DEF RankOK
<1>2. CASE st = "old_log_prob"
  <2>1. sp = <<>> /\ ComputedBy(o, b, r)
    BY <1>1, <1>2 DEF AllRun, ComputedBy
  <2>. QED  BY <1>1, <1>2, <2>1 DEF RankOK, After
<1>3. CASE st # "old_log_prob"
  <2>1. st = "update_actor" /\ After(st) = "done"
    BY <1>3 DEF Calls, After
  <2>2. AllRun(c, After(st), b, r, o, Len(sp))
    BY <1>1, <2>1 DEF AllRun, MiniCut, PieceTotal
  <2>3. RankOK(c, After(st), b, r, "idle", pc, ms, o, ord, g, sp)
    BY <1>1, <2>1, <2>2 DEF RankOK
  <2>. QED  BY <1>3, <2>3
<1>. QED  BY <1>2, <1>3

(***************************************************************************)
(* The agreement on the number of micro-batches                            *)
(***************************************************************************)

\* The ranks agree on a number of micro-batches that each of them can make of its piece.
LEMMA AgreedPartitions ==
  ASSUME cfg \in Configs, SizedBatch(cfg, batch), NEW n \in Nat \ {0},
         \A r \in Rank : /\ Head(pieces[r]) \in Seq(Nat) /\ Len(Head(pieces[r])) = n
                         /\ \A j \in 1 .. n : Head(pieces[r])[j] \in 1 .. Len(batch)
  PROVE  \E k \in 1 .. n : \A r \in Rank : /\ Agreed(r) = k /\ Partitions(Balanced(r), k, n)
                                           /\ PartitionsValid(Lengths(r), Balanced(r), k)
<1>. DEFINE L == Nat \ {0}
            m == Len(cfg.lens)
<1>1. /\ cfg.lens \in Seq(L) /\ cfg.max_token_len \in L /\ World \in Nat \ {0}
  BY ConfigsAre DEF Config
<1>2. batch \in Seq(RowOf(m))
  BY DEF SizedBatch
<1>3. \A i \in 1 .. Len(batch) : cfg.lens[batch[i].src] \in L
  <2>1. \A i \in 1 .. Len(batch) : batch[i] \in RowOf(m)
    <3>. DEFINE T == RowOf(m)
    <3>1. batch \in Seq(T)
      BY <1>2
    <3>. HIDE DEF T
    <3>2. \A i \in 1 .. Len(batch) : batch[i] \in T
      BY <3>1
    <3>. QED  BY <3>2 DEF T
  <2>2. \A i \in 1 .. Len(batch) : batch[i].src \in 1 .. m
    BY <2>1 DEF RowOf
  <2>. DEFINE s == cfg.lens
  <2>3. s \in Seq(L)
    BY <1>1
  <2>. HIDE DEF s, L
  <2>4. \A x \in 1 .. Len(s) : s[x] \in L
    BY <2>3
  <2>. QED  BY <2>2, <2>4 DEF s
<1>. HIDE DEF L, m
<1>4. ASSUME NEW r \in Rank
      PROVE  Lengths(r) \in Seq(L) /\ Len(Lengths(r)) = n /\ DOMAIN Lengths(r) = 1 .. n
  <2>. DEFINE h == Head(pieces[r])
  <2>1. h \in Seq(Nat) /\ Len(h) = n /\ \A j \in 1 .. n : h[j] \in 1 .. Len(batch)
    OBVIOUS
  <2>2. Lengths(r) = [i \in DOMAIN h |-> cfg.lens[batch[h[i]].src]]
    BY DEF Lengths
  <2>. HIDE DEF h
  <2>3. DOMAIN h = 1 .. n /\ n \in Nat
    BY <2>1
  <2>4. \A i \in 1 .. n : cfg.lens[batch[h[i]].src] \in L
    BY <1>3, <2>1
  <2>5. Lengths(r) = [i \in 1 .. n |-> cfg.lens[batch[h[i]].src]]
    BY <2>2, <2>3
  <2>. QED  BY <2>3, <2>4, <2>5
<1>5. ASSUME NEW r \in Rank PROVE Wanted(r) \in 1 .. n
  <2>. DEFINE s == Lengths(r)
              t == FoldLeft(+, 0, s)
              z == cfg.max_token_len
  <2>1. s \in Seq(Nat \ {0}) /\ Len(s) = n /\ s # <<>>
    <3>1. s \in Seq(L) /\ Len(s) = n
      BY <1>4
    <3>. HIDE DEF s
    <3>2. Len(<<>>) = 0
      OBVIOUS
    <3>. QED  BY <3>1, <3>2 DEF L
  <2>2. t \in Nat \ {0}
    <3>. HIDE DEF s
    <3>. QED  BY <2>1, SumPositive
  <2>3. Wanted(r) = IF CeilDiv(t, z) <= Len(s) THEN CeilDiv(t, z) ELSE Len(s)
    BY DEF Wanted, MicroBatchesWanted
  <2>4. z \in Nat \ {0}
    BY <1>1 DEF L
  <2>. HIDE DEF t, z, s
  <2>5. CeilDiv(t, z) \in Nat /\ CeilDiv(t, z) # 0
    BY <2>2, <2>4, CeilDivFacts
  <2>. QED  BY <2>1, <2>3, <2>5
<1>. DEFINE W == {Wanted(s) : s \in Rank}
<1>6. W \in SUBSET (1 .. n) /\ W # {} /\ n \in Nat
  <2>1. 1 \in Rank
    BY <1>1 DEF Rank
  <2>. QED  BY <1>5, <2>1
<1>7. PICK k \in W : \A j \in W : j <= k
  <2>. HIDE DEF W
  <2>. QED  BY <1>6, MaxIn
<1>8. k \in 1 .. n
  BY <1>6
<1>9. ASSUME NEW r \in Rank PROVE Agreed(r) = k
  <2>. DEFINE P(v) == \A s \in Rank : v >= Wanted(s)
  <2>1. Agreed(r) = CHOOSE v \in W : P(v)
    BY DEF Agreed
  <2>2. P(k)
    <3>. SUFFICES ASSUME NEW s \in Rank PROVE k >= Wanted(s)
      OBVIOUS
    <3>1. Wanted(s) <= k
      BY <1>7
    <3>. QED  BY <1>5, <1>8, <3>1
  <2>. DEFINE v == CHOOSE v \in W : P(v)
  <2>3. v \in W /\ P(v)
    BY <1>7, <2>2
  <2>. HIDE DEF v
  <2>4. PICK s \in Rank : k = Wanted(s)
    BY <1>7
  <2>5. v >= k
    BY <2>3, <2>4
  <2>6. v <= k
    BY <1>7, <2>3
  <2>7. v \in Nat /\ k \in Nat
    BY <1>6, <1>8, <2>3
  <2>. QED  BY <2>1, <2>5, <2>6, <2>7 DEF v
<1>10. ASSUME NEW r \in Rank
       PROVE  Partitions(Balanced(r), k, n) /\ PartitionsValid(Lengths(r), Balanced(r), k)
  <2>. DEFINE s == Lengths(r)
  <2>1. s \in Seq(Nat \ {0}) /\ Len(s) = n /\ DOMAIN s = 1 .. n /\ k \in 1 .. Len(s)
    BY <1>4, <1>8 DEF L
  <2>2. Balanced(r) = KarmarkarKarp(s, k)
    BY <1>9 DEF Balanced
  <2>. HIDE DEF s
  <2>3. Partitions(KarmarkarKarp(s, k), k, n)
    BY <2>1, KarmarkarKarpPartitions
  <2>. DEFINE x == Balanced(r)
  <2>4. Partitions(x, k, n)
    BY <2>2, <2>3
  <2>5. k \in Nat \ {0} /\ n \in Nat
    BY <1>8
  <2>. HIDE DEF x
  <2>6. PartitionsValid(s, x, k)
    BY <2>1, <2>4, <2>5, PartitionsAreValid
  <2>. QED  BY <2>4, <2>6 DEF s, x
<1>. QED  BY <1>8, <1>9, <1>10

(***************************************************************************)
(* Two ranks                                                               *)
(***************************************************************************)

\* Rank r and what it holds.
Here(r)  == RankOK(cfg, stage, batch, r, at[r], pieces[r], micros[r], output[r], order[r],
                   gain[r], steps[r])
Pair(r, s) == PairOK(cfg, at[r], at[s], micros[r], micros[s], order[s], Len(steps[r]),
                     Len(steps[s]))

\* There is a first rank.
LEMMA RankOne == World \in Nat \ {0} /\ 1 \in Rank
BY ConfigsAre DEF Rank

\* While a rank is at work, the batch is dealt out.
LEMMA AtWork ==
  ASSUME Sized, Sound, NEW r \in Rank, at[r] # "idle"
  PROVE  stage \in Calls /\ Parted(batch) /\ cfg \in Configs /\ Config(cfg)
BY ConfigsAre DEF Sized, Sound, Stages

\* How far a rank can be that does what it does.
LEMMA Doing ==
  ASSUME NEW r \in Rank, Here(r)
  PROVE  /\ at[r] \in {"idle", "start", "piece", "reduce", "run", "done", "raised"}
         /\ at[r] \in {"piece", "reduce", "run"} =>
              /\ InPart(cfg, stage, batch, r, pieces[r], Len(steps[r]))
              /\ MiniCut(cfg, stage, batch)
         /\ at[r] = "reduce" => cfg.dynamic /\ Fits(cfg)
         /\ at[r] = "run" => Running(cfg, stage, batch, Len(Head(pieces[r])), micros[r], order[r])
         /\ at[r] = "raised" => Refused(cfg, stage, batch, Len(steps[r]))
BY DEF Here, RankOK, InPart

\* Ranks that run have the same pieces before them.
LEMMA MatchHolds ==
  ASSUME Sized, Sound
  PROVE  CollectivesMatch
<1>. SUFFICES ASSUME NEW r \in Rank, NEW s \in Rank
              PROVE  /\ at[r] = "run" /\ at[s] = "run" =>
                          Len(pieces[r]) = Len(pieces[s]) /\ Len(micros[r]) = Len(micros[s])
                     /\ at[r] = "reduce" => at[s] \in {"start", "piece", "reduce"}
                     /\ at[r] = "done" /\ at[s] = "run" => micros[s] = <<>>
  BY DEF CollectivesMatch
<1>1. Pair(r, s) /\ Here(r) /\ Here(s)
  BY DEF Sound, PairsOK, RanksOK, Pair, Here
<1>2. CASE at[r] = "run" /\ at[s] = "run"
  <2>1. Parted(batch) /\ Config(cfg)
    BY <1>2, AtWork
  <2>2. /\ InPart(cfg, stage, batch, r, pieces[r], Len(steps[r]))
        /\ InPart(cfg, stage, batch, s, pieces[s], Len(steps[s]))
    BY <1>1, <1>2, Doing
  <2>3. InHand(cfg, stage, batch, r, pieces[r], Len(steps[r]))
    BY <2>1, <2>2, HeadPiece
  <2>4. InHand(cfg, stage, batch, s, pieces[s], Len(steps[s]))
    BY <2>1, <2>2, HeadPiece
  <2>5. /\ Len(pieces[r]) = PieceTotal(cfg, stage, batch) - Len(steps[r])
        /\ Len(pieces[s]) = PieceTotal(cfg, stage, batch) - Len(steps[s])
    BY <2>3, <2>4 DEF InHand
  <2>6. Len(steps[r]) = Len(steps[s]) /\ Len(micros[r]) = Len(micros[s])
    BY <1>1, <1>2 DEF Pair, PairOK
  <2>. QED  BY <1>2, <2>5, <2>6
<1>3. CASE ~(at[r] = "run" /\ at[s] = "run")
  BY <1>1, <1>3 DEF Pair, PairOK
<1>. QED  BY <1>2, <1>3

\* A step of the ranks, the driver waiting.
LEMMA Moved ==
  ASSUME Sized, Sound, NEW r \in Rank, at[r] # "idle", UNCHANGED <<cfg, stage, batch, log_probs>>,
         Typed', RanksOK', PairsOK'
  PROVE  Sound'
<1>1. stage \in Calls /\ Parted(batch)
  BY AtWork
<1>2. stage \in {"adv", "update_actor", "done"} => log_probs = [i \in DOMAIN batch |-> batch[i].src]
  BY DEF Sound, Stages
<1>3. Stages'
  BY <1>1, <1>2 DEF Stages
<1>. QED  BY <1>3 DEF Sound

\* A step of rank r alone.
Alone(r) ==
  \A s \in Rank \ {r} : /\ at'[s] = at[s] /\ pieces'[s] = pieces[s] /\ micros'[s] = micros[s]
                        /\ output'[s] = output[s] /\ order'[s] = order[s]
                        /\ gain'[s] = gain[s] /\ steps'[s] = steps[s]

\* It is enough to look at that rank.
LEMMA MovedAlone ==
  ASSUME Sized, Sound, NEW r \in Rank, at[r] # "idle", UNCHANGED <<cfg, stage, batch, log_probs>>,
         Typed', Alone(r), Here(r)', Pair(r, r)',
         \A s \in Rank \ {r} : Pair(r, s)' /\ Pair(s, r)'
  PROVE  Sound'
<1>1. \A s \in Rank : Here(s)
  BY DEF Sound, RanksOK, Here
<1>2. \A s, t \in Rank : Pair(s, t)
  BY DEF Sound, PairsOK, Pair
<1>3. ASSUME NEW s \in Rank PROVE Here(s)'
  <2>1. CASE s = r
    BY <2>1
  <2>2. CASE s # r
    <3>1. /\ at'[s] = at[s] /\ pieces'[s] = pieces[s] /\ micros'[s] = micros[s]
          /\ output'[s] = output[s] /\ order'[s] = order[s]
          /\ gain'[s] = gain[s] /\ steps'[s] = steps[s]
      BY <2>2 DEF Alone
    <3>. QED  BY <1>1, <3>1 DEF Here
  <2>. QED  BY <2>1, <2>2
<1>4. ASSUME NEW s \in Rank, NEW t \in Rank PROVE Pair(s, t)'
  <2>1. CASE s = r /\ t = r
    BY <2>1
  <2>2. CASE s = r /\ t # r
    BY <2>2
  <2>3. CASE s # r /\ t = r
    BY <2>3
  <2>4. CASE s # r /\ t # r
    <3>1. /\ at'[s] = at[s] /\ micros'[s] = micros[s] /\ steps'[s] = steps[s]
          /\ at'[t] = at[t] /\ micros'[t] = micros[t] /\ steps'[t] = steps[t]
          /\ order'[t] = order[t]
      BY <2>4 DEF Alone
    <3>2. Pair(s, t)
      BY <1>2
    <3>. QED  BY <3>1, <3>2 DEF Pair
  <2>. QED  BY <2>1, <2>2, <2>3, <2>4
<1>5. RanksOK' /\ PairsOK'
  BY <1>3, <1>4 DEF RanksOK, PairsOK, Here, Pair
<1>. QED  BY <1>5, Moved

\* The pieces of two ranks that are at work are of the same length.
LEMMA SameLength ==
  ASSUME Sized, Sound, NEW r \in Rank, at[r] \in {"piece", "reduce", "run"}
  PROVE  /\ InHand(cfg, stage, batch, r, pieces[r], Len(steps[r]))
         /\ Len(Head(pieces[r])) \in Nat \ {0}
         /\ Len(Head(pieces[r])) = PieceLen(cfg, stage, batch, Len(steps[r]) + 1)
         /\ Len(steps[r]) + 1 \in 1 .. PieceTotal(cfg, stage, batch)
         /\ \A s \in Rank : Len(steps[s]) = Len(steps[r])
<1>1. Parted(batch) /\ Config(cfg)
  BY AtWork
<1>2. InPart(cfg, stage, batch, r, pieces[r], Len(steps[r]))
  <2>1. Here(r)
    BY DEF Sound, RanksOK, Here
  <2>. QED  BY <2>1, Doing
<1>3. InHand(cfg, stage, batch, r, pieces[r], Len(steps[r]))
  BY <1>1, <1>2, HeadPiece
<1>4. \A s \in Rank : Len(steps[s]) = Len(steps[r])
  <2>1. \A s \in Rank : Pair(s, r)
    BY DEF Sound, PairsOK, Pair
  <2>. QED  BY <2>1 DEF Pair, PairOK
<1>. QED  BY <1>3, <1>4 DEF InHand

(***************************************************************************)
(* The steps of ranks keep the invariant                                   *)
(***************************************************************************)

\* g is f with v at r.
Put(f, g, r, v) == OnRanks(g) /\ g[r] = v /\ \A s \in Rank \ {r} : g[s] = f[s]

\* EXCEPT changes a rank and no other.
LEMMA OneChanged ==
  ASSUME NEW f, OnRanks(f), NEW r \in Rank, NEW v
  PROVE  Put(f, [f EXCEPT ![r] = v], r, v)
<1>. DEFINE g == [f EXCEPT ![r] = v]
<1>1. DOMAIN f = Rank
  BY DEF OnRanks
<1>2. g = [s \in Rank |-> IF s = r THEN v ELSE f[s]]
  BY <1>1
<1>3. \A s \in Rank : g[s] = IF s = r THEN v ELSE f[s]
  BY <1>2
<1>4. g = [s \in Rank |-> g[s]]
  BY <1>2, <1>3
<1>. QED  BY <1>3, <1>4 DEF OnRanks, Put

\* Start keeps what is sound.
LEMMA SoundStart ==
  ASSUME Sized, Sound, NEW r \in Rank, Start(r)
  PROVE  Sound'
<1>. DEFINE local == Head(pieces[r])
<1>1. /\ stage \in Calls /\ at[r] = "start" /\ at[r] # "idle"
      /\ UNCHANGED <<cfg, stage, batch, micros, order, log_probs, gain, steps>>
      /\ output' = [output EXCEPT ![r] = <<>>]
      /\ IF stage = "old_log_prob" THEN at' = [at EXCEPT ![r] = "piece"] /\ UNCHANGED pieces
         ELSE IF CuttableOf(cfg.mm, Len(local), cfg.mini)
         THEN /\ at' = [at EXCEPT ![r] = "piece"]
              /\ pieces' = [pieces EXCEPT ![r] = CutOf(cfg.mm, local, cfg.mini)]
         ELSE at' = [at EXCEPT ![r] = "raised"] /\ UNCHANGED pieces
  BY DEF Start, Go, Cuttable, Cut, CuttableOf, CutOf
<1>2. Parted(batch) /\ Config(cfg)
  BY <1>1, AtWork
<1>3. /\ OnRanks(at) /\ OnRanks(pieces) /\ OnRanks(micros) /\ OnRanks(output)
      /\ OnRanks(order) /\ OnRanks(gain) /\ OnRanks(steps)
  BY DEF Sound, Typed
<1>4. /\ Head(pieces[r]) = Local(batch, r) /\ Len(local) = Part(batch)
      /\ stage = "old_log_prob" =>
           RankOK(cfg, stage, batch, r, "piece", pieces[r], micros[r], <<>>, order[r], gain[r],
                  steps[r])
      /\ stage # "old_log_prob" =>
           IF CuttableOf(cfg.mm, Len(local), cfg.mini)
           THEN RankOK(cfg, stage, batch, r, "piece", CutOf(cfg.mm, local, cfg.mini), micros[r],
                       <<>>, order[r], gain[r], steps[r])
           ELSE RankOK(cfg, stage, batch, r, "raised", pieces[r], micros[r], <<>>, order[r],
                       gain[r], steps[r])
  <2>1. RankOK(cfg, stage, batch, r, "start", pieces[r], micros[r], output[r], order[r],
               gain[r], steps[r])
    BY <1>1 DEF Sound, RanksOK
  <2>. QED  BY <1>1, <1>2, <2>1, RankStarted
<1>. HIDE DEF local
<1>5. \A s \in Rank : Pair(r, s) /\ Pair(s, r) /\ Here(s)
  BY DEF Sound, PairsOK, RanksOK, Pair, Here
<1>6. /\ OnRanks(output') /\ output'[r] = <<>> /\ \A s \in Rank \ {r} : output'[s] = output[s]
  <2>1. Put(output, [output EXCEPT ![r] = <<>>], r, <<>>)
    BY <1>3, OneChanged
  <2>. QED  BY <1>1, <2>1 DEF Put
<1>7. CASE /\ at' = [at EXCEPT ![r] = "piece"]
           /\ (stage = "old_log_prob" \/ CuttableOf(cfg.mm, Len(local), cfg.mini))
  <2>1. OnRanks(at') /\ at'[r] = "piece" /\ \A s \in Rank \ {r} : at'[s] = at[s]
    <3>1. Put(at, [at EXCEPT ![r] = "piece"], r, "piece")
      BY <1>3, OneChanged
    <3>. QED  BY <1>7, <3>1 DEF Put
  <2>2. OnRanks(pieces') /\ \A s \in Rank \ {r} : pieces'[s] = pieces[s]
    <3>1. CASE pieces' = pieces
      BY <1>3, <3>1
    <3>2. CASE pieces' = [pieces EXCEPT ![r] = CutOf(cfg.mm, local, cfg.mini)]
      <4>1. Put(pieces, [pieces EXCEPT ![r] = CutOf(cfg.mm, local, cfg.mini)], r,
                CutOf(cfg.mm, local, cfg.mini))
        BY <1>3, OneChanged
      <4>. QED  BY <3>2, <4>1 DEF Put
    <3>. QED  BY <1>1, <1>7, <3>1, <3>2
  <2>3. pieces'[r] = IF stage = "old_log_prob" THEN pieces[r] ELSE CutOf(cfg.mm, local, cfg.mini)
    <3>1. CASE stage = "old_log_prob"
      BY <1>1, <3>1
    <3>2. CASE stage # "old_log_prob"
      <4>1. pieces' = [pieces EXCEPT ![r] = CutOf(cfg.mm, local, cfg.mini)]
        BY <1>1, <1>7, <3>2
      <4>2. pieces'[r] = CutOf(cfg.mm, local, cfg.mini)
        <5>1. Put(pieces, [pieces EXCEPT ![r] = CutOf(cfg.mm, local, cfg.mini)], r,
                  CutOf(cfg.mm, local, cfg.mini))
          BY <1>3, OneChanged
        <5>. QED  BY <4>1, <5>1 DEF Put
      <4>. QED  BY <3>2, <4>2
    <3>. QED  BY <3>1, <3>2
  <2>4. Typed' /\ Alone(r)
    BY <1>1, <1>3, <1>6, <2>1, <2>2 DEF Typed, Alone
  <2>5. Here(r)'
    BY <1>1, <1>4, <1>6, <1>7, <2>1, <2>3 DEF Here
  <2>6. \A s \in Rank \ {r} : Pair(r, s)' /\ Pair(s, r)'
    BY <1>1, <1>5, <2>1 DEF Pair, PairOK
  <2>7. Pair(r, r)'
    BY <1>1, <2>1 DEF Pair, PairOK
  <2>. QED  BY <1>1, <2>4, <2>5, <2>6, <2>7, MovedAlone
<1>8. CASE /\ at' = [at EXCEPT ![r] = "raised"] /\ UNCHANGED pieces
           /\ stage # "old_log_prob" /\ ~CuttableOf(cfg.mm, Len(local), cfg.mini)
  <2>1. OnRanks(at') /\ at'[r] = "raised" /\ \A s \in Rank \ {r} : at'[s] = at[s]
    <3>1. Put(at, [at EXCEPT ![r] = "raised"], r, "raised")
      BY <1>3, OneChanged
    <3>. QED  BY <1>8, <3>1 DEF Put
  <2>2. Typed' /\ Alone(r)
    BY <1>1, <1>3, <1>6, <1>8, <2>1 DEF Typed, Alone
  <2>3. Here(r)'
    BY <1>1, <1>4, <1>6, <1>8, <2>1 DEF Here
  <2>4. ~MiniCut(cfg, stage, batch)
    BY <1>4, <1>8 DEF MiniCut
  <2>5. ASSUME NEW s \in Rank \ {r} PROVE at[s] \in {"start", "raised"}
    <3>1. at[s] \notin {"piece", "reduce", "run"}
      BY <1>5, <2>4, Doing
    <3>2. at[s] \in {"idle", "start", "piece", "reduce", "run", "done", "raised"}
      BY <1>5, Doing
    <3>3. at[s] # "idle" /\ at[s] # "done"
      BY <1>1, <1>5 DEF Pair, PairOK
    <3>. QED  BY <3>1, <3>2, <3>3
  <2>6. \A s \in Rank \ {r} : Pair(r, s)' /\ Pair(s, r)'
    BY <1>1, <1>5, <2>1, <2>5 DEF Pair, PairOK
  <2>7. Pair(r, r)'
    BY <1>1, <2>1 DEF Pair, PairOK
  <2>. QED  BY <1>1, <2>2, <2>3, <2>6, <2>7, MovedAlone
<1>. QED  BY <1>1, <1>7, <1>8

\* Joining the all_reduce keeps what is sound.
LEMMA SoundJoinReduce ==
  ASSUME Sized, Sound, NEW r \in Rank, JoinReduce(r)
  PROVE  Sound'
<1>. DEFINE w == IF Fits(cfg) THEN "reduce" ELSE "raised"
<1>1. /\ stage \in Calls /\ at[r] = "piece" /\ at[r] # "idle" /\ cfg.dynamic
      /\ UNCHANGED <<cfg, stage, batch, pieces, micros, output, log_probs, gain, steps>>
      /\ at' = [at EXCEPT ![r] = w] /\ order' = [order EXCEPT ![r] = <<>>]
  BY DEF JoinReduce, Go, WidthFits, Fits
<1>2. /\ OnRanks(at) /\ OnRanks(pieces) /\ OnRanks(micros) /\ OnRanks(output)
      /\ OnRanks(order) /\ OnRanks(gain) /\ OnRanks(steps)
  BY DEF Sound, Typed
<1>3. OnRanks(at') /\ at'[r] = w /\ \A s \in Rank \ {r} : at'[s] = at[s]
  <2>1. Put(at, [at EXCEPT ![r] = w], r, w)
    BY <1>2, OneChanged
  <2>. QED  BY <1>1, <2>1 DEF Put
<1>4. OnRanks(order') /\ order'[r] = <<>> /\ \A s \in Rank \ {r} : order'[s] = order[s]
  <2>1. Put(order, [order EXCEPT ![r] = <<>>], r, <<>>)
    BY <1>2, OneChanged
  <2>. QED  BY <1>1, <2>1 DEF Put
<1>5. Typed' /\ Alone(r)
  BY <1>1, <1>2, <1>3, <1>4 DEF Typed, Alone
<1>6. Here(r)'
  <2>1. RankOK(cfg, stage, batch, r, "piece", pieces[r], micros[r], output[r], order[r],
               gain[r], steps[r])
    BY <1>1 DEF Sound, RanksOK
  <2>2. RankOK(cfg, stage, batch, r, w, pieces[r], micros[r], output[r], <<>>,
               gain[r], steps[r])
    BY <1>1, <2>1, RankJoins
  <2>. QED  BY <1>1, <1>3, <1>4, <2>2 DEF Here
<1>7. \A s \in Rank : Pair(r, s) /\ Pair(s, r) /\ Here(s)
  BY DEF Sound, PairsOK, RanksOK, Pair, Here
<1>8. ASSUME NEW s \in Rank \ {r} PROVE at[s] \in {"start", "piece", w}
  <2>1. at[s] \in {"idle", "start", "piece", "reduce", "run", "done", "raised"}
    BY <1>7, Doing
  <2>2. at[s] # "idle" /\ at[s] # "done" /\ at[s] # "run"
    BY <1>1, <1>7 DEF Pair, PairOK
  <2>3. Fits(cfg) => at[s] # "raised"
    <3>. SUFFICES ASSUME Fits(cfg) PROVE at[s] # "raised"
      OBVIOUS
    <3>1. Len(steps[s]) = Len(steps[r])
      BY <1>7 DEF Pair, PairOK
    <3>2. MiniCut(cfg, stage, batch)
      BY <1>1, <1>7, Doing
    <3>3. ~Refused(cfg, stage, batch, Len(steps[s]))
      BY <1>1, <3>2 DEF Refused
    <3>. QED  BY <1>7, <3>3, Doing
  <2>4. at[s] = "reduce" => Fits(cfg)
    BY <1>7, Doing
  <2>. QED  BY <2>1, <2>2, <2>3, <2>4
<1>9. \A s \in Rank \ {r} : Pair(r, s)' /\ Pair(s, r)'
  BY <1>1, <1>3, <1>4, <1>7, <1>8 DEF Pair, PairOK
<1>10. Pair(r, r)'
  BY <1>1, <1>3 DEF Pair, PairOK
<1>. QED  BY <1>1, <1>5, <1>6, <1>9, <1>10, MovedAlone

\* Cutting a piece keeps what is sound.
LEMMA SoundCutPiece ==
  ASSUME Sized, Sound, NEW r \in Rank, CutPiece(r)
  PROVE  Sound'
<1>. DEFINE n == Len(Head(pieces[r]))
            z == Micro(cfg, stage)
            x == CutOf(cfg.mm, Places(n), z)
<1>1. /\ stage \in Calls /\ at[r] = "piece" /\ at[r] # "idle" /\ ~cfg.dynamic
      /\ UNCHANGED <<cfg, stage, batch, pieces, output, log_probs, gain, steps>>
      /\ order' = [order EXCEPT ![r] = <<>>]
      /\ IF CuttableOf(cfg.mm, n, z)
         THEN at' = [at EXCEPT ![r] = "run"] /\ micros' = [micros EXCEPT ![r] = x]
         ELSE at' = [at EXCEPT ![r] = "raised"] /\ UNCHANGED micros
  BY DEF CutPiece, Go, Cuttable, Cut, CuttableOf, CutOf, MicroSize, Micro
<1>2. Parted(batch) /\ Config(cfg)
  BY <1>1, AtWork
<1>3. /\ OnRanks(at) /\ OnRanks(pieces) /\ OnRanks(micros) /\ OnRanks(output)
      /\ OnRanks(order) /\ OnRanks(gain) /\ OnRanks(steps)
  BY DEF Sound, Typed
<1>4. IF CuttableOf(cfg.mm, n, z)
      THEN /\ RankOK(cfg, stage, batch, r, "run", pieces[r], x, output[r], <<>>, gain[r], steps[r])
           /\ Len(x) = PieceCount(cfg.mm, PieceLen(cfg, stage, batch, Len(steps[r]) + 1), z)
      ELSE RankOK(cfg, stage, batch, r, "raised", pieces[r], micros[r], output[r], <<>>, gain[r],
                  steps[r])
  <2>1. RankOK(cfg, stage, batch, r, "piece", pieces[r], micros[r], output[r], order[r],
               gain[r], steps[r])
    BY <1>1 DEF Sound, RanksOK
  <2>. QED  BY <1>1, <1>2, <2>1, RankCut
<1>. HIDE DEF x
<1>5. \A s \in Rank : Pair(r, s) /\ Pair(s, r) /\ Here(s)
  BY DEF Sound, PairsOK, RanksOK, Pair, Here
<1>6. /\ OnRanks(order') /\ order'[r] = <<>> /\ \A s \in Rank \ {r} : order'[s] = order[s]
  <2>1. Put(order, [order EXCEPT ![r] = <<>>], r, <<>>)
    BY <1>3, OneChanged
  <2>. QED  BY <1>1, <2>1 DEF Put
<1>7. /\ n = PieceLen(cfg, stage, batch, Len(steps[r]) + 1)
      /\ Len(steps[r]) + 1 \in 1 .. PieceTotal(cfg, stage, batch)
      /\ \A s \in Rank : Len(steps[s]) = Len(steps[r])
  BY <1>1, SameLength
<1>8. MiniCut(cfg, stage, batch)
  BY <1>1, <1>5, Doing
<1>. HIDE DEF n, z
<1>9. ASSUME NEW s \in Rank
      PROVE  /\ at[s] \in {"start", "piece", "run", "raised"}
             /\ at[s] = "run" => /\ CuttableOf(cfg.mm, n, z)
                                 /\ Len(micros[s]) = PieceCount(cfg.mm, n, z)
             /\ at[s] = "raised" => ~CuttableOf(cfg.mm, n, z)
  <2>1. at[s] \in {"start", "piece", "run", "raised"}
    <3>1. at[s] \in {"idle", "start", "piece", "reduce", "run", "done", "raised"}
      BY <1>5, Doing
    <3>2. at[s] # "reduce"
      BY <1>1, <1>5, Doing
    <3>3. at[s] # "idle" /\ at[s] # "done"
      BY <1>1, <1>5 DEF Pair, PairOK
    <3>. QED  BY <3>1, <3>2, <3>3
  <2>2. CASE at[s] = "run"
    <3>1. Running(cfg, stage, batch, Len(Head(pieces[s])), micros[s], order[s])
      BY <1>5, <2>2, Doing
    <3>2. Len(Head(pieces[s])) = n
      <4>1. Len(Head(pieces[s])) = PieceLen(cfg, stage, batch, Len(steps[s]) + 1)
        BY <2>2, SameLength
      <4>2. Len(steps[s]) = Len(steps[r])
        BY <1>7
      <4>. QED  BY <1>7, <4>1, <4>2
    <3>3. order[s] = <<>>
      BY <1>1, <1>5, <2>2 DEF Pair, PairOK
    <3>. QED  BY <1>1, <2>2, <3>1, <3>2, <3>3 DEF Running, z
  <2>3. CASE at[s] = "raised"
    <3>1. Refused(cfg, stage, batch, Len(steps[s]))
      BY <1>5, <2>3, Doing
    <3>2. Len(steps[s]) = Len(steps[r])
      BY <1>7
    <3>3. Fits(cfg)
      BY <1>1 DEF Fits
    <3>. QED  BY <1>7, <1>8, <2>3, <3>1, <3>2, <3>3 DEF Refused, z
  <2>. QED  BY <2>1, <2>2, <2>3
<1>10. CASE CuttableOf(cfg.mm, n, z)
  <2>1. OnRanks(at') /\ at'[r] = "run" /\ \A s \in Rank \ {r} : at'[s] = at[s]
    <3>1. Put(at, [at EXCEPT ![r] = "run"], r, "run")
      BY <1>3, OneChanged
    <3>. QED  BY <1>1, <1>10, <3>1 DEF Put
  <2>2. OnRanks(micros') /\ micros'[r] = x /\ \A s \in Rank \ {r} : micros'[s] = micros[s]
    <3>1. Put(micros, [micros EXCEPT ![r] = x], r, x)
      BY <1>3, OneChanged
    <3>. QED  BY <1>1, <1>10, <3>1 DEF Put
  <2>3. Typed' /\ Alone(r)
    BY <1>1, <1>3, <1>6, <2>1, <2>2 DEF Typed, Alone
  <2>4. Here(r)'
    BY <1>1, <1>4, <1>6, <1>10, <2>1, <2>2 DEF Here
  <2>5. ASSUME NEW s \in Rank \ {r}
        PROVE  /\ at[s] \in {"start", "piece", "run"}
               /\ at[s] = "run" => Len(micros[s]) = Len(x)
    BY <1>4, <1>7, <1>9, <1>10
  <2>6. \A s \in Rank \ {r} : Pair(r, s)' /\ Pair(s, r)'
    BY <1>1, <1>5, <1>6, <2>1, <2>2, <2>5 DEF Pair, PairOK
  <2>7. Pair(r, r)'
    BY <1>1, <2>1 DEF Pair, PairOK
  <2>. QED  BY <1>1, <2>3, <2>4, <2>6, <2>7, MovedAlone
<1>11. CASE ~CuttableOf(cfg.mm, n, z)
  <2>1. OnRanks(at') /\ at'[r] = "raised" /\ \A s \in Rank \ {r} : at'[s] = at[s]
    <3>1. Put(at, [at EXCEPT ![r] = "raised"], r, "raised")
      BY <1>3, OneChanged
    <3>. QED  BY <1>1, <1>11, <3>1 DEF Put
  <2>2. Typed' /\ Alone(r)
    BY <1>1, <1>3, <1>6, <1>11, <2>1 DEF Typed, Alone
  <2>3. Here(r)'
    BY <1>1, <1>4, <1>6, <1>11, <2>1 DEF Here
  <2>4. \A s \in Rank \ {r} : at[s] \in {"start", "piece", "raised"}
    BY <1>9, <1>11
  <2>5. \A s \in Rank \ {r} : Pair(r, s)' /\ Pair(s, r)'
    BY <1>1, <1>5, <1>6, <2>1, <2>4 DEF Pair, PairOK
  <2>6. Pair(r, r)'
    BY <1>1, <2>1 DEF Pair, PairOK
  <2>. QED  BY <1>1, <2>2, <2>3, <2>5, <2>6, MovedAlone
<1>. QED  BY <1>10, <1>11

\* Leaving compute_log_prob keeps what is sound.
LEMMA SoundFinish ==
  ASSUME Sized, Sound, NEW r \in Rank, Finish(r)
  PROVE  Sound'
<1>. DEFINE p == Reverted(r)
            rest == Tail(pieces[r])
<1>1. /\ stage = "old_log_prob" /\ stage \in Calls /\ at[r] = "run" /\ at[r] # "idle"
      /\ micros[r] = <<>>
      /\ UNCHANGED <<cfg, stage, batch, micros, order, log_probs, gain, steps>>
      /\ output' = [output EXCEPT ![r] = p] /\ pieces' = [pieces EXCEPT ![r] = rest]
      /\ at' = [at EXCEPT ![r] = "done"]
  BY DEF Finish, Go, Calls
<1>2. Parted(batch) /\ Config(cfg)
  BY <1>1, AtWork
<1>3. /\ OnRanks(at) /\ OnRanks(pieces) /\ OnRanks(micros) /\ OnRanks(output)
      /\ OnRanks(order) /\ OnRanks(gain) /\ OnRanks(steps)
  BY DEF Sound, Typed
<1>4. /\ RankOK(cfg, stage, batch, r, "done", rest, <<>>, p, order[r], gain[r], steps[r])
      /\ order[r] # <<>>
  <2>1. RankOK(cfg, stage, batch, r, "run", pieces[r], <<>>, output[r], order[r],
               gain[r], steps[r])
    BY <1>1 DEF Sound, RanksOK
  <2>2. p = IF cfg.dynamic THEN LET back == ReverseIdx(order[r])
                                IN  [i \in DOMAIN back |-> output[r][back[i]]]
            ELSE output[r]
    BY DEF Reverted
  <2>. HIDE DEF p, rest
  <2>. QED  BY <1>1, <1>2, <2>1, <2>2, RankFinished
<1>. HIDE DEF p, rest
<1>5. \A s \in Rank : Pair(r, s) /\ Pair(s, r) /\ Here(s)
  BY DEF Sound, PairsOK, RanksOK, Pair, Here
<1>6. OnRanks(output') /\ output'[r] = p /\ \A s \in Rank \ {r} : output'[s] = output[s]
  <2>1. Put(output, [output EXCEPT ![r] = p], r, p)
    BY <1>3, OneChanged
  <2>. QED  BY <1>1, <2>1 DEF Put
<1>7. OnRanks(pieces') /\ \A s \in Rank \ {r} : pieces'[s] = pieces[s]
  <2>1. Put(pieces, [pieces EXCEPT ![r] = rest], r, rest)
    BY <1>3, OneChanged
  <2>. QED  BY <1>1, <2>1 DEF Put
<1>8. pieces'[r] = rest
  <2>1. Put(pieces, [pieces EXCEPT ![r] = rest], r, rest)
    BY <1>3, OneChanged
  <2>. QED  BY <1>1, <2>1 DEF Put
<1>9. OnRanks(at') /\ at'[r] = "done" /\ \A s \in Rank \ {r} : at'[s] = at[s]
  <2>1. Put(at, [at EXCEPT ![r] = "done"], r, "done")
    BY <1>3, OneChanged
  <2>. QED  BY <1>1, <2>1 DEF Put
<1>10. Typed' /\ Alone(r)
  BY <1>1, <1>3, <1>6, <1>7, <1>9 DEF Typed, Alone
<1>11. Here(r)'
  BY <1>1, <1>4, <1>6, <1>8, <1>9 DEF Here
<1>12. ASSUME NEW s \in Rank \ {r}
       PROVE  at[s] \in {"run", "done"} /\ (at[s] = "run" => micros[s] = <<>>)
  <2>1. at[s] \in {"idle", "start", "piece", "reduce", "run", "done", "raised"}
    BY <1>5, Doing
  <2>2. at[s] # "idle" /\ at[s] \notin {"start", "piece", "reduce"} /\ at[s] # "raised"
    BY <1>1, <1>4, <1>5 DEF Pair, PairOK
  <2>3. ASSUME at[s] = "run" PROVE micros[s] = <<>>
    <3>1. Running(cfg, stage, batch, Len(Head(pieces[s])), micros[s], order[s])
      BY <1>5, <2>3, Doing
    <3>2. Len(micros[s]) = 0
      BY <1>1, <1>5, <2>3 DEF Pair, PairOK
    <3>. DEFINE n == Len(Head(pieces[s]))
                ms == micros[s]
    <3>3. CASE cfg.dynamic
      <4>1. ms \in Seq(Seq(1 .. n))
        BY <3>1, <3>3 DEF Running, Deals
      <4>. HIDE DEF ms, n
      <4>2. Len(ms) = 0 => ms = <<>>
        BY <4>1
      <4>. QED  BY <3>2, <4>2 DEF ms
    <3>4. CASE ~cfg.dynamic
      <4>1. ms \in Seq(Seq(Nat))
        BY <3>1, <3>4 DEF Running, Through, Chain
      <4>. HIDE DEF ms, n
      <4>2. Len(ms) = 0 => ms = <<>>
        BY <4>1
      <4>. QED  BY <3>2, <4>2 DEF ms
    <3>. QED  BY <3>3, <3>4
  <2>. QED  BY <2>1, <2>2, <2>3
<1>13. \A s \in Rank \ {r} : Pair(r, s)' /\ Pair(s, r)'
  BY <1>1, <1>5, <1>9, <1>12 DEF Pair, PairOK
<1>14. Pair(r, r)'
  BY <1>1, <1>9 DEF Pair, PairOK
<1>. QED  BY <1>1, <1>10, <1>11, <1>13, <1>14, MovedAlone

(***************************************************************************)
(* The steps all ranks take together                                       *)
(***************************************************************************)

\* rearrange_micro_batches keeps what is sound.
LEMMA SoundRearrange ==
  ASSUME Sized, Sound, Rearrange
  PROVE  Sound'
<1>. DEFINE n == Len(Head(pieces[1]))
<1>1. \A r \in Rank : at[r] = "reduce" /\ at[r] # "idle"
  BY DEF Rearrange
<1>2. 1 \in Rank
  BY RankOne
<1>3. UNCHANGED <<cfg, stage, batch, pieces, output, order, log_probs, gain, steps>>
  BY DEF Rearrange
<1>4. /\ stage \in Calls /\ Parted(batch) /\ cfg \in Configs /\ Config(cfg)
      /\ SizedBatch(cfg, batch)
  <2>1. stage \in Calls /\ Parted(batch) /\ cfg \in Configs /\ Config(cfg)
    BY <1>1, <1>2, AtWork
  <2>. QED  BY <2>1 DEF Sized, Calls
<1>5. \A r, s \in Rank : Pair(r, s) /\ Here(s)
  BY DEF Sound, PairsOK, RanksOK, Pair, Here
<1>6. ASSUME NEW r \in Rank
      PROVE  /\ Head(pieces[r]) \in Seq(Nat) /\ Len(Head(pieces[r])) = n /\ n \in Nat \ {0}
             /\ \A j \in 1 .. n : Head(pieces[r])[j] \in 1 .. Len(batch)
  <2>1. at[r] \in {"piece", "reduce", "run"} /\ at[1] \in {"piece", "reduce", "run"}
    BY <1>1, <1>2
  <2>2. /\ InHand(cfg, stage, batch, r, pieces[r], Len(steps[r]))
        /\ Len(Head(pieces[r])) = PieceLen(cfg, stage, batch, Len(steps[r]) + 1)
    BY <2>1, SameLength
  <2>3. /\ n \in Nat \ {0}
        /\ n = PieceLen(cfg, stage, batch, Len(steps[1]) + 1)
        /\ Len(steps[r]) = Len(steps[1])
    BY <1>2, <2>1, SameLength
  <2>4. Len(Head(pieces[r])) = n
    BY <2>2, <2>3
  <2>5. /\ Head(pieces[r]) \in Seq(Nat)
        /\ \A j \in 1 .. Len(Head(pieces[r])) : Head(pieces[r])[j] \in 1 .. Len(batch)
    BY <2>2 DEF InHand
  <2>. QED  BY <2>3, <2>4, <2>5
<1>7. n \in Nat \ {0}
  BY <1>2, <1>6
<1>. HIDE DEF n
<1>8. PICK k \in 1 .. n : \A r \in Rank : /\ Agreed(r) = k /\ Partitions(Balanced(r), k, n)
                                          /\ PartitionsValid(Lengths(r), Balanced(r), k)
  BY <1>4, <1>6, <1>7, AgreedPartitions
<1>9. k \in Nat \ {0} /\ k <= n
  BY <1>7, <1>8
<1>10. /\ at' = [r \in Rank |-> "run"]
       /\ micros' = [r \in Rank |-> SortedPartitions(Balanced(r))]
  <2>1. \A r \in Rank : /\ Agreed(r) <= Len(Head(pieces[r]))
                        /\ PartitionsValid(Lengths(r), Balanced(r), Agreed(r))
    BY <1>6, <1>8, <1>9
  <2>. QED  BY <2>1 DEF Rearrange
<1>11. ASSUME NEW r \in Rank
       PROVE  /\ RankOK(cfg, stage, batch, r, "run", pieces[r], SortedPartitions(Balanced(r)),
                        output[r], order[r], gain[r], steps[r])
              /\ Len(SortedPartitions(Balanced(r))) = k
  <2>1. RankOK(cfg, stage, batch, r, "reduce", pieces[r], micros[r], output[r], order[r],
               gain[r], steps[r])
    BY <1>1 DEF Sound, RanksOK
  <2>2. Partitions(Balanced(r), k, Len(Head(pieces[r])))
    BY <1>6, <1>8
  <2>. DEFINE x == Balanced(r)
  <2>3. Partitions(x, k, Len(Head(pieces[r])))
    BY <2>2
  <2>. HIDE DEF x
  <2>4. /\ RankOK(cfg, stage, batch, r, "run", pieces[r], SortedPartitions(x),
                  output[r], order[r], gain[r], steps[r])
        /\ Len(SortedPartitions(x)) = k
    BY <1>4, <1>9, <2>1, <2>3, RankRearranged
  <2>. QED  BY <2>4 DEF x
<1>12. Typed'
  <2>1. OnRanks(at') /\ OnRanks(micros')
    BY <1>10 DEF OnRanks
  <2>. QED  BY <1>3, <2>1 DEF Sound, Typed
<1>13. RanksOK'
  BY <1>3, <1>10, <1>11 DEF RanksOK
<1>14. PairsOK'
  <2>. SUFFICES ASSUME NEW r \in Rank, NEW s \in Rank PROVE Pair(r, s)'
    BY DEF PairsOK, Pair
  <2>1. at'[r] = "run" /\ at'[s] = "run" /\ Len(micros'[r]) = k /\ Len(micros'[s]) = k
    BY <1>10, <1>11
  <2>2. Len(steps[r]) = Len(steps[s])
    BY <1>5 DEF Pair, PairOK
  <2>. QED  BY <1>3, <2>1, <2>2 DEF Pair, PairOK
<1>. QED  BY <1>1, <1>2, <1>3, <1>12, <1>13, <1>14, Moved

\* A forward pass keeps what is sound.
LEMMA SoundForward ==
  ASSUME Sized, Sound, Forward
  PROVE  Sound'
<1>1. /\ stage \in Calls /\ \A r \in Rank : at[r] = "run" /\ at[r] # "idle" /\ micros[r] # <<>>
      /\ UNCHANGED <<cfg, stage, batch, at, pieces, log_probs, steps>>
      /\ micros' = [r \in Rank |-> Tail(micros[r])]
      /\ order' = [r \in Rank |-> order[r] \o Head(micros[r])]
  BY DEF Forward
<1>2. 1 \in Rank
  BY RankOne
<1>3. Parted(batch) /\ Config(cfg)
  BY <1>1, <1>2, AtWork
<1>4. /\ OnRanks(at) /\ OnRanks(pieces) /\ OnRanks(micros) /\ OnRanks(output)
      /\ OnRanks(order) /\ OnRanks(gain) /\ OnRanks(steps)
  BY DEF Sound, Typed
<1>. DEFINE rows(r) == [i \in DOMAIN Head(micros[r]) |-> Head(pieces[r])[Head(micros[r])[i]]]
<1>5. /\ stage = "old_log_prob" =>
           /\ output' = [r \in Rank |-> output[r] \o [i \in DOMAIN Head(micros[r]) |->
                                                        batch[rows(r)[i]].src]]
           /\ gain' = gain
      /\ stage # "old_log_prob" =>
           /\ output' = output
           /\ gain' = [r \in Rank |-> [rows   |-> gain[r].rows \o rows(r),
                                       weight |-> gain[r].weight + WeightOf(cfg, Head(micros[r]))]]
  BY DEF Forward, Rows, Weight, WeightOf
<1>6. OnRanks(output') /\ OnRanks(gain') /\ OnRanks(micros') /\ OnRanks(order')
  <2>1. OnRanks(micros') /\ OnRanks(order')
    BY <1>1 DEF OnRanks
  <2>2. OnRanks(output') /\ OnRanks(gain')
    <3>1. CASE stage = "old_log_prob"
      BY <1>4, <1>5, <3>1 DEF OnRanks
    <3>2. CASE stage # "old_log_prob"
      BY <1>4, <1>5, <3>2 DEF OnRanks
    <3>. QED  BY <3>1, <3>2
  <2>. QED  BY <2>1, <2>2
<1>7. ASSUME NEW r \in Rank
      PROVE  /\ RankOK(cfg, stage, batch, r, "run", pieces[r], micros'[r], output'[r], order'[r],
                       gain'[r], steps[r])
             /\ Len(micros[r]) \in Nat \ {0} /\ Len(micros'[r]) = Len(micros[r]) - 1
  <2>1. /\ RankOK(cfg, stage, batch, r, "run", pieces[r], micros[r], output[r], order[r],
                  gain[r], steps[r])
        /\ micros[r] # <<>>
    BY <1>1 DEF Sound, RanksOK
  <2>. DEFINE t == rows(r)
              p == output'[r]
              h == gain'[r]
  <2>3. /\ stage = "old_log_prob" =>
             /\ p = output[r] \o [i \in DOMAIN Head(micros[r]) |-> batch[t[i]].src]
             /\ h = gain[r]
        /\ stage # "old_log_prob" =>
             /\ p = output[r]
             /\ h = [rows   |-> gain[r].rows \o t,
                     weight |-> gain[r].weight + WeightOf(cfg, Head(micros[r]))]
    <3>. HIDE DEF rows
    <3>1. CASE stage = "old_log_prob"
      BY <1>5, <3>1
    <3>2. CASE stage # "old_log_prob"
      BY <1>5, <3>2
    <3>. QED  BY <3>1, <3>2
  <2>4. micros'[r] = Tail(micros[r]) /\ order'[r] = order[r] \o Head(micros[r])
    BY <1>1
  <2>5. CameOut(cfg, stage, batch, pieces[r], micros[r], t, output[r], gain[r], p, h)
    BY <2>3 DEF CameOut
  <2>. HIDE DEF t, p, h
  <2>6. /\ RankOK(cfg, stage, batch, r, "run", pieces[r], Tail(micros[r]), p,
                  order[r] \o Head(micros[r]), h, steps[r])
        /\ Len(micros[r]) \in Nat \ {0} /\ Len(Tail(micros[r])) = Len(micros[r]) - 1
    BY <1>3, <2>1, <2>5, RankForward
  <2>. QED  BY <2>4, <2>6 DEF p, h
<1>. HIDE DEF rows
<1>8. Typed'
  BY <1>1, <1>4, <1>6 DEF Typed
<1>9. RanksOK'
  BY <1>1, <1>7 DEF RanksOK
<1>10. PairsOK'
  <2>. SUFFICES ASSUME NEW r \in Rank, NEW s \in Rank PROVE Pair(r, s)'
    BY DEF PairsOK, Pair
  <2>1. at'[r] = "run" /\ at'[s] = "run" /\ at[r] = "run" /\ at[s] = "run"
    BY <1>1
  <2>2. Pair(r, s)
    BY DEF Sound, PairsOK, Pair
  <2>3. Len(steps[r]) = Len(steps[s]) /\ Len(micros[r]) = Len(micros[s])
    BY <2>1, <2>2 DEF Pair, PairOK
  <2>4. Len(micros'[r]) = Len(micros'[s])
    BY <1>7, <2>3
  <2>. QED  BY <1>1, <2>1, <2>3, <2>4 DEF Pair, PairOK
<1>. QED  BY <1>1, <1>2, <1>8, <1>9, <1>10, Moved

\* An optimizer step keeps what is sound.
LEMMA SoundOptimizer ==
  ASSUME Sized, Sound, OptimizerStep
  PROVE  Sound'
<1>1. /\ stage = "update_actor"
      /\ \A r \in Rank : at[r] = "run" /\ at[r] # "idle" /\ micros[r] = <<>>
      /\ UNCHANGED <<cfg, stage, batch, micros, output, order, log_probs>>
      /\ steps' = [r \in Rank |-> Append(steps[r], gain[r])]
      /\ gain' = [r \in Rank |-> NoGain]
      /\ pieces' = [r \in Rank |-> Tail(pieces[r])]
      /\ at' = [r \in Rank |-> IF Len(pieces[r]) > 1 THEN "piece" ELSE "done"]
  BY DEF OptimizerStep
<1>2. 1 \in Rank
  BY RankOne
<1>3. Parted(batch) /\ Config(cfg)
  BY <1>1, <1>2, AtWork
<1>4. Typed'
  BY <1>1 DEF Sound, Typed, OnRanks
<1>5. ASSUME NEW r \in Rank
      PROVE  /\ RankOK(cfg, stage, batch, r, at'[r], pieces'[r], micros'[r], output'[r], order'[r],
                       gain'[r], steps'[r])
             /\ Len(steps'[r]) = Len(steps[r]) + 1
  <2>1. RankOK(cfg, stage, batch, r, "run", pieces[r], <<>>, output[r], order[r],
               gain[r], steps[r])
    BY <1>1 DEF Sound, RanksOK
  <2>2. /\ RankOK(cfg, stage, batch, r, IF Len(pieces[r]) > 1 THEN "piece" ELSE "done",
                  Tail(pieces[r]), <<>>, output[r], order[r], NoGain, Append(steps[r], gain[r]))
        /\ Len(Append(steps[r], gain[r])) = Len(steps[r]) + 1
    BY <1>1, <1>3, <2>1, RankStepped
  <2>. QED  BY <1>1, <2>2
<1>6. RanksOK'
  BY <1>1, <1>5 DEF RanksOK
<1>7. PairsOK'
  <2>. SUFFICES ASSUME NEW r \in Rank, NEW s \in Rank PROVE Pair(r, s)'
    BY DEF PairsOK, Pair
  <2>1. Len(pieces[r]) = Len(pieces[s])
    BY <1>1, MatchHolds DEF CollectivesMatch
  <2>2. at'[r] = at'[s] /\ at'[r] \in {"piece", "done"}
    BY <1>1, <2>1
  <2>3. Pair(r, s)
    BY DEF Sound, PairsOK, Pair
  <2>4. Len(steps'[r]) = Len(steps'[s])
    BY <1>5, <2>3 DEF Pair, PairOK
  <2>. QED  BY <2>2, <2>4 DEF Pair, PairOK
<1>. QED  BY <1>1, <1>2, <1>4, <1>6, <1>7, Moved

(***************************************************************************)
(* The steps of the driver                                                 *)
(***************************************************************************)

\* While the driver is not in a call, the ranks are idle.
LEMMA AllIdle ==
  ASSUME Sound, stage \notin Calls
  PROVE  \A r \in Rank : at[r] = "idle"
BY DEF Sound, Stages

\* What a rank and a pair of ranks hold stays true of what does not change.
LEMMA PairsKept ==
  ASSUME Sound, UNCHANGED <<cfg, at, micros, order, steps>>
  PROVE  PairsOK'
BY DEF Sound, PairsOK

\* The step fails.
LEMMA Fails ==
  ASSUME Sized, Sound, UNCHANGED <<cfg, at, pieces, micros>>, NEW r \in Rank, at[r] # "reduce",
         ~(CapFits /\ LogProbFits /\ PairReturned /\ WidthFits)'
  PROVE  Stopped'
<1>1. CollectivesMatch'
  BY MatchHolds DEF CollectivesMatch
<1>2. FailsOnlyIfRefused'
  BY DEF FailsOnlyIfRefused
<1>3. \E s \in Rank : at'[s] # "reduce"
  OBVIOUS
<1>. QED  BY <1>1, <1>2, <1>3 DEF Stopped

\* Sizing the batch keeps what is sound, or fails.
LEMMA SoundResize ==
  ASSUME Sized, Sound, Resize
  PROVE  IF stage' = "failed" THEN Stopped' ELSE Sound'
<1>1. /\ stage = "resize" /\ stage \notin Calls /\ cfg \in Configs
      /\ UNCHANGED <<cfg, at, pieces, micros, output, order, log_probs, gain, steps>>
  BY DEF Resize, Calls, Sized
<1>2. \A r \in Rank : at[r] = "idle"
  BY <1>1, AllIdle
<1>3. stage' \in {"old_log_prob", "failed"} /\ (stage' = "failed" => ~PairReturned)
  BY <1>1, ResizeSizes
<1>4. CASE stage' = "failed"
  <2>1. ~(CapFits /\ LogProbFits /\ PairReturned /\ WidthFits)'
    BY <1>1, <1>3, <1>4 DEF PairReturned, Orig, NMod
  <2>2. 1 \in Rank /\ at[1] # "reduce"
    BY <1>2, RankOne
  <2>. QED  BY <1>1, <1>4, <2>1, <2>2, Fails
<1>5. CASE stage' = "old_log_prob"
  <2>1. Typed' /\ PairsOK'
    BY <1>1, PairsKept DEF Sound, Typed
  <2>2. ASSUME NEW r \in Rank
        PROVE  RankOK(cfg, stage', batch', r, "idle", pieces[r], micros[r], output[r], order[r],
                      gain[r], steps[r])
    <3>1. RankOK(cfg, stage, batch, r, "idle", pieces[r], micros[r], output[r], order[r],
                 gain[r], steps[r])
      BY <1>2 DEF Sound, RanksOK
    <3>2. stage # "done" /\ stage' # "done"
      BY <1>1, <1>5
    <3>. QED  BY <3>1, <3>2, RankIdle
  <2>3. RanksOK'
    BY <1>1, <1>2, <2>2 DEF RanksOK
  <2>4. Stages'
    BY <1>1, <1>2, <1>5 DEF Stages
  <2>. QED  BY <1>5, <2>1, <2>3, <2>4 DEF Sound
<1>. QED  BY <1>3, <1>4, <1>5

\* A call keeps what is sound, or fails.
LEMMA SoundDispatch ==
  ASSUME Sized, Sound, Dispatch
  PROVE  IF stage' = "failed" THEN Stopped' ELSE Sound'
<1>1. /\ stage \in Calls /\ stage # "failed" /\ \A r \in Rank : at[r] = "idle"
      /\ UNCHANGED <<cfg, batch, micros, output, order, log_probs, gain, steps>>
      /\ IF Chunkable(Len(batch), World)
         THEN /\ at' = [r \in Rank |-> "start"]
              /\ pieces' = [r \in Rank |-> <<Chunk(Places(Len(batch)), World)[r]>>]
              /\ stage' = stage
         ELSE stage' = "failed" /\ UNCHANGED <<at, pieces>>
  BY DEF Dispatch, Calls
<1>2. cfg \in Configs /\ SizedBatch(cfg, batch) /\ (CapFits => Even(cfg, batch))
  BY <1>1 DEF Sized, Calls
<1>3. Len(batch) \in Nat \ {0} /\ Config(cfg) /\ World \in Nat \ {0}
  BY <1>2, ConfigsAre DEF SizedBatch
<1>4. CASE Chunkable(Len(batch), World)
  <2>1. Parted(batch) /\ Len(batch) % World = 0
    BY <1>3, <1>4 DEF Chunkable, Parted
  <2>2. \A r \in Rank : Chunk(Places(Len(batch)), World)[r] = Local(batch, r)
    BY <1>3, <2>1, LocalIs
  <2>3. at' = [r \in Rank |-> "start"] /\ pieces' = [r \in Rank |-> <<Local(batch, r)>>]
    BY <1>1, <1>4, <2>2
  <2>4. Typed'
    BY <1>1, <2>3 DEF Sound, Typed, OnRanks
  <2>5. ASSUME NEW r \in Rank
        PROVE  RankOK(cfg, stage, batch, r, "start", <<Local(batch, r)>>, micros[r], output[r],
                      order[r], gain[r], steps[r])
    <3>1. RankOK(cfg, stage, batch, r, "idle", pieces[r], micros[r], output[r], order[r],
                 gain[r], steps[r])
      BY <1>1 DEF Sound, RanksOK
    <3>. QED  BY <1>1, <3>1, RankDispatched
  <2>6. RanksOK'
    BY <1>1, <1>4, <2>3, <2>5 DEF RanksOK
  <2>7. PairsOK'
    <3>. SUFFICES ASSUME NEW r \in Rank, NEW s \in Rank PROVE Pair(r, s)'
      BY DEF PairsOK, Pair
    <3>1. Len(steps[r]) = Len(steps[s])
      BY DEF Sound, PairsOK, PairOK
    <3>. QED  BY <1>1, <2>3, <3>1 DEF Pair, PairOK
  <2>8. Stages'
    <3>1. stage \in {"adv", "update_actor", "done"} =>
            log_probs = [i \in DOMAIN batch |-> batch[i].src]
      BY DEF Sound, Stages
    <3>. QED  BY <1>1, <1>4, <2>1, <3>1 DEF Stages
  <2>. QED  BY <1>1, <1>4, <2>4, <2>6, <2>7, <2>8 DEF Sound
<1>5. CASE ~Chunkable(Len(batch), World)
  <2>1. Len(batch) % World # 0
    BY <1>3, <1>5 DEF Chunkable
  <2>2. ~Even(cfg, batch)
    BY <1>3, <2>1, EvenParts
  <2>3. ~CapFits
    BY <1>2, <2>2
  <2>4. ~(CapFits /\ LogProbFits /\ PairReturned /\ WidthFits)'
    BY <1>1, <2>3 DEF CapFits, Orig, NMod
  <2>5. 1 \in Rank /\ at[1] # "reduce"
    BY <1>1, RankOne
  <2>. QED  BY <1>1, <1>5, <2>4, <2>5, Fails
<1>. QED  BY <1>4, <1>5

\* Collecting the results keeps what is sound.
LEMMA SoundCollect ==
  ASSUME Sized, Sound, Collect
  PROVE  Sound' /\ stage' # "failed"
<1>1. /\ stage \in Calls /\ \A r \in Rank : at[r] = "done" /\ at[r] # "idle"
      /\ at' = [r \in Rank |-> "idle"] /\ stage' = After(stage)
      /\ UNCHANGED <<cfg, batch, pieces, micros, output, order, gain, steps>>
      /\ stage = "old_log_prob" => log_probs' = FlattenSeq([r \in Rank |-> output[r]])
      /\ stage # "old_log_prob" => log_probs' = log_probs
  BY DEF Collect, After
<1>2. 1 \in Rank
  BY RankOne
<1>3. Parted(batch) /\ cfg \in Configs /\ SizedBatch(cfg, batch)
  <2>1. Parted(batch) /\ cfg \in Configs /\ stage \in Calls
    BY <1>1, <1>2, AtWork
  <2>. QED  BY <2>1 DEF Sized, Calls
<1>4. Typed'
  BY <1>1 DEF Sound, Typed, OnRanks
<1>5. ASSUME NEW r \in Rank
      PROVE  /\ RankOK(cfg, After(stage), batch, r, "idle", pieces[r], micros[r], output[r],
                       order[r], gain[r], steps[r])
             /\ stage = "old_log_prob" => ComputedBy(output[r], batch, r)
  <2>1. RankOK(cfg, stage, batch, r, "done", pieces[r], micros[r], output[r], order[r],
               gain[r], steps[r])
    BY <1>1 DEF Sound, RanksOK
  <2>. QED  BY <1>1, <2>1, RankCollected
<1>6. RanksOK'
  BY <1>1, <1>5 DEF RanksOK
<1>7. PairsOK'
  <2>. SUFFICES ASSUME NEW r \in Rank, NEW s \in Rank PROVE Pair(r, s)'
    BY DEF PairsOK, Pair
  <2>1. Len(steps[r]) = Len(steps[s])
    BY DEF Sound, PairsOK, PairOK
  <2>. QED  BY <1>1, <2>1 DEF Pair, PairOK
<1>8. log_probs' = [i \in DOMAIN batch |-> batch[i].src]
  <2>1. CASE stage = "old_log_prob"
    <3>. DEFINE m == Len(cfg.lens)
    <3>1. m \in Nat /\ batch \in Seq([src : 1 .. m, pad : BOOLEAN])
      <4>1. m \in Nat
        BY <1>3, ConfigsAre DEF Config
      <4>. QED  BY <1>3, <4>1 DEF SizedBatch, RowOf
    <3>2. Computed(output, batch)
      BY <1>5, <2>1 DEF Computed
    <3>. HIDE DEF m
    <3>3. JoinedUp(output, batch)
      BY <1>3, <3>1, <3>2, JoinedParts
    <3>. QED  BY <1>1, <2>1, <3>3 DEF JoinedUp
  <2>2. CASE stage # "old_log_prob"
    <3>1. stage = "update_actor"
      BY <1>1, <2>2 DEF Calls
    <3>2. log_probs = [i \in DOMAIN batch |-> batch[i].src]
      BY <3>1 DEF Sound, Stages
    <3>. QED  BY <1>1, <2>2, <3>2
  <2>. QED  BY <2>1, <2>2
<1>9. Stages'
  BY <1>1, <1>3, <1>8 DEF Stages
<1>. QED  BY <1>1, <1>4, <1>6, <1>7, <1>9 DEF Sound, After

\* A rank that raises has met one of the sizes the code cannot divide.
LEMMA RaisesRefused ==
  ASSUME Sized, Sound, NEW r \in Rank, at[r] = "raised"
  PROVE  ~(CapFits /\ LogProbFits /\ WidthFits)
<1>. SUFFICES ASSUME CapFits, LogProbFits, WidthFits PROVE FALSE
  OBVIOUS
<1>1. stage \in Calls /\ Parted(batch) /\ cfg \in Configs /\ Config(cfg)
  BY AtWork
<1>2. Len(batch) \in Nat \ {0} /\ Even(cfg, batch) /\ SizedBatch(cfg, batch)
  BY <1>1 DEF Sized, Calls, Parted
<1>3. Refused(cfg, stage, batch, Len(steps[r]))
  <2>1. Here(r)
    BY DEF Sound, RanksOK, Here
  <2>. QED  BY <2>1, Doing
<1>4. Fits(cfg)
  BY DEF WidthFits, Fits
<1>5. CASE stage = "old_log_prob"
  <2>1. /\ ~cfg.dynamic /\ cfg.mm
        /\ ~CuttableOf(cfg.mm, Len(batch) \div World, cfg.lp_micro)
    BY <1>3, <1>4, <1>5 DEF Refused, MiniCut, PieceLen, Part, Micro, CuttableOf
  <2>2. batch # <<>>
    BY <1>2
  <2>3. Cuttable(Len(batch) \div World, cfg.lp_micro)
    BY <2>1, <2>2 DEF LogProbFits
  <2>. QED  BY <2>1, <2>3 DEF Cuttable, CuttableOf
<1>6. CASE stage # "old_log_prob"
  <2>1. MiniCut(cfg, stage, batch)
    BY <1>1, <1>2, EvenParts DEF MiniCut
  <2>2. \A i \in 1 .. PieceTotal(cfg, stage, batch) : PieceLen(cfg, stage, batch, i) = cfg.mini
    BY <1>1, <1>2, <1>6, EvenPieces
  <2>3. CuttableOf(cfg.mm, cfg.mini, cfg.micro)
    BY <1>1, <1>2, <1>6, EvenPieces
  <2>. QED  BY <1>3, <1>4, <1>6, <2>1, <2>2, <2>3 DEF Refused, Micro
<1>. QED  BY <1>5, <1>6

\* A rank that raises fails the step.
LEMMA SoundRaise ==
  ASSUME Sized, Sound, Raise
  PROVE  Stopped' /\ stage' = "failed"
<1>1. PICK r \in Rank : at[r] = "raised"
  BY DEF Raise
<1>2. stage' = "failed" /\ UNCHANGED <<cfg, batch, at, pieces, micros>>
  BY DEF Raise
<1>3. ~(CapFits /\ LogProbFits /\ WidthFits)
  BY <1>1, RaisesRefused
<1>4. ~(CapFits /\ LogProbFits /\ PairReturned /\ WidthFits)'
  BY <1>2, <1>3 DEF CapFits, LogProbFits, WidthFits, Cuttable, Orig, NMod
<1>. QED  BY <1>1, <1>2, <1>4, Fails

\* Advantages are computed between the calls.
LEMMA SoundAdvantage ==
  ASSUME Sized, Sound, ComputeAdvantage
  PROVE  Sound' /\ stage' # "failed"
<1>1. /\ stage = "adv" /\ stage \notin Calls /\ stage' = "update_actor"
      /\ UNCHANGED <<cfg, batch, at, pieces, micros, output, order, log_probs, gain, steps>>
  BY DEF ComputeAdvantage, Calls
<1>2. \A r \in Rank : at[r] = "idle"
  BY <1>1, AllIdle
<1>3. Typed' /\ PairsOK'
  BY <1>1, PairsKept DEF Sound, Typed
<1>4. ASSUME NEW r \in Rank
      PROVE  RankOK(cfg, stage', batch, r, "idle", pieces[r], micros[r], output[r], order[r],
                    gain[r], steps[r])
  <2>1. RankOK(cfg, stage, batch, r, "idle", pieces[r], micros[r], output[r], order[r],
               gain[r], steps[r])
    BY <1>2 DEF Sound, RanksOK
  <2>2. stage # "done" /\ stage' # "done"
    BY <1>1
  <2>. QED  BY <2>1, <2>2, RankIdle
<1>5. RanksOK'
  BY <1>1, <1>2, <1>4 DEF RanksOK
<1>6. Stages'
  BY <1>1, <1>2 DEF Sound, Stages
<1>. QED  BY <1>1, <1>3, <1>5, <1>6 DEF Sound

(***************************************************************************)
(* Theorems                                                                *)
(***************************************************************************)

\* The step starts soundly.
LEMMA SoundInit == Init => BatchInv
<1>. SUFFICES ASSUME Init PROVE BatchInv
  OBVIOUS
<1>1. /\ cfg \in Configs /\ stage = "resize"
      /\ at = [r \in Rank |-> "idle"] /\ pieces = [r \in Rank |-> <<>>]
      /\ micros = [r \in Rank |-> <<>>] /\ output = [r \in Rank |-> <<>>]
      /\ order = [r \in Rank |-> <<>>] /\ gain = [r \in Rank |-> NoGain]
      /\ steps = [r \in Rank |-> <<>>]
  BY DEF Init
<1>2. Sized
  BY <1>1 DEF Sized, StageNames
<1>3. Typed
  BY <1>1 DEF Typed, OnRanks
<1>4. RanksOK
  <2>1. \A r \in Rank : StepsOK(cfg, batch, r, <<>>)
    BY NoSteps
  <2>. QED  BY <1>1, <2>1 DEF RanksOK, RankOK
<1>5. PairsOK
  BY <1>1 DEF PairsOK, PairOK
<1>6. Stages
  BY <1>1 DEF Stages
<1>. QED  BY <1>1, <1>2, <1>3, <1>4, <1>5, <1>6 DEF BatchInv, Sound

\* A step that has failed stays where it is.
LEMMA StoppedStays ==
  ASSUME stage = "failed", Stopped, [Next]_vars
  PROVE  stage' = "failed" /\ Stopped'
<1>1. UNCHANGED vars
  <2>1. ~Driver
    BY DEF Driver, Resize, Dispatch, Collect, Raise, ComputeAdvantage, Calls
  <2>2. ~Collective
    BY DEF Collective, Rearrange, Forward, OptimizerStep, Calls, Stopped
  <2>3. \A r \in Rank : ~RankStep(r)
    BY DEF RankStep, Start, CutPiece, JoinReduce, Finish, Calls
  <2>. QED  BY <2>1, <2>2, <2>3 DEF Next, Ended
<1>2. CollectivesMatch' /\ \E r \in Rank : at'[r] # "reduce"
  BY <1>1 DEF vars, Stopped, CollectivesMatch
<1>3. FailsOnlyIfRefused'
  BY <1>1 DEF vars, Stopped, FailsOnlyIfRefused, CapFits, LogProbFits, PairReturned, WidthFits,
              Cuttable, Orig, NMod
<1>. QED  BY <1>1, <1>2, <1>3 DEF vars, Stopped

\* Nothing changes.
LEMMA SoundStutter ==
  ASSUME Sound, UNCHANGED vars
  PROVE  Sound'
BY DEF vars, Sound, Typed, OnRanks, RanksOK, PairsOK, Stages

\* Every step keeps what is sound, or fails for a reason.
LEMMA SoundStep ==
  ASSUME Sized, stage # "failed", Sound, [Next]_vars
  PROVE  IF stage' = "failed" THEN Stopped' ELSE Sound'
<1>1. CASE Resize
  BY <1>1, SoundResize
<1>2. CASE Dispatch
  BY <1>2, SoundDispatch
<1>3. CASE Collect
  BY <1>3, SoundCollect
<1>4. CASE Raise
  BY <1>4, SoundRaise
<1>5. CASE ComputeAdvantage
  BY <1>5, SoundAdvantage
<1>6. CASE Collective
  <2>1. stage' # "failed"
    BY <1>6 DEF Collective, Rearrange, Forward, OptimizerStep
  <2>2. Sound'
    BY <1>6, SoundRearrange, SoundForward, SoundOptimizer DEF Collective
  <2>. QED  BY <2>1, <2>2
<1>7. ASSUME NEW r \in Rank, RankStep(r)
      PROVE  IF stage' = "failed" THEN Stopped' ELSE Sound'
  <2>1. stage' # "failed"
    BY <1>7 DEF RankStep, Start, CutPiece, JoinReduce, Finish
  <2>2. Sound'
    BY <1>7, SoundStart, SoundCutPiece, SoundJoinReduce, SoundFinish DEF RankStep
  <2>. QED  BY <2>1, <2>2
<1>8. CASE UNCHANGED vars
  <2>1. stage' # "failed"
    BY <1>8 DEF vars
  <2>. QED  BY <1>8, <2>1, SoundStutter
<1>. QED  BY <1>1, <1>2, <1>3, <1>4, <1>5, <1>6, <1>7, <1>8 DEF Next, Driver, Ended

\* The inductive invariant of the step: the batch has the size Resize gives it; while the step
\* has not failed every rank holds a part of its own that it has cut, run and put back in
\* order up to where it is, and any two ranks are as far apart as they may be; when it has
\* failed nothing moves again.
THEOREM BatchInvariant == Spec => []BatchInv
<1>1. Init => BatchInv
  BY SoundInit
<1>2. BatchInv /\ Sized' /\ [Next]_vars => BatchInv'
  <2>. SUFFICES ASSUME BatchInv, Sized', [Next]_vars PROVE BatchInv'
    OBVIOUS
  <2>1. CASE stage = "failed"
    <3>1. stage' = "failed" /\ Stopped'
      BY <2>1, StoppedStays DEF BatchInv
    <3>. QED  BY <3>1 DEF BatchInv
  <2>2. CASE stage # "failed"
    <3>1. Sized /\ Sound
      BY <2>2 DEF BatchInv
    <3>2. IF stage' = "failed" THEN Stopped' ELSE Sound'
      BY <2>2, <3>1, SoundStep
    <3>. QED  BY <3>2 DEF BatchInv
  <2>. QED  BY <2>1, <2>2
<1>. QED  BY <1>1, <1>2, SizedHolds, PTL DEF Spec

\* No rank waits for ever in a collective the others do not come to: ranks that run forward
\* passes (_forward_micro_batch in dp_actor.py) have equally many pieces and micro-batches
\* before them, however many rows and tokens each of them has.
THEOREM CollectivesAgree == Spec => []CollectivesMatch
<1>1. BatchInv => CollectivesMatch
  BY MatchHolds DEF BatchInv, Stopped
<1>. QED  BY <1>1, BatchInvariant, PTL

\* A step of fit in ray_trainer_async.py fails only if a batch was cut to a cap that does not
\* divide, log_prob_micro_batch_size does not divide a part, padding had nothing to pad, or
\* rows are padded wider than max_token_len: none of the assertions on mini-batches, on
\* partitions and on their number can fail.
THEOREM OnlyRefusedFails == Spec => []FailsOnlyIfRefused
<1>1. BatchInv => FailsOnlyIfRefused
  BY DEF BatchInv, Stopped, FailsOnlyIfRefused
<1>. QED  BY <1>1, BatchInvariant, PTL

\* The log-probabilities compute_log_prob returns stand at the rows of the batch they were
\* computed from, whatever the order of the micro-batches was.
THEOREM LogProbsInPlace == Spec => []LogProbsAligned
<1>1. BatchInv => LogProbsAligned
  BY DEF BatchInv, Sound, Stages, LogProbsAligned
<1>. QED  BY <1>1, BatchInvariant, PTL

\* The steps sp of rank r took each row of its part once, in whole mini-batches.
AllTaken(c, b, r, sp) ==
  LET local == Chunk(Places(Len(b)), World)[r]
      all   == FlattenSeq([k \in DOMAIN sp |-> sp[k].rows])
  IN  /\ Len(all) = Len(local) /\ Range(all) = Range(local)
      /\ \A k \in DOMAIN sp : /\ Len(sp[k].rows) = c.mini
                              /\ ~(c.mm /\ c.dynamic) => sp[k].weight = c.mini

\* WholeSteps, with the names of StepsWhole.
LEMMA StepsTakeAll ==
  ASSUME NEW c, Config(c), NEW b, Len(b) \in Nat \ {0}, Even(c, b), NEW r \in Rank,
         NEW sp, StepsOK(c, b, r, sp), Len(sp) = PieceTotal(c, "update_actor", b)
  PROVE  /\ AllTaken(c, b, r, sp)
         /\ RowsTaken(sp) = Range(Chunk(Places(Len(b)), World)[r])
<1>. DEFINE all   == FlattenSeq([k \in DOMAIN sp |-> sp[k].rows])
            local == Chunk(Places(Len(b)), World)[r]
<1>1. /\ all = FlattenSeq([k \in DOMAIN sp |-> sp[k].rows])
      /\ local = Chunk(Places(Len(b)), World)[r]
  OBVIOUS
<1>. HIDE DEF all, local
<1>2. /\ Len(all) = Len(local) /\ Range(all) = Range(local)
      /\ RowsTaken(sp) = Range(local)
      /\ \A k \in DOMAIN sp : /\ Len(sp[k].rows) = c.mini
                              /\ ~(c.mm /\ c.dynamic) => sp[k].weight = c.mini
  BY <1>1, WholeSteps
<1>. QED  BY <1>2 DEF AllTaken, all, local

\* What each rank has done when the step ends with a batch that divides.
LEMMA StepsAtEnd ==
  ASSUME BatchInv, stage = "done", CapFits, NEW r \in Rank
  PROVE  /\ AllTaken(cfg, batch, r, steps[r])
         /\ RowsTaken(steps[r]) = Range(Chunk(Places(Len(batch)), World)[r])
<1>1. Sized /\ Sound
  BY DEF BatchInv
<1>2. cfg \in Configs /\ Config(cfg) /\ Len(batch) \in Nat \ {0} /\ Even(cfg, batch)
  BY <1>1, ConfigsAre DEF Sized, SizedBatch
<1>3. at[r] = "idle"
  BY <1>1, AllIdle DEF Calls
<1>4. StepsOK(cfg, batch, r, steps[r]) /\ AllRun(cfg, stage, batch, r, output[r], Len(steps[r]))
  BY <1>1, <1>3 DEF Sound, RanksOK, RankOK
<1>5. Len(steps[r]) = PieceTotal(cfg, "update_actor", batch)
  BY <1>4 DEF AllRun, PieceTotal
<1>. QED  BY <1>2, <1>4, <1>5, StepsTakeAll

\* A step that ends has taken every row of the batch in exactly one optimizer step of
\* update_policy, mini rows of each rank at a time and with their weight, unless the batch was
\* cut to a cap that does not divide.
THEOREM StepsTakeBatch == Spec => []StepsWhole
<1>1. BatchInv => StepsWhole
  BY StepsAtEnd DEF StepsWhole, AllTaken
<1>. QED  BY <1>1, BatchInvariant, PTL

\* The optimizer steps of a padded batch take all of its rows.
LEMMA AllUpdated ==
  ASSUME BatchInv, stage = "done", CapFits
  PROVE  Updated = 1 .. Len(batch) /\ Len(batch) \in Nat
<1>. DEFINE z == Part(batch)
            n == World
<1>1. n \in Nat \ {0} /\ Len(batch) \in Nat \ {0} /\ Len(batch) % n = 0
  <2>1. cfg \in Configs /\ Len(batch) \in Nat \ {0} /\ Even(cfg, batch)
    BY DEF BatchInv, Sized, SizedBatch
  <2>. QED  BY <2>1, ConfigsAre, EvenParts
<1>2. z \in Nat \ {0} /\ Len(batch) = n * z
  BY <1>1, PartFacts
<1>. HIDE DEF z
<1>3. ASSUME NEW r \in Rank
      PROVE  RowsTaken(steps[r]) = {(r - 1) * z + j : j \in 1 .. z}
  <2>. DEFINE local == Local(batch, r)
  <2>1. /\ Chunk(Places(Len(batch)), World)[r] = local
        /\ local \in Seq(Nat) /\ Len(local) = z
        /\ \A j \in 1 .. z : local[j] = (r - 1) * z + j
    BY <1>1, LocalIs DEF z
  <2>2. RowsTaken(steps[r]) = Range(local)
    BY <2>1, StepsAtEnd
  <2>. HIDE DEF local
  <2>3. DOMAIN local = 1 .. z
    BY <2>1
  <2>. QED  BY <2>1, <2>2, <2>3 DEF Range
<1>4. ASSUME NEW r \in Rank, NEW j \in 1 .. z PROVE (r - 1) * z + j \in 1 .. Len(batch)
  <2>1. (r - 1) * z + j = Local(batch, r)[j] /\ Local(batch, r)[j] \in 1 .. Len(batch)
    BY <1>1, LocalIs DEF z
  <2>. QED  BY <2>1
<1>5. ASSUME NEW x \in 1 .. Len(batch)
      PROVE  \E r \in Rank : \E j \in 1 .. z : x = (r - 1) * z + j
  <2>. DEFINE q == (x - 1) \div z
              e == (x - 1) % z
  <2>1. q \in Nat /\ e + 1 \in 1 .. z /\ q + 1 \in 1 .. n /\ x = (q * z) + (e + 1)
    <3>1. n \in Nat \ {0} /\ z \in Nat \ {0} /\ x \in 1 .. n * z
      BY <1>1, <1>2
    <3>2. Grouped(x, n, z, q, e)
      BY <3>1, Groups
    <3>. HIDE DEF q, e
    <3>. QED  BY <3>2 DEF Grouped
  <2>. HIDE DEF q, e
  <2>2. q + 1 \in Rank /\ (q + 1) - 1 = q
    BY <2>1 DEF Rank
  <2>. QED  BY <2>1, <2>2
<1>6. Updated = UNION {RowsTaken(steps[r]) : r \in Rank}
  BY DEF Updated, RowsTaken
<1>7. ASSUME NEW x \in Updated PROVE x \in 1 .. Len(batch)
  <2>1. PICK r \in Rank : x \in RowsTaken(steps[r])
    BY <1>6
  <2>2. PICK j \in 1 .. z : x = (r - 1) * z + j
    BY <1>3, <2>1
  <2>. QED  BY <1>4, <2>2
<1>8. ASSUME NEW x \in 1 .. Len(batch) PROVE x \in Updated
  <2>1. PICK r \in Rank : \E j \in 1 .. z : x = (r - 1) * z + j
    BY <1>5
  <2>2. x \in RowsTaken(steps[r])
    BY <1>3, <2>1
  <2>. QED  BY <1>6, <2>2
<1>9. Updated = 1 .. Len(batch)
  BY <1>7, <1>8
<1>. QED  BY <1>1, <1>9

\* Rows that only fill the batch up do not weigh on the others: padding has an advantage of
\* nothing, the groups of the others are those of the splitter's batch, and in the mean over
\* all rows that update_policy takes, fit's factor target_size / orig_size gives a real row
\* the weight it has in the mean over the real rows.
THEOREM PaddingIsInert == Spec => []PaddingInert
<1>1. BatchInv /\ Compared => PaddingInert
  <2>. SUFFICES ASSUME BatchInv, Compared, cfg.padding PROVE PaddingInert
    BY DEF PaddingInert
  <2>. DEFINE m == Orig
              n == Len(batch)
              Weighted(i) == /\ i \in Updated
                             /\ advantages[i].scale * Cardinality(Real) =
                                  m * Cardinality(Updated)
  <2>1. Sized
    BY DEF BatchInv
  <2>2. GroupsApart
    BY <2>1, PaddingApart
  <2>3. ASSUME stage = "done", NEW i \in Real PROVE Weighted(i)
    <3>1. CapFits
      BY DEF CapFits
    <3>2. Updated = 1 .. n /\ n \in Nat
      BY <2>3, <3>1, AllUpdated
    <3>3. cfg \in Configs /\ SizedBatch(cfg, batch)
      BY <2>1, <2>3 DEF Sized
    <3>4. Padded(batch, m) /\ m \in Nat /\ DOMAIN batch = 1 .. n
      BY <3>3, Sizes DEF SizedBatch, Orig
    <3>5. advantages # <<>>
      BY <2>3 DEF Compared, Advanced
    <3>6. i \in DOMAIN batch /\ advantages[i].scale = SampleRatio /\ SampleRatio = n
      BY <3>5 DEF Compared, Real, SampleRatio
    <3>. HIDE DEF m, n
    <3>7. Real = 1 .. m
      <4>1. /\ m <= n
            /\ \A j \in 1 .. n : IF j <= m THEN ~batch[j].pad ELSE batch[j].pad
        BY <3>4 DEF Padded, n
      <4>. QED  BY <3>2, <3>4, <4>1 DEF Real
    <3>8. Cardinality(Real) = m /\ Cardinality(Updated) = n
      BY <3>2, <3>4, <3>7, FS_Interval
    <3>9. n * m = m * n
      BY <3>2, <3>4
    <3>10. i \in Updated
      BY <3>2, <3>4, <3>6
    <3>. QED  BY <3>6, <3>8, <3>9, <3>10
  <2>. QED  BY <2>2, <2>3 DEF PaddingInert, GroupsApart
<1>2. Spec => []Compared
  BY ComparedHolds
<1>. QED  BY <1>1, <1>2, BatchInvariant, PTL
=============================================================================
