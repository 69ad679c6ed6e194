---------------------------- MODULE FileHashProofs ----------------------------
(* The hash of a file, for every size of file, block, chunk and counter: the *)
(* blocks that are transformed are the bytes that were read and their        *)
(* padding, and the length they end with is right.                           *)
EXTENDS FileHash, SequenceTheorems, TLAPS

-----------------------------------------------------------------------------
(* Runs: n successive bytes of the file behind the first p.                  *)

Run(p, n) == [k \in 1..n |-> p + k]

\* The bytes of a run.
LEMMA RunType ==
  ASSUME NEW p \in Nat, NEW n \in Nat
  PROVE  Run(p, n) \in Seq(Nat) /\ Len(Run(p, n)) = n
         /\ \A k \in 1..n : Run(p, n)[k] = p + k
  BY DEF Run

\* Nothing else has these bytes.
LEMMA IsRun ==
  ASSUME NEW p \in Nat, NEW n \in Nat, NEW s \in Seq(Nat), Len(s) = n,
         \A k \in 1..n : s[k] = p + k
  PROVE  s = Run(p, n)
  <1>1. DOMAIN s = 1..n /\ s = [k \in DOMAIN s |-> s[k]]
    OBVIOUS
  <1> QED BY <1>1 DEF Run

\* The first a elements, and the elements behind them.
LEMMA RunFirst ==
  ASSUME NEW p \in Nat, NEW n \in Nat, NEW a \in 0..n
  PROVE  SubSeq(Run(p, n), 1, a) = Run(p, a)
  <1> DEFINE r == Run(p, n)
             s == SubSeq(r, 1, a)
  <1>1. \A k \in 1..n : r[k] = p + k
    BY RunType
  <1>2. \A k \in 1..a : r[k] \in Nat
    BY <1>1
  <1> HIDE DEF r
  <1>3. /\ s \in Seq(Nat)
        /\ Len(s) = IF 1 <= a THEN a - 1 + 1 ELSE 0
        /\ \A k \in 1..a - 1 + 1 : s[k] = r[1 + k - 1]
    BY <1>2, SubSeqProperties
  <1> HIDE DEF s
  <1>4. Len(s) = a /\ \A k \in 1..a : s[k] = p + k
    BY <1>1, <1>3
  <1>5. s = Run(p, a)
    BY <1>3, <1>4, IsRun
  <1> QED BY <1>5 DEF r, s

LEMMA RunRest ==
  ASSUME NEW p \in Nat, NEW n \in Nat, NEW a \in 0..n
  PROVE  SubSeq(Run(p, n), a + 1, n) = Run(p + a, n - a)
  <1> DEFINE r == Run(p, n)
             s == SubSeq(r, a + 1, n)
  <1>1. \A k \in 1..n : r[k] = p + k
    BY RunType
  <1>2. \A k \in a + 1..n : r[k] \in Nat
    BY <1>1
  <1> HIDE DEF r
  <1>3. /\ s \in Seq(Nat)
        /\ Len(s) = IF a + 1 <= n THEN n - (a + 1) + 1 ELSE 0
        /\ \A k \in 1..n - (a + 1) + 1 : s[k] = r[(a + 1) + k - 1]
    BY <1>2, SubSeqProperties
  <1> HIDE DEF s
  <1>4. Len(s) = n - a /\ \A k \in 1..n - a : s[k] = (p + a) + k
    BY <1>1, <1>3
  <1>5. s = Run(p + a, n - a)
    BY <1>3, <1>4, IsRun
  <1> QED BY <1>5 DEF r, s

\* A run behind a run.
LEMMA RunJoin ==
  ASSUME NEW p \in Nat, NEW a \in Nat, NEW b \in Nat
  PROVE  Run(p, a) \o Run(p + a, b) = Run(p, a + b)
  <1> DEFINE r == Run(p, a)
             q == Run(p + a, b)
             s == r \o q
  <1>1. /\ r \in Seq(Nat) /\ Len(r) = a /\ \A k \in 1..a : r[k] = p + k
        /\ q \in Seq(Nat) /\ Len(q) = b /\ \A k \in 1..b : q[k] = (p + a) + k
    <2>1. p + a \in Nat
      OBVIOUS
    <2> QED BY <2>1, RunType
  <1> HIDE DEF r, q
  <1>2. /\ s \in Seq(Nat) /\ Len(s) = a + b
        /\ \A k \in 1..a + b : s[k] = IF k <= a THEN r[k] ELSE q[k - a]
    BY <1>1, ConcatProperties
  <1> HIDE DEF s
  <1>3. \A k \in 1..a + b : s[k] = p + k
    <2> SUFFICES ASSUME NEW k \in 1..a + b PROVE s[k] = p + k
      OBVIOUS
    <2>1. CASE k <= a
      BY <1>1, <1>2, <2>1
    <2>2. CASE k > a
      <3>1. k - a \in 1..b /\ (p + a) + (k - a) = p + k
        BY <2>2
      <3> QED BY <1>1, <1>2, <2>2, <3>1
    <2> QED BY <2>1, <2>2
  <1>4. s = Run(p, a + b)
    BY <1>2, <1>3, IsRun
  <1> QED BY <1>4 DEF r, q, s

-----------------------------------------------------------------------------
(* Division, the length in bits, and the two words of a counter. *)

\* What division by b leaves.
LEMMA Division ==
  ASSUME NEW a \in Int, NEW b \in Nat \ {0}
  PROVE  /\ a \div b \in Int /\ a % b \in 0..b - 1
         /\ a = b * (a \div b) + (a % b)
  OBVIOUS

\* Dividing b * q + r gives q and leaves r.
LEMMA Quotient ==
  ASSUME NEW b \in Nat \ {0}, NEW q \in Int, NEW r \in 0..b - 1
  PROVE  /\ (b * q + r) % b = r
         /\ (b * q + r) \div b = q
  <1> DEFINE a == b * q + r
             p == a \div b
             t == a % b
  <1>1. a \in Int /\ b * q \in Int
    OBVIOUS
  <1>2. p \in Int /\ t \in 0..b - 1 /\ b * q + r = b * p + t
    BY <1>1, Division
  <1> HIDE DEF p, t
  <1>3. b * (p - q) = r - t /\ r - t < b /\ r - t > -b
    BY <1>2
  <1>4. p - q = 0
    <2> DEFINE d == p - q
    <2>1. d \in Int /\ b * d < b /\ b * d > -b
      BY <1>2, <1>3
    <2> HIDE DEF d
    <2>2. ~ (d >= 1)
      <3>1. d >= 1 => b * d >= b
        BY <2>1
      <3> QED BY <2>1, <3>1
    <2>3. ~ (d <= -1)
      <3>1. d <= -1 => b * d <= -b
        BY <2>1
      <3> QED BY <2>1, <3>1
    <2> QED BY <2>1, <2>2, <2>3 DEF d
  <1>5. p = q /\ t = r
    BY <1>2, <1>3, <1>4
  <1> QED BY <1>5 DEF p, t

\* A number below b is what division by b leaves of it.
LEMMA Small ==
  ASSUME NEW b \in Nat \ {0}, NEW r \in 0..b - 1
  PROVE  r % b = r
  OBVIOUS

(* The length in bits of a file: lo + W * hi + W * W * q things of K bits *)
(* each, and e bits more, in two words of W values.  Shifting leaves room    *)
(* for what is added: a number below K.                                      *)
LengthIs(K, T, W, lo, hi, q, e, n) ==
  /\ K \in Nat \ {0} /\ T \in Nat \ {0} /\ W = K * T
  /\ lo \in 0..W - 1 /\ hi \in 0..W - 1 /\ q \in Int /\ e \in 0..K - 1
  /\ n = K * (lo + W * hi + W * (W * q)) + e
  =>
  /\ n % W = ((K * lo) % W) + e
  /\ (n \div W) % W = ((K * hi) % W) + lo \div T

\* So they are.
LEMMA LengthWords ==
  ASSUME NEW K, NEW T, NEW W, NEW lo, NEW hi, NEW q, NEW e, NEW n
  PROVE  LengthIs(K, T, W, lo, hi, q, e, n)
  <1> SUFFICES ASSUME K \in Nat \ {0}, T \in Nat \ {0}, W = K * T,
                      lo \in 0..W - 1, hi \in 0..W - 1, q \in Int, e \in 0..K - 1,
                      n = K * (lo + W * hi + W * (W * q)) + e
               PROVE  /\ n % W = ((K * lo) % W) + e
                      /\ (n \div W) % W = ((K * hi) % W) + lo \div T
    BY DEF LengthIs
  <1>1. W \in Nat /\ W > 0 /\ W >= K
    <2>1. K * T >= K * 1
      OBVIOUS
    <2> QED BY <2>1
  <1>2. ASSUME NEW x \in Nat, x < W
        PROVE  /\ K * x = W * (x \div T) + ((K * x) % W)
               /\ (K * x) % W \in 0..W - K
               /\ x \div T \in 0..K - 1
    <2> DEFINE a == x \div T
               r == x % T
               y == K * x
               z == K * r
    <2>1. a \in Int /\ r \in 0..T - 1 /\ x = T * a + r
      <3>1. x \in Int /\ T \in Nat \ {0}
        OBVIOUS
      <3> QED BY ONLY <3>1, Division, Zenon
    <2> HIDE DEF a, r
    <2>2. z \in 0..W - K
      <3>1. K * r <= K * (T - 1) /\ K * r \in Nat
        BY <2>1
      <3> QED BY <1>1, <3>1
    <2>3. y = W * a + z /\ z \in 0..W - 1
      BY <1>1, <2>1, <2>2
    <2> HIDE DEF y, z
    <2>4. y % W = z
      <3>1. W \in Nat \ {0} /\ a \in Int /\ z \in 0..W - 1
        BY <1>1, <2>1, <2>3
      <3>2. (W * a + z) % W = z
        BY ONLY <3>1, Quotient, Zenon
      <3> QED BY <2>3, <3>2
    <2>5. a < K
      <3>1. a >= K => T * a >= T * K
        BY <2>1
      <3> QED BY <1>2, <2>1, <3>1
    <2>6. a >= 0
      <3>1. a <= -1 => T * a <= -T
        BY <2>1
      <3> QED BY <2>1, <3>1
    <2>7. a \in 0..K - 1
      BY <2>1, <2>5, <2>6
    <2> QED BY <2>2, <2>3, <2>4, <2>7 DEF a, y
  <1> DEFINE a == lo \div T
             l == (K * lo) % W
             b == hi \div T
             h == (K * hi) % W
             first == l + e
             second == h + a
             m == b + K * q
  <1>3. /\ lo \in Nat /\ hi \in Nat /\ lo < W /\ hi < W
    BY <1>1
  <1>4. K * lo = W * a + l /\ l \in 0..W - K /\ a \in 0..K - 1
    BY <1>2, <1>3
  <1>5. K * hi = W * b + h /\ h \in 0..W - K /\ b \in 0..K - 1
    BY <1>2, <1>3
  <1> HIDE DEF a, l, b, h
  <1>6. first \in 0..W - 1 /\ second \in 0..W - 1 /\ m \in Int
    BY <1>1, <1>4, <1>5
  <1>7. n = W * (W * m + second) + first
    <2>1. K * (lo + W * hi + W * (W * q)) = K * lo + W * (K * hi) + W * (W * (K * q))
      BY <1>1, <1>3
    <2>2. W * (K * hi) = W * (W * b) + W * h
      BY <1>1, <1>5
    <2>3. W * (W * m + second) = W * (W * b) + W * (W * (K * q)) + W * h + W * a
      BY <1>1, <1>4, <1>5
    <2> QED BY <1>1, <1>4, <1>5, <2>1, <2>2, <2>3
  <1> HIDE DEF first, second, m
  <1>8. W * m + second \in Int
    BY <1>1, <1>6
  <1>9. n % W = first /\ n \div W = W * m + second
    <2> DEFINE i == W * m + second
    <2>1. i \in Int
      BY <1>8
    <2> HIDE DEF i
    <2>2. (W * i + first) % W = first /\ (W * i + first) \div W = i
      <3>1. W \in Nat \ {0} /\ i \in Int /\ first \in 0..W - 1
        BY <1>1, <1>6, <2>1
      <3> QED BY ONLY <3>1, Quotient, Zenon
    <2> QED BY <1>7, <2>2 DEF i
  <1>10. (W * m + second) % W = second
    <2>1. W \in Nat \ {0} /\ m \in Int /\ second \in 0..W - 1
      BY <1>1, <1>6
    <2> QED BY ONLY <2>1, Quotient, Zenon
  <1> QED BY <1>9, <1>10 DEF first, second, a, l, h

\* Two words of a counter hold the count c, what does not fit into them dropped.
Counts(l, h, c) ==
  /\ l \in 0..Word - 1 /\ h \in 0..Word - 1
  /\ \E q \in Nat : c = l + Word * h + Word * (Word * q)

\* Counting up by less than a word, the carry included.
LEMMA CountUp ==
  ASSUME NEW c \in Nat, Counts(low, high, c), NEW n \in 0..Word - 1, Count(n)
  PROVE  Counts(low', high', c + n)
  <1>1. PICK q \in Nat : c = low + Word * high + Word * (Word * q)
    BY DEF Counts
  <1>2. /\ Word \in Nat \ {0} /\ low \in 0..Word - 1 /\ high \in 0..Word - 1
    BY FileHashAssumption DEF Counts
  <1>3. CASE low + n < Word
    <2>1. low + n \in 0..Word - 1
      BY <1>2, <1>3
    <2>2. (low + n) % Word = low + n
      BY <1>2, <2>1, Small
    <2>3. low' = low + n /\ high' = high
      BY <1>2, <1>3, <2>2 DEF Count
    <2>4. c + n = low' + Word * high' + Word * (Word * q)
      BY <1>1, <1>2, <2>3
    <2> QED BY <1>2, <2>1, <2>3, <2>4 DEF Counts
  <1>4. CASE low + n >= Word
    <2> DEFINE rest == low + n - Word
    <2>1. rest \in 0..Word - 1
      BY <1>2, <1>4
    <2>2. Word * 1 + rest = low + n
      BY <1>2
    <2> HIDE DEF rest
    <2>3. (Word * 1 + rest) % Word = rest
      BY <1>2, <2>1, Quotient
    <2>4. low' = rest /\ high' = (high + 1) % Word
      BY <1>4, <2>2, <2>3 DEF Count
    <2>5. CASE high + 1 < Word
      <3>1. high + 1 \in 0..Word - 1
        BY <1>2, <2>5
      <3>2. (high + 1) % Word = high + 1
        BY <1>2, <3>1, Small
      <3>3. high' = high + 1
        BY <1>2, <2>4, <3>2
      <3>4. c + n = low' + Word * high' + Word * (Word * q)
        <4>1. Word * (high + 1) = Word * high + Word
          BY <1>2
        <4> QED BY <1>1, <1>2, <2>1, <2>2, <2>4, <3>3, <4>1
      <3> QED BY <2>1, <2>4, <3>1, <3>3, <3>4 DEF Counts
    <2>6. CASE high + 1 = Word
      <3>1. (Word * 1 + 0) % Word = 0
        <4>1. 0 \in 0..Word - 1
          BY <1>2
        <4> QED BY <1>2, <4>1, Quotient
      <3>2. high' = 0
        BY <1>2, <2>4, <2>6, <3>1
      <3>3. c + n = low' + Word * 0 + Word * (Word * (q + 1))
        <4>1. Word * (Word * (q + 1)) = Word * (Word * q) + Word * Word
          BY <1>2
        <4>2. Word * high + Word = Word * Word
          <5>1. Word * (high + 1) = Word * high + Word
            BY <1>2
          <5> QED BY <2>6, <5>1
        <4> QED BY <1>1, <1>2, <2>1, <2>2, <2>4, <4>1, <4>2
      <3>4. q + 1 \in Nat /\ 0 \in 0..Word - 1
        BY <1>2
      <3> QED BY <2>1, <2>4, <3>2, <3>3, <3>4 DEF Counts
    <2> QED BY <1>2, <2>5, <2>6
  <1> QED BY <1>2, <1>3, <1>4

\* A word holds whole blocks, and their bits.
LEMMA WordOfBlocks ==
  /\ BlockSize \in Nat \ {0} /\ Word \in Nat \ {0}
  /\ Word \div 8 \in Nat \ {0} /\ Word = 8 * (Word \div 8)
  /\ Word \div (8 * BlockSize) \in Nat \ {0}
  /\ Word = 8 * BlockSize * (Word \div (8 * BlockSize))
  /\ Word = BlockSize * (8 * (Word \div (8 * BlockSize)))
  <1> DEFINE b == 8 * BlockSize
             t == Word \div b
  <1>1. /\ BlockSize \in Nat \ {0} /\ Word \in Nat \ {0} /\ b \in Nat \ {0} /\ Word % b = 0
    BY FileHashAssumption
  <1>2. t \in Int /\ Word = b * t + (Word % b)
    <2> HIDE DEF b
    <2> QED BY <1>1, Division DEF t
  <1> HIDE DEF t
  <1>3. Word = b * t
    BY <1>1, <1>2
  <1>4. t > 0
    <2>1. t <= 0 => b * t <= 0
      BY <1>1, <1>2
    <2> QED BY <1>1, <1>2, <1>3, <2>1
  <1>5. Word = 8 * (BlockSize * t) /\ Word = BlockSize * (8 * t)
    BY <1>1, <1>2, <1>3
  <1>6. Word \div 8 = BlockSize * t
    <2> DEFINE u == BlockSize * t
    <2>1. u \in Int /\ Word = 8 * u + 0
      BY <1>1, <1>2, <1>5
    <2> HIDE DEF u
    <2>2. (8 * u + 0) \div 8 = u
      BY <2>1, Quotient
    <2> QED BY <2>1, <2>2 DEF u
  <1>7. BlockSize * t \in Nat \ {0}
    BY <1>1, <1>2, <1>4
  <1> QED BY <1>1, <1>2, <1>3, <1>4, <1>5, <1>6, <1>7 DEF t

-----------------------------------------------------------------------------
(* The padding. *)

\* How far the padding of j blocks and B bytes reaches: to the end of the block
\* that was begun, or of the next, but for the length.
LEMMA PaddedLengthIs ==
  ASSUME NEW j \in Nat, NEW B \in 0..BlockSize - 1
  PROVE  PaddedLength(BlockSize * j + B) =
           IF B < BlockSize - LengthSize
           THEN BlockSize * j + BlockSize - LengthSize
           ELSE BlockSize * j + BlockSize + BlockSize - LengthSize
  <1> DEFINE n == BlockSize * j + B
             e == IF B < BlockSize - LengthSize THEN 1 ELSE 2
             i == j + e - 1
             f == BlockSize * i
             m == f + BlockSize - LengthSize
             Fit(x) == /\ (x + LengthSize) % BlockSize = 0
                       /\ \A k \in n + 1..x - 1 : (k + LengthSize) % BlockSize # 0
  <1>1. /\ BlockSize \in Nat \ {0} /\ LengthSize \in 1..BlockSize - 1 /\ e \in {1, 2}
        /\ i \in Nat
    BY FileHashAssumption
  <1>2. /\ f \in Nat /\ BlockSize * (i + 1) = f + BlockSize
        /\ f = IF B < BlockSize - LengthSize THEN BlockSize * j ELSE BlockSize * j + BlockSize
    <2>1. BlockSize * (j + 1) = BlockSize * j + BlockSize
      BY <1>1
    <2> QED BY <1>1, <2>1
  <1> HIDE DEF e, i, f
  <1>3. /\ n \in Nat /\ m \in n + 1..n + BlockSize + LengthSize
        /\ n + 1 + LengthSize > f
    BY <1>1, <1>2
  <1>4. Fit(m)
    <2>1. (m + LengthSize) % BlockSize = 0
      <3>1. m + LengthSize = BlockSize * (i + 1) + 0
        BY <1>1, <1>2
      <3>2. 0 \in 0..BlockSize - 1 /\ i + 1 \in Int
        BY <1>1
      <3>3. (BlockSize * (i + 1) + 0) % BlockSize = 0
        BY <1>1, <3>2, Quotient
      <3> HIDE DEF m
      <3> QED BY <3>1, <3>3
    <2>2. ASSUME NEW k \in n + 1..m - 1 PROVE (k + LengthSize) % BlockSize # 0
      <3> DEFINE r == k + LengthSize - f
      <3>1. r \in 1..BlockSize - 1 /\ k + LengthSize = f + r
        BY <1>1, <1>2, <1>3
      <3> HIDE DEF r
      <3>2. r \in 0..BlockSize - 1 /\ i \in Int
        BY <1>1, <3>1
      <3>3. (BlockSize * i + r) % BlockSize = r
        BY <1>1, <3>2, Quotient
      <3> QED BY <3>1, <3>3 DEF f
    <2> QED BY <2>1, <2>2
  <1> HIDE DEF m, n
  <1>5. ASSUME NEW x \in n + 1..n + BlockSize + LengthSize, Fit(x)
        PROVE  x = m
    <2>1. ~ (x < m)
      <3>1. x < m => x \in n + 1..m - 1
        BY <1>1, <1>3
      <3> QED BY <1>4, <1>5, <3>1
    <2>2. ~ (x > m)
      <3>1. x > m => m \in n + 1..x - 1
        BY <1>1, <1>3
      <3> QED BY <1>4, <1>5, <3>1
    <2> QED BY <1>1, <1>3, <2>1, <2>2
  <1>6. PaddedLength(n) = CHOOSE x \in n + 1..n + BlockSize + LengthSize : Fit(x)
    BY DEF PaddedLength
  <1>7. PaddedLength(n) = m
    <2> HIDE DEF Fit
    <2> QED BY <1>3, <1>4, <1>5, <1>6
  <1> QED BY <1>1, <1>2, <1>7 DEF m, n

\* What pads a message of n bytes is the mark and as many zeros as reach m.
LEMMA PaddedIs ==
  ASSUME NEW n \in Nat, NEW z \in Nat, PaddedLength(n) = n + 1 + z,
         NEW S, 1..n \subseteq S, Mark \in S, Zero \in S
  PROVE  /\ Run(0, n) \o <<Mark>> \o Zeros(z) = Padded(n)
         /\ Padded(n) \in Seq(S)
  <1> DEFINE r == Run(0, n)
             s == r \o <<Mark>>
             t == Zeros(z)
             u == s \o t
  <1>1. r \in Seq(S) /\ Len(r) = n /\ \A k \in 1..n : r[k] = k
    BY DEF Run
  <1>2. t \in Seq(S) /\ Len(t) = z /\ \A k \in 1..z : t[k] = Zero
    BY DEF Zeros
  <1> HIDE DEF r, t
  <1>3. s \in Seq(S) /\ Len(s) = n + 1 /\ (\A k \in 1..n : s[k] = k) /\ s[n + 1] = Mark
    BY <1>1
  <1> HIDE DEF s
  <1>4. /\ u \in Seq(S) /\ Len(u) = n + 1 + z
        /\ \A k \in 1..n + 1 + z : u[k] = IF k <= n + 1 THEN s[k] ELSE t[k - (n + 1)]
    <2>1. s \in Seq(S) /\ t \in Seq(S)
      BY <1>2, <1>3
    <2>2. /\ s \o t \in Seq(S) /\ Len(s \o t) = Len(s) + Len(t)
          /\ \A i \in 1..Len(s) + Len(t) :
               (s \o t)[i] = IF i <= Len(s) THEN s[i] ELSE t[i - Len(s)]
      BY <2>1, ConcatProperties
    <2> QED BY <1>2, <1>3, <2>2
  <1> HIDE DEF u
  <1>5. ASSUME NEW k \in 1..n + 1 + z
        PROVE  u[k] = IF k <= n THEN k ELSE IF k = n + 1 THEN Mark ELSE Zero
    <2>1. CASE k <= n + 1
      BY <1>3, <1>4, <2>1
    <2>2. CASE k > n + 1
      <3>1. k - (n + 1) \in 1..z
        BY <2>2
      <3> QED BY <1>2, <1>4, <2>2, <3>1
    <2> QED BY <2>1, <2>2
  <1>6. u = [k \in 1..n + 1 + z |-> u[k]]
    BY <1>4
  <1>7. u = Padded(n)
    BY <1>5, <1>6 DEF Padded
  <1>8. u = Run(0, n) \o <<Mark>> \o Zeros(z)
    BY DEF u, s, r, t
  <1> QED BY <1>4, <1>7, <1>8

-----------------------------------------------------------------------------
(* The inductive invariant.  FedIsPadded speaks of the end only: on the way  *)
(* there everything read is in blocks that were transformed, in the buffer   *)
(* or in the chunk, in this order, and the counter goes with it.             *)

\* What was counted so far: SHA-256 counts blocks; MD5 bytes, those of a chunk
\* when it is taken up.
Counted(j, B) ==
  IF alg = "SHA256" THEN j ELSE IF at = "fill" THEN BlockSize * j + B ELSE read

\* The bytes read so far: j blocks that were transformed, B bytes in the buffer,
\* and L bytes that are left of the chunk.
Cut(j, B, L) ==
  /\ read = BlockSize * j + B + L
  /\ fed = IF ret = "SUCCESSED" THEN Padded(read) ELSE Run(0, BlockSize * j)
  /\ buffer = Run(BlockSize * j, B)
  /\ data = Run(BlockSize * j + B, L)
  /\ at \in {"read", "pad", "done"} => L = 0
  /\ at = "whole" => B = 0
  /\ Counts(low, high, Counted(j, B))

Scalars ==
  /\ alg \in Algorithms /\ size \in 0..MaxSize /\ read \in 0..size
  /\ at \in {"read", "fill", "whole", "pad", "done"}
  /\ stop \in BOOLEAN /\ ret \in {"none", "SUCCESSED", "CANCELED"}
  /\ ret = "SUCCESSED" => at = "done"
  /\ bits = IF ret = "SUCCESSED"
            THEN <<(8 * read) % Word, ((8 * read) \div Word) % Word>> ELSE <<>>

HashInv ==
  /\ Scalars
  /\ \E j \in Nat, B \in 0..BlockSize - 1, L \in 0..ReadSize : Cut(j, B, L)

\* What the assumptions on the constants come to.
LEMMA Sizes ==
  /\ BlockSize \in Nat /\ BlockSize > 1 /\ LengthSize \in 1..BlockSize - 1
  /\ Word \in Nat /\ Word > 0 /\ ReadSize \in 1..Word - 1 /\ MaxSize \in Nat
  /\ Word >= 8 * BlockSize
  /\ Algorithms \subseteq {"MD5", "SHA256"}
  <1>1. BlockSize * (8 * (Word \div (8 * BlockSize))) >= BlockSize * 8
    BY WordOfBlocks
  <1> QED BY <1>1, WordOfBlocks, FileHashAssumption

\* An empty run.
LEMMA RunOfNone ==
  ASSUME NEW p PROVE Run(p, 0) = <<>>
  BY DEF Run

\* Nothing is read in the beginning.
LEMMA InitHash == Init => HashInv
  <1> SUFFICES ASSUME Init PROVE HashInv
    OBVIOUS
  <1>1. Scalars
    <2>1. read \in 0..size
      BY Sizes DEF Init
    <2>2. ret # "SUCCESSED" /\ bits = <<>>
      BY DEF Init
    <2> QED BY <2>1, <2>2 DEF Init, Scalars
  <1>2. Counts(0, 0, 0)
    BY Sizes DEF Counts
  <1>3. Counted(0, 0) = 0
    BY Sizes DEF Init, Counted
  <1>4. Run(0, BlockSize * 0) = <<>>
    BY Sizes, RunOfNone
  <1>5. Cut(0, 0, 0)
    BY Sizes, RunOfNone, <1>2, <1>3, <1>4 DEF Init, Cut
  <1> QED BY <1>1, <1>5, Sizes DEF HashInv

\* The chunk that is read follows on what was read.
LEMMA ReadHash ==
  ASSUME HashInv, NEW n \in 1..ReadSize, read + n <= size, Read(n)
  PROVE  HashInv'
  <1>1. PICK j \in Nat, B \in 0..BlockSize - 1, L \in 0..ReadSize : Cut(j, B, L)
    BY DEF HashInv
  <1>2. /\ L = 0 /\ read = BlockSize * j + B /\ BlockSize * j \in Nat /\ ret # "SUCCESSED"
    BY <1>1, Sizes DEF Read, Cut, HashInv, Scalars
  <1>3. CASE stop
    <2>1. /\ at' = "done" /\ ret' = "CANCELED"
          /\ UNCHANGED <<read, data, alg, size, buffer, low, high, fed, bits, stop>>
      BY <1>3 DEF Read
    <2>2. Scalars'
      BY <1>2, <2>1 DEF HashInv, Scalars
    <2>3. Counted(j, B)' = Counted(j, B)
      BY <2>1 DEF Counted, Read
    <2>4. Cut(j, B, L)'
      BY <1>1, <1>2, <2>1, <2>3 DEF Cut
    <2> QED BY <2>2, <2>4 DEF HashInv
  <1>4. CASE ~stop
    <2>1. /\ at = "read" /\ at' = "fill" /\ read' = read + n /\ data' = Run(read, n)
          /\ UNCHANGED <<alg, size, buffer, low, high, fed, bits, stop, ret>>
      BY <1>4 DEF Read, Run
    <2>2. Scalars'
      <3>1. read' \in 0..size
        BY <2>1 DEF HashInv, Scalars
      <3> QED BY <1>2, <2>1, <3>1 DEF HashInv, Scalars
    <2>3. Counted(j, B)' = Counted(j, B)
      BY <1>2, <2>1 DEF Counted
    <2>4. Cut(j, B, n)'
      BY <1>1, <1>2, <2>1, <2>3 DEF Cut
    <2>5. n \in 0..ReadSize
      BY Sizes
    <2> QED BY <2>2, <2>4, <2>5 DEF HashInv
  <1> QED BY <1>3, <1>4

\* How much of a block the code takes to be held already.
LEMMA HeldIs ==
  ASSUME NEW j \in Nat, NEW B \in 0..BlockSize - 1, NEW L \in 0..ReadSize, Cut(j, B, L),
         at = "fill", alg = "MD5"
  PROVE  low % BlockSize = B
  <1> DEFINE T == 8 * (Word \div (8 * BlockSize))
  <1>1. Counts(low, high, BlockSize * j + B)
    BY DEF Cut, Counted
  <1>2. PICK q \in Nat : BlockSize * j + B = low + Word * high + Word * (Word * q)
    BY <1>1 DEF Counts
  <1>3. /\ BlockSize \in Nat \ {0} /\ Word = BlockSize * T /\ T \in Nat /\ low \in Int
        /\ high \in Int /\ Word \in Nat
    BY <1>1, WordOfBlocks, Sizes DEF Counts
  <1> HIDE DEF T
  <1> DEFINE i == j - T * high - T * (Word * q)
  <1>4. i \in Int /\ low = BlockSize * i + B
    <2>1. Word * high = BlockSize * (T * high)
      BY <1>3
    <2>2. Word * (Word * q) = BlockSize * (T * (Word * q))
      BY <1>3
    <2>3. T * high \in Int /\ T * (Word * q) \in Int
      BY <1>3
    <2>4. BlockSize * i = BlockSize * j - BlockSize * (T * high) - BlockSize * (T * (Word * q))
      BY <1>3, <2>3
    <2> QED BY <1>2, <1>3, <2>1, <2>2, <2>3, <2>4
  <1> HIDE DEF i
  <1>5. (BlockSize * i + B) % BlockSize = B
    BY <1>3, <1>4, Quotient
  <1> QED BY <1>4, <1>5

\* What a block is completed with, and what it is completed to.
LEMMA Begun ==
  ASSUME NEW j \in Nat, NEW B \in 0..BlockSize - 1, NEW L \in 0..ReadSize, NEW n \in 0..L
  PROVE  LET p == BlockSize * j
         IN  /\ SubSeq(Run(p, B), 1, B) \o SubSeq(Run(p + B, L), 1, n) = Run(p, B + n)
             /\ SubSeq(Run(p + B, L), n + 1, L) = Run(p + B + n, L - n)
  <1> DEFINE p == BlockSize * j
  <1>1. /\ p \in Nat /\ p + B \in Nat /\ L \in Nat /\ B \in Nat /\ n \in Nat /\ B \in 0..B
    BY Sizes
  <1> HIDE DEF p
  <1>2. SubSeq(Run(p, B), 1, B) = Run(p, B)
    BY <1>1, RunFirst
  <1>3. SubSeq(Run(p + B, L), 1, n) = Run(p + B, n)
    BY <1>1, RunFirst
  <1>4. Run(p, B) \o Run(p + B, n) = Run(p, B + n)
    BY <1>1, RunJoin
  <1>5. SubSeq(Run(p + B, L), n + 1, L) = Run((p + B) + n, L - n)
    BY <1>1, RunRest
  <1> QED BY <1>2, <1>3, <1>4, <1>5 DEF p

\* Another block behind j blocks.
LEMMA NextBlock ==
  ASSUME NEW j \in Nat
  PROVE  /\ Run(0, BlockSize * j) \o Run(BlockSize * j, BlockSize) = Run(0, BlockSize * (j + 1))
         /\ BlockSize * (j + 1) = BlockSize * j + BlockSize
  <1> DEFINE p == BlockSize * j
  <1>1. p \in Nat /\ BlockSize \in Nat /\ BlockSize * (j + 1) = p + BlockSize
    BY Sizes
  <1> HIDE DEF p
  <1>2. Run(0, p) \o Run(0 + p, BlockSize) = Run(0, p + BlockSize)
    BY <1>1, RunJoin
  <1>3. 0 + p = p
    BY <1>1
  <1> QED BY <1>1, <1>2, <1>3 DEF p

\* What no action below moves: the file, the end that is not reached, the stop.
Steady == UNCHANGED <<alg, size, read, bits, stop, ret>>

\* What keeps still keeps its type.
LEMMA SteadyScalars ==
  ASSUME Scalars, Steady, ret # "SUCCESSED",
         at' \in {"read", "fill", "whole", "pad", "done"}
  PROVE  Scalars'
  BY DEF Scalars, Steady

\* The invariant after a step that leaves j blocks, B bytes held and L to come.
LEMMA CutAfter ==
  ASSUME HashInv, Steady, ret # "SUCCESSED",
         at' \in {"read", "fill", "whole", "pad", "done"},
         NEW j \in Nat, NEW B \in 0..BlockSize - 1, NEW L \in 0..ReadSize,
         read = BlockSize * j + B + L, fed' = Run(0, BlockSize * j),
         buffer' = Run(BlockSize * j, B), data' = Run(BlockSize * j + B, L),
         at' \in {"read", "pad", "done"} => L = 0, at' = "whole" => B = 0,
         Counts(low', high', Counted(j, B)')
  PROVE  HashInv'
  <1>1. Scalars'
    BY SteadyScalars DEF HashInv
  <1>2. read' = read /\ ret' # "SUCCESSED"
    BY DEF Steady
  <1>3. Cut(j, B, L)'
    BY <1>2 DEF Cut
  <1> QED BY <1>1, <1>3 DEF HashInv

\* The block that was begun is filled up, or the chunk is used up.
LEMMA FillHash ==
  ASSUME HashInv, Fill
  PROVE  HashInv'
  <1>1. PICK j \in Nat, B \in 0..BlockSize - 1, L \in 0..ReadSize : Cut(j, B, L)
    BY DEF HashInv
  <1> DEFINE p == BlockSize * j
             held == IF alg = "MD5" THEN low % BlockSize ELSE Len(buffer)
             space == BlockSize - held
             first == IF space <= Len(data) THEN space ELSE Len(data)
             begun == SubSeq(buffer, 1, held) \o SubSeq(data, 1, first)
  <1>2. at = "fill" /\ Steady
    BY DEF Fill, Steady
  <1>3. ret # "SUCCESSED" /\ alg \in {"MD5", "SHA256"}
    BY <1>2, Sizes DEF HashInv, Scalars
  <1>4. /\ BlockSize \in Nat /\ ReadSize \in Nat /\ ReadSize < Word /\ 1 < Word /\ Word \in Nat
        /\ B \in Nat /\ B < BlockSize /\ L \in Nat /\ L <= ReadSize
    BY Sizes
  <1>5. p \in Nat /\ p + B \in Nat
    BY <1>4
  <1>6. /\ buffer = Run(p, B) /\ data = Run(p + B, L) /\ fed = Run(0, p)
        /\ read = p + B + L /\ Counts(low, high, Counted(j, B))
    BY <1>1, <1>3 DEF Cut
  <1> HIDE DEF p
  <1>7. Len(buffer) = B /\ Len(data) = L
    BY <1>4, <1>5, <1>6, RunType
  <1>8. held = B
    BY <1>1, <1>2, <1>3, <1>7, HeldIs
  <1> HIDE DEF held
  <1>9. CASE /\ Len(data) < space
             /\ buffer' = begun /\ data' = <<>> /\ at' = "read"
             /\ IF alg = "MD5" THEN Count(Len(data)) ELSE UNCHANGED <<low, high>>
             /\ UNCHANGED fed
    <2>1. first = L
      BY <1>4, <1>7, <1>8, <1>9
    <2>2. L \in 0..L /\ B + L \in 0..BlockSize - 1
      BY <1>4, <1>7, <1>8, <1>9
    <2> HIDE DEF first
    <2>3. begun = Run(p, B + L)
      <3>1. SubSeq(Run(p, B), 1, B) \o SubSeq(Run(p + B, L), 1, L) = Run(p, B + L)
        BY <2>2, Begun DEF p
      <3> QED BY <1>6, <1>8, <2>1, <3>1
    <2>4. Counts(low', high', Counted(j, B + L)')
      <3>1. CASE alg = "MD5"
        <4>1. Counted(j, B) = p + B
          BY <1>2, <3>1 DEF Counted, p
        <4>2. Counted(j, B + L)' = p + B + L
          BY <1>2, <1>6, <1>9, <3>1 DEF Counted, Steady
        <4>3. L \in 0..Word - 1
          BY <1>4
        <4>4. Count(L)
          BY <1>7, <1>9, <3>1
        <4> QED BY <1>5, <1>6, <4>1, <4>2, <4>3, <4>4, CountUp
      <3>2. CASE alg = "SHA256"
        <4>1. Counted(j, B + L)' = Counted(j, B)
          BY <1>2, <3>2 DEF Counted, Steady
        <4>2. low' = low /\ high' = high
          BY <1>9, <3>2
        <4> QED BY <1>6, <4>1, <4>2
      <3> QED BY <1>3, <3>1, <3>2
    <2>5. Run(p + (B + L), 0) = <<>>
      BY RunOfNone
    <2>6. read = p + (B + L) + 0 /\ 0 \in 0..ReadSize
      BY <1>4, <1>5, <1>6
    <2>7. /\ fed' = Run(0, p) /\ buffer' = Run(p, B + L) /\ data' = Run(p + (B + L), 0)
          /\ at' = "read"
      BY <1>6, <1>9, <2>3, <2>5
    <2> QED BY <1>2, <1>3, <2>2, <2>4, <2>6, <2>7, CutAfter DEF p
  <1>10. CASE /\ Len(data) >= space /\ (alg = "MD5" \/ held > 0)
              /\ fed' = fed \o begun /\ buffer' = <<>>
              /\ data' = SubSeq(data, first + 1, Len(data)) /\ at' = "whole"
              /\ Count(IF alg = "MD5" THEN Len(data) ELSE 1)
    <2>1. /\ first = BlockSize - B /\ first \in 0..L /\ B + first = BlockSize
          /\ L - first \in 0..ReadSize
      BY <1>4, <1>7, <1>8, <1>10
    <2> HIDE DEF first
    <2>2. begun = Run(p, BlockSize) /\ data' = Run(p + B + first, L - first)
      <3>1. /\ SubSeq(Run(p, B), 1, B) \o SubSeq(Run(p + B, L), 1, first) = Run(p, B + first)
            /\ SubSeq(Run(p + B, L), first + 1, L) = Run(p + B + first, L - first)
        BY <2>1, Begun DEF p
      <3> QED BY <1>6, <1>7, <1>8, <1>10, <2>1, <3>1
    <2>3. fed' = Run(0, BlockSize * (j + 1)) /\ BlockSize * (j + 1) = p + BlockSize
      BY <1>6, <1>10, <2>2, NextBlock DEF p
    <2>4. Counts(low', high', Counted(j + 1, 0)')
      <3>1. CASE alg = "MD5"
        <4>1. Counted(j, B) = p + B
          BY <1>2, <3>1 DEF Counted, p
        <4>2. Counted(j + 1, 0)' = p + B + L
          BY <1>2, <1>6, <1>10, <3>1 DEF Counted, Steady
        <4>3. L \in 0..Word - 1
          BY <1>4
        <4>4. Count(L)
          BY <1>7, <1>10, <3>1
        <4> QED BY <1>5, <1>6, <4>1, <4>2, <4>3, <4>4, CountUp
      <3>2. CASE alg = "SHA256"
        <4>1. Counted(j, B) = j /\ Counted(j + 1, 0)' = j + 1
          BY <1>2, <3>2 DEF Counted, Steady
        <4>2. 1 \in 0..Word - 1
          BY <1>4
        <4>3. Count(1)
          BY <1>10, <3>2
        <4> QED BY <1>6, <4>1, <4>2, <4>3, CountUp
      <3> QED BY <1>3, <3>1, <3>2
    <2>5. Run(BlockSize * (j + 1), 0) = <<>>
      BY RunOfNone
    <2>6. p + B + first = BlockSize * (j + 1) + 0
      BY <1>4, <1>5, <2>1, <2>3
    <2>7. read = BlockSize * (j + 1) + 0 + (L - first)
      BY <1>4, <1>5, <1>6, <2>1, <2>3
    <2>8. j + 1 \in Nat /\ 0 \in 0..BlockSize - 1
      BY Sizes
    <2>9. /\ buffer' = Run(BlockSize * (j + 1), 0) /\ at' = "whole"
          /\ data' = Run(BlockSize * (j + 1) + 0, L - first)
      BY <1>10, <2>2, <2>5, <2>6
    <2> QED BY <1>2, <1>3, <2>1, <2>3, <2>4, <2>7, <2>8, <2>9, CutAfter
  <1>11. CASE /\ alg = "SHA256" /\ held = 0
              /\ at' = "whole" /\ UNCHANGED <<fed, buffer, data, low, high>>
    <2>1. Counted(j, B)' = Counted(j, B)
      BY <1>2, <1>11 DEF Counted, Steady
    <2>2. /\ fed' = Run(0, p) /\ buffer' = Run(p, B) /\ data' = Run(p + B, L) /\ B = 0
          /\ low' = low /\ high' = high /\ at' = "whole"
      BY <1>6, <1>8, <1>11
    <2>3. Counts(low', high', Counted(j, B)')
      BY <1>6, <2>1, <2>2
    <2> QED BY <1>2, <1>3, <1>6, <2>2, <2>3, CutAfter DEF p
  <1> QED BY <1>9, <1>10, <1>11 DEF Fill, held

\* A block from the chunk, or the rest of the chunk is kept.
LEMMA WholeHash ==
  ASSUME HashInv, Whole
  PROVE  HashInv'
  <1>1. PICK j \in Nat, B \in 0..BlockSize - 1, L \in 0..ReadSize : Cut(j, B, L)
    BY DEF HashInv
  <1> DEFINE p == BlockSize * j
  <1>2. at = "whole" /\ Steady
    BY DEF Whole, Steady
  <1>3. ret # "SUCCESSED" /\ alg \in {"MD5", "SHA256"}
    BY <1>2, Sizes DEF HashInv, Scalars
  <1>4. BlockSize \in Nat /\ Word \in Nat /\ 1 < Word /\ L \in Nat /\ L <= ReadSize /\ ReadSize \in Nat
    BY Sizes
  <1>5. p \in Nat /\ B = 0
    BY <1>1, <1>2, <1>4 DEF Cut
  <1>6. /\ data = Run(p, L) /\ fed = Run(0, p) /\ buffer = <<>>
        /\ read = p + L /\ Counts(low, high, Counted(j, B))
    <2>1. Run(p, 0) = <<>> /\ p + 0 = p
      BY <1>5, RunOfNone
    <2> QED BY <1>1, <1>3, <1>5, <2>1 DEF Cut
  <1> HIDE DEF p
  <1>7. Len(data) = L
    BY <1>4, <1>5, <1>6, RunType
  <1>8. CASE /\ Len(data) >= BlockSize
             /\ fed' = fed \o SubSeq(data, 1, BlockSize)
             /\ data' = SubSeq(data, BlockSize + 1, Len(data))
             /\ IF alg = "SHA256" THEN Count(1) ELSE UNCHANGED <<low, high>>
             /\ UNCHANGED <<at, buffer>>
    <2>1. BlockSize \in 0..L /\ L - BlockSize \in 0..ReadSize
      BY <1>4, <1>7, <1>8
    <2>2. BlockSize * (j + 1) = p + BlockSize
      BY NextBlock DEF p
    <2>3. fed' = Run(0, BlockSize * (j + 1))
      <3>1. SubSeq(Run(p, L), 1, BlockSize) = Run(p, BlockSize)
        BY <1>4, <1>5, <2>1, RunFirst
      <3>2. Run(0, p) \o Run(p, BlockSize) = Run(0, BlockSize * (j + 1))
        BY NextBlock DEF p
      <3> QED BY <1>6, <1>8, <3>1, <3>2
    <2>4. data' = Run(BlockSize * (j + 1) + 0, L - BlockSize)
      <3>1. SubSeq(Run(p, L), BlockSize + 1, L) = Run(p + BlockSize, L - BlockSize)
        BY <1>4, <1>5, <2>1, RunRest
      <3>2. BlockSize * (j + 1) + 0 = p + BlockSize
        BY <1>4, <1>5, <2>2
      <3> QED BY <1>6, <1>7, <1>8, <3>1, <3>2
    <2>5. buffer' = Run(BlockSize * (j + 1), 0)
      BY <1>6, <1>8, RunOfNone
    <2>6. read = BlockSize * (j + 1) + 0 + (L - BlockSize)
      BY <1>4, <1>5, <1>6, <2>2
    <2>7. Counts(low', high', Counted(j + 1, 0)')
      <3>1. CASE alg = "MD5"
        <4>1. Counted(j + 1, 0)' = Counted(j, B)
          BY <1>2, <1>8, <3>1 DEF Counted, Steady
        <4>2. low' = low /\ high' = high
          BY <1>8, <3>1
        <4> QED BY <1>6, <4>1, <4>2
      <3>2. CASE alg = "SHA256"
        <4>1. Counted(j, B) = j /\ Counted(j + 1, 0)' = j + 1
          BY <1>2, <3>2 DEF Counted, Steady
        <4>2. 1 \in 0..Word - 1
          BY <1>4
        <4>3. Count(1)
          BY <1>8, <3>2
        <4> QED BY <1>6, <4>1, <4>2, <4>3, CountUp
      <3> QED BY <1>3, <3>1, <3>2
    <2>8. j + 1 \in Nat /\ 0 \in 0..BlockSize - 1 /\ at' = "whole"
      BY <1>2, <1>8, Sizes
    <2> QED BY <1>2, <1>3, <2>1, <2>3, <2>4, <2>5, <2>6, <2>7, <2>8, CutAfter
  <1>9. CASE /\ Len(data) < BlockSize
             /\ buffer' = data /\ data' = <<>> /\ at' = "read"
             /\ UNCHANGED <<fed, low, high>>
    <2>1. L \in 0..BlockSize - 1 /\ 0 \in 0..ReadSize
      BY <1>4, <1>7, <1>9
    <2>2. Counted(j, L)' = Counted(j, B)
      BY <1>2, <1>9 DEF Counted, Steady
    <2>3. Counts(low', high', Counted(j, L)')
      BY <1>6, <1>9, <2>2
    <2>4. /\ fed' = Run(0, p) /\ buffer' = Run(p, L) /\ data' = Run(p + L, 0) /\ at' = "read"
          /\ read = p + L + 0
      BY <1>4, <1>5, <1>6, <1>9, RunOfNone
    <2> QED BY <1>2, <1>3, <2>1, <2>3, <2>4, CutAfter DEF p
  <1> QED BY <1>8, <1>9 DEF Whole

\* At the end of the file nothing is moved.
LEMMA ReadEndsHash ==
  ASSUME HashInv, ReadEnds
  PROVE  HashInv'
  <1>1. PICK j \in Nat, B \in 0..BlockSize - 1, L \in 0..ReadSize : Cut(j, B, L)
    BY DEF HashInv
  <1>2. /\ at = "read" /\ at' = "pad" /\ Steady
        /\ UNCHANGED <<data, buffer, low, high, fed>>
    BY DEF ReadEnds, Steady
  <1>3. ret # "SUCCESSED"
    BY <1>2 DEF HashInv, Scalars
  <1>4. /\ read = BlockSize * j + B + L /\ fed = Run(0, BlockSize * j)
        /\ buffer = Run(BlockSize * j, B) /\ data = Run(BlockSize * j + B, L) /\ L = 0
        /\ Counts(low, high, Counted(j, B))
    BY <1>1, <1>2, <1>3 DEF Cut
  <1>5. Counted(j, B)' = Counted(j, B)
    BY <1>2 DEF Counted, Steady
  <1>6. Counts(low', high', Counted(j, B)')
    BY <1>2, <1>4, <1>5
  <1>7. at' = "pad" /\ fed' = Run(0, BlockSize * j) /\ buffer' = Run(BlockSize * j, B)
        /\ data' = Run(BlockSize * j + B, L)
    BY <1>2, <1>4
  <1> QED BY <1>2, <1>3, <1>4, <1>6, <1>7, CutAfter

\* The length that the last block ends with, in bits.
LEMMA BitsHash ==
  ASSUME NEW j \in Nat, NEW B \in 0..BlockSize - 1, at = "pad",
         alg \in {"MD5", "SHA256"}, read = BlockSize * j + B, Len(buffer) = B,
         Counts(low, high, Counted(j, B))
  PROVE  LengthInBits = <<(8 * read) % Word, ((8 * read) \div Word) % Word>>
  <1>1. /\ BlockSize \in Nat \ {0} /\ Word \in Nat \ {0} /\ B \in Nat /\ read \in Nat
    BY WordOfBlocks
  <1>2. low \in 0..Word - 1 /\ high \in 0..Word - 1
    BY DEF Counts
  <1> DEFINE K == IF alg = "MD5" THEN 8 ELSE 8 * BlockSize
             T == Word \div K
             e == IF alg = "MD5" THEN 0 ELSE 8 * B
             c == Counted(j, B)
  <1>3. K \in Nat \ {0} /\ T \in Nat \ {0} /\ Word = K * T
    BY WordOfBlocks
  <1>4. e \in 0..K - 1 /\ 8 * read = K * c + e
    BY <1>1 DEF Counted
  <1>5. LengthInBits = <<((K * low) % Word) + e, ((K * high) % Word) + low \div T>>
    <2>1. CASE alg = "MD5"
      <3>1. (8 * low) % Word \in Int
        BY <1>1, <1>2
      <3> QED BY <2>1, <3>1 DEF LengthInBits
    <2>2. CASE alg = "SHA256"
      BY <2>2 DEF LengthInBits
    <2> QED BY <2>1, <2>2
  <1>6. PICK q \in Nat : c = low + Word * high + Word * (Word * q)
    BY DEF Counts
  <1> HIDE DEF K, T, e, c
  <1> DEFINE n == 8 * read
  <1>7. q \in Int /\ n = K * (low + Word * high + Word * (Word * q)) + e
    BY <1>4, <1>6
  <1> HIDE DEF n
  <1>8. /\ n % Word = ((K * low) % Word) + e
        /\ (n \div Word) % Word = ((K * high) % Word) + low \div T
    <2>1. LengthIs(K, T, Word, low, high, q, e, n)
      BY LengthWords
    <2> QED BY <1>2, <1>3, <1>4, <1>7, <2>1 DEF LengthIs
  <1> QED BY <1>5, <1>8 DEF n

\* The padding makes the message a padded one.
LEMMA PadHash ==
  ASSUME HashInv, Pad
  PROVE  HashInv'
  <1>1. PICK j \in Nat, B \in 0..BlockSize - 1, L \in 0..ReadSize : Cut(j, B, L)
    BY DEF HashInv
  <1> DEFINE p == BlockSize * j
             zeros == BlockSize - LengthSize - 1 - Len(buffer)
             z == IF Room THEN zeros ELSE zeros + BlockSize
  <1>2. /\ at = "pad" /\ at' = "done" /\ ret' = "SUCCESSED" /\ bits' = LengthInBits
        /\ UNCHANGED <<alg, size, read, data, buffer, low, high, stop>>
    BY DEF Pad
  <1>3. fed' = fed \o buffer \o <<Mark>> \o Zeros(z)
    BY DEF Pad
  <1>4. /\ ret # "SUCCESSED" /\ alg \in {"MD5", "SHA256"} /\ read \in 0..size
        /\ size \in 0..MaxSize
    BY <1>2, Sizes DEF HashInv, Scalars
  <1>5. BlockSize \in Nat /\ LengthSize \in 1..BlockSize - 1 /\ B \in Nat /\ p \in Nat
    BY Sizes
  <1>6. /\ buffer = Run(p, B) /\ fed = Run(0, p) /\ L = 0 /\ data = Run(p + B, L)
        /\ read = p + B /\ Counts(low, high, Counted(j, B))
    BY <1>1, <1>2, <1>4, <1>5 DEF Cut
  <1> HIDE DEF p
  <1>7. Len(buffer) = B
    BY <1>5, <1>6, RunType
  <1>8. z \in Nat /\ PaddedLength(read) = read + 1 + z
    <2>1. PaddedLength(read) = IF B < BlockSize - LengthSize
                               THEN p + BlockSize - LengthSize
                               ELSE p + BlockSize + BlockSize - LengthSize
      BY <1>6, PaddedLengthIs DEF p
    <2> QED BY <1>5, <1>6, <1>7, <2>1 DEF Room
  <1> HIDE DEF z
  <1>9. fed' = Padded(read)
    <2>1. Run(0, p) \o Run(p, B) = Run(0, read)
      <3>1. Run(0, p) \o Run(0 + p, B) = Run(0, p + B)
        BY <1>5, RunJoin
      <3>2. 0 + p = p
        BY <1>5
      <3> QED BY <1>6, <3>1, <3>2
    <2>2. Run(0, read) \o <<Mark>> \o Zeros(z) = Padded(read)
      <3> DEFINE S == (1..read) \cup {Mark, Zero}
      <3>1. 1..read \subseteq S /\ Mark \in S /\ Zero \in S /\ read \in Nat
        BY <1>5, <1>6
      <3> HIDE DEF S
      <3> QED BY <1>8, <3>1, PaddedIs
    <2> QED BY <1>3, <1>6, <2>1, <2>2
  <1>10. bits' = <<(8 * read) % Word, ((8 * read) \div Word) % Word>>
    <2>1. read = BlockSize * j + B
      BY <1>6 DEF p
    <2> QED BY <1>2, <1>4, <1>6, <1>7, <2>1, BitsHash
  <1>11. Scalars'
    BY <1>2, <1>10 DEF HashInv, Scalars
  <1>12. Counted(j, B)' = Counted(j, B)
    BY <1>2 DEF Counted
  <1>13. Cut(j, B, L)'
    <2>1. read' = BlockSize * j + B + L
      BY <1>1, <1>2 DEF Cut
    <2>2. fed' = IF ret' = "SUCCESSED" THEN Padded(read') ELSE Run(0, BlockSize * j)
      BY <1>2, <1>9
    <2>3. buffer' = Run(BlockSize * j, B) /\ data' = Run(BlockSize * j + B, L)
      BY <1>2, <1>6 DEF p
    <2>4. Counts(low', high', Counted(j, B)')
      BY <1>2, <1>6, <1>12
    <2> QED BY <1>2, <1>6, <2>1, <2>2, <2>3, <2>4 DEF Cut
  <1> QED BY <1>11, <1>13 DEF HashInv

\* A stop, the end and a stutter move nothing of the hash.
LEMMA IdleHash ==
  ASSUME HashInv, UNCHANGED <<alg, size, at, read, data, buffer, low, high, fed, bits, ret>>,
         stop' \in BOOLEAN
  PROVE  HashInv'
  <1>1. PICK j \in Nat, B \in 0..BlockSize - 1, L \in 0..ReadSize : Cut(j, B, L)
    BY DEF HashInv
  <1>2. Scalars'
    BY DEF HashInv, Scalars
  <1>3. Counted(j, B)' = Counted(j, B)
    BY DEF Counted
  <1>4. Cut(j, B, L)'
    BY <1>1, <1>3 DEF Cut
  <1> QED BY <1>2, <1>4 DEF HashInv

\* Every step keeps the invariant.
LEMMA NextHash == HashInv /\ [Next]_vars => HashInv'
  <1> SUFFICES ASSUME HashInv, [Next]_vars PROVE HashInv'
    OBVIOUS
  <1>1. ASSUME NEW n \in 1..ReadSize, read + n <= size, Read(n) PROVE HashInv'
    BY <1>1, ReadHash
  <1>2. CASE RequestStop
    <2>1. UNCHANGED <<alg, size, at, read, data, buffer, low, high, fed, bits, ret>>
      BY <1>2 DEF RequestStop
    <2>2. stop' \in BOOLEAN
      BY <1>2 DEF RequestStop
    <2> QED BY <2>1, <2>2, IdleHash
  <1>3. CASE UNCHANGED vars
    <2>1. UNCHANGED <<alg, size, at, read, data, buffer, low, high, fed, bits, ret>>
      BY <1>3 DEF vars
    <2>2. stop' \in BOOLEAN
      BY <1>3 DEF vars, HashInv, Scalars
    <2> QED BY <2>1, <2>2, IdleHash
  <1> QED BY <1>1, <1>2, <1>3, ReadEndsHash, FillHash, WholeHash, PadHash DEF Next, Done

(* The bytes read, their place and their count are right in every state,   *)
(* whatever the sizes of chunks and blocks, and wherever a stop comes.       *)
THEOREM HashInvariant == Spec => []HashInv
  BY InitHash, NextHash, PTL DEF Spec

(* The invariant is more than the types. *)
LEMMA HashTypes == HashInv => TypeOK
  <1> SUFFICES ASSUME HashInv PROVE TypeOK
    OBVIOUS
  <1>1. PICK j \in Nat, B \in 0..BlockSize - 1, L \in 0..ReadSize : Cut(j, B, L)
    BY DEF HashInv
  <1> DEFINE p == BlockSize * j
             S == (1..MaxSize) \cup {Mark, Zero}
  <1>2. p \in Nat /\ B \in Nat /\ L \in Nat /\ MaxSize \in Nat
    BY Sizes
  <1>3. read = p + B + L /\ read <= MaxSize /\ read \in Nat
    BY <1>1, Sizes DEF Cut, HashInv, Scalars
  <1>4. buffer = Run(p, B) /\ data = Run(p + B, L)
    BY <1>1 DEF Cut
  <1> HIDE DEF p
  <1>5. buffer \in Seq(1..MaxSize) /\ Len(buffer) < BlockSize
    <2>1. \A k \in 1..B : p + k \in 1..MaxSize
      BY <1>2, <1>3
    <2> QED BY <1>2, <1>4, <2>1, Sizes DEF Run
  <1>6. data \in Seq(1..MaxSize) /\ Len(data) <= ReadSize
    <2>1. \A k \in 1..L : (p + B) + k \in 1..MaxSize
      BY <1>2, <1>3
    <2> QED BY <1>2, <1>4, <2>1, Sizes DEF Run
  <1>7. fed \in Seq(S)
    <2>1. CASE ret = "SUCCESSED"
      <3>1. fed = Padded(read)
        BY <1>1, <2>1 DEF Cut
      <3> HIDE DEF p
      <3>2. PICK m \in Nat : PaddedLength(read) = m
        <4>1. read = BlockSize * j + (B + L)
          BY <1>2, <1>3 DEF p
        <4>2. L = 0
          BY <1>1, <2>1 DEF Cut, HashInv, Scalars
        <4>3. read = BlockSize * j + B
          BY <1>2, <4>1, <4>2
        <4>4. PaddedLength(read) = IF B < BlockSize - LengthSize
                                   THEN p + BlockSize - LengthSize
                                   ELSE p + BlockSize + BlockSize - LengthSize
          BY <4>3, PaddedLengthIs DEF p
        <4> QED BY <4>4, Sizes, <1>2
      <3>3. \A k \in 1..m : (IF k <= read THEN k ELSE IF k = read + 1 THEN Mark ELSE Zero) \in S
        BY <1>3, <1>2
      <3> HIDE DEF S
      <3>4. Padded(read) \in Seq(S)
        BY <3>2, <3>3 DEF Padded
      <3> QED BY <3>1, <3>4
    <2>2. CASE ret # "SUCCESSED"
      <3>1. fed = Run(0, p)
        BY <1>1, <2>2 DEF Cut, p
      <3>2. \A k \in 1..p : 0 + k \in S
        BY <1>2, <1>3
      <3> HIDE DEF S
      <3> QED BY <1>2, <3>1, <3>2 DEF Run
    <2> QED BY <2>1, <2>2
  <1>8. bits \in Seq(0..Word - 1)
    <2>1. CASE ret = "SUCCESSED"
      <3> DEFINE x == (8 * read) % Word
                 d == (8 * read) \div Word
                 y == d % Word
      <3>1. \A a \in Int : a \div Word \in Int /\ a % Word \in 0..Word - 1
        BY Sizes
      <3>2. 8 * read \in Int
        BY <1>3
      <3>3. x \in 0..Word - 1 /\ d \in Int
        BY <3>1, <3>2
      <3>4. y \in 0..Word - 1
        BY <3>1, <3>3
      <3> HIDE DEF d
      <3>5. bits = <<x, y>>
        BY <2>1 DEF HashInv, Scalars, d
      <3> HIDE DEF x, y
      <3> QED BY <3>3, <3>4, <3>5
    <2>2. CASE ret # "SUCCESSED"
      BY <2>2 DEF HashInv, Scalars
    <2> QED BY <2>1, <2>2
  <1>9. low \in 0..Word - 1 /\ high \in 0..Word - 1
    BY <1>1 DEF Cut, Counts
  <1> QED BY <1>5, <1>6, <1>7, <1>8, <1>9 DEF TypeOK, HashInv, Scalars

(* TypeOK for every file: what is kept is always less than a block, and no  *)
(* word overflows.                                                           *)
THEOREM FileHashTypeCorrect == Spec => []TypeOK
  BY HashInvariant, HashTypes, PTL

(* CalculateFileMd5 and CalculateFileSHA256 hash exactly what was read, for  *)
(* every size of file and all cuts into chunks, beyond one word of bits too.  *)
THEOREM HashOfWhatWasRead == Spec => []FedIsPadded
  <1>1. HashInv => FedIsPadded
    <2> SUFFICES ASSUME HashInv, ret = "SUCCESSED"
                 PROVE  /\ fed = Padded(read)
                        /\ bits = <<(8 * read) % Word, ((8 * read) \div Word) % Word>>
      BY DEF FedIsPadded
    <2>1. PICK j \in Nat, B \in 0..BlockSize - 1, L \in 0..ReadSize : Cut(j, B, L)
      BY DEF HashInv
    <2> QED BY <2>1 DEF Cut, HashInv, Scalars
  <1> QED BY <1>1, HashInvariant, PTL
===============================================================================
