--------------------------- MODULE Printfk_proofs ---------------------------
(***************************************************************************)
(* Proofs that vprintfk prints what its format and arguments say, on both  *)
(* devices and for every call, and that nothing is lost on the way.        *)
(***************************************************************************)
EXTENDS Printfk, SequenceTheorems, WellFoundedInduction, TLAPS

-----------------------------------------------------------------------------
(* Sequences.                                                              *)
LEMMA Joined ==
  ASSUME NEW S, NEW u \in Seq(S), NEW c \in Seq(S), NEW v, v = u \o c
  PROVE  /\ v \in Seq(S) /\ Len(u) \in Nat /\ Len(c) \in Nat /\ Len(v) = Len(u) + Len(c)
         /\ \A k \in 1 .. Len(u) : v[k] = u[k]
         /\ \A k \in 1 .. Len(c) : v[Len(u) + k] = c[k]
<1>1. /\ v \in Seq(S) /\ Len(v) = Len(u) + Len(c)
      /\ \A k \in 1 .. Len(u) + Len(c) : v[k] = IF k <= Len(u) THEN u[k] ELSE c[k - Len(u)]
  BY ConcatProperties
<1>2. Len(u) \in Nat /\ Len(c) \in Nat
  OBVIOUS
<1>3. ASSUME NEW k \in 1 .. Len(u) PROVE v[k] = u[k]
  BY <1>1, <1>2
<1>4. ASSUME NEW k \in 1 .. Len(c) PROVE v[Len(u) + k] = c[k]
  <2>1. /\ Len(u) + k \in 1 .. Len(u) + Len(c) /\ ~ (Len(u) + k <= Len(u))
        /\ (Len(u) + k) - Len(u) = k
    BY <1>2
  <2> QED BY <1>1, <2>1
<1> QED BY <1>1, <1>2, <1>3, <1>4

LEMMA InFront ==
  ASSUME NEW S, NEW x \in S, NEW c \in Seq(S)
  PROVE  /\ << x >> \o c \in Seq(S) /\ Len(<< x >> \o c) = Len(c) + 1
         /\ (<< x >> \o c)[1] = x
         /\ \A k \in 1 .. Len(c) : (<< x >> \o c)[1 + k] = c[k]
<1>1. PICK u : u = << x >>
  BY Zenon
<1>2. u \in Seq(S) /\ Len(u) = 1 /\ u[1] = x /\ 1 \in 1 .. 1
  BY <1>1
<1>3. PICK v : v = u \o c
  BY Zenon
<1>4. /\ v \in Seq(S) /\ Len(c) \in Nat /\ Len(v) = Len(u) + Len(c)
      /\ \A k \in 1 .. Len(u) : v[k] = u[k]
      /\ \A k \in 1 .. Len(c) : v[Len(u) + k] = c[k]
  <2>1. u \in Seq(S)
    BY <1>2
  <2> QED BY <1>3, <2>1, Joined
<1>5. Len(v) = Len(c) + 1
  BY <1>2, <1>4, SMTT(30)
<1> QED BY <1>1, <1>2, <1>3, <1>4, <1>5, Zenon

(* Joint, unfolded.                                                        *)
LEMMA JointUnfolds ==
  ASSUME NEW seqs, Len(seqs) \in Nat
  PROVE  /\ Joint(seqs)[0] = << >>
         /\ \A n \in 1 .. Len(seqs) : Joint(seqs)[n] = Joint(seqs)[n - 1] \o seqs[n]
<1> DEFINE Rec(g, n) == g = [k \in 0 .. n |-> IF k = 0 THEN << >> ELSE g[k - 1] \o seqs[k]]
<1> DEFINE Bad == {n \in Nat : ~ \E g : Rec(g, n)}
<1>1. ASSUME Bad # {} PROVE FALSE
  <2>1. PICK n \in Bad : \A m \in Nat : m < n => m \notin Bad
    <3>1. PICK n \in Bad : \A m \in Bad : ~ (<<m, n>> \in OpToRel(<, Nat))
      BY <1>1, NatLessThanWellFounded, WFMin, Zenon
    <3> QED BY <3>1, Zenon DEF OpToRel
  <2>2. n # 0
    <3>1. Rec([k \in {0} |-> << >>], 0)
      BY 0 .. 0 = {0}
    <3> QED BY <2>1, <3>1, Zenon
  <2>3. PICK g : Rec(g, n - 1)
    <3>1. n - 1 \in Nat /\ n - 1 < n
      BY <2>1, <2>2
    <3>2. n - 1 \notin Bad
      BY <2>1, <3>1, Zenon
    <3> QED BY <3>1, <3>2, Zenon
  <2> DEFINE h == [k \in 0 .. n |-> IF k = n THEN g[n - 1] \o seqs[n] ELSE g[k]]
  <2>4. Rec(h, n)
    <3>1. ASSUME NEW k \in 0 .. n PROVE h[k] = IF k = 0 THEN << >> ELSE h[k - 1] \o seqs[k]
      <4>1. n \in Nat /\ \A m \in 0 .. n - 1 : g[m] = IF m = 0 THEN << >> ELSE g[m - 1] \o seqs[m]
        BY <2>1, <2>3, Zenon
      <4>2. CASE k = n
        <5>1. n - 1 \in 0 .. n /\ n - 1 # n
          BY <2>2, <4>1
        <5> QED BY <2>2, <4>2, <5>1, Zenon
      <4>3. CASE k # n
        <5>1. k \in 0 .. n - 1 /\ (k # 0 => k - 1 \in 0 .. n /\ k - 1 # n)
          BY <4>1, <4>3
        <5> QED BY <4>1, <4>3, <5>1, Zenon
      <4> QED BY <4>2, <4>3
    <3> QED BY <3>1, Zenon
  <2> QED BY <2>1, <2>4, Zenon
<1>2. \E g : Rec(g, Len(seqs))
  BY <1>1, Zenon
<1> DEFINE g == CHOOSE g : Rec(g, Len(seqs))
<1>3. Rec(g, Len(seqs))
  BY <1>2, Zenon
<1>4. Joint(seqs) = g
  BY DEF Joint
<1> HIDE DEF g
<1> QED BY <1>3, <1>4

(* What is joined first is a prefix.                                       *)
Prefix(S, seqs, m) ==
  /\ Joint(seqs)[m] \in Seq(S)
  /\ \A n \in 0 .. m :
       /\ Joint(seqs)[n] \in Seq(S)
       /\ Len(Joint(seqs)[n]) <= Len(Joint(seqs)[m])
       /\ \A k \in 1 .. Len(Joint(seqs)[n]) : Joint(seqs)[m][k] = Joint(seqs)[n][k]

LEMMA PrefixGrows ==
  ASSUME NEW S, NEW seqs \in Seq(Seq(S)), NEW m \in 1 .. Len(seqs), Prefix(S, seqs, m - 1)
  PROVE  Prefix(S, seqs, m)
<1> DEFINE u == Joint(seqs)[m - 1]
           v == Joint(seqs)[m]
           c == seqs[m]
<1>1. Len(seqs) \in Nat /\ c \in Seq(S)
  BY ElementOfSeq
<1>2. u \in Seq(S) /\ v = u \o c
  BY <1>1, JointUnfolds, Zenon DEF Prefix
<1>3. /\ v \in Seq(S) /\ Len(v) = Len(u) + Len(c) /\ Len(u) \in Nat /\ Len(c) \in Nat
      /\ \A k \in 1 .. Len(u) : v[k] = u[k]
  <2> HIDE DEF u, v, c
  <2> QED BY <1>1, <1>2, Joined
<1>4. ASSUME NEW n \in 0 .. m
      PROVE  /\ Joint(seqs)[n] \in Seq(S)
             /\ Len(Joint(seqs)[n]) <= Len(v)
             /\ \A k \in 1 .. Len(Joint(seqs)[n]) : v[k] = Joint(seqs)[n][k]
  <2>1. CASE n = m
    <3>1. Joint(seqs)[n] = v
      BY <2>1
    <3> HIDE DEF u, v, c
    <3> QED BY <1>3, <3>1
  <2>2. CASE n # m
    <3>1. n \in 0 .. m - 1
      BY <1>1, <2>2
    <3>2. /\ Joint(seqs)[n] \in Seq(S) /\ Len(Joint(seqs)[n]) <= Len(u)
          /\ \A k \in 1 .. Len(Joint(seqs)[n]) : u[k] = Joint(seqs)[n][k]
      BY <3>1 DEF Prefix
    <3>3. Len(Joint(seqs)[n]) \in Nat
      BY <3>2
    <3> HIDE DEF u, v, c
    <3>4. Len(Joint(seqs)[n]) <= Len(v)
      BY <1>3, <3>2, <3>3
    <3>5. ASSUME NEW k \in 1 .. Len(Joint(seqs)[n]) PROVE v[k] = Joint(seqs)[n][k]
      <4>1. k \in 1 .. Len(u)
        BY <1>3, <3>2, <3>3
      <4> QED BY <1>3, <3>2, <4>1, Zenon
    <3> QED BY <3>2, <3>4, <3>5, Zenon
  <2> QED BY <2>1, <2>2
<1> QED BY <1>3, <1>4, Zenon DEF Prefix

LEMMA PrefixAlways ==
  ASSUME NEW S, NEW seqs \in Seq(Seq(S)), NEW m \in 0 .. Len(seqs)
  PROVE  Prefix(S, seqs, m)
<1> DEFINE Bad == {n \in Nat : n <= Len(seqs) /\ ~ Prefix(S, seqs, n)}
<1>1. Len(seqs) \in Nat
  OBVIOUS
<1>2. ASSUME Bad # {} PROVE FALSE
  <2>1. PICK n \in Bad : \A k \in Nat : k < n => k \notin Bad
    <3>1. PICK n \in Bad : \A k \in Bad : ~ (<<k, n>> \in OpToRel(<, Nat))
      BY <1>2, NatLessThanWellFounded, WFMin, Zenon
    <3> QED BY <3>1, Zenon DEF OpToRel
  <2>2. n # 0
    <3>1. Joint(seqs)[0] = << >>
      BY <1>1, JointUnfolds, Zenon
    <3>2. << >> \in Seq(S) /\ Len(<< >>) = 0 /\ 0 .. 0 = {0}
      OBVIOUS
    <3>3. \A k \in 0 .. 0 : Joint(seqs)[k] = << >>
      BY <3>1, <3>2
    <3>4. Prefix(S, seqs, 0)
      <4>1. 0 <= 0 /\ 1 .. 0 = {}
        OBVIOUS
      <4> QED BY <3>1, <3>2, <3>3, <4>1, Zenon DEF Prefix
    <3> QED BY <2>1, <3>4
  <2>3. n \in 1 .. Len(seqs) /\ n - 1 \in Nat /\ n - 1 < n /\ n - 1 <= Len(seqs)
    BY <1>1, <2>1, <2>2
  <2>4. Prefix(S, seqs, n - 1)
    <3>1. n - 1 \notin Bad
      BY <2>1, <2>3, Zenon
    <3> QED BY <2>3, <3>1, Zenon
  <2> QED BY <2>1, <2>3, <2>4, PrefixGrows
<1> HIDE DEF Prefix
<1> QED BY <1>1, <1>2

(* Where the parts lie in the whole.                                       *)
LaidOut(seqs, n) ==
  /\ Len(Joint(seqs)[n - 1]) \in Nat /\ Len(seqs[n]) \in Nat /\ Len(Concat(seqs)) \in Nat
  /\ Len(Joint(seqs)[n]) = Len(Joint(seqs)[n - 1]) + Len(seqs[n])
  /\ Len(Joint(seqs)[n]) <= Len(Concat(seqs))
  /\ \A k \in 1 .. Len(seqs[n]) : Concat(seqs)[Len(Joint(seqs)[n - 1]) + k] = seqs[n][k]

LEMMA Layout ==
  ASSUME NEW S, NEW seqs \in Seq(Seq(S)), NEW n \in 1 .. Len(seqs)
  PROVE  LaidOut(seqs, n)
<1> DEFINE u == Joint(seqs)[n - 1]
           v == Joint(seqs)[n]
           c == seqs[n]
           w == Concat(seqs)
<1>1. Len(seqs) \in Nat /\ c \in Seq(S) /\ n - 1 \in 0 .. Len(seqs) /\ n \in 0 .. Len(seqs)
  BY ElementOfSeq
<1>2. v = u \o c /\ u \in Seq(S) /\ w = Joint(seqs)[Len(seqs)]
  BY <1>1, JointUnfolds, PrefixAlways, Zenon DEF Prefix, Concat
<1>3. /\ v \in Seq(S) /\ w \in Seq(S) /\ Len(v) <= Len(w)
      /\ \A k \in 1 .. Len(v) : w[k] = v[k]
  <2>1. Prefix(S, seqs, Len(seqs)) /\ Prefix(S, seqs, n)
    BY <1>1, PrefixAlways
  <2> QED BY <1>1, <1>2, <2>1, Zenon DEF Prefix
<1> HIDE DEF u, v, c, w
<1>4. Len(u) \in Nat /\ Len(c) \in Nat /\ Len(v) = Len(u) + Len(c)
      /\ \A k \in 1 .. Len(c) : v[Len(u) + k] = c[k]
  BY <1>1, <1>2, Joined, SMTT(30)
<1>5. ASSUME NEW k \in 1 .. Len(c) PROVE w[Len(u) + k] = c[k]
  <2>1. Len(u) + k \in 1 .. Len(v)
    BY <1>4
  <2> QED BY <1>3, <1>4, <2>1, SMTT(30)
<1>6. Len(w) \in Nat
  BY <1>3
<1> QED BY <1>1, <1>2, <1>3, <1>4, <1>5, <1>6, Zenon DEF u, v, c, w, LaidOut

-----------------------------------------------------------------------------
(* Digits.                                                                 *)
LEMMA DigitsUnfold ==
  ASSUME NEW base \in {10, 16}, NEW n \in Nat
  PROVE  \E g : /\ \A m \in 0 .. n :
                     g[m] = << Digit(Rem(m, base)) >> \o (IF m >= base THEN g[m \div base] ELSE << >>)
                /\ LowDigits(n, base) = g[n]
<1> DEFINE One(m) == << Digit(Rem(m, base)) >>
           Rec(g, D) == g = [m \in D |-> One(m) \o (IF m >= base THEN g[m \div base] ELSE << >>)]
           Bad == {k \in Nat : ~ \E g : Rec(g, 0 .. k)}
<1>1. \A m \in Nat : m >= base => m \div base \in Nat /\ m \div base < m
  OBVIOUS
<1>2. ASSUME Bad # {} PROVE FALSE
  <2>1. PICK k \in Bad : \A m \in Nat : m < k => m \notin Bad
    <3>1. PICK k \in Bad : \A m \in Bad : ~ (<<m, k>> \in OpToRel(<, Nat))
      BY <1>2, NatLessThanWellFounded, WFMin, Zenon
    <3> QED BY <3>1, Zenon DEF OpToRel
  <2>2. k # 0
    <3> DEFINE h == [m \in 0 .. 0 |-> One(m) \o << >>]
    <3>1. \A m \in 0 .. 0 : ~ (m >= base)
      OBVIOUS
    <3>2. Rec(h, 0 .. 0)
      BY <3>1, Zenon
    <3> HIDE DEF Rec
    <3> QED BY <2>1, <3>2, ZenonT(40)
  <2>3. PICK g : Rec(g, 0 .. k - 1)
    <3>1. k - 1 \in Nat /\ k - 1 < k
      BY <2>1, <2>2
    <3>2. k - 1 \notin Bad
      BY <2>1, <3>1, Zenon
    <3> QED BY <3>1, <3>2, Zenon
  <2> DEFINE new == One(k) \o (IF k >= base THEN g[k \div base] ELSE << >>)
             h   == [m \in 0 .. k |-> IF m = k THEN new ELSE g[m]]
  <2>4. ASSUME NEW m \in 0 .. k, m >= base PROVE h[m \div base] = g[m \div base]
    <3>1. m \div base \in 0 .. k /\ m \div base # k
      <4>1. m \in Nat /\ m <= k /\ k \in Nat
        BY <2>1
      <4>2. m \div base \in Nat /\ m \div base < m
        BY <1>1, <2>4, <4>1
      <4>3. PICK q \in Nat : q = m \div base
        BY <4>2
      <4> QED BY <4>1, <4>2, <4>3
    <3> QED BY <3>1, Zenon
  <2>5. ASSUME NEW m \in 0 .. k
        PROVE  h[m] = One(m) \o (IF m >= base THEN h[m \div base] ELSE << >>)
    <3>1. CASE m = k
      BY <2>4, <3>1, Zenon
    <3>2. CASE m # k
      <4>1. m \in 0 .. k - 1
        BY <2>1, <3>2
      <4>2. g[m] = One(m) \o (IF m >= base THEN g[m \div base] ELSE << >>)
        BY <2>3, <4>1, Zenon
      <4> QED BY <2>4, <3>2, <4>2, Zenon
    <3> QED BY <3>1, <3>2, Zenon
  <2>6. Rec(h, 0 .. k)
    <3>1. h = [m \in 0 .. k |-> h[m]]
      OBVIOUS
    <3> HIDE DEF h
    <3> QED BY <2>5, <3>1, Zenon
  <2> HIDE DEF Rec
  <2> QED BY <2>1, <2>6
<1>3. {n} \cup 0 .. n = 0 .. n
  OBVIOUS
<1>4. \E g : Rec(g, {n} \cup 0 .. n)
  <2> HIDE DEF Rec
  <2>1. \E g : Rec(g, 0 .. n)
    BY <1>2
  <2> QED BY <1>3, <2>1, Zenon
<1> DEFINE g == CHOOSE g : Rec(g, {n} \cup 0 .. n)
<1>5. Rec(g, {n} \cup 0 .. n)
  <2> HIDE DEF Rec
  <2> QED BY <1>4
<1>6. LowDigits(n, base) = g[n]
  BY DEF LowDigits
<1> HIDE DEF g
<1>7. \A m \in 0 .. n : g[m] = One(m) \o (IF m >= base THEN g[m \div base] ELSE << >>)
  BY <1>3, <1>5, Zenon
<1> WITNESS g
<1> QED BY <1>6, <1>7, Zenon

LEMMA NegativeDigit ==
  ASSUME NEW base \in {10, 16}, NEW n \in Int, n < 0
  PROVE  /\ LowDigits(n, base) = << Digit(Rem(n, base)) >> \o << >>
         /\ Digit(Rem(n, base)) \in Int
<1> DEFINE Rec(g) ==
      g = [m \in {n} \cup 0 .. n |->
             << Digit(Rem(m, base)) >> \o (IF m >= base THEN g[m \div base] ELSE << >>)]
<1>1. {n} \cup 0 .. n = {n} /\ ~ (n >= base)
  OBVIOUS
<1> DEFINE h == [m \in {n} |-> << Digit(Rem(m, base)) >> \o << >>]
<1>2. Rec(h)
  BY <1>1, Zenon
<1> DEFINE g == CHOOSE g : Rec(g)
<1>3. Rec(g)
  <2> HIDE DEF Rec
  <2> QED BY <1>2
<1>4. LowDigits(n, base) = g[n]
  BY DEF LowDigits
<1> HIDE DEF g
<1>5. g[n] = << Digit(Rem(n, base)) >> \o << >>
  BY <1>1, <1>3, Zenon
<1>6. Rem(n, base) \in Int
  BY DEF Rem
<1>7. Digit(Rem(n, base)) \in Int
  BY <1>6 DEF Digit, Zero
<1> QED BY <1>4, <1>5, <1>7

(* The quotient is the only one.                                           *)
LEMMA DivUnique ==
  ASSUME NEW m \in Nat, NEW c \in Nat \ {0}, NEW t \in Nat, NEW e \in Nat, m = c * t + e, e < c
  PROVE  m \div c = t
<1>1. PICK u \in Int, f \in 0 .. c - 1 : u = m \div c /\ m = c * u + f
  <2>1. m \div c \in Int /\ m % c \in 0 .. c - 1 /\ m = c * (m \div c) + (m % c)
    OBVIOUS
  <2> QED BY <2>1, Zenon
<1>2. u < t => FALSE
  <2> SUFFICES ASSUME u + 1 <= t PROVE FALSE
    BY <1>1
  <2>1. c * (u + 1) <= c * t
    BY <1>1
  <2>2. c * (u + 1) = c * u + c
    BY <1>1
  <2>3. PICK x \in Int, y \in Int : x = c * u /\ y = c * t
    BY <1>1
  <2> QED BY <1>1, <2>1, <2>2, <2>3
<1>3. t < u => FALSE
  <2> SUFFICES ASSUME t + 1 <= u PROVE FALSE
    BY <1>1
  <2>1. c * (t + 1) <= c * u
    BY <1>1
  <2>2. c * (t + 1) = c * t + c
    OBVIOUS
  <2>3. PICK x \in Int, y \in Int : x = c * u /\ y = c * t
    BY <1>1
  <2> QED BY <1>1, <2>1, <2>2, <2>3
<1> QED BY <1>1, <1>2, <1>3

(* Two divisions are one by the product.                                   *)
LEMMA DivTwice ==
  ASSUME NEW m \in Nat, NEW b \in Nat \ {0}, NEW p \in Nat \ {0}
  PROVE  (m \div b) \div p = m \div (b * p)
<1>1. PICK q \in Nat, r \in 0 .. b - 1 : q = m \div b /\ m = b * q + r
  <2>1. m \div b \in Nat /\ m % b \in 0 .. b - 1 /\ m = b * (m \div b) + (m % b)
    OBVIOUS
  <2> QED BY <2>1, Zenon
<1>2. PICK t \in Nat, s \in 0 .. p - 1 : t = q \div p /\ q = p * t + s
  <2>1. q \div p \in Nat /\ q % p \in 0 .. p - 1 /\ q = p * (q \div p) + (q % p)
    OBVIOUS
  <2> QED BY <2>1, Zenon
<1>3. b * q = b * (p * t) + b * s
  <2>1. p * t \in Nat /\ s \in Nat
    OBVIOUS
  <2>2. b * (p * t + s) = b * (p * t) + b * s
    <3>1. PICK x \in Nat : x = p * t
      BY <2>1
    <3>2. b * (x + s) = b * x + b * s
      BY <2>1
    <3> QED BY <3>1, <3>2, Zenon
  <2> QED BY <1>2, <2>2, Zenon
<1>4. b * (p * t) = (b * p) * t
  OBVIOUS
<1>5. b * s + b <= b * p
  <2>1. s + 1 <= p
    OBVIOUS
  <2>2. b * (s + 1) <= b * p
    BY <2>1
  <2>3. b * (s + 1) = b * s + b
    OBVIOUS
  <2> QED BY <2>2, <2>3
<1>6. PICK c \in Nat \ {0}, x \in Nat, y \in Nat : c = b * p /\ x = b * s /\ y = (b * p) * t
  <2>1. b * p \in Nat \ {0} /\ b * s \in Nat /\ (b * p) * t \in Nat
    <3>1. b * p \in Nat \ {0} /\ b * s \in Nat
      OBVIOUS
    <3>2. PICK c \in Nat : c = b * p
      BY <3>1
    <3>3. c * t \in Nat
      OBVIOUS
    <3> QED BY <3>1, <3>2, <3>3
  <2> QED BY <2>1, Zenon
<1>7. m = y + (x + r) /\ x + r \in Nat /\ x + r < c
  <2>1. b * q = y + x /\ x + b <= c
    BY <1>3, <1>4, <1>5, <1>6
  <2>2. PICK z \in Nat : z = b * q
    OBVIOUS
  <2>3. m = z + r /\ z = y + x
    BY <1>1, <2>1, <2>2
  <2> QED BY <2>1, <2>3
<1>8. y = c * t
  BY <1>6
<1>9. m \div c = t
  <2>1. m = c * t + (x + r)
    BY <1>7, <1>8, Zenon
  <2> QED BY <1>7, <2>1, DivUnique
<1> QED BY <1>1, <1>2, <1>6, <1>9, Zenon

(* Powers.                                                                 *)
LEMMA PowerType ==
  ASSUME NEW base \in {10, 16}, NEW d \in 0 .. S_VAL
  PROVE  base^d \in Nat \ {0}
<1> DEFINE Bad == {k \in Nat : k <= S_VAL /\ base^k \notin Nat \ {0}}
<1>1. S_VAL \in Nat
  BY BufferAssumption
<1>2. ASSUME Bad # {} PROVE FALSE
  <2>1. PICK k \in Bad : \A m \in Nat : m < k => m \notin Bad
    <3>1. PICK k \in Bad : \A m \in Bad : ~ (<<m, k>> \in OpToRel(<, Nat))
      BY <1>2, NatLessThanWellFounded, WFMin, Zenon
    <3> QED BY <3>1, Zenon DEF OpToRel
  <2>2. k \in Nat /\ k <= S_VAL /\ base^k \notin Nat \ {0}
    BY <2>1
  <2>3. k # 0
    <3>1. 10^0 = 1 /\ 16^0 = 1 /\ 1 \in Nat \ {0}
      OBVIOUS
    <3>2. base^0 \in Nat \ {0}
      BY <3>1, Zenon
    <3> QED BY <2>2, <3>2, Zenon
  <2>4. k - 1 \in Nat /\ k - 1 < k /\ k - 1 <= S_VAL /\ k \in 1 .. S_VAL
    BY <1>1, <2>2, <2>3
  <2>5. k - 1 \notin Bad
    BY <2>1, <2>4, Zenon
  <2>6. base^(k - 1) \in Nat \ {0}
    BY <2>4, <2>5, Zenon
  <2>7. base^k = base * base^(k - 1)
    BY <2>4, PowerAssumption
  <2>8. PICK x \in Nat \ {0} : x = base^(k - 1)
    BY <2>6, Zenon
  <2>9. base * x \in Nat \ {0}
    OBVIOUS
  <2>10. base^k = base * x
    BY <2>7, <2>8, Zenon
  <2> QED BY <2>2, <2>9, <2>10, Zenon
<1>3. d \in Nat /\ d <= S_VAL
  BY <1>1
<1> QED BY <1>2, <1>3, Zenon

LEMMA PowerStep ==
  ASSUME NEW base \in {10, 16}, NEW d \in 1 .. S_VAL
  PROVE  /\ base^(d - 1) \in Nat \ {0} /\ base^d \in Nat \ {0}
         /\ base^d = base * base^(d - 1) /\ base^(d - 1) < base^d
<1>1. S_VAL \in Nat
  BY BufferAssumption
<1>2. d - 1 \in 0 .. S_VAL /\ d \in 0 .. S_VAL
  BY <1>1
<1>3. base^(d - 1) \in Nat \ {0} /\ base^d \in Nat \ {0}
  BY <1>2, PowerType
<1>4. base^d = base * base^(d - 1)
  BY PowerAssumption
<1>5. PICK x \in Nat \ {0} : x = base^(d - 1)
  BY <1>3, Zenon
<1>6. x < base * x
  OBVIOUS
<1>7. base^(d - 1) < base^d
  BY <1>4, <1>5, <1>6, Zenon
<1> QED BY <1>3, <1>4, <1>7

LEMMA PowerGrows ==
  ASSUME NEW base \in {10, 16}, NEW d \in 0 .. S_VAL, NEW e \in 0 .. d
  PROVE  base^e <= base^d
<1> DEFINE Bad == {k \in Nat : e <= k /\ k <= S_VAL /\ ~ (base^e <= base^k)}
<1>1. S_VAL \in Nat /\ d \in Nat /\ e \in Nat
  BY BufferAssumption
<1>2. ASSUME Bad # {} PROVE FALSE
  <2>1. PICK k \in Bad : \A m \in Nat : m < k => m \notin Bad
    <3>1. PICK k \in Bad : \A m \in Bad : ~ (<<m, k>> \in OpToRel(<, Nat))
      BY <1>2, NatLessThanWellFounded, WFMin, Zenon
    <3> QED BY <3>1, Zenon DEF OpToRel
  <2>2. k \in Nat /\ e <= k /\ k <= S_VAL /\ ~ (base^e <= base^k)
    BY <2>1
  <2>3. e \in 0 .. S_VAL
    BY <1>1, <2>2
  <2>4. base^e \in Nat
    BY <2>3, PowerType
  <2>5. k # e
    <3>1. PICK x \in Nat : x = base^e
      BY <2>4, Zenon
    <3>2. x <= x
      OBVIOUS
    <3> QED BY <2>2, <3>1, <3>2, Zenon
  <2>6. k - 1 \in Nat /\ k - 1 < k /\ k - 1 <= S_VAL /\ e <= k - 1 /\ k \in 1 .. S_VAL
    BY <1>1, <2>2, <2>5
  <2>7. k - 1 \notin Bad
    BY <2>1, <2>6, Zenon
  <2>8. base^e <= base^(k - 1)
    BY <2>6, <2>7, Zenon
  <2>9. base^(k - 1) < base^k /\ base^(k - 1) \in Nat /\ base^k \in Nat
    BY <2>6, PowerStep
  <2>10. PICK x \in Nat, y \in Nat, z \in Nat : x = base^e /\ y = base^(k - 1) /\ z = base^k
    BY <2>4, <2>9, Zenon
  <2>11. x <= y /\ y < z => x <= z
    OBVIOUS
  <2> QED BY <2>2, <2>8, <2>9, <2>10, <2>11, Zenon
<1>3. e <= d /\ d <= S_VAL
  BY <1>1
<1> QED BY <1>1, <1>2, <1>3, Zenon

(* D are the digits of m, the least significant first, and no more than    *)
(* are needed.                                                             *)
Spelled(D, m, base) ==
  /\ D \in Seq(Int) /\ Len(D) >= 1
  /\ m < base^Len(D)
  /\ Len(D) > 1 => m >= base^(Len(D) - 1)
  /\ \A k \in 1 .. Len(D) : D[k] = Digit((m \div base^(k - 1)) % base)

LEMMA DigitType ==
  ASSUME NEW base \in {10, 16}, NEW m \in Nat
  PROVE  Rem(m, base) = m % base /\ Digit(m % base) \in Int
<1>1. m % base \in Int /\ Rem(m, base) = m % base
  BY DEF Rem
<1>2. PICK r \in Int : r = m % base
  BY <1>1
<1>3. Digit(r) \in Int
  BY DEF Digit, Zero
<1> QED BY <1>1, <1>2, <1>3, Zenon

(* A number with one digit.                                                *)
LEMMA SpelledOne ==
  ASSUME NEW base \in {10, 16}, NEW m \in Nat, m < base
  PROVE  /\ Spelled(<< Digit(m % base) >> \o << >>, m, base)
         /\ Len(<< Digit(m % base) >> \o << >>) = 1
<1> DEFINE D == << Digit(m % base) >> \o << >>
<1>1. Digit(m % base) \in Int
  BY DigitType, Zenon
<1>2. PICK x \in Int : x = Digit(m % base)
  BY <1>1
<1>3. D = << x >>
  <2>1. << x >> \in Seq(Int)
    OBVIOUS
  <2>2. << x >> \o << >> = << x >>
    BY <2>1, ConcatEmptySeq
  <2> QED BY <1>2, <2>2, Zenon
<1>4. D \in Seq(Int) /\ Len(D) = 1 /\ D[1] = x
  BY <1>3
<1>5. 10^0 = 1 /\ 16^0 = 1 /\ 10^1 = 10 /\ 16^1 = 16 /\ 1 - 1 = 0 /\ 1 >= 1 /\ ~ (1 > 1) /\ 1 .. 1 = {1}
  OBVIOUS
<1>6. base^0 = 1 /\ base^1 = base
  BY <1>5, Zenon
<1>7. m \div 1 = m
  OBVIOUS
<1>8. \A k \in 1 .. Len(D) : D[k] = Digit((m \div base^(k - 1)) % base)
  BY <1>2, <1>4, <1>5, <1>6, <1>7, Zenon
<1>9. m < base^Len(D) /\ Len(D) >= 1 /\ ~ (Len(D) > 1)
  BY <1>4, <1>5, <1>6, Zenon
<1> HIDE DEF D
<1>10. Spelled(D, m, base)
  BY <1>4, <1>8, <1>9, Zenon DEF Spelled
<1> QED BY <1>4, <1>10 DEF D

(* One digit more.                                                         *)
LEMMA SpelledMore ==
  ASSUME NEW base \in {10, 16}, NEW m \in Nat, m >= base,
         NEW D, Spelled(D, m \div base, base), Len(D) < S_VAL
  PROVE  /\ Spelled(<< Digit(m % base) >> \o D, m, base)
         /\ Len(<< Digit(m % base) >> \o D) = Len(D) + 1
<1> DEFINE E == << Digit(m % base) >> \o D
           L == Len(D)
<1>1. PICK q \in Nat, r \in 0 .. base - 1 : q = m \div base /\ r = m % base /\ m = base * q + r
  <2>1. m \div base \in Nat /\ m % base \in 0 .. base - 1 /\ m = base * (m \div base) + (m % base)
    OBVIOUS
  <2> QED BY <2>1, Zenon
<1>2. /\ D \in Seq(Int) /\ L >= 1 /\ q < base^L /\ (L > 1 => q >= base^(L - 1))
      /\ \A k \in 1 .. L : D[k] = Digit((q \div base^(k - 1)) % base)
  BY <1>1, Zenon DEF Spelled
<1>3. L \in Nat /\ S_VAL \in Nat /\ L + 1 \in 1 .. S_VAL /\ L \in 1 .. S_VAL /\ (L + 1) - 1 = L
  BY <1>2, BufferAssumption
<1>4. PICK x \in Int : x = Digit(m % base)
  BY DigitType, Zenon
<1>5. /\ E \in Seq(Int) /\ Len(E) = L + 1 /\ E[1] = x
      /\ \A k \in 1 .. L : E[1 + k] = D[k]
  <2>1. D \in Seq(Int)
    BY <1>2
  <2>2. /\ << x >> \o D \in Seq(Int) /\ Len(<< x >> \o D) = Len(D) + 1
        /\ (<< x >> \o D)[1] = x
        /\ \A k \in 1 .. Len(D) : (<< x >> \o D)[1 + k] = D[k]
    BY ONLY <2>1, x \in Int, InFront
  <2> QED BY <1>4, <2>2, Zenon
<1> HIDE DEF E, L
<1>6. /\ base^(L + 1) = base * base^L /\ base^L = base * base^(L - 1)
      /\ base^L \in Nat \ {0} /\ base^(L - 1) \in Nat \ {0}
  BY <1>3, PowerStep
<1>7. PICK y \in Nat, z \in Nat : y = base^L /\ z = base^(L - 1)
  BY <1>6, Zenon
<1>8. m < base^(L + 1)
  <2>1. q + 1 <= y
    BY <1>2, <1>7
  <2>2. base * (q + 1) <= base * y
    BY <2>1
  <2>3. m < base * y
    BY <1>1, <2>2
  <2> QED BY <1>6, <1>7, <2>3, Zenon
<1>9. m >= base^L
  <2>1. CASE L = 1
    <3>1. 10^1 = 10 /\ 16^1 = 16
      OBVIOUS
    <3>2. base^1 = base
      BY <3>1, Zenon
    <3> QED BY <2>1, <3>2, Zenon
  <2>2. CASE L > 1
    <3>1. q >= z
      BY <1>2, <1>7, <2>2
    <3>2. base * q >= base * z
      BY <3>1
    <3>3. m >= base * z
      BY <1>1, <3>2
    <3> QED BY <1>6, <1>7, <3>3, Zenon
  <2> QED BY <1>2, <1>3, <2>1, <2>2
<1>10. ASSUME NEW k \in 1 .. L + 1 PROVE E[k] = Digit((m \div base^(k - 1)) % base)
  <2>1. CASE k = 1
    <3>1. 10^0 = 1 /\ 16^0 = 1 /\ 1 - 1 = 0 /\ m \div 1 = m
      OBVIOUS
    <3>2. base^0 = 1
      BY <3>1, Zenon
    <3> QED BY <1>4, <1>5, <2>1, <3>1, <3>2, Zenon
  <2>2. CASE k # 1
    <3>1. PICK j \in 1 .. L : k = 1 + j
      <4>1. k - 1 \in 1 .. L /\ k = 1 + (k - 1)
        BY <1>3, <2>2
      <4> QED BY <4>1, Zenon
    <3>2. j \in 1 .. S_VAL /\ k - 1 = j
      BY <1>3, <3>1
    <3>3. base^j = base * base^(j - 1) /\ base^(j - 1) \in Nat \ {0}
      BY <3>2, PowerStep
    <3>4. PICK p \in Nat \ {0} : p = base^(j - 1)
      BY <3>3, Zenon
    <3>5. q \div p = m \div (base * p)
      <4>1. base \in Nat \ {0}
        OBVIOUS
      <4>2. (m \div base) \div p = m \div (base * p)
        BY <4>1, DivTwice, Zenon
      <4> QED BY <1>1, <4>2, Zenon
    <3>6. E[k] = Digit((q \div p) % base)
      BY <1>2, <1>5, <3>1, <3>4, Zenon
    <3> QED BY <3>2, <3>3, <3>4, <3>5, <3>6, Zenon
  <2> QED BY <2>1, <2>2
<1>11. Spelled(E, m, base)
  <2>1. L + 1 >= 1
    BY <1>3
  <2> QED BY <1>3, <1>5, <1>8, <1>9, <1>10, <2>1, Zenon DEF Spelled
<1> QED BY <1>5, <1>11 DEF E, L

(* The loop of itoa and ulltoa finds the digits.                           *)
LEMMA DigitsSpell ==
  ASSUME NEW base \in {10, 16}, NEW n \in Nat, NEW d \in 1 .. S_VAL, n < base^d
  PROVE  Spelled(LowDigits(n, base), n, base) /\ Len(LowDigits(n, base)) <= d
<1>1. PICK g : /\ \A m \in 0 .. n :
                    g[m] = << Digit(Rem(m, base)) >> \o (IF m >= base THEN g[m \div base] ELSE << >>)
               /\ LowDigits(n, base) = g[n]
  BY DigitsUnfold, Zenon
<1>2. \A m \in 0 .. n : Rem(m, base) = m % base
  <2>1. \A m \in 0 .. n : m \in Nat
    OBVIOUS
  <2> QED BY <2>1, DigitType
<1> DEFINE Right(m, k) == Spelled(g[m], m, base) /\ Len(g[m]) <= k
           All(k) == \A m \in 0 .. n : m < base^k => Right(m, k)
           Bad == {k \in Nat : k \in 1 .. S_VAL /\ ~ All(k)}
<1>3. S_VAL \in Nat
  BY BufferAssumption
<1>4. ASSUME NEW m \in 0 .. n, m < base, NEW k \in 1 .. S_VAL PROVE Right(m, k)
  <2>1. ~ (m >= base) /\ m \in Nat /\ 1 <= k
    BY <1>3, <1>4
  <2>2. g[m] = << Digit(m % base) >> \o << >>
    BY <1>1, <1>2, <2>1, Zenon
  <2>3. /\ Spelled(<< Digit(m % base) >> \o << >>, m, base)
        /\ Len(<< Digit(m % base) >> \o << >>) = 1
    BY <1>4, <2>1, SpelledOne, Zenon
  <2> QED BY <2>1, <2>2, <2>3, Zenon
<1>5. ASSUME Bad # {} PROVE FALSE
  <2> HIDE DEF Right
  <2>1. PICK k \in Bad : \A j \in Nat : j < k => j \notin Bad
    <3>1. PICK k \in Bad : \A j \in Bad : ~ (<<j, k>> \in OpToRel(<, Nat))
      BY <1>5, NatLessThanWellFounded, WFMin, Zenon
    <3> QED BY <3>1, Zenon DEF OpToRel
  <2>2. PICK m \in 0 .. n : m < base^k /\ ~ Right(m, k)
    BY <2>1, Zenon
  <2>3. k \in 1 .. S_VAL
    BY <2>1
  <2>4. m \in Nat /\ m >= base
    <3>1. ~ (m < base)
      BY <1>4, <2>2, <2>3, Zenon
    <3> QED BY <3>1
  <2>5. PICK q \in 0 .. n : q = m \div base
    <3>1. m \div base \in 0 .. n
      <4>1. m \div base \in Nat /\ m \div base < m
        BY <2>4
      <4>2. PICK q \in Nat : q = m \div base
        BY <4>1
      <4> QED BY <4>1, <4>2
    <3> QED BY <3>1, Zenon
  <2>6. k # 1
    <3>1. 10^1 = 10 /\ 16^1 = 16
      OBVIOUS
    <3>2. base^1 = base
      BY <3>1, Zenon
    <3>3. ~ (m < base)
      BY <2>4
    <3> QED BY <2>2, <3>2, <3>3, Zenon
  <2>7. k - 1 \in Nat /\ k - 1 < k /\ k - 1 \in 1 .. S_VAL /\ k - 1 < S_VAL /\ k \in Nat
    BY <1>3, <2>3, <2>6
  <2>8. q < base^(k - 1)
    <3>1. base^k = base * base^(k - 1) /\ base^(k - 1) \in Nat
      BY <2>3, PowerStep
    <3>2. PICK y \in Nat : y = base^(k - 1)
      BY <3>1, Zenon
    <3>3. m < base * y
      BY <2>2, <3>1, <3>2, Zenon
    <3>4. m \div base < y
      BY <2>4, <3>3
    <3> QED BY <2>5, <3>2, <3>4, Zenon
  <2>9. Right(q, k - 1)
    <3>1. k - 1 \notin Bad
      BY <2>1, <2>7, Zenon
    <3>2. All(k - 1)
      BY <2>7, <3>1, Zenon
    <3> QED BY <2>8, <3>2, Zenon
  <2>10. Spelled(g[q], m \div base, base) /\ Len(g[q]) \in Nat /\ Len(g[q]) <= k - 1
    <3>1. Spelled(g[q], q, base) /\ Len(g[q]) <= k - 1
      BY <2>9 DEF Right
    <3>2. g[q] \in Seq(Int)
      BY <3>1 DEF Spelled
    <3>3. Len(g[q]) \in Nat
      BY <3>2
    <3> QED BY <2>5, <3>1, <3>3, Zenon
  <2>11. Len(g[q]) < S_VAL /\ Len(g[q]) + 1 <= k
    BY <1>3, <2>7, <2>10
  <2>12. /\ Spelled(<< Digit(m % base) >> \o g[q], m, base)
         /\ Len(<< Digit(m % base) >> \o g[q]) = Len(g[q]) + 1
    BY <2>4, <2>10, <2>11, SpelledMore, ZenonT(40)
  <2>13. g[m] = << Digit(m % base) >> \o g[q]
    BY <1>1, <1>2, <2>4, <2>5, Zenon
  <2>14. Right(m, k)
    BY <2>11, <2>12, <2>13, Zenon DEF Right
  <2> QED BY <2>2, <2>14
<1> HIDE DEF Right
<1>6. All(d)
  <2>1. d \in Nat
    BY <1>3
  <2> QED BY <1>5, <2>1, Zenon
<1>7. Right(n, d)
  <2>1. n \in 0 .. n
    OBVIOUS
  <2> QED BY <1>6, <2>1, Zenon
<1> QED BY <1>1, <1>7, Zenon DEF Right

(* The numeral has as many digits as it needs.                             *)
LEMMA NumeralLength ==
  ASSUME NEW base \in {10, 16}, NEW n \in Nat, NEW d \in 1 .. S_VAL, NEW e \in 1 .. S_VAL,
         n < base^d, d > 1 => n >= base^(d - 1), n < base^e, e > 1 => n >= base^(e - 1)
  PROVE  ~ (d < e)
<1> SUFFICES ASSUME d < e PROVE FALSE
  OBVIOUS
<1>1. S_VAL \in Nat
  BY BufferAssumption
<1>2. e > 1 /\ e - 1 \in 0 .. S_VAL /\ d \in 0 .. e - 1 /\ d \in 0 .. S_VAL
  BY <1>1
<1>3. base^d <= base^(e - 1) /\ base^d \in Nat /\ base^(e - 1) \in Nat
  BY <1>2, PowerGrows, PowerType
<1>4. PICK x \in Nat, y \in Nat : x = base^d /\ y = base^(e - 1)
  BY <1>3, Zenon
<1>5. n < x /\ n >= y /\ x <= y
  BY <1>2, <1>3, <1>4, Zenon
<1> QED BY <1>5

LEMMA Reversed ==
  ASSUME NEW S, NEW D \in Seq(S)
  PROVE  /\ strrev(D) \in Seq(S) /\ Len(strrev(D)) = Len(D)
         /\ \A k \in 1 .. Len(D) : strrev(D)[k] = D[(Len(D) - k) + 1]
<1>1. Len(D) \in Nat /\ \A k \in 1 .. Len(D) : D[k] \in S
  BY ElementOfSeq
<1>2. \A k \in 1 .. Len(D) : (Len(D) - k) + 1 \in 1 .. Len(D)
  BY <1>1
<1>3. \A k \in 1 .. Len(D) : D[(Len(D) - k) + 1] \in S
  BY <1>1, <1>2
<1> QED BY <1>1, <1>3 DEF strrev

LEMMA NumeralIs ==
  ASSUME NEW base \in {10, 16}, NEW n \in Nat, NEW D, Spelled(D, n, base), Len(D) <= S_VAL
  PROVE  strrev(D) = Numeral(n, base) /\ Numeral(n, base) \in Seq(Int) /\ Len(Numeral(n, base)) = Len(D)
<1> DEFINE P(d) == n < base^d /\ (d > 1 => n >= base^(d - 1))
           length == CHOOSE d \in 1 .. S_VAL : P(d)
           L == Len(D)
<1>1. S_VAL \in Nat
  BY BufferAssumption
<1>2. D \in Seq(Int) /\ L >= 1 /\ P(L)
  BY DEF Spelled
<1>3. L \in Nat /\ L \in 1 .. S_VAL
  BY <1>1, <1>2
<1>4. length = L
  <2>1. length \in 1 .. S_VAL /\ P(length)
    <3> HIDE DEF P
    <3> QED BY <1>2, <1>3
  <2> HIDE DEF length, L
  <2>2. ~ (length < L) /\ ~ (L < length)
    BY <1>2, <1>3, <2>1, NumeralLength, Zenon
  <2> QED BY <1>1, <1>3, <2>1, <2>2
<1>5. /\ strrev(D) \in Seq(Int) /\ Len(strrev(D)) = L
      /\ \A k \in 1 .. L : strrev(D)[k] = D[(L - k) + 1]
  BY <1>2, Reversed
<1>6. ASSUME NEW k \in 1 .. L
      PROVE  strrev(D)[k] = Digit((n \div base^(L - k)) % base)
  <2>1. (L - k) + 1 \in 1 .. L /\ ((L - k) + 1) - 1 = L - k
    BY <1>3
  <2>2. D[(L - k) + 1] = Digit((n \div base^(((L - k) + 1) - 1)) % base)
    BY <2>1, Zenon DEF Spelled
  <2> QED BY <1>5, <2>1, <2>2, Zenon
<1>7. Numeral(n, base) = [k \in 1 .. L |-> Digit((n \div base^(L - k)) % base)]
  <2>1. Numeral(n, base) = [k \in 1 .. length |-> Digit((n \div base^(length - k)) % base)]
    BY DEF Numeral
  <2> HIDE DEF length, L
  <2> QED BY <1>4, <2>1, Zenon
<1>8. strrev(D) = [k \in 1 .. L |-> strrev(D)[k]]
  BY <1>5
<1> HIDE DEF L
<1>9. strrev(D) = Numeral(n, base)
  BY <1>6, <1>7, <1>8, Zenon
<1> QED BY <1>5, <1>9, Zenon DEF L

(* What is put behind the digits comes before the number.                  *)
LEMMA ReversedWith ==
  ASSUME NEW D \in Seq(Int), NEW x \in Int
  PROVE  strrev(D \o << >>) = strrev(D) /\ strrev(D \o << x >>) = << x >> \o strrev(D)
<1>1. D \o << >> = D
  BY ConcatEmptySeq
<1>2. PICK v, one : v = D \o one /\ one = << x >>
  BY Zenon
<1>3. one \in Seq(Int) /\ Len(one) = 1 /\ one[1] = x
  BY <1>2
<1>4. /\ v \in Seq(Int) /\ Len(D) \in Nat /\ Len(v) = Len(D) + Len(one)
      /\ \A k \in 1 .. Len(D) : v[k] = D[k]
      /\ \A k \in 1 .. Len(one) : v[Len(D) + k] = one[k]
  <2>1. one \in Seq(Int)
    BY <1>3
  <2> QED BY <1>2, <2>1, Joined
<1>5. Len(v) = Len(D) + 1 /\ v[Len(D) + 1] = x
  BY <1>3, <1>4
<1>6. PICK r : r = strrev(D)
  OBVIOUS
<1>7. /\ r \in Seq(Int) /\ Len(r) = Len(D)
      /\ \A k \in 1 .. Len(D) : r[k] = D[(Len(D) - k) + 1]
  BY <1>6, Reversed
<1>8. PICK w : w = << x >> \o r
  BY Zenon
<1>9. w \in Seq(Int) /\ Len(w) = Len(r) + 1 /\ w[1] = x /\ \A k \in 1 .. Len(r) : w[1 + k] = r[k]
  <2>1. r \in Seq(Int)
    BY <1>7
  <2>2. /\ << x >> \o r \in Seq(Int) /\ Len(<< x >> \o r) = Len(r) + 1
        /\ (<< x >> \o r)[1] = x
        /\ \A k \in 1 .. Len(r) : (<< x >> \o r)[1 + k] = r[k]
    BY ONLY <2>1, x \in Int, InFront
  <2> QED BY <1>8, <2>2, Zenon
<1>10. PICK t : t = strrev(v)
  OBVIOUS
<1>11. /\ t \in Seq(Int) /\ Len(t) = Len(D) + 1
       /\ \A k \in 1 .. Len(D) + 1 : t[k] = v[((Len(D) + 1) - k) + 1]
  <2>1. /\ strrev(v) \in Seq(Int) /\ Len(strrev(v)) = Len(v)
        /\ \A k \in 1 .. Len(v) : strrev(v)[k] = v[(Len(v) - k) + 1]
    BY <1>4, Reversed, Zenon
  <2> QED BY <1>5, <1>10, <2>1, Zenon
<1>12. ASSUME NEW k \in 1 .. Len(D) + 1 PROVE t[k] = w[k]
  <2>1. CASE k = 1
    <3>1. ((Len(D) + 1) - 1) + 1 = Len(D) + 1
      BY <1>4
    <3> QED BY <1>5, <1>9, <1>11, <2>1, <3>1, Zenon
  <2>2. CASE k # 1
    <3>1. PICK j \in 1 .. Len(D) : k = 1 + j
      <4>1. k - 1 \in 1 .. Len(D) /\ k = 1 + (k - 1)
        BY <1>4, <2>2
      <4> QED BY <4>1, Zenon
    <3>2. ((Len(D) + 1) - k) + 1 = (Len(D) - j) + 1 /\ (Len(D) - j) + 1 \in 1 .. Len(D)
      BY <1>4, <3>1
    <3>3. t[k] = D[(Len(D) - j) + 1]
      BY <1>4, <1>11, <3>2, Zenon
    <3>4. w[k] = r[j]
      BY <1>7, <1>9, <3>1, Zenon
    <3> QED BY <1>7, <3>3, <3>4, Zenon
  <2> QED BY <2>1, <2>2
<1>13. t = w
  <2>1. t \in Seq(Int) /\ w \in Seq(Int) /\ Len(t) = Len(w) /\ Len(t) = Len(D) + 1
    BY <1>7, <1>9, <1>11, Zenon
  <2> QED BY <1>12, <2>1, SeqEqual, Zenon
<1> QED BY <1>1, <1>2, <1>6, <1>8, <1>10, <1>13, Zenon

LEMMA DigitsOf ==
  ASSUME NEW base \in {10, 16}, NEW n \in Nat, NEW d \in 1 .. S_VAL, n < base^d
  PROVE  /\ strrev(LowDigits(n, base) \o << >>) = Numeral(n, base)
         /\ strrev(LowDigits(n, base) \o << Minus >>) = << Minus >> \o Numeral(n, base)
         /\ Numeral(n, base) \in Seq(Int) /\ Len(Numeral(n, base)) \in Nat
         /\ Len(Numeral(n, base)) <= d
<1>1. PICK D : D = LowDigits(n, base)
  OBVIOUS
<1>2. Spelled(D, n, base) /\ Len(D) <= d
  BY <1>1, DigitsSpell, Zenon
<1>3. D \in Seq(Int) /\ Len(D) \in Nat
  <2>1. D \in Seq(Int)
    BY <1>2, Zenon DEF Spelled
  <2> QED BY ONLY <2>1
<1>4. Len(D) <= S_VAL
  BY <1>2, <1>3, BufferAssumption
<1>5. strrev(D) = Numeral(n, base) /\ Numeral(n, base) \in Seq(Int) /\ Len(Numeral(n, base)) = Len(D)
  BY <1>2, <1>4, NumeralIs, Zenon
<1>6. Minus \in Int
  BY DEF Minus
<1>7. strrev(D \o << >>) = strrev(D) /\ strrev(D \o << Minus >>) = << Minus >> \o strrev(D)
  BY <1>3, <1>6, ReversedWith, Zenon
<1> QED BY <1>1, <1>2, <1>3, <1>5, <1>7, Zenon

(* Values converted to their type.                                         *)
LEMMA ModOnce ==
  ASSUME NEW w \in Nat \ {0}, NEW v \in Int
  PROVE  /\ v % w \in 0 .. w - 1
         /\ v \in 0 .. w - 1 => v % w = v
         /\ v \in - w .. -1 => v % w = v + w
<1>1. PICK q \in Int, r \in 0 .. w - 1 : r = v % w /\ v = w * q + r
  <2>1. v \div w \in Int /\ v % w \in 0 .. w - 1 /\ v = w * (v \div w) + (v % w)
    OBVIOUS
  <2> QED BY <2>1, Zenon
<1>2. q >= 1 => w * q >= w
  OBVIOUS
<1>3. q <= -1 => w * q <= - w
  OBVIOUS
<1>4. q >= 0 => w * q >= 0
  OBVIOUS
<1>5. q <= -2 => w * q <= - w - w
  <2> SUFFICES ASSUME q <= -2 PROVE w * q <= - w - w
    OBVIOUS
  <2>1. w * q <= w * (-2)
    OBVIOUS
  <2> QED BY <2>1
<1>6. PICK p \in Int : p = w * q
  OBVIOUS
<1>7. v \in 0 .. w - 1 => r = v
  <2> SUFFICES ASSUME v \in 0 .. w - 1 PROVE p = 0
    BY <1>1, <1>6
  <2>1. ~ (q >= 1) /\ ~ (q <= -1)
    BY <1>1, <1>2, <1>3, <1>6
  <2>2. q = 0
    BY <2>1
  <2> QED BY <1>6, <2>2
<1>8. v \in - w .. -1 => r = v + w
  <2> SUFFICES ASSUME v \in - w .. -1 PROVE p = - w
    BY <1>1, <1>6
  <2>1. ~ (q >= 0) /\ ~ (q <= -2)
    BY <1>1, <1>4, <1>5, <1>6
  <2>2. q = -1
    BY <2>1
  <2> QED BY <1>6, <2>2
<1> QED BY <1>1, <1>7, <1>8, Zenon

(* Half of the range of an int.                                            *)
Half == 2^(INT_BITS - 1)

LEMMA IntOf ==
  ASSUME NEW v \in Int
  PROVE  /\ Half \in Nat \ {0} /\ ToInt(v) \in - Half .. Half - 1
         /\ v \in - Half .. Half - 1 => ToInt(v) = v
         /\ v = Half => ToInt(v) = - Half
<1>1. PICK h \in Nat \ {0}, w \in Nat \ {0} : h = Half /\ w = 2^INT_BITS /\ w = h + h
  <2>1. Half \in Nat \ {0} /\ 2^INT_BITS = Half + Half
    BY WidthAssumption DEF Half
  <2>2. PICK h \in Nat \ {0} : h = Half
    BY <2>1, Zenon
  <2>3. 2^INT_BITS = h + h
    BY <2>1, <2>2, Zenon
  <2>4. h + h \in Nat \ {0}
    OBVIOUS
  <2> QED BY <2>2, <2>3, <2>4, Zenon
<1>2. PICK r : r = v % w
  OBVIOUS
<1>3. /\ r \in 0 .. w - 1
      /\ v \in 0 .. w - 1 => r = v
      /\ v \in - w .. -1 => r = v + w
  BY <1>2, ModOnce, Zenon
<1>4. ToInt(v) = IF r < h THEN r ELSE r - w
  BY <1>1, <1>2, Zenon DEF ToInt, Half
<1>5. ToInt(v) \in - h .. h - 1
  BY <1>1, <1>3, <1>4
<1>6. v \in - h .. h - 1 => ToInt(v) = v
  BY <1>1, <1>3, <1>4
<1>7. v = h => ToInt(v) = - h
  BY <1>1, <1>3, <1>4
<1> QED BY <1>1, <1>5, <1>6, <1>7, Zenon

LEMMA LongOf ==
  ASSUME NEW v \in Int
  PROVE  /\ ToLong(v) \in Nat /\ ToLong(v) < 2^LONG_BITS
         /\ v \in 0 .. 2^LONG_BITS - 1 => ToLong(v) = v
<1>1. PICK w \in Nat \ {0} : w = 2^LONG_BITS
  <2>1. PICK h \in Nat \ {0}, w \in Nat, s \in {2^INT_BITS} : h = 2^(INT_BITS - 1) /\ w = 2^LONG_BITS /\ s = 2^INT_BITS
    BY WidthAssumption, Zenon
  <2>2. s = h + h /\ s <= w
    BY <2>1, WidthAssumption, Zenon
  <2>3. w \in Nat \ {0}
    BY <2>2
  <2> QED BY <2>1, <2>3, Zenon
<1>2. v % w \in 0 .. w - 1 /\ (v \in 0 .. w - 1 => v % w = v)
  BY ModOnce, Zenon
<1>3. PICK r : r = v % w
  OBVIOUS
<1>4. r \in Nat /\ r < w
  BY <1>2, <1>3
<1> QED BY <1>1, <1>2, <1>3, <1>4, Zenon DEF ToLong

LEMMA SVal == S_VAL \in Nat /\ S_VAL - 2 \in 1 .. S_VAL /\ S_VAL - 1 \in 1 .. S_VAL /\ S_VAL \in 1 .. S_VAL
BY BufferAssumption

LEMMA ZeroIs ==
  ASSUME NEW base \in {10, 16}
  PROVE  << Zero >> = Numeral(0, base) /\ << Zero >> \in Seq(Int) /\ Len(<< Zero >>) = 1
<1> DEFINE D == << Digit(0 % base) >> \o << >>
<1>1. Spelled(D, 0, base) /\ Len(D) = 1
  <2>1. 0 \in Nat /\ 0 < base
    OBVIOUS
  <2> QED BY <2>1, SpelledOne, Zenon
<1>2. D = << Zero >>
  <2>1. 0 % base = 0
    OBVIOUS
  <2>2. Digit(0) = Zero /\ Zero \in Int
    BY DEF Digit, Zero
  <2>3. << Zero >> \in Seq(Int)
    BY <2>2
  <2>4. << Zero >> \o << >> = << Zero >>
    BY <2>3, ConcatEmptySeq
  <2> QED BY <2>1, <2>2, <2>4, Zenon
<1>3. 1 <= S_VAL
  BY BufferAssumption
<1> HIDE DEF D
<1>4. strrev(D) = Numeral(0, base)
  <2>1. 0 \in Nat /\ Len(D) <= S_VAL
    BY <1>1, <1>3
  <2> QED BY <1>1, <2>1, NumeralIs, Zenon
<1>5. strrev(<< Zero >>) = << Zero >>
  BY DEF strrev, Zero
<1>6. << Zero >> \in Seq(Int) /\ Len(<< Zero >>) = 1
  BY DEF Zero
<1> QED BY <1>2, <1>4, <1>5, <1>6, Zenon

(* A negative number left to the loop: one character, that is no digit.    *)
LEMMA NegativeLoop ==
  ASSUME NEW base \in {10, 16}, NEW n \in Int, n < 0
  PROVE  /\ strrev(LowDigits(n, base) \o << >>) \in Seq(Int)
         /\ Len(strrev(LowDigits(n, base) \o << >>)) = 1
         /\ strrev(LowDigits(n, base) \o << Minus >>) \in Seq(Int)
         /\ Len(strrev(LowDigits(n, base) \o << Minus >>)) = 2
<1>1. PICK x \in Int : LowDigits(n, base) = << x >> \o << >>
  BY NegativeDigit
<1>2. << x >> \o << >> = << x >>
  <2>1. << x >> \in Seq(Int)
    OBVIOUS
  <2> QED BY <2>1, ConcatEmptySeq
<1>3. PICK D : D = << x >>
  BY Zenon
<1>4. D \in Seq(Int) /\ Len(D) = 1 /\ D = LowDigits(n, base)
  <2>1. D \in Seq(Int) /\ Len(D) = 1
    BY <1>3
  <2> QED BY <1>1, <1>2, <1>3, <2>1, Zenon
<1>5. Minus \in Int
  BY DEF Minus
<1>6. strrev(D) \in Seq(Int) /\ Len(strrev(D)) = 1
  BY <1>4, Reversed
<1>7. strrev(D \o << >>) = strrev(D) /\ strrev(D \o << Minus >>) = << Minus >> \o strrev(D)
  BY <1>4, <1>5, ReversedWith, Zenon
<1>8. PICK r : r = strrev(D)
  OBVIOUS
<1>9. << Minus >> \o r \in Seq(Int) /\ Len(<< Minus >> \o r) = Len(r) + 1
  <2>1. r \in Seq(Int)
    BY <1>6, <1>8
  <2> QED BY ONLY <1>5, <2>1, InFront
<1>10. 1 + 1 = 2
  OBVIOUS
<1> QED BY <1>4, <1>6, <1>7, <1>8, <1>9, <1>10, Zenon

(* The digits of a number below a limit, and one character more, fit.      *)
LEMMA IntDigits ==
  ASSUME NEW base \in {10, 16}, NEW n \in Nat, n < Half
  PROVE  /\ strrev(LowDigits(n, base) \o << >>) = Numeral(n, base)
         /\ Numeral(n, base) \in Seq(Int) /\ Len(Numeral(n, base)) \in Nat
         /\ Len(Numeral(n, base)) < S_VAL
         /\ base = 10 => /\ strrev(LowDigits(n, base) \o << Minus >>) = << Minus >> \o Numeral(n, base)
                         /\ Len(Numeral(n, base)) + 1 < S_VAL
<1>1. PICK h \in Nat, a \in Int, b \in Int, s \in Int, w \in Int :
        /\ h = Half /\ a = 10^(S_VAL - 2) /\ b = 16^(S_VAL - 1) /\ s = 2^INT_BITS /\ w = 2^LONG_BITS
        /\ h <= a /\ w <= b /\ s = h + h /\ s <= w
  <2>1. S_VAL - 2 \in 0 .. S_VAL /\ S_VAL - 1 \in 0 .. S_VAL
    BY BufferAssumption
  <2>2. 10^(S_VAL - 2) \in Nat /\ 16^(S_VAL - 1) \in Nat
    BY <2>1, PowerType
  <2>3. PICK h \in Nat, a \in Nat, b \in Nat, w \in Nat, s \in {2^INT_BITS} :
          /\ h = Half /\ a = 10^(S_VAL - 2) /\ b = 16^(S_VAL - 1) /\ s = 2^INT_BITS /\ w = 2^LONG_BITS
    BY <2>2, WidthAssumption, Zenon DEF Half
  <2>4. h <= a /\ w <= b /\ s = h + h /\ s <= w
    BY <2>3, WidthAssumption, BufferAssumption, Zenon DEF Half
  <2>5. s \in Int /\ h \in Int /\ a \in Int /\ b \in Int /\ w \in Int
    BY <2>4
  <2> QED BY <2>3, <2>4, <2>5, Zenon
<1>2. n < a /\ n < b
  <2>1. n < h
    BY <1>1, Zenon
  <2> QED BY <1>1, <2>1
<1>3. CASE base = 10
  <2>1. n < base^(S_VAL - 2)
    BY <1>1, <1>2, <1>3, Zenon
  <2>2. /\ strrev(LowDigits(n, base) \o << >>) = Numeral(n, base)
        /\ strrev(LowDigits(n, base) \o << Minus >>) = << Minus >> \o Numeral(n, base)
        /\ Numeral(n, base) \in Seq(Int) /\ Len(Numeral(n, base)) \in Nat
        /\ Len(Numeral(n, base)) <= S_VAL - 2
    BY <2>1, SVal, DigitsOf, Zenon
  <2>3. PICK k \in Nat : k = Len(Numeral(n, base))
    BY <2>2, Zenon
  <2>4. k < S_VAL /\ k + 1 < S_VAL
    BY <2>2, <2>3, SVal
  <2> QED BY <2>2, <2>3, <2>4, Zenon
<1>4. CASE base = 16
  <2>1. n < base^(S_VAL - 1)
    BY <1>1, <1>2, <1>4, Zenon
  <2>2. /\ strrev(LowDigits(n, base) \o << >>) = Numeral(n, base)
        /\ Numeral(n, base) \in Seq(Int) /\ Len(Numeral(n, base)) \in Nat
        /\ Len(Numeral(n, base)) <= S_VAL - 1
    BY <2>1, SVal, DigitsOf, Zenon
  <2>3. PICK k \in Nat : k = Len(Numeral(n, base))
    BY <2>2, Zenon
  <2>4. k < S_VAL
    BY <2>2, <2>3, SVal
  <2>5. base # 10
    BY <1>4
  <2> QED BY <2>2, <2>3, <2>4, <2>5, Zenon
<1> QED BY <1>3, <1>4, Zenon

LEMMA itoaIs ==
  ASSUME NEW base \in {10, 16}, NEW n \in - Half .. Half - 1
  PROVE  /\ itoa(n, base) \in Seq(Int) /\ Len(itoa(n, base)) < S_VAL
         /\ n >= 0 => itoa(n, base) = Numeral(n, base)
         /\ base = 10 /\ n # - Half => itoa(n, base) = SignedNumeral(n)
<1>0. PICK h \in Nat \ {0} : h = Half
  BY IntOf, 0 \in Int
<1>1. n \in Int /\ n >= - h /\ n < h /\ 1 < S_VAL /\ 2 < S_VAL
  BY <1>0, BufferAssumption
<1>2. CASE n = 0
  <2>1. itoa(n, base) = << Zero >>
    BY <1>2 DEF itoa
  <2>2. ~ (n < 0)
    BY <1>2
  <2>3. << Zero >> = Numeral(n, base) /\ << Zero >> \in Seq(Int) /\ Len(<< Zero >>) = 1
    BY <1>2, ZeroIs, Zenon
  <2> QED BY <1>1, <2>1, <2>2, <2>3, Zenon DEF SignedNumeral
<1>3. CASE n > 0
  <2>1. n # 0 /\ ~ (n < 0) /\ n \in Nat /\ n < Half
    BY <1>0, <1>1, <1>3
  <2>2. itoa(n, base) = strrev(LowDigits(n, base) \o << >>)
    BY <2>1, Zenon DEF itoa, Signed
  <2>3. /\ strrev(LowDigits(n, base) \o << >>) = Numeral(n, base)
        /\ Numeral(n, base) \in Seq(Int) /\ Len(Numeral(n, base)) < S_VAL
    BY <2>1, IntDigits, Zenon
  <2> QED BY <2>1, <2>2, <2>3, Zenon DEF SignedNumeral
<1>4. CASE n < 0
  <2>0. n # 0 /\ ~ (n >= 0) /\ - n \in Int
    BY <1>1, <1>4
  <2>1. CASE base = 16
    <3>1. base # 10
      BY <2>1
    <3>2. itoa(n, base) = strrev(LowDigits(n, base) \o << >>)
      BY <2>0, <3>1, Zenon DEF itoa, Signed
    <3>3. /\ strrev(LowDigits(n, base) \o << >>) \in Seq(Int)
          /\ Len(strrev(LowDigits(n, base) \o << >>)) = 1
      BY <1>1, <1>4, NegativeLoop, Zenon
    <3> QED BY <1>1, <2>0, <3>1, <3>2, <3>3, Zenon
  <2>2. CASE base = 10
    <3>1. itoa(n, base) = strrev(LowDigits(ToInt(- n), base) \o << Minus >>)
      BY <1>4, <2>0, <2>2, Zenon DEF itoa, Signed
    <3>2. CASE n = - h
      <4>1. ToInt(- n) = n
        <5>1. - n = h /\ - h = n
          BY <3>2
        <5>2. ToInt(- n) = - Half
          BY <1>0, <2>0, <5>1, IntOf, Zenon
        <5> QED BY <1>0, <5>1, <5>2, Zenon
      <4>2. /\ strrev(LowDigits(n, base) \o << Minus >>) \in Seq(Int)
            /\ Len(strrev(LowDigits(n, base) \o << Minus >>)) = 2
        BY <1>1, <1>4, NegativeLoop, Zenon
      <4> QED BY <1>0, <1>1, <2>0, <3>1, <3>2, <4>1, <4>2, Zenon
    <3>3. CASE n # - h
      <4>1. - n \in Nat /\ - n < h /\ - n \in - h .. h - 1
        BY <1>1, <1>4, <3>3
      <4>2. ToInt(- n) = - n
        BY <1>0, <2>0, <4>1, IntOf, Zenon
      <4>3. PICK m \in Nat : m = - n /\ m < Half
        BY <1>0, <4>1, Zenon
      <4>4. /\ strrev(LowDigits(m, base) \o << Minus >>) = << Minus >> \o Numeral(m, base)
            /\ Numeral(m, base) \in Seq(Int) /\ Len(Numeral(m, base)) + 1 < S_VAL
        BY <2>2, <4>3, IntDigits, Zenon
      <4>5. PICK r \in Seq(Int) : r = Numeral(m, base)
        BY <4>4, Zenon
      <4>6. << Minus >> \o r \in Seq(Int) /\ Len(<< Minus >> \o r) = Len(r) + 1
        <5>1. Minus \in Int
          BY DEF Minus
        <5> QED BY ONLY <5>1, r \in Seq(Int), InFront
      <4>7. itoa(n, base) = << Minus >> \o r
        BY <3>1, <4>2, <4>3, <4>4, <4>5, Zenon
      <4>8. SignedNumeral(n) = << Minus >> \o r
        BY <1>4, <2>2, <4>3, <4>5, Zenon DEF SignedNumeral
      <4> QED BY <2>0, <4>4, <4>5, <4>6, <4>7, <4>8, Zenon
    <3> QED BY <3>2, <3>3
  <2> QED BY <2>1, <2>2
<1> QED BY <1>1, <1>2, <1>3, <1>4

LEMMA ulltoaIs ==
  ASSUME NEW base \in {10, 16}, NEW n \in 0 .. 2^LONG_BITS - 1
  PROVE  /\ ulltoa(n, base) \in Seq(Int)
         /\ base = 16 \/ ToInt(n) >= 0 => ulltoa(n, base) = Numeral(n, base)
         /\ base = 16 \/ (ToInt(n) >= 0 /\ n < 10^(S_VAL - 1)) => Len(ulltoa(n, base)) < S_VAL
<1>1. PICK w \in Nat, a \in Int, b \in Int :
        /\ w = 2^LONG_BITS /\ a = 10^S_VAL /\ b = 16^(S_VAL - 1) /\ w <= a /\ w <= b
  <2>1. S_VAL \in 0 .. S_VAL /\ S_VAL - 1 \in 0 .. S_VAL
    BY BufferAssumption
  <2>2. 10^S_VAL \in Nat /\ 16^(S_VAL - 1) \in Nat
    BY <2>1, PowerType
  <2>3. PICK w \in Nat, a \in Nat, b \in Nat :
          w = 2^LONG_BITS /\ a = 10^S_VAL /\ b = 16^(S_VAL - 1)
    BY <2>2, WidthAssumption, Zenon
  <2>4. w <= a /\ w <= b
    BY <2>3, BufferAssumption, Zenon
  <2>5. a \in Int /\ b \in Int
    OBVIOUS
  <2> QED BY <2>3, <2>4, <2>5, Zenon
<1>2. n \in Nat /\ n < w /\ - n \in Int /\ n \in Int
  BY <1>1
<1>3. /\ ToInt(n) \in Int /\ ToLong(- n) \in Nat /\ ToLong(- n) < w
  <2>1. ToInt(n) \in - Half .. Half - 1 /\ Half \in Nat
    BY <1>2, IntOf
  <2> QED BY <1>1, <1>2, <2>1, LongOf
<1>4. PICK sign \in Int : sign = ToInt(n)
  BY <1>3
<1>5. CASE n = 0
  <2>1. ulltoa(n, base) = << Zero >>
    BY <1>5 DEF ulltoa
  <2>2. << Zero >> = Numeral(n, base) /\ << Zero >> \in Seq(Int) /\ Len(<< Zero >>) = 1
    BY <1>5, ZeroIs, Zenon
  <2>3. 1 < S_VAL
    BY BufferAssumption
  <2> QED BY <2>1, <2>2, <2>3, Zenon
<1>6. CASE n # 0 /\ base = 16
  <2>1. base # 10
    BY <1>6
  <2>2. ulltoa(n, base) = strrev(LowDigits(n, base) \o << >>)
    BY <1>6, <2>1, Zenon DEF ulltoa, Signed
  <2>3. n < base^(S_VAL - 1)
    <3>1. n < b
      BY <1>1, <1>2
    <3> QED BY <1>1, <1>6, <3>1, Zenon
  <2>4. /\ strrev(LowDigits(n, base) \o << >>) = Numeral(n, base)
        /\ Numeral(n, base) \in Seq(Int) /\ Len(Numeral(n, base)) \in Nat
        /\ Len(Numeral(n, base)) <= S_VAL - 1
    BY <1>2, <2>3, SVal, DigitsOf, Zenon
  <2>5. PICK k \in Nat : k = Len(Numeral(n, base))
    BY <2>4, Zenon
  <2>6. k < S_VAL
    BY <2>4, <2>5, SVal
  <2> QED BY <2>2, <2>4, <2>5, <2>6, Zenon
<1>7. CASE n # 0 /\ base = 10
  <2>0. base # 16 /\ base^S_VAL = a
    BY <1>1, <1>7
  <2>1. CASE sign < 0
    <3>1. ulltoa(n, base) = strrev(LowDigits(ToLong(- n), base) \o << Minus >>)
      BY <1>4, <1>7, <2>1, Zenon DEF ulltoa, Signed
    <3>2. PICK m \in Nat : m = ToLong(- n) /\ m < w
      BY <1>3, Zenon
    <3>3. m < base^S_VAL
      <4>1. m < a
        BY <1>1, <3>2
      <4> QED BY <2>0, <4>1, Zenon
    <3>4. /\ strrev(LowDigits(m, base) \o << Minus >>) = << Minus >> \o Numeral(m, base)
          /\ Numeral(m, base) \in Seq(Int)
      BY <3>3, SVal, DigitsOf, Zenon
    <3>5. PICK r \in Seq(Int) : r = Numeral(m, base)
      BY <3>4, Zenon
    <3>6. << Minus >> \o r \in Seq(Int)
      <4>1. Minus \in Int
        BY DEF Minus
      <4> QED BY ONLY <4>1, r \in Seq(Int), InFront
    <3>7. ~ (ToInt(n) >= 0)
      BY <1>4, <2>1
    <3> QED BY <2>0, <3>1, <3>2, <3>4, <3>5, <3>6, <3>7, Zenon
  <2>2. CASE ~ (sign < 0)
    <3>1. ulltoa(n, base) = strrev(LowDigits(n, base) \o << >>)
      BY <1>4, <1>7, <2>2, Zenon DEF ulltoa, Signed
    <3>2. n < base^S_VAL
      <4>1. n < a
        BY <1>1, <1>2
      <4> QED BY <2>0, <4>1, Zenon
    <3>3. /\ strrev(LowDigits(n, base) \o << >>) = Numeral(n, base)
          /\ Numeral(n, base) \in Seq(Int) /\ Len(Numeral(n, base)) \in Nat
      BY <1>2, <3>2, SVal, DigitsOf, Zenon
    <3>4. ASSUME n < 10^(S_VAL - 1) PROVE Len(Numeral(n, base)) < S_VAL
      <4>1. n < base^(S_VAL - 1)
        BY <1>7, <3>4, Zenon
      <4>2. Len(Numeral(n, base)) <= S_VAL - 1
        BY <1>2, <4>1, SVal, DigitsOf, Zenon
      <4>3. PICK k \in Nat : k = Len(Numeral(n, base))
        BY <3>3, Zenon
      <4>4. k < S_VAL
        BY <4>2, <4>3, SVal
      <4> QED BY <4>3, <4>4, Zenon
    <3> QED BY <2>0, <3>1, <3>3, <3>4, Zenon
  <2> QED BY <2>1, <2>2
<1> QED BY <1>5, <1>6, <1>7

-----------------------------------------------------------------------------
(* Items.                                                                  *)
LEMMA Pair ==
  ASSUME NEW a \in Int, NEW c \in Int, NEW t, t = (<< a >> \o << >>) \o << c >>
  PROVE  t \in Seq(Int) /\ Len(t) = 2 /\ t[1] = a /\ t[2] = c
<1>1. << a >> \o << >> = << a >>
  <2>1. << a >> \in Seq(Int)
    OBVIOUS
  <2> QED BY <2>1, ConcatEmptySeq
<1>2. PICK r : r = << c >>
  OBVIOUS
<1>3. r \in Seq(Int) /\ Len(r) = 1 /\ r[1] = c
  BY <1>2
<1>4. r \in Seq(Int)
  BY <1>3
<1>5. t = << a >> \o r
  BY <1>1, <1>2, Zenon
<1>6. << a >> \o r \in Seq(Int) /\ Len(<< a >> \o r) = Len(r) + 1 /\ (<< a >> \o r)[1] = a
      /\ \A k \in 1 .. Len(r) : (<< a >> \o r)[1 + k] = r[k]
  BY ONLY <1>4, a \in Int, InFront
<1>7. t \in Seq(Int) /\ Len(t) = Len(r) + 1 /\ t[1] = a /\ \A k \in 1 .. Len(r) : t[1 + k] = r[k]
  BY <1>5, <1>6, Zenon
<1>8. 1 + 1 = 2 /\ 1 \in 1 .. 1
  OBVIOUS
<1> QED BY <1>3, <1>7, <1>8, Zenon

LEMMA TextIs ==
  ASSUME NEW item \in ItemType
  PROVE  /\ Text(item) \in Seq(Int) /\ Len(Text(item)) \in Nat \ {0}
         /\ item.conv = Literal => Len(Text(item)) = 1 /\ Text(item)[1] = item.value
         /\ item.conv # Literal =>
              /\ Text(item)[1] = Percent
              /\ item.pad < 0 => Len(Text(item)) = 2 /\ Text(item)[2] = item.conv
              /\ item.pad >= 0 => /\ Len(Text(item)) = 3 /\ Text(item)[2] = Zero + item.pad
                                  /\ Text(item)[3] = item.conv
<1>1. /\ item.conv \in Int /\ item.pad \in Int /\ item.value \in Int /\ Percent \in Int
      /\ Zero + item.pad \in Int
  BY SMTT(30) DEF ItemType, Percent, Zero
<1>2. CASE item.conv = Literal
  BY <1>1, <1>2 DEF Text
<1>3. CASE item.conv # Literal /\ item.pad < 0
  <2>1. Text(item) = (<< Percent >> \o << >>) \o << item.conv >>
    BY <1>3 DEF Text
  <2>2. ~ (item.pad >= 0) /\ 2 \in Nat \ {0}
    BY <1>1, <1>3
  <2>3. PICK t : t = Text(item)
    OBVIOUS
  <2>4. t \in Seq(Int) /\ Len(t) = 2 /\ t[1] = Percent /\ t[2] = item.conv
    <3>1. PICK a \in Int, c \in Int : a = Percent /\ c = item.conv
      BY <1>1, Zenon
    <3>2. t = (<< a >> \o << >>) \o << c >>
      BY <2>1, <2>3, <3>1, Zenon
    <3>3. t \in Seq(Int) /\ Len(t) = 2 /\ t[1] = a /\ t[2] = c
      BY ONLY <3>2, a \in Int, c \in Int, Pair
    <3> QED BY <3>1, <3>3, Zenon
  <2> QED BY <1>3, <2>2, <2>3, <2>4, Zenon
<1>4. CASE item.conv # Literal /\ ~ (item.pad < 0)
  <2>1. Text(item) = (<< Percent >> \o << Zero + item.pad >>) \o << item.conv >>
    BY <1>4 DEF Text
  <2>2. 3 \in Nat \ {0}
    OBVIOUS
  <2>3. PICK t : t = Text(item)
    OBVIOUS
  <2>4. /\ t \in Seq(Int) /\ Len(t) = 3 /\ t[1] = Percent
        /\ t[2] = Zero + item.pad /\ t[3] = item.conv
    <3>1. PICK a \in Int, b \in Int, c \in Int : a = Percent /\ b = Zero + item.pad /\ c = item.conv
      BY <1>1, Zenon
    <3>2. t = (<< a >> \o << b >>) \o << c >>
      BY <2>1, <2>3, <3>1, Zenon
    <3>3. t \in Seq(Int) /\ Len(t) = 3 /\ t[1] = a /\ t[2] = b /\ t[3] = c
      <4>1. PICK s : s = (<< b >> \o << >>) \o << c >>
        BY Zenon
      <4>2. s \in Seq(Int) /\ Len(s) = 2 /\ s[1] = b /\ s[2] = c
        BY ONLY <4>1, b \in Int, c \in Int, Pair
      <4>3. t = << a >> \o s
        <5>1. << a >> \in Seq(Int) /\ << b >> \in Seq(Int) /\ << c >> \in Seq(Int)
          OBVIOUS
        <5>2. << b >> \o << >> = << b >>
          BY <5>1, ConcatEmptySeq
        <5>3. (<< a >> \o << b >>) \o << c >> = << a >> \o (<< b >> \o << c >>)
          BY ONLY <5>1, ConcatAssociative
        <5> QED BY <3>2, <4>1, <5>2, <5>3, Zenon
      <4>4. s \in Seq(Int)
        BY <4>2
      <4>5. << a >> \o s \in Seq(Int) /\ Len(<< a >> \o s) = Len(s) + 1 /\ (<< a >> \o s)[1] = a
            /\ \A k \in 1 .. Len(s) : (<< a >> \o s)[1 + k] = s[k]
        BY ONLY <4>4, a \in Int, InFront
      <4>6. t \in Seq(Int) /\ Len(t) = Len(s) + 1 /\ t[1] = a /\ \A k \in 1 .. Len(s) : t[1 + k] = s[k]
        BY <4>3, <4>5, Zenon
      <4>7. 2 + 1 = 3 /\ 1 + 1 = 2 /\ 1 + 2 = 3 /\ 1 \in 1 .. 2 /\ 2 \in 1 .. 2
        OBVIOUS
      <4> QED BY <4>2, <4>6, <4>7, Zenon
    <3> QED BY <3>1, <3>3, Zenon
  <2> QED BY <1>4, <2>2, <2>3, <2>4, Zenon
<1> QED BY <1>2, <1>3, <1>4

LEMMA ArgumentIs ==
  ASSUME NEW item \in ItemType
  PROVE  /\ Argument(item) \in Seq(Seq(Int))
         /\ item.conv \in TakesArg =>
              /\ Len(Argument(item)) = 1
              /\ Argument(item)[1] = IF item.conv = String THEN item.text ELSE << item.value >>
         /\ item.conv \notin TakesArg => Argument(item) = << >>
<1>1. item.text \in Seq(Int) /\ << item.value >> \in Seq(Int) /\ String \in TakesArg
  BY DEF ItemType, TakesArg
<1>2. CASE item.conv = String
  BY <1>1, <1>2 DEF Argument
<1>3. CASE item.conv # String /\ item.conv \in TakesArg
  <2>1. Argument(item) = << << item.value >> >>
    BY <1>3 DEF Argument
  <2> QED BY <1>1, <1>3, <2>1
<1>4. CASE item.conv # String /\ item.conv \notin TakesArg
  <2>1. Argument(item) = << >>
    BY <1>4 DEF Argument
  <2>2. << >> \in Seq(Seq(Int))
    OBVIOUS
  <2> QED BY <1>4, <2>1, <2>2, Zenon
<1> QED BY <1>2, <1>3, <1>4

Numbers == {Decimal, Unsigned, Hex, Long, LongHex}

LEMMA Cases ==
  ASSUME NEW item, NEW v
  PROVE  /\ item.conv = Decimal =>
              Number(item.conv, v) = itoa(ToInt(v), 10) /\ Exact(item) = (item.value # - Half)
         /\ item.conv = Unsigned =>
              Number(item.conv, v) = itoa(ToInt(v), 10) /\ Exact(item) = (item.value < Half)
         /\ item.conv = Hex =>
              Number(item.conv, v) = itoa(ToInt(v), 16) /\ Exact(item) = (item.value < Half)
         /\ item.conv = Long =>
              Number(item.conv, v) = ulltoa(ToLong(v), 10) /\ Exact(item) = (ToInt(item.value) >= 0)
         /\ item.conv = LongHex => Number(item.conv, v) = ulltoa(ToLong(v), 16)
<1> USE DEF Number, Exact, Half, Literal, Decimal, Unsigned, Hex, Long, LongHex
<1>1. CASE item.conv = Decimal
  BY <1>1
<1>2. CASE item.conv = Unsigned
  BY <1>2
<1>3. CASE item.conv = Hex
  BY <1>3
<1>4. CASE item.conv = Long
  BY <1>4
<1>5. CASE item.conv = LongHex
  BY <1>5, SMTT(30)
<1> QED BY <1>1, <1>2, <1>3, <1>4, <1>5, Zenon

(* The number in s_val is the numeral, wherever the conversion is exact.   *)
LEMMA NumberIs ==
  ASSUME NEW items, NEW n, ItemOK(items, n), NEW item \in ItemType, item = items[n],
         item.conv \in Numbers
  PROVE  /\ Number(item.conv, item.value) \in Seq(Int)
         /\ (item.conv = Long => Exact(item) /\ item.value < 10^(S_VAL - 1))
              => Len(Number(item.conv, item.value)) < S_VAL
         /\ Exact(item) =>
              Number(item.conv, item.value) =
                CASE item.conv = Decimal            -> SignedNumeral(item.value)
                  [] item.conv \in {Unsigned, Long} -> Numeral(item.value, 10)
                  [] item.conv \in {Hex, LongHex}   -> Numeral(item.value, 16)
<1> DEFINE v == item.value
<1>0. v \in Int /\ 10 \in {10, 16} /\ 16 \in {10, 16}
  BY DEF ItemType
<1>1. PICK h \in Nat \ {0} : h = Half /\ 2^INT_BITS = h + h
  <2>1. Half \in Nat \ {0} /\ 2^INT_BITS = Half + Half
    BY WidthAssumption DEF Half
  <2> QED BY <2>1, Zenon
<1>2. CASE item.conv = Decimal
  <2>1. v \in - Half .. Half - 1
    BY <1>2, Zenon DEF ItemOK, Half
  <2>2. ToInt(v) = v
    BY <1>0, <2>1, IntOf
  <2>3. Number(item.conv, v) = itoa(v, 10)
    BY <1>2, <2>2, Cases, Zenon
  <2>4. Exact(item) => v # - Half
    BY <1>2, Cases, Zenon
  <2>5. /\ itoa(v, 10) \in Seq(Int) /\ Len(itoa(v, 10)) < S_VAL
        /\ v # - Half => itoa(v, 10) = SignedNumeral(v)
    BY <1>0, <2>1, itoaIs
  <2>6. (CASE item.conv = Decimal            -> SignedNumeral(item.value)
           [] item.conv \in {Unsigned, Long} -> Numeral(item.value, 10)
           [] item.conv \in {Hex, LongHex}   -> Numeral(item.value, 16)) = SignedNumeral(v)
    BY <1>2 DEF Decimal, Unsigned, Hex, Long, LongHex
  <2> QED BY <2>3, <2>4, <2>5, <2>6, Zenon
<1>3. CASE item.conv \in {Unsigned, Hex}
  <2>0. ToInt(v) \in - Half .. Half - 1
    BY <1>0, IntOf
  <2>1. Exact(item) => ToInt(v) = v /\ v >= 0
    <3> SUFFICES ASSUME Exact(item) PROVE ToInt(v) = v /\ v >= 0
      OBVIOUS
    <3>1. v \in 0 .. 2^INT_BITS - 1
      BY <1>3, Zenon DEF ItemOK
    <3>2. v < Half
      BY <1>3, Cases, Zenon
    <3>3. v \in - Half .. Half - 1 /\ v >= 0
      BY <1>0, <1>1, <3>1, <3>2
    <3> QED BY <1>0, <3>3, IntOf
  <2>2. CASE item.conv = Unsigned
    <3>1. Number(item.conv, v) = itoa(ToInt(v), 10)
      BY <2>2, Cases, Zenon
    <3>2. /\ itoa(ToInt(v), 10) \in Seq(Int) /\ Len(itoa(ToInt(v), 10)) < S_VAL
          /\ ToInt(v) >= 0 => itoa(ToInt(v), 10) = Numeral(ToInt(v), 10)
      BY <1>0, <2>0, itoaIs
    <3>4. Exact(item) => Number(item.conv, v) = Numeral(v, 10)
      BY <2>1, <3>1, <3>2, Zenon
    <3>5. (CASE item.conv = Decimal            -> SignedNumeral(item.value)
             [] item.conv \in {Unsigned, Long} -> Numeral(item.value, 10)
             [] item.conv \in {Hex, LongHex}   -> Numeral(item.value, 16)) = Numeral(v, 10)
      BY <2>2 DEF Decimal, Unsigned, Hex, Long, LongHex
    <3> QED BY <3>1, <3>2, <3>4, <3>5, Zenon
  <2>3. CASE item.conv = Hex
    <3>1. Number(item.conv, v) = itoa(ToInt(v), 16)
      BY <2>3, Cases, Zenon
    <3>2. /\ itoa(ToInt(v), 16) \in Seq(Int) /\ Len(itoa(ToInt(v), 16)) < S_VAL
          /\ ToInt(v) >= 0 => itoa(ToInt(v), 16) = Numeral(ToInt(v), 16)
      BY <1>0, <2>0, itoaIs
    <3>4. Exact(item) => Number(item.conv, v) = Numeral(v, 16)
      BY <2>1, <3>1, <3>2, Zenon
    <3>5. (CASE item.conv = Decimal            -> SignedNumeral(item.value)
             [] item.conv \in {Unsigned, Long} -> Numeral(item.value, 10)
             [] item.conv \in {Hex, LongHex}   -> Numeral(item.value, 16)) = Numeral(v, 16)
      BY <2>3 DEF Decimal, Unsigned, Hex, Long, LongHex
    <3> QED BY <3>1, <3>2, <3>4, <3>5, Zenon
  <2> QED BY <1>3, <2>2, <2>3
<1>4. CASE item.conv \in {Long, LongHex}
  <2>1. v \in 0 .. 2^LONG_BITS - 1
    BY <1>4, Zenon DEF ItemOK
  <2>2. ToLong(v) = v
    BY <1>0, <2>1, LongOf
  <2>3. CASE item.conv = Long
    <3>1. Number(item.conv, v) = ulltoa(v, 10)
      BY <2>2, <2>3, Cases, Zenon
    <3>2. Exact(item) => ToInt(v) >= 0
      BY <2>3, Cases, Zenon
    <3>3. /\ ulltoa(v, 10) \in Seq(Int)
          /\ ToInt(v) >= 0 => ulltoa(v, 10) = Numeral(v, 10)
          /\ ToInt(v) >= 0 /\ v < 10^(S_VAL - 1) => Len(ulltoa(v, 10)) < S_VAL
      BY <1>0, <2>1, ulltoaIs, Zenon
    <3>4. (CASE item.conv = Decimal            -> SignedNumeral(item.value)
             [] item.conv \in {Unsigned, Long} -> Numeral(item.value, 10)
             [] item.conv \in {Hex, LongHex}   -> Numeral(item.value, 16)) = Numeral(v, 10)
      BY <2>3 DEF Decimal, Unsigned, Hex, Long, LongHex
    <3> QED BY <2>3, <3>1, <3>2, <3>3, <3>4, Zenon
  <2>4. CASE item.conv = LongHex
    <3>1. Number(item.conv, v) = ulltoa(v, 16)
      BY <2>2, <2>4, Cases, Zenon
    <3>2. /\ ulltoa(v, 16) \in Seq(Int) /\ ulltoa(v, 16) = Numeral(v, 16)
          /\ Len(ulltoa(v, 16)) < S_VAL
      BY <1>0, <2>1, ulltoaIs, Zenon
    <3>3. (CASE item.conv = Decimal            -> SignedNumeral(item.value)
             [] item.conv \in {Unsigned, Long} -> Numeral(item.value, 10)
             [] item.conv \in {Hex, LongHex}   -> Numeral(item.value, 16)) = Numeral(v, 16)
      BY <2>4, SMTT(30) DEF Decimal, Unsigned, Hex, Long, LongHex
    <3> QED BY <3>1, <3>2, <3>3, Zenon
  <2> QED BY <1>4, <2>3, <2>4
<1> QED BY <1>2, <1>3, <1>4 DEF Numbers

(* What the turn of the loop for an item puts.                             *)
Leftpad(item) == IF item.pad < 0 THEN 0 ELSE item.pad

Printed(item) ==
  CASE item.conv = Percent -> << Percent >>
    [] item.conv = Char    -> << item.value % BYTE >>
    [] item.conv = Decimal ->
         Padding(Leftpad(item), Number(item.conv, item.value)) \o Number(item.conv, item.value)
    [] item.conv \in Numbers \ {Decimal} -> Number(item.conv, item.value)
    [] item.conv = String  -> item.text
    [] OTHER               -> << >>

LEMMA PrintedCases ==
  ASSUME NEW item, item.conv # Literal
  PROVE  /\ item.conv = Percent => Printed(item) = << Percent >> /\ Shows(item) = << Percent >>
         /\ item.conv = Char => Printed(item) = << item.value % BYTE >> /\ Shows(item) = << item.value >>
         /\ item.conv = Decimal =>
              /\ Printed(item) = Padding(Leftpad(item), Number(item.conv, item.value))
                                   \o Number(item.conv, item.value)
              /\ Shows(item) = [n \in 1 .. Missing(item.pad, SignedNumeral(item.value)) |-> Zero]
                                 \o SignedNumeral(item.value)
         /\ item.conv \in Numbers \ {Decimal} =>
              /\ Printed(item) = Number(item.conv, item.value)
              /\ Shows(item) = CASE item.conv = Decimal            -> SignedNumeral(item.value)
                                 [] item.conv \in {Unsigned, Long} -> Numeral(item.value, 10)
                                 [] item.conv \in {Hex, LongHex}   -> Numeral(item.value, 16)
         /\ item.conv = String => Printed(item) = item.text /\ Shows(item) = item.text
         /\ item.conv \notin TakesArg \cup {Percent} => Printed(item) = << >> /\ Shows(item) = << >>
<1>3. CASE item.conv = Decimal
  <2>1. /\ item.conv # Percent /\ item.conv # Char /\ item.conv \notin {Literal, Char}
        /\ item.conv \notin Numbers \ {Decimal} /\ item.conv # String
        /\ item.conv \notin {Unsigned, Long} /\ item.conv \notin {Hex, LongHex}
        /\ item.conv \in TakesArg
    BY <1>3 DEF Numbers, TakesArg, Literal, Percent, Char, Decimal, Unsigned, Hex, Long, LongHex, String
  <2>2. /\ Printed(item) = Padding(Leftpad(item), Number(item.conv, item.value))
                             \o Number(item.conv, item.value)
    BY <1>3, <2>1, Zenon DEF Printed
  <2>3. /\ Shows(item) = [n \in 1 .. Missing(item.pad, SignedNumeral(item.value)) |-> Zero]
                                 \o SignedNumeral(item.value)
    BY <1>3, <2>1, Zenon DEF Shows
  <2> QED BY <1>3, <2>1, <2>2, <2>3, Zenon
<1> USE DEF Printed, Shows, Numbers, TakesArg, Literal, Percent, Char, Decimal, Unsigned, Hex, Long, LongHex, String
<1>1. CASE item.conv = Percent
  BY <1>1
<1>2. CASE item.conv = Char
  BY <1>2, SMTT(30)
<1>4. CASE item.conv \in {Unsigned, Long}
  BY <1>4, SMTT(30)
<1>5. CASE item.conv \in {Hex, LongHex}
  BY <1>5
<1>6. CASE item.conv = String
  BY <1>6, SMTT(30)
<1>7. CASE item.conv \notin TakesArg \cup {Percent}
  BY <1>7, Zenon
<1> QED BY <1>1, <1>2, <1>3, <1>4, <1>5, <1>6, <1>7, Zenon

LEMMA PaddingIs ==
  ASSUME NEW k \in Int
  PROVE  [n \in 1 .. k |-> Zero] \in Seq(Int)
<1>1. CASE k >= 0
  BY <1>1 DEF Zero
<1>2. CASE k < 0
  <2>1. 1 .. k = 1 .. 0
    BY <1>2
  <2>2. [n \in 1 .. 0 |-> Zero] \in Seq(Int)
    BY DEF Zero
  <2> QED BY <2>1, <2>2, Zenon
<1> QED BY <1>1, <1>2

(* It is what the item should show, wherever the conversion is exact.      *)
LEMMA PrintedIs ==
  ASSUME NEW items, NEW n, ItemOK(items, n), NEW item \in ItemType, item = items[n],
         item.conv # Literal
  PROVE  Printed(item) \in Seq(Int) /\ (Exact(item) => Printed(item) = Shows(item))
<1>0. item.value \in Int /\ item.text \in Seq(Int) /\ item.pad \in Int
  BY SMTT(30) DEF ItemType
<1>1. CASE item.conv = Percent
  <2>1. << Percent >> \in Seq(Int)
    BY DEF Percent
  <2> QED BY <1>1, <2>1, PrintedCases, Zenon
<1>2. CASE item.conv = Char
  <2>1. item.value \in 0 .. BYTE - 1
    BY <1>2, Zenon DEF ItemOK
  <2>2. BYTE \in Nat \ {0}
    BY ByteAssumption
  <2>3. item.value % BYTE = item.value
    BY <1>0, <2>1, <2>2, ModOnce, Zenon
  <2>4. << item.value >> \in Seq(Int)
    BY <1>0
  <2>5. Printed(item) = << item.value % BYTE >> /\ Shows(item) = << item.value >>
    BY <1>2, PrintedCases, Zenon
  <2> QED BY <2>3, <2>4, <2>5, Zenon
<1>3. CASE item.conv = Decimal
  <2>1. PICK str : str = Number(item.conv, item.value)
    OBVIOUS
  <2>2. str \in Seq(Int) /\ (Exact(item) => str = SignedNumeral(item.value))
    <3>1. (CASE item.conv = Decimal            -> SignedNumeral(item.value)
             [] item.conv \in {Unsigned, Long} -> Numeral(item.value, 10)
             [] item.conv \in {Hex, LongHex}   -> Numeral(item.value, 16)) = SignedNumeral(item.value)
      BY <1>3 DEF Decimal, Unsigned, Hex, Long, LongHex
    <3>2. item.conv \in Numbers
      BY <1>3 DEF Numbers
    <3> QED BY <2>1, <3>1, <3>2, NumberIs, Zenon
  <2>3. Len(str) \in Nat
    BY <2>2
  <2>4. 1 .. Leftpad(item) - Len(str) = 1 .. Missing(item.pad, str) /\ Missing(item.pad, str) \in Int
    BY <1>0, <2>3 DEF Leftpad, Missing
  <2>5. PICK pad : pad = [m \in 1 .. Missing(item.pad, str) |-> Zero]
    BY Zenon
  <2>6. pad \in Seq(Int)
    BY <2>4, <2>5, PaddingIs, Zenon
  <2>7. Padding(Leftpad(item), str) = pad
    BY <2>4, <2>5, Zenon DEF Padding
  <2>8. Printed(item) = pad \o str
    BY <1>3, <2>1, <2>7, PrintedCases, Zenon
  <2>9. Exact(item) => Shows(item) = pad \o str
    BY <1>3, <2>2, <2>5, PrintedCases, Zenon
  <2>10. pad \o str \in Seq(Int)
    <3>1. str \in Seq(Int)
      BY <2>2
    <3> QED BY ONLY <2>6, <3>1, ConcatProperties
  <2> QED BY <2>8, <2>9, <2>10, Zenon
<1>4. CASE item.conv \in Numbers \ {Decimal}
  <2>1. item.conv \in Numbers
    BY <1>4
  <2>2. /\ Printed(item) = Number(item.conv, item.value)
        /\ Shows(item) = CASE item.conv = Decimal            -> SignedNumeral(item.value)
                           [] item.conv \in {Unsigned, Long} -> Numeral(item.value, 10)
                           [] item.conv \in {Hex, LongHex}   -> Numeral(item.value, 16)
    BY <1>4, PrintedCases, Zenon
  <2> QED BY <2>1, <2>2, NumberIs, Zenon
<1>5. CASE item.conv = String
  BY <1>0, <1>5, PrintedCases, Zenon
<1>6. CASE item.conv \notin TakesArg \cup {Percent}
  <2>1. << >> \in Seq(Int)
    OBVIOUS
  <2> QED BY <1>6, <2>1, PrintedCases, Zenon
<1> QED BY <1>1, <1>2, <1>3, <1>4, <1>5, <1>6, SMTT(30) DEF Numbers, TakesArg

LEMMA ShownType ==
  ASSUME NEW items, NEW n, ItemOK(items, n), items[n] \in ItemType, Exact(items[n])
  PROVE  Shows(items[n]) \in Seq(Int)
<1>1. PICK item \in ItemType : item = items[n]
  OBVIOUS
<1>2. CASE item.conv = Literal
  <2>1. Shows(item) = << item.value >>
    BY <1>2 DEF Shows, Literal, Percent, Char, Decimal, Unsigned, Hex, Long, LongHex, String
  <2>2. << item.value >> \in Seq(Int)
    BY DEF ItemType
  <2> QED BY <1>1, <2>1, <2>2, Zenon
<1>3. CASE item.conv # Literal
  BY <1>1, <1>3, PrintedIs, Zenon
<1> QED BY <1>2, <1>3

-----------------------------------------------------------------------------
(* The loop of vprintfk: between two turns it stands in front of an item,  *)
(* with the argument of that item next, and has said what the items before *)
(* it show; or it has passed over a '%' at the end.                        *)
Texts(items)     == [n \in DOMAIN items |-> Text(items[n])]
Arguments(items) == [n \in DOMAIN items |-> Argument(items[n])]
Shown(items)     == [n \in DOMAIN items |-> Shows(items[n])]

AllExact(items) == \A n \in 1 .. Len(items) : Exact(items[n])

Before(items, n, at, ar, sd) ==
  /\ at = Len(Joint(Texts(items))[n - 1]) + 1
  /\ ar = Len(Joint(Arguments(items))[n - 1]) + 1
  /\ AllExact(items) => sd = Joint(Shown(items))[n - 1]

Aligned(items, at, ar, sd) ==
  \/ \E n \in 1 .. Len(items) + 1 : Before(items, n, at, ar, sd)
  \/ at > Len(Concat(Texts(items))) /\ ~ AllExact(items)

UartType == [dlab : BOOLEAN, low : Int, high : Int, thr : Seq(Int), wire : Seq(Int)]

IInv ==
  /\ call \in Calls
  /\ format = Concat(Texts(call.items)) /\ args = Concat(Arguments(call.items))
  /\ i \in Nat /\ arg \in Nat
  /\ s_val \in Seq(Int) /\ todo \in Seq(Int) /\ said \in Seq(Int) /\ screen \in Seq(Int)
  /\ uart \in UartType
  /\ pc \in {"init", "loop", "done"}
  /\ pc = "init" => uart = Reset /\ todo = << >>
  /\ pc # "init" => ~ uart.dlab /\ uart.high = 0 /\ uart.low = call.divisor
  /\ pc = "done" => i > Len(format)
  /\ Aligned(call.items, i, arg, said)
  /\ NoneLost /\ BufferFits

LEMMA ItemsOf ==
  ASSUME NEW c \in Calls, NEW items, items = c.items
  PROVE  /\ Len(items) \in Nat /\ DOMAIN items = 1 .. Len(items)
         /\ \A n \in 1 .. Len(items) : items[n] \in ItemType /\ ItemOK(items, n)
         /\ Texts(items) \in Seq(Seq(Int)) /\ Len(Texts(items)) = Len(items)
         /\ Arguments(items) \in Seq(Seq(Seq(Int))) /\ Len(Arguments(items)) = Len(items)
         /\ Len(Shown(items)) = Len(items)
<1>1. items \in Seq(ItemType) /\ \A n \in 1 .. Len(items) : ItemOK(items, n)
  BY CallsAssumption, Zenon
<1>2. items \in Seq(ItemType)
  BY <1>1
<1>3. Len(items) \in Nat /\ DOMAIN items = 1 .. Len(items) /\ \A n \in 1 .. Len(items) : items[n] \in ItemType
  BY ONLY <1>2, LenProperties, ElementOfSeq
<1>4. PICK L \in Nat : L = Len(items) /\ DOMAIN items = 1 .. L
  BY <1>3, Zenon
<1>5. \A n \in 1 .. L : Text(items[n]) \in Seq(Int)
  BY <1>3, <1>4, TextIs
<1>6. \A n \in 1 .. L : Argument(items[n]) \in Seq(Seq(Int))
  BY <1>3, <1>4, ArgumentIs, Zenon
<1>7. Texts(items) \in Seq(Seq(Int)) /\ Len(Texts(items)) = L
  BY ONLY <1>4, <1>5 DEF Texts
<1>8. Arguments(items) \in Seq(Seq(Seq(Int))) /\ Len(Arguments(items)) = L
  BY ONLY <1>4, <1>6 DEF Arguments
<1>9. Len(Shown(items)) = L
  BY ONLY <1>4 DEF Shown
<1> QED BY <1>1, <1>3, <1>4, <1>7, <1>8, <1>9, Zenon

(* Where the text and the argument of an item are.                         *)
Placed(items, n, at, ar, item) ==
  /\ at \in Nat \ {0} /\ ar \in Nat \ {0}
  /\ at + Len(Text(item)) <= Len(Concat(Texts(items))) + 1
  /\ Len(Concat(Texts(items))) \in Nat
  /\ \A k \in 1 .. Len(Text(item)) : Concat(Texts(items))[at + k - 1] = Text(item)[k]
  /\ Len(Argument(item)) = 1 => Concat(Arguments(items))[ar] = Argument(item)[1]
  /\ at + Len(Text(item)) = Len(Joint(Texts(items))[n]) + 1
  /\ ar + Len(Argument(item)) = Len(Joint(Arguments(items))[n]) + 1

LEMMA Place ==
  ASSUME NEW c \in Calls, NEW n \in 1 .. Len(c.items), NEW at, NEW ar, NEW sd,
         Before(c.items, n, at, ar, sd), NEW item, item = c.items[n]
  PROVE  Placed(c.items, n, at, ar, item)
<1> DEFINE items == c.items
           T == Texts(items)
           A == Arguments(items)
<1>1. /\ Len(items) \in Nat /\ DOMAIN items = 1 .. Len(items) /\ item \in ItemType
      /\ T \in Seq(Seq(Int)) /\ Len(T) = Len(items) /\ A \in Seq(Seq(Seq(Int))) /\ Len(A) = Len(items)
  BY ItemsOf, SMTT(30)
<1>2. T[n] = Text(item) /\ A[n] = Argument(item)
  BY <1>1 DEF Texts, Arguments
<1> HIDE DEF T, A
<1>3. n \in 1 .. Len(T)
  BY <1>1, Zenon
<1>4. n \in 1 .. Len(A)
  BY <1>1, Zenon
<1>5. PICK p, q, t, a, F, G :
        /\ p = Len(Joint(T)[n - 1]) /\ q = Len(Joint(A)[n - 1])
        /\ t = Text(item) /\ a = Argument(item) /\ F = Concat(T) /\ G = Concat(A)
  BY Zenon
<1>6. /\ p \in Nat /\ Len(t) \in Nat /\ Len(F) \in Nat
      /\ Len(Joint(T)[n]) = p + Len(t) /\ Len(Joint(T)[n]) <= Len(F)
      /\ \A k \in 1 .. Len(t) : F[p + k] = t[k]
  <2>1. T \in Seq(Seq(Int))
    BY <1>1
  <2>2. LaidOut(T, n)
    BY ONLY <1>3, <2>1, Layout
  <2> QED BY <1>2, <1>5, <2>2, Zenon DEF LaidOut
<1>7. /\ q \in Nat /\ Len(a) \in Nat /\ Len(Joint(A)[n]) = q + Len(a)
      /\ \A k \in 1 .. Len(a) : G[q + k] = a[k]
  <2>1. A \in Seq(Seq(Seq(Int)))
    BY <1>1
  <2>2. LaidOut(A, n)
    BY ONLY <1>4, <2>1, Layout
  <2> QED BY <1>2, <1>5, <2>2, Zenon DEF LaidOut
<1>8. at = p + 1 /\ ar = q + 1
  BY <1>5, Zenon DEF Before, T, A
<1>9. /\ at \in Nat \ {0} /\ ar \in Nat \ {0} /\ at + Len(t) <= Len(F) + 1
      /\ at + Len(t) = Len(Joint(T)[n]) + 1 /\ ar + Len(a) = Len(Joint(A)[n]) + 1
  BY <1>6, <1>7, <1>8, SMTT(30)
<1>10. ASSUME NEW k \in 1 .. Len(t) PROVE F[at + k - 1] = t[k]
  <2>1. at + k - 1 = p + k
    BY <1>6, <1>8
  <2> QED BY <1>6, <2>1, Zenon
<1>11. Len(a) = 1 => G[ar] = a[1]
  <2> SUFFICES ASSUME Len(a) = 1 PROVE G[ar] = a[1]
    OBVIOUS
  <2>1. 1 \in 1 .. 1
    OBVIOUS
  <2> QED BY <1>7, <1>8, <2>1, Zenon
<1> QED BY <1>5, <1>6, <1>9, <1>10, <1>11, Zenon DEF T, A, Placed

(* A turn that puts what the item shows leads to the next item.            *)
LEMMA NextItem ==
  ASSUME NEW c \in Calls, NEW n \in 1 .. Len(c.items), NEW at, NEW ar, NEW sd,
         Before(c.items, n, at, ar, sd), NEW item, item = c.items[n],
         NEW out, Exact(item) => out = Shows(item)
  PROVE  Aligned(c.items, at + Len(Text(item)), ar + Len(Argument(item)), sd \o out)
<1> DEFINE items == c.items
           H == Shown(items)
<1>1. /\ Len(items) \in Nat /\ DOMAIN items = 1 .. Len(items) /\ Len(H) = Len(items)
  BY ItemsOf
<1>2. /\ at + Len(Text(item)) = Len(Joint(Texts(items))[n]) + 1
      /\ ar + Len(Argument(item)) = Len(Joint(Arguments(items))[n]) + 1
  <2>1. Placed(items, n, at, ar, item)
    BY Place
  <2> QED BY <2>1, Zenon DEF Placed
<1>3. (n + 1) - 1 = n /\ n + 1 \in 1 .. Len(items) + 1
  BY <1>1
<1>4. AllExact(items) => sd \o out = Joint(H)[n]
  <2> SUFFICES ASSUME AllExact(items) PROVE sd \o out = Joint(H)[n]
    OBVIOUS
  <2>1. sd = Joint(H)[n - 1]
    BY Zenon DEF Before
  <2>2. Exact(item)
    BY Zenon DEF AllExact
  <2>3. H[n] = Shows(item)
    BY <1>1 DEF Shown
  <2> HIDE DEF H
  <2>4. Joint(H)[n] = Joint(H)[n - 1] \o H[n]
    BY <1>1, JointUnfolds, Zenon
  <2> QED BY <2>1, <2>2, <2>3, <2>4, Zenon
<1>5. Before(items, n + 1, at + Len(Text(item)), ar + Len(Argument(item)), sd \o out)
  BY <1>2, <1>3, <1>4, Zenon DEF Before
<1> QED BY <1>3, <1>5, Zenon DEF Aligned

LEMMA FirstItem ==
  ASSUME NEW c \in Calls
  PROVE  Aligned(c.items, 1, 1, << >>)
<1> DEFINE items == c.items
<1>1. /\ Len(items) \in Nat /\ Len(Texts(items)) = Len(items)
      /\ Len(Arguments(items)) = Len(items) /\ Len(Shown(items)) = Len(items)
  BY ItemsOf
<1>2. /\ Joint(Texts(items))[0] = << >> /\ Joint(Arguments(items))[0] = << >>
      /\ Joint(Shown(items))[0] = << >>
  BY <1>1, JointUnfolds, Zenon
<1>3. Len(<< >>) + 1 = 1 /\ 1 - 1 = 0 /\ 1 \in 1 .. Len(items) + 1
  BY <1>1
<1>4. Before(items, 1, 1, 1, << >>)
  BY <1>2, <1>3, Zenon DEF Before
<1> QED BY <1>3, <1>4, Zenon DEF Aligned

Ended(items, at, sd) ==
  at > Len(Concat(Texts(items))) /\ AllExact(items) => sd = Concat(Shown(items))

(* Inside the format there is an item to come; behind it, all was said.    *)
LEMMA ItemOrEnd ==
  ASSUME NEW c \in Calls, NEW at \in Nat, NEW ar, NEW sd, Aligned(c.items, at, ar, sd)
  PROVE  /\ at <= Len(Concat(Texts(c.items))) =>
              \E n \in 1 .. Len(c.items) : Before(c.items, n, at, ar, sd)
         /\ Ended(c.items, at, sd)
<1> DEFINE items == c.items
           T == Texts(items)
<1>1. /\ Len(items) \in Nat /\ T \in Seq(Seq(Int)) /\ Len(T) = Len(items) /\ Len(Shown(items)) = Len(items)
      /\ \A n \in 1 .. Len(items) : items[n] \in ItemType /\ ItemOK(items, n)
  BY ItemsOf
<1>2. Concat(T) = Joint(T)[Len(items)] /\ Len(Concat(T)) \in Nat
  <2>1. T \in Seq(Seq(Int))
    BY <1>1
  <2>2. Concat(T) = Joint(T)[Len(T)]
    BY DEF Concat
  <2>3. Len(T) \in 0 .. Len(T)
    BY <1>1
  <2>4. Prefix(Int, T, Len(T))
    BY ONLY <2>1, <2>3, PrefixAlways
  <2>5. Joint(T)[Len(T)] \in Seq(Int)
    BY <2>4, Zenon DEF Prefix
  <2>6. Len(Joint(T)[Len(T)]) \in Nat
    BY <2>5
  <2> QED BY <1>1, <2>2, <2>6, Zenon
<1>3. ASSUME at <= Len(Concat(T))
      PROVE  \E n \in 1 .. Len(items) : Before(items, n, at, ar, sd)
  <2>1. PICK n \in 1 .. Len(items) + 1 : Before(items, n, at, ar, sd)
    <3>1. ~ (at > Len(Concat(T)))
      BY <1>2, <1>3
    <3> QED BY <3>1, Zenon DEF Aligned
  <2>2. n # Len(items) + 1
    <3>1. at = Len(Joint(T)[n - 1]) + 1
      BY <2>1, Zenon DEF Before
    <3>2. (Len(items) + 1) - 1 = Len(items)
      BY <1>1
    <3>3. n = Len(items) + 1 => at = Len(Concat(T)) + 1
      BY <1>2, <3>1, <3>2, Zenon
    <3> QED BY <1>2, <1>3, <3>3
  <2>3. n \in 1 .. Len(items)
    BY <1>1, <2>2
  <2> QED BY <2>1, <2>3, Zenon
<1>4. ASSUME at > Len(Concat(T)), AllExact(items)
      PROVE  sd = Concat(Shown(items))
  <2>1. PICK n \in 1 .. Len(items) + 1 : Before(items, n, at, ar, sd)
    BY <1>4, Zenon DEF Aligned
  <2>2. n = Len(items) + 1
    <3> SUFFICES ASSUME n # Len(items) + 1 PROVE FALSE
      OBVIOUS
    <3>1. n \in 1 .. Len(items)
      BY <1>1
    <3>2. PICK item \in ItemType : item = items[n]
      BY <1>1, <3>1
    <3>3. at \in Nat /\ at + Len(Text(item)) <= Len(Concat(T)) + 1
      <4>1. Placed(items, n, at, ar, item)
        BY <2>1, <3>1, <3>2, Place, SMTT(30)
      <4> QED BY <4>1, Zenon DEF Placed
    <3>4. Len(Text(item)) \in Nat \ {0}
      BY TextIs
    <3> QED BY <1>2, <1>4, <3>3, <3>4
  <2>3. (Len(items) + 1) - 1 = Len(items)
    BY <1>1
  <2>4. sd = Joint(Shown(items))[Len(items)]
    BY <1>4, <2>1, <2>2, <2>3, Zenon DEF Before
  <2>5. Concat(Shown(items)) = Joint(Shown(items))[Len(items)]
    BY <1>1, Zenon DEF Concat
  <2> QED BY <2>4, <2>5, Zenon
<1> QED BY <1>3, <1>4, Zenon DEF Ended

-----------------------------------------------------------------------------
(* The devices.                                                            *)
LEMMA FirstPut ==
  ASSUME NEW d \in Seq(Int), NEW t \in Seq(Int), t # << >>
  PROVE  /\ Head(t) \in Int /\ Tail(t) \in Seq(Int) /\ Append(d, Head(t)) \in Seq(Int)
         /\ << Head(t) >> \in Seq(Int)
         /\ Append(d, Head(t)) \o Tail(t) = d \o t
         /\ (d \o << Head(t) >>) \o Tail(t) = d \o t
<1>1. PICK h \in Int, u \in Seq(Int) :
        /\ h = Head(t) /\ u = Tail(t) /\ Len(u) = Len(t) - 1
        /\ \A k \in 1 .. Len(u) : u[k] = t[k + 1]
  <2>1. /\ Head(t) \in Int /\ Tail(t) \in Seq(Int) /\ Len(Tail(t)) = Len(t) - 1
        /\ \A k \in 1 .. Len(Tail(t)) : Tail(t)[k] = t[k + 1]
    BY HeadTailProperties
  <2> QED BY <2>1, Zenon
<1>2. Len(t) \in Nat \ {0} /\ h = t[1]
  BY <1>1, EmptySeq
<1>3. PICK e \in Seq(Int) : e = Append(d, h) /\ e = d \o << h >> /\ Len(e) = Len(d) + 1
                            /\ e[Len(d) + 1] = h /\ \A k \in 1 .. Len(d) : e[k] = d[k]
  <2>1. Append(d, h) = d \o << h >>
    BY AppendIsConcat
  <2>2. PICK one : one = << h >>
    BY Zenon
  <2>3. one \in Seq(Int) /\ Len(one) = 1 /\ one[1] = h /\ 1 \in 1 .. 1
    BY <2>2
  <2>4. one \in Seq(Int)
    BY <2>3
  <2>5. PICK e : e = d \o one
    BY Zenon
  <2>6. /\ e \in Seq(Int) /\ Len(e) = Len(d) + Len(one)
        /\ \A k \in 1 .. Len(d) : e[k] = d[k]
        /\ \A k \in 1 .. Len(one) : e[Len(d) + k] = one[k]
    BY <2>4, <2>5, Joined
  <2> QED BY <2>1, <2>2, <2>3, <2>5, <2>6, Zenon
<1>4. PICK v, w : v = e \o u /\ w = d \o t
  BY Zenon
<1>5. /\ v \in Seq(Int) /\ Len(e) \in Nat /\ Len(u) \in Nat /\ Len(v) = Len(e) + Len(u)
      /\ \A k \in 1 .. Len(e) : v[k] = e[k]
      /\ \A k \in 1 .. Len(u) : v[Len(e) + k] = u[k]
  BY <1>4, Joined
<1>6. /\ w \in Seq(Int) /\ Len(d) \in Nat /\ Len(w) = Len(d) + Len(t)
      /\ \A k \in 1 .. Len(d) : w[k] = d[k]
      /\ \A k \in 1 .. Len(t) : w[Len(d) + k] = t[k]
  BY <1>4, Joined
<1>7. Len(v) = Len(w) /\ Len(v) \in Nat
  BY <1>1, <1>2, <1>3, <1>5, <1>6
<1>8. ASSUME NEW k \in 1 .. Len(v) PROVE v[k] = w[k]
  <2>1. CASE k <= Len(d)
    <3>1. k \in 1 .. Len(d) /\ k \in 1 .. Len(e)
      BY <1>3, <1>6, <1>7, <2>1
    <3> QED BY <1>3, <1>5, <1>6, <3>1, Zenon
  <2>2. CASE k = Len(d) + 1
    <3>1. k \in 1 .. Len(e) /\ 1 \in 1 .. Len(t)
      BY <1>2, <1>3, <1>6, <2>2
    <3>2. v[k] = h
      BY <1>3, <1>5, <2>2, <3>1, Zenon
    <3>3. w[k] = t[1]
      BY <1>6, <2>2, <3>1, Zenon
    <3> QED BY <1>2, <3>2, <3>3
  <2>3. CASE k > Len(d) + 1
    <3>1. PICK j \in 1 .. Len(u) : j = k - Len(e)
      <4>1. k - Len(e) \in 1 .. Len(u)
        BY <1>3, <1>5, <1>6, <1>7, <2>3, SMTT(30)
      <4> QED BY <4>1, Zenon
    <3>2. k = Len(e) + j /\ k = Len(d) + (j + 1) /\ j + 1 \in 1 .. Len(t)
      BY <1>1, <1>2, <1>3, <1>5, <1>6, <1>7, <3>1, SMTT(30)
    <3>3. v[k] = u[j]
      BY <1>5, <3>2, Zenon
    <3>4. w[k] = t[j + 1]
      BY <1>6, <3>2, Zenon
    <3> QED BY <1>1, <3>3, <3>4, Zenon
  <2>4. k <= Len(d) \/ k = Len(d) + 1 \/ k > Len(d) + 1
    <3>1. k \in Int /\ Len(d) \in Int
      BY <1>7
    <3> QED BY ONLY <3>1
  <2> QED BY <2>1, <2>2, <2>3, <2>4, Zenon
<1>9. v = w
  BY <1>5, <1>6, <1>7, <1>8, SeqEqual, Zenon
<1>10. << h >> \in Seq(Int)
  OBVIOUS
<1>11. e \o u = d \o t
  BY <1>4, <1>9, Zenon
<1>12. Append(d, h) \o u = d \o t /\ (d \o << h >>) \o u = d \o t /\ Append(d, h) \in Seq(Int)
  BY <1>3, <1>11, Zenon
<1>13. h = Head(t) /\ u = Tail(t)
  BY <1>1, Zenon
<1> QED BY <1>10, <1>12, <1>13, Zenon

LEMMA Ports ==
  /\ SERIAL_DATA_PORT # SERIAL_LINE_COMMAND_PORT /\ SERIAL_DATA_PORT # SERIAL_FIFO_COMMAND_PORT
  /\ SERIAL_LINE_COMMAND_PORT # SERIAL_FIFO_COMMAND_PORT
  /\ SERIAL_MODEM_COMMAND_PORT # SERIAL_DATA_PORT
  /\ SERIAL_MODEM_COMMAND_PORT # SERIAL_LINE_COMMAND_PORT
  /\ SERIAL_MODEM_COMMAND_PORT # SERIAL_FIFO_COMMAND_PORT
  /\ SERIAL_LINE_ENABLE_DLAB >= 128 /\ ~ (3 >= 128)
BY DEF SERIAL_DATA_PORT, SERIAL_FIFO_COMMAND_PORT, SERIAL_LINE_COMMAND_PORT,
       SERIAL_MODEM_COMMAND_PORT, SERIAL_LINE_ENABLE_DLAB

(* A UART with nothing to send.                                            *)
Idle(u, dlab, low) ==
  /\ u \in UartType /\ u.dlab = dlab /\ u.low = low /\ u.high = 0
  /\ u.thr = << >> /\ u.wire = << >>

LEMMA SerialInitIs ==
  ASSUME NEW divisor \in 0 .. BYTE - 1
  PROVE  Idle(serial_init(Reset, divisor), FALSE, divisor)
<1>1. BYTE \in Nat \ {0} /\ divisor \in Int
  BY ByteAssumption
<1>2. divisor % BYTE = divisor
  BY <1>1, ModOnce
<1>3. PICK top \in Int : top = (divisor \div BYTE) % BYTE
  <2>1. (divisor \div BYTE) \in Int
    BY <1>1
  <2>2. (divisor \div BYTE) % BYTE \in Int
    BY <1>1, <2>1
  <2> QED BY <2>2, Zenon
<1>4. Idle(Reset, FALSE, 12)
  BY DEF Idle, Reset, UartType
<1>5. ASSUME NEW u, NEW dlab \in BOOLEAN, NEW low, Idle(u, dlab, low), NEW byte \in Int
      PROVE  /\ byte >= 128 => Idle(PortOut(u, SERIAL_LINE_COMMAND_PORT, byte), TRUE, low)
             /\ ~ (byte >= 128) => Idle(PortOut(u, SERIAL_LINE_COMMAND_PORT, byte), FALSE, low)
  <2>1. PortOut(u, SERIAL_LINE_COMMAND_PORT, byte) = [u EXCEPT !.dlab = (byte >= 128)]
    BY Ports, Zenon DEF PortOut
  <2>2. PICK b \in BOOLEAN : b = (byte >= 128)
    <3>1. CASE byte >= 128
      <4>1. TRUE = (byte >= 128)
        BY <3>1, Zenon
      <4> QED BY <4>1, Zenon
    <3>2. CASE ~ (byte >= 128)
      <4>1. FALSE = (byte >= 128)
        BY <3>2
      <4> QED BY <4>1, Zenon
    <3> QED BY <3>1, <3>2, Zenon
  <2>3. Idle([u EXCEPT !.dlab = b], b, low)
    BY <1>5 DEF Idle, UartType
  <2>4. (byte >= 128 => b = TRUE) /\ (~ (byte >= 128) => b = FALSE)
    BY <2>2, Zenon
  <2>5. Idle(PortOut(u, SERIAL_LINE_COMMAND_PORT, byte), b, low)
    BY <2>1, <2>2, <2>3, Zenon
  <2> QED BY <2>4, <2>5, ZenonT(40)
<1>6. ASSUME NEW u, NEW low, Idle(u, TRUE, low), NEW byte \in Int
      PROVE  Idle(PortOut(u, SERIAL_DATA_PORT, byte), TRUE, byte)
  <2>1. PortOut(u, SERIAL_DATA_PORT, byte) = [u EXCEPT !.low = byte]
    BY <1>6, Ports, Zenon DEF PortOut, Idle
  <2>2. Idle([u EXCEPT !.low = byte], TRUE, byte)
    BY <1>6 DEF Idle, UartType
  <2> QED BY <2>1, <2>2, ZenonT(40)
<1>7. ASSUME NEW u, NEW dlab \in BOOLEAN, NEW low, Idle(u, dlab, low), NEW byte \in Int
      PROVE  /\ Idle(PortOut(u, SERIAL_FIFO_COMMAND_PORT, byte), dlab, low)
             /\ Idle(PortOut(u, SERIAL_MODEM_COMMAND_PORT, byte), dlab, low)
  <2>1. PortOut(u, SERIAL_FIFO_COMMAND_PORT, byte) = [u EXCEPT !.thr = << >>]
    BY Ports, ZenonT(40) DEF PortOut
  <2>2. PortOut(u, SERIAL_MODEM_COMMAND_PORT, byte) = u
    BY Ports, Zenon DEF PortOut
  <2>3. Idle([u EXCEPT !.thr = << >>], dlab, low)
    BY <1>7 DEF Idle, UartType
  <2> QED BY <1>7, <2>1, <2>2, <2>3, ZenonT(40)
<1>8. PICK d : d = PortOut(Reset, SERIAL_LINE_COMMAND_PORT, SERIAL_LINE_ENABLE_DLAB)
  OBVIOUS
<1>9. PICK h : h = PortOut(d, SERIAL_DATA_PORT, top)
  OBVIOUS
<1>10. PICK l : l = PortOut(h, SERIAL_DATA_PORT, divisor)
  OBVIOUS
<1>11. PICK n : n = PortOut(l, SERIAL_LINE_COMMAND_PORT, 3)
  OBVIOUS
<1>12. PICK f : f = PortOut(n, SERIAL_FIFO_COMMAND_PORT, 199)
  OBVIOUS
<1>13. Idle(d, TRUE, 12)
  <2>1. SERIAL_LINE_ENABLE_DLAB \in Int /\ FALSE \in BOOLEAN
    BY DEF SERIAL_LINE_ENABLE_DLAB
  <2> QED BY <1>4, <1>5, <1>8, <2>1, Ports, Zenon
<1>14. Idle(h, TRUE, top)
  BY <1>6, <1>9, <1>13, Zenon
<1>15. Idle(l, TRUE, divisor)
  BY <1>1, <1>6, <1>10, <1>14, Zenon
<1>16. Idle(n, FALSE, divisor)
  <2>1. 3 \in Int /\ TRUE \in BOOLEAN
    OBVIOUS
  <2> QED BY <1>5, <1>11, <1>15, <2>1, Ports, Zenon
<1>17. 199 \in Int /\ 11 \in Int /\ FALSE \in BOOLEAN
  OBVIOUS
<1>18. Idle(f, FALSE, divisor)
  BY <1>7, <1>12, <1>16, <1>17, Zenon
<1>19. Idle(PortOut(f, SERIAL_MODEM_COMMAND_PORT, 11), FALSE, divisor)
  BY <1>7, <1>17, <1>18, Zenon
<1>20. serial_init(Reset, divisor) = PortOut(f, SERIAL_MODEM_COMMAND_PORT, 11)
  BY <1>2, <1>3, <1>8, <1>9, <1>10, <1>11, <1>12, Zenon DEF serial_init
<1> QED BY <1>19, <1>20, Zenon

(* On the data port, after serial_init.                                    *)
LEMMA DataPort ==
  ASSUME NEW u \in UartType, ~ u.dlab, NEW byte \in Int
  PROVE  /\ PortOut(u, SERIAL_DATA_PORT, byte) = [u EXCEPT !.thr = << byte >>]
         /\ [u EXCEPT !.thr = << byte >>] \in UartType
<1>1. PortOut(u, SERIAL_DATA_PORT, byte) = [u EXCEPT !.thr = << byte >>]
  BY Ports, Zenon DEF PortOut
<1>2. << byte >> \in Seq(Int)
  OBVIOUS
<1>3. [u EXCEPT !.thr = << byte >>] \in UartType
  BY <1>2, Zenon DEF UartType
<1> QED BY <1>1, <1>3, SMTT(30)

-----------------------------------------------------------------------------
(* The steps.  Those that leave the text alone keep the alignment.         *)
LEMMA Begins == Init => IInv
<1> SUFFICES ASSUME Init PROVE IInv
  OBVIOUS
<1>1. /\ call \in Calls /\ i = 1 /\ arg = 1 /\ pc = "init" /\ uart = Reset
      /\ s_val = << >> /\ todo = << >> /\ said = << >> /\ screen = << >>
      /\ format = Concat(Texts(call.items)) /\ args = Concat(Arguments(call.items))
  BY Zenon DEF Init, Texts, Arguments
<1>2. << >> \in Seq(Int) /\ 1 \in Nat /\ Len(<< >>) < S_VAL /\ << >> \o << >> = << >>
  <2>1. << >> \in Seq(Int)
    OBVIOUS
  <2> QED BY <2>1, BufferAssumption, ConcatEmptySeq
<1>3. uart \in UartType /\ uart.wire = << >> /\ uart.thr = << >>
  BY <1>1 DEF Reset, UartType
<1>4. Aligned(call.items, i, arg, said)
  BY <1>1, FirstItem, Zenon
<1>5. NoneLost
  BY <1>1, <1>2, <1>3, Zenon DEF NoneLost
<1>6. BufferFits
  BY <1>1, <1>2, Zenon DEF BufferFits
<1>7. pc # "done" /\ pc \in {"init", "loop", "done"}
  BY <1>1
<1> QED BY <1>1, <1>2, <1>3, <1>4, <1>5, <1>6, <1>7, Zenon DEF IInv

LEMMA SerialInitKeeps == IInv /\ SerialInit => IInv'
<1> SUFFICES ASSUME IInv, SerialInit PROVE IInv'
  OBVIOUS
<1>1. /\ UNCHANGED << call, format, args, i, arg, s_val, todo, screen, said >>
      /\ pc = "init" /\ pc' = "loop" /\ uart' = serial_init(uart, call.divisor)
  BY SMTT(30) DEF SerialInit
<1>2. uart = Reset /\ call \in Calls /\ todo = << >>
  BY <1>1 DEF IInv
<1>3. call.divisor \in 0 .. BYTE - 1
  BY <1>2, CallsAssumption
<1>4. Idle(uart', FALSE, call.divisor)
  BY <1>1, <1>2, <1>3, SerialInitIs, Zenon
<1>5. uart.wire = << >> /\ uart.thr = << >>
  BY <1>2 DEF Reset
<1>6. NoneLost'
  BY <1>1, <1>4, <1>5, Zenon DEF IInv, NoneLost, Idle
<1>7. BufferFits'
  BY <1>1, Zenon DEF IInv, BufferFits, Items
<1>8. pc' # "init" /\ pc' # "done" /\ pc' \in {"init", "loop", "done"}
  BY <1>1
<1>9. Aligned(call.items, i, arg, said)'
  BY <1>1, Zenon DEF IInv
<1> QED BY <1>1, <1>4, <1>6, <1>7, <1>8, <1>9, Zenon DEF IInv, Idle

(* A turn puts str, and only todo and said change on that account.         *)
LEMMA Said ==
  ASSUME IInv, todo = << >>, NEW str \in Seq(Int), Say(str), UNCHANGED << call, screen, uart >>
  PROVE  todo' \in Seq(Int) /\ said' \in Seq(Int) /\ said' = said \o str /\ NoneLost'
<1> DEFINE D == IF call.device > DEVICE_SCREEN THEN uart.wire \o uart.thr ELSE screen
<1>1. D \in Seq(Int)
  <2>1. screen \in Seq(Int) /\ uart.wire \in Seq(Int) /\ uart.thr \in Seq(Int)
    BY DEF IInv, UartType
  <2>2. uart.wire \o uart.thr \in Seq(Int)
    BY ONLY <2>1, ConcatProperties
  <2> QED BY <2>1, <2>2, Zenon
<1>2. said = D /\ said \in Seq(Int)
  <2>1. said = D \o << >> /\ said \in Seq(Int)
    BY DEF IInv, NoneLost
  <2> HIDE DEF D
  <2>2. D \o << >> = D
    BY ONLY <1>1, ConcatEmptySeq
  <2> QED BY <2>1, <2>2, Zenon
<1>3. todo' = str /\ said' = said \o str
  BY DEF Say
<1>4. said \o str \in Seq(Int)
  <2>1. said \in Seq(Int)
    BY <1>2
  <2> QED BY ONLY <2>1, str \in Seq(Int), ConcatProperties
<1>5. D' = D
  OBVIOUS
<1>6. NoneLost'
  <2>1. said' = D' \o todo'
    BY <1>2, <1>3, <1>5, Zenon
  <2> QED BY <2>1 DEF NoneLost
<1> QED BY <1>3, <1>4, <1>6, Zenon

LEMMA PlainKeeps == IInv /\ Plain => IInv'
<1> SUFFICES ASSUME IInv, Plain PROVE IInv'
  OBVIOUS
<1>1. /\ UNCHANGED << call, format, args, arg, s_val, screen, uart, pc >> /\ pc = "loop"
      /\ todo = << >> /\ i <= Len(format) /\ format[i] # Percent
      /\ Say(<< format[i] >>) /\ i' = i + 1
  BY DEF Plain
<1>2. /\ call \in Calls /\ i \in Nat /\ Aligned(call.items, i, arg, said)
      /\ format = Concat(Texts(call.items))
  BY DEF IInv
<1>3. PICK n \in 1 .. Len(call.items) : Before(call.items, n, i, arg, said)
  BY <1>1, <1>2, ItemOrEnd, Zenon
<1>4. PICK item \in ItemType : item = call.items[n]
  BY <1>2, ItemsOf, SMTT(30)
<1>5. Placed(call.items, n, i, arg, item)
  BY <1>2, <1>3, <1>4, Place
<1>6. format[i] = Text(item)[1]
  <2>1. Len(Text(item)) \in Nat \ {0}
    BY TextIs
  <2>2. 1 \in 1 .. Len(Text(item)) /\ i + 1 - 1 = i
    BY <1>2, <2>1
  <2> QED BY <1>2, <1>5, <2>2, Zenon DEF Placed
<1>7. item.conv = Literal /\ Len(Text(item)) = 1 /\ format[i] = item.value
  BY <1>1, <1>6, TextIs, Zenon
<1>8. Argument(item) = << >> /\ arg \in Nat
  <2>1. item.conv \notin TakesArg
    BY <1>7 DEF Literal, TakesArg, Char, Decimal, Unsigned, Hex, Long, LongHex, String
  <2> QED BY <2>1, ArgumentIs, Zenon DEF IInv
<1>9. Shows(item) = << format[i] >> /\ << format[i] >> \in Seq(Int)
  <2>1. Shows(item) = << item.value >>
    BY <1>7 DEF Shows, Literal, Percent, Char, Decimal, Unsigned, Hex, Long, LongHex, String
  <2>2. << item.value >> \in Seq(Int)
    BY DEF ItemType
  <2> QED BY <1>7, <2>1, <2>2, Zenon
<1>10. todo' \in Seq(Int) /\ said' \in Seq(Int) /\ said' = said \o << format[i] >> /\ NoneLost'
  <2>1. UNCHANGED << call, screen, uart >>
    BY <1>1
  <2> QED BY <1>1, <1>9, <2>1, Said, Zenon
<1>11. Aligned(call.items, i, arg, said)'
  <2>1. Aligned(call.items, i + Len(Text(item)), arg + Len(Argument(item)), said \o << format[i] >>)
    BY <1>2, <1>3, <1>4, <1>9, NextItem, Zenon
  <2>2. arg + Len(Argument(item)) = arg
    BY <1>8
  <2> QED BY <1>1, <1>7, <1>10, <2>1, <2>2, ZenonT(40)
<1>12. BufferFits'
  BY <1>1, Zenon DEF IInv, BufferFits, Items
<1>13. i' \in Nat /\ pc' # "init" /\ pc' # "done" /\ pc # "init"
  BY <1>1, <1>2
<1> QED BY <1>1, <1>10, <1>11, <1>12, <1>13, Zenon DEF IInv

(* A turn of a conversion, its '%' being at i: conv is the character found *)
(* at at, and v the argument.                                              *)
Turn(leftpad, at, conv, v) ==
  /\ i' = at + 1
  /\ arg' = IF conv \in TakesArg THEN arg + 1 ELSE arg
  /\ s_val' = IF conv \in TakesArg \ {Char, String} THEN Number(conv, v[1]) ELSE s_val
  /\ Say(CASE conv = Percent -> << Percent >>
           [] conv = Char    -> << v[1] % BYTE >>
           [] conv = Decimal -> Padding(leftpad, s_val') \o s_val'
           [] conv \in {Unsigned, Hex, Long, LongHex} -> s_val'
           [] conv = String  -> v
           [] OTHER          -> << >>)

LEMMA ConversionIs ==
  ASSUME Conversion
  PROVE  /\ UNCHANGED << call, format, args, screen, uart, pc >> /\ pc = "loop" /\ todo = << >>
         /\ i <= Len(format) /\ format[i] = Percent
         /\ isdigitk(CharAt(i + 1) - Zero) =>
              Turn(CharAt(i + 1) - Zero, i + 2, CharAt(i + 2), args[arg])
         /\ ~ isdigitk(CharAt(i + 1) - Zero) =>
              Turn(0, i + 1, CharAt(i + 1), args[arg])
<1>1. /\ UNCHANGED << call, format, args, screen, uart, pc >> /\ pc = "loop" /\ todo = << >>
      /\ i <= Len(format) /\ format[i] = Percent
  BY DEF Conversion
<1>2. ASSUME isdigitk(CharAt(i + 1) - Zero)
      PROVE  Turn(CharAt(i + 1) - Zero, i + 2, CharAt(i + 2), args[arg])
  BY <1>2, Zenon DEF Conversion, Turn, Past
<1>3. ASSUME ~ isdigitk(CharAt(i + 1) - Zero)
      PROVE  Turn(0, i + 1, CharAt(i + 1), args[arg])
  BY <1>3, Zenon DEF Conversion, Turn, Past
<1> QED BY <1>1, <1>2, <1>3

(* The turn for an item that is a conversion.                              *)
LEMMA ItemTurn ==
  ASSUME IInv, Conversion, NEW n \in 1 .. Len(call.items), Before(call.items, n, i, arg, said),
         NEW item \in ItemType, item = call.items[n], item.conv # Literal
  PROVE  \E at \in Nat : at + 1 = i + Len(Text(item)) /\ Turn(Leftpad(item), at, item.conv, args[arg])
<1>1. /\ call \in Calls /\ i \in Nat /\ format = Concat(Texts(call.items))
      /\ ItemOK(call.items, n)
  BY ItemsOf, SMTT(30) DEF IInv
<1>2. Placed(call.items, n, i, arg, item)
  BY <1>1, Place
<1>3. /\ i + Len(Text(item)) <= Len(format) + 1 /\ Len(format) \in Nat
      /\ \A k \in 1 .. Len(Text(item)) : format[i + k - 1] = Text(item)[k]
  BY <1>1, <1>2, Zenon DEF Placed
<1>4. item.pad \in -1 .. 9 /\ item.conv \in Nat
  BY DEF ItemType
<1>5. CASE item.pad < 0
  <2>1. Len(Text(item)) = 2 /\ Text(item)[2] = item.conv
    BY <1>5, TextIs, Zenon
  <2>2. 2 \in 1 .. 2 /\ i + 2 - 1 = i + 1 /\ i + 1 <= Len(format) /\ i + 1 \in Nat
        /\ (i + 1) + 1 = i + 2
    BY <1>1, <1>3, <2>1
  <2>3. CharAt(i + 1) = item.conv
    BY <1>3, <2>1, <2>2, Zenon DEF CharAt
  <2>4. ~ isdigitk(CharAt(i + 1) - Zero)
    BY <1>1, <2>3, Zenon DEF ItemOK
  <2>5. Turn(0, i + 1, item.conv, args[arg])
    BY <2>3, <2>4, ConversionIs, Zenon
  <2>6. Leftpad(item) = 0
    BY <1>5 DEF Leftpad
  <2> QED BY <2>1, <2>2, <2>5, <2>6, Zenon
<1>6. CASE ~ (item.pad < 0)
  <2>0. item.pad >= 0
    BY <1>4, <1>6
  <2>1. Len(Text(item)) = 3 /\ Text(item)[2] = Zero + item.pad /\ Text(item)[3] = item.conv
    BY <2>0, TextIs, Zenon
  <2>2. /\ 2 \in 1 .. 3 /\ i + 2 - 1 = i + 1 /\ i + 1 <= Len(format)
        /\ 3 \in 1 .. 3 /\ i + 3 - 1 = i + 2 /\ i + 2 <= Len(format) /\ i + 2 \in Nat
        /\ (i + 2) + 1 = i + 3
    BY <1>1, <1>3, <2>1
  <2>3. CharAt(i + 1) = Zero + item.pad
    BY <1>3, <2>1, <2>2, Zenon DEF CharAt
  <2>4. CharAt(i + 2) = item.conv
    BY <1>3, <2>1, <2>2, Zenon DEF CharAt
  <2>5. CharAt(i + 1) - Zero = item.pad /\ isdigitk(CharAt(i + 1) - Zero)
    BY <1>4, <2>0, <2>3, SMTT(30) DEF Zero, isdigitk
  <2>6. Turn(CharAt(i + 1) - Zero, i + 2, CharAt(i + 2), args[arg])
    BY <2>5, ConversionIs, Zenon
  <2>7. Turn(item.pad, i + 2, item.conv, args[arg])
    BY <2>4, <2>5, <2>6, Zenon
  <2>8. Leftpad(item) = item.pad
    BY <1>6 DEF Leftpad
  <2> QED BY <2>1, <2>2, <2>7, <2>8, Zenon
<1> QED BY <1>5, <1>6, SMTT(30)

(* It takes the argument of the item and puts what the item prints.        *)
LEMMA ItemPuts ==
  ASSUME NEW item \in ItemType, NEW at, NEW v, Turn(Leftpad(item), at, item.conv, v),
         item.conv # Literal, arg \in Nat,
         item.conv \in TakesArg => v = Argument(item)[1]
  PROVE  /\ arg' = arg + Len(Argument(item)) /\ Say(Printed(item))
         /\ s_val' = IF item.conv \in Numbers THEN Number(item.conv, item.value) ELSE s_val
<1> DEFINE conv == item.conv
<1>1. TakesArg \ {Char, String} = Numbers /\ Numbers \ {Decimal} = {Unsigned, Hex, Long, LongHex}
  BY DEF TakesArg, Numbers, Char, Decimal, Unsigned, Hex, Long, LongHex, String
<1>2. arg' = arg + Len(Argument(item))
  <2>1. CASE conv \in TakesArg
    BY <2>1, ArgumentIs, Zenon DEF Turn
  <2>2. CASE conv \notin TakesArg
    <3>1. Argument(item) = << >>
      BY <2>2, ArgumentIs, Zenon
    <3>2. Len(Argument(item)) = 0
      BY <3>1
    <3>3. arg' = arg
      BY <2>2, Zenon DEF Turn
    <3> QED BY <3>2, <3>3
  <2> QED BY <2>1, <2>2
<1>3. conv \in TakesArg \ {String} => v[1] = item.value
  <2> SUFFICES ASSUME conv \in TakesArg \ {String} PROVE v[1] = item.value
    OBVIOUS
  <2>1. v = << item.value >>
    BY ArgumentIs, Zenon
  <2> QED BY <2>1
<1>4. conv = String => v = item.text
  <2>1. String \in TakesArg
    BY DEF TakesArg
  <2> QED BY <2>1, ArgumentIs, Zenon
<1>5. s_val' = IF conv \in Numbers THEN Number(conv, item.value) ELSE s_val
  <2>1. conv \in Numbers => conv \in TakesArg \ {String}
    BY DEF TakesArg, Numbers, Char, Decimal, Unsigned, Hex, Long, LongHex, String
  <2> QED BY <1>1, <1>3, <2>1, Zenon DEF Turn
<1>6. Say(Printed(item))
  <2>1. /\ Char \in TakesArg \ {String} /\ Decimal \in Numbers
        /\ \A c \in Numbers : c # Char /\ c # Percent /\ c # String
    BY DEF TakesArg, Numbers, Percent, Char, Decimal, Unsigned, Hex, Long, LongHex, String
  <2>2. /\ conv = Char => v[1] % BYTE = item.value % BYTE
        /\ conv \in Numbers => s_val' = Number(conv, item.value)
        /\ conv = String => v = item.text
    BY <1>3, <1>4, <1>5, <2>1, Zenon
  <2>3. PICK s, w : s = s_val' /\ w = v[1] % BYTE
    OBVIOUS
  <2>4. Say(CASE conv = Percent -> << Percent >>
              [] conv = Char    -> << w >>
              [] conv = Decimal -> Padding(Leftpad(item), s) \o s
              [] conv \in {Unsigned, Hex, Long, LongHex} -> s
              [] conv = String  -> v
              [] OTHER          -> << >>)
    BY <2>3, Zenon DEF Turn
  <2>5. (CASE conv = Percent -> << Percent >>
           [] conv = Char    -> << w >>
           [] conv = Decimal -> Padding(Leftpad(item), s) \o s
           [] conv \in {Unsigned, Hex, Long, LongHex} -> s
           [] conv = String  -> v
           [] OTHER          -> << >>) = Printed(item)
    <3> DEFINE X == CASE conv = Percent -> << Percent >>
                      [] conv = Char    -> << w >>
                      [] conv = Decimal -> Padding(Leftpad(item), s) \o s
                      [] conv \in {Unsigned, Hex, Long, LongHex} -> s
                      [] conv = String  -> v
                      [] OTHER          -> << >>
    <3>0. /\ conv = Percent => X = << Percent >>
          /\ conv = Char => X = << w >>
          /\ conv = Decimal => X = Padding(Leftpad(item), s) \o s
          /\ conv \in Numbers \ {Decimal} => X = s
          /\ conv = String => X = v
          /\ conv \notin TakesArg \cup {Percent} => X = << >>
      BY SMTT(30) DEF TakesArg, Numbers, Percent, Char, Decimal, Unsigned, Hex, Long, LongHex, String
    <3> HIDE DEF X
    <3>1. CASE conv = Percent
      BY <3>0, <3>1, PrintedCases, Zenon DEF X
    <3>2. CASE conv = Char
      BY <2>2, <2>3, <3>0, <3>2, PrintedCases, Zenon DEF X
    <3>3. CASE conv = Decimal
      BY <2>1, <2>2, <2>3, <3>0, <3>3, PrintedCases, Zenon DEF X
    <3>4. CASE conv \in Numbers \ {Decimal}
      BY <2>2, <2>3, <3>0, <3>4, PrintedCases, Zenon DEF X
    <3>5. CASE conv = String
      BY <2>2, <3>0, <3>5, PrintedCases, Zenon DEF X
    <3>6. CASE conv \notin TakesArg \cup {Percent}
      BY <3>0, <3>6, PrintedCases, Zenon DEF X
    <3>7. \/ conv = Percent \/ conv = Char \/ conv = Decimal \/ conv \in Numbers \ {Decimal}
          \/ conv = String \/ conv \notin TakesArg \cup {Percent}
      BY DEF TakesArg, Numbers
    <3> QED BY <3>1, <3>2, <3>3, <3>4, <3>5, <3>6, <3>7, ZenonT(40)
  <2> QED BY <2>4, <2>5, Zenon
<1> QED BY <1>2, <1>5, <1>6

(* A '%' that is no conversion: the turn passes the end of the format.     *)
LEMMA LoneTurn ==
  ASSUME IInv, Conversion, NEW n \in 1 .. Len(call.items), Before(call.items, n, i, arg, said),
         NEW item \in ItemType, item = call.items[n], item.conv = Literal
  PROVE  /\ i' \in Nat /\ i' > Len(format) /\ ~ AllExact(call.items)
         /\ arg' = arg /\ s_val' = s_val /\ Say(<< >>)
<1> DEFINE items == call.items
<1>1. /\ call \in Calls /\ i \in Nat /\ arg \in Nat /\ format = Concat(Texts(items))
      /\ ItemOK(items, n) /\ Len(items) \in Nat
      /\ Texts(items) \in Seq(Seq(Int)) /\ Len(Texts(items)) = Len(items)
  BY ItemsOf, SMTT(30) DEF IInv
<1>2. Placed(items, n, i, arg, item)
  BY <1>1, Place, Zenon
<1>3. Len(Text(item)) = 1 /\ Text(item)[1] = item.value
  BY TextIs, Zenon
<1>4. item.value = Percent
  <2>1. 1 \in 1 .. 1 /\ i + 1 - 1 = i
    BY <1>1
  <2>2. format[i] = Text(item)[1]
    BY <1>1, <1>2, <1>3, <2>1, Zenon DEF Placed
  <2> QED BY <1>3, <2>2, ConversionIs, Zenon
<1>5. ~ AllExact(items)
  <2>1. ~ Exact(item)
    BY <1>4 DEF Exact, Literal, Decimal, Unsigned, Hex, Long, LongHex
  <2> QED BY <2>1, Zenon DEF AllExact
<1>6. Len(format) = Len(Joint(Texts(items))[Len(items)]) /\ Len(format) \in Nat
  <2>1. Texts(items) \in Seq(Seq(Int))
    BY <1>1
  <2>2. Concat(Texts(items)) = Joint(Texts(items))[Len(Texts(items))]
    BY DEF Concat
  <2> QED BY <1>1, <1>2, <2>2, Zenon DEF Placed
<1>7. ASSUME NEW at \in Nat, NEW leftpad, at > Len(format), NEW v, Turn(leftpad, at, CharAt(at), v)
      PROVE  i' \in Nat /\ i' > Len(format) /\ arg' = arg /\ s_val' = s_val /\ Say(<< >>)
  <2>1. CharAt(at) = 0
    BY <1>6, <1>7 DEF CharAt
  <2>2. /\ 0 \notin TakesArg /\ 0 \notin TakesArg \ {Char, String} /\ 0 # Percent /\ 0 # Char
        /\ 0 # Decimal /\ 0 \notin {Unsigned, Hex, Long, LongHex} /\ 0 # String
    BY DEF TakesArg, Percent, Char, Decimal, Unsigned, Hex, Long, LongHex, String
  <2>3. arg' = arg /\ s_val' = s_val /\ i' = at + 1
    BY <1>7, <2>1, <2>2, Zenon DEF Turn
  <2>4. Say(<< >>)
    BY <1>7, <2>1, <2>2, Zenon DEF Turn
  <2> QED BY <1>6, <1>7, <2>3, <2>4, SMTT(30)
<1>8. CASE n = Len(items)
  <2>1. Len(format) = i
    <3>1. i + 1 = Len(format) + 1
      BY <1>2, <1>3, <1>6, <1>8, Zenon DEF Placed
    <3> QED BY <1>1, <1>6, <3>1
  <2>2. CharAt(i + 1) = 0
    BY <1>1, <2>1, SMTT(30) DEF CharAt
  <2>3. ~ isdigitk(CharAt(i + 1) - Zero)
    BY <2>2 DEF isdigitk, Zero
  <2>4. Turn(0, i + 1, CharAt(i + 1), args[arg])
    BY <2>3, ConversionIs, Zenon
  <2>5. i + 1 \in Nat /\ i + 1 > Len(format)
    BY <1>1, <2>1
  <2> QED BY <1>5, <1>7, <2>4, <2>5, Zenon
<1>9. CASE n + 1 = Len(items)
  <2>0. n # Len(items) /\ n + 1 \in 1 .. Len(items) /\ (n + 1) - 1 = n
    BY <1>1, <1>9
  <2>1. PICK second \in ItemType :
          second = items[n + 1] /\ second.conv = Literal /\ isdigitk(second.value - Zero)
    <3>1. items[n + 1] \in ItemType
      BY <1>1, <2>0, ItemsOf, SMTT(30)
    <3>2. items[n + 1].conv = Literal /\ isdigitk(items[n + 1].value - Zero)
      BY <1>1, <1>4, <2>0, Zenon DEF ItemOK, IsLone
    <3> QED BY <3>1, <3>2, Zenon
  <2>2. Before(items, n + 1, i + 1, arg + Len(Argument(item)), said)
    BY <1>2, <1>3, <1>5, <2>0, ZenonT(40) DEF Before, Placed
  <2>3. Placed(items, n + 1, i + 1, arg + Len(Argument(item)), second)
    BY <1>1, <2>0, <2>1, <2>2, Place, Zenon
  <2>4. Len(Text(second)) = 1 /\ Text(second)[1] = second.value
    BY <2>1, TextIs, Zenon
  <2>5. Len(format) = i + 1
    <3>1. (i + 1) + 1 = Len(format) + 1
      BY <1>6, <1>9, <2>3, <2>4, Zenon DEF Placed
    <3> QED BY <1>1, <1>6, <3>1, SMTT(30)
  <2>6. CharAt(i + 1) = second.value
    <3>1. 1 \in 1 .. 1 /\ (i + 1) + 1 - 1 = i + 1 /\ i + 1 <= Len(format)
      BY <1>1, <2>5
    <3> QED BY <1>1, <2>3, <2>4, <3>1, ZenonT(40) DEF Placed, CharAt
  <2>7. Turn(CharAt(i + 1) - Zero, i + 2, CharAt(i + 2), args[arg])
    BY <2>1, <2>6, ConversionIs, Zenon
  <2>8. i + 2 \in Nat /\ i + 2 > Len(format)
    BY <1>1, <2>5
  <2> QED BY <1>5, <1>7, <2>7, <2>8, Zenon
<1> QED BY <1>1, <1>4, <1>8, <1>9, ZenonT(40) DEF ItemOK, IsLone

LEMMA ConversionKeeps == IInv /\ Conversion => IInv'
<1> SUFFICES ASSUME IInv, Conversion PROVE IInv'
  OBVIOUS
<1>1. /\ UNCHANGED << call, format, args, screen, uart, pc >> /\ pc = "loop" /\ todo = << >>
      /\ i <= Len(format) /\ format[i] = Percent
  BY ConversionIs, Zenon
<1>2. /\ call \in Calls /\ i \in Nat /\ arg \in Nat /\ Aligned(call.items, i, arg, said)
      /\ format = Concat(Texts(call.items)) /\ args = Concat(Arguments(call.items))
      /\ s_val \in Seq(Int) /\ BufferFits
  BY Zenon DEF IInv
<1>3. PICK n \in 1 .. Len(call.items) : Before(call.items, n, i, arg, said)
  BY <1>1, <1>2, ItemOrEnd, Zenon
<1>4. PICK item \in ItemType : item = call.items[n] /\ ItemOK(call.items, n)
  BY <1>2, ItemsOf
<1>5. UNCHANGED << call, screen, uart >>
  BY <1>1
<1>6. pc' # "init" /\ pc' # "done" /\ pc # "init"
  BY <1>1
<1>7. CASE item.conv = Literal
  <2>1. /\ i' \in Nat /\ i' > Len(format) /\ ~ AllExact(call.items)
        /\ arg' = arg /\ s_val' = s_val /\ Say(<< >>)
    BY <1>3, <1>4, <1>7, LoneTurn, Zenon
  <2>2. << >> \in Seq(Int)
    OBVIOUS
  <2>3. todo' \in Seq(Int) /\ said' \in Seq(Int) /\ NoneLost'
    BY <1>1, <1>5, <2>1, <2>2, Said, Zenon
  <2>4. Aligned(call.items, i, arg, said)'
    BY <1>1, <1>2, <2>1, Zenon DEF Aligned
  <2>5. BufferFits'
    BY <1>1, <1>2, <2>1, Zenon DEF BufferFits, Items
  <2> QED BY <1>1, <1>2, <1>6, <2>1, <2>3, <2>4, <2>5, Zenon DEF IInv
<1>8. CASE item.conv # Literal
  <2>1. PICK at \in Nat : at + 1 = i + Len(Text(item)) /\ Turn(Leftpad(item), at, item.conv, args[arg])
    BY <1>3, <1>4, <1>8, ItemTurn, Zenon
  <2>2. item.conv \in TakesArg => args[arg] = Argument(item)[1]
    <3>1. Placed(call.items, n, i, arg, item)
      BY <1>2, <1>3, <1>4, Place, SMTT(30)
    <3> QED BY <1>2, <3>1, ArgumentIs, ZenonT(40) DEF Placed
  <2>3. /\ arg' = arg + Len(Argument(item)) /\ Say(Printed(item))
        /\ s_val' = IF item.conv \in Numbers THEN Number(item.conv, item.value) ELSE s_val
    BY <1>2, <1>8, <2>1, <2>2, ItemPuts, Zenon
  <2>4. Printed(item) \in Seq(Int) /\ (Exact(item) => Printed(item) = Shows(item))
    BY <1>4, <1>8, PrintedIs, Zenon
  <2>5. todo' \in Seq(Int) /\ said' \in Seq(Int) /\ said' = said \o Printed(item) /\ NoneLost'
    BY <1>1, <1>5, <2>3, <2>4, Said, Zenon
  <2>6. i' = i + Len(Text(item)) /\ i' \in Nat
    <3>1. i' = at + 1
      BY <2>1, Zenon DEF Turn
    <3>2. at + 1 \in Nat
      BY <2>1
    <3> QED BY <2>1, <3>1, <3>2, Zenon
  <2>7. Aligned(call.items, i, arg, said)'
    <3>1. Aligned(call.items, i + Len(Text(item)), arg + Len(Argument(item)), said \o Printed(item))
      BY <1>2, <1>3, <1>4, <2>4, NextItem, Zenon
    <3> QED BY <1>1, <2>3, <2>5, <2>6, <3>1, ZenonT(40)
  <2>8. arg' \in Nat
    <3>1. Argument(item) \in Seq(Seq(Int))
      BY ArgumentIs, Zenon
    <3>2. Len(Argument(item)) \in Nat
      BY <3>1
    <3> QED BY <1>2, <2>3, <3>2
  <2>9. s_val' \in Seq(Int) /\ BufferFits'
    <3>1. CASE item.conv \notin Numbers
      BY <1>1, <1>2, <2>3, <3>1, Zenon DEF BufferFits, Items
    <3>2. CASE item.conv \in Numbers
      <4>1. /\ Number(item.conv, item.value) \in Seq(Int)
            /\ (item.conv = Long => Exact(item) /\ item.value < 10^(S_VAL - 1))
                 => Len(Number(item.conv, item.value)) < S_VAL
        BY <1>4, <3>2, NumberIs, Zenon
      <4>2. s_val' = Number(item.conv, item.value)
        BY <2>3, <3>2, Zenon
      <4>3. item \in Items'
        <5>1. DOMAIN call.items = 1 .. Len(call.items)
          BY <1>2, ItemsOf
        <5> QED BY <1>1, <1>4, <5>1, Zenon DEF Items
      <4> QED BY <4>1, <4>2, <4>3, Zenon DEF BufferFits
    <3> QED BY <3>1, <3>2
  <2> QED BY <1>1, <1>2, <1>6, <2>5, <2>6, <2>7, <2>8, <2>9, Zenon DEF IInv
<1> QED BY <1>7, <1>8

(* Steps of the devices.                                                   *)
LEMMA ScreenKeeps == IInv /\ screen_write => IInv'
<1> SUFFICES ASSUME IInv, screen_write PROVE IInv'
  OBVIOUS
<1>1. /\ UNCHANGED << call, format, args, i, arg, s_val, uart, pc, said >>
      /\ todo # << >> /\ call.device <= DEVICE_SCREEN
      /\ screen' = Append(screen, Head(todo)) /\ todo' = Tail(todo)
  BY DEF screen_write
<1>2. todo \in Seq(Int) /\ screen \in Seq(Int) /\ call \in Calls /\ NoneLost
  BY DEF IInv
<1>3. /\ screen' \in Seq(Int) /\ todo' \in Seq(Int) /\ screen' \o todo' = screen \o todo
  BY <1>1, <1>2, FirstPut, Zenon
<1>4. ~ (call.device > DEVICE_SCREEN)
  BY <1>1, <1>2, CallsAssumption DEF DEVICE_SCREEN
<1>5. NoneLost'
  BY <1>1, <1>2, <1>3, <1>4, Zenon DEF NoneLost
<1>6. pc # "init" /\ pc' # "init"
  BY <1>1 DEF IInv
<1>7. BufferFits'
  BY <1>1, Zenon DEF IInv, BufferFits, Items
<1>8. Aligned(call.items, i, arg, said)'
  BY <1>1, Zenon DEF IInv
<1> QED BY <1>1, <1>3, <1>5, <1>6, <1>7, <1>8, Zenon DEF IInv

LEMMA SerialKeeps == IInv /\ serial_write => IInv'
<1> SUFFICES ASSUME IInv, serial_write PROVE IInv'
  OBVIOUS
<1>1. /\ UNCHANGED << call, format, args, i, arg, s_val, screen, pc, said >>
      /\ todo # << >> /\ call.device > DEVICE_SCREEN /\ uart.thr = << >>
      /\ uart' = PortOut(uart, SERIAL_DATA_PORT, Head(todo)) /\ todo' = Tail(todo)
  BY DEF serial_write, serial_is_transmit_fifo_empty
<1>2. todo \in Seq(Int) /\ uart \in UartType /\ uart.wire \in Seq(Int) /\ NoneLost
  BY SMTT(30) DEF IInv, UartType
<1>3. pc # "init" /\ pc' # "init"
  BY <1>1 DEF IInv
<1>4. ~ uart.dlab /\ uart.high = 0 /\ uart.low = call.divisor
  BY <1>3, Zenon DEF IInv
<1>5. /\ Head(todo) \in Int /\ todo' \in Seq(Int)
      /\ (uart.wire \o << Head(todo) >>) \o todo' = uart.wire \o todo
  BY <1>1, <1>2, FirstPut, Zenon
<1>6. PICK h \in Int : h = Head(todo)
  BY <1>5
<1>7. uart' = [uart EXCEPT !.thr = << h >>] /\ uart' \in UartType
  BY <1>1, <1>2, <1>4, <1>6, DataPort, Zenon
<1>8. /\ ~ uart'.dlab /\ uart'.high = 0 /\ uart'.low = call.divisor
      /\ uart'.wire = uart.wire /\ uart'.thr = << h >>
  BY <1>2, <1>4, <1>7 DEF UartType
<1>9. NoneLost'
  <2>1. uart.wire \o << >> = uart.wire
    BY <1>2, ConcatEmptySeq
  <2>2. said = uart.wire \o todo
    BY <1>1, <1>2, <2>1, Zenon DEF NoneLost
  <2> QED BY <1>1, <1>5, <1>6, <1>8, <2>2, Zenon DEF NoneLost
<1>10. BufferFits'
  BY <1>1, Zenon DEF IInv, BufferFits, Items
<1>11. Aligned(call.items, i, arg, said)'
  BY <1>1, Zenon DEF IInv
<1> QED BY <1>1, <1>3, <1>5, <1>7, <1>8, <1>9, <1>10, <1>11, ZenonT(40) DEF IInv

LEMMA TransmitKeeps == IInv /\ Transmit => IInv'
<1> SUFFICES ASSUME IInv, Transmit PROVE IInv'
  OBVIOUS
<1>1. /\ UNCHANGED << call, format, args, i, arg, s_val, todo, screen, pc, said >>
      /\ uart.thr # << >> /\ uart' = Transmitted(uart)
  BY SMTT(30) DEF Transmit
<1>2. uart \in UartType /\ uart.wire \in Seq(Int) /\ uart.thr \in Seq(Int) /\ NoneLost
  BY SMTT(30) DEF IInv, UartType
<1>3. pc # "init" /\ pc' # "init"
  BY <1>1 DEF IInv, Reset
<1>4. ~ uart.dlab /\ uart.high = 0 /\ uart.low = call.divisor
  BY <1>3, Zenon DEF IInv
<1>5. PICK w : w = uart.wire \o uart.thr
  BY Zenon
<1>6. w \in Seq(Int)
  <2>1. uart.wire \in Seq(Int) /\ uart.thr \in Seq(Int)
    BY <1>2
  <2>2. uart.wire \o uart.thr \in Seq(Int)
    BY ONLY <2>1, ConcatProperties
  <2> QED BY <1>5, <2>2, Zenon
<1>7. uart' = [uart EXCEPT !.wire = w, !.thr = << >>]
  BY <1>1, <1>5 DEF Transmitted
<1>8. /\ uart' \in UartType /\ ~ uart'.dlab /\ uart'.high = 0 /\ uart'.low = call.divisor
      /\ uart'.wire = w /\ uart'.thr = << >>
  <2>1. << >> \in Seq(Int)
    OBVIOUS
  <2>2. uart' \in UartType
    BY <1>2, <1>6, <1>7, <2>1, Zenon DEF UartType
  <2>3. uart'.dlab = uart.dlab /\ uart'.high = uart.high /\ uart'.low = uart.low
    BY <1>2, <1>7 DEF UartType
  <2>4. uart'.wire = w /\ uart'.thr = << >>
    BY <1>2, <1>7 DEF UartType
  <2> QED BY <1>4, <2>2, <2>3, <2>4, Zenon
<1>9. w \o << >> = w
  BY <1>6, ConcatEmptySeq
<1>10. NoneLost'
  BY <1>1, <1>2, <1>5, <1>8, <1>9, Zenon DEF NoneLost
<1>11. BufferFits'
  BY <1>1, Zenon DEF IInv, BufferFits, Items
<1>12. Aligned(call.items, i, arg, said)'
  BY <1>1, Zenon DEF IInv
<1> QED BY <1>1, <1>3, <1>8, <1>10, <1>11, <1>12, Zenon DEF IInv

LEMMA ReturnedKeeps == IInv /\ Returned => IInv'
<1> SUFFICES ASSUME IInv, Returned PROVE IInv'
  OBVIOUS
<1>1. /\ UNCHANGED << call, format, args, i, arg, s_val, todo, screen, uart, said >>
      /\ i > Len(format) /\ pc = "loop" /\ pc' = "done"
  BY DEF Returned
<1>2. pc # "init" /\ pc' # "init" /\ pc' \in {"init", "loop", "done"}
  BY <1>1
<1>3. NoneLost'
  BY <1>1, Zenon DEF IInv, NoneLost
<1>4. BufferFits'
  BY <1>1, Zenon DEF IInv, BufferFits, Items
<1>5. Aligned(call.items, i, arg, said)'
  BY <1>1, Zenon DEF IInv
<1> QED BY <1>1, <1>2, <1>3, <1>4, <1>5, Zenon DEF IInv

LEMMA StutterKeeps == IInv /\ UNCHANGED vars => IInv'
<1> SUFFICES ASSUME IInv, UNCHANGED vars PROVE IInv'
  OBVIOUS
<1>1. UNCHANGED << call, format, args, i, arg, s_val, todo, screen, uart, pc, said >>
  BY DEF vars
<1>2. NoneLost'
  BY <1>1, Zenon DEF IInv, NoneLost
<1>3. BufferFits'
  BY <1>1, Zenon DEF IInv, BufferFits, Items
<1>4. Aligned(call.items, i, arg, said)'
  BY <1>1, Zenon DEF IInv
<1> QED BY <1>1, <1>2, <1>3, <1>4, Zenon DEF IInv

(* The inductive invariant: the loop stands at an item with its argument   *)
(* next, and the port is as serial_init left it.                           *)
LEMMA LoopInvariant == Spec => []IInv
<1>1. IInv /\ [Next]_vars => IInv'
  <2> SUFFICES ASSUME IInv, [Next]_vars PROVE IInv'
    OBVIOUS
  <2>1. CASE SerialInit
    BY <2>1, SerialInitKeeps
  <2>2. CASE Plain
    BY <2>2, PlainKeeps, SMTT(30)
  <2>3. CASE Conversion
    BY <2>3, ConversionKeeps
  <2>4. CASE screen_write
    BY <2>4, ScreenKeeps
  <2>5. CASE serial_write
    BY <2>5, SerialKeeps
  <2>6. CASE Returned
    BY <2>6, ReturnedKeeps
  <2>7. CASE Transmit
    BY <2>7, TransmitKeeps
  <2>8. CASE UNCHANGED vars
    BY <2>8, StutterKeeps
  <2> QED BY <2>1, <2>2, <2>3, <2>4, <2>5, <2>6, <2>7, <2>8, Zenon DEF Next, vprintfk, Done
<1> QED BY <1>1, Begins, PTL DEF Spec

-----------------------------------------------------------------------------
(* vprintfk prints what its format and its arguments say, for every call   *)
(* with exact conversions (Rendered).                                      *)
THEOREM PrintsTheFormat == Spec => []Rendered
<1>1. IInv => Rendered
  <2> SUFFICES ASSUME IInv, pc = "done", \A item \in Items : Exact(item)
               PROVE  said = Concat([n \in DOMAIN call.items |-> Shows(call.items[n])])
    BY Zenon DEF Rendered
  <2>1. /\ call \in Calls /\ i \in Nat /\ i > Len(Concat(Texts(call.items)))
        /\ Aligned(call.items, i, arg, said)
    BY Zenon DEF IInv
  <2>2. AllExact(call.items)
    <3>1. DOMAIN call.items = 1 .. Len(call.items)
      BY <2>1, ItemsOf
    <3> QED BY <3>1, Zenon DEF Items, AllExact
  <2>3. said = Concat(Shown(call.items))
    <3>1. Ended(call.items, i, said)
      BY <2>1, ItemOrEnd, ZenonT(40)
    <3> QED BY <2>1, <2>2, <3>1, Zenon DEF Ended
  <2> QED BY <2>3 DEF Shown
<1> QED BY <1>1, LoopInvariant, PTL

(* Every character handed to the screen or to the serial port is shown,    *)
(* sent or waiting, once and in order (NoneLost).                          *)
THEOREM NothingIsLost == Spec => []NoneLost
<1>1. IInv => NoneLost
  BY SMTT(30) DEF IInv
<1> QED BY <1>1, LoopInvariant, PTL

(* The numbers itoa and ulltoa write fit the buffer s_val with their NUL,  *)
(* "%L" of a number that is too long excepted (BufferFits).                *)
THEOREM NumbersFit == Spec => []BufferFits
<1>1. IInv => BufferFits
  BY DEF IInv
<1> QED BY <1>1, LoopInvariant, PTL

(* serial_init leaves the port ready for data, at the speed that was asked *)
(* for, and no print changes that (SpeedSet).                              *)
THEOREM SpeedStaysSet == Spec => []SpeedSet
<1>1. IInv => SpeedSet
  <2> SUFFICES ASSUME IInv, pc # "init"
               PROVE  ~ uart.dlab /\ uart.high * BYTE + uart.low = call.divisor
    BY DEF SpeedSet
  <2>1. ~ uart.dlab /\ uart.high = 0 /\ uart.low = call.divisor /\ call \in Calls
    BY Zenon DEF IInv
  <2>2. call.divisor \in Int /\ BYTE \in Int
    BY <2>1, CallsAssumption, ByteAssumption
  <2>3. 0 * BYTE + call.divisor = call.divisor
    BY <2>2
  <2> QED BY <2>1, <2>3, Zenon
<1> QED BY <1>1, LoopInvariant, PTL
=============================================================================
