---------------------------- MODULE DataSizeProofs ----------------------------
(* The sizes of blocks, for lists of dimensions of any length: what the     *)
(* loop of ComputeDataSize computes in integers of SizeBound values, and    *)
(* that every block a server stored is whole.                               *)
(*                                                                         *)
(* Induction is over sets: a set of indices that has a least element.       *)
EXTENDS AsyncRequestsProofs, WellFoundedInduction

------------------------------------------------------------------------------
(* Induction and recursion. *)

LEMMA LeastElement ==
    ASSUME NEW T, T \subseteq Nat, T # {}
    PROVE  \E n \in T : \A k \in T : n <= k
<1> DEFINE R == {p \in Nat \X Nat : p[1] < p[2]}
<1>1. IsWellFoundedOn(R, Nat)
  BY NatLessThanWellFounded, Zenon DEF OpToRel
<1>2. \A x, y \in Nat : <<x, y>> \in R <=> x < y
  OBVIOUS
<1> HIDE DEF R
<1>3. PICK n \in T : \A k \in T : ~(<<k, n>> \in R)
  BY <1>1, WFMin
<1>4. ASSUME NEW k \in T PROVE n <= k
  <2>1. k \in Nat /\ n \in Nat
    OBVIOUS
  <2>2. ~(k < n)
    BY <1>2, <1>3, <2>1
  <2> QED
    BY <2>1, <2>2
<1> QED
  BY <1>4

\* The indices a step leads to from 0, one at a time.
LEMMA Induction ==
    ASSUME NEW N \in Nat, NEW G, 0 \in G,
           \A n \in 0..N : n # 0 /\ n - 1 \in G => n \in G
    PROVE  0..N \subseteq G
<1> DEFINE T == (0..N) \ G
<1>1. T \subseteq Nat
  OBVIOUS
<1>2. CASE T # {}
  <2> HIDE DEF T
  <2>1. PICK n \in T : \A k \in T : n <= k
    BY <1>1, <1>2, LeastElement
  <2>2. n \in 0..N /\ n \notin G /\ n # 0
    BY <2>1 DEF T
  <2>3. n - 1 \in 0..N /\ ~(n <= n - 1)
    BY <2>2
  <2>4. n - 1 \in G
    BY <2>1, <2>3 DEF T
  <2> QED
    BY <2>2, <2>4
<1> QED
  BY <1>2

\* A function defined by what it is at 0 and at n from n - 1.
Follows0(f, n, c, g) ==
    \A k \in 0..n : f[k] = IF k = 0 THEN c ELSE g[<<f[k - 1], k>>]

LEMMA Recursion ==
    ASSUME NEW N \in Nat, NEW S, NEW c \in S, NEW g \in [S \X (1..N) -> S]
    PROVE  \E f \in [0..N -> S] : Follows0(f, N, c, g)
<1> DEFINE Defined(n) == \E f \in [0..n -> S] : Follows0(f, n, c, g)
           G == {n \in 0..N : Defined(n)}
<1>1. 0 \in G
  <2> DEFINE f == [k \in 0..0 |-> c]
  <2>1. f \in [0..0 -> S] /\ Follows0(f, 0, c, g)
    BY DEF Follows0
  <2> QED
    BY <2>1
<1>2. ASSUME NEW n \in 0..N, n # 0, n - 1 \in G PROVE n \in G
  <2>1. PICK f \in [0..(n - 1) -> S] : Follows0(f, n - 1, c, g)
    BY <1>2
  <2> DEFINE h == [k \in 0..n |-> IF k = n THEN g[<<f[n - 1], n>>] ELSE f[k]]
  <2>2. g[<<f[n - 1], n>>] \in S
    <3>1. f[n - 1] \in S /\ n \in 1..N
      BY <1>2
    <3>2. <<f[n - 1], n>> \in S \X (1..N)
      BY <3>1
    <3> QED
      BY <3>2
  <2>3. h \in [0..n -> S]
    BY <1>2, <2>2
  <2>4. ASSUME NEW k \in 0..n
        PROVE  h[k] = IF k = 0 THEN c ELSE g[<<h[k - 1], k>>]
    <3>1. CASE k = n
      <4>1. h[k - 1] = f[n - 1] /\ h[k] = g[<<f[n - 1], n>>] /\ k # 0
        BY <1>2, <3>1
      <4> QED
        BY <3>1, <4>1
    <3>2. CASE k # n
      <4>1. k \in 0..(n - 1) /\ h[k] = f[k] /\ (k # 0 => h[k - 1] = f[k - 1])
        BY <1>2, <3>2
      <4>2. f[k] = IF k = 0 THEN c ELSE g[<<f[k - 1], k>>]
        BY <2>1, <4>1 DEF Follows0
      <4> QED
        BY <4>1, <4>2
    <3> QED
      BY <3>1, <3>2
  <2>5. Follows0(h, n, c, g)
    BY <2>4 DEF Follows0
  <2> QED
    BY <2>3, <2>5
<1>3. 0..N \subseteq G
  <2> HIDE DEF G
  <2> QED
    BY <1>1, <1>2, Induction
<1> QED
  BY <1>3

------------------------------------------------------------------------------
(* Arithmetic modulo SizeBound. *)

LEMMA Remainder ==
    ASSUME NEW a \in Nat, NEW m \in Nat \ {0}
    PROVE  /\ a % m \in Nat /\ a % m < m /\ a \div m \in Nat
           /\ a = (a \div m) * m + (a % m)
  OBVIOUS

LEMMA RemainderUnique ==
    ASSUME NEW q \in Nat, NEW r \in Nat, NEW m \in Nat \ {0}, r < m
    PROVE  (q * m + r) % m = r
<1> DEFINE a == q * m + r
           p == a \div m
           s == a % m
<1>1. a \in Nat /\ p \in Nat /\ s \in Nat /\ s < m /\ a = p * m + s
  BY Remainder
<1>2. CASE p = q
  BY <1>1, <1>2
<1>3. CASE p < q
  <2>1. (q - p) * m >= m
    BY <1>1, <1>3
  <2> QED
    BY <1>1, <1>3, <2>1
<1>4. CASE q < p
  <2>1. (p - q) * m >= m
    BY <1>1, <1>4
  <2> QED
    BY <1>1, <1>4, <2>1
<1> QED
  BY <1>1, <1>2, <1>3, <1>4

\* A factor may wrap before the product does.
LEMMA RemainderOfProduct ==
    ASSUME NEW x \in Nat, NEW d \in Nat, NEW m \in Nat \ {0}
    PROVE  ((x % m) * d) % m = (x * d) % m
<1> DEFINE q == x \div m
           r == x % m
           p == (r * d) \div m
           s == (r * d) % m
<1>1. q \in Nat /\ r \in Nat /\ x = q * m + r
  BY Remainder
<1>2. r * d \in Nat
  BY <1>1
<1>3. p \in Nat /\ s \in Nat /\ s < m /\ r * d = p * m + s
  BY <1>2, Remainder
<1> HIDE DEF q, r, p, s
<1>4. x * d = (q * d + p) * m + s
  BY <1>1, <1>3
<1>5. q * d + p \in Nat
  BY <1>1, <1>3
<1>6. (x * d) % m = s
  BY <1>3, <1>4, <1>5, RemainderUnique
<1> QED
  BY <1>6 DEF s, r

LEMMA RemainderTwice ==
    ASSUME NEW a \in Nat, NEW m \in Nat \ {0}
    PROVE  a % m \in Nat /\ (a % m) % m = a % m
<1> DEFINE r == a % m
<1>1. r \in Nat /\ r < m
  BY Remainder
<1> HIDE DEF r
<1>2. (0 * m + r) % m = r
  BY <1>1, RemainderUnique
<1>3. 0 * m + r = r
  BY <1>1
<1>4. r % m = r
  BY <1>2, <1>3
<1> QED
  BY <1>1, <1>4 DEF r

------------------------------------------------------------------------------
(* The loop of ComputeDataSize and the product it stands for. *)

\* What the loop holds after n dimensions, and the product of n dimensions.
Loop(s, b) == s = [n \in 0..Len(Dimensions[b]) |->
                     IF n = 0 THEN 1 ELSE (s[n - 1] * Dimensions[b][n]) % SizeBound]
Product(p, b) == p = [n \in 0..Len(Dimensions[b]) |->
                        IF n = 0 THEN 1 ELSE p[n - 1] * Dimensions[b][n]]

LEMMA Shape ==
    ASSUME NEW b \in Blocks
    PROVE  /\ Len(Dimensions[b]) \in Nat
           /\ \A n \in 1..Len(Dimensions[b]) : Dimensions[b][n] \in Nat
           /\ ElementSize[b] \in Nat \ {0}
<1>1. Dimensions[b] \in Seq(Nat)
  BY BlocksHaveShapes
<1>2. ElementSize[b] \in Nat \ {0}
  BY BlocksHaveShapes
<1> QED
  BY <1>1, <1>2

LEMMA LoopExists ==
    ASSUME NEW b \in Blocks
    PROVE  \E s : Loop(s, b)
<1> DEFINE N == Len(Dimensions[b])
           D == Dimensions[b]
           g == [x \in Nat \X (1..N) |-> (x[1] * D[x[2]]) % SizeBound]
<1>1. N \in Nat /\ \A n \in 1..N : D[n] \in Nat
  BY Shape
<1> HIDE DEF N, D
<1>2. \A x \in Nat, n \in 1..N : /\ g[<<x, n>>] = (x * D[n]) % SizeBound
                                 /\ (x * D[n]) % SizeBound \in Nat
  BY <1>1, BoundsNat, Remainder
<1>3. g \in [Nat \X (1..N) -> Nat]
  <2>1. ASSUME NEW x \in Nat \X (1..N) PROVE (x[1] * D[x[2]]) % SizeBound \in Nat
    BY <1>2
  <2> QED
    BY <2>1
<1> HIDE DEF g
<1>4. PICK f \in [0..N -> Nat] : Follows0(f, N, 1, g)
  BY <1>1, <1>3, Recursion
<1>5. ASSUME NEW n \in 0..N
      PROVE  f[n] = IF n = 0 THEN 1 ELSE (f[n - 1] * D[n]) % SizeBound
  <2>1. CASE n = 0
    BY <1>4, <2>1 DEF Follows0
  <2>2. CASE n # 0
    <3>1. n - 1 \in 0..N /\ n \in 1..N
      BY <1>1, <2>2
    <3>2. f[n] = g[<<f[n - 1], n>>]
      BY <1>4, <2>2 DEF Follows0
    <3>3. f[n - 1] \in Nat
      BY <3>1
    <3> QED
      BY <1>2, <2>2, <3>1, <3>2, <3>3
  <2> QED
    BY <2>1, <2>2
<1>6. f = [n \in 0..N |-> IF n = 0 THEN 1 ELSE (f[n - 1] * D[n]) % SizeBound]
  BY <1>5
<1> QED
  BY <1>6 DEF Loop, N, D

LEMMA ProductExists ==
    ASSUME NEW b \in Blocks
    PROVE  \E p : Product(p, b)
<1> DEFINE N == Len(Dimensions[b])
           D == Dimensions[b]
           g == [x \in Nat \X (1..N) |-> x[1] * D[x[2]]]
<1>1. N \in Nat /\ \A n \in 1..N : D[n] \in Nat
  BY Shape
<1> HIDE DEF N, D
<1>2. \A x \in Nat, n \in 1..N : g[<<x, n>>] = x * D[n] /\ x * D[n] \in Nat
  BY <1>1
<1>3. g \in [Nat \X (1..N) -> Nat]
  <2>1. ASSUME NEW x \in Nat \X (1..N) PROVE x[1] * D[x[2]] \in Nat
    BY <1>2
  <2> QED
    BY <2>1
<1> HIDE DEF g
<1>4. PICK f \in [0..N -> Nat] : Follows0(f, N, 1, g)
  BY <1>1, <1>3, Recursion
<1>5. ASSUME NEW n \in 0..N
      PROVE  f[n] = IF n = 0 THEN 1 ELSE f[n - 1] * D[n]
  <2>1. CASE n = 0
    BY <1>4, <2>1 DEF Follows0
  <2>2. CASE n # 0
    <3>1. n - 1 \in 0..N /\ n \in 1..N
      BY <1>1, <2>2
    <3>2. f[n] = g[<<f[n - 1], n>>]
      BY <1>4, <2>2 DEF Follows0
    <3>3. f[n - 1] \in Nat
      BY <3>1
    <3> QED
      BY <1>2, <2>2, <3>1, <3>2, <3>3
  <2> QED
    BY <2>1, <2>2
<1>6. f = [n \in 0..N |-> IF n = 0 THEN 1 ELSE f[n - 1] * D[n]]
  BY <1>5
<1> QED
  BY <1>6 DEF Product, N, D

LEMMA ComputeDataSizeLoop ==
    ASSUME NEW b \in Blocks
    PROVE  \E s : /\ Loop(s, b)
                  /\ ComputeDataSize(b) = (ElementSize[b] * s[Len(Dimensions[b])]) % SizeBound
<1> DEFINE s == CHOOSE f : Loop(f, b)
<1>1. Loop(s, b)
  BY LoopExists
<1>2. ComputeDataSize(b) = (ElementSize[b] * s[Len(Dimensions[b])]) % SizeBound
  BY DEF ComputeDataSize, Loop
<1> QED
  BY <1>1, <1>2

LEMMA BytesOfProduct ==
    ASSUME NEW b \in Blocks
    PROVE  \E p : /\ Product(p, b)
                  /\ BytesOf(b) = ElementSize[b] * p[Len(Dimensions[b])]
<1> DEFINE p == CHOOSE f : Product(f, b)
<1>1. Product(p, b)
  BY ProductExists
<1>2. BytesOf(b) = ElementSize[b] * p[Len(Dimensions[b])]
  BY DEF BytesOf, Product
<1> QED
  BY <1>1, <1>2

\* The loop wraps where the product does.
LEMMA LoopIsProduct ==
    ASSUME NEW b \in Blocks, NEW s, Loop(s, b), NEW p, Product(p, b)
    PROVE  LET N == Len(Dimensions[b]) IN
           s[N] \in Nat /\ p[N] \in Nat /\ s[N] % SizeBound = p[N] % SizeBound
<1> DEFINE N == Len(Dimensions[b])
           D == Dimensions[b]
           G == {n \in 0..N : /\ s[n] \in Nat /\ p[n] \in Nat
                              /\ s[n] % SizeBound = p[n] % SizeBound}
<1>1. N \in Nat /\ \A n \in 1..N : D[n] \in Nat
  BY Shape
<1>2. \A n \in 0..N : /\ s[n] = IF n = 0 THEN 1 ELSE (s[n - 1] * D[n]) % SizeBound
                      /\ p[n] = IF n = 0 THEN 1 ELSE p[n - 1] * D[n]
  BY Zenon DEF Loop, Product
<1> HIDE DEF N, D
<1>3. 0 \in G
  BY <1>1, <1>2
<1>4. ASSUME NEW n \in 0..N, n # 0, n - 1 \in G PROVE n \in G
  <2>1. PICK x \in Nat, y \in Nat :
          x = s[n - 1] /\ y = p[n - 1] /\ x % SizeBound = y % SizeBound
    BY <1>4
  <2>2. PICK d \in Nat : d = D[n]
    BY <1>1, <1>4
  <2>3. PICK m \in Nat \ {0} : m = SizeBound
    BY BoundsNat
  <2>4. s[n] = (x * d) % m /\ p[n] = y * d
    BY <1>2, <1>4, <2>1, <2>2, <2>3
  <2>5. (x * d) % m = (y * d) % m
    <3>1. x % m = y % m
      BY <2>1, <2>3
    <3>2. ((x % m) * d) % m = (x * d) % m
      BY RemainderOfProduct
    <3>3. ((y % m) * d) % m = (y * d) % m
      BY RemainderOfProduct
    <3> QED
      BY <3>1, <3>2, <3>3, Zenon
  <2>6. x * d \in Nat /\ y * d \in Nat
    OBVIOUS
  <2>7. (x * d) % m \in Nat /\ ((x * d) % m) % m = (x * d) % m
    BY <2>6, RemainderTwice
  <2>8. s[n] \in Nat /\ p[n] \in Nat /\ s[n] % m = p[n] % m
    BY <2>4, <2>5, <2>6, <2>7
  <2> QED
    BY <1>4, <2>3, <2>8
<1>5. 0..N \subseteq G
  <2> HIDE DEF G
  <2> QED
    BY <1>1, <1>3, <1>4, Induction
<1>6. N \in G
  BY <1>1, <1>5
<1> QED
  BY <1>6 DEF N

(* ComputeDataSize wraps as a whole: whatever intermediate products wrap,   *)
(* it returns the number of bytes of the block modulo 2^64.                 *)
THEOREM DataSizeWraps ==
    \A b \in Blocks : BytesOf(b) \in Nat /\ ComputeDataSize(b) = BytesOf(b) % SizeBound
<1> SUFFICES ASSUME NEW b \in Blocks
             PROVE  BytesOf(b) \in Nat /\ ComputeDataSize(b) = BytesOf(b) % SizeBound
  OBVIOUS
<1> DEFINE N == Len(Dimensions[b])
<1>1. PICK s : Loop(s, b) /\ ComputeDataSize(b) = (ElementSize[b] * s[N]) % SizeBound
  BY ComputeDataSizeLoop
<1>2. PICK p : Product(p, b) /\ BytesOf(b) = ElementSize[b] * p[N]
  BY BytesOfProduct
<1>3. s[N] \in Nat /\ p[N] \in Nat /\ s[N] % SizeBound = p[N] % SizeBound
  BY <1>1, <1>2, LoopIsProduct
<1> HIDE DEF N
<1>4. PICK x \in Nat, y \in Nat : x = s[N] /\ y = p[N]
  BY <1>3
<1>5. PICK e \in Nat : e = ElementSize[b]
  BY Shape
<1>6. PICK m \in Nat \ {0} : m = SizeBound
  BY BoundsNat
<1>7. ComputeDataSize(b) = (x * e) % m /\ BytesOf(b) = y * e
  <2>1. e * x = x * e /\ e * y = y * e
    OBVIOUS
  <2> QED
    BY <1>1, <1>2, <1>4, <1>5, <1>6, <2>1
<1>8. (x * e) % m = (y * e) % m
  <2>1. x % m = y % m
    BY <1>3, <1>4, <1>6
  <2>2. ((x % m) * e) % m = (x * e) % m
    BY RemainderOfProduct
  <2>3. ((y % m) * e) % m = (y * e) % m
    BY RemainderOfProduct
  <2> QED
    BY <2>1, <2>2, <2>3, Zenon
<1>9. y * e \in Nat
  OBVIOUS
<1> QED
  BY <1>6, <1>7, <1>8, <1>9

------------------------------------------------------------------------------
(* Stored blocks. *)

\* A size that fits is what it is.
LEMMA SmallSize ==
    ASSUME NEW b \in Blocks, BytesOf(b) < SizeBound
    PROVE  ComputeDataSize(b) = BytesOf(b)
<1> DEFINE a == BytesOf(b)
           M == SizeBound
<1>1. a \in Nat /\ ComputeDataSize(b) = a % M
  BY DataSizeWraps
<1>2. M \in Nat \ {0} /\ a < M
  BY BoundsNat
<1> HIDE DEF a, M
<1>3. (0 * M + a) % M = a
  BY <1>1, <1>2, RemainderUnique
<1>4. 0 * M + a = a
  BY <1>1, <1>2
<1> QED
  BY <1>1, <1>3, <1>4 DEF a

\* The size kept with a block is the one ComputeDataSize gives.
SizesInv ==
    \A s \in Servers : \A d \in m_datasets[s] :
      d.block \in Blocks /\ d.size = ComputeDataSize(d.block)

LEMMA RespondSizes ==
    ASSUME Typed, SizesInv, NEW r \in Issued, NEW s \in Servers, Respond(r, s)
    PROVE  SizesInv'
<1> DEFINE e == [iteration |-> request[r].iteration, block |-> request[r].block,
                 size |-> ComputeDataSize(request[r].block)]
           Sized(d) == d.block \in Blocks /\ d.size = ComputeDataSize(d.block)
<1>1. m_datasets \in [Servers -> SUBSET [iteration : Iterations, block : Blocks,
                                         size : {ComputeDataSize(b) : b \in Blocks}]]
  BY DEF Typed
<1>2. Sized(e)
  <2>1. request[r] \in Calls
    BY DEF Issued, Typed
  <2>2. request[r].block \in Blocks
    BY <2>1 DEF Calls
  <2> QED
    BY <2>2
<1>3. \A v \in Servers : \A d \in m_datasets[v] : Sized(d)
  BY DEF SizesInv
<1>4. \/ m_datasets' = m_datasets
      \/ m_datasets' = [m_datasets EXCEPT ![s] = @ \cup {e}]
      \/ m_datasets' = [m_datasets EXCEPT ![s] = {d \in @ : d.iteration # request[r].iteration}]
  BY DEF Respond, Refuse, CheckBlock, StoreBlock, Serve, serverVars
<1>5. \A v \in Servers : \A d \in m_datasets'[v] : d = e \/ d \in m_datasets[v]
  <2> HIDE DEF e
  <2> QED
    BY <1>1, <1>4
<1>6. \A v \in Servers : \A d \in m_datasets'[v] : Sized(d)
  <2> HIDE DEF e, Sized
  <2> QED
    BY <1>2, <1>3, <1>5
<1> QED
  BY <1>6 DEF SizesInv

LEMMA SizesInvariance == Spec => []SizesInv
<1>1. Init => SizesInv
  BY DEF Init, SizesInv
<1>2. Inv /\ SizesInv /\ [Next]_vars => SizesInv'
  <2> SUFFICES ASSUME Inv, SizesInv, [Next]_vars PROVE SizesInv'
    OBVIOUS
  <2>1. Typed
    BY DEF Inv
  <2>2. CASE \E r \in Issued, s \in Servers : Respond(r, s)
    BY <2>1, <2>2, RespondSizes
  <2>3. CASE UNCHANGED m_datasets
    BY <2>3 DEF SizesInv
  <2>4. CASE \E t \in Threads : Program(t) \/ Continue(t)
    <3>1. PICK t \in Threads : Program(t) \/ Continue(t)
      BY <2>4
    <3>2. Program(t) => UNCHANGED m_datasets
      BY DEF Program, Start, CallAndWait, StartOne, Wait, Drop, Issue, Assign, serverVars
    <3>3. Continue(t) => UNCHANGED m_datasets
      BY DEF Continue, Overwrite, WaitReturns, WaitThrows, serverVars
    <3> QED
      BY <2>3, <3>1, <3>2, <3>3
  <2> QED
    BY <2>2, <2>3, <2>4, NextIsStep DEF Steps, vars, serverVars
<1> QED
  BY <1>1, <1>2, Invariance, PTL DEF Spec

(* A block a server stored is whole whenever a size_t can hold its size:    *)
(* DummyPipeline allocates and pulls ComputeDataSize bytes, which are all   *)
(* of the bytes of the block, for any number of dimensions.                 *)
THEOREM BlocksStoredWhole == Spec => []StoredWhole
<1>1. SizesInv => StoredWhole
  BY SmallSize DEF SizesInv, StoredWhole
<1> QED
  BY <1>1, SizesInvariance, PTL

==============================================================================
