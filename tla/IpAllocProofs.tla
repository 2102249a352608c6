--------------------------- MODULE IpAllocProofs ---------------------------
(* What Allocate returns, for addresses of every width and every subnet.    *)
EXTENDS IpAlloc, WellFoundedInduction, TLAPS

(***************************************************************************)
(* Powers of two                                                           *)
(***************************************************************************)

\* A set of numbers has a least one, and so holds a range it starts and
\* continues in.
LEMMA LeastNumber ==
    ASSUME NEW T \in SUBSET Nat, T # {}
    PROVE  \E x \in T : \A y \in T : x <= y
<1> DEFINE R == {ss \in Nat \X Nat : ss[1] < ss[2]}
<1>1. IsWellFoundedOn(R, Nat)
  BY NatLessThanWellFounded DEF OpToRel
<1>2. \A x, y \in Nat : x < y => <<x, y>> \in R
  OBVIOUS
<1> HIDE DEF R
<1>3. PICK x \in T : \A y \in T : <<y, x>> \notin R
  BY <1>1, WFMin
<1>4. \A y \in T : ~(y < x)
  BY <1>2, <1>3
<1> QED BY <1>4

LEMMA OneByOne ==
    ASSUME NEW last \in Nat, NEW S, 0 \in S, \A n \in 1..last : n - 1 \in S => n \in S
    PROVE  0..last \subseteq S
<1> SUFFICES ASSUME (0..last) \ S # {} PROVE FALSE
  OBVIOUS
<1>1. PICK n \in (0..last) \ S : \A m \in (0..last) \ S : n <= m
  <2>1. (0..last) \ S \in SUBSET Nat
    OBVIOUS
  <2> QED BY <2>1, LeastNumber
<1>2. n # 0 /\ n \in 1..last
  BY <1>1
<1>3. n - 1 \in 0..last /\ ~(n <= n - 1)
  BY <1>2
<1> QED BY <1>1, <1>2, <1>3

\* The recursive definition of Pow2 defines a function.
LEMMA Pow2Defined ==
    /\ Pow2[0] = 1
    /\ \A n \in 1..Width : Pow2[n] = 2 * Pow2[n - 1]
<1> DEFINE Power(f, n) == IF n = 0 THEN 1 ELSE 2 * f[n - 1]
           Ran(f, k) == f = [n \in 0..k |-> Power(f, n)]
           S == {k \in 0..Width : \E f : Ran(f, k)}
<1> Width \in Nat
  BY WidthIsNatural
<1>1. 0 \in S
  <2>1. Ran([n \in 0..0 |-> 1], 0)
    OBVIOUS
  <2>2. 0 \in 0..Width
    OBVIOUS
  <2> HIDE DEF Ran
  <2> QED BY <2>1, <2>2
<1>2. ASSUME NEW k \in 1..Width, k - 1 \in S PROVE k \in S
  <2>1. PICK g : Ran(g, k - 1)
    BY <1>2
  <2> DEFINE f == [n \in 0..k |-> IF n = k THEN Power(g, k) ELSE g[n]]
  <2>2. ASSUME NEW n \in 0..k PROVE f[n] = Power(f, n)
    <3>1. CASE n = 0
      BY <2>1, <3>1
    <3>2. CASE n # 0
      <4>1. n - 1 \in 0..(k - 1) /\ n - 1 \in 0..k /\ n - 1 # k
        BY <3>2
      <4>2. f[n - 1] = g[n - 1]
        BY <4>1
      <4>3. Power(f, n) = Power(g, n)
        BY <4>2
      <4>4. f[n] = Power(g, n)
        <5>1. CASE n = k
          BY <5>1
        <5>2. CASE n # k
          <6>1. n \in 0..(k - 1)
            BY <5>2
          <6>2. g[n] = Power(g, n)
            BY <2>1, <6>1
          <6> HIDE DEF Power
          <6> QED BY <5>2, <6>2
        <5> QED BY <5>1, <5>2
      <4> QED BY <4>3, <4>4
    <3> QED BY <3>1, <3>2
  <2>3. f = [n \in 0..k |-> f[n]]
    OBVIOUS
  <2> HIDE DEF f, Power
  <2>4. Ran(f, k)
    BY <2>2, <2>3
  <2>5. k \in 0..Width
    OBVIOUS
  <2> HIDE DEF Ran
  <2> QED BY <2>4, <2>5
<1>3. \E f : Ran(f, Width)
  <2> HIDE DEF S
  <2>1. Width \in S
    BY <1>1, <1>2, OneByOne
  <2> QED BY <2>1 DEF S
<1>4. Pow2 = CHOOSE f : Ran(f, Width)
  BY DEF Pow2
<1> HIDE DEF Ran
<1>5. Ran(Pow2, Width)
  BY <1>3, <1>4
<1>6. ASSUME NEW n \in 0..Width PROVE Pow2[n] = Power(Pow2, n)
  <2> HIDE DEF Power
  <2> QED BY <1>5 DEF Ran
<1>7. 0 \in 0..Width /\ \A n \in 1..Width : n \in 0..Width /\ n # 0
  OBVIOUS
<1> QED BY <1>6, <1>7

\* What the proofs about blocks need of it: the law of exponents.
LEMMA PowersOfTwo ==
    /\ Width \in Nat
    /\ \A n \in 0 .. Width : Pow2[n] \in Nat \ {0}
    /\ Pow2[0] = 1 /\ (Width > 0 => Pow2[1] = 2)
    /\ \A m, n \in 0 .. Width : m + n <= Width => Pow2[m + n] = Pow2[m] * Pow2[n]
<1> Width \in Nat
  BY WidthIsNatural
<1>1. \A n \in 0 .. Width : Pow2[n] \in Nat \ {0}
  <2> DEFINE S == {n \in 0..Width : Pow2[n] \in Nat \ {0}}
  <2>1. 0 \in S /\ \A n \in 1..Width : n - 1 \in S => n \in S
    BY Pow2Defined
  <2> HIDE DEF S
  <2>2. 0..Width \subseteq S
    BY <2>1, OneByOne
  <2> QED BY <2>2 DEF S
<1>2. Width > 0 => Pow2[1] = 2
  <2>1. Width > 0 => Pow2[1] = 2 * Pow2[0]
    BY Pow2Defined
  <2> QED BY <2>1, Pow2Defined
<1>3. ASSUME NEW m \in 0 .. Width, NEW n \in 0 .. Width, m + n <= Width
      PROVE  Pow2[m + n] = Pow2[m] * Pow2[n]
  <2> DEFINE S == {i \in 0..n : Pow2[m + i] = Pow2[m] * Pow2[i]}
  <2>1. 0 \in S
    <3>1. Pow2[m] \in Nat /\ m + 0 = m
      BY <1>1
    <3>2. Pow2[m] * 1 = Pow2[m]
      BY <3>1
    <3> QED BY <3>1, <3>2, Pow2Defined
  <2>2. ASSUME NEW i \in 1..n, i - 1 \in S PROVE i \in S
    <3>1. Pow2[m + (i - 1)] = Pow2[m] * Pow2[i - 1]
      BY <2>2
    <3>2. m + i \in 1..Width /\ (m + i) - 1 = m + (i - 1)
      BY <1>3
    <3>3. Pow2[m + i] = 2 * Pow2[m + (i - 1)]
      BY <3>2, Pow2Defined
    <3>4. i \in 1..Width /\ i - 1 \in 0..Width
      BY <1>3
    <3>5. Pow2[i] = 2 * Pow2[i - 1]
      BY <3>4, Pow2Defined
    <3>6. Pow2[m] \in Nat /\ Pow2[i - 1] \in Nat
      BY <1>1, <3>4
    <3>7. \A a, b \in Nat : 2 * (a * b) = a * (2 * b)
      BY SMT
    <3> QED BY <3>1, <3>3, <3>5, <3>6, <3>7
  <2> HIDE DEF S
  <2>3. n \in S
    BY <2>1, <2>2, OneByOne
  <2> QED BY <2>3 DEF S
<1> QED BY <1>1, <1>2, <1>3, Pow2Defined

(***************************************************************************)
(* Arithmetic of blocks                                                    *)
(***************************************************************************)

\* An address is its block's number times the block's size, plus its offset:
\* what clearing and setting host bits rests on.
LEMMA DivMod ==
    ASSUME NEW a \in Nat, NEW s \in Nat \ {0}
    PROVE  /\ a = s * (a \div s) + (a % s)
           /\ a % s \in 0 .. s - 1
           /\ a \div s \in Nat
  BY SMT

\* Products of naturals are naturals, also where the factors are not numerals.
LEMMA Product == \A m, n \in Nat : m * n \in Nat
  BY SMT

\* Two numbers with the same quotient lie in the same block of s numbers, and
\* any number of that block has that quotient.
LEMMA SameBlock ==
    ASSUME NEW s \in Nat \ {0}, NEW q \in Nat, NEW a \in Nat
    PROVE  a \div s = q <=> s * q <= a /\ a < s * q + s
<1> DEFINE d == a \div s
<1>1. a = s * d + (a % s) /\ a % s \in 0 .. s - 1 /\ d \in Nat
  BY DivMod
<1>2. s * d \in Nat /\ s * q \in Nat /\ a % s \in Nat
  BY <1>1
<1>3. ASSUME d < q PROVE s * d + s <= s * q
  <2>1. s * (d + 1) <= s * q
    BY <1>1, <1>3
  <2>2. s * (d + 1) = s * d + s
    BY <1>1
  <2> QED BY <2>1, <2>2
<1>4. ASSUME q < d PROVE s * q + s <= s * d
  <2>1. s * (q + 1) <= s * d
    BY <1>1, <1>4
  <2>2. s * (q + 1) = s * q + s
    BY <1>1
  <2> QED BY <2>1, <2>2
<1> HIDE DEF d
<1>5. d = q <=> s * q <= a /\ a < s * q + s
  BY <1>1, <1>2, <1>3, <1>4
<1> QED BY <1>5 DEF d

\* Addresses are the numbers of Width bits.
LEMMA Numbers ==
    /\ Width \in Nat
    /\ \A n \in 0 .. Width : Pow2[n] \in Nat \ {0}
    /\ Pow2[Width] \in Nat \ {0}
    /\ \A a : a \in Addresses <=> a \in Nat /\ a < Pow2[Width]
<1>1. Width \in Nat /\ \A n \in 0 .. Width : Pow2[n] \in Nat \ {0}
  BY PowersOfTwo
<1>2. Width \in 0 .. Width
  BY <1>1
<1>3. Pow2[Width] \in Nat \ {0}
  BY <1>1, <1>2
<1> QED BY <1>1, <1>3 DEF Addresses

\* The law of exponents, with the sum written as one number.
LEMMA Pow2Adds ==
    ASSUME NEW k \in 0 .. Width, NEW m \in 0 .. Width, NEW n \in 0 .. Width, m + n = k
    PROVE  Pow2[k] = Pow2[m] * Pow2[n]
<1>1. m + n <= Width
  BY PowersOfTwo
<1>2. Pow2[m + n] = Pow2[m] * Pow2[n]
  BY <1>1, PowersOfTwo
<1> QED BY <1>2

\* The block of a prefix: its size, and the number of its first address.
LEMMA BlockShape ==
    ASSUME NEW p \in Prefix
    PROVE  /\ BlockSize(p) \in Nat \ {0}
           /\ p.addr \in Nat
           /\ p.addr \div BlockSize(p) \in Nat
           /\ Network(p) = BlockSize(p) * (p.addr \div BlockSize(p))
           /\ Network(p) \in Nat
<1>1. p.bits \in 0 .. Width /\ p.addr \in Addresses
  BY DEF Prefix
<1>2. BlockSize(p) \in Nat \ {0}
  <2>1. Width - p.bits \in 0 .. Width
    BY <1>1, Numbers
  <2> QED BY <2>1, Numbers DEF BlockSize
<1>3. p.addr \in Nat
  BY <1>1, Numbers
<1> DEFINE s == BlockSize(p)
           a == p.addr
<1>4. s \in Nat \ {0} /\ a \in Nat
  BY <1>2, <1>3
<1> HIDE DEF s, a
<1>5. /\ a = s * (a \div s) + (a % s)
      /\ a % s \in 0 .. s - 1
      /\ a \div s \in Nat
  BY <1>4, DivMod
<1>6. s * (a \div s) \in Nat
  BY <1>4, <1>5, Product
<1>7. a - (a % s) = s * (a \div s)
  BY <1>4, <1>5, <1>6
<1> QED BY <1>4, <1>5, <1>6, <1>7 DEF s, a, Network

\* Clearing host bits does not increase an address.
LEMMA NetworkBelow == ASSUME NEW p \in Prefix PROVE Network(p) <= p.addr
<1> DEFINE s == BlockSize(p)
           a == p.addr
<1>1. s \in Nat \ {0} /\ a \in Nat
  BY BlockShape
<1> HIDE DEF s, a
<1>2. a % s \in 0 .. s - 1
  BY <1>1, DivMod
<1>3. a - (a % s) <= a
  BY <1>1, <1>2
<1> QED BY <1>3 DEF s, a, Network

\* Blocks do not straddle the end of the address space: lastAddr is an address.
LEMMA BlockInSpace ==
    ASSUME NEW p \in Prefix
    PROVE  Network(p) + BlockSize(p) <= Pow2[Width]
<1> DEFINE s == BlockSize(p)
           q == p.addr \div s
           blocks == Pow2[p.bits]
<1>1. p.bits \in 0 .. Width /\ Width \in Nat
  BY PowersOfTwo DEF Prefix
<1>2. Width - p.bits \in 0 .. Width /\ (Width - p.bits) + p.bits = Width
  BY <1>1
<1>3. Pow2[Width] = s * blocks
  BY <1>1, <1>2, Pow2Adds DEF BlockSize
<1>4. blocks \in Nat /\ s \in Nat \ {0} /\ q \in Nat
  BY <1>1, PowersOfTwo, BlockShape
<1>5. s * q = Network(p) /\ Network(p) <= p.addr
  BY BlockShape, NetworkBelow
<1>6. s * q < s * blocks
  BY <1>3, <1>5, BlockShape, Numbers DEF Prefix
<1> HIDE DEF s, q, blocks
<1>7. q < blocks
  <2>1. ASSUME blocks <= q PROVE s * blocks <= s * q
    BY <2>1, <1>4
  <2> QED BY <2>1, <1>4, <1>6
<1>8. s * (q + 1) <= s * blocks
  BY <1>4, <1>7
<1>9. s * (q + 1) = s * q + s
  BY <1>4
<1> QED BY <1>3, <1>5, <1>8, <1>9 DEF s

\* The host addresses are those strictly between the network's own address and
\* the broadcast address, the two ends of the loop.
LEMMA HostsBetween ==
    ASSUME NEW p \in Prefix, NEW a \in Addresses
    PROVE  a \in Hosts(p) <=> Network(p) < a /\ a < LastAddr(p)
<1> DEFINE s == BlockSize(p)
           q == p.addr \div s
<1>1. a \in Nat /\ s \in Nat \ {0} /\ q \in Nat /\ Network(p) = s * q /\ s * q \in Nat
  BY BlockShape, PowersOfTwo DEF Addresses
<1>2. Contains(p, a) <=> s * q <= a /\ a < s * q + s
  <2>1. Contains(p, a) <=> a \div s = q
    BY DEF Contains
  <2> QED BY <1>1, <2>1, SameBlock
<1>3. Contains(p, a) => a % s = a - s * q
  <2>1. Contains(p, a) <=> a \div s = q
    BY DEF Contains
  <2> HIDE DEF s, q
  <2>2. a = s * (a \div s) + (a % s) /\ a % s \in Nat
    BY <1>1, DivMod
  <2> QED BY <1>1, <2>1, <2>2
<1>4. a \in Hosts(p) <=> Contains(p, a) /\ a % s # 0 /\ a % s # s - 1
  BY DEF Hosts
<1>5. LastAddr(p) = s * q + s - 1
  BY <1>1 DEF LastAddr
<1> HIDE DEF s, q
<1> QED BY <1>1, <1>2, <1>3, <1>4, <1>5

(***************************************************************************)
(* The loop                                                                *)
(***************************************************************************)

\* Everything between the network address and the candidate is occupied.
Scanned ==
    /\ candidate \in Addresses
    /\ Network(prefix) < candidate
    /\ \A a \in Addresses : Network(prefix) < a /\ a < candidate => a \in Occupied
    /\ state = "found" => candidate < LastAddr(prefix) /\ candidate \notin Occupied
    /\ state = "exhausted" => LastAddr(prefix) <= candidate

IInv == TypeOK /\ (HasSuccessor(prefix) => Scanned)

\* The first candidate is the address after the network's own.
LEMMA FirstCandidate ==
    ASSUME NEW p \in Prefix, HasSuccessor(p)
    PROVE  NextAddr(Network(p)) = Network(p) + 1 /\ Network(p) + 1 \in Addresses
<1>1. Network(p) \in Nat /\ BlockSize(p) \in Nat \ {0} /\ p.addr \in Nat
  BY BlockShape
<1>2. p.bits \in 0 .. Width /\ Width \in Nat /\ Pow2[Width] \in Nat
  BY PowersOfTwo DEF Prefix
<1>3. CASE p.bits < Width
  <2>1. BlockSize(p) # 1
    <3> DEFINE h == Width - p.bits
    <3>1. h \in 1 .. Width
      BY <1>2, <1>3
    <3>2. 1 \in 0 .. Width /\ h - 1 \in 0 .. Width /\ 1 + (h - 1) = h
      BY <1>2, <3>1
    <3>3. Pow2[h] = Pow2[1] * Pow2[h - 1] /\ Pow2[1] = 2
      <4>1. Pow2[1] = 2
        BY <1>2, <1>3, PowersOfTwo
      <4>2. h \in 0 .. Width
        BY <1>2, <3>1
      <4> HIDE DEF h
      <4> QED BY <3>2, <4>1, <4>2, Pow2Adds
    <3>4. Pow2[h - 1] \in Nat \ {0}
      BY <3>2, Numbers
    <3> HIDE DEF h
    <3>5. Pow2[h] # 1
      BY <3>3, <3>4
    <3> QED BY <3>5 DEF h, BlockSize
  <2> QED BY <1>1, <1>2, <2>1, BlockInSpace DEF NextAddr, Addresses
<1>4. CASE p.addr + 1 \in Addresses
  <2>1. Network(p) <= p.addr
    BY NetworkBelow
  <2> QED BY <1>1, <1>4, <2>1, Numbers DEF NextAddr
<1> QED BY <1>3, <1>4 DEF HasSuccessor

\* Whatever is taken, Allocate returns the lowest free host address of the
\* subnet, and reports exhaustion only when every host address is occupied: for
\* addresses of every width, every set of subnets and every configured address
\* in them but the last address of the space as a subnet of its own.
THEOREM AllocateLowestFree == Spec => []LowestFreeOrNone
<1>1. Init => IInv
  <2> SUFFICES ASSUME Init PROVE IInv
    OBVIOUS
  <2>1. TypeOK
    BY DEF Init, TypeOK, NextAddr
  <2>2. ASSUME HasSuccessor(prefix) PROVE Scanned
    <3>1. prefix \in Prefix
      BY PrefixesAreValid DEF Init
    <3>2. candidate = Network(prefix) + 1 /\ candidate \in Addresses
      BY <2>2, <3>1, FirstCandidate DEF Init
    <3>3. Network(prefix) \in Nat
      BY <3>1, BlockShape
    <3>4. \A a \in Addresses : a \in Nat
      BY Numbers
    <3> QED BY <3>2, <3>3, <3>4 DEF Init, Scanned
  <2> QED BY <2>1, <2>2 DEF IInv
<1>2. IInv /\ [Next]_vars => IInv'
  <2> SUFFICES ASSUME IInv, [Next]_vars PROVE IInv'
    OBVIOUS
  <2> USE DEF IInv
  <2>0. prefix \in Prefix
    BY PrefixesAreValid DEF TypeOK
  <2>1. CASE Skip
    <3>1. TypeOK' /\ prefix' = prefix
      BY <2>1 DEF Skip, TypeOK, NextAddr
    <3>2. ASSUME Scanned PROVE Scanned'
      <4>1. Network(prefix) \in Nat /\ BlockSize(prefix) \in Nat
        BY <2>0, BlockShape
      <4>2. candidate' = candidate + 1 /\ candidate + 1 \in Addresses
        <5>1. candidate \in Nat /\ candidate < Network(prefix) + BlockSize(prefix) - 1
          BY <2>1, <3>2, Numbers DEF Skip, Less, LastAddr, Scanned
        <5>2. Network(prefix) + BlockSize(prefix) <= Pow2[Width]
          BY <2>0, BlockInSpace
        <5>3. candidate + 1 \in Addresses
          BY <4>1, <5>1, <5>2, Numbers
        <5> QED BY <2>1, <5>3 DEF Skip, NextAddr
      <4>3. /\ prefix' = prefix /\ Occupied' = Occupied /\ state' = "searching"
            /\ candidate \in Occupied
        BY <2>1 DEF Skip, Occupied
      <4>4. \A a \in Addresses : Network(prefix) < a /\ a < candidate' => a \in Occupied
        BY <3>2, <4>1, <4>2, <4>3, Numbers DEF Scanned
      <4> QED BY <3>2, <4>1, <4>2, <4>3, <4>4, Numbers DEF Scanned
    <3> QED BY <3>1, <3>2 DEF HasSuccessor, Addresses
  <2>2. CASE Found
    <3>1. TypeOK' /\ prefix' = prefix
      BY <2>2 DEF Found, TypeOK
    <3>2. ASSUME Scanned PROVE Scanned'
      BY <2>2, <3>2 DEF Found, Scanned, Occupied, Less
    <3> QED BY <3>1, <3>2 DEF HasSuccessor, Addresses
  <2>3. CASE Exhausted
    <3>1. TypeOK' /\ prefix' = prefix
      BY <2>3 DEF Exhausted, TypeOK
    <3>2. ASSUME Scanned PROVE Scanned'
      <4>1. LastAddr(prefix) \in Int /\ candidate \in Int
        BY <2>0, <3>2, BlockShape, Numbers DEF LastAddr, Scanned
      <4>2. LastAddr(prefix) <= candidate
        BY <2>3, <4>1 DEF Exhausted, Less
      <4> QED BY <2>3, <3>2, <4>2 DEF Exhausted, Scanned, Occupied
    <3> QED BY <3>1, <3>2 DEF HasSuccessor, Addresses
  <2>4. CASE UNCHANGED vars
    BY <2>4 DEF vars, TypeOK, Scanned, Occupied, HasSuccessor, Addresses
  <2> QED BY <2>1, <2>2, <2>3, <2>4 DEF Next
<1>3. IInv => LowestFreeOrNone
  <2> SUFFICES ASSUME IInv, HasSuccessor(prefix)
               PROVE  /\ state = "found" =>
                            /\ candidate \in Hosts(prefix) \ Occupied
                            /\ \A a \in Hosts(prefix) \ Occupied : candidate <= a
                      /\ state = "exhausted" => Hosts(prefix) \subseteq Occupied
    BY DEF LowestFreeOrNone
  <2> USE DEF IInv
  <2>1. prefix \in Prefix
    BY PrefixesAreValid DEF TypeOK
  <2>2. Hosts(prefix) \subseteq Addresses
    BY DEF Hosts
  <2>3. \A a \in Addresses : a \in Hosts(prefix) <=>
            Network(prefix) < a /\ a < LastAddr(prefix)
    BY <2>1, HostsBetween
  <2>4. /\ Network(prefix) \in Int /\ LastAddr(prefix) \in Int
        /\ \A a \in Addresses : a \in Int
    BY <2>1, BlockShape, Numbers DEF LastAddr
  <2>5. state = "found" =>
            /\ candidate \in Hosts(prefix) \ Occupied
            /\ \A a \in Hosts(prefix) \ Occupied : candidate <= a
    <3> SUFFICES ASSUME state = "found"
                 PROVE  /\ candidate \in Hosts(prefix) \ Occupied
                        /\ \A a \in Hosts(prefix) \ Occupied : candidate <= a
      OBVIOUS
    <3>1. candidate \in Hosts(prefix) \ Occupied
      BY <2>3 DEF Scanned
    <3>2. ASSUME NEW a \in Hosts(prefix) \ Occupied PROVE candidate <= a
      <4>1. a \in Addresses /\ Network(prefix) < a
        BY <2>2, <2>3, <3>2
      <4>2. ~(a < candidate)
        BY <4>1, <3>2 DEF Scanned
      <4> QED BY <2>4, <4>1, <4>2 DEF Scanned
    <3> QED BY <3>1, <3>2
  <2>6. state = "exhausted" => Hosts(prefix) \subseteq Occupied
    <3> SUFFICES ASSUME state = "exhausted", NEW a \in Hosts(prefix)
                 PROVE  a \in Occupied
      OBVIOUS
    <3>1. a \in Addresses /\ Network(prefix) < a /\ a < LastAddr(prefix)
      BY <2>2, <2>3
    <3>2. a < candidate
      BY <2>4, <3>1 DEF Scanned
    <3> QED BY <3>1, <3>2 DEF Scanned
  <2> QED BY <2>5, <2>6
<1> QED BY <1>1, <1>2, <1>3, PTL DEF Spec
=============================================================================
