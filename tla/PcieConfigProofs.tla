------------------------- MODULE PcieConfigProofs -------------------------
(***************************************************************************)
(* Proofs about PcieConfig, for every size of a byte, number of BARs, flag *)
(* mask and sizes of the BARs that are powers as pcie_set_bar wants them:  *)
(* types, the size QEMU computes, and the agreement of the two copies.     *)
(***************************************************************************)
EXTENDS PcieConfig, TLAPS

----------------------------------------------------------------------------
(* Arithmetic *)

LEMMA Euclid ==
  ASSUME NEW x \in Nat, NEW s \in Nat, s > 0
  PROVE  /\ x \div s \in Nat /\ x % s \in Nat /\ x % s < s
         /\ x = (x \div s) * s + (x % s) /\ x % s <= x
OBVIOUS

LEMMA Remainder ==
  ASSUME NEW k \in Nat, NEW s \in Nat, s > 0, NEW r \in Nat, r < s
  PROVE  (k * s + r) % s = r /\ (k * s + r) \div s = k
OBVIOUS

LEMMA Multiple ==
  ASSUME NEW k \in Nat, NEW s \in Nat, s > 0
  PROVE  (k * s) % s = 0
OBVIOUS

\* The difference of two multiples is one
LEMMA Difference ==
  ASSUME NEW x \in Nat, NEW y \in Nat, NEW s \in Nat, s > 0, y <= x, x % s = 0, y % s = 0
  PROVE  (x - y) % s = 0
<1> DEFINE a == x \div s
           b == y \div s
<1>1. a \in Nat /\ b \in Nat /\ x = a * s /\ y = b * s
  BY Euclid
<1> HIDE DEF a, b
<1>2. b <= a
  <2> SUFFICES ASSUME b > a PROVE FALSE
    BY <1>1
  <2> DEFINE j == b - a - 1
  <2>1. j \in Nat /\ b = a + 1 + j
    BY <1>1
  <2> HIDE DEF j
  <2>2. b * s = a * s + s + j * s /\ j * s \in Nat /\ a * s \in Nat
    BY <1>1, <2>1
  <2> QED
    BY <1>1, <2>2
<1>3. x - y = (a - b) * s /\ a - b \in Nat
  BY <1>1, <1>2
<1> DEFINE k == a - b
<1> HIDE DEF k
<1>4. (k * s) % s = 0
  BY <1>3, Multiple DEF k
<1> QED
  BY <1>3, <1>4 DEF k

LEMMA ProductNat ==
  ASSUME NEW a \in Nat, NEW b \in Nat
  PROVE  a * b \in Nat /\ (a > 0 /\ b > 0 => a * b > 0)
OBVIOUS

LEMMA ProductMonotone ==
  ASSUME NEW a \in Nat, NEW b \in Nat, NEW s \in Nat, a <= b
  PROVE  a * s <= b * s
<1> DEFINE k == b - a
<1>1. k \in Nat /\ b = a + k
  OBVIOUS
<1> HIDE DEF k
<1>2. b * s = a * s + k * s /\ k * s \in Nat /\ a * s \in Nat
  BY <1>1
<1> QED
  BY <1>2

----------------------------------------------------------------------------
(* Bytes *)

LEMMA Weights ==
  /\ \A k \in 0..4 : Weight(k) \in Nat /\ Weight(k) > 0
  /\ Weight(0) = 1 /\ Modulus = Weight(4) /\ Modulus > 1
<1>1. Base \in Nat /\ Base > 1
  BY BaseAssumption
<1> DEFINE w2 == Base * Base
           w3 == w2 * Base
           w4 == w3 * Base
<1>2. w2 \in Nat /\ w2 > 1
  BY <1>1
<1> HIDE DEF w2
<1>3. w3 \in Nat /\ w3 > 1
  BY <1>1, <1>2
<1> HIDE DEF w3
<1>4. w4 \in Nat /\ w4 > 1
  BY <1>1, <1>3
<1> HIDE DEF w4
<1>5. Weight(0) = 1 /\ Weight(1) = Base /\ Weight(2) = w2 /\ Weight(3) = w3 /\ Weight(4) = w4
  BY DEF Weight, w2, w3, w4
<1>6. \A k \in 0..4 : k = 0 \/ k = 1 \/ k = 2 \/ k = 3 \/ k = 4
  OBVIOUS
<1> QED
  BY <1>1, <1>2, <1>3, <1>4, <1>5, <1>6 DEF Modulus

\* The weights of adjacent runs of bytes multiply
LEMMA WeightSum ==
  ASSUME NEW b \in 0..4, NEW n \in 0..4, b + n <= 4
  PROVE  Weight(b + n) = Weight(b) * Weight(n)
<1> USE BaseAssumption DEF Weight
<1>0. b \in {0, 1, 2, 3, 4} /\ n \in {0, 1, 2, 3, 4}
  OBVIOUS
<1>1. CASE b = 0
  BY <1>0, <1>1
<1>2. CASE b = 1
  BY <1>0, <1>2
<1>3. CASE b = 2
  BY <1>0, <1>3
<1>4. CASE b = 3
  BY <1>0, <1>4
<1>5. CASE b = 4
  BY <1>0, <1>5
<1> QED
  BY <1>0, <1>1, <1>2, <1>3, <1>4, <1>5

LEMMA PutType ==
  ASSUME NEW v \in Values, NEW d \in Values, NEW n \in {1, 2, 4}, NEW b \in 0..(4 - n)
  PROVE  Put(v, b, n, d) \in Values
<1> DEFINE lo == Weight(b)
           w == Weight(n)
           hi == Weight(b + n)
           top == Weight(4 - (b + n))
<1>0. v \in Nat /\ d \in Nat /\ v < Modulus
  BY Weights DEF Values
<1>1. /\ lo \in Nat /\ w \in Nat /\ hi \in Nat /\ top \in Nat
      /\ lo > 0 /\ w > 0 /\ hi > 0 /\ top > 0
  BY Weights
<1>2. hi = lo * w
  BY WeightSum
<1>3. Modulus = hi * top
  <2>1. (b + n) + (4 - (b + n)) = 4 /\ b + n \in 0..4 /\ 4 - (b + n) \in 0..4
    OBVIOUS
  <2> DEFINE m == b + n
             k == 4 - m
  <2>2. m \in 0..4 /\ k \in 0..4 /\ m + k = 4
    BY <2>1
  <2> HIDE DEF m, k
  <2>3. Weight(m + k) = Weight(m) * Weight(k)
    BY <2>2, WeightSum
  <2>4. Modulus = Weight(m) * Weight(k)
    BY <2>2, <2>3, Weights
  <2> QED
    BY <2>4 DEF m, k
<1> DEFINE q == v \div hi
           x == d % w
           y == v % lo
<1>4. Put(v, b, n, d) = q * hi + x * lo + y
  BY DEF Put
<1> HIDE DEF lo, w, hi, top
<1>5. q \in Nat /\ q * hi <= v
  BY <1>0, <1>1, Euclid
<1>6. x \in Nat /\ x <= w - 1 /\ y \in Nat /\ y <= lo - 1
  BY <1>0, <1>1, Euclid
<1> HIDE DEF q, x, y
<1>7. x * lo <= hi - lo /\ x * lo \in Nat
  <2>1. x * lo <= (w - 1) * lo /\ (w - 1) * lo = w * lo - lo /\ x * lo \in Nat
    BY <1>1, <1>6, ProductMonotone
  <2> QED
    BY <1>1, <1>2, <2>1
<1>8. q + 1 <= top
  <2> SUFFICES ASSUME top <= q PROVE FALSE
    BY <1>1, <1>5
  <2>1. top * hi <= q * hi
    BY <1>1, <1>5, ProductMonotone
  <2> QED
    BY <1>0, <1>1, <1>3, <1>5, <2>1, ProductNat
<1>9. q * hi + hi <= Modulus
  <2>1. (q + 1) * hi <= top * hi
    BY <1>1, <1>5, <1>8, ProductMonotone
  <2> QED
    BY <1>1, <1>3, <1>5, <2>1
<1>10. q * hi \in Nat
  BY <1>1, <1>5
<1> QED
  BY <1>1, <1>4, <1>6, <1>7, <1>9, <1>10, Weights DEF Values

\* A write of all four bytes replaces the register
LEMMA PutAll ==
  ASSUME NEW v \in Values, NEW d \in Values
  PROVE  Put(v, 0, 4, d) = d
<1>1. Weight(0 + 4) = Modulus /\ Weight(0) = 1 /\ Weight(4) = Modulus /\ Modulus \in Nat /\ Modulus > 1
  BY Weights
<1>2. v \div Modulus = 0 /\ d % Modulus = d /\ v % 1 = 0
  BY <1>1 DEF Values
<1>3. Put(v, 0, 4, d) = 0 * Modulus + d * 1 + 0
  BY <1>1, <1>2 DEF Put
<1> QED
  BY <1>1, <1>3 DEF Values

----------------------------------------------------------------------------
(* Sizes and addresses *)

LEMMA SizeValue == Sizes \subseteq Values
BY SizesAssumption, Weights DEF Values

LEMMA Cleared ==
  ASSUME NEW v \in Nat, NEW s \in Nat, s > 0
  PROVE  /\ ClearLow(v, s) \in Nat /\ ClearLow(v, s) <= v
         /\ ClearLow(ClearLow(v, s), s) = ClearLow(v, s)
         /\ v % s = 0 => ClearLow(v, s) = v
<1> DEFINE q == v \div s
           r == v % s
<1>1. q \in Nat /\ r \in Nat /\ r < s /\ v = q * s + r /\ r <= v
  BY Euclid
<1>2. ClearLow(v, s) = v - r
  BY DEF ClearLow
<1> HIDE DEF q
<1>3. q * s \in Nat
  BY <1>1
<1>4. v - r = q * s
  BY <1>1, <1>3
<1>5. (q * s) % s = 0
  BY <1>1, Multiple
<1>6. ClearLow(ClearLow(v, s), s) = ClearLow(v, s)
  <2> DEFINE c == ClearLow(v, s)
  <2>1. c = q * s /\ c \in Nat /\ c % s = 0
    BY <1>2, <1>3, <1>4, <1>5
  <2> HIDE DEF c
  <2>2. ClearLow(c, s) = c
    BY <2>1 DEF ClearLow
  <2> QED
    BY <2>2 DEF c
<1>7. ClearLow(v, s) \in Nat /\ ClearLow(v, s) <= v
  BY <1>1, <1>2
<1>8. v % s = 0 => ClearLow(v, s) = v
  BY DEF ClearLow
<1> QED
  BY <1>6, <1>7, <1>8

\* What a probe reads back from a BAR
LEMMA MaskIs ==
  ASSUME NEW s \in Sizes, s # 0
  PROVE  s \in Nat /\ s > 0 /\ s < Modulus /\ DecodedMask(s) = Modulus - s
<1>1. /\ s \in Nat /\ s > 0 /\ s < Modulus /\ Modulus % s = 0 /\ Modulus \in Nat
  BY SizesAssumption, Weights DEF Values
<1> DEFINE k == Modulus \div s
<1>2. k \in Nat /\ Modulus = k * s
  BY <1>1, Euclid
<1> HIDE DEF k
<1>3. k > 0
  BY <1>1, <1>2
<1> DEFINE j == k - 1
<1>4. j \in Nat /\ k = j + 1
  BY <1>2, <1>3
<1> HIDE DEF j
<1>5. Ones = j * s + (s - 1) /\ s - 1 \in Nat /\ s - 1 < s /\ j * s \in Nat
  BY <1>1, <1>2, <1>4 DEF Ones
<1>6. (j * s + (s - 1)) % s = s - 1
  BY <1>1, <1>4, <1>5, Remainder
<1>7. DecodedMask(s) = Ones - (s - 1)
  BY <1>5, <1>6 DEF DecodedMask, ClearLow
<1> QED
  BY <1>1, <1>7 DEF Ones

\* The size QEMU computes is the size of the BAR
LEMMA ProbeComputes ==
  ASSUME NEW s \in Sizes, s # 0
  PROVE  ProbedSize(DecodedMask(s)) = s
<1>1. s \in Nat /\ s > 0 /\ s < Modulus /\ DecodedMask(s) = Modulus - s
  BY MaskIs
<1>2. /\ Flags \in Nat /\ Flags > 0 /\ Modulus % Flags = 0 /\ s % Flags = 0
      /\ Modulus \in Nat
  BY FlagsAssumption, SizesAssumption, Weights
<1> DEFINE m == Modulus - s
<1>3. m \in Nat /\ m % Flags = 0
  <2>1. s <= Modulus
    BY <1>1, <1>2
  <2>2. m \in Nat
    BY <1>1, <1>2
  <2>3. (Modulus - s) % Flags = 0
    BY <1>1, <1>2, <2>1, Difference
  <2> QED
    BY <2>2, <2>3
<1>4. DecodedMask(s) = m
  BY <1>1
<1>5. Modulus - m = s
  BY <1>1, <1>2
<1> HIDE DEF m
<1>6. ClearLow(m, Flags) = m
  BY <1>2, <1>3, Cleared
<1>7. ProbedSize(m) = s % Modulus
  BY <1>5, <1>6 DEF ProbedSize
<1>8. s % Modulus = s
  BY <1>1, <1>2
<1> QED
  BY <1>4, <1>7, <1>8

LEMMA ProbedType ==
  ASSUME NEW v \in Values
  PROVE  ProbedSize(v) \in Values
<1>1. Modulus \in Nat /\ Modulus > 0 /\ v \in Nat /\ v < Modulus /\ Flags \in Nat /\ Flags > 0
  BY Weights, FlagsAssumption DEF Values
<1> DEFINE c == ClearLow(v, Flags)
           m == Modulus - c
<1>2. c \in Nat /\ c <= v
  BY <1>1, Cleared
<1> HIDE DEF c
<1>3. m \in Nat
  BY <1>1, <1>2
<1> HIDE DEF m
<1>4. m % Modulus \in Nat /\ m % Modulus < Modulus
  BY <1>1, <1>3, Euclid
<1>5. ProbedSize(v) = m % Modulus
  BY DEF ProbedSize, m, c
<1> QED
  BY <1>1, <1>4, <1>5 DEF Values

LEMMA ProbedZero == ProbedSize(0) = 0
<1>1. Modulus \in Nat /\ Modulus > 0 /\ Flags \in Nat /\ Flags > 0
  BY Weights, FlagsAssumption
<1>2. ClearLow(0, Flags) = 0
  BY <1>1, Cleared
<1>3. ProbedSize(0) = Modulus % Modulus
  BY <1>1, <1>2 DEF ProbedSize
<1>4. (1 * Modulus) % Modulus = 0
  BY <1>1, Multiple
<1> QED
  BY <1>1, <1>3, <1>4

LEMMA MaskValue ==
  ASSUME NEW s \in Sizes, s # 0
  PROVE  DecodedMask(s) \in Values /\ ClearLow(DecodedMask(s), s) = DecodedMask(s)
<1>1. s \in Nat /\ s > 0 /\ s < Modulus /\ DecodedMask(s) = Modulus - s /\ Modulus \in Nat
  BY MaskIs, Weights
<1>2. Ones \in Nat
  BY <1>1 DEF Ones
<1>3. ClearLow(DecodedMask(s), s) = DecodedMask(s)
  BY <1>1, <1>2, Cleared DEF DecodedMask
<1> QED
  BY <1>1, <1>3 DEF Values

----------------------------------------------------------------------------
(* The device's handler *)

LEMMA OnWriteType ==
  ASSUME TypeOK, NEW cfg \in [ConfigRegs -> Values], NEW buf \in Values, NEW r \in ConfigRegs,
         NEW n \in {1, 2, 4}, NEW b \in 0..(4 - n)
  PROVE  on_write_config(cfg, buf, r, b, n) \in [ConfigRegs -> Values]
<1>1. CASE IsBarAddr(r, b) /\ buf = Ones
  <2>1. r \in BarRegs
    BY <1>1, BaseAssumption DEF IsBarAddr, ConfigRegs, BarRegs
  <2>2. bar_size[r] # 0 => DecodedMask(bar_size[r]) \in Values
    BY <2>1, MaskValue DEF TypeOK
  <2> QED
    BY <1>1, <2>2 DEF on_write_config
<1>2. CASE ~(IsBarAddr(r, b) /\ buf = Ones)
  <2>1. Put(cfg[r], b, n, buf) \in Values
    BY PutType
  <2>2. on_write_config(cfg, buf, r, b, n) = [cfg EXCEPT ![r] = Put(cfg[r], b, n, buf)]
    BY <1>2 DEF on_write_config
  <2> QED
    BY <2>1, <2>2
<1> QED
  BY <1>1, <1>2

LEMMA OnWriteAll ==
  ASSUME TypeOK, NEW cfg \in [ConfigRegs -> Values], NEW buf \in Values, NEW r \in ConfigRegs
  PROVE  /\ on_write_config(cfg, buf, r, 0, 4) \in [ConfigRegs -> Values]
         /\ \A s \in ConfigRegs \ {r} : on_write_config(cfg, buf, r, 0, 4)[s] = cfg[s]
<1> DEFINE n == 4
           b == 0
<1>1. n \in {1, 2, 4} /\ b \in 0..(4 - n)
  OBVIOUS
<1> HIDE DEF n, b
<1>2. on_write_config(cfg, buf, r, b, n) \in [ConfigRegs -> Values]
  BY <1>1, OnWriteType, Zenon
<1>3. \A s \in ConfigRegs \ {r} : on_write_config(cfg, buf, r, b, n)[s] = cfg[s]
  BY DEF on_write_config
<1> QED
  BY <1>2, <1>3 DEF n, b

\* A write of all of a BAR: the size is asked for, or the address is set
LEMMA OnWriteBar ==
  ASSUME TypeOK, NEW cfg \in [ConfigRegs -> Values], NEW buf \in Values, NEW r \in BarRegs
  PROVE  /\ buf = Ones /\ bar_size[r] = 0 => on_write_config(cfg, buf, r, 0, 4)[r] = cfg[r]
         /\ buf = Ones /\ bar_size[r] # 0 =>
              on_write_config(cfg, buf, r, 0, 4)[r] = DecodedMask(bar_size[r])
         /\ buf # Ones => on_write_config(cfg, buf, r, 0, 4)[r] = buf
<1>1. IsBarAddr(r, 0) /\ r \in ConfigRegs
  BY BaseAssumption DEF IsBarAddr, ConfigRegs, BarRegs
<1>2. CASE buf = Ones
  BY <1>1, <1>2 DEF on_write_config
<1>3. CASE buf # Ones
  <2>1. on_write_config(cfg, buf, r, 0, 4) = [cfg EXCEPT ![r] = Put(cfg[r], 0, 4, buf)]
    BY <1>3 DEF on_write_config
  <2>2. Put(cfg[r], 0, 4, buf) = buf
    BY <1>1, PutAll
  <2> QED
    BY <1>1, <1>3, <2>1, <2>2
<1> QED
  BY <1>2, <1>3

----------------------------------------------------------------------------
(* Types *)

LEMMA InitTypes == Init => TypeOK
<1>1. 0 \in Values /\ 0 \in 0..(NBars + 1)
  BY Weights, BaseAssumption DEF Values
<1> QED
  BY <1>1 DEF Init, TypeOK

LEMMA OnesValue == Ones \in Values /\ 0 \in Values /\ Ones # 0
BY Weights DEF Ones, Values

LEMMA ProbeTypes ==
  ASSUME TypeOK, ProbeRegion
  PROVE  TypeOK'
<1> DEFINE r == probing
           asked == on_write_config(config, Ones, r, 0, 4)
           restored == on_write_config(asked, pci_conf[r], r, 0, 4)
           size == ProbedSize(asked[r])
<1>0. r \in ConfigRegs /\ pci_conf[r] \in Values
  BY DEF ProbeRegion, TypeOK
<1>1. asked \in [ConfigRegs -> Values]
  BY <1>0, OnesValue, OnWriteAll DEF TypeOK
<1>2. restored \in [ConfigRegs -> Values]
  BY <1>0, <1>1, OnWriteAll
<1>3. size \in Values
  BY <1>0, <1>1, ProbedType
<1>4. /\ \/ size = 0 /\ config' = restored /\ pci_conf' = pci_conf /\ wsize' = wsize
         \/ /\ size # 0
            /\ pci_conf' = IF r \in BarRegs THEN [pci_conf EXCEPT ![r] = 0] ELSE pci_conf
            /\ wsize' = IF r \in BarRegs THEN [wsize EXCEPT ![r] = size] ELSE wsize
            /\ config' = on_write_config(restored, pci_conf'[r], r, 0, 4)
      /\ mbuf' = pci_conf'[r] /\ hbar' = [hbar EXCEPT ![r] = size]
      /\ probing' = r + 1 /\ up' = up /\ bar_size' = bar_size
  BY DEF ProbeRegion
<1> HIDE DEF r, asked, restored, size
<1>5. pci_conf' \in [ConfigRegs -> Values] /\ wsize' \in [BarRegs -> Values]
  BY <1>0, <1>3, <1>4, OnesValue DEF TypeOK
<1>6. pci_conf'[r] \in Values
  BY <1>0, <1>5
<1>7. config' \in [ConfigRegs -> Values]
  BY <1>0, <1>2, <1>4, <1>6, OnWriteAll
<1>8. hbar' \in [ConfigRegs -> Values] /\ probing' \in 0..(NBars + 1)
  BY <1>0, <1>3, <1>4, BaseAssumption DEF TypeOK, ConfigRegs
<1> QED
  BY <1>4, <1>5, <1>6, <1>7, <1>8 DEF TypeOK

LEMMA GuestTypes ==
  ASSUME TypeOK, GuestWrite
  PROVE  TypeOK'
<1> PICK r \in ConfigRegs, n \in Widths, d \in Data :
         \E b \in 0..(4 - n) : d < Weight(n) /\ pciefw_write_config(r, b, n, d)
  BY DEF GuestWrite
<1> PICK b \in 0..(4 - n) : pciefw_write_config(r, b, n, d)
  OBVIOUS
<1>1. n \in {1, 2, 4} /\ d \in Values
  BY WidthsAssumption
<1>2. mbuf' \in Values
  <2>1. 0 \in 0..(4 - n)
    BY <1>1
  <2>2. mbuf' = mbuf \/ mbuf' = Put(mbuf, 0, n, d)
    BY DEF pciefw_write_config, Received
  <2>3. Put(mbuf, 0, n, d) \in Values
    BY <1>1, <2>1, PutType DEF TypeOK
  <2> QED
    BY <2>2, <2>3 DEF TypeOK
<1>3. config' \in [ConfigRegs -> Values]
  <2>1. config' = config \/ config' = on_write_config(config, mbuf', r, b, n)
    BY DEF pciefw_write_config
  <2>2. config \in [ConfigRegs -> Values]
    BY DEF TypeOK
  <2>3. on_write_config(config, mbuf', r, b, n) \in [ConfigRegs -> Values]
    BY <1>1, <1>2, <2>2, OnWriteType, Zenon
  <2> QED
    BY <2>1, <2>2, <2>3, Zenon
<1>4. pci_conf' \in [ConfigRegs -> Values]
  <2> DEFINE p == Put(pci_conf[r], b, n, d)
  <2>1. p \in Values
    BY <1>1, PutType DEF TypeOK
  <2>2. \/ pci_conf' = pci_conf
        \/ /\ r \in BarRegs /\ wsize[r] # 0
           /\ pci_conf' = [pci_conf EXCEPT ![r] = ClearLow(p, wsize[r])]
    BY DEF pciefw_write_config, pci_default_write_config
  <2> HIDE DEF p
  <2>3. ASSUME r \in BarRegs, wsize[r] # 0 PROVE ClearLow(p, wsize[r]) \in Values
    <3>1. wsize[r] \in Nat /\ wsize[r] > 0 /\ p \in Nat /\ p < Modulus
      BY <2>1, <2>3, Weights DEF TypeOK, Values
    <3>2. ClearLow(p, wsize[r]) \in Nat /\ ClearLow(p, wsize[r]) <= p
      BY <3>1, Cleared
    <3> QED
      BY <3>1, <3>2, Weights DEF Values
  <2> QED
    BY <2>2, <2>3 DEF TypeOK
<1> QED
  BY <1>2, <1>3, <1>4 DEF TypeOK, pciefw_write_config

LEMMA StepTypes == TypeOK /\ [Next]_vars => TypeOK'
<1> SUFFICES ASSUME TypeOK, [Next]_vars PROVE TypeOK'
  OBVIOUS
<1>1. CASE ProbeRegionFails
  BY <1>1, OnesValue, BaseAssumption DEF TypeOK, ProbeRegionFails, ConfigRegs
<1>2. CASE DeviceDies
  BY <1>2 DEF TypeOK, DeviceDies
<1>3. CASE Reconnect
  BY <1>3, OnesValue, BaseAssumption DEF TypeOK, Reconnect
<1>4. CASE UNCHANGED vars
  BY <1>4 DEF TypeOK, vars
<1> QED
  BY <1>1, <1>2, <1>3, <1>4, ProbeTypes, GuestTypes DEF Next

\* The registers of both sides and the size QEMU computes keep their 32 bits,
\* through partial writes and wrapping arithmetic.
THEOREM ConfigTyping == Spec => []TypeOK
BY InitTypes, StepTypes, PTL DEF Spec

----------------------------------------------------------------------------
(* The probe *)

\* One turn of the loop, for a BAR whose register is as pcie_init_net left it
LEMMA ProbeBar ==
  ASSUME TypeOK, ProbeRegion, probing \in BarRegs, config[probing] = 0
  PROVE  /\ hbar' = [hbar EXCEPT ![probing] = bar_size[probing]]
         /\ IF bar_size[probing] = 0
            THEN wsize' = wsize /\ pci_conf' = pci_conf
            ELSE /\ wsize' = [wsize EXCEPT ![probing] = bar_size[probing]]
                 /\ pci_conf' = [pci_conf EXCEPT ![probing] = 0] /\ config'[probing] = 0
<1> DEFINE r == probing
           asked == on_write_config(config, Ones, r, 0, 4)
           restored == on_write_config(asked, pci_conf[r], r, 0, 4)
           size == ProbedSize(asked[r])
<1>0. /\ r \in BarRegs /\ r \in ConfigRegs /\ pci_conf[r] \in Values /\ config[r] = 0
      /\ bar_size[r] \in Sizes
  BY DEF ProbeRegion, TypeOK
<1>1. asked \in [ConfigRegs -> Values]
  BY <1>0, OnesValue, OnWriteAll DEF TypeOK
<1>2. restored \in [ConfigRegs -> Values]
  BY <1>0, <1>1, OnWriteAll
<1>3. asked[r] = IF bar_size[r] = 0 THEN 0 ELSE DecodedMask(bar_size[r])
  BY <1>0, OnesValue, OnWriteBar DEF TypeOK
<1>4. size = bar_size[r]
  BY <1>0, <1>3, ProbedZero, ProbeComputes
<1>5. /\ \/ size = 0 /\ pci_conf' = pci_conf /\ wsize' = wsize
         \/ /\ size # 0
            /\ pci_conf' = [pci_conf EXCEPT ![r] = 0]
            /\ wsize' = [wsize EXCEPT ![r] = size]
            /\ config' = on_write_config(restored, pci_conf'[r], r, 0, 4)
      /\ hbar' = [hbar EXCEPT ![r] = size]
  BY <1>0 DEF ProbeRegion
<1> HIDE DEF r, asked, restored, size
<1>6. ASSUME size # 0 PROVE config'[r] = 0
  <2>1. pci_conf'[r] = 0 /\ config' = on_write_config(restored, 0, r, 0, 4)
    BY <1>0, <1>5, <1>6 DEF TypeOK
  <2> QED
    BY <1>0, <1>2, <2>1, OnesValue, OnWriteBar
<1> QED
  BY <1>4, <1>5, <1>6 DEF r

LEMMA ProbeKeeps ==
  ASSUME TypeOK, ProbeRegion
  PROVE  \A s \in ConfigRegs \ {probing} : /\ config'[s] = config[s] /\ hbar'[s] = hbar[s]
                                           /\ pci_conf'[s] = pci_conf[s]
                                           /\ s \in BarRegs => wsize'[s] = wsize[s]
<1> DEFINE r == probing
           asked == on_write_config(config, Ones, r, 0, 4)
           restored == on_write_config(asked, pci_conf[r], r, 0, 4)
           size == ProbedSize(asked[r])
<1>0. r \in ConfigRegs /\ pci_conf[r] \in Values
  BY DEF ProbeRegion, TypeOK
<1>1. /\ asked \in [ConfigRegs -> Values] /\ \A s \in ConfigRegs \ {r} : asked[s] = config[s]
  BY <1>0, OnesValue, OnWriteAll DEF TypeOK
<1>2. /\ restored \in [ConfigRegs -> Values] /\ \A s \in ConfigRegs \ {r} : restored[s] = asked[s]
  BY <1>0, <1>1, OnWriteAll
<1>3. /\ \/ config' = restored /\ pci_conf' = pci_conf /\ wsize' = wsize
         \/ /\ pci_conf' = IF r \in BarRegs THEN [pci_conf EXCEPT ![r] = 0] ELSE pci_conf
            /\ wsize' = IF r \in BarRegs THEN [wsize EXCEPT ![r] = size] ELSE wsize
            /\ config' = on_write_config(restored, pci_conf'[r], r, 0, 4)
      /\ hbar' = [hbar EXCEPT ![r] = size]
  BY DEF ProbeRegion
<1>4. pci_conf'[r] \in Values
  BY <1>0, ProbeTypes DEF TypeOK
<1> HIDE DEF r, asked, restored, size
<1>5. \A s \in ConfigRegs \ {r} : config'[s] = restored[s]
  BY <1>0, <1>2, <1>3, <1>4, OnWriteAll
<1>6. \A s \in ConfigRegs \ {r} : hbar'[s] = hbar[s] /\ pci_conf'[s] = pci_conf[s]
  BY <1>3 DEF TypeOK
<1>7. \A s \in BarRegs \ {r} : wsize'[s] = wsize[s]
  BY <1>3 DEF TypeOK
<1> QED
  BY <1>1, <1>2, <1>5, <1>6, <1>7 DEF r

LEMMA BarIsConfig == BarRegs \subseteq ConfigRegs /\ \A r \in BarRegs : r < NBars + 1 /\ r \in Nat
BY BaseAssumption DEF BarRegs, ConfigRegs

LEMMA InitProbe == Init => ProbeInv /\ AddrInv
BY BarIsConfig DEF Init, ProbeInv, AddrInv

LEMMA StepProbe ==
  ASSUME TypeOK, ProbeInv, [Next]_vars
  PROVE  ProbeInv'
<1>0. probing \in Nat
  BY BaseAssumption DEF TypeOK
<1>1. CASE ProbeRegion
  <2> SUFFICES ASSUME NEW s \in BarRegs
               PROVE  /\ wsize'[s] \in {0, bar_size'[s]}
                      /\ up' /\ s < probing' => hbar'[s] = bar_size'[s] /\ wsize'[s] = bar_size'[s]
                      /\ up' /\ s >= probing' => config'[s] = 0
    BY DEF ProbeInv
  <2>1. up /\ up' = up /\ probing' = probing + 1 /\ bar_size' = bar_size
    BY <1>1 DEF ProbeRegion
  <2>2. CASE s = probing
    <3>1. config[s] = 0
      BY <1>0, <2>1, <2>2, BarIsConfig DEF ProbeInv
    <3>2. /\ hbar' = [hbar EXCEPT ![s] = bar_size[s]]
          /\ IF bar_size[s] = 0
             THEN wsize' = wsize ELSE wsize' = [wsize EXCEPT ![s] = bar_size[s]]
      BY <1>1, <2>2, <3>1, ProbeBar
    <3>3. hbar'[s] = bar_size[s] /\ wsize'[s] = bar_size[s]
      BY <3>2, BarIsConfig DEF ProbeInv, TypeOK
    <3> QED
      BY <1>0, <2>1, <2>2, <3>3
  <2>3. CASE s # probing
    <3>1. config'[s] = config[s] /\ hbar'[s] = hbar[s] /\ wsize'[s] = wsize[s]
      BY <1>1, <2>3, ProbeKeeps, BarIsConfig
    <3>2. (s < probing + 1 => s < probing) /\ (s >= probing + 1 => s >= probing)
      BY <1>0, <2>3, BarIsConfig
    <3> QED
      BY <2>1, <3>1, <3>2 DEF ProbeInv
  <2> QED
    BY <2>2, <2>3
<1>2. CASE ProbeRegionFails
  BY <1>2 DEF ProbeRegionFails, ProbeInv
<1>3. CASE GuestWrite
  <2>1. /\ probing = NBars + 1
        /\ UNCHANGED <<up, bar_size, wsize, hbar, probing>>
    BY <1>3 DEF GuestWrite, pciefw_write_config
  <2>2. \A s \in BarRegs : ~(s >= probing)
    BY <2>1, BarIsConfig, BaseAssumption
  <2> QED
    BY <2>1, <2>2 DEF ProbeInv
<1>4. CASE DeviceDies
  BY <1>4 DEF DeviceDies, ProbeInv
<1>5. CASE Reconnect
  <2>1. \A s \in BarRegs : ~(s < 0) /\ s \in ConfigRegs
    BY BarIsConfig
  <2> QED
    BY <1>5, <2>1 DEF Reconnect, ProbeInv
<1>6. CASE UNCHANGED vars
  BY <1>6 DEF vars, ProbeInv
<1> QED
  BY <1>1, <1>2, <1>3, <1>4, <1>5, <1>6 DEF Next

\* The inductive invariant of the probe: the regions pciefw_probe_device has
\* passed have their size on both sides, those it has not are clear.
THEOREM ProbeSafety == Spec => [](TypeOK /\ ProbeInv)
<1>1. Init => TypeOK /\ ProbeInv
  BY InitTypes, InitProbe
<1>2. TypeOK /\ ProbeInv /\ [Next]_vars => (TypeOK /\ ProbeInv)'
  BY StepTypes, StepProbe
<1> QED
  BY <1>1, <1>2, PTL DEF Spec

\* pciefw_probe_device computes the size that pcie_set_bar was given, for every
\* BAR, whatever the guest wrote before and however often the device restarts.
THEOREM ProbeIsExact == Spec => []ProbeExact
<1>1. TypeOK /\ ProbeInv => ProbeExact
  BY BarIsConfig DEF ProbeInv, ProbeExact, Probed
<1> QED
  BY <1>1, ProbeSafety, PTL

----------------------------------------------------------------------------
(* The two copies of an address *)

LEMMA GuestAddr ==
  ASSUME TypeOK, ProbeInv, AddrInv, GuestWrite, Widths \subseteq {4}, NEW s \in BarRegs,
         up, bar_size[s] # 0
  PROVE  ClearLow(config'[s], bar_size[s]) = pci_conf'[s]
<1> PICK r \in ConfigRegs, n \in Widths, d \in Data :
         \E b \in 0..(4 - n) : d < Weight(n) /\ pciefw_write_config(r, b, n, d)
  BY DEF GuestWrite
<1> PICK b \in 0..(4 - n) : pciefw_write_config(r, b, n, d)
  OBVIOUS
<1>1. n = 4 /\ b = 0 /\ d \in Values
  BY WidthsAssumption
<1>2. /\ probing = NBars + 1 /\ mbuf' = Put(mbuf, 0, 4, d)
      /\ config' = on_write_config(config, mbuf', r, 0, 4)
      /\ pci_conf' = pci_default_write_config(pci_conf, r, 0, 4, d)
  BY <1>1 DEF pciefw_write_config, Received
<1>3. mbuf' = d
  BY <1>1, <1>2, PutAll DEF TypeOK
<1>4. wsize[s] = bar_size[s] /\ ClearLow(config[s], bar_size[s]) = pci_conf[s] /\ s \in ConfigRegs
  BY <1>2, BarIsConfig DEF ProbeInv, AddrInv
<1>5. CASE s # r
  <2>1. config'[s] = config[s]
    <3>1. config \in [ConfigRegs -> Values] /\ s \in ConfigRegs \ {r}
      BY <1>4, <1>5 DEF TypeOK
    <3>2. on_write_config(config, d, r, 0, 4)[s] = config[s]
      BY <1>1, <3>1, OnWriteAll
    <3> QED
      BY <1>2, <1>3, <3>2, Zenon
  <2>2. pci_conf'[s] = pci_conf[s]
    BY <1>2, <1>4, <1>5 DEF pci_default_write_config, TypeOK
  <2> QED
    BY <1>4, <2>1, <2>2
<1>6. CASE s = r
  <2>1. Put(pci_conf[s], 0, 4, d) = d
    BY <1>1, <1>4, PutAll DEF TypeOK
  <2>2. pci_conf'[s] = ClearLow(d, bar_size[s])
    BY <1>2, <1>4, <1>6, <2>1 DEF pci_default_write_config, TypeOK
  <2>3. CASE d = Ones
    <3>1. config'[s] = DecodedMask(bar_size[s])
      BY <1>1, <1>2, <1>3, <1>6, <2>3, OnWriteBar DEF TypeOK
    <3>2. ClearLow(DecodedMask(bar_size[s]), bar_size[s]) = DecodedMask(bar_size[s])
      BY MaskValue DEF TypeOK
    <3> QED
      BY <2>2, <2>3, <3>1, <3>2 DEF DecodedMask
  <2>4. CASE d # Ones
    <3>1. config'[s] = d
      BY <1>1, <1>2, <1>3, <1>6, <2>4, OnWriteBar DEF TypeOK
    <3> QED
      BY <2>2, <3>1
  <2> QED
    BY <2>3, <2>4
<1> QED
  BY <1>5, <1>6

LEMMA StepAddr ==
  ASSUME TypeOK, ProbeInv, AddrInv, [Next]_vars, Widths \subseteq {4}
  PROVE  AddrInv'
<1>0. probing \in Nat
  BY BaseAssumption DEF TypeOK
<1>1. CASE ProbeRegion
  <2> SUFFICES ASSUME NEW s \in BarRegs, s < probing', bar_size'[s] # 0
               PROVE  ClearLow(config'[s], bar_size'[s]) = pci_conf'[s]
    BY DEF AddrInv
  <2>1. up /\ probing' = probing + 1 /\ bar_size' = bar_size
    BY <1>1 DEF ProbeRegion
  <2>2. CASE s = probing
    <3>1. config[s] = 0
      BY <1>0, <2>1, <2>2, BarIsConfig DEF ProbeInv
    <3>2. config'[s] = 0 /\ pci_conf' = [pci_conf EXCEPT ![s] = 0]
      BY <1>1, <2>1, <2>2, <3>1, ProbeBar
    <3>3. pci_conf'[s] = 0
      BY <3>2, BarIsConfig DEF TypeOK
    <3>4. bar_size[s] \in Nat /\ bar_size[s] > 0
      BY <2>1, MaskIs DEF TypeOK
    <3>5. ClearLow(0, bar_size[s]) = 0
      BY <3>4, Cleared
    <3> QED
      BY <2>1, <3>2, <3>3, <3>5
  <2>3. CASE s # probing
    <3>1. config'[s] = config[s] /\ pci_conf'[s] = pci_conf[s]
      BY <1>1, <2>3, ProbeKeeps, BarIsConfig
    <3>2. s < probing
      BY <1>0, <2>1, <2>3, BarIsConfig
    <3> QED
      BY <2>1, <3>1, <3>2 DEF AddrInv
  <2> QED
    BY <2>2, <2>3
<1>2. CASE GuestWrite
  <2>1. UNCHANGED <<up, bar_size>>
    BY <1>2 DEF GuestWrite, pciefw_write_config
  <2> QED
    BY <1>2, <2>1, GuestAddr DEF AddrInv
<1>3. CASE ProbeRegionFails \/ DeviceDies
  BY <1>3 DEF ProbeRegionFails, DeviceDies, AddrInv
<1>4. CASE Reconnect
  <2>1. \A s \in BarRegs : ~(s < 0)
    BY BarIsConfig
  <2> QED
    BY <1>4, <2>1 DEF Reconnect, AddrInv
<1>5. CASE UNCHANGED vars
  BY <1>5 DEF vars, AddrInv
<1> QED
  BY <1>1, <1>2, <1>3, <1>4, <1>5 DEF Next

\* A BAR decodes the same address in the device and in QEMU whenever the probe
\* is over, for guests that write their BARs as 32 bits: on_write_config takes
\* four bytes of its buffer for any write, so a narrower one may be taken for a
\* probe.
THEOREM AddressesAgree ==
  ASSUME Widths \subseteq {4}
  PROVE  Spec => []AddrAgree
<1>1. Init => TypeOK /\ ProbeInv /\ AddrInv
  BY InitTypes, InitProbe
<1>2. TypeOK /\ ProbeInv /\ AddrInv /\ [Next]_vars => (TypeOK /\ ProbeInv /\ AddrInv)'
  BY StepTypes, StepProbe, StepAddr
<1>3. TypeOK /\ ProbeInv /\ AddrInv => AddrAgree
  BY BarIsConfig DEF AddrInv, AddrAgree, Probed
<1> QED
  BY <1>1, <1>2, <1>3, PTL DEF Spec
=============================================================================
