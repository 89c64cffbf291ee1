---------------------------- MODULE DecoderProofs ----------------------------
(* What comes back from a bench: the captures, and the decoders of the lines  *)
(* that were captured.  For any number of samples, bits, characters and       *)
(* transactions, what they report is what was on the line.                    *)
EXTENDS UartDecode, I2cDecode, SpiDecode, CaptureStream,
        FiniteSetTheorems, SequenceTheorems, WellFoundedInduction, TLAPS

-----------------------------------------------------------------------------
(* Of naturals, blocks of a sequence, and joins: what the proofs below rest on. *)

(* Every set of naturals that is not empty has a least element. *)
LEMMA LeastOf ==
    ASSUME NEW S, S \subseteq Nat, S # {}
    PROVE  \E m \in S : \A k \in S : m <= k
<1> DEFINE R == OpToRel(<, Nat)
<1>1. IsWellFoundedOn(R, Nat)
  BY NatLessThanWellFounded
<1>2. PICK m \in S : \A k \in S : <<k, m>> \notin R
  BY <1>1, WFMin
<1>3. \A k \in S : ~(k < m)
  BY <1>2 DEF OpToRel
<1> QED BY <1>3

(* Induction over the naturals: a set that has 0 and the next of each it has is *)
(* all of them.                                                                 *)
LEMMA NatInd ==
    ASSUME NEW S, 0 \in S, \A n \in Nat : n \in S => n + 1 \in S
    PROVE  \A n \in Nat : n \in S
<1> DEFINE Left == {n \in Nat : n \notin S}
<1> SUFFICES ASSUME Left # {} PROVE FALSE
  OBVIOUS
<1>1. PICK m \in Left : \A k \in Left : m <= k
  <2> HIDE DEF Left
  <2>1. Left \subseteq Nat
    BY DEF Left
  <2> QED BY <2>1, LeastOf
<1>2. m # 0
  OBVIOUS
<1>3. m - 1 \in Nat /\ m - 1 \notin Left
  BY <1>1, <1>2
<1>4. m - 1 \in S
  BY <1>3
<1> QED BY <1>3, <1>4, <1>1

(* The quotient and the remainder of a number, and of a number put together     *)
(* from them.                                                                   *)
LEMMA DivisionOf ==
    ASSUME NEW w \in Nat \ {0}
    PROVE  /\ \A n \in Nat : n = w * (n \div w) + (n % w) /\ n % w \in 0 .. w - 1 /\ n \div w \in Nat
           /\ \A k \in Nat, r \in 0 .. w - 1 : (w * k + r) \div w = k /\ (w * k + r) % w = r
<1>1. ASSUME NEW n \in Nat PROVE n = w * (n \div w) + (n % w) /\ n % w \in 0 .. w - 1 /\ n \div w \in Nat
  BY SMT
<1>2. ASSUME NEW k \in Nat, NEW r \in 0 .. w - 1 PROVE (w * k + r) \div w = k /\ (w * k + r) % w = r
  BY SMT
<1> QED BY <1>1, <1>2, Zenon

(* The multiples of w are at least w apart. *)
LEMMA TimesGrows ==
    ASSUME NEW w \in Nat \ {0}, NEW i \in Nat, NEW k \in Nat, i < k
    PROVE  i * w \in Nat /\ k * w \in Nat /\ i * w + w <= k * w
<1>1. i * w \in Nat /\ k * w \in Nat
  BY SMT
<1>2. (k - (i + 1)) \in Nat /\ (k - (i + 1)) * w = k * w - (i * w + w)
  BY SMT
<1>3. (k - (i + 1)) * w \in Nat
  BY <1>2, SMT
<1> QED BY <1>1, <1>2, <1>3

(* What is appended to a sequence that is given by its elements. *)
LEMMA AppendToMap ==
    ASSUME NEW k \in Nat, NEW f, NEW y, f = [m \in 1 .. k |-> f[m]]
    PROVE  Append(f, y) = [m \in 1 .. k + 1 |-> IF m = k + 1 THEN y ELSE f[m]]
<1>1. f \in Seq({f[m] : m \in 1 .. k}) /\ Len(f) = k
  OBVIOUS
<1> QED BY <1>1

(* A count of bits, as blocks of w and what is over, when one more comes in. *)
LEMMA Blocks ==
    ASSUME NEW w \in Nat \ {0}, NEW n \in Nat
    PROVE  /\ n \div w \in Nat /\ n % w \in 0 .. w - 1
           /\ (n \div w) * w \in Nat /\ (n \div w) * w + (n % w) = n
           /\ n % w = w - 1 => (n + 1) \div w = n \div w + 1 /\ (n + 1) % w = 0
           /\ n % w < w - 1 => (n + 1) \div w = n \div w /\ (n + 1) % w = (n % w) + 1
           /\ \A i \in 1 .. n \div w : (i - 1) * w \in Nat /\ (i - 1) * w + w <= n
           /\ n < w => n \div w = 0
<1> DEFINE q == n \div w
           r == n % w
<1>1. q \in Nat /\ r \in 0 .. w - 1 /\ n = w * q + r
  BY DivisionOf, Zenon
<1>2. w * q = q * w /\ q * w \in Nat
  BY <1>1, SMT
<1>3. ASSUME r = w - 1 PROVE (n + 1) \div w = q + 1 /\ (n + 1) % w = 0
  <2>1. n + 1 = w * (q + 1) + 0
    <3>1. w * (q + 1) = w * q + w
      BY <1>1, SMT
    <3> HIDE DEF q, r
    <3> QED BY <1>1, <1>2, <1>3, <3>1
  <2>2. q + 1 \in Nat /\ 0 \in 0 .. w - 1
    BY <1>1
  <2> HIDE DEF q, r
  <2>3. (w * (q + 1) + 0) \div w = q + 1 /\ (w * (q + 1) + 0) % w = 0
    BY <2>2, DivisionOf, Zenon
  <2> QED BY <2>1, <2>3, Zenon
<1>4. ASSUME r < w - 1 PROVE (n + 1) \div w = q /\ (n + 1) % w = r + 1
  <2> HIDE DEF q, r
  <2>1. n + 1 = w * q + (r + 1) /\ r + 1 \in 0 .. w - 1
    BY <1>1, <1>2, <1>4
  <2>2. (w * q + (r + 1)) \div w = q /\ (w * q + (r + 1)) % w = r + 1
    BY <1>1, <2>1, DivisionOf, Zenon
  <2> QED BY <2>1, <2>2, Zenon
<1>5. ASSUME NEW i \in 1 .. q PROVE (i - 1) * w \in Nat /\ (i - 1) * w + w <= n
  <2> HIDE DEF q, r
  <2>1. (i - 1) * w \in Nat /\ (i - 1) * w + w <= q * w
    <3>1. i - 1 \in Nat /\ i - 1 < q
      BY <1>1
    <3> QED BY <1>1, <3>1, TimesGrows
  <2> QED BY <1>1, <1>2, <2>1
<1>6. n < w => q = 0
  <2> SUFFICES ASSUME n < w, q # 0 PROVE FALSE
    OBVIOUS
  <2> HIDE DEF q, r
  <2>1. 0 * w + w <= q * w
    BY <1>1, TimesGrows
  <2> QED BY <1>1, <1>2, <2>1
<1> HIDE DEF q, r
<1>7. q * w \in Nat /\ q * w + r = n
  BY <1>1, <1>2
<1>8. /\ q \in Nat /\ r \in 0 .. w - 1
      /\ q * w \in Nat /\ q * w + r = n
      /\ r = w - 1 => (n + 1) \div w = q + 1 /\ (n + 1) % w = 0
      /\ r < w - 1 => (n + 1) \div w = q /\ (n + 1) % w = r + 1
      /\ \A i \in 1 .. q : (i - 1) * w \in Nat /\ (i - 1) * w + w <= n
      /\ n < w => q = 0
  BY <1>1, <1>3, <1>4, <1>5, <1>6, <1>7, Zenon
<1> USE DEF q, r
<1> QED BY <1>8, Zenon

(* The join of a sequence of sequences is the last of its partial joins. *)
IsJoin(f, ss) == f = [i \in 1 .. Len(ss) |-> IF i = 1 THEN ss[i] ELSE f[i - 1] \o ss[i]]
Joins(f, ss, T) == f \in [1 .. Len(ss) -> Seq(T)] /\ IsJoin(f, ss)

(* The partial joins of a sequence of sequences exist. *)
LEMMA JoinsFound ==
    ASSUME NEW T, NEW ss \in Seq(Seq(T))
    PROVE  \E f : Joins(f, ss, T)
<1> DEFINE Up(n) == \E f \in [1 .. n -> Seq(T)] : \A i \in 1 .. n : f[i] = IF i = 1 THEN ss[i] ELSE f[i - 1] \o ss[i]
           S == {n \in Nat : n <= Len(ss) => Up(n)}
<1>1. 0 \in S
  <2>1. Up(0)
    <3>1. [i \in 1 .. 0 |-> <<>>] \in [1 .. 0 -> Seq(T)]
      OBVIOUS
    <3>2. \A i \in 1 .. 0 : FALSE
      OBVIOUS
    <3> QED BY <3>1, <3>2
  <2> QED BY <2>1
<1>2. ASSUME NEW n \in Nat, n \in S PROVE n + 1 \in S
  <2> SUFFICES n + 1 <= Len(ss) => Up(n + 1)
    <3> HIDE DEF Up
    <3> QED OBVIOUS
  <2> HAVE n + 1 <= Len(ss)
  <2>1. n <= Len(ss) /\ n + 1 \in 1 .. Len(ss)
    OBVIOUS
  <2>2. PICK f \in [1 .. n -> Seq(T)] : \A i \in 1 .. n : f[i] = IF i = 1 THEN ss[i] ELSE f[i - 1] \o ss[i]
    BY <1>2, <2>1
  <2> DEFINE x == IF n = 0 THEN ss[1] ELSE f[n] \o ss[n + 1]
             g == [i \in 1 .. n + 1 |-> IF i = n + 1 THEN x ELSE f[i]]
  <2>3. x \in Seq(T)
    <3>1. ss[n + 1] \in Seq(T)
      BY <2>1
    <3>2. n # 0 => f[n] \in Seq(T)
      BY <2>2
    <3>3. n # 0 => f[n] \o ss[n + 1] \in Seq(T)
      BY <3>1, <3>2
    <3> QED BY <3>1, <3>3
  <2> HIDE DEF x
  <2>4. g \in [1 .. n + 1 -> Seq(T)]
    BY <2>3, <2>2
  <2>5. ASSUME NEW i \in 1 .. n + 1 PROVE g[i] = IF i = 1 THEN ss[i] ELSE g[i - 1] \o ss[i]
    <3>1. CASE i = n + 1
      <4>1. i # 1 => g[i - 1] = f[n]
        BY <3>1
      <4>2. g[i] = x
        BY <3>1
      <4> HIDE DEF g
      <4> QED BY <3>1, <4>1, <4>2 DEF x
    <3>2. CASE i # n + 1
      <4>1. i \in 1 .. n /\ (i # 1 => i - 1 \in 1 .. n)
        BY <3>2
      <4>2. g[i] = f[i] /\ (i # 1 => g[i - 1] = f[i - 1])
        BY <4>1
      <4> HIDE DEF g
      <4> QED BY <4>1, <4>2, <2>2
    <3> QED BY <3>1, <3>2
  <2> HIDE DEF g
  <2> QED BY <2>4, <2>5
<1>3. \A n \in Nat : n \in S
  <2> HIDE DEF S
  <2> QED BY <1>1, <1>2, NatInd
<1>4. Len(ss) \in Nat
  OBVIOUS
<1>5. Up(Len(ss))
  <2>1. Len(ss) \in S
    <3> HIDE DEF S
    <3> QED BY <1>3, <1>4
  <2> HIDE DEF Up
  <2> QED BY <2>1
<1>6. PICK f \in [1 .. Len(ss) -> Seq(T)] :
         \A i \in 1 .. Len(ss) : f[i] = IF i = 1 THEN ss[i] ELSE f[i - 1] \o ss[i]
  BY <1>5
<1>7. f = [i \in 1 .. Len(ss) |-> IF i = 1 THEN ss[i] ELSE f[i - 1] \o ss[i]]
  BY <1>6
<1> QED BY <1>6, <1>7 DEF Joins, IsJoin

Begins(ss, s) == Len(ss) <= Len(s) /\ \A i \in 1 .. Len(ss) : ss[i] = s[i]

(* They depend only on the sequences that are joined so far. *)
LEMMA JoinsOnce ==
    ASSUME NEW T, NEW ss \in Seq(Seq(T)), NEW s \in Seq(Seq(T)), Begins(ss, s),
           NEW f, Joins(f, s, T), NEW g, IsJoin(g, ss), NEW n \in 1 .. Len(ss)
    PROVE  f[n] = g[n]
<1> DEFINE S == {m \in Nat : m \in 1 .. Len(ss) => f[m] = g[m]}
<1>1. 0 \in S
  OBVIOUS
<1>2. ASSUME NEW m \in Nat, m \in S PROVE m + 1 \in S
  <2> SUFFICES ASSUME m + 1 \in 1 .. Len(ss) PROVE f[m + 1] = g[m + 1]
    OBVIOUS
  <2>1. m + 1 \in 1 .. Len(s) /\ ss[m + 1] = s[m + 1]
    <3>1. Len(ss) \in Nat /\ Len(s) \in Nat /\ Len(ss) <= Len(s)
      BY DEF Begins
    <3>2. ss[m + 1] = s[m + 1]
      BY Zenon DEF Begins
    <3> QED BY <3>1, <3>2
  <2>2. f[m + 1] = IF m + 1 = 1 THEN s[m + 1] ELSE f[(m + 1) - 1] \o s[m + 1]
    BY <2>1 DEF Joins, IsJoin
  <2>3. g[m + 1] = IF m + 1 = 1 THEN ss[m + 1] ELSE g[(m + 1) - 1] \o ss[m + 1]
    BY DEF IsJoin
  <2>4. m # 0 => f[m] = g[m]
    BY <1>2
  <2>5. (m + 1) - 1 = m /\ (m + 1 = 1 <=> m = 0)
    OBVIOUS
  <2> QED BY <2>1, <2>2, <2>3, <2>4, <2>5
<1>3. \A m \in Nat : m \in S
  <2> HIDE DEF S
  <2> QED BY <1>1, <1>2, NatInd
<1>4. n \in Nat
  OBVIOUS
<1> QED BY <1>3, <1>4

(* FlattenSeq is the last of the partial joins. *)
LEMMA FlatIsJoin ==
    ASSUME NEW T, NEW ss \in Seq(Seq(T)), ss # <<>>, NEW f, Joins(f, ss, T)
    PROVE  FlattenSeq(ss) = f[Len(ss)]
<1> DEFINE R(g) == g = [i \in 1 .. Len(ss) |-> IF i = 1 THEN ss[i] ELSE g[i - 1] \o ss[i]]
           c == CHOOSE g : R(g)
<1>1. Len(ss) \in 1 .. Len(ss) /\ Len(ss) # 0
  OBVIOUS
<1>2. FlattenSeq(ss) = c[Len(ss)]
  BY <1>1, Zenon DEF FlattenSeq
<1>3. R(c)
  <2>1. R(f)
    BY DEF Joins, IsJoin
  <2> QED BY <2>1, Zenon
<1> HIDE DEF c
<1>4. f[Len(ss)] = c[Len(ss)]
  <2>1. IsJoin(c, ss)
    BY <1>3, Zenon DEF IsJoin
  <2>2. Begins(ss, ss)
    BY DEF Begins
  <2> HIDE DEF R
  <2> QED BY <1>1, <2>1, <2>2, JoinsOnce
<1> QED BY <1>1, <1>2, <1>4

(* A sequence more is joined at the end. *)
LEMMA FlatAppend ==
    ASSUME NEW T, NEW ss \in Seq(Seq(T)), NEW s \in Seq(T)
    PROVE  FlattenSeq(Append(ss, s)) = FlattenSeq(ss) \o s /\ FlattenSeq(ss) \in Seq(T)
<1> DEFINE more == Append(ss, s)
           n == Len(ss)
<1>1. more \in Seq(Seq(T)) /\ Len(more) = n + 1 /\ more[n + 1] = s /\ \A i \in 1 .. n : more[i] = ss[i]
  OBVIOUS
<1>2. n \in Nat /\ (n = 0 <=> ss = <<>>)
  OBVIOUS
<1>3. PICK f : Joins(f, more, T)
  BY <1>1, JoinsFound
<1>4. PICK g : Joins(g, ss, T)
  BY JoinsFound
<1> HIDE DEF more, n
<1>5. FlattenSeq(more) = f[n + 1]
  <2>1. more # <<>>
    BY <1>1, <1>2
  <2> QED BY <1>1, <1>3, <2>1, FlatIsJoin
<1>6. f[n + 1] = IF n + 1 = 1 THEN s ELSE f[(n + 1) - 1] \o s
  <2>1. n + 1 \in 1 .. n + 1
    BY <1>2
  <2> QED BY <1>1, <1>3, <2>1 DEF Joins, IsJoin
<1>7. CASE n = 0
  <2>1. FlattenSeq(ss) = <<>>
    BY <1>2, <1>7 DEF FlattenSeq, n
  <2>2. <<>> \o s = s
    OBVIOUS
  <2> QED BY <1>5, <1>6, <1>7, <2>1, <2>2 DEF more
<1>8. CASE n # 0
  <2>1. FlattenSeq(ss) = g[n]
    BY <1>2, <1>4, <1>8, FlatIsJoin DEF n
  <2>2. n \in 1 .. n
    BY <1>2, <1>8
  <2>3. f[n] = g[n]
    <3>1. IsJoin(g, ss)
      BY <1>4 DEF Joins
    <3>2. Begins(ss, more)
      BY <1>1, <1>2 DEF n, Begins
    <3>3. Len(ss) \in 1 .. Len(ss)
      BY <2>2 DEF n
    <3>4. f[Len(ss)] = g[Len(ss)]
      <4>1. more \in Seq(Seq(T)) /\ ss \in Seq(Seq(T))
        BY <1>1
      <4> QED BY <1>3, <3>1, <3>2, <3>3, <4>1, JoinsOnce
    <3> QED BY <3>4 DEF n
  <2>4. (n + 1) - 1 = n /\ n + 1 # 1
    BY <1>2, <1>8
  <2>5. g[n] \in Seq(T)
    BY <1>4, <2>2 DEF Joins, n
  <2> QED BY <1>5, <1>6, <2>1, <2>3, <2>4, <2>5 DEF more
<1> QED BY <1>7, <1>8

-----------------------------------------------------------------------------
(* The I2C decoder (i2c.py): any bytes, any number of transactions. *)

FramedBits == ByteBits + 1
RestOf(said) ==
    [i \in 1 .. Len(said) % FramedBits |-> said[(Len(said) \div FramedBits) * FramedBits + i]]

(* Where the bus is says what its lines are at, and whether a transaction is open. *)
BusIs ==
    /\ bus \in [scl : {0, 1}, sda : {0, 1}, doing : {"talk", "restart", "stopping", "rest"}, seen : BOOLEAN]
    /\ heard = [scl |-> bus.scl, sda |-> bus.sda]
    /\ bus.doing \in {"rest", "restart"} => bus.scl = 1 /\ bus.sda = 1
    /\ bus.doing = "stopping" => bus.scl = 1 /\ bus.sda = 0
    /\ spoken \in Seq(Seq(Seq({0, 1}))) /\ stops \in Nat
    /\ ~bus.seen => stops = 0
    /\ Len(spoken) = stops + (IF bus.seen /\ bus.doing # "rest" THEN 1 ELSE 0)
DecoderIs ==
    /\ newMsg \in BOOLEAN /\ awaitingAck \in BOOLEAN
    /\ byteSoFar \in Seq({0, 1}) /\ Len(byteSoFar) <= ByteBits

(* In an open transaction the decoder has what is over the whole bytes of the last *)
(* message, and takes the first of them for an address.                            *)
OpenIs ==
    bus.seen /\ bus.doing # "rest" =>
        /\ Last(spoken) # <<>>
        /\ newMsg = (Len(Said) <= ByteBits)
        /\ bus.doing = "talk" => byteSoFar = RestOf(Said) /\ awaitingAck = (Len(byteSoFar) = ByteBits)
        /\ bus.doing \in {"restart", "stopping"} => Said # <<>> /\ Len(Said) % FramedBits = 0

I2cKept == BusIs /\ DecoderIs /\ OpenIs /\ HeardAsSaid

-----------------------------------------------------------------------------
(* One more bit of a message: it goes to the byte that is not whole, or is its ack. *)
LEMMA OneMoreBit ==
    ASSUME NEW said \in Seq({0, 1}), NEW b \in {0, 1}
    PROVE  /\ Append(said, b) \in Seq({0, 1}) /\ Len(Append(said, b)) = Len(said) + 1
           /\ RestOf(said) \in Seq({0, 1}) /\ Len(RestOf(said)) \in 0 .. ByteBits
           /\ Len(RestOf(said)) = Len(said) % FramedBits /\ Len(said) >= Len(RestOf(said))
           /\ Len(RestOf(said)) < ByteBits =>
                 /\ Bytes(Append(said, b)) = Bytes(said)
                 /\ RestOf(Append(said, b)) = Append(RestOf(said), b)
                 /\ Len(said) <= ByteBits => Len(said) + 1 <= ByteBits
           /\ Len(RestOf(said)) = ByteBits =>
                 /\ Bytes(Append(said, b)) = Append(Bytes(said), [byte |-> RestOf(said), ack |-> b = 0])
                 /\ RestOf(Append(said, b)) = <<>>
                 /\ Len(said) <= ByteBits => Bytes(said) = <<>>
<1> DEFINE L == Len(said)
           q == L \div FramedBits
           r == L % FramedBits
           more == Append(said, b)
<1>1. ByteBits \in Nat \ {0, 1} /\ FramedBits \in Nat \ {0} /\ FramedBits = ByteBits + 1
  BY I2cAssumption DEF I2cAssumption, FramedBits
<1>2. L \in Nat /\ said \in [1 .. L -> {0, 1}]
  OBVIOUS
<1>3. more \in Seq({0, 1}) /\ Len(more) = L + 1 /\ more[L + 1] = b /\ \A i \in 1 .. L : more[i] = said[i]
  OBVIOUS
<1>4. /\ q \in Nat /\ r \in 0 .. ByteBits /\ q * FramedBits \in Nat /\ q * FramedBits + r = L
      /\ r = ByteBits => (L + 1) \div FramedBits = q + 1 /\ (L + 1) % FramedBits = 0
      /\ r < ByteBits => (L + 1) \div FramedBits = q /\ (L + 1) % FramedBits = r + 1
      /\ \A i \in 1 .. q : (i - 1) * FramedBits \in Nat /\ (i - 1) * FramedBits + FramedBits <= L
      /\ L < FramedBits => q = 0
  <2> HIDE DEF L
  <2>1. FramedBits - 1 = ByteBits
    BY <1>1
  <2>2. /\ q \in Nat /\ r \in 0 .. FramedBits - 1 /\ q * FramedBits \in Nat /\ q * FramedBits + r = L
        /\ r = FramedBits - 1 => (L + 1) \div FramedBits = q + 1 /\ (L + 1) % FramedBits = 0
        /\ r < FramedBits - 1 => (L + 1) \div FramedBits = q /\ (L + 1) % FramedBits = r + 1
        /\ \A i \in 1 .. q : (i - 1) * FramedBits \in Nat /\ (i - 1) * FramedBits + FramedBits <= L
        /\ L < FramedBits => q = 0
    BY <1>1, <1>2, Blocks
  <2> HIDE DEF q, r
  <2> QED BY <2>1, <2>2
<1>5. RestOf(said) = [i \in 1 .. r |-> said[q * FramedBits + i]]
  BY DEF RestOf
<1>6. RestOf(said) \in Seq({0, 1}) /\ Len(RestOf(said)) = r
  <2>1. \A i \in 1 .. r : q * FramedBits + i \in 1 .. L
    <3> HIDE DEF L, q, r
    <3> QED BY <1>2, <1>4
  <2> HIDE DEF L, q, r
  <2>2. [i \in 1 .. r |-> said[q * FramedBits + i]] \in [1 .. r -> {0, 1}]
    BY <1>2, <2>1
  <2>3. RestOf(said) \in [1 .. r -> {0, 1}]
    BY <1>5, <2>2, Zenon
  <2>4. r \in Nat
    BY <1>1, <1>4
  <2> QED BY <2>3, <2>4
<1> DEFINE Byte(s, i) == [byte |-> SubSeq(s, (i - 1) * FramedBits + 1, (i - 1) * FramedBits + ByteBits),
                          ack |-> s[(i - 1) * FramedBits + ByteBits + 1] = 0]
<1>7. \A s : Bytes(s) = [i \in 1 .. Len(s) \div FramedBits |-> Byte(s, i)]
  BY DEF Bytes, FramedBits
<1>8. ASSUME NEW i \in 1 .. q
      PROVE  Byte(more, i) = Byte(said, i)
  <2> DEFINE from == (i - 1) * FramedBits
  <2>1. from \in Nat /\ from + ByteBits + 1 <= L
    <3>1. (i - 1) * FramedBits \in Nat /\ (i - 1) * FramedBits + FramedBits <= L
      BY <1>4, <1>8
    <3> HIDE DEF L, q, r
    <3> QED BY <1>1, <1>2, <3>1
  <2> HIDE DEF from, L
  <2>2. \A j \in 1 .. ByteBits : from + j \in 1 .. L
    BY <1>1, <1>2, <2>1
  <2>3. SubSeq(more, from + 1, from + ByteBits) = [j \in 1 .. ByteBits |-> more[from + j]]
    BY <1>1, <1>2, <1>3, <2>1
  <2>4. SubSeq(said, from + 1, from + ByteBits) = [j \in 1 .. ByteBits |-> said[from + j]]
    BY <1>1, <1>2, <2>1
  <2>5. SubSeq(more, from + 1, from + ByteBits) = SubSeq(said, from + 1, from + ByteBits)
    BY <1>3, <2>2, <2>3, <2>4
  <2>6. more[from + ByteBits + 1] = said[from + ByteBits + 1]
    BY <1>1, <1>3, <2>1, <1>2
  <2> QED BY <2>5, <2>6 DEF from
<1>9. ASSUME r < ByteBits
      PROVE  /\ Bytes(more) = Bytes(said) /\ RestOf(more) = Append(RestOf(said), b)
             /\ L <= ByteBits => L + 1 <= ByteBits
  <2>1. Bytes(more) = [i \in 1 .. q |-> Byte(more, i)] /\ Bytes(said) = [i \in 1 .. q |-> Byte(said, i)]
    BY <1>3, <1>4, <1>7, <1>9
  <2>2. Bytes(more) = Bytes(said)
    <3> HIDE DEF Byte, q
    <3> QED BY <1>8, <2>1
  <2>3. RestOf(more) = [i \in 1 .. r + 1 |-> more[q * FramedBits + i]]
    BY <1>3, <1>4, <1>9 DEF RestOf
  <2>4. \A i \in 1 .. r + 1 : more[q * FramedBits + i] = IF i = r + 1 THEN b ELSE said[q * FramedBits + i]
    <3> HIDE DEF L, q, r, more
    <3> QED BY <1>2, <1>3, <1>4
  <2>5. Append(RestOf(said), b) = [i \in 1 .. r + 1 |-> IF i = r + 1 THEN b ELSE said[q * FramedBits + i]]
    <3> HIDE DEF L, q, r, more
    <3> QED BY <1>4, <1>5, <1>6
  <2>6. RestOf(more) = Append(RestOf(said), b)
    <3> HIDE DEF L, q, r, more
    <3> QED BY <2>3, <2>4, <2>5
  <2>7. L <= ByteBits => L + 1 <= ByteBits
    <3> HIDE DEF L, q, r, more
    <3> QED BY <1>1, <1>2, <1>4, <1>9
  <2> QED BY <2>2, <2>6, <2>7
<1>10. ASSUME r = ByteBits
       PROVE  /\ Bytes(more) = Append(Bytes(said), [byte |-> RestOf(said), ack |-> b = 0]) /\ RestOf(more) = <<>>
              /\ L <= ByteBits => Bytes(said) = <<>>
  <2>1. Bytes(more) = [i \in 1 .. q + 1 |-> Byte(more, i)] /\ Bytes(said) = [i \in 1 .. q |-> Byte(said, i)]
    BY <1>3, <1>4, <1>7, <1>10
  <2>2. Byte(more, q + 1) = [byte |-> RestOf(said), ack |-> b = 0]
    <3> DEFINE from == q * FramedBits
    <3>1. (q + 1) - 1 = q
      BY <1>4
    <3>2. from \in Nat /\ from + ByteBits = L
      BY <1>4, <1>10
    <3>3. SubSeq(more, from + 1, from + ByteBits) = [j \in 1 .. ByteBits |-> more[from + j]]
      <4> HIDE DEF from, L, more, r
      <4> QED BY <1>1, <1>2, <1>3, <3>2
    <3>4. \A j \in 1 .. ByteBits : from + j \in 1 .. L
      <4> HIDE DEF from, L, more, r
      <4> QED BY <1>1, <1>2, <3>2
    <3>5. SubSeq(more, from + 1, from + ByteBits) = RestOf(said)
      <4>1. RestOf(said) = [j \in 1 .. ByteBits |-> said[from + j]]
        BY <1>5, <1>10
      <4> HIDE DEF from, L, more, r
      <4> QED BY <1>3, <3>3, <3>4, <4>1
    <3>6. more[from + ByteBits + 1] = b
      BY <1>3, <3>2
    <3> HIDE DEF L, more, r, q
    <3> QED BY <3>1, <3>5, <3>6
  <2>3. \A i \in 1 .. q : Byte(more, i) = Byte(said, i)
    BY <1>8
  <2>4. Bytes(more) = Append(Bytes(said), Byte(more, q + 1))
    <3>1. q \in Nat
      BY <1>4
    <3> HIDE DEF Byte, q
    <3>2. Append([i \in 1 .. q |-> Byte(said, i)], Byte(more, q + 1))
            = [i \in 1 .. q + 1 |-> IF i = q + 1 THEN Byte(more, q + 1) ELSE Byte(said, i)]
      BY <3>1
    <3>3. \A i \in 1 .. q + 1 : Byte(more, i) = IF i = q + 1 THEN Byte(more, q + 1) ELSE Byte(said, i)
      BY <3>1, <2>3
    <3> QED BY <2>1, <3>2, <3>3
  <2>5. RestOf(more) = <<>>
    <3>1. RestOf(more) = [i \in 1 .. 0 |-> more[(Len(more) \div FramedBits) * FramedBits + i]]
      BY <1>3, <1>4, <1>10 DEF RestOf
    <3> QED BY <3>1
  <2>6. L <= ByteBits => Bytes(said) = <<>>
    <3>1. L <= ByteBits => q = 0
      BY <1>1, <1>2, <1>4
    <3> HIDE DEF q, L
    <3> QED BY <2>1, <3>1
  <2> QED BY <2>2, <2>4, <2>5, <2>6
<1>12. Len(said) >= Len(RestOf(said))
  <2> HIDE DEF L, q, r
  <2>1. L >= r
    BY <1>1, <1>2, <1>4
  <2> QED BY <1>6, <2>1 DEF L
<1>11. Len(RestOf(said)) \in 0 .. ByteBits /\ (r < ByteBits <=> Len(RestOf(said)) < ByteBits)
  BY <1>4, <1>6
<1> QED BY <1>3, <1>6, <1>9, <1>10, <1>11, <1>12

ByteOf(said, b) == [byte |-> RestOf(said), ack |-> b = 0]

(* A bit more leaves the messages of a transaction as they were, or adds a byte *)
(* to the last.                                                                 *)
LEMMA MessagesAre ==
    ASSUME NEW cur \in Seq(Seq({0, 1})), cur # <<>>, NEW b \in {0, 1},
           NEW more \in Seq(Seq({0, 1})), Len(more) = Len(cur), Last(more) = Append(Last(cur), b),
           \A m \in 1 .. Len(cur) - 1 : more[m] = cur[m]
    PROVE  /\ Len(RestOf(Last(cur))) < ByteBits => Messages(more) = Messages(cur)
           /\ Len(RestOf(Last(cur))) = ByteBits =>
                 IF Len(Last(cur)) <= ByteBits THEN Messages(more) = Append(Messages(cur), <<ByteOf(Last(cur), b)>>)
                 ELSE Messages(more) = [Messages(cur) EXCEPT ![Len(Messages(cur))] = Append(@, ByteOf(Last(cur), b))]
<1> DEFINE said == Last(cur)
           x == ByteOf(said, b)
<1> HIDE DEF said, x
<1>1. PICK n \in Nat \ {0} : Len(cur) = n /\ cur \in [1 .. n -> Seq({0, 1})] /\ said = cur[n]
  BY DEF Last, said
<1>2. said \in Seq({0, 1})
  BY <1>1
<1>3. Len(more) = n /\ more[n] = Append(said, b) /\ \A m \in 1 .. n - 1 : more[m] = cur[m]
  BY <1>1 DEF Last, said
<1>4. Last(more) = Append(said, b)
  BY DEF said
<1>5. /\ Len(Append(said, b)) = Len(said) + 1 /\ Len(said) \in Nat /\ Len(said) >= Len(RestOf(said))
      /\ Len(RestOf(said)) \in 0 .. ByteBits
      /\ Len(RestOf(said)) < ByteBits =>
            Bytes(Append(said, b)) = Bytes(said) /\ (Len(said) <= ByteBits => Len(said) + 1 <= ByteBits)
      /\ Len(RestOf(said)) = ByteBits =>
            Bytes(Append(said, b)) = Append(Bytes(said), x) /\ (Len(said) <= ByteBits => Bytes(said) = <<>>)
  <2>4. Len(said) \in Nat
    BY <1>2
  <2>5. Len(Append(said, b)) = Len(said) + 1
    BY <1>2
  <2>6. Len(RestOf(said)) \in 0 .. ByteBits /\ Len(said) >= Len(RestOf(said))
    BY <1>2, OneMoreBit
  <2>1. /\ Len(Append(said, b)) = Len(said) + 1 /\ Len(said) \in Nat /\ Len(said) >= Len(RestOf(said))
        /\ Len(RestOf(said)) \in 0 .. ByteBits
    BY <2>4, <2>5, <2>6
  <2>2. Len(RestOf(said)) < ByteBits =>
            Bytes(Append(said, b)) = Bytes(said) /\ (Len(said) <= ByteBits => Len(said) + 1 <= ByteBits)
    BY <1>2, OneMoreBit
  <2>3. Len(RestOf(said)) = ByteBits =>
            /\ Bytes(Append(said, b)) = Append(Bytes(said), [byte |-> RestOf(said), ack |-> b = 0])
            /\ Len(said) <= ByteBits => Bytes(said) = <<>>
    BY <1>2, OneMoreBit
  <2> QED BY <2>1, <2>2, <2>3 DEF ByteOf, x
<1>6. ByteBits \in Nat
  BY I2cAssumption DEF I2cAssumption
<1>7. /\ Messages(cur) = [m \in 1 .. IF Len(said) > ByteBits THEN n ELSE n - 1 |-> Bytes(cur[m])]
      /\ Messages(more) = [m \in 1 .. IF Len(said) + 1 > ByteBits THEN n ELSE n - 1 |-> Bytes(more[m])]
  BY <1>1, <1>3, <1>4, <1>5 DEF Messages, BegunTxn, said
<1>8. ASSUME Len(RestOf(said)) < ByteBits
      PROVE  Messages(more) = Messages(cur)
  <2>1. \A m \in 1 .. n : Bytes(more[m]) = Bytes(cur[m])
    <3>1. Bytes(more[n]) = Bytes(cur[n])
      BY <1>1, <1>3, <1>5, <1>8
    <3>2. \A m \in 1 .. n : m = n \/ m \in 1 .. n - 1
      BY <1>1
    <3>3. \A m \in 1 .. n - 1 : Bytes(more[m]) = Bytes(cur[m])
      BY <1>3
    <3> QED BY <3>1, <3>2, <3>3
  <2>2. Len(said) > ByteBits <=> Len(said) + 1 > ByteBits
    BY <1>5, <1>6, <1>8
  <2>3. PICK k \in {n, n - 1} :
           Messages(cur) = [m \in 1 .. k |-> Bytes(cur[m])] /\ Messages(more) = [m \in 1 .. k |-> Bytes(more[m])]
    BY <1>7, <2>2
  <2>4. \A m \in 1 .. k : Bytes(more[m]) = Bytes(cur[m])
    BY <1>1, <2>1
  <2> QED BY <2>3, <2>4
<1>9. ASSUME Len(RestOf(said)) = ByteBits
      PROVE  IF Len(said) <= ByteBits THEN Messages(more) = Append(Messages(cur), <<x>>)
             ELSE Messages(more) = [Messages(cur) EXCEPT ![Len(Messages(cur))] = Append(@, x)]
  <2>1. Bytes(more[n]) = Append(Bytes(said), x)
    BY <1>3, <1>5, <1>9
  <2>2. \A m \in 1 .. n - 1 : Bytes(more[m]) = Bytes(cur[m])
    BY <1>3
  <2>3. Messages(more) = [m \in 1 .. n |-> Bytes(more[m])]
    <3>1. Len(said) + 1 > ByteBits
      BY <1>5, <1>6, <1>9
    <3> QED BY <1>7, <3>1
  <2>4. CASE Len(said) <= ByteBits
    <3>1. Messages(cur) = [m \in 1 .. n - 1 |-> Bytes(cur[m])]
      <4>1. ~(Len(said) > ByteBits)
        BY <1>5, <1>6, <2>4
      <4> QED BY <1>7, <4>1
    <3>2. Bytes(more[n]) = <<x>>
      <4>1. Bytes(said) = <<>>
        BY <1>5, <1>9, <2>4
      <4>2. Append(<<>>, x) = <<x>>
        OBVIOUS
      <4> QED BY <2>1, <4>1, <4>2
    <3>3. Append([m \in 1 .. n - 1 |-> Bytes(cur[m])], <<x>>)
            = [m \in 1 .. n |-> IF m = n THEN <<x>> ELSE Bytes(cur[m])]
      <4>1. n - 1 \in Nat /\ (n - 1) + 1 = n
        BY <1>1
      <4> DEFINE f == [m \in 1 .. n - 1 |-> Bytes(cur[m])]
      <4>2. f = [m \in 1 .. n - 1 |-> f[m]]
        OBVIOUS
      <4>3. Append(f, <<x>>) = [m \in 1 .. n |-> IF m = n THEN <<x>> ELSE f[m]]
        <5> HIDE DEF f
        <5> QED BY <4>1, <4>2, AppendToMap
      <4>4. \A m \in 1 .. n : m # n => f[m] = Bytes(cur[m])
        BY <1>1
      <4> QED BY <4>3, <4>4
    <3>4. \A m \in 1 .. n : Bytes(more[m]) = IF m = n THEN <<x>> ELSE Bytes(cur[m])
      BY <1>1, <2>2, <3>2
    <3>5. [m \in 1 .. n |-> Bytes(more[m])] = [m \in 1 .. n |-> IF m = n THEN <<x>> ELSE Bytes(cur[m])]
      BY <3>4
    <3>6. Messages(more) = Append(Messages(cur), <<x>>)
      BY <2>3, <3>1, <3>3, <3>5, Zenon
    <3> QED BY <2>4, <3>6
  <2>5. CASE ~(Len(said) <= ByteBits)
    <3>1. Messages(cur) = [m \in 1 .. n |-> Bytes(cur[m])] /\ Len(Messages(cur)) = n
      <4>1. Len(said) > ByteBits
        BY <1>5, <1>6, <2>5
      <4> QED BY <1>1, <1>7, <4>1
    <3>2. [Messages(cur) EXCEPT ![n] = Append(@, x)]
            = [m \in 1 .. n |-> IF m = n THEN Append(Bytes(said), x) ELSE Bytes(cur[m])]
      BY <1>1, <3>1
    <3>3. \A m \in 1 .. n : Bytes(more[m]) = IF m = n THEN Append(Bytes(said), x) ELSE Bytes(cur[m])
      BY <1>1, <2>1, <2>2
    <3>4. [m \in 1 .. n |-> Bytes(more[m])]
            = [m \in 1 .. n |-> IF m = n THEN Append(Bytes(said), x) ELSE Bytes(cur[m])]
      BY <3>3
    <3>5. Messages(more) = [Messages(cur) EXCEPT ![n] = Append(@, x)]
      BY <2>3, <3>2, <3>4, Zenon
    <3> QED BY <2>5, <3>1, <3>5
  <2> QED BY <2>4, <2>5
<1> QED BY <1>8, <1>9, Zenon DEF said, x

(* A repeated START adds a message, of which nothing is said yet. *)
LEMMA NewMessage ==
    /\ << <<>> >> \in Seq(Seq({0, 1})) /\ Messages(<< <<>> >>) = <<>>
    /\ \A cur \in Seq(Seq({0, 1})) :
         cur # <<>> /\ Len(Last(cur)) > ByteBits =>
            Append(cur, <<>>) \in Seq(Seq({0, 1})) /\ Messages(Append(cur, <<>>)) = Messages(cur)
<1>1. ByteBits \in Nat
  BY I2cAssumption DEF I2cAssumption
<1>2. << <<>> >> \in Seq(Seq({0, 1}))
  OBVIOUS
<1>3. Messages(<< <<>> >>) = <<>>
  <2>1. BegunTxn(<< <<>> >>) = 0
    BY <1>1 DEF BegunTxn, Last
  <2> QED BY <2>1 DEF Messages
<1>4. ASSUME NEW cur \in Seq(Seq({0, 1})), cur # <<>>, Len(Last(cur)) > ByteBits
      PROVE  Append(cur, <<>>) \in Seq(Seq({0, 1})) /\ Messages(Append(cur, <<>>)) = Messages(cur)
  <2>1. Append(cur, <<>>) \in Seq(Seq({0, 1})) /\ Len(Append(cur, <<>>)) = Len(cur) + 1
        /\ Last(Append(cur, <<>>)) = <<>> /\ \A m \in 1 .. Len(cur) : Append(cur, <<>>)[m] = cur[m]
    BY DEF Last
  <2>2. BegunTxn(Append(cur, <<>>)) = Len(cur) /\ BegunTxn(cur) = Len(cur)
    BY <1>1, <1>4, <2>1 DEF BegunTxn
  <2> QED BY <2>1, <2>2 DEF Messages
<1> QED BY <1>2, <1>3, <1>4

-----------------------------------------------------------------------------
(* The transaction that is open, and the one the decoder has open. *)
OpenOne == spoken[stops + 1]

(* While the capture has seen the START of a transaction that has no STOP, the  *)
(* last is open.                                                                *)
LEMMA TheOpenOne ==
    ASSUME I2cKept, bus.seen, bus.doing # "rest"
    PROVE  /\ Len(spoken) = stops + 1 /\ stops \in Nat /\ Last(spoken) = OpenOne /\ OpenOne \in Seq(Seq({0, 1}))
           /\ OpenOne # <<>> /\ Said = Last(OpenOne) /\ Said \in Seq({0, 1})
           /\ openTxn = <<Messages(OpenOne)>> /\ newMsg = (Len(Said) <= ByteBits)
<1>1. Len(spoken) = stops + 1 /\ stops \in Nat /\ spoken \in Seq(Seq(Seq({0, 1})))
  BY DEF I2cKept, BusIs
<1>2. Last(spoken) = OpenOne /\ OpenOne \in Seq(Seq({0, 1}))
  BY <1>1 DEF Last, OpenOne
<1>3. OpenOne # <<>> /\ newMsg = (Len(Said) <= ByteBits)
  BY <1>2 DEF I2cKept, OpenIs
<1>4. Said = Last(OpenOne) /\ Said \in Seq({0, 1})
  BY <1>2, <1>3 DEF Said, Last
<1>5. openTxn = <<Messages(OpenOne)>>
  <2>1. openTxn = [t \in 1 .. 1 |-> Messages(spoken[stops + t])]
    BY <1>1 DEF I2cKept, HeardAsSaid
  <2>2. [t \in 1 .. 1 |-> Messages(spoken[stops + t])] = <<Messages(spoken[stops + 1])>>
    OBVIOUS
  <2> QED BY <2>1, <2>2 DEF OpenOne
<1> QED BY <1>1, <1>2, <1>3, <1>4, <1>5

(* Otherwise there is none that the decoder could add to. *)
LEMMA NoneOpen ==
    ASSUME I2cKept, ~bus.seen \/ bus.doing = "rest"
    PROVE  Len(spoken) = stops /\ stops \in Nat /\ openTxn = <<>>
<1>1. Len(spoken) = stops /\ stops \in Nat
  BY DEF I2cKept, BusIs
<1>2. openTxn = [t \in 1 .. 0 |-> Messages(spoken[stops + t])]
  BY <1>1 DEF I2cKept, HeardAsSaid
<1> QED BY <1>1, <1>2

(* What the decoder has heard is what was said when only the open one has changed. *)
LEMMA OpenOneGrows ==
    ASSUME NEW n \in Nat, NEW all \in Seq(Seq(Seq({0, 1}))), n <= Len(all), NEW old \in Seq(Seq(Seq({0, 1}))), n <= Len(old),
           \A t \in 1 .. n : all[t] = old[t]
    PROVE  [t \in 1 .. n |-> Messages(all[t])] = [t \in 1 .. n |-> Messages(old[t])]
OBVIOUS

(* Of nothing, nothing is over. *)
LEMMA NothingLeft == RestOf(<<>>) = <<>> /\ Len(RestOf(<<>>)) = 0 /\ ByteBits \in Nat \ {0, 1} /\ FramedBits = ByteBits + 1
<1>1. ByteBits \in Nat \ {0, 1} /\ FramedBits = ByteBits + 1 /\ FramedBits \in Nat \ {0}
  BY I2cAssumption DEF I2cAssumption, FramedBits
<1>2. 0 % FramedBits = 0
  <2>1. /\ 0 \div FramedBits \in Nat /\ 0 % FramedBits \in 0 .. FramedBits - 1
        /\ (0 \div FramedBits) * FramedBits \in Nat /\ (0 \div FramedBits) * FramedBits + (0 % FramedBits) = 0
    BY <1>1, Blocks
  <2> QED BY <1>1, <2>1
<1>3. RestOf(<<>>) = [i \in 1 .. 0 |-> <<>>[(Len(<<>>) \div FramedBits) * FramedBits + i]]
  BY <1>2 DEF RestOf
<1> QED BY <1>1, <1>3

(* What was said up to the ack of a byte is at least one byte, with nothing     *)
(* over.                                                                        *)
LEMMA WholeSaid ==
    ASSUME NEW said \in Seq({0, 1}), said # <<>>, Len(said) % FramedBits = 0
    PROVE  Len(said) > ByteBits /\ RestOf(said) = <<>>
<1>1. FramedBits \in Nat \ {0} /\ FramedBits = ByteBits + 1 /\ Len(said) \in Nat \ {0} /\ ByteBits \in Nat
  BY NothingLeft
<1>2. /\ Len(said) < FramedBits => Len(said) \div FramedBits = 0
      /\ (Len(said) \div FramedBits) * FramedBits + (Len(said) % FramedBits) = Len(said)
  BY <1>1, Blocks
<1>3. ~(Len(said) < FramedBits)
  <2> SUFFICES ASSUME Len(said) < FramedBits PROVE FALSE
    OBVIOUS
  <2>1. 0 * FramedBits + 0 = Len(said)
    BY <1>2
  <2> QED BY <1>1, <2>1
<1>4. RestOf(said) = <<>>
  <2>1. Len(RestOf(said)) = 0 /\ RestOf(said) \in Seq({0, 1})
    BY OneMoreBit
  <2> QED BY <2>1
<1> QED BY <1>1, <1>3, <1>4

(* At the start nothing was said and nothing heard. *)
LEMMA I2cStarts ==
    ASSUME I2cInit
    PROVE  I2cKept
<1>1. BusIs
  <2>1. /\ bus \in [scl : {0, 1}, sda : {0, 1}, doing : {"talk", "restart", "stopping", "rest"}, seen : BOOLEAN]
        /\ bus.doing \in {"rest", "restart"} => bus.scl = 1 /\ bus.sda = 1
        /\ bus.doing = "stopping" => bus.scl = 1 /\ bus.sda = 0
        /\ bus.seen = FALSE
    <3>1. CASE bus \in [scl : {0, 1}, sda : {0, 1}, doing : {"talk"}, seen : {FALSE}]
      <4>1. bus.seen \in {FALSE} /\ bus.doing = "talk" /\ bus.scl \in {0, 1} /\ bus.sda \in {0, 1}
            /\ bus = [scl |-> bus.scl, sda |-> bus.sda, doing |-> bus.doing, seen |-> bus.seen]
        BY <3>1
      <4> QED BY <4>1
    <3>2. CASE bus = [scl |-> 1, sda |-> 1, doing |-> "rest", seen |-> FALSE]
      BY <3>2
    <3>3. CASE bus = [scl |-> 1, sda |-> 1, doing |-> "restart", seen |-> FALSE]
      BY <3>3
    <3>4. CASE bus = [scl |-> 1, sda |-> 0, doing |-> "stopping", seen |-> FALSE]
      BY <3>4
    <3> QED BY <3>1, <3>2, <3>3, <3>4 DEF I2cInit
  <2>2. heard = [scl |-> bus.scl, sda |-> bus.sda] /\ spoken = <<>> /\ stops = 0
    BY DEF I2cInit
  <2>3. <<>> \in Seq(Seq(Seq({0, 1}))) /\ Len(<<>>) = 0
    OBVIOUS
  <2> QED BY <2>1, <2>2, <2>3 DEF BusIs
<1>2. DecoderIs
  <2>1. newMsg = FALSE /\ awaitingAck = FALSE /\ byteSoFar = <<>>
    BY DEF I2cInit
  <2>2. <<>> \in Seq({0, 1}) /\ Len(<<>>) <= ByteBits
    BY NothingLeft
  <2> QED BY <2>1, <2>2 DEF DecoderIs
<1>3. OpenIs
  <2>1. ~bus.seen
    <3>1. CASE bus \in [scl : {0, 1}, sda : {0, 1}, doing : {"talk"}, seen : {FALSE}]
      BY <3>1
    <3>2. CASE bus \in {[scl |-> 1, sda |-> 1, doing |-> "rest", seen |-> FALSE],
                        [scl |-> 1, sda |-> 1, doing |-> "restart", seen |-> FALSE],
                        [scl |-> 1, sda |-> 0, doing |-> "stopping", seen |-> FALSE]}
      BY <3>2
    <3> QED BY <3>1, <3>2 DEF I2cInit
  <2> QED BY <2>1 DEF OpenIs
<1>4. HeardAsSaid
  <2>1. [t \in 1 .. 0 |-> Messages(spoken[t])] = <<>> /\ [t \in 1 .. 0 |-> Messages(spoken[0 + t])] = <<>>
    OBVIOUS
  <2>2. Len(spoken) - stops = 0 /\ stops = 0
    BY DEF I2cInit
  <2> QED BY <2>1, <2>2 DEF I2cInit, HeardAsSaid
<1> QED BY <1>1, <1>2, <1>3, <1>4 DEF I2cKept

(* A START, the first or a repeated one (_on_start of i2c.py). *)
LEMMA StartKeeps ==
    ASSUME I2cKept, I2cStart
    PROVE  I2cKept'
<1>1. /\ bus.scl = 1 /\ bus.sda = 1 /\ bus.doing \in {"rest", "restart"}
      /\ heard = [scl |-> 1, sda |-> 1] /\ spoken \in Seq(Seq(Seq({0, 1}))) /\ stops \in Nat
  BY DEF I2cKept, BusIs, I2cStart
<1>2. HearStart /\ heard' = [scl |-> 1, sda |-> 0]
  BY <1>1 DEF I2cStart, Hear
<1>3. bus' = [scl |-> 1, sda |-> 0, doing |-> "talk", seen |-> TRUE] /\ stops' = stops
  BY DEF I2cStart
<1>4. /\ newMsg' = TRUE /\ byteSoFar' = <<>> /\ awaitingAck' = FALSE /\ txns' = txns
      /\ openTxn' = IF openTxn = <<>> THEN << <<>> >> ELSE openTxn
  BY <1>2 DEF HearStart
<1>5. DecoderIs'
  <2>1. <<>> \in Seq({0, 1}) /\ Len(<<>>) <= ByteBits
    BY NothingLeft
  <2> QED BY <1>4, <2>1 DEF DecoderIs
<1>6. /\ spoken' \in Seq(Seq(Seq({0, 1}))) /\ Len(spoken') = stops + 1
      /\ \A t \in 1 .. stops : spoken'[t] = spoken[t]
      /\ spoken'[stops + 1] # <<>> /\ Last(spoken'[stops + 1]) = <<>>
      /\ openTxn' = <<Messages(spoken'[stops + 1])>>
      /\ stops <= Len(spoken)
  <2>1. CASE ~bus.seen \/ bus.doing = "rest"
    <3>1. Len(spoken) = stops /\ openTxn = <<>>
      BY <2>1, NoneOpen
    <3>2. spoken' = Append(spoken, << <<>> >>)
      BY <2>1 DEF I2cStart
    <3>3. spoken' \in Seq(Seq(Seq({0, 1}))) /\ Len(spoken') = stops + 1 /\ spoken'[stops + 1] = << <<>> >>
          /\ \A t \in 1 .. stops : spoken'[t] = spoken[t]
      BY <1>1, <3>1, <3>2, NewMessage
    <3>4. openTxn' = <<Messages(spoken'[stops + 1])>>
      BY <1>4, <3>1, <3>3, NewMessage
    <3> QED BY <1>1, <3>1, <3>3, <3>4 DEF Last
  <2>2. CASE bus.seen /\ bus.doing = "restart"
    <3>1. /\ Len(spoken) = stops + 1 /\ OpenOne \in Seq(Seq({0, 1})) /\ OpenOne # <<>>
          /\ Said = Last(OpenOne) /\ Said \in Seq({0, 1}) /\ openTxn = <<Messages(OpenOne)>>
      BY <2>2, TheOpenOne
    <3>2. Len(Said) > ByteBits
      BY <2>2, <3>1, WholeSaid DEF I2cKept, OpenIs
    <3>3. spoken' = [spoken EXCEPT ![stops + 1] = Append(OpenOne, <<>>)]
      BY <2>2, <3>1 DEF I2cStart, OpenOne
    <3>4. Append(OpenOne, <<>>) \in Seq(Seq({0, 1})) /\ Messages(Append(OpenOne, <<>>)) = Messages(OpenOne)
      BY <3>1, <3>2, NewMessage
    <3>5. spoken' \in Seq(Seq(Seq({0, 1}))) /\ Len(spoken') = stops + 1 /\ spoken'[stops + 1] = Append(OpenOne, <<>>)
          /\ \A t \in 1 .. stops : spoken'[t] = spoken[t]
      BY <1>1, <3>1, <3>3, <3>4
    <3>6. Append(OpenOne, <<>>) # <<>> /\ Last(Append(OpenOne, <<>>)) = <<>>
      BY <3>1 DEF Last
    <3>7. openTxn' = openTxn
      BY <1>4, <3>1
    <3>8. /\ Len(spoken') = stops + 1 /\ stops \in Nat
          /\ openTxn' = <<Messages(spoken'[stops + 1])>> /\ spoken'[stops + 1] # <<>>
          /\ Last(spoken'[stops + 1]) = <<>>
      BY <1>1, <3>1, <3>4, <3>5, <3>6, <3>7, Zenon
    <3>9. stops <= Len(spoken)
      BY <1>1, <3>1
    <3> QED BY <3>5, <3>8, <3>9, Zenon
  <2> QED BY <1>1, <2>1, <2>2
<1>7. BusIs'
  BY <1>1, <1>2, <1>3, <1>6 DEF BusIs
<1>8. Said' = <<>> /\ Last(spoken') # <<>>
  BY <1>1, <1>6 DEF Said, Last
<1>9. OpenIs'
  <2>1. RestOf(<<>>) = <<>> /\ Len(<<>>) = 0 /\ (0 <= ByteBits) = TRUE /\ (0 = ByteBits) = FALSE
    BY NothingLeft
  <2>2. bus'.doing = "talk"
    BY <1>3
  <2> QED BY <1>4, <1>8, <2>1, <2>2 DEF OpenIs
<1>10. HeardAsSaid'
  <2>1. txns' = [t \in 1 .. stops |-> Messages(spoken'[t])]
    BY <1>1, <1>4, <1>6, OpenOneGrows DEF I2cKept, HeardAsSaid
  <2>2. openTxn' = [t \in 1 .. 1 |-> Messages(spoken'[stops + t])]
    BY <1>6
  <2> QED BY <1>1, <1>3, <1>6, <2>1, <2>2 DEF HeardAsSaid
<1> QED BY <1>5, <1>7, <1>9, <1>10 DEF I2cKept

(* SCL falls, and SDA is set to the next bit: the decoder takes nothing. *)
LEMMA ClockFallKeeps ==
    ASSUME I2cKept, ClockFalls
    PROVE  I2cKept'
<1>1. PICK sda \in {0, 1} : Levels(0, sda, "talk")
  BY DEF ClockFalls
<1>2. bus' = [bus EXCEPT !.scl = 0, !.sda = sda, !.doing = "talk"] /\ heard' = [scl |-> 0, sda |-> sda]
  BY <1>1 DEF Levels, Hear
<1>3. heard.scl = 1 /\ bus.doing = "talk"
  BY DEF ClockFalls, I2cKept, BusIs
<1>4. UNCHANGED <<openTxn, newMsg, byteSoFar, awaitingAck, txns, spoken, stops>>
  BY <1>1, <1>3 DEF Levels, Hear, ClockFalls
<1>5. BusIs'
  BY <1>2, <1>3, <1>4 DEF I2cKept, BusIs
<1>6. DecoderIs' /\ HeardAsSaid'
  BY <1>4 DEF I2cKept, DecoderIs, HeardAsSaid
<1>7. OpenIs'
  <2>1. bus'.seen = bus.seen /\ bus'.doing = "talk"
    BY <1>2 DEF I2cKept, BusIs
  <2>2. Said' = Said /\ Last(spoken') = Last(spoken)
    BY <1>4 DEF Said
  <2> QED BY <1>3, <1>4, <2>1, <2>2 DEF I2cKept, OpenIs
<1> QED BY <1>5, <1>6, <1>7 DEF I2cKept

(* A rise the decoder takes for a bit, and nothing that was said changes: none is   *)
(* open, or the last byte of the open one is whole and the bit is dropped later.    *)
LEMMA RiseKeeps ==
    ASSUME I2cKept, NEW sda \in {0, 1}, NEW doing \in {"restart", "stopping"},
           doing = "restart" <=> sda = 1,
           bus.doing = "talk", bus.scl = 0, AtBoundary, Levels(1, sda, doing), UNCHANGED <<spoken, stops>>
    PROVE  I2cKept'
<1>1. bus' = [bus EXCEPT !.scl = 1, !.sda = sda, !.doing = doing] /\ heard' = [scl |-> 1, sda |-> sda]
  BY DEF Levels, Hear
<1>2. heard.scl = 0
  BY DEF I2cKept, BusIs
<1>3. BusIs'
  BY <1>1 DEF I2cKept, BusIs
<1>4. bus'.seen = bus.seen /\ bus'.doing = doing
  BY <1>1 DEF I2cKept, BusIs
<1>5. Said' = Said /\ Last(spoken') = Last(spoken)
  BY DEF Said
<1>6. CASE ~bus.seen
  <2>1. openTxn = <<>>
    BY <1>6, NoneOpen
  <2>2. UNCHANGED <<openTxn, newMsg, byteSoFar, awaitingAck, txns>>
    BY <1>2, <2>1 DEF Levels, Hear
  <2>3. DecoderIs' /\ HeardAsSaid'
    BY <2>2 DEF I2cKept, DecoderIs, HeardAsSaid
  <2>4. OpenIs'
    BY <1>4, <1>6 DEF OpenIs
  <2> QED BY <1>3, <2>3, <2>4 DEF I2cKept
<1>7. CASE bus.seen
  <2>1. openTxn # <<>> /\ Said \in Seq({0, 1}) /\ newMsg = (Len(Said) <= ByteBits) /\ Last(spoken) # <<>>
    <3>1. bus.doing # "rest"
      OBVIOUS
    <3>2. /\ Last(spoken) = OpenOne /\ OpenOne # <<>> /\ Said \in Seq({0, 1}) /\ openTxn = <<Messages(OpenOne)>>
          /\ newMsg = (Len(Said) <= ByteBits)
      BY <1>7, <3>1, TheOpenOne
    <3> QED BY <3>2
  <2>2. Said # <<>> /\ Len(Said) % FramedBits = 0
    BY <1>7 DEF AtBoundary, FramedBits
  <2>3. byteSoFar = <<>> /\ awaitingAck = FALSE
    <3>1. byteSoFar = RestOf(Said) /\ awaitingAck = (Len(byteSoFar) = ByteBits)
      BY <1>7 DEF I2cKept, OpenIs
    <3>2. RestOf(Said) = <<>>
      BY <2>1, <2>2, WholeSaid
    <3>3. (Len(<<>>) = ByteBits) = FALSE
      BY NothingLeft
    <3> QED BY <3>1, <3>2, <3>3
  <2>4. HearBit(sda)
    BY <1>2, <2>1, <2>3 DEF Levels, Hear
  <2>5. byteSoFar' = <<sda>> /\ awaitingAck' = (1 = ByteBits) /\ UNCHANGED <<openTxn, newMsg, txns>>
    BY <2>3, <2>4 DEF HearBit
  <2>6. DecoderIs'
    <3>1. <<sda>> \in Seq({0, 1}) /\ Len(<<sda>>) <= ByteBits /\ (1 = ByteBits) = FALSE
      BY NothingLeft
    <3> QED BY <2>5, <3>1 DEF I2cKept, DecoderIs
  <2>7. HeardAsSaid'
    BY <2>5 DEF I2cKept, HeardAsSaid
  <2>8. OpenIs'
    BY <1>4, <1>5, <2>1, <2>2, <2>5 DEF OpenIs
  <2> QED BY <1>3, <2>6, <2>7, <2>8 DEF I2cKept
<1> QED BY <1>6, <1>7

(* SCL rises: the decoder takes a bit, an eighth one with its byte, or an ack. *)
LEMMA BitKeeps ==
    ASSUME I2cKept, BitRises
    PROVE  I2cKept'
<1>1. PICK sda \in {0, 1} :
         /\ Levels(1, sda, "talk")
         /\ spoken' = IF bus.seen
                      THEN [spoken EXCEPT ![Len(spoken)][Len(spoken[Len(spoken)])] = Append(@, sda)]
                      ELSE spoken
  BY DEF BitRises
<1>2. bus' = [bus EXCEPT !.scl = 1, !.sda = sda, !.doing = "talk"] /\ heard' = [scl |-> 1, sda |-> sda]
  BY <1>1 DEF Levels, Hear
<1>3. heard.scl = 0 /\ bus.doing = "talk" /\ stops' = stops
  BY DEF BitRises, I2cKept, BusIs
<1>4. bus'.seen = bus.seen /\ bus'.doing = "talk"
  BY <1>2 DEF I2cKept, BusIs
<1>5. CASE ~bus.seen
  <2>1. openTxn = <<>>
    BY <1>5, NoneOpen
  <2>2. UNCHANGED <<openTxn, newMsg, byteSoFar, awaitingAck, txns, spoken>>
    BY <1>1, <1>3, <1>5, <2>1 DEF Levels, Hear
  <2>3. DecoderIs' /\ HeardAsSaid'
    BY <1>3, <2>2 DEF I2cKept, DecoderIs, HeardAsSaid
  <2>4. OpenIs'
    BY <1>4, <1>5 DEF OpenIs
  <2>5. BusIs'
    BY <1>2, <1>3, <2>2 DEF I2cKept, BusIs
  <2> QED BY <2>3, <2>4, <2>5 DEF I2cKept
<1>6. CASE bus.seen
  <2>1. /\ Len(spoken) = stops + 1 /\ stops \in Nat /\ OpenOne \in Seq(Seq({0, 1}))
        /\ OpenOne # <<>> /\ Said = Last(OpenOne) /\ Said \in Seq({0, 1})
        /\ openTxn = <<Messages(OpenOne)>> /\ newMsg = (Len(Said) <= ByteBits)
    BY <1>3, <1>6, TheOpenOne
  <2>2. byteSoFar = RestOf(Said) /\ awaitingAck = (Len(byteSoFar) = ByteBits)
    BY <1>3, <1>6 DEF I2cKept, OpenIs
  <2> DEFINE more == [OpenOne EXCEPT ![Len(OpenOne)] = Append(Said, sda)]
             x == ByteOf(Said, sda)
  <2>5. spoken' = [spoken EXCEPT ![stops + 1] = more]
    <3>1. Said = OpenOne[Len(OpenOne)]
      BY <2>1 DEF Last
    <3> QED BY <1>1, <1>6, <2>1, <3>1 DEF OpenOne
  <2>14. /\ more \in Seq(Seq({0, 1})) /\ Len(more) = Len(OpenOne) /\ Last(more) = Append(Said, sda)
         /\ \A m \in 1 .. Len(OpenOne) - 1 : more[m] = OpenOne[m]
    BY <2>1 DEF Last
  <2> HIDE DEF more
  <2> HIDE DEF x
  <2>3. /\ Len(RestOf(Said)) < ByteBits => Messages(more) = Messages(OpenOne)
        /\ Len(RestOf(Said)) = ByteBits =>
              IF Len(Said) <= ByteBits THEN Messages(more) = Append(Messages(OpenOne), <<x>>)
              ELSE Messages(more) = [Messages(OpenOne) EXCEPT ![Len(Messages(OpenOne))] = Append(@, x)]
    BY <2>1, <2>14, MessagesAre, ZenonT(30) DEF x
  <2>4. spoken \in Seq(Seq(Seq({0, 1})))
    BY DEF I2cKept, BusIs
  <2>6. /\ spoken' \in Seq(Seq(Seq({0, 1}))) /\ Len(spoken') = stops + 1 /\ spoken'[stops + 1] = more
        /\ \A t \in 1 .. stops : spoken'[t] = spoken[t]
    <3>1. stops + 1 \in 1 .. Len(spoken)
      BY <2>1
    <3>2. spoken' \in Seq(Seq(Seq({0, 1}))) /\ Len(spoken') = Len(spoken)
      BY <2>14, <2>4, <2>5, <3>1, ExceptSeq
    <3>3. spoken'[stops + 1] = more /\ \A t \in 1 .. stops : spoken'[t] = spoken[t]
      BY <2>1, <2>4, <2>5
    <3> QED BY <2>1, <3>2, <3>3
  <2>7. Last(spoken') = more /\ more # <<>> /\ Said' = Append(Said, sda)
    <3>1. Last(spoken') = more
      BY <2>6 DEF Last
    <3>2. more # <<>>
      BY <2>1, <2>14
    <3>3. Said' = Last(more)
      BY <3>1 DEF Said
    <3> QED BY <2>14, <3>1, <3>2, <3>3
  <2>8. /\ Said' \in Seq({0, 1}) /\ Len(Said') = Len(Said) + 1 /\ Len(Said) \in Nat
        /\ RestOf(Said) \in Seq({0, 1}) /\ Len(RestOf(Said)) \in 0 .. ByteBits /\ ByteBits \in Nat \ {0, 1}
    <3>1. Append(Said, sda) \in Seq({0, 1}) /\ Len(Append(Said, sda)) = Len(Said) + 1 /\ Len(Said) \in Nat
      BY <2>1
    <3>2. RestOf(Said) \in Seq({0, 1}) /\ Len(RestOf(Said)) \in 0 .. ByteBits
      BY <2>1, OneMoreBit
    <3> QED BY <2>7, <3>1, <3>2, NothingLeft
  <2>9. BusIs'
    BY <1>2, <1>3, <1>6, <2>1, <2>6 DEF I2cKept, BusIs
  <2>10. ASSUME openTxn' = <<Messages(more)>>, txns' = txns
         PROVE  HeardAsSaid'
    <3>1. txns' = [t \in 1 .. stops |-> Messages(spoken'[t])]
      <4>1. stops <= Len(spoken) /\ stops <= Len(spoken')
        BY <2>1, <2>6
      <4> QED BY <2>1, <2>4, <2>6, <2>10, <4>1, OpenOneGrows DEF I2cKept, HeardAsSaid
    <3>2. openTxn' = [t \in 1 .. 1 |-> Messages(spoken'[stops + t])]
      BY <2>6, <2>10
    <3> QED BY <1>3, <2>1, <2>6, <3>1, <3>2 DEF HeardAsSaid
  <2>11. ASSUME newMsg' = (Len(Said') <= ByteBits), byteSoFar' = RestOf(Said'),
                awaitingAck' = (Len(byteSoFar') = ByteBits)
         PROVE  OpenIs'
    BY <1>4, <2>7, <2>11 DEF OpenIs
  <2>12. CASE ~awaitingAck
    <3>1. HearBit(sda)
      BY <1>1, <1>3, <2>1, <2>12 DEF Levels, Hear
    <3>2. Len(RestOf(Said)) < ByteBits
      <4>1. Len(RestOf(Said)) # ByteBits
        BY <2>2, <2>12
      <4> QED BY <2>8, <4>1
    <3>3. RestOf(Said') = Append(RestOf(Said), sda) /\ (Len(Said) <= ByteBits => Len(Said) + 1 <= ByteBits)
      BY <2>1, <2>7, <3>2, OneMoreBit
    <3>4. byteSoFar' = RestOf(Said') /\ UNCHANGED <<openTxn, newMsg, txns>>
      BY <2>2, <3>1, <3>3 DEF HearBit
    <3>5. Len(byteSoFar') = Len(byteSoFar) + 1
      BY <2>2, <2>8, <3>3, <3>4
    <3>6. awaitingAck' = (Len(byteSoFar') = ByteBits)
      BY <3>1, <3>5 DEF HearBit
    <3>7. newMsg' = (Len(Said') <= ByteBits)
      <4>1. Len(Said') <= ByteBits <=> Len(Said) <= ByteBits
        BY <2>8, <3>3
      <4> QED BY <2>1, <3>4, <4>1
    <3>8. OpenIs'
      BY <2>11, <3>4, <3>6, <3>7
    <3>9. HeardAsSaid'
      BY <2>1, <2>3, <2>10, <3>2, <3>4
    <3>10. DecoderIs'
      <4>1. byteSoFar' \in Seq({0, 1}) /\ Len(byteSoFar') <= ByteBits
        BY <2>2, <2>8, <3>2, <3>3, <3>4, <3>5
      <4>2. (Len(byteSoFar') = ByteBits) \in BOOLEAN /\ newMsg' \in BOOLEAN
        BY <3>4 DEF I2cKept, DecoderIs
      <4> QED BY <3>6, <4>1, <4>2 DEF DecoderIs
    <3> QED BY <2>9, <3>8, <3>9, <3>10 DEF I2cKept
  <2>13. CASE awaitingAck
    <3>1. HearAck(sda)
      BY <1>1, <1>3, <2>1, <2>13 DEF Levels, Hear
    <3>2. Len(RestOf(Said)) = ByteBits
      BY <2>2, <2>13
    <3>3. RestOf(Said') = <<>>
      BY <2>1, <2>7, <3>2, OneMoreBit
    <3>4. byteSoFar' = <<>> /\ newMsg' = FALSE /\ awaitingAck' = FALSE /\ txns' = txns
      BY <3>1 DEF HearAck
    <3>5. openTxn' = <<Messages(more)>>
      <4>1. openTxn[1] = Messages(OpenOne) /\ [byte |-> byteSoFar, ack |-> sda = 0] = x
        BY <2>1, <2>2 DEF x, ByteOf
      <4>2. openTxn' = IF newMsg THEN << Append(Messages(OpenOne), <<x>>) >>
                       ELSE << [Messages(OpenOne) EXCEPT ![Len(Messages(OpenOne))] = Append(@, x)] >>
        BY <3>1, <4>1 DEF HearAck
      <4> QED BY <2>1, <2>3, <3>2, <4>2
    <3>6. OpenIs'
      <4>1. (Len(Said') <= ByteBits) = FALSE
        <5>1. Len(Said) >= Len(RestOf(Said))
          BY <2>1, OneMoreBit
        <5> QED BY <2>8, <3>2, <5>1
      <4>2. (Len(<<>>) = ByteBits) = FALSE
        BY <2>8
      <4> QED BY <2>11, <3>3, <3>4, <4>1, <4>2
    <3>7. HeardAsSaid'
      BY <2>10, <3>4, <3>5
    <3>8. DecoderIs'
      <4>1. <<>> \in Seq({0, 1}) /\ Len(<<>>) <= ByteBits
        BY <2>8
      <4> QED BY <3>4, <4>1 DEF DecoderIs
    <3> QED BY <2>9, <3>6, <3>7, <3>8 DEF I2cKept
  <2> QED BY <2>12, <2>13
<1> QED BY <1>5, <1>6

LEMMA I2cStopKeeps ==
    ASSUME I2cKept, I2cStop
    PROVE  I2cKept'
<1>1. bus' = [bus EXCEPT !.scl = 1, !.sda = 1, !.doing = "rest"] /\ heard' = [scl |-> 1, sda |-> 1]
  BY DEF I2cStop, Levels, Hear
<1>2. heard.scl = 1 /\ heard.sda = 0 /\ bus.doing = "stopping" /\ spoken' = spoken
  BY DEF I2cStop, I2cKept, BusIs
<1>3. HearStop
  BY <1>2 DEF I2cStop, Levels, Hear
<1>4. /\ txns' = txns \o openTxn /\ openTxn' = <<>> /\ newMsg' = FALSE /\ byteSoFar' = <<>> /\ awaitingAck' = FALSE
  BY <1>3 DEF HearStop
<1>5. DecoderIs'
  <2>1. <<>> \in Seq({0, 1}) /\ Len(<<>>) <= ByteBits
    BY NothingLeft
  <2> QED BY <1>4, <2>1 DEF DecoderIs
<1>6. bus'.doing = "rest" /\ bus'.seen = bus.seen
  BY <1>1 DEF I2cKept, BusIs
<1>7. OpenIs'
  BY <1>6 DEF OpenIs
<1>8. stops \in Nat /\ stops' = Len(spoken) /\ (~bus.seen => stops' = 0) /\ txns' = [t \in 1 .. stops' |-> Messages(spoken[t])]
  <2>1. txns = [t \in 1 .. stops |-> Messages(spoken[t])] /\ stops \in Nat
    BY DEF I2cKept, HeardAsSaid, BusIs
  <2>2. CASE bus.seen
    <3>1. Len(spoken) = stops + 1 /\ openTxn = <<Messages(OpenOne)>> /\ stops' = stops + 1
      BY <1>2, <2>2, TheOpenOne DEF I2cStop
    <3>2. txns \o <<Messages(OpenOne)>> = [t \in 1 .. stops + 1 |-> IF t = stops + 1 THEN Messages(OpenOne) ELSE txns[t]]
      BY <2>1
    <3>3. \A t \in 1 .. stops + 1 : (IF t = stops + 1 THEN Messages(OpenOne) ELSE txns[t]) = Messages(spoken[t])
      BY <2>1 DEF OpenOne
    <3> QED BY <1>4, <2>1, <2>2, <3>1, <3>2, <3>3
  <2>3. CASE ~bus.seen
    <3>1. Len(spoken) = stops /\ openTxn = <<>> /\ stops' = stops /\ stops = 0
      BY <2>3, NoneOpen DEF I2cStop, I2cKept, BusIs
    <3>2. txns \o <<>> = txns
      BY <2>1
    <3> QED BY <1>4, <2>1, <2>3, <3>1, <3>2
  <2> QED BY <2>2, <2>3
<1>9. BusIs'
  <2>1. bus \in [scl : {0, 1}, sda : {0, 1}, doing : {"talk", "restart", "stopping", "rest"}, seen : BOOLEAN]
        /\ spoken \in Seq(Seq(Seq({0, 1})))
    BY DEF I2cKept, BusIs
  <2>2. /\ bus' \in [scl : {0, 1}, sda : {0, 1}, doing : {"talk", "restart", "stopping", "rest"}, seen : BOOLEAN]
        /\ bus'.scl = 1 /\ bus'.sda = 1
    BY <1>1, <2>1
  <2>3. Len(spoken') \in Nat /\ Len(spoken') = stops'
    BY <1>2, <1>8, <2>1
  <2> QED BY <1>1, <1>2, <1>6, <1>8, <2>1, <2>2, <2>3 DEF BusIs
<1>10. HeardAsSaid'
  <2>1. openTxn' = [t \in 1 .. 0 |-> Messages(spoken[stops' + t])]
    BY <1>4
  <2>2. Len(spoken) - stops' = 0
    BY <1>8
  <2> QED BY <1>2, <1>8, <2>1, <2>2 DEF HeardAsSaid
<1> QED BY <1>5, <1>7, <1>9, <1>10 DEF I2cKept

(* Every step of the bus keeps what the decoder has beside what was said. *)
LEMMA I2cStep ==
    ASSUME I2cKept, [I2cNext]_i2cVars
    PROVE  I2cKept'
<1>1. CASE RiseToRestart
  BY <1>1, RiseKeeps DEF RiseToRestart
<1>2. CASE RiseToStop
  BY <1>2, RiseKeeps DEF RiseToStop
<1>3. CASE UNCHANGED i2cVars
  BY <1>3 DEF i2cVars, I2cKept, BusIs, DecoderIs, OpenIs, HeardAsSaid, Said
<1> QED BY <1>1, <1>2, <1>3, StartKeeps, ClockFallKeeps, BitKeeps, I2cStopKeeps DEF I2cNext

(* What is kept says what the transactions that come out are. *)
LEMMA I2cIsSafe == I2cKept => I2cInv
<1> SUFFICES ASSUME I2cKept PROVE I2cInv
  OBVIOUS
<1>1. Len(openTxn) <= 1
  <2>1. CASE bus.seen /\ bus.doing # "rest"
    <3>1. openTxn = <<Messages(OpenOne)>>
      BY <2>1, TheOpenOne
    <3> QED BY <3>1
  <2>2. CASE ~(bus.seen /\ bus.doing # "rest")
    BY <2>2, NoneOpen
  <2> QED BY <2>1, <2>2
<1> QED BY <1>1 DEF I2cKept, BusIs, DecoderIs, I2cInv, I2cTypeOK

(* Every transaction that ended in the capture comes out in order and as it was     *)
(* said, bytes and acks, whatever the levels the capture began at, however often    *)
(* the masters start again, and nothing of one whose START it did not see.          *)
THEOREM I2cHeardAsSaid == I2cSpec => []I2cInv
<1>1. I2cInit => I2cKept
  BY I2cStarts
<1>2. I2cKept /\ [I2cNext]_i2cVars => I2cKept'
  BY I2cStep
<1> QED BY <1>1, <1>2, I2cIsSafe, PTL DEF I2cSpec

-----------------------------------------------------------------------------
(* The SPI decoder (decode.py): any mode, any bits, with and without CS. *)

(* What is left of the bits behind the last whole word. *)
RestOfWord(sent) == [i \in 1 .. Len(sent) % WordBits |-> sent[(Len(sent) \div WordBits) * WordBits + i]]
WordsOf(times) == FlattenSeq([s \in DOMAIN times |-> WholeWords(times[s])])

(* While the slave is selected the decoder has what is over the whole words; while it *)
(* is not, nothing, and with no CS to see the clock then rests where the mode has it. *)
SpiDecodeKept ==
    /\ spiMode \in [cpol : {0, 1}, cpha : {0, 1}, cs : BOOLEAN]
    /\ spiBus \in [cs : {0, 1}, clk : {0, 1}, data : {0, 1}]
    /\ spiSent \in Seq(Seq({0, 1}))
    /\ Selected => spiSent # <<>> /\ wordAcc = RestOfWord(Last(spiSent))
    /\ ~Selected => wordAcc = <<>>
    /\ ~Selected /\ ~spiMode.cs => AtIdle
    /\ spiWords = WordsOf(spiSent)

(* One more bit sent completes a word or does not. *)
LEMMA OneMoreSent ==
    ASSUME NEW sent \in Seq({0, 1}), NEW b \in {0, 1}
    PROVE  /\ RestOfWord(sent) \in Seq({0, 1}) /\ Len(RestOfWord(sent)) \in 0 .. WordBits - 1
           /\ Len(sent) % WordBits = 0 => RestOfWord(sent) = <<>>
           /\ Len(RestOfWord(sent)) + 1 < WordBits =>
                 /\ WholeWords(Append(sent, b)) = WholeWords(sent)
                 /\ RestOfWord(Append(sent, b)) = Append(RestOfWord(sent), b)
           /\ Len(RestOfWord(sent)) + 1 = WordBits =>
                 /\ WholeWords(Append(sent, b)) = Append(WholeWords(sent), Append(RestOfWord(sent), b))
                 /\ RestOfWord(Append(sent, b)) = <<>>
<1> DEFINE L == Len(sent)
           W == WordBits
           q == L \div W
           r == L % W
           more == Append(sent, b)
<1>1. W \in Nat \ {0}
  BY SpiDecodeAssumption DEF SpiDecodeAssumption
<1>2. L \in Nat /\ sent \in [1 .. L -> {0, 1}]
  OBVIOUS
<1>3. more \in Seq({0, 1}) /\ Len(more) = L + 1 /\ more[L + 1] = b /\ \A i \in 1 .. L : more[i] = sent[i]
  OBVIOUS
<1>4. /\ q \in Nat /\ r \in 0 .. W - 1 /\ q * W \in Nat /\ q * W + r = L
      /\ r = W - 1 => (L + 1) \div W = q + 1 /\ (L + 1) % W = 0
      /\ r < W - 1 => (L + 1) \div W = q /\ (L + 1) % W = r + 1
      /\ \A i \in 1 .. q : (i - 1) * W \in Nat /\ (i - 1) * W + W <= L
  <2> HIDE DEF L
  <2> QED BY <1>1, <1>2, Blocks
<1>5. RestOfWord(sent) = [i \in 1 .. r |-> sent[q * W + i]]
  BY DEF RestOfWord
<1>6. RestOfWord(sent) \in Seq({0, 1}) /\ Len(RestOfWord(sent)) = r
  <2> HIDE DEF L, q, r, W
  <2>1. \A i \in 1 .. r : q * W + i \in 1 .. L
    BY <1>1, <1>2, <1>4
  <2>2. [i \in 1 .. r |-> sent[q * W + i]] \in [1 .. r -> {0, 1}]
    BY <1>2, <2>1
  <2>3. RestOfWord(sent) \in [1 .. r -> {0, 1}]
    BY <1>5, <2>2, Zenon
  <2>4. r \in Nat
    BY <1>1, <1>4
  <2> QED BY <2>3, <2>4
<1> DEFINE Word(s, i) == SubSeq(s, (i - 1) * W + 1, i * W)
<1>7. \A s : WholeWords(s) = [i \in 1 .. Len(s) \div W |-> Word(s, i)]
  BY DEF WholeWords
<1>13. \A i \in 1 .. q + 1 : (i - 1) * W \in Nat /\ i * W = (i - 1) * W + W
  <2>1. q \in Nat
    BY <1>4
  <2> HIDE DEF q
  <2> SUFFICES ASSUME NEW i \in 1 .. q + 1 PROVE (i - 1) * W \in Nat /\ i * W = (i - 1) * W + W
    OBVIOUS
  <2>2. i \in Nat /\ i - 1 \in Nat
    BY <2>1
  <2> QED BY <1>1, <2>2, SMT
<1>8. ASSUME NEW i \in 1 .. q
      PROVE  Word(more, i) = Word(sent, i)
  <2> DEFINE from == (i - 1) * W
  <2>1. from \in Nat /\ from + W <= L /\ i * W = from + W
    <3>1. i \in 1 .. q + 1
      BY <1>4
    <3> HIDE DEF L, q, r, W
    <3> QED BY <1>4, <1>13, <3>1
  <2> HIDE DEF from, L, W, q
  <2>2. \A j \in 1 .. W : from + j \in 1 .. L
    BY <1>1, <1>2, <2>1
  <2>3. SubSeq(more, from + 1, from + W) = [j \in 1 .. W |-> more[from + j]]
    BY <1>1, <1>2, <1>3, <2>1
  <2>4. SubSeq(sent, from + 1, from + W) = [j \in 1 .. W |-> sent[from + j]]
    BY <1>1, <1>2, <2>1
  <2>5. SubSeq(more, from + 1, from + W) = SubSeq(sent, from + 1, from + W)
    BY <1>3, <2>2, <2>3, <2>4
  <2> QED BY <2>1, <2>5 DEF from
<1>9. ASSUME r + 1 < W
      PROVE  WholeWords(more) = WholeWords(sent) /\ RestOfWord(more) = Append(RestOfWord(sent), b)
  <2>0. (L + 1) \div W = q /\ (L + 1) % W = r + 1
    <3> HIDE DEF L, q, r, W
    <3> QED BY <1>1, <1>4, <1>9
  <2>1. WholeWords(more) = [i \in 1 .. q |-> Word(more, i)] /\ WholeWords(sent) = [i \in 1 .. q |-> Word(sent, i)]
    BY <1>3, <1>7, <2>0
  <2>2. WholeWords(more) = WholeWords(sent)
    <3> HIDE DEF Word, q
    <3> QED BY <1>8, <2>1
  <2>3. RestOfWord(more) = [i \in 1 .. r + 1 |-> more[q * W + i]]
    BY <1>3, <2>0 DEF RestOfWord
  <2>4. \A i \in 1 .. r + 1 : more[q * W + i] = IF i = r + 1 THEN b ELSE sent[q * W + i]
    <3> HIDE DEF L, q, r, more, W
    <3> QED BY <1>1, <1>2, <1>3, <1>4
  <2>5. Append(RestOfWord(sent), b) = [i \in 1 .. r + 1 |-> IF i = r + 1 THEN b ELSE sent[q * W + i]]
    <3> HIDE DEF L, q, r, more, W
    <3> QED BY <1>1, <1>4, <1>5, <1>6
  <2> HIDE DEF L, q, r, more, W
  <2> QED BY <2>2, <2>3, <2>4, <2>5
<1>10. ASSUME r + 1 = W
       PROVE  /\ WholeWords(more) = Append(WholeWords(sent), Append(RestOfWord(sent), b))
              /\ RestOfWord(more) = <<>>
  <2>0. (L + 1) \div W = q + 1 /\ (L + 1) % W = 0 /\ r = W - 1
    <3> HIDE DEF L, q, r, W
    <3> QED BY <1>1, <1>4, <1>10
  <2>1. WholeWords(more) = [i \in 1 .. q + 1 |-> Word(more, i)] /\ WholeWords(sent) = [i \in 1 .. q |-> Word(sent, i)]
    BY <1>3, <1>7, <2>0
  <2>2. Word(more, q + 1) = Append(RestOfWord(sent), b)
    <3> DEFINE from == q * W
    <3>1. from \in Nat /\ (q + 1) - 1 = q /\ (q + 1) * W = from + W /\ from + W = L + 1
      <4>1. q \in Nat /\ q + 1 \in 1 .. q + 1 /\ (q + 1) - 1 = q
        BY <1>4
      <4>2. (q + 1) * W = q * W + W
        <5> HIDE DEF q, W
        <5> QED BY <1>1, <4>1, <1>13
      <4> HIDE DEF L, q, r, W
      <4> QED BY <1>1, <1>2, <1>4, <2>0, <4>1, <4>2
    <3>2. Word(more, q + 1) = SubSeq(more, from + 1, from + W)
      <4> HIDE DEF L, q, r, W
      <4> QED BY <3>1
    <3>3. RestOfWord(sent) = [i \in 1 .. r |-> sent[from + i]]
      BY <1>5
    <3> HIDE DEF L, q, r, W, more, from
    <3>4. SubSeq(more, from + 1, from + W) = [j \in 1 .. W |-> more[from + j]]
      BY <1>1, <1>2, <1>3, <3>1
    <3>5. \A j \in 1 .. W : more[from + j] = IF j = W THEN b ELSE sent[from + j]
      BY <1>1, <1>2, <1>3, <3>1
    <3>6. Append(RestOfWord(sent), b) = [j \in 1 .. W |-> IF j = W THEN b ELSE sent[from + j]]
      BY <1>1, <1>4, <1>6, <1>10, <3>3
    <3> QED BY <3>2, <3>4, <3>5, <3>6
  <2>3. \A i \in 1 .. q : Word(more, i) = Word(sent, i)
    BY <1>8
  <2>4. WholeWords(more) = Append(WholeWords(sent), Word(more, q + 1))
    <3>1. q \in Nat
      BY <1>4
    <3> HIDE DEF Word, q
    <3>2. Append([i \in 1 .. q |-> Word(sent, i)], Word(more, q + 1))
            = [i \in 1 .. q + 1 |-> IF i = q + 1 THEN Word(more, q + 1) ELSE Word(sent, i)]
      BY <3>1
    <3>3. \A i \in 1 .. q + 1 : Word(more, i) = IF i = q + 1 THEN Word(more, q + 1) ELSE Word(sent, i)
      BY <3>1, <2>3
    <3> QED BY <2>1, <3>2, <3>3
  <2>5. RestOfWord(more) = <<>>
    <3>1. RestOfWord(more) = [i \in 1 .. 0 |-> more[(Len(more) \div W) * W + i]]
      BY <1>3, <2>0 DEF RestOfWord
    <3> QED BY <3>1
  <2> QED BY <2>2, <2>4, <2>5
<1>11. r = 0 => RestOfWord(sent) = <<>>
  <2> HIDE DEF r
  <2> QED BY <1>5
<1>12. Len(RestOfWord(sent)) \in 0 .. W - 1
  BY <1>4, <1>6
<1> QED BY <1>6, <1>9, <1>10, <1>11, <1>12

(* The whole words of what was sent are words. *)
LEMMA WordsAreWords ==
    ASSUME NEW sent \in Seq({0, 1})
    PROVE  WholeWords(sent) \in Seq(Seq({0, 1}))
<1> DEFINE L == Len(sent)
           q == L \div WordBits
<1>1. WordBits \in Nat \ {0} /\ L \in Nat
  BY SpiDecodeAssumption DEF SpiDecodeAssumption
<1>2. q \in Nat /\ \A i \in 1 .. q : (i - 1) * WordBits \in Nat /\ (i - 1) * WordBits + WordBits <= L
  <2> HIDE DEF L
  <2> QED BY <1>1, Blocks
<1>3. ASSUME NEW i \in 1 .. q
      PROVE  SubSeq(sent, (i - 1) * WordBits + 1, i * WordBits) \in Seq({0, 1})
  <2> DEFINE from == (i - 1) * WordBits
  <2>1. from \in Nat /\ from + WordBits <= L /\ i * WordBits = from + WordBits
    <3>1. i \in Nat /\ i - 1 \in Nat
      <4> HIDE DEF q
      <4> QED BY <1>2
    <3>2. i * WordBits = (i - 1) * WordBits + WordBits
      BY <1>1, <3>1, SMT
    <3> QED BY <1>2, <3>2
  <2> HIDE DEF from
  <2>2. SubSeq(sent, from + 1, from + WordBits) \in Seq({0, 1})
    BY <1>1, <2>1
  <2> QED BY <2>1, <2>2 DEF from
<1>4. WholeWords(sent) \in [1 .. q -> Seq({0, 1})]
  BY <1>3 DEF WholeWords
<1> HIDE DEF q
<1> QED BY <1>2, <1>4

(* Nothing has no words. *)
LEMMA NoWords == WholeWords(<<>>) = <<>> /\ RestOfWord(<<>>) = <<>>
<1>1. WordBits \in Nat \ {0} /\ 0 \in Nat
  BY SpiDecodeAssumption DEF SpiDecodeAssumption
<1>2. 0 \div WordBits = 0 /\ 0 % WordBits = 0
  <2>1. 0 \div WordBits \in Nat /\ 0 % WordBits \in 0 .. WordBits - 1 /\ (0 \div WordBits) * WordBits \in Nat
        /\ (0 \div WordBits) * WordBits + (0 % WordBits) = 0 /\ (0 < WordBits => 0 \div WordBits = 0)
    BY <1>1, Blocks
  <2> DEFINE q == 0 \div WordBits
             r == 0 % WordBits
             p == q * WordBits
  <2>2. p \in Nat /\ r \in 0 .. WordBits - 1 /\ p + r = 0
    BY <2>1
  <2>3. r = 0
    <3> HIDE DEF p, r
    <3> QED BY <1>1, <2>2
  <2> QED BY <1>1, <2>1, <2>3
<1>3. Len(<<>>) = 0
  OBVIOUS
<1>4. WholeWords(<<>>) = [w \in 1 .. 0 |-> SubSeq(<<>>, (w - 1) * WordBits + 1, w * WordBits)]
  BY <1>2, <1>3 DEF WholeWords
<1>5. RestOfWord(<<>>) = [i \in 1 .. 0 |-> <<>>[(Len(<<>>) \div WordBits) * WordBits + i]]
  BY <1>2, <1>3 DEF RestOfWord
<1> QED BY <1>4, <1>5

(* The words of one more time that the slave is selected follow those of the    *)
(* earlier ones.                                                                *)
LEMMA WordsOfMore ==
    ASSUME NEW times \in Seq(Seq({0, 1})), NEW sent \in Seq({0, 1})
    PROVE  /\ WordsOf(Append(times, sent)) = WordsOf(times) \o WholeWords(sent)
           /\ WordsOf(times) \in Seq(Seq({0, 1}))
<1> DEFINE n == Len(times)
           ww == [s \in 1 .. n |-> WholeWords(times[s])]
           more == Append(times, sent)
<1>1. n \in Nat /\ more \in Seq(Seq({0, 1})) /\ DOMAIN more = 1 .. n + 1 /\ DOMAIN times = 1 .. n
      /\ more[n + 1] = sent /\ \A s \in 1 .. n : more[s] = times[s]
  OBVIOUS
<1>2. ww \in Seq(Seq(Seq({0, 1})))
  <2>1. \A s \in 1 .. n : times[s] \in Seq({0, 1})
    OBVIOUS
  <2>2. \A s \in 1 .. n : WholeWords(times[s]) \in Seq(Seq({0, 1}))
    BY <2>1, WordsAreWords
  <2> HIDE DEF n
  <2> QED BY <1>1, <2>2
<1>3. WholeWords(sent) \in Seq(Seq({0, 1}))
  BY WordsAreWords
<1>4. [s \in DOMAIN more |-> WholeWords(more[s])] = Append(ww, WholeWords(sent))
  <2>1. ww = [s \in 1 .. n |-> ww[s]]
    OBVIOUS
  <2>2. Append(ww, WholeWords(sent)) = [s \in 1 .. n + 1 |-> IF s = n + 1 THEN WholeWords(sent) ELSE ww[s]]
    <3> HIDE DEF ww, n
    <3> QED BY <1>1, <2>1, AppendToMap
  <2>3. \A s \in 1 .. n + 1 : WholeWords(more[s]) = IF s = n + 1 THEN WholeWords(sent) ELSE ww[s]
    <3> SUFFICES ASSUME NEW s \in 1 .. n + 1
                 PROVE  WholeWords(more[s]) = IF s = n + 1 THEN WholeWords(sent) ELSE ww[s]
      OBVIOUS
    <3>1. s # n + 1 => s \in 1 .. n
      BY <1>1
    <3>2. s # n + 1 => ww[s] = WholeWords(times[s])
      BY <3>1
    <3> HIDE DEF ww, more, n
    <3> QED BY <1>1, <3>1, <3>2
  <2> HIDE DEF ww, more, n
  <2> QED BY <1>1, <2>2, <2>3
<1>5. WordsOf(times) = FlattenSeq(ww) /\ WordsOf(more) = FlattenSeq(Append(ww, WholeWords(sent)))
  BY <1>1, <1>4 DEF WordsOf
<1> HIDE DEF ww, more
<1>6. FlattenSeq(Append(ww, WholeWords(sent))) = FlattenSeq(ww) \o WholeWords(sent)
      /\ FlattenSeq(ww) \in Seq(Seq({0, 1}))
  BY <1>2, <1>3, FlatAppend
<1> QED BY <1>5, <1>6 DEF more

Replaced(seq, x) == [seq EXCEPT ![Len(seq)] = x]
FrontOf(seq) == [i \in 1 .. Len(seq) - 1 |-> seq[i]]

(* The last of a sequence, and what is before it. *)
LEMMA FrontAndLast ==
    ASSUME NEW T, NEW seq \in Seq(T), seq # <<>>, NEW x \in T
    PROVE  /\ FrontOf(seq) \in Seq(T) /\ seq = Append(FrontOf(seq), Last(seq))
           /\ Last(seq) \in T /\ Last(seq) = seq[Len(seq)]
           /\ Replaced(seq, x) = Append(FrontOf(seq), x)
<1>1. PICK n \in Nat \ {0} : n = Len(seq) /\ seq \in [1 .. n -> T]
  OBVIOUS
<1> DEFINE front == [i \in 1 .. n - 1 |-> seq[i]]
           other == [seq EXCEPT ![n] = x]
<1>2. n - 1 \in Nat /\ (n - 1) + 1 = n
  OBVIOUS
<1>3. front \in Seq(T)
  BY <1>1, <1>2
<1>4. \A y : Append(front, y) = [m \in 1 .. n |-> IF m = n THEN y ELSE front[m]]
  <2>1. front = [m \in 1 .. n - 1 |-> front[m]]
    OBVIOUS
  <2> HIDE DEF front
  <2> TAKE y
  <2>2. Append(front, y) = [m \in 1 .. (n - 1) + 1 |-> IF m = (n - 1) + 1 THEN y ELSE front[m]]
    BY <1>2, <2>1, AppendToMap
  <2> QED BY <1>2, <2>2
<1>5. \A m \in 1 .. n : m # n => front[m] = seq[m]
  OBVIOUS
<1>6. seq = [m \in 1 .. n |-> IF m = n THEN seq[n] ELSE front[m]]
  BY <1>1, <1>5
<1>7. other = [m \in 1 .. n |-> IF m = n THEN x ELSE front[m]]
  BY <1>1, <1>5
<1>8. Last(seq) = seq[n] /\ seq[n] \in T
  BY <1>1 DEF Last
<1> HIDE DEF front, other
<1>9. seq = Append(front, seq[n]) /\ other = Append(front, x)
  BY <1>4, <1>6, <1>7
<1>10. Replaced(seq, x) = other
  BY <1>1 DEF other, Replaced
<1>11. FrontOf(seq) = front
  BY <1>1 DEF FrontOf, front
<1> QED BY <1>1, <1>3, <1>8, <1>9, <1>10, <1>11

Longer(times, b) == [times EXCEPT ![Len(times)] = Append(@, b)]

(* A bit that the slave is sent completes a word or goes to the one that it begins. *)
LEMMA WordsGrow ==
    ASSUME NEW times \in Seq(Seq({0, 1})), times # <<>>, NEW b \in {0, 1}
    PROVE  /\ Longer(times, b) \in Seq(Seq({0, 1})) /\ Longer(times, b) # <<>>
           /\ Last(Longer(times, b)) = Append(Last(times), b)
           /\ Last(times) \in Seq({0, 1})
           /\ Len(RestOfWord(Last(times))) + 1 < WordBits => WordsOf(Longer(times, b)) = WordsOf(times)
           /\ Len(RestOfWord(Last(times))) + 1 = WordBits =>
                 WordsOf(Longer(times, b)) = Append(WordsOf(times), Append(RestOfWord(Last(times)), b))
<1> DEFINE sent == Last(times)
<1>1. Append(times[Len(times)], b) \in Seq({0, 1})
  OBVIOUS
<1>2. PICK front \in Seq(Seq({0, 1})) :
         /\ times = Append(front, sent) /\ sent \in Seq({0, 1}) /\ sent = times[Len(times)]
         /\ Longer(times, b) = Append(front, Append(times[Len(times)], b))
  <2>1. Longer(times, b) = Replaced(times, Append(times[Len(times)], b))
    BY DEF Longer, Replaced
  <2>2. /\ FrontOf(times) \in Seq(Seq({0, 1})) /\ times = Append(FrontOf(times), Last(times))
        /\ Last(times) \in Seq({0, 1}) /\ Last(times) = times[Len(times)]
        /\ Replaced(times, Append(times[Len(times)], b)) = Append(FrontOf(times), Append(times[Len(times)], b))
    <3>1. times \in Seq(Seq({0, 1})) /\ times # <<>> /\ Append(times[Len(times)], b) \in Seq({0, 1})
      BY <1>1
    <3> QED BY <3>1, FrontAndLast, ZenonT(30)
  <2> QED BY <2>1, <2>2
<1>3. Append(sent, b) \in Seq({0, 1}) /\ Longer(times, b) = Append(front, Append(sent, b))
  BY <1>1, <1>2
<1> HIDE DEF sent
<1>4. Longer(times, b) \in Seq(Seq({0, 1})) /\ Longer(times, b) # <<>> /\ Last(Longer(times, b)) = Append(sent, b)
  <2>1. Len(Append(front, Append(sent, b))) = Len(front) + 1 /\ Len(front) \in Nat
        /\ Append(front, Append(sent, b))[Len(front) + 1] = Append(sent, b)
        /\ Append(front, Append(sent, b)) \in Seq(Seq({0, 1}))
    BY <1>2, <1>3
  <2> QED BY <1>3, <2>1 DEF Last
<1>7. WordsOf(times) = WordsOf(front) \o WholeWords(sent) /\ WordsOf(front) \in Seq(Seq({0, 1}))
  BY <1>2, WordsOfMore
<1>8. WordsOf(Longer(times, b)) = WordsOf(front) \o WholeWords(Append(sent, b))
  BY <1>2, <1>3, WordsOfMore
<1>9. Len(RestOfWord(sent)) + 1 < WordBits => WordsOf(Longer(times, b)) = WordsOf(times)
  BY <1>2, <1>7, <1>8, OneMoreSent
<1>10. Len(RestOfWord(sent)) + 1 = WordBits =>
          WordsOf(Longer(times, b)) = Append(WordsOf(times), Append(RestOfWord(sent), b))
  <2> SUFFICES ASSUME Len(RestOfWord(sent)) + 1 = WordBits
               PROVE  WordsOf(Longer(times, b)) = Append(WordsOf(times), Append(RestOfWord(sent), b))
    OBVIOUS
  <2> DEFINE word == Append(RestOfWord(sent), b)
  <2>1. WholeWords(Append(sent, b)) = Append(WholeWords(sent), word)
    BY <1>2, OneMoreSent
  <2>2. WholeWords(sent) \in Seq(Seq({0, 1})) /\ word \in Seq({0, 1})
    <3>1. RestOfWord(sent) \in Seq({0, 1})
      BY <1>2, OneMoreSent
    <3>2. WholeWords(sent) \in Seq(Seq({0, 1}))
      BY <1>2, WordsAreWords
    <3> QED BY <3>1, <3>2
  <2> HIDE DEF word
  <2>3. WordsOf(front) \o Append(WholeWords(sent), word) = Append(WordsOf(front) \o WholeWords(sent), word)
    <3>1. \A p, q \in Seq(Seq({0, 1})), x \in Seq({0, 1}) : p \o Append(q, x) = Append(p \o q, x)
      OBVIOUS
    <3>2. WordsOf(front) \in Seq(Seq({0, 1}))
      BY <1>7
    <3> QED BY <2>2, <3>1, <3>2, Zenon
  <2> QED BY <1>7, <1>8, <2>1, <2>3 DEF word
<1> QED BY <1>2, <1>4, <1>9, <1>10 DEF sent

LEMMA SpiDecodeStarts == SpiDecodeInit => SpiDecodeKept
<1> SUFFICES ASSUME SpiDecodeInit PROVE SpiDecodeKept
  OBVIOUS
<1>1. /\ spiMode \in [cpol : {0, 1}, cpha : {0, 1}, cs : BOOLEAN]
      /\ spiBus \in [cs : {0, 1}, clk : {0, 1}, data : {0, 1}] /\ spiBus.cs = 1
      /\ ~spiMode.cs => spiBus.clk = spiMode.cpol
  <2>1. spiMode \in [cpol : {0, 1}, cpha : {0, 1}, cs : BOOLEAN]
    BY DEF SpiDecodeInit
  <2>2. CASE spiMode.cs
    BY <2>1, <2>2 DEF SpiDecodeInit
  <2>3. CASE ~spiMode.cs
    BY <2>1, <2>3 DEF SpiDecodeInit
  <2> QED BY <2>1, <2>2, <2>3
<1>2. <<>> \in Seq(Seq({0, 1}))
  OBVIOUS
<1>3. WordsOf(<<>>) = <<>>
  <2>1. DOMAIN <<>> = 1 .. 0 /\ [s \in 1 .. 0 |-> WholeWords(<<>>[s])] = <<>> /\ Len(<<>>) = 0
    OBVIOUS
  <2> QED BY <2>1 DEF WordsOf, FlattenSeq
<1> QED BY <1>1, <1>2, <1>3 DEF SpiDecodeInit, SpiDecodeKept, Selected, AtIdle

(* At a sampling edge the decoder takes a bit while the slave is selected; at no *)
(* other does it.                                                                *)
LEMMA TakesBit ==
    ASSUME SpiDecodeKept, Selected, NEW now \in [cs : {0}, clk : {0, 1}, data : {0, 1}], ReadSample(now),
           now.data = spiBus.data, Sent(spiBus.data), UNCHANGED spiMode, spiBus' = now,
           IF SampleRising THEN spiBus.clk = 0 /\ now.clk = 1 ELSE spiBus.clk = 1 /\ now.clk = 0
    PROVE  SpiDecodeKept'
<1> DEFINE b == spiBus.data
           rest == RestOfWord(Last(spiSent))
<1>1. spiSent \in Seq(Seq({0, 1})) /\ spiSent # <<>> /\ wordAcc = rest /\ spiWords = WordsOf(spiSent) /\ b \in {0, 1}
      /\ spiBus.cs = 0
  BY DEF SpiDecodeKept, Selected
<1>2. spiSent' = Longer(spiSent, b)
  BY DEF Sent, Longer
<1>3. /\ spiSent' \in Seq(Seq({0, 1})) /\ spiSent' # <<>> /\ Last(spiSent') = Append(Last(spiSent), b)
      /\ Last(spiSent) \in Seq({0, 1})
      /\ Len(rest) + 1 < WordBits => WordsOf(spiSent') = WordsOf(spiSent)
      /\ Len(rest) + 1 = WordBits => WordsOf(spiSent') = Append(WordsOf(spiSent), Append(rest, b))
  BY <1>1, <1>2, WordsGrow
<1> HIDE DEF b, rest
<1>4. /\ Len(rest) \in 0 .. WordBits - 1 /\ WordBits \in Nat \ {0}
      /\ Len(rest) + 1 < WordBits => RestOfWord(Append(Last(spiSent), b)) = Append(rest, b)
      /\ Len(rest) + 1 = WordBits => RestOfWord(Append(Last(spiSent), b)) = <<>>
  <2>1. WordBits \in Nat \ {0}
    BY SpiDecodeAssumption DEF SpiDecodeAssumption
  <2>2. /\ Len(rest) \in 0 .. WordBits - 1
        /\ Len(rest) + 1 < WordBits => RestOfWord(Append(Last(spiSent), b)) = Append(rest, b)
        /\ Len(rest) + 1 = WordBits => RestOfWord(Append(Last(spiSent), b)) = <<>>
    BY <1>1, <1>3, OneMoreSent, ZenonT(30) DEF rest
  <2> QED BY <2>1, <2>2
<1>5. wordAcc' = RestOfWord(Last(spiSent')) /\ spiWords' = WordsOf(spiSent')
  <2>1. /\ now.cs = 0 /\ now.data = b
        /\ (spiBus.clk = 0 /\ now.clk = 1) \/ (spiBus.clk = 1 /\ now.clk = 0)
    BY DEF b
  <2>2. IF Len(rest) + 1 = WordBits
          THEN wordAcc' = <<>> /\ spiWords' = Append(spiWords, Append(rest, b))
        ELSE wordAcc' = Append(rest, b) /\ UNCHANGED spiWords
    BY <1>1, <2>1 DEF ReadSample
  <2>3. CASE Len(rest) + 1 = WordBits
    BY <1>1, <1>3, <1>4, <2>2, <2>3
  <2>4. CASE Len(rest) + 1 # WordBits
    <3>1. Len(rest) + 1 < WordBits
      BY <1>4, <2>4
    <3> QED BY <1>1, <1>3, <1>4, <2>2, <3>1
  <2> QED BY <2>3, <2>4
<1>6. spiMode' \in [cpol : {0, 1}, cpha : {0, 1}, cs : BOOLEAN] /\ spiBus' \in [cs : {0, 1}, clk : {0, 1}, data : {0, 1}]
      /\ spiBus'.cs = 0
  BY DEF SpiDecodeKept
<1> QED BY <1>3, <1>5, <1>6 DEF SpiDecodeKept, Selected

(* While the slave is selected, a sample without the edge to sample on takes no *)
(* bit.                                                                         *)
LEMMA TakesNone ==
    ASSUME SpiDecodeKept, Selected, NEW now \in [cs : {0}, clk : {0, 1}, data : {0, 1}], ReadSample(now),
           UNCHANGED <<spiSent, spiMode>>, spiBus' = now,
           ~(IF SampleRising THEN spiBus.clk = 0 /\ now.clk = 1 ELSE spiBus.clk = 1 /\ now.clk = 0)
    PROVE  SpiDecodeKept'
<1>1. spiBus.cs = 0 /\ now.cs = 0 /\ spiBus'.cs = 0 /\ spiBus' \in [cs : {0, 1}, clk : {0, 1}, data : {0, 1}]
  BY DEF SpiDecodeKept, Selected
<1>2. wordAcc' = wordAcc /\ spiWords' = spiWords
  BY <1>1 DEF ReadSample
<1> QED BY <1>1, <1>2 DEF SpiDecodeKept, Selected

(* CS falls: the decoder starts a word anew. *)
LEMMA SelectKeeps ==
    ASSUME SpiDecodeKept, Select
    PROVE  SpiDecodeKept'
<1>1. PICK b \in {0, 1} : Drive([cs |-> 0, clk |-> spiMode.cpol, data |-> b])
  BY DEF Select
<1> DEFINE now == [cs |-> 0, clk |-> spiMode.cpol, data |-> b]
<1>2. spiMode \in [cpol : {0, 1}, cpha : {0, 1}, cs : BOOLEAN] /\ spiMode' = spiMode /\ spiBus' = now /\ ReadSample(now)
  BY <1>1 DEF SpiDecodeKept, Drive
<1>3. spiBus.cs = 1 /\ wordAcc = <<>> /\ spiBus.clk = spiMode.cpol /\ spiWords = WordsOf(spiSent)
      /\ spiSent \in Seq(Seq({0, 1}))
  BY DEF Select, SpiDecodeKept, Selected, AtIdle
<1>4. now.clk = spiBus.clk /\ now.cs = 0
  BY <1>3
<1>5. now \in [cs : {0, 1}, clk : {0, 1}, data : {0, 1}]
  BY <1>2
<1> HIDE DEF now
<1>6. wordAcc' = <<>> /\ spiWords' = spiWords
  <2>1. ~(spiBus.clk = 0 /\ now.clk = 1) /\ ~(spiBus.clk = 1 /\ now.clk = 0)
    BY <1>4
  <2> QED BY <1>2, <1>3, <2>1 DEF ReadSample
<1>7. spiSent' = Append(spiSent, <<>>) /\ spiSent' \in Seq(Seq({0, 1})) /\ spiSent' # <<>> /\ Last(spiSent') = <<>>
  <2>1. <<>> \in Seq({0, 1})
    OBVIOUS
  <2>2. spiSent' = Append(spiSent, <<>>)
    BY DEF Select
  <2>3. \A s \in Seq(Seq({0, 1})) :
           /\ Append(s, <<>>) \in Seq(Seq({0, 1})) /\ Append(s, <<>>) # <<>>
           /\ Append(s, <<>>)[Len(Append(s, <<>>))] = <<>>
    BY <2>1
  <2> QED BY <1>3, <2>2, <2>3 DEF Last
<1>8. WordsOf(spiSent') = WordsOf(spiSent)
  <2>1. <<>> \in Seq({0, 1})
    OBVIOUS
  <2>2. WordsOf(spiSent') = WordsOf(spiSent) \o <<>> /\ WordsOf(spiSent) \in Seq(Seq({0, 1}))
    BY <1>3, <1>7, <2>1, WordsOfMore, NoWords
  <2> QED BY <2>2
<1>9. Selected'
  BY <1>2, <1>4 DEF Selected
<1> QED BY <1>2, <1>3, <1>5, <1>6, <1>7, <1>8, <1>9, NoWords DEF SpiDecodeKept

(* CS rises: an unfinished word is dropped. *)
LEMMA DeselectKeeps ==
    ASSUME SpiDecodeKept, Deselect
    PROVE  SpiDecodeKept'
<1> DEFINE now == [spiBus EXCEPT !.cs = 1]
<1>1. spiMode \in [cpol : {0, 1}, cpha : {0, 1}, cs : BOOLEAN] /\ spiMode' = spiMode /\ spiBus' = now
      /\ ReadSample(now) /\ spiSent' = spiSent
  BY DEF SpiDecodeKept, Deselect, Drive
<1>2. spiBus.cs = 0 /\ spiBus.clk = spiMode.cpol /\ spiSent # <<>> /\ wordAcc = RestOfWord(Last(spiSent))
      /\ spiBus \in [cs : {0, 1}, clk : {0, 1}, data : {0, 1}] /\ spiSent \in Seq(Seq({0, 1}))
  BY DEF Deselect, SpiDecodeKept, Selected, AtIdle
<1>3. now.cs = 1 /\ now.clk = spiBus.clk /\ now \in [cs : {0, 1}, clk : {0, 1}, data : {0, 1}]
  BY <1>2
<1> HIDE DEF now
<1>4. ~(spiBus.clk = 0 /\ now.clk = 1) /\ ~(spiBus.clk = 1 /\ now.clk = 0)
  BY <1>3
<1>5. wordAcc' = <<>> /\ spiWords' = spiWords
  <2>1. CASE spiMode.cs
    BY <1>1, <1>2, <1>3, <2>1 DEF ReadSample
  <2>2. CASE ~spiMode.cs
    <3>1. Last(spiSent) \in Seq({0, 1}) /\ Len(Last(spiSent)) % WordBits = 0
      BY <1>2, <2>2 DEF Deselect, Last
    <3>2. wordAcc = <<>>
      BY <1>2, <3>1, OneMoreSent
    <3> QED BY <1>1, <1>4, <2>2, <3>2 DEF ReadSample
  <2> QED BY <2>1, <2>2
<1>6. ~Selected' /\ AtIdle'
  BY <1>1, <1>2, <1>3 DEF Selected, AtIdle
<1> QED BY <1>1, <1>2, <1>3, <1>5, <1>6 DEF SpiDecodeKept

(* A sample in which the clock and the data change. *)
LEMMA BothMove ==
    ASSUME NEW r \in [cs : {0, 1}, clk : {0, 1}, data : {0, 1}], NEW x, NEW y
    PROVE  [r EXCEPT !.clk = x, !.data = y] = [cs |-> r.cs, clk |-> x, data |-> y]
<1>1. [r EXCEPT !.clk = x] = [cs |-> r.cs, clk |-> x, data |-> r.data]
  OBVIOUS
<1>2. [[cs |-> r.cs, clk |-> x, data |-> r.data] EXCEPT !.data = y] = [cs |-> r.cs, clk |-> x, data |-> y]
  OBVIOUS
<1>3. [[r EXCEPT !.clk = x] EXCEPT !.data = y] = [cs |-> r.cs, clk |-> x, data |-> y]
  BY <1>1, <1>2, Zenon
<1>4. [r EXCEPT !.clk = x, !.data = y] = [[r EXCEPT !.clk = x] EXCEPT !.data = y]
  OBVIOUS
<1> QED BY <1>3, <1>4, Zenon

(* The clock of another slave is not taken where CS is captured. *)
LEMMA OtherKeeps ==
    ASSUME SpiDecodeKept, OtherClock
    PROVE  SpiDecodeKept'
<1>1. PICK b \in {0, 1} : Drive([spiBus EXCEPT !.clk = 1 - spiBus.clk, !.data = b])
  BY DEF OtherClock
<1> DEFINE now == [spiBus EXCEPT !.clk = 1 - spiBus.clk, !.data = b]
<1>2. spiMode \in [cpol : {0, 1}, cpha : {0, 1}, cs : BOOLEAN] /\ spiMode' = spiMode /\ spiMode.cs
      /\ spiBus' = now /\ ReadSample(now) /\ spiSent' = spiSent
  BY <1>1 DEF SpiDecodeKept, OtherClock, Drive
<1>3. spiBus.cs = 1 /\ spiBus \in [cs : {0, 1}, clk : {0, 1}, data : {0, 1}] /\ wordAcc = <<>>
  BY DEF OtherClock, SpiDecodeKept, Selected
<1>4. now.cs = 1 /\ now \in [cs : {0, 1}, clk : {0, 1}, data : {0, 1}]
  <2>1. now = [cs |-> spiBus.cs, clk |-> 1 - spiBus.clk, data |-> b]
    BY <1>3, BothMove, Zenon
  <2>2. 1 - spiBus.clk \in {0, 1}
    BY <1>3
  <2> QED BY <1>3, <2>1, <2>2
<1> HIDE DEF now
<1>5. wordAcc' = <<>> /\ spiWords' = spiWords
  BY <1>2, <1>3, <1>4 DEF ReadSample
<1>6. ~Selected'
  BY <1>2, <1>4 DEF Selected
<1> QED BY <1>2, <1>4, <1>5, <1>6 DEF SpiDecodeKept

(* A bit is taken on one of the two edges of a cycle, the one the mode samples  *)
(* on.                                                                          *)
LEMMA EdgesKeep ==
    ASSUME SpiDecodeKept, LeadingEdge \/ TrailingEdge
    PROVE  SpiDecodeKept'
<1>1. /\ spiMode \in [cpol : {0, 1}, cpha : {0, 1}, cs : BOOLEAN] /\ spiBus.cs = 0
      /\ spiBus \in [cs : {0, 1}, clk : {0, 1}, data : {0, 1}] /\ Selected
  BY DEF SpiDecodeKept, Selected, LeadingEdge, TrailingEdge
<1> DEFINE edge == [spiBus EXCEPT !.clk = 1 - spiBus.clk]
<1>2. edge \in [cs : {0}, clk : {0, 1}, data : {0, 1}] /\ edge.data = spiBus.data /\ edge.clk = 1 - spiBus.clk
  BY <1>1
<1>3. CASE Drive(edge) /\ Sent(spiBus.data) /\ (SampleRising <=> spiBus.clk = 0)
  <2> HIDE DEF edge
  <2>1. ReadSample(edge) /\ spiBus' = edge /\ spiMode' = spiMode
    BY <1>3 DEF Drive
  <2>2. IF SampleRising THEN spiBus.clk = 0 /\ edge.clk = 1 ELSE spiBus.clk = 1 /\ edge.clk = 0
    BY <1>1, <1>2, <1>3
  <2> QED BY <1>1, <1>2, <1>3, <2>1, <2>2, TakesBit
<1>4. ASSUME NEW b \in {0, 1}, Drive([spiBus EXCEPT !.clk = 1 - spiBus.clk, !.data = b]), spiSent' = spiSent,
             ~(SampleRising <=> spiBus.clk = 0)
      PROVE  SpiDecodeKept'
  <2> DEFINE now == [spiBus EXCEPT !.clk = 1 - spiBus.clk, !.data = b]
  <2>1. now \in [cs : {0}, clk : {0, 1}, data : {0, 1}] /\ now.clk = 1 - spiBus.clk
    <3>1. now = [cs |-> spiBus.cs, clk |-> 1 - spiBus.clk, data |-> b]
      <4>1. spiBus \in [cs : {0, 1}, clk : {0, 1}, data : {0, 1}]
        BY <1>1
      <4> QED BY <4>1, BothMove, Zenon
    <3>2. 1 - spiBus.clk \in {0, 1}
      BY <1>1
    <3> QED BY <1>1, <3>1, <3>2
  <2> HIDE DEF now
  <2>2. ReadSample(now) /\ spiBus' = now /\ spiMode' = spiMode
    BY <1>4 DEF Drive, now
  <2>3. ~(IF SampleRising THEN spiBus.clk = 0 /\ now.clk = 1 ELSE spiBus.clk = 1 /\ now.clk = 0)
    BY <1>1, <1>4, <2>1
  <2> QED BY <1>1, <1>4, <2>1, <2>2, <2>3, TakesNone
<1>5. CASE LeadingEdge
  <2>1. 1 - spiMode.cpol = 1 - spiBus.clk /\ spiBus.clk = spiMode.cpol
    BY <1>5 DEF LeadingEdge, AtIdle
  <2>2. CASE spiMode.cpha = 0
    <3>1. Drive(edge) /\ Sent(spiBus.data)
      BY <1>5, <2>1, <2>2 DEF LeadingEdge
    <3>2. SampleRising <=> spiBus.clk = 0
      BY <1>1, <2>1, <2>2 DEF SampleRising
    <3> QED BY <1>3, <3>1, <3>2
  <2>3. CASE spiMode.cpha # 0
    <3>1. PICK b \in {0, 1} : Drive([spiBus EXCEPT !.clk = 1 - spiMode.cpol, !.data = b]) /\ spiSent' = spiSent
      BY <1>5, <2>3 DEF LeadingEdge
    <3>2. ~(SampleRising <=> spiBus.clk = 0)
      BY <1>1, <2>1, <2>3 DEF SampleRising
    <3> QED BY <1>4, <2>1, <3>1, <3>2
  <2> QED BY <2>2, <2>3
<1>6. CASE TrailingEdge
  <2>1. spiMode.cpol = 1 - spiBus.clk
    BY <1>1, <1>6 DEF TrailingEdge, AtIdle
  <2>2. CASE spiMode.cpha = 0
    <3>1. PICK b \in {0, 1} : Drive([spiBus EXCEPT !.clk = spiMode.cpol, !.data = b]) /\ spiSent' = spiSent
      BY <1>6, <2>2 DEF TrailingEdge
    <3>2. ~(SampleRising <=> spiBus.clk = 0)
      BY <1>1, <2>1, <2>2 DEF SampleRising
    <3> QED BY <1>4, <2>1, <3>1, <3>2
  <2>3. CASE spiMode.cpha # 0
    <3>1. Drive(edge) /\ Sent(spiBus.data)
      BY <1>6, <2>1, <2>3 DEF TrailingEdge
    <3>2. SampleRising <=> spiBus.clk = 0
      BY <1>1, <2>1, <2>3 DEF SampleRising
    <3> QED BY <1>3, <3>1, <3>2
  <2> QED BY <2>2, <2>3
<1> QED BY <1>5, <1>6

LEMMA SpiDecodeStep ==
    ASSUME SpiDecodeKept, [SpiDecodeNext]_spiDecodeVars
    PROVE  SpiDecodeKept'
<1>1. CASE UNCHANGED spiDecodeVars
  BY <1>1 DEF spiDecodeVars, SpiDecodeKept, Selected, AtIdle
<1> QED BY <1>1, SelectKeeps, DeselectKeeps, OtherKeeps, EdgesKeep DEF SpiDecodeNext

LEMMA SpiDecodeIsSafe == SpiDecodeKept => SpiDecodeInv
<1> SUFFICES ASSUME SpiDecodeKept PROVE SpiDecodeInv
  OBVIOUS
<1>1. Len(wordAcc) < WordBits
  <2>1. WordBits \in Nat \ {0}
    BY SpiDecodeAssumption DEF SpiDecodeAssumption
  <2>2. CASE Selected
    <3>1. spiSent \in Seq(Seq({0, 1})) /\ spiSent # <<>> /\ wordAcc = RestOfWord(Last(spiSent))
      BY <2>2 DEF SpiDecodeKept
    <3>2. Last(spiSent) \in Seq({0, 1})
      BY <3>1 DEF Last
    <3>3. Len(RestOfWord(Last(spiSent))) \in 0 .. WordBits - 1
      BY <3>2, OneMoreSent
    <3> QED BY <2>1, <3>1, <3>3
  <2>3. CASE ~Selected
    BY <2>1, <2>3 DEF SpiDecodeKept
  <2> QED BY <2>2, <2>3
<1> QED BY <1>1 DEF SpiDecodeKept, SpiDecodeInv, SpiDecodeTypeOK, WordsAsSent, WordsOf

(* In every mode, with words of any number of bits and however often the slave is    *)
(* selected, the words that come out are those that were sent to it, whole and in    *)
(* order: neither the clock of another slave nor a word left unfinished adds one.    *)
THEOREM SpiWordsAsSent == SpiDecodeSpec => []SpiDecodeInv
<1>1. SpiDecodeKept /\ [SpiDecodeNext]_spiDecodeVars => SpiDecodeKept'
  BY SpiDecodeStep
<1> QED BY <1>1, SpiDecodeStarts, SpiDecodeIsSafe, PTL DEF SpiDecodeSpec

-----------------------------------------------------------------------------
(* The captures (capture.py): any samples, cut into any chunks. *)

(* The changes e tell the words la from..to-1. *)
Told(e, la, from, to) ==
    /\ e \in Seq([at : Nat, word : {0, 1}])
    /\ \A i \in 1 .. Len(e) : e[i].at \in from .. to - 1 /\ e[i].word = la[e[i].at + 1]
    /\ \A i, k \in 1 .. Len(e) : i < k => e[i].at < e[k].at
    /\ \A j \in from .. to - 1 : j = 0 \/ la[j + 1] # la[j] => \E i \in 1 .. Len(e) : e[i].at = j

(* What two runs of changes tell, one behind the other, they tell together. *)
LEMMA ToldJoin ==
    ASSUME NEW la \in Seq({0, 1}), NEW a \in Nat, NEW b \in Nat, NEW c \in Nat, a <= b, b <= c,
           NEW d, NEW e, Told(d, la, a, b), Told(e, la, b, c)
    PROVE  Told(d \o e, la, a, c)
<1> DEFINE f == d \o e
           m == Len(d)
           n == Len(e)
<1>1. /\ d \in Seq([at : Nat, word : {0, 1}]) /\ e \in Seq([at : Nat, word : {0, 1}]) /\ m \in Nat /\ n \in Nat
      /\ f \in Seq([at : Nat, word : {0, 1}]) /\ Len(f) = m + n
      /\ \A i \in 1 .. m : f[i] = d[i]
      /\ \A i \in m + 1 .. m + n : f[i] = e[i - m]
  <2>1. d \in Seq([at : Nat, word : {0, 1}]) /\ e \in Seq([at : Nat, word : {0, 1}])
    BY DEF Told
  <2> QED BY <2>1
<1>2. /\ \A i \in 1 .. m : d[i].at \in a .. b - 1 /\ d[i].word = la[d[i].at + 1]
      /\ \A i, k \in 1 .. m : i < k => d[i].at < d[k].at
      /\ \A j \in a .. b - 1 : j = 0 \/ la[j + 1] # la[j] => \E i \in 1 .. m : d[i].at = j
  BY DEF Told
<1>3. /\ \A i \in 1 .. n : e[i].at \in b .. c - 1 /\ e[i].word = la[e[i].at + 1]
      /\ \A i, k \in 1 .. n : i < k => e[i].at < e[k].at
      /\ \A j \in b .. c - 1 : j = 0 \/ la[j + 1] # la[j] => \E i \in 1 .. n : e[i].at = j
  BY DEF Told
<1> HIDE DEF f, m, n
<1>4. ASSUME NEW i \in 1 .. m + n PROVE f[i].at \in a .. c - 1 /\ f[i].word = la[f[i].at + 1]
  <2>1. CASE i \in 1 .. m
    <3>1. f[i] = d[i] /\ d[i].at \in a .. b - 1 /\ d[i].word = la[d[i].at + 1]
      BY <1>1, <1>2, <2>1, Zenon
    <3>2. d[i].at \in a .. c - 1
      BY <3>1
    <3> QED BY <3>1, <3>2
  <2>2. CASE i \notin 1 .. m
    <3>1. i - m \in 1 .. n /\ i \in m + 1 .. m + n
      <4>1. m \in Nat /\ n \in Nat
        BY <1>1, Zenon
      <4> HIDE <1>1
      <4> QED BY <2>2, <4>1
    <3>2. f[i] = e[i - m] /\ e[i - m].at \in b .. c - 1 /\ e[i - m].word = la[e[i - m].at + 1]
      BY <1>1, <1>3, <3>1, Zenon
    <3>3. e[i - m].at \in a .. c - 1
      BY <3>2
    <3> QED BY <3>2, <3>3
  <2> QED BY <2>1, <2>2
<1>5. ASSUME NEW i \in 1 .. m + n, NEW k \in 1 .. m + n, i < k PROVE f[i].at < f[k].at
  <2>1. CASE k \in 1 .. m
    <3>1. i \in 1 .. m
      BY <1>1, <1>5, <2>1
    <3> QED BY <1>1, <1>2, <1>5, <2>1, <3>1
  <2>2. CASE i \notin 1 .. m
    <3>1. i - m \in 1 .. n /\ k - m \in 1 .. n /\ i - m < k - m /\ i \in m + 1 .. m + n /\ k \in m + 1 .. m + n
      BY <1>1, <1>5, <2>2
    <3> QED BY <1>1, <1>3, <3>1
  <2>3. CASE i \in 1 .. m /\ k \notin 1 .. m
    <3>1. k - m \in 1 .. n /\ k \in m + 1 .. m + n
      BY <1>1, <2>3
    <3>2. f[k].at \in b .. c - 1
      BY <1>1, <1>3, <3>1
    <3>3. f[i].at \in a .. b - 1
      BY <1>1, <1>2, <2>3
    <3> QED BY <3>2, <3>3
  <2> QED BY <2>1, <2>2, <2>3
<1>6. ASSUME NEW j \in a .. c - 1, j = 0 \/ la[j + 1] # la[j] PROVE \E i \in 1 .. m + n : f[i].at = j
  <2>1. CASE j \in a .. b - 1
    <3>1. PICK i \in 1 .. m : d[i].at = j
      BY <1>2, <1>6, <2>1
    <3>2. i \in 1 .. m + n /\ f[i].at = j
      <4>1. i \in 1 .. m + n
        BY <1>1
      <4>2. f[i] = d[i]
        BY <1>1, Zenon
      <4> QED BY <3>1, <4>1, <4>2
    <3> QED BY <3>2
  <2>2. CASE j \notin a .. b - 1
    <3>1. j \in b .. c - 1
      BY <2>2
    <3>2. PICK i \in 1 .. n : e[i].at = j
      BY <1>3, <1>6, <3>1
    <3>3. i + m \in 1 .. m + n /\ i + m \in m + 1 .. m + n /\ (i + m) - m = i
      BY <1>1
    <3>4. f[i + m].at = j
      BY <1>1, <3>2, <3>3
    <3> QED BY <3>3, <3>4
  <2> QED BY <2>1, <2>2
<1> QED BY <1>1, <1>4, <1>5, <1>6 DEF Told, f

(* No change tells of no words. *)
LEMMA ToldNone ==
    ASSUME NEW la \in Seq({0, 1}), NEW a \in Nat
    PROVE  Told(<<>>, la, a, a)
BY DEF Told

(* A change tells its own word; a word like the one before it needs none. *)
LEMMA ToldOne ==
    ASSUME NEW la \in Seq({0, 1}), NEW a \in Nat, a + 1 <= Len(la)
    PROVE  /\ Told(<<[at |-> a, word |-> la[a + 1]]>>, la, a, a + 1)
           /\ ~(a = 0 \/ la[a + 1] # la[a]) => Told(<<>>, la, a, a + 1)
<1> DEFINE x == [at |-> a, word |-> la[a + 1]]
<1>1. la[a + 1] \in {0, 1}
  BY DEF Told
<1>2. x \in [at : Nat, word : {0, 1}] /\ x.at = a /\ x.word = la[a + 1]
  BY <1>1
<1>3. a .. (a + 1) - 1 = {a}
  OBVIOUS
<1> HIDE DEF x
<1>4. Told(<<x>>, la, a, a + 1)
  <2>1. <<x>> \in Seq([at : Nat, word : {0, 1}]) /\ Len(<<x>>) = 1 /\ <<x>>[1] = x
    BY <1>2
  <2>2. \A i \in 1 .. 1 : i = 1
    OBVIOUS
  <2> QED BY <1>2, <1>3, <2>1, <2>2 DEF Told
<1>5. ~(a = 0 \/ la[a + 1] # la[a]) => Told(<<>>, la, a, a + 1)
  BY <1>3 DEF Told
<1> QED BY <1>4, <1>5 DEF x

IsRuns(f, la, from, to) ==
    f = [j \in from .. to |->
            IF j = from THEN <<>>
            ELSE IF j = 1 \/ la[j] # la[j - 1] THEN Append(f[j - 1], [at |-> j - 1, word |-> la[j]])
            ELSE f[j - 1]]

(* The partial lists of changes exist, by induction over the words. *)
LEMMA RunsFound ==
    ASSUME NEW la, NEW from \in Nat, NEW n \in Nat
    PROVE  \E f : IsRuns(f, la, from, from + n)
<1> DEFINE S == {k \in Nat : \E f : IsRuns(f, la, from, from + k)}
<1>1. 0 \in S
  <2> DEFINE f == [j \in from .. from |-> <<>>]
  <2>1. from + 0 = from
    OBVIOUS
  <2>2. IsRuns(f, la, from, from)
    <3>1. \A j \in from .. from : j = from
      OBVIOUS
    <3> QED BY <3>1 DEF IsRuns
  <2> QED BY <2>1, <2>2
<1>2. ASSUME NEW k \in Nat, k \in S PROVE k + 1 \in S
  <2>1. PICK f : IsRuns(f, la, from, from + k)
    BY <1>2
  <2> DEFINE t == from + k
             x == IF t + 1 = 1 \/ la[t + 1] # la[t] THEN Append(f[t], [at |-> t, word |-> la[t + 1]]) ELSE f[t]
             g == [j \in from .. t + 1 |-> IF j = t + 1 THEN x ELSE f[j]]
             Body(j, h) == IF j = from THEN <<>>
                           ELSE IF j = 1 \/ la[j] # la[j - 1]
                             THEN Append(h[j - 1], [at |-> j - 1, word |-> la[j]])
                           ELSE h[j - 1]
  <2>2. t \in Nat /\ from \in 0 .. t /\ from + (k + 1) = t + 1
    OBVIOUS
  <2>3. f = [j \in from .. t |-> Body(j, f)]
    BY <2>1, Zenon DEF IsRuns
  <2> HIDE DEF t
  <2>4. ASSUME NEW j \in from .. t + 1 PROVE g[j] = Body(j, g)
    <3>1. CASE j = t + 1
      <4>1. g[t] = f[t] /\ t \in from .. t + 1 /\ (t + 1) - 1 = t /\ t + 1 # from
        BY <2>2
      <4>2. g[j] = x
        BY <3>1
      <4> HIDE DEF g
      <4> QED BY <2>2, <3>1, <4>1, <4>2
    <3>2. CASE j # t + 1
      <4>1. j \in from .. t /\ (j # from => j - 1 \in from .. t /\ j - 1 # t + 1 /\ j - 1 \in from .. t + 1)
        BY <2>2, <3>2
      <4>2. g[j] = f[j] /\ (j # from => g[j - 1] = f[j - 1])
        BY <3>2, <4>1
      <4>3. f[j] = Body(j, f)
        <5> HIDE DEF Body
        <5> QED BY <2>3, <4>1
      <4>4. Body(j, f) = Body(j, g)
        <5> HIDE DEF g
        <5> QED BY <4>2
      <4> QED BY <4>2, <4>3, <4>4
    <3> QED BY <3>1, <3>2
  <2>5. g = [j \in from .. t + 1 |-> Body(j, g)]
    <3>1. g = [j \in from .. t + 1 |-> g[j]]
      OBVIOUS
    <3> HIDE DEF g, Body
    <3> QED BY <2>4, <3>1
  <2>6. IsRuns(g, la, from, t + 1)
    BY <2>5, Zenon DEF IsRuns
  <2> HIDE DEF g
  <2> QED BY <2>2, <2>6
<1>3. \A k \in Nat : k \in S
  <2> HIDE DEF S
  <2> QED BY <1>1, <1>2, NatInd
<1> QED BY <1>3

(* The list up to a word tells the words up to it, by induction over the words. *)
LEMMA RunsTell ==
    ASSUME NEW la \in Seq({0, 1}), NEW from \in Nat, NEW n \in Nat, from + n <= Len(la),
           NEW f, IsRuns(f, la, from, from + n)
    PROVE  Told(f[from + n], la, from, from + n)
<1> DEFINE S == {k \in Nat : k <= n => Told(f[from + k], la, from, from + k)}
<1>1. 0 \in S
  <2>1. from + 0 = from /\ from \in from .. from + n
    OBVIOUS
  <2>2. f[from] = <<>>
    BY <2>1 DEF IsRuns
  <2> QED BY <2>1, <2>2, ToldNone
<1>2. ASSUME NEW k \in Nat, k \in S PROVE k + 1 \in S
  <2> SUFFICES k + 1 <= n => Told(f[from + (k + 1)], la, from, from + (k + 1))
    OBVIOUS
  <2> HAVE k + 1 <= n
  <2> DEFINE t == from + k
  <2>1. Told(f[t], la, from, t)
    BY <1>2
  <2>2. t \in Nat /\ from <= t /\ t + 1 <= Len(la) /\ t + 1 \in from .. from + n /\ from + (k + 1) = t + 1
        /\ t + 1 # from /\ (t + 1) - 1 = t /\ (t + 1 = 1 <=> t = 0)
    OBVIOUS
  <2> HIDE DEF t
  <2>3. f[t + 1] = IF t = 0 \/ la[t + 1] # la[t] THEN Append(f[t], [at |-> t, word |-> la[t + 1]]) ELSE f[t]
    BY <2>2 DEF IsRuns
  <2>4. \A e : Told(e, la, t, t + 1) => Told(f[t] \o e, la, from, t + 1)
    <3> TAKE e
    <3> HAVE Told(e, la, t, t + 1)
    <3>1. t + 1 \in Nat /\ t <= t + 1
      BY <2>2
    <3> QED BY <2>1, <2>2, <3>1, ToldJoin
  <2>5. f[t] \in Seq([at : Nat, word : {0, 1}])
    BY <2>1 DEF Told
  <2>6. CASE t = 0 \/ la[t + 1] # la[t]
    <3> DEFINE x == [at |-> t, word |-> la[t + 1]]
    <3>1. Told(<<x>>, la, t, t + 1)
      BY <2>2, ToldOne
    <3>2. x \in [at : Nat, word : {0, 1}]
      BY <2>2
    <3>3. f[t + 1] = Append(f[t], x)
      BY <2>3, <2>6
    <3> HIDE DEF x
    <3>4. f[t] \o <<x>> = Append(f[t], x)
      BY <2>5, <3>2
    <3> QED BY <2>2, <2>4, <3>1, <3>3, <3>4
  <2>7. CASE ~(t = 0 \/ la[t + 1] # la[t])
    <3>1. Told(<<>>, la, t, t + 1)
      BY <2>2, <2>7, ToldOne
    <3>2. f[t + 1] = f[t] /\ f[t] \o <<>> = f[t]
      BY <2>3, <2>5, <2>7
    <3> QED BY <2>2, <2>4, <3>1, <3>2
  <2> QED BY <2>6, <2>7
<1>3. \A k \in Nat : k \in S
  <2> HIDE DEF S
  <2> QED BY <1>1, <1>2, NatInd
<1>4. n <= n
  OBVIOUS
<1> QED BY <1>3, <1>4

(* A chunk's changes tell the analyzer words of the chunk. *)
LEMMA ChangesTell ==
    ASSUME capture.la \in Seq({0, 1}), NEW from \in Nat, NEW to \in Nat, from <= to, to <= Len(capture.la)
    PROVE  Told(Changes(from, to), capture.la, from, to)
<1> DEFINE R(f) == f = [j \in from .. to |->
                          IF j = from THEN <<>>
                          ELSE IF j = 1 \/ capture.la[j] # capture.la[j - 1]
                            THEN Append(f[j - 1], [at |-> j - 1, word |-> capture.la[j]])
                          ELSE f[j - 1]]
           c == CHOOSE f : R(f)
<1>1. Changes(from, to) = c[to]
  BY Zenon DEF Changes
<1>2. PICK n \in Nat : to = from + n
  <2>1. to - from \in Nat /\ to = from + (to - from)
    OBVIOUS
  <2> QED BY <2>1
<1>3. IsRuns(c, capture.la, from, to)
  <2>1. PICK f : IsRuns(f, capture.la, from, to)
    BY <1>2, RunsFound
  <2>2. R(f)
    BY <2>1, Zenon DEF IsRuns
  <2>3. R(c)
    BY <2>2, Zenon
  <2> QED BY <2>3, Zenon DEF IsRuns
<1> HIDE DEF c
<1> QED BY <1>1, <1>2, <1>3, RunsTell

(* What is expanded from the changes of the first m words begins with them. *)
LEMMA ExpandIs ==
    ASSUME NEW la \in Seq({0, 1}), NEW m \in Nat, m # 0, m <= Len(la), NEW e, Told(e, la, 0, m),
           NEW n \in Nat, m <= n
    PROVE  /\ Len(Expand(e, n)) = n /\ e # <<>>
           /\ SubSeq(Expand(e, n), 1, m) = SubSeq(la, 1, m)
<1> DEFINE l == Len(e)
           earlier(j) == {i \in DOMAIN e : e[i].at < j}
           last(j) == CHOOSE i \in earlier(j) : \A k \in earlier(j) : k <= i
<1>1. /\ e \in Seq([at : Nat, word : {0, 1}]) /\ l \in Nat /\ DOMAIN e = 1 .. l
      /\ \A i \in 1 .. l : e[i].at \in 0 .. m - 1 /\ e[i].word = la[e[i].at + 1]
      /\ \A i, k \in 1 .. l : i < k => e[i].at < e[k].at
      /\ \A j \in 0 .. m - 1 : j = 0 \/ la[j + 1] # la[j] => \E i \in 1 .. l : e[i].at = j
  BY DEF Told
<1>2. PICK z \in 1 .. l : e[z].at = 0
  <2>1. 0 \in 0 .. m - 1
    OBVIOUS
  <2> QED BY <1>1, <2>1
<1>3. e # <<>>
  BY <1>1, <1>2
<1>4. Expand(e, n) = [j \in 1 .. n |-> IF earlier(j) = {} THEN e[1].word ELSE e[last(j)].word]
  BY <1>3, Zenon DEF Expand
<1>5. ASSUME NEW j \in 1 .. m
      PROVE  earlier(j) # {} /\ e[last(j)].word = la[j]
  <2>1. z \in earlier(j) /\ earlier(j) \subseteq 1 .. l
    BY <1>1, <1>2
  <2>2. PICK i \in earlier(j) : \A k \in earlier(j) : k <= i
    <3> DEFINE Below == {l - k : k \in earlier(j)}
    <3>1. Below \subseteq Nat /\ Below # {}
      <4>1. \A k \in earlier(j) : l - k \in Nat
        BY <1>1, <2>1
      <4> HIDE DEF earlier
      <4> QED BY <2>1, <4>1
    <3>2. PICK u \in Below : \A k \in Below : u <= k
      <4> HIDE DEF Below
      <4> QED BY <3>1, LeastOf
    <3>3. PICK i \in earlier(j) : u = l - i
      BY <3>2
    <3>4. \A k \in earlier(j) : u <= l - k
      BY <3>2
    <3>5. \A k \in earlier(j) : k \in 1 .. l
      BY <2>1
    <3> HIDE DEF earlier, l
    <3>6. \A k \in earlier(j) : k <= i
      BY <1>1, <3>3, <3>4, <3>5
    <3> QED BY <3>6
  <2>3. last(j) = i
    <3>1. last(j) \in earlier(j) /\ \A k \in earlier(j) : k <= last(j)
      <4> HIDE DEF earlier
      <4> QED BY <2>2, Zenon
    <3>2. \A k \in earlier(j) : k \in Nat
      BY <2>1
    <3> HIDE DEF earlier, last
    <3> QED BY <2>2, <3>1, <3>2
  <2>4. i \in 1 .. l /\ e[i].at < j
    BY <2>1, <2>2
  <2> DEFINE at == e[i].at
  <2>5. at \in 0 .. m - 1 /\ at < j /\ e[i].word = la[at + 1]
    BY <1>1, <2>4
  <2>6. la[at + 1] = la[j]
    <3> DEFINE Other == {k \in at + 2 .. j : la[k] # la[at + 1]}
    <3> SUFFICES ASSUME la[at + 1] # la[j] PROVE FALSE
      OBVIOUS
    <3> HIDE DEF at
    <3>1. j \in Other
      BY <2>5
    <3>2. Other \subseteq Nat
      BY <2>5
    <3>3. PICK k \in Other : \A o \in Other : k <= o
      <4> HIDE DEF Other
      <4> QED BY <3>1, <3>2, LeastOf
    <3>4. k \in at + 2 .. j /\ la[k] # la[at + 1]
      BY <3>3
    <3>5. la[k - 1] = la[at + 1]
      <4>1. CASE k = at + 2
        BY <2>5, <4>1
      <4>2. CASE k # at + 2
        <5>1. k - 1 \in at + 2 .. j /\ ~(k <= k - 1)
          BY <2>5, <3>4, <4>2
        <5> QED BY <3>3, <5>1
      <4> QED BY <4>1, <4>2
    <3>6. k - 1 \in 0 .. m - 1 /\ (k - 1) + 1 = k /\ k - 1 < j /\ at < k - 1
      BY <2>5, <3>4
    <3>7. PICK o \in 1 .. l : e[o].at = k - 1
      BY <1>1, <3>4, <3>5, <3>6
    <3>8. o \in earlier(j)
      BY <1>1, <3>6, <3>7
    <3>9. o <= i
      BY <2>2, <3>8
    <3>10. CASE o = i
      BY <2>5, <3>6, <3>7, <3>10 DEF at
    <3>11. CASE o # i
      <4>1. o < i
        BY <1>1, <2>4, <3>9, <3>11
      <4>2. e[o].at < e[i].at
        BY <1>1, <2>4, <4>1
      <4>3. e[o].at = k - 1 /\ e[i].at = at
        BY <3>7 DEF at
      <4>4. at \in Nat /\ k \in Nat /\ at < k - 1
        BY <2>5, <3>6
      <4> HIDE DEF at
      <4> QED BY <4>2, <4>3, <4>4
    <3> QED BY <3>10, <3>11
  <2> HIDE DEF earlier, last, at
  <2> QED BY <2>1, <2>3, <2>5, <2>6
<1>6. Len(Expand(e, n)) = n
  <2> HIDE DEF earlier, last
  <2> QED BY <1>4
<1>7. SubSeq(Expand(e, n), 1, m) = [j \in 1 .. m |-> Expand(e, n)[j]]
  OBVIOUS
<1>8. SubSeq(la, 1, m) = [j \in 1 .. m |-> la[j]]
  OBVIOUS
<1>9. \A j \in 1 .. m : Expand(e, n)[j] = la[j]
  <2>1. \A j \in 1 .. m : j \in 1 .. n
    OBVIOUS
  <2> HIDE DEF earlier, last
  <2> QED BY <1>4, <1>5, <2>1
<1> QED BY <1>3, <1>6, <1>7, <1>8, <1>9

-----------------------------------------------------------------------------
IsSum(f, seq) == f = [k \in 0 .. Len(seq) |-> IF k = 0 THEN 0 ELSE f[k - 1] + seq[k]]
Sums(seq) == CHOOSE f : IsSum(f, seq)

(* The partial sums of a sequence exist, and Total is the last of them. *)
LEMMA SumFound ==
    ASSUME NEW seq \in Seq(Int)
    PROVE  IsSum(Sums(seq), seq) /\ Total(seq) = Sums(seq)[Len(seq)]
<1> DEFINE Upto(f, n) == f = [k \in 0 .. n |-> IF k = 0 THEN 0 ELSE f[k - 1] + seq[k]]
           S == {n \in Nat : \E f : Upto(f, n)}
<1>1. 0 \in S
  <2> DEFINE f == [k \in 0 .. 0 |-> 0]
  <2>1. Upto(f, 0)
    <3>1. \A k \in 0 .. 0 : k = 0
      OBVIOUS
    <3> QED BY <3>1
  <2> HIDE DEF f
  <2> QED BY <2>1
<1>2. ASSUME NEW n \in Nat, n \in S PROVE n + 1 \in S
  <2>1. PICK f : Upto(f, n)
    BY <1>2
  <2> DEFINE x == f[n] + seq[n + 1]
             g == [k \in 0 .. n + 1 |-> IF k = n + 1 THEN x ELSE f[k]]
  <2>2. ASSUME NEW k \in 0 .. n + 1 PROVE g[k] = IF k = 0 THEN 0 ELSE g[k - 1] + seq[k]
    <3>1. CASE k = n + 1
      <4>1. g[n] = f[n] /\ k - 1 = n /\ k # 0
        BY <3>1
      <4>2. g[k] = x
        BY <3>1
      <4> HIDE DEF g
      <4> QED BY <3>1, <4>1, <4>2
    <3>2. CASE k # n + 1
      <4>1. k \in 0 .. n /\ (k # 0 => k - 1 \in 0 .. n /\ k - 1 # n + 1 /\ k - 1 \in 0 .. n + 1)
        BY <3>2
      <4>2. g[k] = f[k] /\ (k # 0 => g[k - 1] = f[k - 1])
        BY <3>2, <4>1
      <4>3. f[k] = IF k = 0 THEN 0 ELSE f[k - 1] + seq[k]
        BY <2>1, <4>1
      <4> HIDE DEF g
      <4> QED BY <4>2, <4>3
    <3> QED BY <3>1, <3>2
  <2>3. Upto(g, n + 1)
    <3>1. g = [k \in 0 .. n + 1 |-> g[k]]
      OBVIOUS
    <3> HIDE DEF g
    <3> QED BY <2>2, <3>1
  <2> HIDE DEF Upto
  <2> QED BY <2>3
<1>3. \A n \in Nat : n \in S
  <2> HIDE DEF S
  <2> QED BY <1>1, <1>2, NatInd
<1>4. Len(seq) \in S
  <2>1. Len(seq) \in Nat
    OBVIOUS
  <2> HIDE DEF S
  <2> QED BY <1>3, <2>1
<1>5. IsSum(Sums(seq), seq)
  <2>1. PICK f : Upto(f, Len(seq))
    BY <1>4
  <2>2. IsSum(f, seq)
    BY <2>1, Zenon DEF IsSum
  <2> QED BY <2>2, Zenon DEF Sums
<1>6. Total(seq) = Sums(seq)[Len(seq)]
  BY Zenon DEF Total, Sums, IsSum
<1> QED BY <1>5, <1>6

(* A sum of n numbers lies between n times a lower and n times an upper bound   *)
(* of them.                                                                     *)
LEMMA TotalWithin ==
    ASSUME NEW seq \in Seq(Int), NEW lo \in Int, NEW hi \in Int, \A k \in 1 .. Len(seq) : lo <= seq[k] /\ seq[k] <= hi
    PROVE  /\ Total(seq) \in Int
           /\ Len(seq) * lo <= Total(seq) /\ Total(seq) <= Len(seq) * hi
<1> DEFINE f == Sums(seq)
           l == Len(seq)
           S == {n \in Nat : n <= l => f[n] \in Int /\ n * lo <= f[n] /\ f[n] <= n * hi}
<1>1. l \in Nat /\ f = [k \in 0 .. l |-> IF k = 0 THEN 0 ELSE f[k - 1] + seq[k]] /\ Total(seq) = f[l]
  BY SumFound DEF IsSum
<1> HIDE DEF f, l
<1>2. 0 \in S
  <2>1. 0 \in 0 .. l /\ f[0] = 0
    BY <1>1
  <2>2. 0 * lo = 0 /\ 0 * hi = 0
    OBVIOUS
  <2> QED BY <2>1, <2>2
<1>3. ASSUME NEW n \in Nat, n \in S PROVE n + 1 \in S
  <2> SUFFICES n + 1 <= l => f[n + 1] \in Int /\ (n + 1) * lo <= f[n + 1] /\ f[n + 1] <= (n + 1) * hi
    OBVIOUS
  <2> HAVE n + 1 <= l
  <2>1. f[n] \in Int /\ n * lo <= f[n] /\ f[n] <= n * hi
    BY <1>1, <1>3
  <2>2. n + 1 \in 0 .. l /\ n + 1 \in 1 .. l /\ n + 1 # 0 /\ (n + 1) - 1 = n
    BY <1>1
  <2>3. f[n + 1] = f[n] + seq[n + 1]
    BY <1>1, <2>2
  <2>4. seq[n + 1] \in Int /\ lo <= seq[n + 1] /\ seq[n + 1] <= hi
    BY <2>2 DEF l
  <2>5. (n + 1) * lo = n * lo + lo /\ (n + 1) * hi = n * hi + hi /\ n * lo \in Int /\ n * hi \in Int
    BY SMT
  <2> QED BY <2>1, <2>3, <2>4, <2>5
<1>4. \A n \in Nat : n \in S
  <2> HIDE DEF S
  <2> QED BY <1>2, <1>3, NatInd
<1>5. f[l] \in Int /\ l * lo <= f[l] /\ f[l] <= l * hi
  <2>1. l \in S
    <3> HIDE DEF S
    <3> QED BY <1>1, <1>4
  <2> QED BY <1>1, <2>1
<1> QED BY <1>1, <1>5 DEF l

(* Numbers that are all shifted by c have a sum that is n times c off. *)
LEMMA TotalShifted ==
    ASSUME NEW seq \in Seq(Int), NEW other \in Seq(Int), NEW c \in Int, Len(other) = Len(seq),
           \A k \in 1 .. Len(seq) : other[k] = seq[k] + c
    PROVE  Total(other) = Total(seq) + Len(seq) * c
<1> DEFINE f == Sums(seq)
           g == Sums(other)
           l == Len(seq)
           S == {n \in Nat : n <= l => f[n] \in Int /\ g[n] = f[n] + n * c}
<1>1. l \in Nat /\ f = [k \in 0 .. l |-> IF k = 0 THEN 0 ELSE f[k - 1] + seq[k]] /\ Total(seq) = f[l]
  <2>1. IsSum(f, seq) /\ Total(seq) = f[l]
    BY SumFound
  <2>2. l \in Nat
    OBVIOUS
  <2> HIDE DEF f
  <2> QED BY <2>1, <2>2 DEF IsSum
<1>2. g = [k \in 0 .. l |-> IF k = 0 THEN 0 ELSE g[k - 1] + other[k]] /\ Total(other) = g[l]
  <2>1. IsSum(g, other) /\ Total(other) = g[Len(other)]
    BY SumFound
  <2> HIDE DEF g
  <2> QED BY <2>1 DEF IsSum
<1> HIDE DEF f, g, l
<1>3. 0 \in S
  <2>1. 0 \in 0 .. l /\ f[0] = 0 /\ g[0] = 0
    BY <1>1, <1>2
  <2>2. 0 * c = 0
    OBVIOUS
  <2> QED BY <2>1, <2>2
<1>4. ASSUME NEW n \in Nat, n \in S PROVE n + 1 \in S
  <2> SUFFICES n + 1 <= l => f[n + 1] \in Int /\ g[n + 1] = f[n + 1] + (n + 1) * c
    OBVIOUS
  <2> HAVE n + 1 <= l
  <2>1. f[n] \in Int /\ g[n] = f[n] + n * c
    BY <1>1, <1>4
  <2>2. n + 1 \in 0 .. l /\ n + 1 \in 1 .. l /\ n + 1 # 0 /\ (n + 1) - 1 = n
    BY <1>1
  <2>3. f[n + 1] = f[n] + seq[n + 1] /\ g[n + 1] = g[n] + other[n + 1]
    BY <1>1, <1>2, <2>2
  <2>4. seq[n + 1] \in Int /\ other[n + 1] = seq[n + 1] + c
    BY <2>2 DEF l
  <2>5. (n + 1) * c = n * c + c /\ n * c \in Int
    BY SMT
  <2> DEFINE nc == n * c
             more == (n + 1) * c
  <2>6. f[n] \in Int /\ g[n] = f[n] + nc /\ nc \in Int /\ more = nc + c
    BY <2>1, <2>5
  <2> HIDE DEF nc, more
  <2>7. f[n + 1] \in Int /\ g[n + 1] = f[n + 1] + more
    BY <2>3, <2>4, <2>6, SMTT(30)
  <2> QED BY <2>7 DEF more
<1>5. \A n \in Nat : n \in S
  <2> HIDE DEF S
  <2> QED BY <1>3, <1>4, NatInd
<1>6. g[l] = f[l] + l * c
  <2>1. l \in S
    <3> HIDE DEF S
    <3> QED BY <1>1, <1>5
  <2> QED BY <1>1, <2>1
<1> QED BY <1>1, <1>2, <1>6 DEF l

(* The code that an average is given is the nearest to it. *)
LEMMA NearestCode ==
    ASSUME NEW f \in Nat \ {0}, NEW s \in Nat \ {0}, NEW h \in Nat, s = 2 * h,
           NEW m \in Int, f * (-h) <= m, m <= f * (h - 1)
    PROVE  LET code == ((2 * m + f) \div (2 * f)) % s
               signed == IF code >= h THEN code - s ELSE code
               away == f * signed - m
           IN  -f < 2 * away /\ 2 * away <= f
<1> DEFINE a == 2 * m + f
           w == 2 * f
           q == a \div w
           r == a % w
           code == q % s
           signed == IF code >= h THEN code - s ELSE code
<1>1. w \in Nat \ {0} /\ a \in Int
  OBVIOUS
<1>2. q \in Int /\ r \in 0 .. w - 1 /\ a = w * q + r
  <2> HIDE DEF a, w
  <2> QED BY <1>1, SMT
<1>3. w * q = 2 * (f * q) /\ f * q \in Int /\ f * h \in Int /\ f * (-h) = -(f * h) /\ f * (h - 1) = f * h - f
  <2>1. q \in Int
    BY <1>2
  <2> HIDE DEF q
  <2> QED BY <2>1, SMT
<1> DEFINE fq == f * q
           fh == f * h
<1>4. fq \in Int /\ fh \in Int /\ -fh <= m /\ m <= fh - f /\ 2 * m + f = 2 * fq + r /\ r >= 0 /\ r < 2 * f
  BY <1>2, <1>3
<1>5. -f < 2 * (fq - m) /\ 2 * (fq - m) <= f
  <2> HIDE DEF fq, fh, r
  <2>1. r \in Int
    BY <1>2 DEF r
  <2> QED BY <1>4, <2>1
<1>6. -h <= q /\ q < h
  <2>1. q \in Int
    BY <1>2
  <2>2. ASSUME q >= h PROVE FALSE
    <3>1. (q - h) * f \in Nat /\ (q - h) * f = fq - fh
      <4>1. q - h \in Nat
        BY <2>1, <2>2
      <4> HIDE DEF q
      <4> QED BY <2>1, <4>1, SMT DEF fq, fh
    <3> HIDE DEF fq, fh
    <3> QED BY <1>4, <1>5, <3>1
  <2>3. ASSUME q < -h PROVE FALSE
    <3>1. (-h - q - 1) * f \in Nat /\ (-h - q - 1) * f = -fh - fq - f
      <4>1. -h - q - 1 \in Nat
        BY <2>1, <2>3
      <4> HIDE DEF q
      <4> QED BY <2>1, <4>1, SMT DEF fq, fh
    <3> HIDE DEF fq, fh
    <3> QED BY <1>4, <1>5, <3>1
  <2> HIDE DEF q
  <2> QED BY <2>1, <2>2, <2>3
<1>7. signed = q
  <2>1. q \in Int
    BY <1>2
  <2> HIDE DEF q
  <2>2. CASE q >= 0
    <3>1. code = q
      BY <1>6, <2>1, <2>2, SMT
    <3> HIDE DEF code
    <3> QED BY <1>6, <2>1, <3>1
  <2>3. CASE q < 0
    <3>1. code = q + s
      <4>1. q + s \in 0 .. s - 1
        BY <1>6, <2>1, <2>3
      <4> QED BY <1>6, <2>1, <4>1, SMT
    <3> HIDE DEF code
    <3> QED BY <1>6, <2>1, <2>3, <3>1
  <2> QED BY <2>1, <2>2, <2>3
<1> HIDE DEF q, signed
<1> QED BY <1>5, <1>7 DEF signed, q

-----------------------------------------------------------------------------
LessOf(i, j) == IF i < j THEN i ELSE j

(* A part of a sequence: its length and its elements. *)
LEMMA PartOf ==
    ASSUME NEW T, NEW s \in Seq(T), NEW m \in Nat, NEW n \in Nat, m <= n, n <= Len(s)
    PROVE  /\ SubSeq(s, m + 1, n) \in Seq(T) /\ Len(SubSeq(s, m + 1, n)) = n - m
           /\ \A i \in 1 .. n - m : SubSeq(s, m + 1, n)[i] = s[m + i]
<1>1. SubSeq(s, m + 1, n) \in Seq(T) /\ Len(SubSeq(s, m + 1, n)) = n - m
  OBVIOUS
<1>2. \A i \in 1 .. n - m : SubSeq(s, m + 1, n)[i] = s[m + i]
  OBVIOUS
<1> QED BY <1>1, <1>2

(* Sequences of one length with the same elements are the same. *)
LEMMA SameSequence ==
    ASSUME NEW T, NEW s \in Seq(T), NEW t \in Seq(T), Len(s) = Len(t), \A i \in 1 .. Len(s) : s[i] = t[i]
    PROVE  s = t
<1>1. s = [i \in 1 .. Len(s) |-> s[i]] /\ t = [i \in 1 .. Len(t) |-> t[i]]
  OBVIOUS
<1> QED BY <1>1

LEMMA JoinedIs ==
    ASSUME NEW T, NEW u \in Seq(T), NEW v \in Seq(T)
    PROVE  /\ u \o v \in Seq(T) /\ Len(u \o v) = Len(u) + Len(v)
           /\ \A i \in 1 .. Len(u) + Len(v) : (u \o v)[i] = IF i <= Len(u) THEN u[i] ELSE v[i - Len(u)]
  OBVIOUS

(* A beginning of a sequence and what follows it is a longer beginning. *)
LEMMA PrefixGrows ==
    ASSUME NEW T, NEW s \in Seq(T), NEW m \in Nat, NEW n \in Nat, m <= n, n <= Len(s)
    PROVE  SubSeq(s, 1, m) \o SubSeq(s, m + 1, n) = SubSeq(s, 1, n)
<1> DEFINE u == SubSeq(s, 1, m)
           v == SubSeq(s, m + 1, n)
           w == SubSeq(s, 1, n)
<1>1. Len(s) \in Nat /\ m <= Len(s)
  OBVIOUS
<1>2. u \in Seq(T) /\ Len(u) = m /\ \A i \in 1 .. m : u[i] = s[i]
  <2>1. SubSeq(s, 0 + 1, m) \in Seq(T) /\ Len(SubSeq(s, 0 + 1, m)) = m - 0
        /\ \A i \in 1 .. m - 0 : SubSeq(s, 0 + 1, m)[i] = s[0 + i]
    BY <1>1, PartOf
  <2>2. 0 + 1 = 1 /\ m - 0 = m /\ \A i \in 1 .. m : 0 + i = i
    OBVIOUS
  <2> QED BY <2>1, <2>2
<1>3. v \in Seq(T) /\ Len(v) = n - m /\ \A i \in 1 .. n - m : v[i] = s[m + i]
  BY PartOf
<1>4. w \in Seq(T) /\ Len(w) = n /\ \A i \in 1 .. n : w[i] = s[i]
  <2>1. SubSeq(s, 0 + 1, n) \in Seq(T) /\ Len(SubSeq(s, 0 + 1, n)) = n - 0
        /\ \A i \in 1 .. n - 0 : SubSeq(s, 0 + 1, n)[i] = s[0 + i]
    BY <1>1, PartOf
  <2>2. 0 + 1 = 1 /\ n - 0 = n /\ \A i \in 1 .. n : 0 + i = i
    OBVIOUS
  <2> QED BY <2>1, <2>2
<1> HIDE DEF u, v, w
<1>5. u \o v \in Seq(T) /\ Len(u \o v) = n
      /\ \A i \in 1 .. n : (u \o v)[i] = IF i <= m THEN u[i] ELSE v[i - m]
  <2>1. m + (n - m) = n
    OBVIOUS
  <2>2. u \o v \in Seq(T) /\ Len(u \o v) = m + (n - m)
        /\ \A i \in 1 .. m + (n - m) : (u \o v)[i] = IF i <= m THEN u[i] ELSE v[i - m]
    <3>1. u \o v \in Seq(T) /\ Len(u \o v) = Len(u) + Len(v)
          /\ \A i \in 1 .. Len(u) + Len(v) : (u \o v)[i] = IF i <= Len(u) THEN u[i] ELSE v[i - Len(u)]
      BY <1>2, <1>3, JoinedIs, Zenon
    <3>2. Len(u) = m /\ Len(v) = n - m
      BY <1>2, <1>3, Zenon
    <3> QED BY <3>1, <3>2, Zenon
  <2> QED BY <2>1, <2>2
<1>6. \A i \in 1 .. n : (u \o v)[i] = w[i]
  <2> SUFFICES ASSUME NEW i \in 1 .. n PROVE (u \o v)[i] = w[i]
    OBVIOUS
  <2>1. CASE i <= m
    BY <1>2, <1>4, <1>5, <2>1
  <2>2. CASE ~(i <= m)
    <3>1. i - m \in 1 .. n - m /\ m + (i - m) = i
      BY <2>2
    <3> QED BY <1>3, <1>4, <1>5, <2>2, <3>1
  <2> QED BY <2>1, <2>2
<1> HIDE DEF u, v, w
<1>7. \A p, q \in Seq(T) : Len(p) = Len(q) /\ (\A i \in 1 .. Len(p) : p[i] = q[i]) => p = q
  BY SameSequence
<1>8. u \o v = w
  BY <1>4, <1>5, <1>6, <1>7
<1> QED BY <1>8 DEF u, v, w

(* n more of a stream of a and then b, of which d have come: how many belong to a,  *)
(* which are the next of a, and which the next of b.                                *)
More(a, d, n) == LessOf(n, Len(a) - LessOf(d, Len(a)))
(* Of a chunk of the stream, what is not beyond the samples asked for follows   *)
(* what came before.                                                            *)
LEMMA CutStream ==
    ASSUME NEW T, NEW a \in Seq(T), NEW b \in Seq(T), NEW d \in Nat, NEW n \in Nat, d + n <= Len(a) + Len(b)
    PROVE  /\ SubSeq(a, 1, LessOf(d, Len(a))) \o SubSeq(SubSeq(a \o b, d + 1, d + n), 1, More(a, d, n))
                = SubSeq(a, 1, LessOf(d + n, Len(a)))
           /\ SubSeq(b, 1, d - LessOf(d, Len(a))) \o SubSeq(SubSeq(a \o b, d + 1, d + n), More(a, d, n) + 1, n)
                = SubSeq(b, 1, (d + n) - LessOf(d + n, Len(a)))
           /\ Len(SubSeq(a, 1, LessOf(d, Len(a)))) = LessOf(d, Len(a))
<1> DEFINE N == Len(a)
           M == Len(b)
           c == LessOf(d, N)
           e == LessOf(d + n, N)
           take == More(a, d, n)
           data == SubSeq(a \o b, d + 1, d + n)
<1>1. N \in Nat /\ M \in Nat /\ d + n <= N + M
  OBVIOUS
<1>2. a \o b \in Seq(T) /\ Len(a \o b) = N + M
      /\ \A i \in 1 .. N + M : (a \o b)[i] = IF i <= N THEN a[i] ELSE b[i - N]
  OBVIOUS
<1>3. c \in Nat /\ e \in Nat /\ take \in 0 .. n /\ c <= d /\ c <= N /\ c + take = e /\ e <= N /\ e <= d + n
      /\ d - c <= M /\ (d + n) - e <= M /\ (d - c) + (n - take) = (d + n) - e
      /\ (take # 0 => c = d) /\ (take # n => e = N) /\ (d # c => c = N)
  <2>1. take = LessOf(n, N - c)
    BY DEF More
  <2> HIDE DEF N, M, take
  <2> QED BY <1>1, <2>1 DEF LessOf
<1>4. data \in Seq(T) /\ Len(data) = n
      /\ \A i \in 1 .. n :
            (d + i <= N => data[i] = a[d + i]) /\ (~(d + i <= N) => data[i] = b[(d + i) - N])
  <2>1. d + n \in Nat /\ d <= d + n /\ d + n <= Len(a \o b) /\ (d + n) - d = n
    BY <1>1, <1>2
  <2>2. data \in Seq(T) /\ Len(data) = (d + n) - d /\ \A i \in 1 .. (d + n) - d : data[i] = (a \o b)[d + i]
    <3> DEFINE s == a \o b
               to == d + n
    <3>1. s \in Seq(T) /\ d <= to /\ to <= Len(s) /\ to \in Nat
      BY <1>2, <2>1
    <3> HIDE DEF s, to
    <3>2. SubSeq(s, d + 1, to) \in Seq(T) /\ Len(SubSeq(s, d + 1, to)) = to - d
           /\ \A i \in 1 .. to - d : SubSeq(s, d + 1, to)[i] = s[d + i]
      BY <3>1, PartOf
    <3> QED BY <3>2, Zenon DEF s, to, data
  <2>3. \A i \in 1 .. n : d + i \in 1 .. N + M
    BY <1>1
  <2> HIDE DEF data, N, M
  <2>4. data \in Seq(T) /\ Len(data) = n /\ \A i \in 1 .. n : data[i] = (a \o b)[d + i]
    BY <2>1, <2>2
  <2>5. \A i \in 1 .. n :
            (d + i <= N => (a \o b)[d + i] = a[d + i]) /\ (~(d + i <= N) => (a \o b)[d + i] = b[(d + i) - N])
    <3> SUFFICES ASSUME NEW i \in 1 .. n
                 PROVE  (d + i <= N => (a \o b)[d + i] = a[d + i]) /\ (~(d + i <= N) => (a \o b)[d + i] = b[(d + i) - N])
      OBVIOUS
    <3>1. d + i \in 1 .. N + M
      BY <2>3
    <3> DEFINE j == d + i
    <3>2. j \in 1 .. N + M
      BY <3>1
    <3> HIDE DEF j
    <3>3. (j <= N => (a \o b)[j] = a[j]) /\ (~(j <= N) => (a \o b)[j] = b[j - N])
      BY <1>2, <3>2
    <3> QED BY <3>3, Zenon DEF j
  <2> QED BY <2>4, <2>5
<1> HIDE DEF N, M, c, e, take, data
<1>5. SubSeq(data, 1, take) = SubSeq(a, c + 1, e)
  <2>1. SubSeq(data, 0 + 1, take) \in Seq(T) /\ Len(SubSeq(data, 0 + 1, take)) = take - 0
        /\ \A i \in 1 .. take - 0 : SubSeq(data, 0 + 1, take)[i] = data[0 + i]
    <3>1. 0 \in Nat /\ take \in Nat /\ 0 <= take /\ take <= Len(data)
      BY <1>3, <1>4
    <3> QED BY <1>4, <3>1, PartOf
  <2>2. SubSeq(a, c + 1, e) \in Seq(T) /\ Len(SubSeq(a, c + 1, e)) = e - c
        /\ \A i \in 1 .. e - c : SubSeq(a, c + 1, e)[i] = a[c + i]
    <3>1. c \in Nat /\ e \in Nat /\ c <= e /\ e <= Len(a)
      BY <1>3 DEF N
    <3> QED BY <3>1, PartOf
  <2>3. \A i \in 1 .. take : data[i] = a[c + i]
    <3> SUFFICES ASSUME NEW i \in 1 .. take PROVE data[i] = a[c + i]
      OBVIOUS
    <3>1. i \in 1 .. n /\ c = d /\ d + i <= N
      BY <1>1, <1>3
    <3>2. data[i] = a[d + i]
      BY <1>4, <3>1
    <3> QED BY <3>1, <3>2
  <2>4. 0 + 1 = 1 /\ take - 0 = take /\ e - c = take /\ \A i \in 1 .. take : 0 + i = i
    BY <1>3
  <2>5. SubSeq(data, 1, take) \in Seq(T) /\ Len(SubSeq(data, 1, take)) = take
        /\ \A i \in 1 .. take : SubSeq(data, 1, take)[i] = data[i]
    BY <2>1, <2>4
  <2>6. Len(SubSeq(a, c + 1, e)) = take /\ \A i \in 1 .. take : SubSeq(a, c + 1, e)[i] = a[c + i]
    BY <2>2, <2>4
  <2>7. \A i \in 1 .. Len(SubSeq(data, 1, take)) : SubSeq(data, 1, take)[i] = SubSeq(a, c + 1, e)[i]
    BY <2>3, <2>5, <2>6
  <2> QED BY <2>2, <2>5, <2>6, <2>7, SameSequence
<1>6. SubSeq(data, take + 1, n) = SubSeq(b, (d - c) + 1, (d + n) - e)
  <2> DEFINE from == d - c
             to == (d + n) - e
             more == n - take
  <2>0. from \in Nat /\ to \in Nat /\ more \in Nat /\ from + more = to /\ to <= M /\ take \in Nat
    BY <1>3
  <2>1. SubSeq(data, take + 1, n) \in Seq(T) /\ Len(SubSeq(data, take + 1, n)) = n - take
        /\ \A i \in 1 .. n - take : SubSeq(data, take + 1, n)[i] = data[take + i]
    <3>1. take \in Nat /\ take <= n /\ n <= Len(data)
      BY <1>3, <1>4
    <3> HIDE DEF from, to, more
    <3>2. data \in Seq(T) /\ n \in Nat
      BY <1>4
    <3> HIDE DEF data, take
    <3> QED BY <3>1, <3>2, PartOf, Zenon
  <2>2. \A i \in 1 .. more : data[take + i] = b[from + i]
    <3> SUFFICES ASSUME NEW i \in 1 .. more PROVE data[take + i] = b[from + i]
      OBVIOUS
    <3>1. take + i \in 1 .. n /\ take # n /\ e = N
      BY <1>3
    <3>2. d + (take + i) = N + (from + i)
      BY <1>1, <1>3, <3>1
    <3> DEFINE j == from + i
               k == d + (take + i)
    <3>3. j >= 1 /\ j \in Int
      BY <2>0
    <3>4. ~(k <= N) /\ k - N = j
      <4>1. k = N + j
        BY <3>2
      <4> HIDE DEF j, k
      <4> QED BY <1>1, <3>3, <4>1
    <3> QED BY <1>4, <3>1, <3>4, Zenon
  <2> HIDE DEF from, to, more
  <2>3. SubSeq(b, from + 1, to) \in Seq(T) /\ Len(SubSeq(b, from + 1, to)) = to - from
        /\ \A i \in 1 .. to - from : SubSeq(b, from + 1, to)[i] = b[from + i]
    <3>1. from <= to /\ to <= Len(b)
      BY <2>0 DEF M
    <3> QED BY <2>0, <3>1, PartOf
  <2>4. to - from = more
    BY <2>0
  <2>7. n - take = more
    BY DEF more
  <2>5. \A i \in 1 .. Len(SubSeq(data, take + 1, n)) : SubSeq(data, take + 1, n)[i] = SubSeq(b, from + 1, to)[i]
    BY <2>1, <2>2, <2>3, <2>4, <2>7
  <2>6. SubSeq(data, take + 1, n) = SubSeq(b, from + 1, to)
    <3>1. \A p, q \in Seq(T) : Len(p) = Len(q) /\ (\A i \in 1 .. Len(p) : p[i] = q[i]) => p = q
      BY SameSequence
    <3>2. Len(SubSeq(data, take + 1, n)) = Len(SubSeq(b, from + 1, to))
      BY <2>1, <2>3, <2>4, <2>7
    <3> QED BY <2>1, <2>3, <2>5, <3>1, <3>2, Zenon
  <2> QED BY <2>6 DEF from, to
<1>7. SubSeq(a, 1, c) \o SubSeq(data, 1, take) = SubSeq(a, 1, e)
  <2>1. c <= e /\ e <= Len(a)
    BY <1>3 DEF N
  <2> QED BY <1>3, <1>5, <2>1, PrefixGrows
<1>8. SubSeq(b, 1, d - c) \o SubSeq(data, take + 1, n) = SubSeq(b, 1, (d + n) - e)
  <2> DEFINE from == d - c
             to == (d + n) - e
  <2>1. from \in Nat /\ to \in Nat /\ from <= to /\ to <= Len(b)
    BY <1>3 DEF M
  <2> HIDE DEF from, to
  <2>2. SubSeq(b, 1, from) \o SubSeq(b, from + 1, to) = SubSeq(b, 1, to)
    BY <2>1, PrefixGrows
  <2> QED BY <1>6, <2>2 DEF from, to
<1>9. Len(SubSeq(a, 1, c)) = c
  <2>1. c <= Len(a)
    BY <1>3 DEF N
  <2> QED BY <1>3, <2>1
<1> QED BY <1>7, <1>8, <1>9 DEF c, e, take, data, N

-----------------------------------------------------------------------------
CountsGot == LessOf(streamed.dense, Len(capture.adc))
Behind == IF capture.rle THEN <<>> ELSE capture.la

(* What has come of a stream that is cut anywhere is its beginning: of the counts,  *)
(* then of the dense words, and of the changes of the words.                        *)
CaptureKept ==
    /\ capture \in [adc : Seq(AdcCounts), la : Seq({0, 1}), rle : BOOLEAN, tells : BOOLEAN, factor : Factors]
    /\ capture.tells => capture.rle
    /\ streamed \in [dense : 0 .. Len(DenseStream), la : 0 .. Len(capture.la)]
    /\ ~capture.rle => streamed.la = 0
    /\ counts = SubSeq(capture.adc, 1, CountsGot)
    /\ dense = SubSeq(Behind, 1, streamed.dense - CountsGot)
    /\ Told(edges, capture.la, 0, streamed.la)
    /\ upto = (IF capture.tells THEN streamed.la ELSE 0)
    /\ capPc \in {"streaming", "done"}
    /\ CapturedAsRecorded /\ AverageIsLinear

SampleValues == AdcCounts \cup {0, 1}

(* The samples the pod was asked for, and the fill it sends behind them. *)
LEMMA Streams ==
    ASSUME CaptureKept
    PROVE  /\ capture.adc \in Seq(SampleValues) /\ Behind \in Seq(SampleValues) /\ DenseStream = capture.adc \o Behind
           /\ Len(DenseStream) = Len(capture.adc) + Len(Behind)
           /\ Len(capture.adc) \in Nat /\ Len(capture.la) \in Nat
           /\ capture.la \in Seq({0, 1}) /\ streamed.dense \in Nat /\ streamed.la \in Nat
           /\ streamed.dense <= Len(DenseStream) /\ streamed.la <= Len(capture.la)
<1>1. capture.adc \in Seq(AdcCounts) /\ capture.la \in Seq({0, 1})
  BY DEF CaptureKept
<1>2. capture.adc \in Seq(SampleValues) /\ capture.la \in Seq(SampleValues)
  BY <1>1 DEF SampleValues
<1>3. Behind \in Seq(SampleValues) /\ DenseStream = capture.adc \o Behind
  BY <1>2 DEF Behind, DenseStream
<1>4. Len(DenseStream) = Len(capture.adc) + Len(Behind) /\ Len(capture.adc) \in Nat /\ Len(capture.la) \in Nat
      /\ Len(Behind) \in Nat
  BY <1>1, <1>2, <1>3
<1>5. streamed.dense \in 0 .. Len(DenseStream) /\ streamed.la \in 0 .. Len(capture.la)
  BY DEF CaptureKept
<1> QED BY <1>1, <1>2, <1>3, <1>4, <1>5

(* Before the first chunk the host has nothing. *)
LEMMA CaptureStarts == CaptureInit => CaptureKept
<1> SUFFICES ASSUME CaptureInit PROVE CaptureKept
  OBVIOUS
<1>1. PICK n \in 0 .. MaxAdc, m \in 0 .. MaxLa :
         capture \in [adc : [1 .. n -> AdcCounts], la : [1 .. m -> {0, 1}], rle : BOOLEAN, tells : BOOLEAN,
                      factor : Factors]
  BY DEF CaptureInit
<1>2. n \in Nat /\ m \in Nat
  OBVIOUS
<1>3. capture.adc \in Seq(AdcCounts) /\ capture.la \in Seq({0, 1})
  BY <1>1, <1>2
<1>4. capture \in [adc : Seq(AdcCounts), la : Seq({0, 1}), rle : BOOLEAN, tells : BOOLEAN, factor : Factors]
  BY <1>1, <1>3
<1>5. Len(capture.adc) \in Nat /\ Len(capture.la) \in Nat
  BY <1>3
<1>6. streamed.dense = 0 /\ streamed.la = 0
  BY DEF CaptureInit
<1>7. CountsGot = 0
  BY <1>5, <1>6 DEF CountsGot, LessOf
<1>8. SubSeq(capture.adc, 1, 0) = <<>> /\ SubSeq(Behind, 1, 0) = <<>>
  <2>1. Behind \in Seq({0, 1})
    BY <1>3 DEF Behind
  <2> QED BY <1>3, <2>1
<1>9. Len(DenseStream) \in Nat
  <2>1. capture.adc \in Seq(SampleValues) /\ capture.la \in Seq(SampleValues)
    BY <1>3 DEF SampleValues
  <2>2. DenseStream = capture.adc \o Behind /\ Behind \in Seq(SampleValues)
    BY <2>1 DEF DenseStream, Behind
  <2>3. DenseStream \in Seq(SampleValues)
    BY <2>1, <2>2
  <2> QED BY <2>3
<1>10. streamed \in [dense : 0 .. Len(DenseStream), la : 0 .. Len(capture.la)]
  BY <1>5, <1>9 DEF CaptureInit
<1>11. Told(edges, capture.la, 0, 0)
  BY <1>3, ToldNone DEF CaptureInit
<1> QED BY <1>4, <1>6, <1>7, <1>8, <1>10, <1>11 DEF CaptureInit, CaptureKept, CapturedAsRecorded, AverageIsLinear

(* A chunk of samples, the last one cut to those asked for. *)
LEMMA DenseChunkKeeps ==
    ASSUME CaptureKept, DenseChunk
    PROVE  CaptureKept'
<1> DEFINE d == streamed.dense
           N == Len(capture.adc)
           data(n) == SubSeq(DenseStream, d + 1, d + n)
           room == N - Len(counts)
           take(n) == IF n < room THEN n ELSE room
<1>1. PICK n \in 1 .. Len(DenseStream) - d :
         /\ counts' = counts \o SubSeq(data(n), 1, take(n))
         /\ dense' = dense \o SubSeq(data(n), take(n) + 1, n)
         /\ streamed' = [streamed EXCEPT !.dense = @ + n]
  BY DEF DenseChunk
<1>2. /\ capture.adc \in Seq(SampleValues) /\ Behind \in Seq(SampleValues) /\ DenseStream = capture.adc \o Behind
      /\ Len(DenseStream) = N + Len(Behind) /\ d \in Nat /\ d <= Len(DenseStream) /\ N \in Nat
      /\ Len(DenseStream) \in Nat
  <2>1. Len(capture.adc) \in Nat /\ Len(Behind) \in Nat
    BY Streams
  <2> QED BY <2>1, Streams
<1>3. n \in Nat /\ d + n <= N + Len(Behind)
  BY <1>2
<1>4. /\ SubSeq(capture.adc, 1, LessOf(d, N)) \o SubSeq(data(n), 1, More(capture.adc, d, n))
           = SubSeq(capture.adc, 1, LessOf(d + n, N))
      /\ SubSeq(Behind, 1, d - LessOf(d, N)) \o SubSeq(data(n), More(capture.adc, d, n) + 1, n)
           = SubSeq(Behind, 1, (d + n) - LessOf(d + n, N))
      /\ Len(SubSeq(capture.adc, 1, LessOf(d, N))) = LessOf(d, N)
  <2> DEFINE a == capture.adc
             b == Behind
  <2>1. a \in Seq(SampleValues) /\ b \in Seq(SampleValues) /\ d + n <= Len(a) + Len(b) /\ DenseStream = a \o b
    BY <1>2, <1>3
  <2> HIDE DEF d, a, b
  <2>2. /\ SubSeq(a, 1, LessOf(d, Len(a))) \o SubSeq(SubSeq(a \o b, d + 1, d + n), 1, More(a, d, n))
             = SubSeq(a, 1, LessOf(d + n, Len(a)))
        /\ SubSeq(b, 1, d - LessOf(d, Len(a))) \o SubSeq(SubSeq(a \o b, d + 1, d + n), More(a, d, n) + 1, n)
             = SubSeq(b, 1, (d + n) - LessOf(d + n, Len(a)))
        /\ Len(SubSeq(a, 1, LessOf(d, Len(a)))) = LessOf(d, Len(a))
    BY <1>2, <1>3, <2>1, CutStream
  <2> QED BY <2>1, <2>2, Zenon DEF a, b
<1>5. counts = SubSeq(capture.adc, 1, LessOf(d, N)) /\ dense = SubSeq(Behind, 1, d - LessOf(d, N))
  BY DEF CaptureKept, CountsGot
<1>6. take(n) = More(capture.adc, d, n)
  BY <1>4, <1>5 DEF LessOf, More
<1>7. UNCHANGED <<capture, edges, upto, capPc, words, means>> /\ capPc = "streaming"
  BY DEF DenseChunk
<1>8. streamed' \in [dense : 0 .. Len(DenseStream), la : 0 .. Len(capture.la)] /\ streamed'.dense = d + n
      /\ streamed'.la = streamed.la
  <2>1. streamed \in [dense : 0 .. Len(DenseStream), la : 0 .. Len(capture.la)]
    BY DEF CaptureKept
  <2>2. d + n \in 0 .. Len(DenseStream)
    BY <1>2, <1>3
  <2> QED BY <1>1, <2>1, <2>2
<1>9. counts' = SubSeq(capture.adc, 1, LessOf(d + n, N)) /\ dense' = SubSeq(Behind, 1, (d + n) - LessOf(d + n, N))
  <2> HIDE DEF take, data
  <2> QED BY <1>1, <1>4, <1>5, <1>6
<1>10. Behind' = Behind /\ DenseStream' = DenseStream /\ CountsGot' = LessOf(d + n, N)
  BY <1>7, <1>8 DEF Behind, DenseStream, CountsGot
<1>11. CapturedAsRecorded' /\ AverageIsLinear'
  BY <1>7 DEF CapturedAsRecorded, AverageIsLinear
<1>12. streamed'.dense \in Nat
  BY <1>2, <1>3, <1>8
<1> HIDE DEF d, N
<1>13. capture \in [adc : Seq(AdcCounts), la : Seq({0, 1}), rle : BOOLEAN, tells : BOOLEAN, factor : Factors]
       /\ (capture.tells => capture.rle) /\ (~capture.rle => streamed.la = 0)
       /\ Told(edges, capture.la, 0, streamed.la) /\ upto = (IF capture.tells THEN streamed.la ELSE 0)
  BY DEF CaptureKept
<1>14. streamed' \in [dense : 0 .. Len(DenseStream'), la : 0 .. Len(capture'.la)]
  BY <1>7, <1>8, <1>10
<1>15. counts' = SubSeq(capture'.adc, 1, CountsGot')
       /\ dense' = SubSeq(Behind', 1, streamed'.dense - CountsGot')
  BY <1>7, <1>8, <1>9, <1>10
<1> QED BY <1>7, <1>8, <1>11, <1>13, <1>14, <1>15 DEF CaptureKept

(* A chunk of analyzer words, sent as its changes. *)
LEMMA LaChunkKeeps ==
    ASSUME CaptureKept, LaChunk
    PROVE  CaptureKept'
<1>1. PICK to \in streamed.la + 1 .. Len(capture.la) :
         /\ edges' = edges \o Changes(streamed.la, to)
         /\ upto' = IF capture.tells /\ to > upto THEN to ELSE upto
         /\ streamed' = [streamed EXCEPT !.la = to]
  BY DEF LaChunk
<1>2. /\ capture.la \in Seq({0, 1}) /\ streamed.la \in Nat /\ to \in Nat /\ streamed.la < to /\ to <= Len(capture.la)
      /\ 0 \in Nat /\ 0 <= streamed.la /\ streamed.la <= to /\ Len(capture.la) \in Nat
  <2>1. capture.la \in Seq({0, 1}) /\ streamed.la \in Nat /\ Len(capture.la) \in Nat
    BY Streams
  <2> QED BY <2>1
<1>3. UNCHANGED <<capture, counts, dense, capPc, words, means>> /\ capPc = "streaming" /\ capture.rle
  BY DEF LaChunk
<1>4. Told(edges', capture.la, 0, to)
  <2>1. Told(Changes(streamed.la, to), capture.la, streamed.la, to)
    BY <1>2, ChangesTell
  <2>2. Told(edges, capture.la, 0, streamed.la)
    BY DEF CaptureKept
  <2> QED BY <1>1, <1>2, <2>1, <2>2, ToldJoin
<1>5. streamed' \in [dense : 0 .. Len(DenseStream), la : 0 .. Len(capture.la)] /\ streamed'.la = to
      /\ streamed'.dense = streamed.dense
  <2>1. streamed \in [dense : 0 .. Len(DenseStream), la : 0 .. Len(capture.la)]
    BY DEF CaptureKept
  <2>2. to \in 0 .. Len(capture.la)
    BY <1>2
  <2> QED BY <1>1, <2>1, <2>2
<1>6. upto' = (IF capture.tells THEN to ELSE 0)
  BY <1>1, <1>2 DEF CaptureKept
<1>7. Behind' = Behind /\ DenseStream' = DenseStream /\ CountsGot' = CountsGot
  BY <1>3, <1>5 DEF Behind, DenseStream, CountsGot
<1>8. CapturedAsRecorded' /\ AverageIsLinear'
  BY <1>3 DEF CapturedAsRecorded, AverageIsLinear
<1> QED BY <1>3, <1>4, <1>5, <1>6, <1>7, <1>8 DEF CaptureKept

(* The words that the call returns *)
LEMMA WordsAreRecorded ==
    ASSUME CaptureKept, streamed.dense >= Len(capture.adc)
    PROVE  /\ counts = capture.adc
           /\ Len(CapturedWords) = (IF capture.rle /\ ~capture.tells /\ LaSent > 0 THEN Len(capture.la) ELSE LaSent)
           /\ SubSeq(CapturedWords, 1, LaSent) = SubSeq(capture.la, 1, LaSent)
<1> DEFINE d == streamed.dense
           N == Len(capture.adc)
           m == streamed.la
           la == capture.la
<1>1. /\ capture.adc \in Seq(SampleValues) /\ N \in Nat /\ d \in Nat /\ d >= N /\ la \in Seq({0, 1}) /\ Len(la) \in Nat
      /\ m \in Nat /\ m <= Len(la) /\ d <= N + Len(Behind)
  BY Streams
<1>2. CountsGot = N
  BY <1>1 DEF CountsGot, LessOf
<1>3. counts = capture.adc
  <2>1. counts = SubSeq(capture.adc, 1, N)
    BY <1>2 DEF CaptureKept
  <2>2. \A s \in Seq(SampleValues) : SubSeq(s, 1, Len(s)) = s
    OBVIOUS
  <2> QED BY <1>1, <2>1, <2>2
<1>4. dense = SubSeq(Behind, 1, d - N) /\ Told(edges, la, 0, m) /\ upto = (IF capture.tells THEN m ELSE 0)
  BY <1>2 DEF CaptureKept
<1>5. CASE ~capture.rle
  <2>1. m = 0 /\ ~capture.tells /\ Behind = la /\ LaSent = d - N
    BY <1>5 DEF CaptureKept, Behind, LaSent
  <2>2. edges = <<>> /\ upto = 0
    <3>1. Told(edges, la, 0, 0)
      BY <1>4, <2>1
    <3>2. edges \in Seq([at : Nat, word : {0, 1}]) /\ \A i \in 1 .. Len(edges) : edges[i].at \in 0 .. 0 - 1
      BY <3>1 DEF Told
    <3>3. Len(edges) = 0
      <4> SUFFICES ASSUME Len(edges) # 0 PROVE FALSE
        OBVIOUS
      <4>1. 1 \in 1 .. Len(edges)
        BY <3>2
      <4>2. edges[1].at \in 0 .. 0 - 1
        BY <3>2, <4>1
      <4> QED BY <4>2
    <3> QED BY <1>4, <2>1, <3>2, <3>3
  <2>3. CapturedWords = SubSeq(la, 1, d - N)
    BY <1>4, <2>1, <2>2 DEF CapturedWords
  <2>4. d - N \in 0 .. Len(la)
    <3> DEFINE l == Len(Behind)
    <3>1. d \in Nat /\ N \in Nat /\ d >= N /\ d <= N + l /\ l = Len(la) /\ l \in Nat
      BY <1>1, <2>1
    <3> HIDE DEF d, N, l, la
    <3>2. d - N \in 0 .. l
      BY <3>1
    <3> QED BY <3>1, <3>2
  <2> HIDE DEF d, N, la
  <2>5. \A k \in 0 .. Len(la) : Len(SubSeq(la, 1, k)) = k /\ SubSeq(SubSeq(la, 1, k), 1, k) = SubSeq(la, 1, k)
    BY <1>1
  <2>6. Len(CapturedWords) = LaSent /\ SubSeq(CapturedWords, 1, LaSent) = SubSeq(la, 1, LaSent)
    BY <2>1, <2>3, <2>4, <2>5
  <2> QED BY <1>3, <1>5, <2>6 DEF la
<1>6. CASE capture.rle /\ m = 0
  <2>1. edges = <<>> /\ upto = 0
    <3>2. edges \in Seq([at : Nat, word : {0, 1}]) /\ \A i \in 1 .. Len(edges) : edges[i].at \in 0 .. 0 - 1
      BY <1>4, <1>6 DEF Told
    <3>3. Len(edges) = 0
      <4> SUFFICES ASSUME Len(edges) # 0 PROVE FALSE
        OBVIOUS
      <4>1. 1 \in 1 .. Len(edges)
        BY <3>2
      <4>2. edges[1].at \in 0 .. 0 - 1
        BY <3>2, <4>1
      <4> QED BY <4>2
    <3> QED BY <1>4, <1>6, <3>2, <3>3
  <2>2. Behind = <<>> /\ LaSent = 0 /\ Len(Behind) = 0
    BY <1>6 DEF Behind, LaSent
  <2>3. d - N = 0
    BY <1>1, <2>2
  <2>4. CapturedWords = <<>>
    BY <1>4, <2>1, <2>2, <2>3 DEF CapturedWords
  <2>5. Len(<<>>) = 0 /\ SubSeq(<<>>, 1, 0) = <<>> /\ SubSeq(la, 1, 0) = <<>>
    BY <1>1
  <2> QED BY <1>3, <2>2, <2>4, <2>5
<1>7. CASE capture.rle /\ m # 0
  <2> DEFINE n == IF upto # 0 THEN upto ELSE Len(la)
  <2>1. LaSent = m /\ n \in Nat /\ m <= n /\ n = IF capture.tells THEN m ELSE Len(la)
    BY <1>1, <1>4, <1>7 DEF LaSent
  <2>2. Len(Expand(edges, n)) = n /\ edges # <<>> /\ SubSeq(Expand(edges, n), 1, m) = SubSeq(la, 1, m)
    <3> HIDE DEF n, m, la
    <3> QED BY <1>1, <1>4, <1>7, <2>1, ExpandIs
  <2>3. CapturedWords = Expand(edges, n)
    BY <2>2 DEF CapturedWords
  <2>4. LaSent > 0
    BY <1>1, <1>7, <2>1
  <2> HIDE DEF n
  <2> QED BY <1>3, <1>7, <2>1, <2>2, <2>3, <2>4
<1> QED BY <1>5, <1>6, <1>7

(* The averages that it returns *)
LEMMA MeansAreLinear ==
    ASSUME CaptureKept, NEW i \in 1 .. Len(counts) \div capture.factor
    PROVE  LET away == capture.factor * Signed(CodeOf(Averaged[i])) - Averaged[i]
           IN  /\ Averaged[i] + capture.factor * Span
                    = Total([k \in DOMAIN Block(i) |-> Unwrapped(Block(i)[k])])
               /\ -capture.factor < 2 * away /\ 2 * away <= capture.factor
<1> DEFINE f == capture.factor
           h == Span \div 2
           block == Block(i)
           signed == [k \in DOMAIN block |-> Signed(block[k])]
           unwrapped == [k \in DOMAIN block |-> Unwrapped(block[k])]
<1>1. f \in Nat \ {0} /\ h \in Nat /\ Span \in Nat \ {0} /\ Span = 2 * h
  <2>1. capture.factor \in Nat \ {0} /\ Span \in Nat \ {0} /\ Span % 2 = 0
    BY CaptureAssumption DEF CaptureAssumption, CaptureKept
  <2> QED BY <2>1, SMT
<1>2. \A c \in AdcCounts : c \in 0 .. Span - 1
  BY CaptureAssumption DEF CaptureAssumption
<1>3. counts \in Seq(AdcCounts) /\ Len(counts) \in Nat
  <2>1. capture.adc \in Seq(AdcCounts) /\ counts = SubSeq(capture.adc, 1, CountsGot)
    BY DEF CaptureKept
  <2>2. CountsGot \in 0 .. Len(capture.adc)
    BY Streams DEF CountsGot, LessOf
  <2> QED BY <2>1, <2>2
<1>4. block \in Seq(AdcCounts) /\ Len(block) = f
  <2> DEFINE from == (i - 1) * f
  <2>1. from \in Nat /\ from + f <= Len(counts) /\ i * f = from + f
    <3>1. (i - 1) * f \in Nat /\ (i - 1) * f + f <= Len(counts)
      BY <1>1, <1>3, Blocks
    <3>2. i \in Int
      OBVIOUS
    <3>3. i * f = (i - 1) * f + f
      BY <1>1, <3>2, SMT
    <3> QED BY <3>1, <3>3
  <2>2. block = SubSeq(counts, from + 1, i * f)
    BY DEF Block
  <2> HIDE DEF from, block, f
  <2>3. SubSeq(counts, from + 1, from + f) \in Seq(AdcCounts) /\ Len(SubSeq(counts, from + 1, from + f)) = f
    BY <1>1, <1>3, <2>1
  <2> QED BY <2>1, <2>2, <2>3
<1> HIDE DEF f, h, block
<1>5. DOMAIN block = 1 .. f /\ \A k \in 1 .. f : block[k] \in 0 .. Span - 1
  BY <1>1, <1>2, <1>4
<1>6. \A c \in 0 .. Span - 1 : /\ Signed(c) \in Int /\ -h <= Signed(c) /\ Signed(c) <= h - 1
                              /\ Unwrapped(c) = Signed(c) + Span
  BY <1>1 DEF Signed, Unwrapped, h
<1>14. \A k \in 1 .. f : /\ Signed(block[k]) \in Int /\ -h <= Signed(block[k]) /\ Signed(block[k]) <= h - 1
                         /\ Unwrapped(block[k]) = Signed(block[k]) + Span
  BY <1>5, <1>6, Zenon
<1>7. signed \in Seq(Int) /\ Len(signed) = f /\ \A k \in 1 .. f : -h <= signed[k] /\ signed[k] <= h - 1
  <2>1. signed = [k \in 1 .. f |-> Signed(block[k])]
    BY <1>5
  <2> QED BY <1>1, <1>14, <2>1
<1>8. unwrapped \in Seq(Int) /\ Len(unwrapped) = f /\ \A k \in 1 .. f : unwrapped[k] = signed[k] + Span
  <2>1. \A k \in 1 .. f : Unwrapped(block[k]) \in Int /\ Unwrapped(block[k]) = Signed(block[k]) + Span
    BY <1>1, <1>14
  <2>2. unwrapped = [k \in 1 .. f |-> Unwrapped(block[k])] /\ \A k \in 1 .. f : signed[k] = Signed(block[k])
    BY <1>5
  <2> HIDE DEF signed, unwrapped
  <2> QED BY <1>1, <2>1, <2>2
<1>9. Averaged[i] = Total(signed)
  BY DEF Averaged, block
<1> HIDE DEF signed, unwrapped
<1> DEFINE m == Total(signed)
<1>10. m \in Int /\ f * (-h) <= m /\ m <= f * (h - 1)
  <2>1. -h \in Int /\ h - 1 \in Int
    BY <1>1
  <2> QED BY <1>7, <2>1, TotalWithin
<1>11. Total(unwrapped) = m + f * Span
  <2>1. \A p, q \in Seq(Int) : \A c \in Int :
            Len(q) = Len(p) /\ (\A k \in 1 .. Len(p) : q[k] = p[k] + c) => Total(q) = Total(p) + Len(p) * c
    BY TotalShifted
  <2>2. Span \in Int
    BY <1>1
  <2>3. Total(unwrapped) = Total(signed) + Len(signed) * Span
    BY <1>7, <1>8, <2>1, <2>2, Zenon
  <2> QED BY <1>7, <2>3
<1> HIDE DEF m
<1>12. LET code == ((2 * m + f) \div (2 * f)) % Span
           s == IF code >= h THEN code - Span ELSE code
           away == f * s - m
       IN  -f < 2 * away /\ 2 * away <= f
  BY <1>1, <1>10, NearestCode
<1>13. -f < 2 * (f * Signed(CodeOf(m)) - m) /\ 2 * (f * Signed(CodeOf(m)) - m) <= f
  BY <1>12, Zenon DEF Signed, CodeOf, f, h
<1> QED BY <1>9, <1>11, <1>13 DEF m, f, unwrapped, block

(* The end: the changes are expanded to words and the conversions averaged      *)
(* (capture.py).                                                                *)
LEMMA CaptureDoneKeeps ==
    ASSUME CaptureKept, CaptureDone
    PROVE  CaptureKept'
<1>1. words' = CapturedWords /\ means' = Averaged /\ capPc' = "done" /\ streamed.dense >= Len(capture.adc)
      /\ UNCHANGED <<capture, streamed, counts, dense, edges, upto>>
  BY DEF CaptureDone
<1>2. LaSent' = LaSent /\ Behind' = Behind /\ DenseStream' = DenseStream /\ CountsGot' = CountsGot
      /\ (\A i : Block(i)' = Block(i)) /\ (\A m : CodeOf(m)' = CodeOf(m))
  BY <1>1 DEF LaSent, Behind, DenseStream, CountsGot, Block, CodeOf
<1>3. CapturedAsRecorded'
  BY <1>1, <1>2, WordsAreRecorded DEF CapturedAsRecorded
<1>4. AverageIsLinear'
  <2>1. DOMAIN means' = 1 .. Len(counts) \div capture.factor
    BY <1>1 DEF Averaged
  <2> SUFFICES ASSUME NEW i \in 1 .. Len(counts) \div capture.factor
               PROVE  LET away == capture.factor * Signed(CodeOf(means'[i])) - means'[i]
                      IN  /\ means'[i] + capture.factor * Span
                               = Total([k \in DOMAIN Block(i) |-> Unwrapped(Block(i)[k])])
                          /\ -capture.factor < 2 * away /\ 2 * away <= capture.factor
    <3> HIDE DEF Block, CodeOf, Total
    <3> QED BY <1>1, <1>2, <2>1, Zenon DEF AverageIsLinear
  <2> QED BY <1>1, MeansAreLinear
<1> QED BY <1>1, <1>2, <1>3, <1>4 DEF CaptureKept

(* Every step keeps what the host has a beginning of what the pod recorded. *)
LEMMA CaptureSteps ==
    ASSUME CaptureKept, [CaptureNext]_captureVars
    PROVE  CaptureKept'
<1>1. CASE UNCHANGED captureVars
  <2>1. /\ capture' = capture /\ streamed' = streamed /\ counts' = counts /\ dense' = dense /\ edges' = edges
        /\ upto' = upto /\ words' = words /\ means' = means /\ capPc' = capPc
    BY <1>1 DEF captureVars
  <2> QED BY <2>1, ZenonT(30) DEF CaptureKept, CountsGot, Behind, DenseStream, CapturedAsRecorded, AverageIsLinear, LaSent,
                             Block, CodeOf
<1> QED BY <1>1, DenseChunkKeeps, LaChunkKeeps, CaptureDoneKeeps DEF CaptureNext

(* What is kept says what a capture returns. *)
LEMMA CaptureIsSafe == CaptureKept => CaptureInv
<1> SUFFICES ASSUME CaptureKept PROVE CaptureInv
  OBVIOUS
<1>1. upto \in 0 .. Len(capture.la)
  <2>1. streamed.la \in Nat /\ Len(capture.la) \in Nat /\ streamed.la <= Len(capture.la)
    BY Streams
  <2> QED BY <2>1 DEF CaptureKept
<1> QED BY <1>1 DEF CaptureKept, CaptureInv, CaptureTypeOK

(* However the chunks cut what the pod streams, the counts and the words that a     *)
(* capture returns are those that were recorded; and an average of any number of    *)
(* conversions is scaled like the conversions, also where they straddle 0 V.        *)
THEOREM CapturedAndAveraged == CaptureSpec => []CaptureInv
<1>1. CaptureKept /\ [CaptureNext]_captureVars => CaptureKept'
  BY CaptureSteps
<1> QED BY <1>1, CaptureStarts, CaptureIsSafe, PTL DEF CaptureSpec

-----------------------------------------------------------------------------
(* The UART decoder (decode.py): any characters, rests, phase and baud rate. *)

-----------------------------------------------------------------------------
(* Of the hows: what was sent, and when *)

Hows == [chars : Seq(Chars), bit : BitTimes, parity : {"none", "even", "odd"}, stop : {1, 2}, rest : Rests,
         phase : 1 .. PerSample, glitch : BOOLEAN, fault : {"none", "parity", "framing"}]

(* The numbers that a line goes by: its bit time, phase, rests and bits of a    *)
(* character.                                                                   *)
LEMMA HowIs ==
    ASSUME NEW how \in Hows
    PROVE  /\ PerSample \in Nat \ {0} /\ DataBits \in Nat \ {0}
           /\ how.bit \in Nat \ {0} /\ 3 * PerSample <= how.bit
           /\ BitCount(how) \in Nat /\ BitCount(how) >= DataBits + 2
           /\ BitCount(how) * how.bit \in Nat /\ how.bit <= BitCount(how) * how.bit
           /\ Pitch(how) \in Nat \ {0} /\ BitCount(how) * how.bit <= Pitch(how)
           /\ FirstAt(how) \in Nat \ {0} /\ (how.glitch => FirstAt(how) > how.bit + 2 * PerSample)
           /\ Len(how.chars) \in Nat
<1>1. PerSample \in Nat \ {0} /\ DataBits \in Nat \ {0} /\ how.bit \in Nat /\ how.bit >= 3 * PerSample
      /\ how.rest \in Nat /\ how.phase \in 1 .. PerSample
  BY UartDecodeAssumption DEF UartDecodeAssumption, Hows
<1>2. how.stop \in {1, 2}
  BY DEF Hows
<1>3. BitCount(how) \in Nat /\ BitCount(how) >= DataBits + 2
  BY <1>1, <1>2 DEF BitCount
<1>4. how.bit \in Nat \ {0}
  BY <1>1
<1> DEFINE c == BitCount(how)
           b == how.bit
<1>5. c * b \in Nat /\ b <= c * b
  <2> HIDE DEF c, b
  <2>1. c \in Nat /\ 0 < c /\ b \in Nat \ {0}
    BY <1>1, <1>3, <1>4 DEF c, b
  <2>2. 0 * b + b <= c * b /\ c * b \in Nat /\ 0 * b \in Nat
    BY <2>1, TimesGrows
  <2> QED BY <2>1, <2>2
<1>6. Pitch(how) \in Nat \ {0} /\ c * b <= Pitch(how)
  <2> DEFINE l == c * b
  <2>1. Pitch(how) = l + how.rest
    BY DEF Pitch
  <2>2. l \in Nat /\ l > 0
    BY <1>4, <1>5
  <2> HIDE DEF l
  <2>3. Pitch(how) \in Nat \ {0} /\ l <= Pitch(how)
    BY <1>1, <2>1, <2>2
  <2> QED BY <2>3 DEF l
<1>7. FirstAt(how) \in Nat \ {0} /\ (how.glitch => FirstAt(how) > how.bit + 2 * PerSample)
  BY <1>1 DEF FirstAt
<1>8. Len(how.chars) \in Nat
  BY DEF Hows
<1> QED BY <1>1, <1>3, <1>4, <1>5, <1>6, <1>7, <1>8

(* Where a character starts, and that the next one starts behind its stop bit   *)
(* and rest.                                                                    *)
LEMMA StartsIs ==
    ASSUME NEW how \in Hows, NEW k \in Nat \ {0}
    PROVE  /\ StartsAt(how, k) \in Nat /\ FirstAt(how) <= StartsAt(how, k)
           /\ StartsAt(how, k) = (k - 1) * Pitch(how) + FirstAt(how) /\ (k - 1) * Pitch(how) \in Nat
           /\ StartsAt(how, 1) = FirstAt(how)
           /\ StartsAt(how, k + 1) = StartsAt(how, k) + Pitch(how)
           /\ \A i \in Nat \ {0} : i < k => StartsAt(how, i) + Pitch(how) <= StartsAt(how, k)
<1> DEFINE p == Pitch(how)
           f == FirstAt(how)
<1>1. p \in Nat \ {0} /\ f \in Nat
  BY HowIs
<1>2. \A i \in Nat : StartsAt(how, i) = f + (i - 1) * p
  BY DEF StartsAt
<1> HIDE DEF p, f
<1>3. k - 1 \in Nat /\ (k - 1) * p \in Nat
  BY <1>1, SMT
<1>4. (1 - 1) * p = 0 /\ ((k + 1) - 1) * p = (k - 1) * p + p
  BY <1>1, SMT
<1>5. StartsAt(how, k) = f + (k - 1) * p /\ StartsAt(how, 1) = f + (1 - 1) * p
      /\ StartsAt(how, k + 1) = f + ((k + 1) - 1) * p
  <2>1. 1 \in Nat /\ k + 1 \in Nat /\ k \in Nat
    OBVIOUS
  <2> QED BY <1>2, <2>1, Zenon
<1>6. ASSUME NEW i \in Nat \ {0}, i < k PROVE StartsAt(how, i) + p <= StartsAt(how, k)
  <2>1. i - 1 \in Nat /\ i - 1 < k - 1
    BY <1>6
  <2>2. (i - 1) * p \in Nat /\ (i - 1) * p + p <= (k - 1) * p
    BY <1>1, <1>3, <2>1, TimesGrows
  <2>3. StartsAt(how, i) = f + (i - 1) * p
    BY <1>2
  <2> DEFINE x == (i - 1) * p
             y == (k - 1) * p
  <2>4. StartsAt(how, i) = f + x /\ StartsAt(how, k) = f + y /\ x \in Nat /\ y \in Nat /\ x + p <= y
    BY <1>3, <1>5, <2>2, <2>3
  <2> HIDE DEF x, y
  <2> QED BY <1>1, <2>4
<1> DEFINE y == (k - 1) * p
<1>7. StartsAt(how, k) = f + y /\ StartsAt(how, 1) = f + 0 /\ StartsAt(how, k + 1) = f + (y + p) /\ y \in Nat
  BY <1>3, <1>4, <1>5
<1> HIDE DEF y
<1>8. StartsAt(how, k) \in Nat /\ f <= StartsAt(how, k) /\ StartsAt(how, k) = y + f /\ StartsAt(how, 1) = f
      /\ StartsAt(how, k + 1) = StartsAt(how, k) + p
  BY <1>1, <1>7
<1> QED BY <1>3, <1>6, <1>8 DEF y, p, f

-----------------------------------------------------------------------------
(* The line at a sample *)

Since(how, j) == j * PerSample - FirstAt(how)
LevelAt(how, j) ==
    IF how.glitch /\ j = 1 THEN 0
    ELSE IF \/ Since(how, j) < 0 \/ Since(how, j) \div Pitch(how) + 1 > Len(how.chars)
            \/ Since(how, j) % Pitch(how) >= BitCount(how) * how.bit
      THEN 1
    ELSE BitsOf(how, Since(how, j) \div Pitch(how) + 1)[(Since(how, j) % Pitch(how)) \div how.bit + 1]

(* A sample of a capture is the level of the line at its time. *)
LEMMA SampledIs ==
    ASSUME NEW how \in Hows, NEW n \in Nat \ {0}, NEW j \in 0 .. n - 1
    PROVE  Sampled(how, n)[j] = LevelAt(how, j)
<1> DEFINE k == Since(how, j) \div Pitch(how) + 1
           bits == [i \in DOMAIN how.chars |-> BitsOf(how, i)]
<1>1. Sampled(how, n)[j] =
        IF how.glitch /\ j = 1 THEN 0
        ELSE IF Since(how, j) < 0 \/ k > Len(how.chars) \/ Since(how, j) % Pitch(how) >= BitCount(how) * how.bit THEN 1
        ELSE bits[k][(Since(how, j) % Pitch(how)) \div how.bit + 1]
  BY Zenon DEF Sampled, Since
<1>2. ASSUME ~(Since(how, j) < 0), ~(k > Len(how.chars)) PROVE bits[k] = BitsOf(how, k)
  <2>1. Pitch(how) \in Nat \ {0} /\ Len(how.chars) \in Nat /\ FirstAt(how) \in Nat /\ PerSample \in Nat
    BY HowIs
  <2>2. Since(how, j) \in Nat
    <3>1. j * PerSample \in Nat
      BY <2>1, SMT
    <3> DEFINE t == j * PerSample
    <3> HIDE DEF t
    <3>2. t - FirstAt(how) \in Int
      BY <2>1, <3>1 DEF t
    <3> QED BY <1>2, <3>2 DEF Since, t
  <2>3. Since(how, j) \div Pitch(how) \in Nat
    BY <2>1, <2>2, DivisionOf, Zenon
  <2>4. k \in 1 .. Len(how.chars)
    BY <1>2, <2>1, <2>3
  <2>5. how.chars \in Seq(Chars)
    BY DEF Hows
  <2>6. k \in DOMAIN how.chars
    BY <2>4, <2>5
  <2> HIDE DEF k
  <2> QED BY <2>6
<1>3. CASE how.glitch /\ j = 1
  BY <1>1, <1>3 DEF LevelAt
<1>4. CASE /\ ~(how.glitch /\ j = 1)
           /\ Since(how, j) < 0 \/ k > Len(how.chars) \/ Since(how, j) % Pitch(how) >= BitCount(how) * how.bit
  <2> HIDE DEF k, bits
  <2>1. Sampled(how, n)[j] = 1
    BY <1>1, <1>4
  <2>2. LevelAt(how, j) = 1
    BY <1>4 DEF LevelAt, k
  <2> QED BY <2>1, <2>2
<1>5. CASE /\ ~(how.glitch /\ j = 1)
           /\ ~(Since(how, j) < 0 \/ k > Len(how.chars) \/ Since(how, j) % Pitch(how) >= BitCount(how) * how.bit)
  <2>1. bits[k] = BitsOf(how, k)
    BY <1>2, <1>5
  <2> HIDE DEF k, bits
  <2>2. Sampled(how, n)[j] = bits[k][(Since(how, j) % Pitch(how)) \div how.bit + 1]
    BY <1>1, <1>5
  <2>3. LevelAt(how, j) = BitsOf(how, k)[(Since(how, j) % Pitch(how)) \div how.bit + 1]
    BY <1>5 DEF LevelAt, k
  <2> QED BY <2>1, <2>2, <2>3
<1> QED BY <1>3, <1>4, <1>5

(* In the time of a bit the line is at that bit. *)
LEMMA InABit ==
    ASSUME NEW how \in Hows, NEW k \in 1 .. Len(how.chars), NEW b \in Nat, b < BitCount(how), NEW j \in Nat,
           StartsAt(how, k) + b * how.bit <= j * PerSample,
           j * PerSample < StartsAt(how, k) + b * how.bit + how.bit
    PROVE  LevelAt(how, j) = BitsOf(how, k)[b + 1]
<1> DEFINE w == how.bit
           p == Pitch(how)
           f == FirstAt(how)
           long == BitCount(how) * w
           t == j * PerSample
           y == b * w
           z == (k - 1) * p
           r == (t - f) - z
           x == r - y
<1>1. w \in Nat \ {0} /\ p \in Nat \ {0} /\ f \in Nat /\ long \in Nat /\ long <= p /\ PerSample \in Nat \ {0}
      /\ BitCount(how) \in Nat /\ 3 * PerSample <= w /\ (how.glitch => f > w + 2 * PerSample)
      /\ Len(how.chars) \in Nat
  BY HowIs
<1>2. t \in Nat /\ y \in Nat
  BY <1>1, SMT
<1>3. StartsAt(how, k) = z + f /\ z \in Nat
  <2>1. k \in Nat \ {0}
    OBVIOUS
  <2> QED BY <2>1, StartsIs
<1>4. z + f + y <= t /\ t < z + f + y + w
  BY <1>3
<1>5. y + w <= long
  BY <1>1, TimesGrows
<1> HIDE DEF w, p, f, long, t, y, z
<1>6. r \in Nat /\ r < long /\ r < p /\ x \in 0 .. w - 1 /\ r = y + x /\ t - f = z + r /\ t - f \in Nat
  BY <1>1, <1>2, <1>3, <1>4, <1>5
<1> HIDE DEF r, x
<1>7. (t - f) \div p = k - 1 /\ (t - f) % p = r
  <2>1. k - 1 \in Nat /\ r \in 0 .. p - 1
    BY <1>1, <1>6
  <2>2. (p * (k - 1) + r) \div p = k - 1 /\ (p * (k - 1) + r) % p = r
    BY <1>1, <2>1, DivisionOf, Zenon
  <2>3. p * (k - 1) = z
    BY <1>1, <2>1, SMT DEF z
  <2> QED BY <1>6, <2>2, <2>3
<1>8. r \div w = b
  <2>1. (w * b + x) \div w = b
    BY <1>1, <1>6, DivisionOf, Zenon
  <2>2. w * b = y
    BY <1>1, SMT DEF y
  <2> QED BY <1>6, <2>1, <2>2
<1>9. Since(how, j) = t - f
  BY DEF Since, t, f
<1>10. ~(how.glitch /\ j = 1)
  <2> SUFFICES ASSUME how.glitch, j = 1 PROVE FALSE
    OBVIOUS
  <2>1. t = PerSample
    BY <1>1 DEF t
  <2> QED BY <1>1, <1>2, <1>3, <1>4, <2>1
<1>11. ~(Since(how, j) < 0) /\ Since(how, j) \div Pitch(how) + 1 = k /\ ~(k > Len(how.chars))
       /\ ~(Since(how, j) % Pitch(how) >= BitCount(how) * how.bit)
       /\ (Since(how, j) % Pitch(how)) \div how.bit + 1 = b + 1
  <2>1. ~(t - f < 0) /\ ~(r >= long) /\ (k - 1) + 1 = k /\ ~(k > Len(how.chars))
    BY <1>1, <1>6
  <2>2. ~((t - f) < 0) /\ (t - f) \div p + 1 = k /\ ~(k > Len(how.chars)) /\ ~((t - f) % p >= long)
        /\ ((t - f) % p) \div w + 1 = b + 1
    BY <1>7, <1>8, <2>1
  <2> QED BY <1>9, <2>2 DEF p, w, long
<1> QED BY <1>10, <1>11 DEF LevelAt

(* Before the first character the line is high, but for the glitch. *)
LEMMA BeforeTheFirst ==
    ASSUME NEW how \in Hows, NEW j \in Nat, j * PerSample < FirstAt(how), ~(how.glitch /\ j = 1)
    PROVE  LevelAt(how, j) = 1
<1> DEFINE t == j * PerSample
<1>1. t \in Nat /\ FirstAt(how) \in Nat
  <2>1. PerSample \in Nat /\ FirstAt(how) \in Nat
    BY HowIs
  <2> QED BY <2>1, SMT
<1>2. Since(how, j) = t - FirstAt(how) /\ t < FirstAt(how)
  BY DEF Since
<1> HIDE DEF t
<1>3. Since(how, j) < 0
  BY <1>1, <1>2
<1> QED BY <1>3 DEF LevelAt

(* Behind the bits of a character, up to the next, the line is high. *)
LEMMA AfterTheBits ==
    ASSUME NEW how \in Hows, NEW k \in 1 .. Len(how.chars), NEW j \in Nat,
           EndsAt(how, k) <= j * PerSample,
           k < Len(how.chars) => j * PerSample < StartsAt(how, k + 1)
    PROVE  LevelAt(how, j) = 1
<1> DEFINE w == how.bit
           p == Pitch(how)
           f == FirstAt(how)
           long == BitCount(how) * w
           t == j * PerSample
           z == (k - 1) * p
           r == (t - f) - z
           n == Len(how.chars)
<1>1. w \in Nat \ {0} /\ p \in Nat \ {0} /\ f \in Nat /\ long \in Nat /\ long <= p /\ PerSample \in Nat \ {0}
      /\ w <= long /\ 3 * PerSample <= w /\ (how.glitch => f > w + 2 * PerSample) /\ n \in Nat
  BY HowIs
<1>2. t \in Nat
  BY <1>1, SMT
<1>3. StartsAt(how, k) = z + f /\ z \in Nat /\ StartsAt(how, k + 1) = z + f + p
  <2>1. k \in Nat \ {0}
    OBVIOUS
  <2> QED BY <2>1, StartsIs
<1>4. z + f + long <= t /\ (k < n => t < z + f + p)
  BY <1>3 DEF EndsAt
<1> HIDE DEF w, p, f, long, t, z, n
<1>5. r \in Nat /\ r >= long /\ t - f = z + r /\ t - f \in Nat
  BY <1>1, <1>2, <1>3, <1>4
<1> HIDE DEF r
<1>6. Since(how, j) = t - f
  BY DEF Since, t, f
<1>7. ~(how.glitch /\ j = 1)
  <2> SUFFICES ASSUME how.glitch, j = 1 PROVE FALSE
    OBVIOUS
  <2>1. t = PerSample
    BY <1>1 DEF t
  <2> QED BY <1>1, <1>2, <1>3, <1>4, <2>1
<1>8. CASE r < p
  <2>1. k - 1 \in Nat /\ r \in 0 .. p - 1
    BY <1>1, <1>5, <1>8
  <2>2. (p * (k - 1) + r) % p = r
    BY <1>1, <2>1, DivisionOf, Zenon
  <2>3. p * (k - 1) = z
    BY <1>1, <2>1, SMT DEF z
  <2>4. (t - f) % p >= long
    BY <1>5, <2>2, <2>3
  <2>5. Since(how, j) % Pitch(how) >= BitCount(how) * how.bit
    BY <1>6, <2>4 DEF p, long, w
  <2> QED BY <1>7, <2>5 DEF LevelAt
<1>9. CASE ~(r < p)
  <2>1. k = n
    <3>1. k \in Nat /\ k <= n
      BY <1>1 DEF n
    <3>2. ~(k < n)
      BY <1>1, <1>2, <1>3, <1>4, <1>5, <1>9
    <3> QED BY <1>1, <3>1, <3>2
  <2> DEFINE q == (t - f) \div p
  <2>2. q \in Nat /\ t - f = p * q + ((t - f) % p) /\ (t - f) % p \in 0 .. p - 1
    BY <1>1, <1>5, DivisionOf, Zenon
  <2>3. q >= k
    <3> SUFFICES ASSUME q < k PROVE FALSE
      BY <2>2
    <3> DEFINE m == (t - f) % p
               u == p * q
    <3> HIDE DEF q
    <3>1. u <= z
      <4>1. (k - 1) - q \in Nat /\ k - 1 \in Nat
        BY <2>2
      <4>2. p * ((k - 1) - q) \in Nat
        BY <1>1, <4>1, SMT
      <4>3. p * ((k - 1) - q) = (k - 1) * p - p * q
        BY <1>1, <2>2, <4>1, SMT
      <4>4. u \in Nat
        BY <1>1, <2>2, SMT
      <4> HIDE DEF u
      <4>5. p * ((k - 1) - q) = z - u
        BY <4>3 DEF z, u
      <4> QED BY <1>3, <4>2, <4>4, <4>5
    <3>2. t - f = u + m /\ m \in 0 .. p - 1 /\ u \in Nat
      <4>1. u \in Nat
        BY <1>1, <2>2, SMT
      <4> QED BY <2>2, <4>1
    <3> HIDE DEF m, u
    <3> QED BY <1>1, <1>3, <1>5, <1>9, <3>1, <3>2
  <2>4. q + 1 > n
    <3> HIDE DEF q
    <3> QED BY <1>1, <2>1, <2>2, <2>3
  <2>5. Since(how, j) \div Pitch(how) + 1 > Len(how.chars)
    BY <1>6, <2>4 DEF p, n
  <2> QED BY <1>7, <2>5 DEF LevelAt
<1> QED BY <1>8, <1>9

-----------------------------------------------------------------------------
(* The bits of a character *)

Fault(how, k) == IF k = Len(how.chars) THEN how.fault ELSE "none"
ParityTold(fault, p) == IF fault = "parity" THEN 1 - p ELSE p

(* A parity bit is a bit: the XOR over the bits of a character. *)
LEMMA ParityIsABit ==
    ASSUME NEW parity, NEW c \in [1 .. DataBits -> {0, 1}]
    PROVE  ParityBit(parity, c) \in {0, 1}
<1>1. DataBits \in Nat
  BY UartDecodeAssumption DEF UartDecodeAssumption
<1>2. IsFiniteSet({i \in DOMAIN c : c[i] = 1})
  <2>1. DOMAIN c = 1 .. DataBits /\ IsFiniteSet(1 .. DataBits)
    BY <1>1, FS_Interval
  <2>2. {i \in DOMAIN c : c[i] = 1} \subseteq 1 .. DataBits
    BY <2>1
  <2> QED BY <2>1, <2>2, FS_Subset
<1>3. Ones(c) \in Nat
  BY <1>2, FS_CardinalityType DEF Ones
<1>4. Ones(c) % 2 \in {0, 1}
  <2> DEFINE o == Ones(c)
  <2> HIDE DEF o
  <2>1. o \in Nat => o % 2 \in {0, 1}
    BY SMT
  <2> QED BY <1>3, <2>1 DEF o
<1> DEFINE m == Ones(c) % 2
<1> HIDE DEF m
<1>5. m \in {0, 1} => 1 - m \in {0, 1}
  OBVIOUS
<1> QED BY <1>4, <1>5 DEF ParityBit, m

(* A sequence with one more at its end. *)
LEMMA OneMore ==
    ASSUME NEW T, NEW u \in Seq(T), NEW x \in T
    PROVE  /\ u \o <<x>> \in Seq(T) /\ Len(u \o <<x>>) = Len(u) + 1 /\ (u \o <<x>>)[Len(u) + 1] = x
           /\ \A i \in 1 .. Len(u) : (u \o <<x>>)[i] = u[i]
  OBVIOUS

(* The bits of a character on the line: start, data, parity if there is one,    *)
(* stop.                                                                        *)
LEMMA BitsAre ==
    ASSUME NEW how \in Hows, NEW k \in 1 .. Len(how.chars)
    PROVE  /\ how.chars[k] \in [1 .. DataBits -> {0, 1}] /\ how.chars[k] \in Chars
           /\ BitsOf(how, k)[1] = 0
           /\ \A b \in 1 .. DataBits : BitsOf(how, k)[b + 1] = how.chars[k][b]
           /\ how.parity # "none" =>
                /\ BitCount(how) = DataBits + 2 + how.stop
                /\ BitsOf(how, k)[DataBits + 2] = ParityTold(Fault(how, k), ParityBit(how.parity, how.chars[k]))
                /\ BitsOf(how, k)[DataBits + 3] = (IF Fault(how, k) = "framing" THEN 0 ELSE 1)
                /\ how.stop = 2 => BitsOf(how, k)[DataBits + 4] = 1
           /\ how.parity = "none" =>
                /\ BitCount(how) = DataBits + 1 + how.stop
                /\ BitsOf(how, k)[DataBits + 2] = (IF Fault(how, k) = "framing" THEN 0 ELSE 1)
                /\ how.stop = 2 => BitsOf(how, k)[DataBits + 3] = 1
<1> DEFINE c == how.chars[k]
           p == ParityTold(Fault(how, k), ParityBit(how.parity, c))
           s == IF Fault(how, k) = "framing" THEN 0 ELSE 1
<1>1. c \in Chars /\ c \in [1 .. DataBits -> {0, 1}] /\ DataBits \in Nat \ {0}
  <2>1. how.chars \in Seq(Chars)
    BY DEF Hows
  <2> QED BY <2>1, UartDecodeAssumption DEF UartDecodeAssumption
<1>2. p \in {0, 1} /\ s \in {0, 1}
  <2> DEFINE q == ParityBit(how.parity, c)
  <2>1. q \in {0, 1}
    <3> HIDE DEF c
    <3> QED BY <1>1, ParityIsABit
  <2> HIDE DEF q, c
  <2>2. p \in {0, 1}
    BY <2>1 DEF ParityTold, q
  <2> QED BY <2>2
<1>3. c \in Seq({0, 1}) /\ Len(c) = DataBits
  <2> HIDE DEF c
  <2> QED BY <1>1
<1>4. BitsOf(how, k) = <<0>> \o c \o (IF how.parity = "none" THEN <<>> ELSE <<p>>) \o <<s>>
                       \o (IF how.stop = 2 THEN <<1>> ELSE <<>>)
  BY DEF BitsOf, Fault, ParityTold
<1>5. BitCount(how) = 1 + DataBits + (IF how.parity = "none" THEN 0 ELSE 1) + how.stop /\ how.stop \in {1, 2}
  BY DEF BitCount, Hows
<1> HIDE DEF c, p, s
<1> DEFINE d == <<0>> \o c
<1>6. d \in Seq({0, 1}) /\ Len(d) = DataBits + 1 /\ d[1] = 0 /\ \A b \in 1 .. DataBits : d[b + 1] = c[b]
  BY <1>1, <1>3
<1> DEFINE all == BitsOf(how, k)
<1>7. CASE how.parity # "none" /\ how.stop = 2
  <2>1. all = d \o <<p>> \o <<s>> \o <<1>>
    BY <1>4, <1>7
  <2> HIDE DEF d, all
  <2>2. all[DataBits + 2] = p /\ all[DataBits + 3] = s /\ all[DataBits + 4] = 1
        /\ \A b \in 1 .. DataBits + 1 : all[b] = d[b]
    <3> DEFINE v == d \o <<p>>
               w == v \o <<s>>
    <3>1. v \in Seq({0, 1}) /\ Len(v) = Len(d) + 1 /\ v[Len(d) + 1] = p /\ \A i \in 1 .. Len(d) : v[i] = d[i]
      BY <1>2, <1>6, OneMore
    <3> HIDE DEF v
    <3>2. w \in Seq({0, 1}) /\ Len(w) = Len(v) + 1 /\ w[Len(v) + 1] = s /\ \A i \in 1 .. Len(v) : w[i] = v[i]
      BY <1>2, <3>1, OneMore
    <3> HIDE DEF w
    <3>3. all[Len(w) + 1] = 1 /\ \A i \in 1 .. Len(w) : all[i] = w[i]
      <4>1. all = w \o <<1>> /\ 1 \in {0, 1}
        BY <2>1 DEF w, v
      <4> QED BY <3>2, <4>1, OneMore
    <3> QED BY <1>1, <1>6, <3>1, <3>2, <3>3
  <2>3. 1 \in 1 .. DataBits + 1 /\ \A b \in 1 .. DataBits : b + 1 \in 1 .. DataBits + 1
    BY <1>1
  <2>4. all[1] = 0 /\ \A b \in 1 .. DataBits : all[b + 1] = c[b]
    BY <1>6, <2>2, <2>3
  <2>5. BitCount(how) = DataBits + 2 + how.stop
    BY <1>1, <1>5, <1>7
  <2> QED BY <1>1, <1>7, <2>2, <2>4, <2>5 DEF all, p, s, c
<1>8. CASE how.parity # "none" /\ how.stop = 1
  <2>1. all = d \o <<p>> \o <<s>>
    BY <1>2, <1>3, <1>4, <1>6, <1>8
  <2> HIDE DEF d, all
  <2>2. all[DataBits + 2] = p /\ all[DataBits + 3] = s
        /\ \A b \in 1 .. DataBits + 1 : all[b] = d[b]
    <3> DEFINE v == d \o <<p>>
    <3>1. v \in Seq({0, 1}) /\ Len(v) = Len(d) + 1 /\ v[Len(d) + 1] = p /\ \A i \in 1 .. Len(d) : v[i] = d[i]
      BY <1>2, <1>6, OneMore
    <3> HIDE DEF v
    <3>2. all[Len(v) + 1] = s /\ \A i \in 1 .. Len(v) : all[i] = v[i]
      <4>1. all = v \o <<s>>
        BY <2>1 DEF v
      <4> QED BY <1>2, <3>1, <4>1, OneMore
    <3> QED BY <1>1, <1>6, <3>1, <3>2
  <2>3. 1 \in 1 .. DataBits + 1 /\ \A b \in 1 .. DataBits : b + 1 \in 1 .. DataBits + 1
    BY <1>1
  <2>4. all[1] = 0 /\ \A b \in 1 .. DataBits : all[b + 1] = c[b]
    BY <1>6, <2>2, <2>3
  <2>5. BitCount(how) = DataBits + 2 + how.stop
    BY <1>1, <1>5, <1>8
  <2> QED BY <1>1, <1>8, <2>2, <2>4, <2>5 DEF all, p, s, c
<1>9. CASE how.parity = "none" /\ how.stop = 2
  <2>1. all = d \o <<s>> \o <<1>>
    BY <1>2, <1>3, <1>4, <1>6, <1>9
  <2> HIDE DEF d, all
  <2>2. all[DataBits + 2] = s /\ all[DataBits + 3] = 1
        /\ \A b \in 1 .. DataBits + 1 : all[b] = d[b]
    <3> DEFINE v == d \o <<s>>
    <3>1. v \in Seq({0, 1}) /\ Len(v) = Len(d) + 1 /\ v[Len(d) + 1] = s /\ \A i \in 1 .. Len(d) : v[i] = d[i]
      BY <1>2, <1>6, OneMore
    <3> HIDE DEF v
    <3>2. all[Len(v) + 1] = 1 /\ \A i \in 1 .. Len(v) : all[i] = v[i]
      <4>1. all = v \o <<1>> /\ 1 \in {0, 1}
        BY <2>1 DEF v
      <4> QED BY <3>1, <4>1, OneMore
    <3> QED BY <1>1, <1>6, <3>1, <3>2
  <2>3. 1 \in 1 .. DataBits + 1 /\ \A b \in 1 .. DataBits : b + 1 \in 1 .. DataBits + 1
    BY <1>1
  <2>4. all[1] = 0 /\ \A b \in 1 .. DataBits : all[b + 1] = c[b]
    BY <1>6, <2>2, <2>3
  <2>5. BitCount(how) = DataBits + 1 + how.stop
    BY <1>1, <1>5, <1>9
  <2> QED BY <1>1, <1>9, <2>2, <2>4, <2>5 DEF all, p, s, c
<1>10. CASE how.parity = "none" /\ how.stop = 1
  <2>1. all = d \o <<s>>
    BY <1>2, <1>3, <1>4, <1>6, <1>10
  <2> HIDE DEF d, all
  <2>2. all[DataBits + 2] = s /\ \A b \in 1 .. DataBits + 1 : all[b] = d[b]
    BY <1>1, <1>2, <1>6, <2>1
  <2>3. 1 \in 1 .. DataBits + 1 /\ \A b \in 1 .. DataBits : b + 1 \in 1 .. DataBits + 1
    BY <1>1
  <2>4. all[1] = 0 /\ \A b \in 1 .. DataBits : all[b + 1] = c[b]
    BY <1>6, <2>2, <2>3
  <2>5. BitCount(how) = DataBits + 1 + how.stop
    BY <1>1, <1>5, <1>10
  <2> QED BY <1>1, <1>10, <2>2, <2>4, <2>5 DEF all, p, s, c
<1> QED BY <1>5, <1>7, <1>8, <1>9, <1>10

-----------------------------------------------------------------------------
(* The centres of the bits *)

(* Rounding to the nearest, for an even denominator. *)
LEMMA RoundIs ==
    ASSUME NEW a \in Nat, NEW q \in Nat \ {0}
    PROVE  /\ Round(a, 2 * q) \in Nat
           /\ 2 * (Round(a, 2 * q) * q) <= a + q /\ a <= 2 * (Round(a, 2 * q) * q) + q
<1> DEFINE b == 2 * q
           d == a \div b
           r == a % b
           y == d * q
<1>1. b \in Nat \ {0}
  OBVIOUS
<1>2. d \in Nat /\ r \in 0 .. b - 1 /\ a = b * d + r
  <2> HIDE DEF b
  <2> QED BY <1>1, DivisionOf, Zenon
<1>3. b * d = 2 * y /\ y \in Nat /\ (d + 1) * q = y + q
  <2> HIDE DEF d
  <2> QED BY <1>2, SMT
<1>4. Round(a, b) = IF 2 * r < b \/ (2 * r = b /\ d % 2 = 0) THEN d ELSE d + 1
  BY DEF Round
<1>5. r \in Nat /\ r < 2 * q /\ a = 2 * y + r /\ (2 * r < b <=> r < q) /\ (2 * r = b <=> r = q)
  <2> HIDE DEF d, r, y
  <2> QED BY <1>2, <1>3
<1> DEFINE R == Round(a, b)
<1>6. R = d \/ R = d + 1
  <2> HIDE DEF d, r, b
  <2> QED BY <1>4
<1>7. CASE R = d
  <2>1. r <= q
    <3> HIDE DEF d, r, b, R, y
    <3> QED BY <1>2, <1>4, <1>5, <1>7 DEF R
  <2>2. R * q = y
    BY <1>7
  <2> HIDE DEF R, d, r, y
  <2>3. R \in Nat /\ 2 * (R * q) <= a + q /\ a <= 2 * (R * q) + q
    BY <1>2, <1>3, <1>5, <1>7, <2>1, <2>2
  <2> QED BY <2>3 DEF R, b
<1>8. CASE R = d + 1
  <2>1. r >= q
    <3> HIDE DEF d, r, b, R, y
    <3> QED BY <1>2, <1>4, <1>5, <1>8 DEF R
  <2>2. R * q = y + q
    BY <1>3, <1>8
  <2> HIDE DEF R, d, r, y
  <2>3. R \in Nat /\ 2 * (R * q) <= a + q /\ a <= 2 * (R * q) + q
    <3> DEFINE x == R * q
    <3>1. x = y + q
      BY <2>2
    <3> HIDE DEF x
    <3>2. 2 * x <= a + q /\ a <= 2 * x + q
      BY <1>3, <1>5, <2>1, <3>1
    <3> QED BY <1>2, <1>8, <3>2 DEF x
  <2> QED BY <2>3 DEF R, b
<1> QED BY <1>6, <1>7, <1>8

(* The first sample at or after s, and what is half a bit and b bits after it, is    *)
(* half a bit and b bits after s, to less than a half bit.                           *)
HalfAfter(e, b, w) == e + Round((2 * b + 1) * w, 2 * PerSample)

(* The centre of a bit as the decoder rounds it lies in that bit, at three      *)
(* samples a bit or more.                                                       *)
LEMMA CentreIs ==
    ASSUME NEW e \in Nat, NEW b \in Nat, NEW w \in Nat, 3 * PerSample <= w, NEW s \in Nat,
           s <= e * PerSample, (e - 1) * PerSample < s
    PROVE  /\ HalfAfter(e, b, w) \in Nat /\ e <= HalfAfter(e, b, w)
           /\ s + b * w <= HalfAfter(e, b, w) * PerSample /\ HalfAfter(e, b, w) * PerSample < s + b * w + w
<1> DEFINE P == PerSample
           a == (2 * b + 1) * w
           R == Round(a, 2 * P)
           c == e + R
           x == R * P
           y == b * w
           t == e * P
<1>1. P \in Nat \ {0}
  BY UartDecodeAssumption DEF UartDecodeAssumption
<1>2. a \in Nat /\ a = 2 * y + w /\ y \in Nat
  BY SMT
<1>3. R \in Nat /\ 2 * x <= a + P /\ a <= 2 * x + P
  <2> HIDE DEF P, a
  <2> QED BY <1>1, <1>2, RoundIs
<1>4. t \in Nat /\ (e - 1) * P = t - P /\ x \in Nat /\ c * P = t + x
  <2> HIDE DEF R, P
  <2> QED BY <1>1, <1>3, SMT
<1>5. s <= t /\ t - P < s /\ 3 * P <= w
  <2>1. (e - 1) * P < s
    OBVIOUS
  <2> QED BY <1>4, <2>1
<1> HIDE DEF P, a, R, x, y, t
<1>6. s + y <= t + x /\ t + x < s + y + w
  BY <1>1, <1>2, <1>3, <1>4, <1>5
<1>7. c \in Nat /\ e <= c
  BY <1>3
<1>8. HalfAfter(e, b, w) = c
  BY DEF HalfAfter, c, R, a, P
<1> QED BY <1>4, <1>6, <1>7, <1>8 DEF P, y

EdgeOf(s) == (s + PerSample - 1) \div PerSample

(* The first sample in a bit that starts at s. *)
LEMMA EdgeIs ==
    ASSUME NEW s \in Nat \ {0}
    PROVE  /\ EdgeOf(s) \in Nat \ {0} /\ s <= EdgeOf(s) * PerSample /\ (EdgeOf(s) - 1) * PerSample < s
<1> DEFINE P == PerSample
           u == s + P - 1
           q == u \div P
           r == u % P
           t == q * P
<1>1. P \in Nat \ {0}
  BY UartDecodeAssumption DEF UartDecodeAssumption
<1> HIDE DEF P
<1>2. u \in Nat
  BY <1>1
<1> HIDE DEF u
<1>3. q \in Nat /\ r \in 0 .. P - 1 /\ u = P * q + r
  BY <1>1, <1>2, DivisionOf, Zenon
<1> HIDE DEF q, r
<1>4. P * q = t /\ (q - 1) * P = t - P /\ t \in Nat
  BY <1>1, <1>3, SMT
<1>5. q # 0
  <2> SUFFICES ASSUME q = 0 PROVE FALSE
    OBVIOUS
  <2>1. t = 0
    BY <1>1
  <2> HIDE DEF t
  <2> QED BY <1>1, <1>3, <1>4, <2>1 DEF u
<1> HIDE DEF t
<1>6. s <= t /\ t - P < s
  BY <1>1, <1>3, <1>4 DEF u
<1>7. EdgeOf(s) = q
  BY DEF EdgeOf, q, u, P
<1> QED BY <1>3, <1>4, <1>5, <1>6, <1>7 DEF t, P

(* Samples that are apart are at least the time of one sample apart. *)
LEMMA InOrder ==
    ASSUME NEW i \in Nat, NEW j \in Nat
    PROVE  /\ i * PerSample \in Nat /\ j * PerSample \in Nat /\ (j + 1) * PerSample = j * PerSample + PerSample
           /\ i <= j => i * PerSample <= j * PerSample
           /\ i < j => i * PerSample + PerSample <= j * PerSample
           /\ i * PerSample < j * PerSample => i < j
<1> DEFINE P == PerSample
<1>1. P \in Nat \ {0}
  BY UartDecodeAssumption DEF UartDecodeAssumption
<1> HIDE DEF P
<1>2. i * P \in Nat /\ j * P \in Nat /\ (j + 1) * P = j * P + P
  BY <1>1, SMT
<1>3. i < j => i * P + P <= j * P
  BY <1>1, TimesGrows
<1>4. i = j => i * P = j * P
  OBVIOUS
<1>5. j < i => j * P + P <= i * P
  BY <1>1, TimesGrows
<1> DEFINE x == i * P
           y == j * P
<1>6. (i <= j => x <= y) /\ (x < y => i < j)
  <2>1. x \in Nat /\ y \in Nat /\ (i < j => x + P <= y) /\ (i = j => x = y) /\ (j < i => y + P <= x)
    BY <1>2, <1>3, <1>4, <1>5
  <2> HIDE DEF x, y
  <2> QED BY <1>1, <2>1
<1> QED BY <1>2, <1>3, <1>6 DEF x, y, P

-----------------------------------------------------------------------------
(* Of the line that was taken *)

Edge(k) == EdgeOf(StartsAt(wire.how, k))
InBit(k, b, j) ==
    /\ StartsAt(wire.how, k) + b * wire.how.bit <= j * PerSample
    /\ j * PerSample < StartsAt(wire.how, k) + b * wire.how.bit + wire.how.bit
Complete(k) == EndsAt(wire.how, k) <= (Samples - 1) * PerSample
NoneLeft(m) == \A k \in 1 .. Len(wire.how.chars) : Complete(k) => k <= m

UartTaken ==
    /\ wire.how \in Hows /\ Len(wire.how.chars) # 0
    /\ wire.how.parity = "none" => wire.how.fault # "parity"
    /\ Samples \in Nat \ {0}
    /\ \A j \in 0 .. Samples - 1 : Line[j] = LevelAt(wire.how, j)

(* The stop bit is high but in a framing fault. *)
LEMMA LastBitIs ==
    ASSUME NEW how \in Hows, NEW k \in 1 .. Len(how.chars)
    PROVE  BitsOf(how, k)[BitCount(how)] = 1 \/ (k = Len(how.chars) /\ how.fault = "framing")
<1>1. how.stop \in {1, 2} /\ DataBits \in Nat
  BY UartDecodeAssumption DEF UartDecodeAssumption, Hows
<1> DEFINE s == IF Fault(how, k) = "framing" THEN 0 ELSE 1
           n == BitCount(how)
<1>2. s = 1 \/ (k = Len(how.chars) /\ how.fault = "framing")
  BY DEF Fault
<1>3. CASE how.parity = "none" /\ how.stop = 1
  <2>1. n = DataBits + 1 + how.stop /\ BitsOf(how, k)[DataBits + 2] = s
    BY <1>3, BitsAre
  <2>2. n = DataBits + 2
    BY <1>1, <1>3, <2>1
  <2> HIDE DEF n, s
  <2>3. BitsOf(how, k)[n] = s
    BY <2>1, <2>2
  <2> QED BY <1>2, <2>3 DEF n
<1>4. CASE how.parity = "none" /\ how.stop = 2
  <2>1. n = DataBits + 1 + how.stop /\ BitsOf(how, k)[DataBits + 3] = 1
    BY <1>4, BitsAre
  <2>2. n = DataBits + 3
    BY <1>1, <1>4, <2>1
  <2> HIDE DEF n, s
  <2>3. BitsOf(how, k)[n] = 1
    BY <2>1, <2>2
  <2> QED BY <2>3 DEF n
<1>5. CASE how.parity # "none" /\ how.stop = 1
  <2>1. n = DataBits + 2 + how.stop /\ BitsOf(how, k)[DataBits + 3] = s
    BY <1>5, BitsAre
  <2>2. n = DataBits + 3
    BY <1>1, <1>5, <2>1
  <2> HIDE DEF n, s
  <2>3. BitsOf(how, k)[n] = s
    BY <2>1, <2>2
  <2> QED BY <1>2, <2>3 DEF n
<1>6. CASE how.parity # "none" /\ how.stop = 2
  <2>1. n = DataBits + 2 + how.stop /\ BitsOf(how, k)[DataBits + 4] = 1
    BY <1>6, BitsAre
  <2>2. n = DataBits + 4
    BY <1>1, <1>6, <2>1
  <2> HIDE DEF n, s
  <2>3. BitsOf(how, k)[n] = 1
    BY <2>1, <2>2
  <2> QED BY <2>3 DEF n
<1> QED BY <1>1, <1>3, <1>4, <1>5, <1>6

(* The decoder's centres of the bits of a character, counted from the sample    *)
(* where it starts.                                                             *)
LEMMA CentresAre ==
    ASSUME wire.how \in Hows, NEW k \in Nat \ {0}
    PROVE  /\ Edge(k) \in Nat \ {0} /\ StartsAt(wire.how, k) <= Edge(k) * PerSample
           /\ (Edge(k) - 1) * PerSample < StartsAt(wire.how, k)
           /\ \A b \in Nat : CentreOf(Edge(k), b) \in Nat /\ Edge(k) <= CentreOf(Edge(k), b)
                             /\ InBit(k, b, CentreOf(Edge(k), b))
           /\ \A b, c \in Nat : b < c => CentreOf(Edge(k), b) < CentreOf(Edge(k), c)
<1> DEFINE s == StartsAt(wire.how, k)
           w == wire.how.bit
           e == Edge(k)
<1>1. s \in Nat \ {0} /\ w \in Nat \ {0} /\ 3 * PerSample <= w
  <2>1. FirstAt(wire.how) \in Nat \ {0} /\ w \in Nat \ {0} /\ 3 * PerSample <= w
    BY HowIs
  <2>2. s \in Nat /\ FirstAt(wire.how) <= s
    BY StartsIs
  <2> HIDE DEF s, w
  <2> QED BY <2>1, <2>2
<1>2. e \in Nat \ {0} /\ s <= e * PerSample /\ (e - 1) * PerSample < s
  <2>1. e = EdgeOf(s)
    BY DEF Edge
  <2> HIDE DEF s
  <2> QED BY <1>1, <2>1, EdgeIs
<1> HIDE DEF s, w, e
<1>3. ASSUME NEW b \in Nat
      PROVE  /\ CentreOf(e, b) \in Nat /\ e <= CentreOf(e, b)
             /\ s + b * w <= CentreOf(e, b) * PerSample /\ CentreOf(e, b) * PerSample < s + b * w + w
  <2>1. CentreOf(e, b) = HalfAfter(e, b, w)
    BY DEF CentreOf, HalfAfter, w
  <2>2. e \in Nat /\ w \in Nat /\ s \in Nat
    BY <1>1, <1>2
  <2> QED BY <1>1, <1>2, <2>1, <2>2, CentreIs
<1>4. ASSUME NEW b \in Nat, NEW c \in Nat, b < c PROVE CentreOf(e, b) < CentreOf(e, c)
  <2> DEFINE i == CentreOf(e, b)
             j == CentreOf(e, c)
             x == b * w
             y == c * w
  <2>1. i \in Nat /\ i * PerSample < s + x + w
    BY <1>3
  <2>2. j \in Nat /\ s + y <= j * PerSample
    BY <1>3
  <2>3. x \in Nat /\ y \in Nat /\ x + w <= y
    BY <1>1, <1>4, TimesGrows
  <2> HIDE DEF i, j, x, y
  <2>4. i * PerSample \in Nat /\ j * PerSample \in Nat
    BY <2>1, <2>2, InOrder
  <2> DEFINE u == i * PerSample
             v == j * PerSample
  <2>5. u < v
    <3>1. u \in Nat /\ v \in Nat /\ u < s + x + w /\ s + y <= v
      BY <2>1, <2>2, <2>4
    <3> HIDE DEF u, v
    <3> QED BY <1>1, <2>3, <3>1
  <2>6. i < j
    BY <2>1, <2>2, <2>5, InOrder
  <2> QED BY <2>6 DEF i, j
<1> QED BY <1>2, <1>3, <1>4, Zenon DEF InBit, s, w, e

(* A sample in a bit has the level of that bit. *)
LEMMA LineInBit ==
    ASSUME UartTaken, NEW k \in 1 .. Len(wire.how.chars), NEW b \in Nat, b < BitCount(wire.how),
           NEW j \in Nat, j < Samples, InBit(k, b, j)
    PROVE  Line[j] = BitsOf(wire.how, k)[b + 1]
<1>1. wire.how \in Hows /\ Samples \in Nat
  BY DEF UartTaken
<1>2. j \in 0 .. Samples - 1
  BY <1>1
<1>3. Line[j] = LevelAt(wire.how, j)
  BY <1>2 DEF UartTaken
<1>4. LevelAt(wire.how, j) = BitsOf(wire.how, k)[b + 1]
  BY <1>1, InABit DEF InBit
<1> QED BY <1>3, <1>4

(* A capture that ends before a character does holds no more than the earlier ones. *)
LEMMA EndsBefore ==
    ASSUME wire.how \in Hows, Samples \in Nat \ {0}, NEW m \in Nat,
           (Samples - 1) * PerSample < EndsAt(wire.how, m + 1)
    PROVE  NoneLeft(m)
<1> SUFFICES ASSUME NEW k \in 1 .. Len(wire.how.chars), Complete(k), ~(k <= m) PROVE FALSE
  BY DEF NoneLeft
<1> DEFINE long == BitCount(wire.how) * wire.how.bit
           s == StartsAt(wire.how, m + 1)
           z == StartsAt(wire.how, k)
           p == Pitch(wire.how)
           t == (Samples - 1) * PerSample
<1>1. long \in Nat /\ p \in Nat
  BY HowIs
<1>2. k \in Nat \ {0} /\ m + 1 \in Nat \ {0} /\ (m + 1 = k \/ m + 1 < k)
  OBVIOUS
<1>3. s \in Nat /\ z \in Nat /\ (m + 1 < k => s + p <= z)
  BY <1>2, StartsIs
<1>4. z + long <= t /\ t < s + long
  BY DEF Complete, EndsAt
<1>5. t \in Nat
  <2>1. Samples - 1 \in Nat
    OBVIOUS
  <2> QED BY <2>1, InOrder
<1>6. m + 1 = k => s = z
  OBVIOUS
<1> HIDE DEF long, s, z, p, t
<1>7. s <= z
  BY <1>1, <1>2, <1>3, <1>6
<1> QED BY <1>1, <1>3, <1>4, <1>5, <1>7

(* where the search stands after m characters *)
SearchedTo(m, i) ==
    IF m = 0 THEN i = (IF wire.how.glitch THEN 1 ELSE 0) ELSE InBit(m, BitCount(wire.how) - 1, i)

(* From there the line is high until the next character starts. *)
LEMMA QuietBefore ==
    ASSUME wire.how \in Hows, NEW m \in Nat, m < Len(wire.how.chars), NEW i \in Nat, SearchedTo(m, i), NEW j \in Nat,
           i <= j, m = 0 /\ wire.how.glitch => j # 1, j * PerSample < StartsAt(wire.how, m + 1)
    PROVE  LevelAt(wire.how, j) = 1
<1>1. CASE m = 0
  <2>1. StartsAt(wire.how, 0 + 1) = FirstAt(wire.how)
    <3>1. 1 \in Nat \ {0} /\ 0 + 1 = 1
      OBVIOUS
    <3>2. StartsAt(wire.how, 1) = FirstAt(wire.how)
      BY <3>1, StartsIs
    <3> QED BY <3>1, <3>2
  <2>2. j * PerSample < FirstAt(wire.how) /\ ~(wire.how.glitch /\ j = 1)
    BY <1>1, <2>1
  <2> QED BY <2>2, BeforeTheFirst
<1>2. CASE m # 0
  <2> DEFINE c == BitCount(wire.how)
             b == c - 1
             w == wire.how.bit
             s == StartsAt(wire.how, m)
             long == c * w
             t == j * PerSample
             u == i * PerSample
             y == b * w
  <2>1. c \in Nat /\ c >= 2 /\ w \in Nat /\ long \in Nat /\ Len(wire.how.chars) \in Nat
    <3>1. c \in Nat /\ c >= DataBits + 2 /\ DataBits \in Nat \ {0} /\ w \in Nat \ {0} /\ long \in Nat
          /\ Len(wire.how.chars) \in Nat
      BY HowIs
    <3> HIDE DEF c, w, long
    <3> QED BY <3>1
  <2>2. b \in Nat /\ b < c /\ b + 1 = c
    BY <2>1
  <2>3. long = y + w /\ y \in Nat
    <3> HIDE DEF c, w
    <3> QED BY <2>1, <2>2, SMT
  <2>4. s + y <= u /\ u < s + y + w
    BY <1>2 DEF SearchedTo, InBit
  <2>5. u \in Nat /\ t \in Nat /\ u <= t
    BY InOrder
  <2>6. m \in Nat \ {0} /\ m \in 1 .. Len(wire.how.chars)
    BY <1>2, <2>1
  <2>7. s \in Nat
    BY <2>6, StartsIs
  <2>8. CASE t < s + y + w
    <3>1. s + y <= t /\ t < s + y + w
      <4> HIDE DEF s, y, t, w, u
      <4> QED BY <2>1, <2>3, <2>4, <2>5, <2>7, <2>8
    <3>2. LevelAt(wire.how, j) = BitsOf(wire.how, m)[b + 1]
      <4> HIDE DEF b
      <4> QED BY <2>2, <2>6, <3>1, InABit DEF c
    <3>3. BitsOf(wire.how, m)[BitCount(wire.how)] = 1
      <4>1. m # Len(wire.how.chars)
        BY <2>1
      <4> QED BY <2>6, <4>1, LastBitIs
    <3> QED BY <2>2, <3>2, <3>3
  <2>9. CASE ~(t < s + y + w)
    <3>1. EndsAt(wire.how, m) <= t
      <4>1. EndsAt(wire.how, m) = s + long
        BY DEF EndsAt
      <4> HIDE DEF s, y, t, w, long
      <4> QED BY <2>1, <2>3, <2>5, <2>7, <2>9, <4>1
    <3> QED BY <2>6, <3>1, AfterTheBits
  <2> QED BY <2>8, <2>9
<1> QED BY <1>1, <1>2

(* After the last one it does not fall again. *)
LEMMA QuietAfter ==
    ASSUME wire.how \in Hows, Len(wire.how.chars) # 0, NEW i \in Nat, SearchedTo(Len(wire.how.chars), i),
           NEW j \in Nat, i <= j, LevelAt(wire.how, j + 1) = 0
    PROVE  LevelAt(wire.how, j) # 1
<1> DEFINE n == Len(wire.how.chars)
           c == BitCount(wire.how)
           b == c - 1
           w == wire.how.bit
           s == StartsAt(wire.how, n)
           long == c * w
           u == i * PerSample
           t == j * PerSample
           v == (j + 1) * PerSample
           y == b * w
<1>1. c \in Nat /\ c >= 2 /\ w \in Nat /\ long \in Nat /\ n \in Nat /\ PerSample \in Nat
  <2>1. c \in Nat /\ c >= DataBits + 2 /\ DataBits \in Nat \ {0}
    BY HowIs, Zenon
  <2>2. w \in Nat \ {0} /\ long \in Nat /\ n \in Nat /\ PerSample \in Nat \ {0}
    BY HowIs, Zenon
  <2> QED BY <2>1, <2>2
<1>2. b \in Nat /\ b < c /\ b + 1 = c
  BY <1>1
<1>3. long = y + w /\ y \in Nat
  <2> HIDE DEF c, w
  <2> QED BY <1>1, <1>2, SMT
<1>4. s + y <= u /\ u < s + y + w
  BY DEF SearchedTo, InBit
<1>5. u \in Nat /\ t \in Nat /\ u <= t /\ v = t + PerSample
  BY InOrder
<1>6. n \in Nat \ {0} /\ n \in 1 .. Len(wire.how.chars) /\ ~(n < Len(wire.how.chars))
  BY <1>1
<1>7. s \in Nat
  BY <1>6, StartsIs
<1>8. v < s + y + w
  <2> SUFFICES ASSUME ~(v < s + y + w) PROVE FALSE
    OBVIOUS
  <2>1. EndsAt(wire.how, n) <= v
    <3>1. EndsAt(wire.how, n) = s + long
      BY DEF EndsAt
    <3>2. v \in Nat
      BY <1>1, <1>5
    <3> HIDE DEF s, y, v, w, long
    <3> QED BY <1>1, <1>3, <1>7, <3>1, <3>2
  <2>2. j + 1 \in Nat
    OBVIOUS
  <2>3. LevelAt(wire.how, j + 1) = 1
    BY <1>6, <2>1, <2>2, AfterTheBits
  <2> QED BY <2>3
<1>9. s + y <= v /\ s + y <= t /\ t < s + y + w
  <2> HIDE DEF s, y, t, v, w, u
  <2> QED BY <1>1, <1>3, <1>4, <1>5, <1>7, <1>8
<1>10. LevelAt(wire.how, j) = BitsOf(wire.how, n)[b + 1]
  <2> HIDE DEF b, n
  <2> QED BY <1>2, <1>6, <1>9, InABit DEF c
<1>11. LevelAt(wire.how, j + 1) = BitsOf(wire.how, n)[b + 1]
  <2>1. j + 1 \in Nat
    OBVIOUS
  <2> HIDE DEF b, n
  <2> QED BY <1>2, <1>6, <1>8, <1>9, <2>1, InABit DEF c
<1> QED BY <1>10, <1>11

(* What a falling edge is among the samples. *)
LEMMA EdgesAre ==
    ASSUME Samples \in Nat \ {0}, scanAt \in Nat, NEW j \in Edges
    PROVE  /\ j \in Nat /\ scanAt <= j /\ j + 1 \in Nat /\ j + 1 < Samples
           /\ j \in 0 .. Samples - 1 /\ j + 1 \in 0 .. Samples - 1
           /\ Line[j] = 1 /\ Line[j + 1] = 0
  BY DEF Edges

(* The search stops at the first falling edge. *)
LEMMA NextIs ==
    ASSUME Samples \in Nat \ {0}, scanAt \in Nat, NEW e \in Edges, \A j \in Edges : e <= j
    PROVE  NextEdge = e + 1
<1>1. \A j \in Edges : j \in Nat
  BY EdgesAre
<1>2. \A i \in Edges : (\A j \in Edges : i <= j) => i = e
  <2> SUFFICES ASSUME NEW i \in Edges, \A j \in Edges : i <= j PROVE i = e
    OBVIOUS
  <2>1. i \in Nat /\ e \in Nat
    BY <1>1
  <2>2. i <= e /\ e <= i
    OBVIOUS
  <2> QED BY <2>1, <2>2
<1> DEFINE least == CHOOSE i \in Edges : \A j \in Edges : i <= j
<1>3. least = e
  <2>1. \E i \in Edges : \A j \in Edges : i <= j
    OBVIOUS
  <2>2. least \in Edges /\ \A j \in Edges : least <= j
    BY <2>1, Zenon
  <2> HIDE DEF least
  <2> QED BY <1>2, <2>2
<1>4. NextEdge = least + 1
  BY DEF NextEdge
<1> HIDE DEF least
<1> QED BY <1>3, <1>4

(* The search finds the start of the next character. *)
LEMMA Following ==
    ASSUME UartTaken, scanAt \in Nat, NEW m \in Nat, m < Len(wire.how.chars), SearchedTo(m, scanAt)
    PROVE  /\ Edges # {} => Edge(m + 1) < Samples /\ NextEdge = Edge(m + 1)
           /\ Edges = {} => Samples <= Edge(m + 1)
<1> DEFINE e == Edge(m + 1)
           s == StartsAt(wire.how, m + 1)
<1>1. wire.how \in Hows /\ Samples \in Nat \ {0} /\ \A j \in 0 .. Samples - 1 : Line[j] = LevelAt(wire.how, j)
  BY DEF UartTaken
<1>2. m + 1 \in Nat \ {0} /\ m + 1 \in 1 .. Len(wire.how.chars)
  <2>1. Len(wire.how.chars) \in Nat
    BY <1>1, HowIs
  <2> QED BY <2>1
<1>3. e \in Nat \ {0} /\ s <= e * PerSample /\ (e - 1) * PerSample < s /\ e - 1 \in Nat
  <2>1. e \in Nat \ {0} /\ s <= e * PerSample /\ (e - 1) * PerSample < s
    BY <1>1, <1>2, CentresAre
  <2> HIDE DEF e, s
  <2> QED BY <2>1
<1>4. FirstAt(wire.how) \in Nat /\ FirstAt(wire.how) <= s /\ s \in Nat /\ PerSample \in Nat \ {0}
      /\ 3 * PerSample <= wire.how.bit /\ wire.how.bit \in Nat
      /\ (wire.how.glitch => FirstAt(wire.how) > wire.how.bit + 2 * PerSample)
  <2>1. s \in Nat /\ FirstAt(wire.how) <= s
    BY <1>1, <1>2, StartsIs
  <2> HIDE DEF s
  <2> QED BY <1>1, <2>1, HowIs
<1>5. wire.how.glitch => e > 2
  <2> SUFFICES ASSUME wire.how.glitch, ~(e > 2) PROVE FALSE
    BY <1>3
  <2> HIDE DEF e, s
  <2>1. e <= 2 /\ 2 \in Nat /\ e \in Nat
    BY <1>3
  <2>2. e * PerSample <= 2 * PerSample /\ e * PerSample \in Nat
    BY <2>1, InOrder
  <2> DEFINE t == e * PerSample
  <2>3. t \in Nat /\ t <= 2 * PerSample /\ s <= t
    BY <1>3, <2>2
  <2> HIDE DEF t
  <2> QED BY <1>4, <2>3
<1>6. scanAt < e
  <2>1. CASE m = 0
    <3>1. scanAt = 0 \/ (scanAt = 1 /\ wire.how.glitch)
      BY <2>1 DEF SearchedTo
    <3> HIDE DEF e
    <3> QED BY <1>3, <1>5, <3>1
  <2>2. CASE m # 0
    <3> DEFINE c == BitCount(wire.how)
               w == wire.how.bit
               long == c * w
               y == (c - 1) * w
               z == StartsAt(wire.how, m)
               u == scanAt * PerSample
               t == e * PerSample
    <3>1. c \in Nat /\ long \in Nat /\ long <= Pitch(wire.how) /\ Pitch(wire.how) \in Nat /\ w \in Nat
      BY <1>1, HowIs
    <3>2. long = y + w /\ y \in Int
      <4> HIDE DEF c, w
      <4> QED BY <3>1, SMT
    <3>3. z \in Nat /\ s = z + Pitch(wire.how)
      <4>1. m \in Nat \ {0}
        BY <2>2
      <4> QED BY <1>1, <4>1, StartsIs
    <3>4. u < z + y + w
      BY <2>2 DEF SearchedTo, InBit
    <3>5. u \in Nat /\ t \in Nat
      BY <1>3, InOrder
    <3>6. u < t
      <4>1. s <= t
        BY <1>3
      <4> HIDE DEF c, w, long, y, z, u, t, s
      <4> QED BY <3>1, <3>2, <3>3, <3>4, <3>5, <4>1
    <3> HIDE DEF e
    <3> QED BY <1>3, <3>6, InOrder
  <2> QED BY <2>1, <2>2
<1> HIDE DEF e, s
<1>7. ASSUME NEW j \in Edges PROVE e - 1 <= j
  <2> SUFFICES ASSUME ~(e - 1 <= j) PROVE FALSE
    OBVIOUS
  <2>1. j \in Nat /\ scanAt <= j /\ j + 1 \in 0 .. Samples - 1 /\ Line[j + 1] = 0
    BY <1>1, EdgesAre
  <2>2. j + 1 \in Nat /\ j + 1 <= e - 1 /\ scanAt <= j + 1
    BY <1>3, <2>1
  <2>3. (j + 1) * PerSample < s
    <3> DEFINE u == (j + 1) * PerSample
               v == (e - 1) * PerSample
    <3>1. u \in Nat /\ v \in Nat /\ u <= v
      BY <1>3, <2>2, InOrder
    <3>2. v < s
      BY <1>3
    <3> HIDE DEF u, v
    <3>3. u < s
      BY <1>4, <3>1, <3>2
    <3> QED BY <3>3 DEF u
  <2>4. m = 0 /\ wire.how.glitch => j + 1 # 1
    BY <2>1 DEF SearchedTo
  <2>5. LevelAt(wire.how, j + 1) = 1
    <3> DEFINE i == j + 1
    <3>1. i \in Nat /\ scanAt <= i /\ (m = 0 /\ wire.how.glitch => i # 1) /\ i * PerSample < s
      BY <2>2, <2>3, <2>4
    <3> HIDE DEF i
    <3>2. LevelAt(wire.how, i) = 1
      BY <1>1, <3>1, QuietBefore DEF s
    <3> QED BY <3>2 DEF i
  <2> QED BY <1>1, <2>1, <2>5
<1>8. ASSUME e < Samples PROVE e - 1 \in Edges
  <2>1. e - 1 \in scanAt .. Samples - 2 /\ e - 1 \in 0 .. Samples - 1 /\ e \in 0 .. Samples - 1 /\ (e - 1) + 1 = e
    BY <1>1, <1>3, <1>6, <1>8
  <2>2. Line[e - 1] = 1
    <3> DEFINE i == e - 1
    <3>1. i \in Nat /\ scanAt <= i /\ (m = 0 /\ wire.how.glitch => i # 1) /\ i * PerSample < s
      BY <1>3, <1>5, <1>6
    <3> HIDE DEF i
    <3>2. LevelAt(wire.how, i) = 1
      BY <1>1, <3>1, QuietBefore DEF s
    <3> QED BY <1>1, <2>1, <3>2 DEF i
  <2>3. Line[e] = 0
    <3>1. InBit(m + 1, 0, e)
      <4> DEFINE w == wire.how.bit
                 x == 0 * w
                 t == e * PerSample
                 v == (e - 1) * PerSample
      <4>1. x = 0 /\ w \in Nat
        BY <1>4
      <4>2. t \in Nat /\ v \in Nat /\ t = v + PerSample
        <5>1. (e - 1) + 1 = e
          BY <1>3
        <5>2. ((e - 1) + 1) * PerSample = (e - 1) * PerSample + PerSample /\ (e - 1) * PerSample \in Nat
          BY <1>3, InOrder
        <5>3. t \in Nat
          BY <1>3, InOrder
        <5> QED BY <5>1, <5>2, <5>3
      <4>3. s <= t /\ v < s
        BY <1>3
      <4> HIDE DEF w, x, t, v
      <4>4. s + x <= t /\ t < s + x + w
        BY <1>4, <4>1, <4>2, <4>3 DEF w
      <4> QED BY <4>4 DEF InBit, s, w, x, t
    <3>2. 0 \in Nat /\ 0 < BitCount(wire.how) /\ 0 + 1 = 1
      <4>1. BitCount(wire.how) \in Nat /\ BitCount(wire.how) >= DataBits + 2 /\ DataBits \in Nat \ {0}
        BY <1>1, HowIs
      <4> QED BY <4>1
    <3>3. Line[e] = BitsOf(wire.how, m + 1)[0 + 1]
      BY <1>2, <1>3, <1>8, <3>1, <3>2, LineInBit
    <3>4. BitsOf(wire.how, m + 1)[1] = 0
      BY <1>1, <1>2, BitsAre
    <3> QED BY <3>2, <3>3, <3>4
  <2> QED BY <2>1, <2>2, <2>3 DEF Edges
<1>9. ASSUME Edges # {} PROVE e < Samples /\ NextEdge = e
  <2>1. PICK j \in Edges : TRUE
    BY <1>9
  <2>2. e < Samples
    <3>1. j \in Nat /\ j + 1 < Samples /\ e - 1 <= j
      BY <1>1, <1>7, EdgesAre
    <3> QED BY <1>1, <1>3, <3>1
  <2>3. e - 1 \in Edges
    BY <1>8, <2>2
  <2>4. NextEdge = (e - 1) + 1
    <3> DEFINE i == e - 1
    <3>1. i \in Edges /\ \A k \in Edges : i <= k
      BY <1>7, <2>3
    <3> HIDE DEF i
    <3>2. NextEdge = i + 1
      BY <1>1, <3>1, NextIs
    <3> QED BY <3>2 DEF i
  <2> QED BY <1>3, <2>2, <2>4
<1>10. ASSUME Edges = {} PROVE Samples <= e
  <2>1. ~(e < Samples)
    BY <1>8, <1>10
  <2> QED BY <1>1, <1>3, <2>1
<1> QED BY <1>9, <1>10 DEF e

(* Behind the last character there is no falling edge. *)
LEMMA NoneFollows ==
    ASSUME UartTaken, scanAt \in Nat, SearchedTo(Len(wire.how.chars), scanAt)
    PROVE  Edges = {}
<1> SUFFICES ASSUME NEW j \in Edges PROVE FALSE
  OBVIOUS
<1>1. wire.how \in Hows /\ Samples \in Nat \ {0} /\ Len(wire.how.chars) # 0
      /\ \A i \in 0 .. Samples - 1 : Line[i] = LevelAt(wire.how, i)
  BY DEF UartTaken
<1>2. j \in Nat /\ scanAt <= j /\ j \in 0 .. Samples - 1 /\ j + 1 \in 0 .. Samples - 1
      /\ Line[j] = 1 /\ Line[j + 1] = 0
  BY <1>1, EdgesAre
<1>3. LevelAt(wire.how, j) = 1 /\ LevelAt(wire.how, j + 1) = 0
  BY <1>1, <1>2
<1> QED BY <1>1, <1>2, <1>3, QuietAfter

(* Of a start bit whose middle was not captured nothing is left but low samples. *)
LEMMA LateStart ==
    ASSUME UartTaken, NEW k \in 1 .. Len(wire.how.chars), scanAt = Edge(k), Samples <= CentreOf(Edge(k), 0)
    PROVE  Edges = {}
<1> SUFFICES ASSUME NEW j \in Edges PROVE FALSE
  OBVIOUS
<1> DEFINE c == CentreOf(Edge(k), 0)
           s == StartsAt(wire.how, k)
           e == Edge(k)
<1>1. wire.how \in Hows /\ Samples \in Nat \ {0}
  BY DEF UartTaken
<1>2. k \in Nat \ {0} /\ 0 \in Nat
  OBVIOUS
<1>3. e \in Nat /\ s <= e * PerSample /\ c \in Nat /\ InBit(k, 0, c) /\ s \in Nat
  BY <1>1, <1>2, CentresAre, StartsIs
<1>4. j \in Nat /\ e <= j /\ j < Samples /\ Line[j] = 1
  <2>1. j \in Nat /\ scanAt <= j /\ j + 1 < Samples /\ Line[j] = 1
    BY <1>1, <1>3, EdgesAre
  <2> QED BY <1>1, <2>1
<1>5. j < c
  <2>1. Samples <= c
    OBVIOUS
  <2> HIDE DEF c
  <2> QED BY <1>1, <1>3, <1>4, <2>1
<1> HIDE DEF c, e
<1>6. InBit(k, 0, j)
  <2> DEFINE w == wire.how.bit
             x == 0 * w
             t == j * PerSample
             u == c * PerSample
             v == e * PerSample
  <2>1. w \in Nat
    BY <1>1, HowIs
  <2>2. x = 0
    BY <2>1
  <2>3. t \in Nat /\ v \in Nat /\ v <= t
    BY <1>3, <1>4, InOrder
  <2>4. u \in Nat /\ t <= u
    <3>1. j <= c
      BY <1>3, <1>4, <1>5
    <3> QED BY <1>3, <1>4, <3>1, InOrder
  <2>5. u < s + x + w /\ s <= v
    BY <1>3 DEF InBit
  <2> HIDE DEF s, w, x, t, u, v
  <2>6. s + x <= t /\ t < s + x + w
    BY <1>3, <2>1, <2>2, <2>3, <2>4, <2>5
  <2> QED BY <2>6 DEF InBit, s, w, x, t
<1>7. 0 < BitCount(wire.how) /\ 0 + 1 = 1
  <2>1. BitCount(wire.how) \in Nat /\ BitCount(wire.how) >= DataBits + 2 /\ DataBits \in Nat \ {0}
    BY <1>1, HowIs
  <2> QED BY <2>1
<1>8. Line[j] = BitsOf(wire.how, k)[0 + 1]
  BY <1>2, <1>4, <1>6, <1>7, LineInBit
<1>9. BitsOf(wire.how, k)[1] = 0
  BY <1>1, BitsAre
<1> QED BY <1>4, <1>7, <1>8, <1>9

(* A lone low sample is not a start. *)
LEMMA GlitchIsNoStart ==
    ASSUME UartTaken, wire.how.glitch, scanAt = 0
    PROVE  /\ Edges # {} => NextEdge = 1 /\ ~RealStart
           /\ Edges = {} => Samples = 1
<1>1. wire.how \in Hows /\ Samples \in Nat \ {0} /\ \A i \in 0 .. Samples - 1 : Line[i] = LevelAt(wire.how, i)
  BY DEF UartTaken
<1>2. FirstAt(wire.how) \in Nat \ {0} /\ wire.how.bit \in Nat /\ PerSample \in Nat \ {0}
      /\ 3 * PerSample <= wire.how.bit /\ FirstAt(wire.how) > wire.how.bit + 2 * PerSample
  BY <1>1, HowIs
<1>3. LevelAt(wire.how, 0) = 1 /\ LevelAt(wire.how, 1) = 0
  <2>1. 0 * PerSample < FirstAt(wire.how) /\ 0 \in Nat /\ 0 # 1
    BY <1>2
  <2>2. LevelAt(wire.how, 0) = 1
    BY <1>1, <2>1, BeforeTheFirst
  <2>3. LevelAt(wire.how, 1) = 0
    BY DEF LevelAt
  <2> QED BY <2>2, <2>3
<1>4. ASSUME Samples # 1 PROVE 0 \in Edges
  <2>1. 0 \in 0 .. Samples - 1 /\ 1 \in 0 .. Samples - 1 /\ 0 \in scanAt .. Samples - 2 /\ 0 + 1 = 1
    BY <1>1, <1>4
  <2> QED BY <1>1, <1>3, <2>1 DEF Edges
<1>5. ASSUME Edges # {} PROVE NextEdge = 1
  <2>1. PICK j \in Edges : TRUE
    BY <1>5
  <2>2. scanAt \in Nat
    OBVIOUS
  <2>3. \A i \in Edges : 0 <= i
    <3>1. \A i \in Edges : i \in Nat
      BY <1>1, <2>2, EdgesAre
    <3> QED BY <3>1
  <2>4. Samples # 1
    <3>1. j \in Nat /\ j + 1 < Samples
      BY <1>1, <2>2, EdgesAre
    <3> QED BY <3>1
  <2>5. NextEdge = 0 + 1
    BY <1>1, <1>4, <2>2, <2>3, <2>4, NextIs
  <2> QED BY <2>5
<1>6. ASSUME NextEdge = 1, RealStart PROVE FALSE
  <2> DEFINE c == CentreOf(1, 0)
             w == wire.how.bit
             x == 0 * w
             t == c * PerSample
  <2>1. c < Samples /\ Line[c] = 0
    BY <1>6 DEF RealStart, Captured
  <2>2. c = HalfAfter(1, 0, w)
    BY DEF CentreOf, HalfAfter
  <2>3. c \in Nat /\ 1 <= c /\ PerSample + x <= t /\ t < PerSample + x + w
    <3> HIDE DEF c, w
    <3>1. 1 \in Nat /\ 0 \in Nat /\ PerSample \in Nat /\ PerSample <= 1 * PerSample /\ (1 - 1) * PerSample < PerSample
      BY <1>2
    <3> QED BY <1>2, <2>2, <3>1, CentreIs DEF w
  <2>4. x = 0 /\ w \in Nat /\ t \in Nat
    <3>1. x = 0 /\ w \in Nat
      BY <1>2
    <3> QED BY <2>3, <3>1, InOrder
  <2>5. c # 1
    <3> SUFFICES ASSUME c = 1 PROVE FALSE
      OBVIOUS
    <3>1. HalfAfter(1, 0, w) = 1
      BY <2>2
    <3> DEFINE a == (2 * 0 + 1) * w
               R == Round(a, 2 * PerSample)
    <3>2. a = w
      BY <2>4
    <3>3. R = 0
      <4>1. R \in Nat
        <5> HIDE DEF a
        <5> QED BY <1>2, <2>4, <3>2, RoundIs
      <4>2. 1 + R = 1
        BY <3>1 DEF HalfAfter
      <4> HIDE DEF R
      <4> QED BY <4>1, <4>2
    <3>4. a <= 2 * (R * PerSample) + PerSample
      <4> HIDE DEF a
      <4> QED BY <1>2, <2>4, <3>2, RoundIs
    <3> HIDE DEF R, a
    <3> QED BY <1>2, <2>4, <3>2, <3>3, <3>4
  <2> HIDE DEF c
  <2>6. t < FirstAt(wire.how)
    <3> HIDE DEF w, x, t
    <3> QED BY <1>2, <2>3, <2>4 DEF w
  <2>7. LevelAt(wire.how, c) = 1
    BY <1>1, <2>3, <2>5, <2>6, BeforeTheFirst
  <2>8. c \in 0 .. Samples - 1
    BY <1>1, <2>1, <2>3
  <2> QED BY <1>1, <2>1, <2>7, <2>8
<1> QED BY <1>4, <1>5, <1>6

-----------------------------------------------------------------------------
(* What is kept *)

SeenRight(f, frame) ==
    /\ frame.bits = wire.how.chars[f] /\ frame.start = Edge(f)
    /\ frame.error \in {Fault(wire.how, f), "none"}
    /\ Complete(f) => frame.error = Fault(wire.how, f)

(* The search is in the last bit of the character that it found last; or no more    *)
(* characters are in the capture than it has found, and it has come to the end or   *)
(* to a start bit whose middle was not captured.                                    *)
SearchAt ==
    \/ SearchedTo(Len(uartSeen), scanAt)
    \/ Len(uartSeen) = 0 /\ wire.how.glitch /\ scanAt = 0
    \/ /\ NoneLeft(Len(uartSeen))
       /\ \/ scanAt >= Samples
          \/ \E k \in 1 .. Len(wire.how.chars) : scanAt = Edge(k) /\ Samples <= CentreOf(Edge(k), 0)

UartKept ==
    /\ UartTaken
    /\ scanAt \in Nat
    /\ uartSeen \in Seq([start : Nat, bits : Chars, error : {"none", "parity", "framing"}])
    /\ Len(uartSeen) <= Len(wire.how.chars)
    /\ \A f \in 1 .. Len(uartSeen) : SeenRight(f, uartSeen[f])
    /\ SearchAt

(* The types that what is kept gives. *)
LEMMA KeptIs ==
    ASSUME UartKept
    PROVE  /\ wire.how \in Hows /\ Samples \in Nat \ {0} /\ Len(wire.how.chars) \in Nat \ {0}
           /\ Len(uartSeen) \in Nat /\ Len(uartSeen) <= Len(wire.how.chars) /\ scanAt \in Nat
<1>1. wire.how \in Hows /\ Samples \in Nat \ {0} /\ Len(wire.how.chars) # 0
  BY DEF UartKept, UartTaken
<1>2. Len(wire.how.chars) \in Nat
  BY <1>1, HowIs
<1>3. Len(uartSeen) \in Nat /\ Len(uartSeen) <= Len(wire.how.chars) /\ scanAt \in Nat
  BY DEF UartKept
<1> QED BY <1>1, <1>2, <1>3

(* A step that finds no character keeps what it keeps if the search stands right. *)
LEMMA SearchGoesOn ==
    ASSUME UartKept, UNCHANGED <<wire, uartSeen>>, scanAt' \in Nat,
           \/ SearchedTo(Len(uartSeen), scanAt')
           \/ /\ NoneLeft(Len(uartSeen))
              /\ \/ scanAt' >= Samples
                 \/ \E k \in 1 .. Len(wire.how.chars) : scanAt' = Edge(k) /\ Samples <= CentreOf(Edge(k), 0)
    PROVE  UartKept'
<1>1. wire' = wire /\ uartSeen' = uartSeen /\ UNCHANGED wire
  OBVIOUS
<1>2. SearchAt'
  <2>1. CASE SearchedTo(Len(uartSeen), scanAt')
    <3>1. SearchedTo(Len(uartSeen), scanAt)'
      BY <1>1, <2>1 DEF SearchedTo, InBit
    <3> QED BY <3>1 DEF SearchAt
  <2>2. CASE NoneLeft(Len(uartSeen)) /\ scanAt' >= Samples
    <3>1. NoneLeft(Len(uartSeen))' /\ Samples' = Samples
      BY <1>1, <2>2 DEF NoneLeft, Complete, Samples, Line
    <3>2. scanAt' >= Samples'
      BY <2>2, <3>1
    <3> QED BY <3>1, <3>2 DEF SearchAt
  <2>3. ASSUME NoneLeft(Len(uartSeen)), NEW k \in 1 .. Len(wire.how.chars), scanAt' = Edge(k),
               Samples <= CentreOf(Edge(k), 0)
        PROVE  SearchAt'
    <3>1. NoneLeft(Len(uartSeen))' /\ Samples' = Samples
      BY <1>1, <2>3 DEF NoneLeft, Complete, Samples, Line
    <3>2. k \in 1 .. Len(wire'.how.chars) /\ scanAt' = Edge(k)' /\ Samples' <= CentreOf(Edge(k), 0)'
      BY <1>1, <2>3, <3>1 DEF Edge, CentreOf
    <3> QED BY <3>1, <3>2 DEF SearchAt
  <2> QED BY <2>1, <2>2, <2>3
<1>3. UartTaken'
  BY <1>1 DEF UartKept, UartTaken, Samples, Line
<1>4. \A f \in 1 .. Len(uartSeen') : SeenRight(f, uartSeen[f])'
  <2>1. \A f \in 1 .. Len(uartSeen) : SeenRight(f, uartSeen[f])
    BY DEF UartKept
  <2> QED BY <1>1, <2>1 DEF SeenRight, Edge, Complete, Samples, Line
<1> QED BY <1>1, <1>2, <1>3, <1>4 DEF UartKept

(* Which start the search finds, if it finds any *)
LEMMA Found ==
    ASSUME UartKept
    PROVE  /\ Edges # {} =>
                \/ /\ SearchedTo(Len(uartSeen), scanAt) /\ Len(uartSeen) < Len(wire.how.chars)
                   /\ NextEdge = Edge(Len(uartSeen) + 1) /\ NextEdge < Samples
                \/ /\ Len(uartSeen) = 0 /\ wire.how.glitch /\ NextEdge = 1 /\ ~RealStart
           /\ Edges = {} => NoneLeft(Len(uartSeen))
<1> DEFINE m == Len(uartSeen)
           n == Len(wire.how.chars)
<1>1. wire.how \in Hows /\ Samples \in Nat \ {0} /\ n \in Nat \ {0} /\ m \in Nat /\ m <= n /\ scanAt \in Nat /\ UartTaken
  BY KeptIs DEF UartKept
<1>2. CASE SearchedTo(m, scanAt) /\ m < n
  <2>1. /\ Edges # {} => Edge(m + 1) < Samples /\ NextEdge = Edge(m + 1)
        /\ Edges = {} => Samples <= Edge(m + 1)
    <3> HIDE DEF m
    <3> QED BY <1>1, <1>2, Following
  <2>2. ASSUME Samples <= Edge(m + 1) PROVE NoneLeft(m)
    <3> DEFINE e == Edge(m + 1)
               s == StartsAt(wire.how, m + 1)
               t == (Samples - 1) * PerSample
    <3> HIDE DEF m
    <3>1. m + 1 \in Nat \ {0}
      BY <1>1
    <3>2. e \in Nat \ {0} /\ (e - 1) * PerSample < s /\ s \in Nat
      BY <1>1, <3>1, CentresAre, StartsIs
    <3>3. BitCount(wire.how) * wire.how.bit \in Nat
      BY <1>1, HowIs
    <3>4. t < EndsAt(wire.how, m + 1)
      <4>1. Samples <= e
        BY <2>2
      <4> DEFINE i == Samples - 1
                 j == e - 1
      <4>2. i \in Nat /\ j \in Nat /\ i <= j
        <5> HIDE DEF e
        <5> QED BY <1>1, <3>2, <4>1
      <4> HIDE DEF i, j
      <4>3. i * PerSample \in Nat /\ j * PerSample \in Nat /\ i * PerSample <= j * PerSample
        BY <4>2, InOrder
      <4> DEFINE u == i * PerSample
                 v == j * PerSample
                 long == BitCount(wire.how) * wire.how.bit
      <4>4. v < s /\ t = u /\ EndsAt(wire.how, m + 1) = s + long /\ u \in Nat /\ v \in Nat /\ u <= v /\ long \in Nat
        BY <3>2, <3>3, <4>3 DEF i, j, EndsAt
      <4> HIDE DEF s, u, v, long, t
      <4> QED BY <3>2, <4>4
    <3> QED BY <1>1, <3>4, EndsBefore
  <2> QED BY <1>2, <2>1, <2>2
<1>3. CASE SearchedTo(m, scanAt) /\ ~(m < n)
  <2>1. m = n
    <3> HIDE DEF m, n
    <3> QED BY <1>1, <1>3
  <2>2. Edges = {}
    BY <1>1, <1>3, <2>1, NoneFollows
  <2>3. NoneLeft(m)
    BY <2>1 DEF NoneLeft
  <2> QED BY <2>2, <2>3
<1>4. CASE m = 0 /\ wire.how.glitch /\ scanAt = 0
  <2>1. /\ Edges # {} => NextEdge = 1 /\ ~RealStart
        /\ Edges = {} => Samples = 1
    BY <1>1, <1>4, GlitchIsNoStart
  <2>2. ASSUME Samples = 1 PROVE NoneLeft(0)
    <3>1. (Samples - 1) * PerSample = 0
      <4>1. PerSample \in Nat
        BY <1>1, HowIs
      <4> QED BY <2>2, <4>1
    <3>2. 0 < EndsAt(wire.how, 0 + 1)
      <4>1. 0 + 1 = 1 /\ 1 \in Nat \ {0}
        OBVIOUS
      <4>2. FirstAt(wire.how) \in Nat \ {0} /\ BitCount(wire.how) * wire.how.bit \in Nat
        BY <1>1, HowIs
      <4>3. StartsAt(wire.how, 1) = FirstAt(wire.how)
        BY <1>1, <4>1, StartsIs
      <4>4. EndsAt(wire.how, 1) = FirstAt(wire.how) + BitCount(wire.how) * wire.how.bit
        BY <4>3 DEF EndsAt
      <4> DEFINE long == BitCount(wire.how) * wire.how.bit
      <4> HIDE DEF long
      <4>5. 0 < FirstAt(wire.how) + long
        BY <4>2 DEF long
      <4> QED BY <4>1, <4>4, <4>5 DEF long
    <3>3. (Samples - 1) * PerSample < EndsAt(wire.how, 0 + 1)
      BY <3>1, <3>2
    <3> QED BY <1>1, <3>3, EndsBefore
  <2> QED BY <1>4, <2>1, <2>2
<1>5. CASE NoneLeft(m) /\ scanAt >= Samples
  <2>1. Edges = {}
    <3> SUFFICES ASSUME NEW j \in Edges PROVE FALSE
      OBVIOUS
    <3>1. scanAt <= j /\ j \in Nat /\ j + 1 < Samples
      BY <1>1, EdgesAre
    <3> QED BY <1>1, <1>5, <3>1
  <2> QED BY <1>5, <2>1
<1>6. ASSUME NoneLeft(m), NEW k \in 1 .. n, scanAt = Edge(k), Samples <= CentreOf(Edge(k), 0) PROVE Edges = {}
  BY <1>1, <1>6, LateStart
<1> QED BY <1>2, <1>3, <1>4, <1>5, <1>6 DEF UartKept, SearchAt

(* A capture that ends before the middle of a bit does not hold the character. *)
LEMMA NotHeld ==
    ASSUME wire.how \in Hows, Samples \in Nat \ {0}, NEW m \in Nat, NEW b \in Nat, b < BitCount(wire.how),
           Samples <= CentreOf(Edge(m + 1), b)
    PROVE  NoneLeft(m) /\ (Samples - 1) * PerSample < EndsAt(wire.how, m + 1)
<1> DEFINE c == CentreOf(Edge(m + 1), b)
           s == StartsAt(wire.how, m + 1)
           w == wire.how.bit
           n == BitCount(wire.how)
           y == b * w
           long == n * w
           i == Samples - 1
           u == i * PerSample
           t == c * PerSample
<1>1. m + 1 \in Nat \ {0}
  OBVIOUS
<1>2. c \in Nat /\ InBit(m + 1, b, c) /\ s \in Nat
  BY <1>1, CentresAre, StartsIs
<1>3. n \in Nat /\ w \in Nat \ {0} /\ long \in Nat
  BY HowIs
<1>4. y + w <= long /\ y \in Nat
  <2> HIDE DEF w
  <2>1. b < n
    OBVIOUS
  <2> HIDE DEF n
  <2> QED BY <1>3, <2>1, TimesGrows
<1>5. i \in Nat /\ i <= c
  <2>1. Samples <= c
    OBVIOUS
  <2> HIDE DEF c
  <2> QED BY <1>2, <2>1
<1>6. u \in Nat /\ t \in Nat /\ u <= t
  <2> HIDE DEF c, i
  <2> QED BY <1>2, <1>5, InOrder
<1>7. t < s + y + w
  BY <1>2 DEF InBit
<1>8. u < s + long
  <2> HIDE DEF s, w, y, long, u, t
  <2> QED BY <1>2, <1>3, <1>4, <1>6, <1>7
<1>9. (Samples - 1) * PerSample < EndsAt(wire.how, m + 1)
  BY <1>8 DEF EndsAt
<1> QED BY <1>9, EndsBefore

(* A character has a start bit, its data bits and a stop bit at least. *)
LEMMA BitsFit ==
    ASSUME wire.how \in Hows
    PROVE  DataBits \in Nat \ {0} /\ BitCount(wire.how) \in Nat /\ DataBits + 2 <= BitCount(wire.how)
<1>1. BitCount(wire.how) \in Nat /\ BitCount(wire.how) >= DataBits + 2 /\ DataBits \in Nat \ {0}
  BY HowIs
<1> QED BY <1>1

(* Without an edge the search ends: what is complete in the capture was found. *)
LEMMA NoEdgeKeeps ==
    ASSUME UartKept, NoEdge
    PROVE  UartKept'
<1>1. Edges = {} /\ scanAt' = Samples /\ UNCHANGED <<wire, uartSeen>>
  BY DEF NoEdge
<1>2. NoneLeft(Len(uartSeen)) /\ Samples \in Nat
  BY <1>1, Found, KeptIs
<1>3. scanAt' >= Samples /\ scanAt' \in Nat
  BY <1>1, <1>2
<1> QED BY <1>1, <1>2, <1>3, SearchGoesOn

(* An edge that is high again at the centre of its bit is passed over: the      *)
(* glitch.                                                                      *)
LEMMA SpuriousKeeps ==
    ASSUME UartKept, Spurious
    PROVE  UartKept'
<1> DEFINE m == Len(uartSeen)
           e == Edge(m + 1)
           c == CentreOf(e, 0)
<1>1. Edges # {} /\ ~RealStart /\ scanAt' = NextEdge /\ UNCHANGED <<wire, uartSeen>>
  BY DEF Spurious
<1>2. CASE SearchedTo(m, scanAt) /\ m < Len(wire.how.chars) /\ NextEdge = e
  <2>1. wire.how \in Hows /\ Samples \in Nat \ {0} /\ m \in Nat /\ Len(wire.how.chars) \in Nat
    BY KeptIs
  <2>2. m + 1 \in Nat \ {0} /\ m + 1 \in 1 .. Len(wire.how.chars)
    <3> HIDE DEF m
    <3> QED BY <1>2, <2>1
  <2>3. e \in Nat /\ c \in Nat /\ InBit(m + 1, 0, c)
    <3>1. 0 \in Nat
      OBVIOUS
    <3> QED BY <2>1, <2>2, <3>1, CentresAre
  <2>4. 0 \in Nat /\ 0 < BitCount(wire.how) /\ 0 + 1 = 1
    BY <2>1, BitsFit
  <2>5. Samples <= c
    <3> SUFFICES ASSUME ~(Samples <= c) PROVE FALSE
      OBVIOUS
    <3>1. c < Samples
      <4> HIDE DEF c
      <4> QED BY <2>1, <2>3
    <3> HIDE DEF c, m
    <3>2. Line[c] = BitsOf(wire.how, m + 1)[0 + 1]
      BY <2>2, <2>3, <2>4, <3>1, LineInBit DEF UartKept
    <3>3. BitsOf(wire.how, m + 1)[1] = 0
      BY <2>1, <2>2, BitsAre
    <3>4. RealStart
      <4>1. CentreOf(NextEdge, 0) = c
        BY <1>2 DEF c
      <4> QED BY <2>4, <3>1, <3>2, <3>3, <4>1 DEF RealStart, Captured
    <3> QED BY <1>1, <3>4
  <2>6. NoneLeft(m)
    <3> HIDE DEF m
    <3> QED BY <2>1, <2>4, <2>5, NotHeld
  <2>7. scanAt' = Edge(m + 1) /\ scanAt' \in Nat
    BY <1>1, <1>2, <2>3
  <2> QED BY <1>1, <2>2, <2>5, <2>6, <2>7, SearchGoesOn
<1>3. CASE m = 0 /\ wire.how.glitch /\ NextEdge = 1
  <2>1. SearchedTo(m, scanAt') /\ scanAt' \in Nat
    BY <1>1, <1>3 DEF SearchedTo
  <2> QED BY <1>1, <2>1, SearchGoesOn
<1> QED BY <1>1, <1>2, <1>3, Found

(* A character that the capture ends in is not reported. *)
LEMMA TruncatedKeeps ==
    ASSUME UartKept, Truncated
    PROVE  UartKept'
<1> DEFINE m == Len(uartSeen)
           e == Edge(m + 1)
<1>1. Edges # {} /\ RealStart /\ ~Whole /\ scanAt' = Samples /\ UNCHANGED <<wire, uartSeen>>
  BY DEF Truncated
<1>2. NextEdge = e
  BY <1>1, Found
<1>3. wire.how \in Hows /\ Samples \in Nat \ {0} /\ m \in Nat
  BY KeptIs
<1>4. DataBits \in Nat /\ DataBits < BitCount(wire.how)
  BY <1>3, BitsFit
<1>5. Samples <= CentreOf(e, DataBits)
  <2>1. m + 1 \in Nat \ {0}
    <3> HIDE DEF m
    <3> QED BY <1>3
  <2>2. CentreOf(e, DataBits) \in Nat
    BY <1>3, <1>4, <2>1, CentresAre
  <2>3. ~(CentreOf(e, DataBits) < Samples)
    BY <1>1, <1>2 DEF Whole, Captured
  <2> DEFINE c == CentreOf(e, DataBits)
  <2> HIDE DEF c
  <2> QED BY <1>3, <2>2, <2>3 DEF c
<1>6. NoneLeft(m)
  <2> HIDE DEF m
  <2> QED BY <1>3, <1>4, <1>5, NotHeld
<1>7. scanAt' >= Samples /\ scanAt' \in Nat
  BY <1>1, <1>3
<1> QED BY <1>1, <1>6, <1>7, SearchGoesOn

(* The levels at the centres of a character's bits, where they were captured *)
LEMMA BitsHeard ==
    ASSUME UartTaken, NEW k \in 1 .. Len(wire.how.chars), NEW b \in Nat, b < BitCount(wire.how),
           CentreOf(Edge(k), b) < Samples
    PROVE  Line[CentreOf(Edge(k), b)] = BitsOf(wire.how, k)[b + 1]
<1>1. wire.how \in Hows /\ k \in Nat \ {0}
  BY DEF UartTaken
<1>2. CentreOf(Edge(k), b) \in Nat /\ InBit(k, b, CentreOf(Edge(k), b))
  BY <1>1, CentresAre
<1> QED BY <1>2, LineInBit

ErrorKinds == {"none", "parity", "framing"}
NextFrame ==
    LET edge == NextEdge
        centre(k) == CentreOf(edge, k)
        bits == [b \in 1 .. DataBits |-> Line[centre(b)]]
        hasParity == wire.how.parity # "none" /\ Captured(centre(1 + DataBits))
        stopBit == 1 + DataBits + (IF hasParity THEN 1 ELSE 0)
        badParity == hasParity /\ Line[centre(1 + DataBits)] # ParityBit(wire.how.parity, bits)
        badStop == Captured(centre(stopBit)) /\ Line[centre(stopBit)] # 1
    IN  [start |-> edge, bits |-> bits,
         error |-> IF badParity THEN "parity" ELSE IF badStop THEN "framing" ELSE "none"]
HasParity == wire.how.parity # "none" /\ Captured(CentreOf(NextEdge, 1 + DataBits))
StopBit == 1 + DataBits + (IF HasParity THEN 1 ELSE 0)

(* A character that ends in the capture does not end behind it. *)
LEMMA NotBoth ==
    ASSUME wire.how \in Hows, Samples \in Nat \ {0}, NEW k \in Nat \ {0},
           (Samples - 1) * PerSample < EndsAt(wire.how, (k - 1) + 1), EndsAt(wire.how, k) <= (Samples - 1) * PerSample
    PROVE  FALSE
<1> DEFINE t == (Samples - 1) * PerSample
           s == StartsAt(wire.how, k)
           long == BitCount(wire.how) * wire.how.bit
<1>1. (k - 1) + 1 = k
  OBVIOUS
<1>2. EndsAt(wire.how, k) = s + long
  BY DEF EndsAt
<1>3. s \in Nat /\ long \in Nat
  BY HowIs, StartsIs
<1>4. t \in Nat
  <2>1. Samples - 1 \in Nat
    OBVIOUS
  <2> QED BY <2>1, InOrder
<1>5. t < s + long /\ s + long <= t
  BY <1>1, <1>2
<1> HIDE DEF t, s, long
<1> QED BY <1>3, <1>4, <1>5

(* The bits read at the centres are the character sent, with its own fault. *)
LEMMA Assembled ==
    ASSUME wire.how \in Hows, NEW k \in Nat \ {0}, NextEdge = Edge(k), wire.how.chars[k] \in Chars,
           NEW error \in ErrorKinds, error \in {Fault(wire.how, k), "none"}, Complete(k) => error = Fault(wire.how, k),
           NextFrame = [start |-> NextEdge, bits |-> wire.how.chars[k], error |-> error]
    PROVE  NextFrame \in [start : Nat, bits : Chars, error : ErrorKinds] /\ SeenRight(k, NextFrame)
<1>1. Edge(k) \in Nat
  BY CentresAre
<1>2. NextFrame.start = Edge(k) /\ NextFrame.bits = wire.how.chars[k] /\ NextFrame.error = error
  OBVIOUS
<1>3. SeenRight(k, NextFrame)
  BY <1>2 DEF SeenRight
<1> QED BY <1>1, <1>3

(* What is made of the character that the search found *)
LEMMA FrameIs ==
    ASSUME UartTaken, NEW k \in 1 .. Len(wire.how.chars), NextEdge = Edge(k), Whole
    PROVE  NextFrame \in [start : Nat, bits : Chars, error : ErrorKinds] /\ SeenRight(k, NextFrame)
<1> DEFINE centre(b) == CentreOf(NextEdge, b)
           c == wire.how.chars[k]
           fault == Fault(wire.how, k)
           bits == [b \in 1 .. DataBits |-> Line[centre(b)]]
           badParity == HasParity /\ Line[centre(1 + DataBits)] # ParityBit(wire.how.parity, bits)
           badStop == Captured(centre(StopBit)) /\ Line[centre(StopBit)] # 1
           error == IF badParity THEN "parity" ELSE IF badStop THEN "framing" ELSE "none"
<1>1. NextFrame = [start |-> NextEdge, bits |-> bits, error |-> error]
  BY Zenon DEF NextFrame, HasParity, StopBit
<1>2. wire.how \in Hows /\ Samples \in Nat \ {0} /\ (wire.how.parity = "none" => wire.how.fault # "parity")
      /\ k \in Nat \ {0}
  BY DEF UartTaken
<1>3. DataBits \in Nat \ {0} /\ BitCount(wire.how) \in Nat /\ DataBits + 2 <= BitCount(wire.how)
  BY <1>2, BitsFit
<1>4. \A b \in Nat : b < BitCount(wire.how) /\ centre(b) < Samples => Line[centre(b)] = BitsOf(wire.how, k)[b + 1]
  BY BitsHeard
<1>5. \A b \in Nat : centre(b) \in Nat
  BY <1>2, CentresAre
<1>6. \A b, d \in Nat : b < d => centre(b) < centre(d)
  BY <1>2, CentresAre
<1>7. c \in Chars /\ c \in [1 .. DataBits -> {0, 1}] /\ \A b \in 1 .. DataBits : BitsOf(wire.how, k)[b + 1] = c[b]
  BY <1>2, BitsAre
<1>8. bits = c
  <2>1. ASSUME NEW b \in 1 .. DataBits PROVE Line[centre(b)] = c[b]
    <3>1. b \in Nat /\ b < BitCount(wire.how) /\ (b = DataBits \/ b < DataBits) /\ DataBits \in Nat
      BY <1>3
    <3>2. centre(DataBits) < Samples
      BY DEF Whole, Captured
    <3>3. centre(b) < Samples
      <4>1. centre(b) = centre(DataBits) \/ centre(b) < centre(DataBits)
        BY <1>6, <3>1
      <4>2. centre(b) \in Nat /\ centre(DataBits) \in Nat
        BY <1>5, <3>1
      <4> HIDE DEF centre
      <4> QED BY <1>2, <3>2, <4>1, <4>2
    <3> HIDE DEF c
    <3> QED BY <1>4, <1>7, <3>1, <3>3
  <2> HIDE DEF c, centre
  <2>2. bits = [b \in 1 .. DataBits |-> c[b]]
    BY <2>1
  <2> QED BY <1>7, <2>2
<1>9. fault \in ErrorKinds /\ (fault = "parity" => wire.how.parity # "none")
  BY <1>2 DEF Fault, Hows, ErrorKinds
<1> DEFINE pb == 1 + DataBits
<1>10. pb \in Nat /\ pb < BitCount(wire.how) /\ pb + 1 = DataBits + 2 /\ (wire.how.parity # "none" => pb + 1 < BitCount(wire.how))
  <2>1. wire.how.parity # "none" => BitCount(wire.how) = DataBits + 2 + wire.how.stop
    BY <1>2, BitsAre
  <2>2. wire.how.stop \in {1, 2}
    BY <1>2 DEF Hows
  <2> QED BY <1>3, <2>1, <2>2
<1> HIDE DEF c, fault, centre
<1>11. HasParity => (badParity <=> fault = "parity")
  <2> SUFFICES ASSUME HasParity PROVE badParity <=> fault = "parity"
    OBVIOUS
  <2>1. wire.how.parity # "none" /\ centre(pb) < Samples
    BY DEF HasParity, Captured, centre
  <2>2. Line[centre(pb)] = BitsOf(wire.how, k)[DataBits + 2]
    <3>1. Line[centre(pb)] = BitsOf(wire.how, k)[pb + 1]
      <4> HIDE DEF pb
      <4> QED BY <1>4, <1>10, <2>1
    <3> QED BY <1>10, <3>1
  <2> DEFINE p == ParityBit(wire.how.parity, c)
  <2>3. BitsOf(wire.how, k)[DataBits + 2] = ParityTold(fault, p)
    BY <1>2, <2>1, BitsAre DEF fault, c
  <2>4. p \in {0, 1}
    BY <1>7, ParityIsABit
  <2>5. badParity <=> Line[centre(pb)] # p
    BY <1>8
  <2> HIDE DEF p, badParity
  <2>6. ParityTold(fault, p) # p <=> fault = "parity"
    BY <2>4 DEF ParityTold
  <2> QED BY <2>2, <2>3, <2>5, <2>6
<1> DEFINE s == IF fault = "framing" THEN 0 ELSE 1
<1>12. CASE HasParity
  <2>1. StopBit = pb + 1 /\ wire.how.parity # "none"
    BY <1>3, <1>12 DEF StopBit, HasParity
  <2>2. BitsOf(wire.how, k)[DataBits + 3] = s
    BY <1>2, <2>1, BitsAre DEF fault
  <2>3. Captured(centre(StopBit)) => Line[centre(StopBit)] = s
    <3> SUFFICES ASSUME Captured(centre(StopBit)) PROVE Line[centre(StopBit)] = s
      OBVIOUS
    <3>1. StopBit \in Nat /\ StopBit < BitCount(wire.how) /\ StopBit + 1 = DataBits + 3
      BY <1>3, <1>10, <2>1
    <3>2. Line[centre(StopBit)] = BitsOf(wire.how, k)[StopBit + 1]
      BY <1>4, <3>1 DEF Captured
    <3> QED BY <2>2, <3>1, <3>2
  <2>4. badStop <=> Captured(centre(StopBit)) /\ fault = "framing"
    BY <2>3
  <2>5. ASSUME Complete(k) PROVE Captured(centre(StopBit))
    <3> SUFFICES ASSUME ~Captured(centre(StopBit)) PROVE FALSE
      OBVIOUS
    <3>1. StopBit \in Nat /\ StopBit < BitCount(wire.how)
      BY <1>10, <2>1
    <3>2. centre(StopBit) \in Nat
      BY <1>5, <3>1
    <3>3. Samples <= centre(StopBit)
      BY <1>2, <3>2 DEF Captured
    <3>4. (Samples - 1) * PerSample < EndsAt(wire.how, (k - 1) + 1)
      <4>1. k - 1 \in Nat /\ (k - 1) + 1 = k
        BY <1>2
      <4>2. Samples <= CentreOf(Edge((k - 1) + 1), StopBit)
        BY <3>3, <4>1 DEF centre
      <4> QED BY <1>2, <3>1, <4>1, <4>2, NotHeld
    <3>5. EndsAt(wire.how, k) <= (Samples - 1) * PerSample
      BY <2>5 DEF Complete
    <3> QED BY <1>2, <3>4, <3>5, NotBoth
  <2>6. error \in {fault, "none"} /\ (Complete(k) => error = fault) /\ error \in ErrorKinds
    <3> HIDE DEF badParity, badStop
    <3> QED BY <1>9, <1>11, <1>12, <2>4, <2>5 DEF ErrorKinds
  <2> HIDE DEF error, bits
  <2>8. c \in Chars
    BY <1>7
  <2> QED BY <1>1, <1>2, <1>8, <2>6, <2>8, Assembled DEF c, fault
<1>13. CASE ~HasParity
  <2>1. StopBit = pb
    BY <1>3, <1>13 DEF StopBit
  <2>2. wire.how.parity = "none" => BitsOf(wire.how, k)[DataBits + 2] = s
    BY <1>2, <2>1, BitsAre DEF fault
  <2>3. Captured(centre(StopBit)) => wire.how.parity = "none" /\ Line[centre(StopBit)] = s
    <3> SUFFICES ASSUME Captured(centre(StopBit)) PROVE wire.how.parity = "none" /\ Line[centre(StopBit)] = s
      OBVIOUS
    <3>1. StopBit \in Nat /\ StopBit < BitCount(wire.how) /\ StopBit + 1 = DataBits + 2
      BY <1>10, <2>1
    <3>2. Line[centre(StopBit)] = BitsOf(wire.how, k)[StopBit + 1]
      BY <1>4, <3>1 DEF Captured
    <3>3. wire.how.parity = "none"
      BY <1>13, <2>1 DEF HasParity, centre
    <3> QED BY <2>2, <3>1, <3>2, <3>3
  <2>4. badStop <=> Captured(centre(StopBit)) /\ fault = "framing"
    BY <2>3
  <2>5. ASSUME Complete(k) PROVE Captured(centre(StopBit))
    <3> SUFFICES ASSUME ~Captured(centre(StopBit)) PROVE FALSE
      OBVIOUS
    <3>1. StopBit \in Nat /\ StopBit < BitCount(wire.how)
      BY <1>10, <2>1
    <3>2. centre(StopBit) \in Nat
      BY <1>5, <3>1
    <3>3. Samples <= centre(StopBit)
      BY <1>2, <3>2 DEF Captured
    <3>4. (Samples - 1) * PerSample < EndsAt(wire.how, (k - 1) + 1)
      <4>1. k - 1 \in Nat /\ (k - 1) + 1 = k
        BY <1>2
      <4>2. Samples <= CentreOf(Edge((k - 1) + 1), StopBit)
        BY <3>3, <4>1 DEF centre
      <4> QED BY <1>2, <3>1, <4>1, <4>2, NotHeld
    <3>5. EndsAt(wire.how, k) <= (Samples - 1) * PerSample
      BY <2>5 DEF Complete
    <3> QED BY <1>2, <3>4, <3>5, NotBoth
  <2>6. ~badParity
    BY <1>13
  <2>7. error \in {fault, "none"} /\ (Complete(k) => error = fault) /\ error \in ErrorKinds
    <3> HIDE DEF badParity, badStop
    <3> QED BY <1>9, <1>13, <2>3, <2>4, <2>5, <2>6 DEF ErrorKinds
  <2> HIDE DEF error, bits
  <2>8. c \in Chars
    BY <1>7
  <2> QED BY <1>1, <1>2, <1>8, <2>7, <2>8, Assembled DEF c, fault
<1> QED BY <1>12, <1>13

(* Behind a character that it found the search is in the last bit; or the capture   *)
(* ended in the character.                                                          *)
LEMMA AdvanceIs ==
    ASSUME UartTaken, NEW k \in 1 .. Len(wire.how.chars), NextEdge = Edge(k)
    PROVE  /\ Advance(NextEdge, StopBit) \in Nat
           /\ \/ SearchedTo(k, Advance(NextEdge, StopBit))
              \/ NoneLeft(k) /\ Advance(NextEdge, StopBit) >= Samples
<1> DEFINE stop == wire.how.stop
           last == StopBit + stop - 1
           w == wire.how.bit
<1>1. wire.how \in Hows /\ Samples \in Nat \ {0} /\ k \in Nat \ {0} /\ stop \in {1, 2} /\ w \in Nat
  <2>1. wire.how \in Hows /\ Samples \in Nat \ {0}
    BY DEF UartTaken
  <2>2. w \in Nat
    BY <2>1, HowIs
  <2>3. stop \in {1, 2}
    BY <2>1 DEF Hows
  <2>4. k \in Nat \ {0}
    BY <2>1 DEF Hows
  <2> QED BY <2>1, <2>2, <2>3, <2>4
<1>2. DataBits \in Nat \ {0} /\ BitCount(wire.how) \in Nat
  BY <1>1, BitsFit
<1>3. StopBit = (IF HasParity THEN DataBits + 2 ELSE DataBits + 1)
  BY <1>2 DEF StopBit
<1>4. last \in Nat
  BY <1>1, <1>2, <1>3
<1>5. Advance(NextEdge, StopBit) = CentreOf(NextEdge, last)
  <2>1. 2 * StopBit + 2 * stop - 1 = 2 * last + 1
    <3>1. StopBit \in Nat /\ stop \in Nat
      BY <1>1, <1>2, <1>3
    <3> HIDE DEF stop
    <3> QED BY <3>1
  <2>2. Advance(NextEdge, StopBit) = NextEdge + Round((2 * StopBit + 2 * stop - 1) * w, 2 * PerSample)
    BY DEF Advance
  <2>3. CentreOf(NextEdge, last) = NextEdge + Round((2 * last + 1) * w, 2 * PerSample)
    BY DEF CentreOf
  <2> HIDE DEF last, stop, w
  <2> QED BY <2>1, <2>2, <2>3
<1>6. \A b \in Nat : CentreOf(NextEdge, b) \in Nat /\ InBit(k, b, CentreOf(NextEdge, b))
  BY <1>1, CentresAre
<1>7. \A b, c \in Nat : b < c => CentreOf(NextEdge, b) < CentreOf(NextEdge, c)
  BY <1>1, CentresAre
<1>8. (wire.how.parity # "none" => BitCount(wire.how) = DataBits + 2 + stop)
      /\ (wire.how.parity = "none" => BitCount(wire.how) = DataBits + 1 + stop)
  BY <1>1, BitsAre
<1>9. CASE last = BitCount(wire.how) - 1
  <2>1. SearchedTo(k, CentreOf(NextEdge, last))
    <3> HIDE DEF last
    <3>1. InBit(k, last, CentreOf(NextEdge, last)) /\ k # 0
      BY <1>1, <1>4, <1>6
    <3> QED BY <1>9, <3>1 DEF SearchedTo
  <2> HIDE DEF last
  <2> QED BY <1>4, <1>5, <1>6, <2>1
<1>10. CASE last # BitCount(wire.how) - 1
  <2>1. wire.how.parity # "none" /\ ~HasParity
    <3>1. HasParity => wire.how.parity # "none"
      BY DEF HasParity
    <3> QED BY <1>1, <1>2, <1>3, <1>8, <1>10, <3>1
  <2> DEFINE pb == 1 + DataBits
             c == CentreOf(NextEdge, pb)
  <2>2. pb \in Nat /\ pb < BitCount(wire.how) /\ (last = pb \/ pb < last)
    BY <1>1, <1>2, <1>3, <1>8, <2>1
  <2>3. c \in Nat /\ ~(c < Samples)
    <3>1. ~(c < Samples)
      BY <2>1 DEF HasParity, Captured
    <3> HIDE DEF pb
    <3> QED BY <1>6, <2>2, <3>1
  <2>4. Samples <= c
    <3> HIDE DEF c
    <3> QED BY <1>1, <2>3
  <2>5. Samples <= CentreOf(NextEdge, last)
    <3>1. CentreOf(NextEdge, last) = c \/ c < CentreOf(NextEdge, last)
      <4> HIDE DEF pb, last
      <4> QED BY <1>4, <1>7, <2>2
    <3>2. CentreOf(NextEdge, last) \in Nat
      <4> HIDE DEF last
      <4> QED BY <1>4, <1>6
    <3> DEFINE x == CentreOf(NextEdge, last)
    <3> HIDE DEF c, x
    <3>3. (x = c \/ c < x) /\ x \in Nat
      BY <3>1, <3>2 DEF x
    <3> QED BY <1>1, <2>3, <2>4, <3>3 DEF x
  <2>6. NoneLeft(k)
    <3>1. k - 1 \in Nat /\ (k - 1) + 1 = k
      BY <1>1
    <3>2. NoneLeft(k - 1)
      <4>1. Samples <= CentreOf(Edge((k - 1) + 1), pb)
        BY <2>4, <3>1
      <4> HIDE DEF pb
      <4> QED BY <1>1, <2>2, <3>1, <4>1, NotHeld
    <3> QED BY <1>1, <3>1, <3>2 DEF NoneLeft
  <2>7. CentreOf(NextEdge, last) \in Nat /\ CentreOf(NextEdge, last) >= Samples
    <3> HIDE DEF last
    <3>1. CentreOf(NextEdge, last) \in Nat
      BY <1>4, <1>6
    <3> QED BY <1>1, <2>5, <3>1
  <2> HIDE DEF last
  <2> QED BY <1>5, <2>6, <2>7
<1> QED BY <1>9, <1>10

(* A character that is found is the next one sent. *)
LEMMA CharacterKeeps ==
    ASSUME UartKept, Character
    PROVE  UartKept'
<1> DEFINE m == Len(uartSeen)
           k == m + 1
           x == NextFrame
           i == Advance(NextEdge, StopBit)
           T == [start : Nat, bits : Chars, error : ErrorKinds]
<1>1. Edges # {} /\ RealStart /\ Whole /\ uartSeen' = Append(uartSeen, x) /\ scanAt' = i /\ wire' = wire
  BY Zenon DEF Character, NextFrame, HasParity, StopBit
<1>2. m < Len(wire.how.chars) /\ NextEdge = Edge(k)
  BY <1>1, Found
<1>3. m \in Nat /\ Len(wire.how.chars) \in Nat /\ UartTaken
  BY KeptIs DEF UartKept
<1>4. k \in 1 .. Len(wire.how.chars) /\ k # 0
  <2> HIDE DEF m
  <2> QED BY <1>2, <1>3
<1>5. x \in T /\ SeenRight(k, x)
  <2> HIDE DEF k
  <2> QED BY <1>1, <1>2, <1>3, <1>4, FrameIs
<1>6. i \in Nat /\ (SearchedTo(k, i) \/ (NoneLeft(k) /\ i >= Samples))
  <2> HIDE DEF k
  <2>1. UartTaken /\ k \in 1 .. Len(wire.how.chars) /\ NextEdge = Edge(k)
    BY <1>2, <1>3, <1>4
  <2>2. /\ Advance(NextEdge, StopBit) \in Nat
        /\ \/ SearchedTo(k, Advance(NextEdge, StopBit))
           \/ NoneLeft(k) /\ Advance(NextEdge, StopBit) >= Samples
    BY <2>1, AdvanceIs
  <2> QED BY <2>2
<1>7. uartSeen \in Seq(T)
  BY DEF UartKept, ErrorKinds
<1> HIDE DEF x, i, T
<1>8. uartSeen' \in Seq(T) /\ Len(uartSeen') = k /\ uartSeen'[k] = x
      /\ \A f \in 1 .. m : uartSeen'[f] = uartSeen[f]
  BY <1>1, <1>5, <1>7
<1>9. ASSUME NEW f \in 1 .. k PROVE SeenRight(f, uartSeen'[f])
  <2>1. CASE f = k
    BY <1>5, <1>8, <2>1
  <2>2. CASE f # k
    <3>1. f \in 1 .. m
      <4> HIDE DEF m
      <4> QED BY <1>3, <2>2
    <3>2. SeenRight(f, uartSeen[f])
      BY <3>1 DEF UartKept
    <3> QED BY <1>8, <3>1, <3>2
  <2> QED BY <2>1, <2>2
<1> HIDE DEF k
<1>10. UartTaken'
  BY <1>1, <1>3 DEF UartTaken, Samples, Line
<1>11. \A f \in 1 .. Len(uartSeen') : SeenRight(f, uartSeen[f])'
  BY <1>1, <1>8, <1>9 DEF SeenRight, Edge, Complete, Samples, Line
<1>12. SearchAt'
  <2>1. CASE SearchedTo(k, i)
    <3>1. SearchedTo(Len(uartSeen), scanAt)'
      BY <1>1, <1>8, <2>1 DEF SearchedTo, InBit
    <3> QED BY <3>1 DEF SearchAt
  <2>2. CASE NoneLeft(k) /\ i >= Samples
    <3>1. NoneLeft(Len(uartSeen))' /\ Samples' = Samples
      BY <1>1, <1>8, <2>2 DEF NoneLeft, Complete, Samples, Line
    <3>2. scanAt' >= Samples'
      BY <1>1, <2>2, <3>1
    <3> QED BY <3>1, <3>2 DEF SearchAt
  <2> QED BY <1>6, <2>1, <2>2
<1>13. Len(uartSeen') <= Len(wire'.how.chars)
  <2>1. k <= Len(wire.how.chars)
    BY <1>3, <1>4
  <2> QED BY <1>1, <1>8, <2>1
<1>14. scanAt' \in Nat
  BY <1>1, <1>6
<1> QED BY <1>8, <1>10, <1>11, <1>12, <1>13, <1>14 DEF UartKept, T, ErrorKinds

(* Before the search nothing is found, and nothing is passed over. *)
LEMMA UartStarts == UartDecodeInit => UartKept
<1> SUFFICES ASSUME UartDecodeInit PROVE UartKept
  OBVIOUS
<1> DEFINE HowChoices(n) == [chars : [1 .. n -> Chars], bit : BitTimes, parity : {"none", "even", "odd"},
                          stop : {1, 2}, rest : Rests, phase : 1 .. PerSample, glitch : BOOLEAN,
                          fault : {"none", "parity", "framing"}]
           From(how, n) == IF how.fault = "none" THEN StartsAt(how, n) ELSE EndsAt(how, n)
<1>1. PICK n \in 1 .. MaxChars : \E how \in HowChoices(n) :
         /\ how.parity = "none" => how.fault # "parity"
         /\ \E ticks \in From(how, n) .. EndsAt(how, n) + how.bit :
               wire = [how |-> how, line |-> Sampled(how, ticks \div PerSample + 1)]
  BY DEF UartDecodeInit
<1>2. PICK how \in HowChoices(n) :
         /\ how.parity = "none" => how.fault # "parity"
         /\ \E ticks \in From(how, n) .. EndsAt(how, n) + how.bit :
               wire = [how |-> how, line |-> Sampled(how, ticks \div PerSample + 1)]
  BY <1>1
<1>3. PICK ticks \in From(how, n) .. EndsAt(how, n) + how.bit :
         wire = [how |-> how, line |-> Sampled(how, ticks \div PerSample + 1)]
  BY <1>2
<1>4. n \in Nat \ {0} /\ how.chars \in Seq(Chars) /\ Len(how.chars) = n
  <2>1. n \in Nat \ {0}
    BY UartDecodeAssumption DEF UartDecodeAssumption
  <2>2. how.chars \in [1 .. n -> Chars]
    OBVIOUS
  <2> QED BY <2>1, <2>2
<1>5. how \in Hows
  <2>1. how \in HowChoices(n)
    OBVIOUS
  <2> QED BY <1>4, <2>1 DEF Hows
<1>6. StartsAt(how, n) \in Nat /\ EndsAt(how, n) \in Nat
  <2>1. StartsAt(how, n) \in Nat /\ BitCount(how) * how.bit \in Nat
    BY <1>4, <1>5, StartsIs, HowIs
  <2> DEFINE long == BitCount(how) * how.bit
  <2>2. EndsAt(how, n) = StartsAt(how, n) + long
    BY DEF EndsAt
  <2> HIDE DEF long
  <2> QED BY <2>1, <2>2 DEF long
<1>7. ticks \in Nat
  <2>1. From(how, n) \in Nat /\ EndsAt(how, n) + how.bit \in Nat
    <3>1. how.bit \in Nat
      BY <1>5, HowIs
    <3> QED BY <1>6, <3>1
  <2> HIDE DEF From
  <2> QED BY <2>1
<1> DEFINE count == ticks \div PerSample + 1
<1>8. count \in Nat \ {0}
  <2>1. PerSample \in Nat \ {0}
    BY UartDecodeAssumption DEF UartDecodeAssumption
  <2>2. ticks \div PerSample \in Nat
    BY <1>7, <2>1, DivisionOf, Zenon
  <2> QED BY <2>2
<1>9. wire.how = how /\ wire.line = Sampled(how, count)
  BY <1>3
<1> HIDE DEF count
<1>10. DOMAIN wire.line = 0 .. count - 1
  BY <1>9 DEF Sampled
<1>11. Samples = count
  <2>1. Cardinality(0 .. count - 1) = count
    <3>1. 0 \in Int /\ count - 1 \in Int /\ (count - 1) - 0 + 1 = count /\ ~(0 > count - 1)
      BY <1>8
    <3> QED BY <3>1, FS_Interval
  <2> QED BY <1>10, <2>1 DEF Samples, Line
<1>12. UartTaken
  <2>1. \A j \in 0 .. count - 1 : Line[j] = LevelAt(wire.how, j)
    BY <1>5, <1>8, <1>9, SampledIs DEF Line
  <2> QED BY <1>2, <1>4, <1>5, <1>8, <1>9, <1>11, <2>1 DEF UartTaken
<1>13. scanAt = 0 /\ uartSeen = <<>>
  BY DEF UartDecodeInit
<1>14. SearchAt
  <2>1. wire.how.glitch \in BOOLEAN
    BY <1>5, <1>9 DEF Hows
  <2> QED BY <1>13, <2>1 DEF SearchAt, SearchedTo
<1>15. Len(uartSeen) <= Len(wire.how.chars)
  BY <1>4, <1>9, <1>13
<1> QED BY <1>12, <1>13, <1>14, <1>15 DEF UartKept

(* Every step of the search keeps what is found the characters sent so far. *)
LEMMA UartStep ==
    ASSUME UartKept, [UartDecodeNext]_uartDecodeVars
    PROVE  UartKept'
<1>1. CASE UNCHANGED uartDecodeVars
  BY <1>1 DEF uartDecodeVars, UartKept, UartTaken, Samples, Line, SearchAt, SearchedTo, InBit, NoneLeft, Complete, Edge, CentreOf,
              SeenRight
<1> QED BY <1>1, NoEdgeKeeps, SpuriousKeeps, TruncatedKeeps, CharacterKeeps DEF UartDecodeNext

(* What is kept says that what is decoded is what was sent. *)
LEMMA UartIsSafe == UartKept => UartDecodeInv
<1> SUFFICES ASSUME UartKept PROVE UartDecodeInv
  OBVIOUS
<1>1. wire.how \in Hows /\ Samples \in Nat \ {0} /\ Len(wire.how.chars) \in Nat \ {0}
      /\ Len(uartSeen) \in Nat /\ Len(uartSeen) <= Len(wire.how.chars) /\ scanAt \in Nat
  BY KeptIs
<1>2. uartSeen \in Seq([start : Nat, bits : Chars, error : ErrorKinds]) /\ DOMAIN uartSeen = 1 .. Len(uartSeen)
      /\ DOMAIN wire.how.chars = 1 .. Len(wire.how.chars)
  <2>1. uartSeen \in Seq([start : Nat, bits : Chars, error : ErrorKinds])
    BY DEF UartKept, ErrorKinds
  <2>2. wire.how.chars \in Seq(Chars)
    BY <1>1 DEF Hows
  <2> QED BY <2>1, <2>2
<1>3. UartDecodeTypeOK
  <2>1. ASSUME NEW f \in 1 .. Len(uartSeen) PROVE uartSeen[f] \in [start : Nat, bits : Chars, error : ErrorKinds]
    <3> DEFINE T == [start : Nat, bits : Chars, error : ErrorKinds]
    <3>1. uartSeen \in Seq(T)
      BY <1>2
    <3> HIDE DEF T
    <3>2. uartSeen[f] \in T
      BY <3>1
    <3> QED BY <3>2 DEF T
  <2> QED BY <1>1, <1>2, <2>1 DEF UartDecodeTypeOK, ErrorKinds
<1>4. SeenAsSent
  <2> SUFFICES ASSUME NEW f \in DOMAIN uartSeen
               PROVE  /\ uartSeen[f].bits = wire.how.chars[f]
                      /\ (uartSeen[f].start - 1) * PerSample < StartsAt(wire.how, f)
                      /\ uartSeen[f].start * PerSample >= StartsAt(wire.how, f)
                      /\ uartSeen[f].error \in {Fault(wire.how, f), "none"}
                      /\ EndsAt(wire.how, f) <= (Samples - 1) * PerSample => uartSeen[f].error = Fault(wire.how, f)
    BY <1>1, Zenon DEF SeenAsSent, Fault
  <2>1. f \in 1 .. Len(uartSeen) /\ f \in Nat \ {0}
    BY <1>2
  <2>2. SeenRight(f, uartSeen[f])
    BY <2>1 DEF UartKept
  <2>3. StartsAt(wire.how, f) <= Edge(f) * PerSample /\ (Edge(f) - 1) * PerSample < StartsAt(wire.how, f)
        /\ StartsAt(wire.how, f) \in Nat /\ Edge(f) \in Nat
    BY <1>1, <2>1, CentresAre, StartsIs
  <2>4. Edge(f) * PerSample >= StartsAt(wire.how, f)
    <3>1. Edge(f) * PerSample \in Nat
      BY <2>3, InOrder
    <3> DEFINE t == Edge(f) * PerSample
    <3>2. t \in Nat /\ StartsAt(wire.how, f) <= t
      BY <2>3, <3>1
    <3> HIDE DEF t
    <3>3. t >= StartsAt(wire.how, f)
      BY <2>3, <3>2
    <3> QED BY <3>3 DEF t
  <2> QED BY <2>2, <2>3, <2>4 DEF SeenRight, Complete
<1>5. AllSeen
  <2> SUFFICES ASSUME scanAt >= Samples PROVE NoneLeft(Len(uartSeen))
    BY <1>2 DEF AllSeen, NoneLeft, Complete
  <2>1. Edges = {}
    <3> SUFFICES ASSUME NEW j \in Edges PROVE FALSE
      OBVIOUS
    <3>1. scanAt <= j /\ j \in Nat /\ j + 1 < Samples
      BY <1>1, EdgesAre
    <3> QED BY <1>1, <3>1
  <2> QED BY <2>1, Found
<1> QED BY <1>3, <1>4, <1>5 DEF UartDecodeInv

(* Whatever the phase of the capture, the rests between the characters and the ends  *)
(* of the capture, the characters that are decoded are those that were sent, in      *)
(* order, each from where it starts and with its own fault; and all that the capture *)
(* holds are found.  That is so at any rate of at least three samples a bit.         *)
THEOREM CharactersAsSent == UartDecodeSpec => []UartDecodeInv
<1>1. UartKept /\ [UartDecodeNext]_uartDecodeVars => UartKept'
  BY UartStep
<1> QED BY <1>1, UartStarts, UartIsSafe, PTL DEF UartDecodeSpec
=============================================================================
