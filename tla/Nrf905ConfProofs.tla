------------------------- MODULE Nrf905ConfProofs -------------------------
(***************************************************************************)
(* Proofs about the configuration of one nRF905: every getter returns what *)
(* was last set and the chip holds what was last sent to it, for every     *)
(* header and every sequence of calls; an initialisation that fails leaves *)
(* nothing behind; one that succeeds has given the chip the whole header.  *)
(***************************************************************************)
EXTENDS Nrf905Conf, SequenceTheorems, TLAPS

LEMMA Quotient ==
  ASSUME NEW n \in Nat \ {0}, NEW t \in Int, NEW q \in Int, NEW r \in Int,
         0 <= r, r < n, t = n * q + r
  PROVE  t \div n = q /\ t % n = r
BY SMTT(20)

LEMMA Division ==
  ASSUME NEW n \in Nat \ {0}, NEW t \in Nat
  PROVE  \E q \in Nat, r \in 0..n - 1 : t = n * q + r /\ t \div n = q /\ t % n = r
<1>. DEFINE q == t \div n  r == t % n
<1>1. q \in Nat /\ r \in 0..n - 1 /\ t = n * q + r
  BY SMTT(20)
<1>. QED
  BY <1>1

\* Dividing twice is dividing by the product.
LEMMA DividedTwice ==
  ASSUME NEW b \in Nat, NEW p \in Nat \ {0}, NEW m \in Nat \ {0}
  PROVE  b \div (p * m) = (b \div p) \div m
<1>1. PICK k \in Nat, r \in 0..p - 1 : b = p * k + r /\ b \div p = k
  BY Division
<1>2. PICK q \in Nat, t \in 0..m - 1 : k = m * q + t /\ k \div m = q
  BY Division
<1>3. p * m \in Nat \ {0} /\ p * t + r \in Nat /\ p * t + r < p * m
  <2>1. p * t \in Nat /\ p * m \in Nat /\ p * (m - 1 - t) \in Nat
    OBVIOUS
  <2>2. p * (m - 1 - t) = p * m - p - p * t
    OBVIOUS
  <2>3. p * m # 0
    OBVIOUS
  <2>. QED
    BY <2>1, <2>2, <2>3
<1>4. b = (p * m) * q + (p * t + r)
  BY <1>1, <1>2
<1>5. b \div (p * m) = q
  BY <1>3, <1>4, Quotient
<1>. QED
  BY <1>1, <1>2, <1>5

\* Two bytes that agree in a field.
Same(m, n, w, t) == (m \div w) % t = (n \div w) % t

\* Below a multiple of w * t only the remainder counts.
LEMMA RemainderBelow ==
  ASSUME NEW w \in Nat \ {0}, NEW t \in Nat \ {0}, NEW e \in Nat \ {0}, NEW k \in Nat,
         NEW r \in Nat
  PROVE  Same((w * t * e) * k + r, r, w, t)
<1>1. PICK y \in Nat, z \in 0..w - 1 : r = w * y + z /\ r \div w = y
  BY Division
<1>2. PICK a \in Nat, c \in 0..t - 1 : y = t * a + c /\ y % t = c
  BY Division
<1>3. /\ t * e * k + y \in Nat /\ e * k + a \in Nat
      /\ (w * t * e) * k + r = w * (t * e * k + y) + z
      /\ t * e * k + y = t * (e * k + a) + c
  BY <1>1, <1>2
<1>4. ((w * t * e) * k + r) \div w = t * e * k + y
  <2>1. (w * t * e) * k + r \in Int
    OBVIOUS
  <2>. QED
    BY <1>1, <1>3, <2>1, Quotient
<1>5. (t * e * k + y) % t = c
  BY <1>2, <1>3, Quotient
<1>. QED
  BY <1>1, <1>2, <1>4, <1>5 DEF Same

\* What an insertion makes of a byte.
Splits(u, s, b, v, n) ==
  \E h \in Nat, x \in 0..s - 1, l \in 0..u - 1 :
    /\ (b \div u) % s = x
    /\ b = u * (s * h + x) + l /\ n = u * (s * h + v) + l
    /\ (n \div u) % s = v
    /\ n \div (u * s) = h /\ b \div (u * s) = h

LEMMA Insertion ==
  ASSUME NEW u \in Nat \ {0}, NEW s \in Nat \ {0}, NEW b \in Nat, NEW v \in 0..s - 1,
         NEW n, n = b + (v - ((b \div u) % s)) * u
  PROVE  Splits(u, s, b, v, n)
<1>1. PICK q \in Nat, l \in 0..u - 1 : b = u * q + l /\ b \div u = q
  BY Division
<1>2. PICK h \in Nat, x \in 0..s - 1 : q = s * h + x /\ q % s = x /\ q \div s = h
  BY Division
<1>2a. (b \div u) % s = x
  BY <1>1, <1>2
<1>3. b = u * (s * h + x) + l
  BY <1>1, <1>2
<1>4. n = u * (s * h + v) + l
  <2>1. n = b + (v - x) * u
    BY <1>2a
  <2>2. u * (s * h + v) = u * (s * h + x) + (v - x) * u
    OBVIOUS
  <2>3. u * (s * h + x) \in Int /\ (v - x) * u \in Int
    OBVIOUS
  <2>. QED
    BY <1>3, <2>1, <2>2, <2>3
<1>5. s * h + v \in Nat /\ n \in Nat
  <2>1. s * h + v \in Nat
    OBVIOUS
  <2>2. u * (s * h + v) \in Nat
    BY <2>1
  <2>. QED
    BY <1>4, <2>1, <2>2
<1>6. n \div u = s * h + v
  <2>1. n \in Int /\ s * h + v \in Int /\ l \in Int /\ 0 <= l /\ l < u
    BY <1>5
  <2>. QED
    BY <1>4, <2>1, Quotient, Zenon
<1>7. (s * h + v) % s = v /\ (s * h + v) \div s = h
  BY <1>5, Quotient
<1>8. n \div (u * s) = h /\ b \div (u * s) = h
  <2>1. n \div (u * s) = (n \div u) \div s /\ b \div (u * s) = (b \div u) \div s
    BY <1>5, DividedTwice
  <2>. QED
    BY <1>1, <1>2, <1>6, <1>7, <2>1
<1>9. (n \div u) % s = v
  BY <1>6, <1>7
<1>. QED
  BY <1>2a, <1>3, <1>4, <1>8, <1>9 DEF Splits

\* Two fields of one byte do not overlap, and every field ends within its byte.
Apart(f, g) ==
  \/ \E m \in {1, 2, 4, 8, 16, 32, 64} : g.unit = f.unit * f.size * m
  \/ \E e \in {1, 2, 4, 8, 16, 32, 64} : f.unit = g.unit * g.size * e
Inside(f) ==
  /\ f.reg \in Register \ {RX_ADDRESS}
  /\ f.unit \in Nat \ {0} /\ f.size \in Nat \ {0}
  /\ \E m \in {1, 2, 4, 8, 16, 32, 64, 128} : f.unit * f.size * m = 256

LEMMA Layout ==
  \A name \in DOMAIN Field :
    /\ Inside(Field[name]) /\ Field[name].reg # CH_NO
    /\ Field[name].reg = CONF1 => Apart(Field[name], CH_NO_8)
    /\ \A other \in DOMAIN Field \ {name} :
         Field[name].reg = Field[other].reg => Apart(Field[name], Field[other])
<1> USE DEF Field, Bits, CH_NO_8, CH_NO, CONF1, CONF2, RX_PW, TX_PW, CONF3
<1>1. \A name \in DOMAIN Field : Inside(Field[name]) /\ Field[name].reg # CH_NO
  BY DEF Inside, Register, RX_ADDRESS
<1>2. \A name \in DOMAIN Field : Field[name].reg = CONF1 => Apart(Field[name], CH_NO_8)
  BY DEF Apart
<1>3. ASSUME NEW name \in DOMAIN Field, NEW other \in DOMAIN Field, name # other,
             Field[name].reg = Field[other].reg
      PROVE  Apart(Field[name], Field[other])
  BY <1>3 DEF Apart
<1>. QED
  BY <1>1, <1>2, <1>3

(***************************************************************************)
(* The setters: each changes the field it is for and no other one.         *)
(***************************************************************************)

Staged(c) ==
  /\ c = [r \in Register |-> c[r]]
  /\ \A r \in Register \ {RX_ADDRESS} : c[r] \in 0..255

\* n is b with v in the field f.
Replaces(f, b, v, n) ==
  /\ n \in 0..255
  /\ (n \div f.unit) % f.size = v
  /\ \A g : Inside(g) /\ Apart(f, g)
           => (n \div g.unit) % g.size = (b \div g.unit) % g.size

LEMMA InsertedByte ==
  ASSUME NEW f, Inside(f), NEW b \in 0..255, NEW v \in 0..f.size - 1,
         NEW n, n = b + (v - ((b \div f.unit) % f.size)) * f.unit
  PROVE  Replaces(f, b, v, n)
<1>. DEFINE u == f.unit  s == f.size
<1>1. n = b + (v - ((b \div u) % s)) * u
  OBVIOUS
<1>1a. u \in Nat \ {0} /\ s \in Nat \ {0} /\ b \in Nat /\ v \in 0..s - 1
  BY DEF Inside
<1>2. PICK h \in Nat, x \in 0..s - 1, l \in 0..u - 1 :
        /\ (b \div u) % s = x
        /\ b = u * (s * h + x) + l /\ n = u * (s * h + v) + l
        /\ (n \div u) % s = v
        /\ n \div (u * s) = h /\ b \div (u * s) = h
  <2>. HIDE DEF u, s
  <2>1. Splits(u, s, b, v, n)
    BY <1>1, <1>1a, Insertion, Zenon
  <2>. QED
    BY <2>1 DEF Splits
<1>3. PICK m \in {1, 2, 4, 8, 16, 32, 64, 128} : u * s * m = 256
  BY DEF Inside
<1>. HIDE DEF u, s
<1>4. s * h + v \in Nat /\ s * h + x \in Nat /\ n \in Nat
  <2>1. s * h + v \in Nat /\ s * h + x \in Nat
    BY <1>1a
  <2>2. u * (s * h + v) \in Nat
    BY <1>1a, <2>1
  <2>. QED
    BY <1>1a, <1>2, <2>1, <2>2
<1>5. n \in 0..255
  <2>1. u * s \in Nat \ {0} /\ (u * s) * h \in Nat
    BY <1>1a
  <2>2. (u * s) * h <= b
    <3>1. u * (s * h + x) = (u * s) * h + u * x /\ u * x \in Nat
      BY <1>1a
    <3>. QED
      BY <1>1a, <1>2, <2>1, <3>1
  <2>3. h < m
    <3>1. ASSUME h >= m PROVE FALSE
      <4>1. (u * s) * h = (u * s) * m + (u * s) * (h - m) /\ (u * s) * (h - m) >= 0
        BY <2>1, <3>1
      <4>. QED
        BY <1>3, <2>1, <2>2, <4>1
    <3>. QED
      BY <3>1
  <2>4. (u * s) * (h + 1) <= 256
    <3>1. (u * s) * m = (u * s) * (h + 1) + (u * s) * (m - 1 - h) /\ (u * s) * (m - 1 - h) >= 0
          /\ (u * s) * (h + 1) \in Nat
      BY <2>1, <2>3
    <3>. QED
      BY <1>3, <2>1, <3>1
  <2>5. u * (s * h + v) + u <= (u * s) * (h + 1)
    <3>1. (u * s) * (h + 1) = u * (s * h + v) + u + u * (s - 1 - v) /\ u * (s - 1 - v) >= 0
          /\ u * (s * h + v) \in Nat
      BY <1>1a
    <3>. QED
      BY <1>1a, <3>1
  <2>6. u * (s * h + v) \in Nat /\ (u * s) * (h + 1) \in Nat
    BY <1>1a, <1>4, <2>1
  <2>7. n + u <= 256 + l /\ l < u /\ l \in Nat /\ n \in Nat
    BY <1>1a, <1>2, <1>4, <2>4, <2>5, <2>6
  <2>. QED
    BY <1>1a, <2>7
<1>6. ASSUME NEW g, Inside(g), Apart(f, g)
      PROVE  (n \div g.unit) % g.size = (b \div g.unit) % g.size
  <2>. DEFINE w == g.unit  t == g.size
  <2>1. w \in Nat \ {0} /\ t \in Nat \ {0}
    BY <1>6 DEF Inside
  <2>2. ASSUME NEW k \in Nat \ {0}, w = u * s * k
        PROVE  (n \div w) % t = (b \div w) % t
    <3>1. u * s \in Nat \ {0}
      BY <1>1a
    <3>2. n \div ((u * s) * k) = (n \div (u * s)) \div k
      BY <1>4, <3>1, DividedTwice
    <3>3. b \div ((u * s) * k) = (b \div (u * s)) \div k
      BY <1>1a, <3>1, DividedTwice
    <3>. QED
      BY <1>2, <2>2, <3>2, <3>3
  <2>3. ASSUME NEW e \in Nat \ {0}, u = w * t * e
        PROVE  (n \div w) % t = (b \div w) % t
    <3>. HIDE DEF w, t
    <3>1. l \in Nat
      BY <1>1a
    <3>1a. s * h + v \in Nat /\ s * h + x \in Nat
      BY <1>4
    <3>2. Same((w * t * e) * (s * h + v) + l, l, w, t)
      BY <3>1a, <2>1, <3>1, RemainderBelow, Zenon
    <3>3. Same((w * t * e) * (s * h + x) + l, l, w, t)
      BY <3>1a, <2>1, <3>1, RemainderBelow, Zenon
    <3>. QED
      BY <1>2, <2>3, <3>2, <3>3 DEF Same
  <2>. QED
    BY <1>6, <2>2, <2>3 DEF Apart, u, s
<1>. QED
  BY <1>2, <1>5, <1>6 DEF Replaces, u, s

LEMMA Inserts ==
  ASSUME NEW c, Staged(c), NEW f, Inside(f), NEW v \in 0..f.size - 1
  PROVE  LET d == Insert(c, f, v) IN
         /\ Staged(d) /\ Extract(d, f) = v
         /\ \A r \in Register \ {f.reg} : d[r] = c[r]
         /\ \A g : Inside(g) /\ (f.reg = g.reg => Apart(f, g)) => Extract(d, g) = Extract(c, g)
<1>. DEFINE b == c[f.reg]
            n == b + (v - ((b \div f.unit) % f.size)) * f.unit
            d == Insert(c, f, v)
<1>1. b \in 0..255 /\ f.reg \in Register \ {RX_ADDRESS}
  BY DEF Staged, Inside
<1>2. Replaces(f, b, v, n)
  <2>. DEFINE p == n
  <2>1. p = b + (v - ((b \div f.unit) % f.size)) * f.unit
    OBVIOUS
  <2>. HIDE DEF b, p
  <2>2. Replaces(f, b, v, p)
    BY <1>1, <2>1, InsertedByte, Zenon
  <2>. QED
    BY <2>2 DEF p
<1>3. d = [c EXCEPT ![f.reg] = n]
  BY DEF Insert, Extract
<1>. HIDE DEF n, d
<1>4. /\ d = [r \in Register |-> d[r]]
      /\ d[f.reg] = n /\ \A r \in Register \ {f.reg} : d[r] = c[r]
  BY <1>1, <1>3 DEF Staged
<1>5. Staged(d)
  BY <1>2, <1>4 DEF Staged, Replaces
<1>6. Extract(d, f) = v
  BY <1>2, <1>4 DEF Extract, Replaces
<1>7. ASSUME NEW g, Inside(g), f.reg = g.reg => Apart(f, g)
      PROVE  Extract(d, g) = Extract(c, g)
  <2>1. CASE f.reg = g.reg
    BY <1>2, <1>4, <1>7, <2>1 DEF Extract, Replaces
  <2>2. CASE f.reg # g.reg
    BY <1>4, <1>7, <2>2 DEF Extract, Inside
  <2>. QED
    BY <2>1, <2>2
<1>. QED
  BY <1>4, <1>5, <1>6, <1>7 DEF d

\* What a getter reads.
LEMMA Gets ==
  ASSUME NEW c
  PROVE  /\ Get(c, "frequency") = c[CH_NO] + 256 * Extract(c, CH_NO_8)
         /\ Get(c, "rx_address") = c[RX_ADDRESS]
         /\ \A name \in DOMAIN Field :
              /\ name \notin {"frequency", "rx_address"}
              /\ Get(c, name) = Extract(c, Field[name])
<1>1. DOMAIN Field \cap {"frequency", "rx_address"} = {}
  BY DEF Field
<1>2. Get(c, "frequency") = c[CH_NO] + 256 * Extract(c, CH_NO_8)
  BY DEF Get
<1>3. Get(c, "rx_address") = c[RX_ADDRESS]
  BY DEF Get
<1>4. ASSUME NEW name \in DOMAIN Field PROVE Get(c, name) = Extract(c, Field[name])
  BY <1>1 DEF Get
<1>. QED
  BY <1>1, <1>2, <1>3, <1>4

\* A value the field is large enough for.
Fits(name, v) ==
  /\ name = "frequency" => v \in 0..511
  /\ name \in DOMAIN Field => v \in 0..Field[name].size - 1

LEMMA Sets ==
  ASSUME NEW c, Staged(c), NEW name \in Name, NEW v, Fits(name, v)
  PROVE  /\ Staged(Set(c, name, v))
         /\ Meaning(Set(c, name, v)) = [Meaning(c) EXCEPT ![name] = v]
<1>. DEFINE d == Set(c, name, v)
<1>0. Inside(CH_NO_8) /\ CH_NO_8.reg = CONF1 /\ CH_NO_8.size = 2
      /\ {CH_NO, CONF1, RX_ADDRESS} \subseteq Register
      /\ CH_NO # RX_ADDRESS /\ CH_NO # CONF1 /\ CONF1 # RX_ADDRESS
  BY DEF CH_NO_8, Bits, Inside, CH_NO, CONF1, RX_ADDRESS, Register
<1>1. ASSUME Staged(d), \A other \in Name : Get(d, other) = IF other = name THEN v ELSE Get(c, other)
      PROVE  Staged(d) /\ Meaning(d) = [Meaning(c) EXCEPT ![name] = v]
  BY <1>1 DEF Meaning
<1>2. CASE name = "frequency"
  <2>. DEFINE e == [c EXCEPT ![CH_NO] = v % 256]
  <2>1. v \in Nat /\ v % 256 \in 0..255 /\ v \div 256 \in 0..1 /\ (v % 256) + 256 * (v \div 256) = v
    BY <1>2 DEF Fits
  <2>2. Staged(e) /\ e[CH_NO] = v % 256 /\ \A r \in Register \ {CH_NO} : e[r] = c[r]
    BY <1>0, <2>1 DEF Staged
  <2>3. d = Insert(e, CH_NO_8, v \div 256)
    BY <1>2 DEF Set
  <2>. HIDE DEF d, e
  <2>4. v \div 256 \in 0..CH_NO_8.size - 1
    BY <1>0, <2>1
  <2>5. /\ Staged(d) /\ Extract(d, CH_NO_8) = v \div 256
        /\ \A r \in Register \ {CONF1} : d[r] = e[r]
        /\ \A g : Inside(g) /\ (CONF1 = g.reg => Apart(CH_NO_8, g)) => Extract(d, g) = Extract(e, g)
    BY <1>0, <2>2, <2>3, <2>4, Inserts
  <2>6. Get(d, "frequency") = v
    BY <1>0, <2>1, <2>2, <2>5, Gets
  <2>7. Get(d, "rx_address") = Get(c, "rx_address")
    BY <1>0, <2>2, <2>5, Gets
  <2>8. ASSUME NEW other \in DOMAIN Field PROVE Get(d, other) = Get(c, other)
    <3>1. Inside(Field[other]) /\ Field[other].reg # CH_NO
          /\ (CONF1 = Field[other].reg => Apart(CH_NO_8, Field[other]))
      BY Layout DEF Apart
    <3>2. Extract(d, Field[other]) = Extract(e, Field[other])
      BY <2>5, <3>1
    <3>3. Extract(e, Field[other]) = Extract(c, Field[other])
      BY <2>2, <3>1 DEF Extract, Inside
    <3>. QED
      BY <3>2, <3>3, Gets
  <2>. QED
    BY <1>1, <1>2, <2>5, <2>6, <2>7, <2>8, Gets DEF Name, d
<1>3. CASE name = "rx_address"
  <2>1. d = [c EXCEPT ![RX_ADDRESS] = v]
    BY <1>3 DEF Set
  <2>. HIDE DEF d
  <2>2. Staged(d) /\ d[RX_ADDRESS] = v /\ \A r \in Register \ {RX_ADDRESS} : d[r] = c[r]
    BY <1>0, <2>1 DEF Staged
  <2>3. Get(d, "rx_address") = v /\ Get(d, "frequency") = Get(c, "frequency")
    BY <1>0, <2>2, Gets DEF Extract
  <2>4. ASSUME NEW other \in DOMAIN Field PROVE Get(d, other) = Get(c, other)
    BY <2>2, Layout, Gets DEF Extract, Inside
  <2>. QED
    BY <1>1, <1>3, <2>2, <2>3, <2>4, Gets DEF Name, d
<1>4. CASE name \in DOMAIN Field
  <2>. DEFINE f == Field[name]
  <2>1. d = Insert(c, f, v)
    BY <1>4, Gets DEF Set
  <2>2. Inside(f) /\ f.reg # CH_NO /\ (f.reg = CONF1 => Apart(f, CH_NO_8)) /\ v \in 0..f.size - 1
    BY <1>4, Layout DEF Fits
  <2>3. \A other \in DOMAIN Field \ {name} : f.reg = Field[other].reg => Apart(f, Field[other])
    BY <1>4, Layout
  <2>4. \A other \in DOMAIN Field : Inside(Field[other])
    BY Layout
  <2>5. name \notin {"frequency", "rx_address"} /\ Get(d, name) = Extract(d, f)
    BY <1>4, Gets
  <2>. HIDE DEF d, f
  <2>6. /\ Staged(d) /\ Extract(d, f) = v
        /\ \A r \in Register \ {f.reg} : d[r] = c[r]
        /\ \A g : Inside(g) /\ (f.reg = g.reg => Apart(f, g)) => Extract(d, g) = Extract(c, g)
    BY <2>1, <2>2, Inserts
  <2>7. f.reg # RX_ADDRESS
    BY <2>2 DEF Inside
  <2>8. Get(d, "rx_address") = Get(c, "rx_address")
    BY <1>0, <2>6, <2>7, Gets
  <2>9. Get(d, "frequency") = Get(c, "frequency")
    BY <1>0, <2>2, <2>6, Gets
  <2>10. ASSUME NEW other \in DOMAIN Field \ {name} PROVE Get(d, other) = Get(c, other)
    <3>1. Inside(Field[other]) /\ (f.reg = Field[other].reg => Apart(f, Field[other]))
      BY <2>3, <2>4
    <3>2. Extract(d, Field[other]) = Extract(c, Field[other])
      BY <2>6, <3>1
    <3>. QED
      BY <3>2, Gets
  <2>. QED
    BY <1>1, <1>4, <2>5, <2>6, <2>8, <2>9, <2>10 DEF Name, d
<1>. QED
  BY <1>2, <1>3, <1>4 DEF Name

\* The short command of the chip sets three fields and no other one.
HoldsChannel(n, b, k, band, power) ==
  /\ n \in 0..255
  /\ (n \div 1) % 2 = k /\ (n \div 2) % 2 = band /\ (n \div 4) % 4 = power
  /\ (n \div 16) % 2 = (b \div 16) % 2
  /\ (n \div 32) % 2 = (b \div 32) % 2

LEMMA ChannelByte ==
  ASSUME NEW b \in 0..255, NEW k \in 0..1, NEW band \in 0..1, NEW power \in 0..3,
         NEW n, n = (b \div 16) * 16 + (power * 4 + band * 2 + k)
  PROVE  HoldsChannel(n, b, k, band, power)
<1>1. PICK h \in 0..15 : h = b \div 16
  OBVIOUS
<1>2. n = 16 * h + 4 * power + 2 * band + k
  BY <1>1
<1>3. n \in 0..255 /\ n \div 16 = h
  BY <1>2
<1>4. (n \div 4) % 4 = power
  BY <1>2
<1>5. (n \div 2) % 2 = band /\ (n \div 1) % 2 = k
  BY <1>2
<1>6. (n \div 32) = h \div 2
  BY <1>2
<1>7. (b \div 32) = h \div 2
  BY <1>1
<1>. QED
  BY <1>1, <1>3, <1>4, <1>5, <1>6, <1>7 DEF HoldsChannel

SetsThree(freq, band, power) ==
  LET d == TakesChannel(freq, band, power) IN
  /\ Staged(d)
  /\ Meaning(d) = [Meaning(regs) EXCEPT !.frequency = freq, !.pll_mode = band,
                                        !.output_power = power]

LEMMA TakesChannelSets ==
  ASSUME Staged(regs), NEW freq \in 0..511, NEW band \in 0..1, NEW power \in 0..3
  PROVE  SetsThree(freq, band, power)
<1>. DEFINE d == TakesChannel(freq, band, power)
            b == regs[CONF1]
            k == freq \div 256
            n == (b \div 16) * 16 + (power * 4 + band * 2 + k)
<1>1. b \in 0..255 /\ k \in 0..1 /\ freq % 256 \in 0..255 /\ (freq % 256) + 256 * k = freq
  BY DEF Staged, CONF1, Register, RX_ADDRESS
<1>2. /\ n \in 0..255
      /\ (n \div 1) % 2 = k /\ (n \div 2) % 2 = band /\ (n \div 4) % 4 = power
      /\ (n \div 16) % 2 = (b \div 16) % 2
      /\ (n \div 32) % 2 = (b \div 32) % 2
  <2>1. n = (b \div 16) * 16 + (power * 4 + band * 2 + k)
    OBVIOUS
  <2>. HIDE DEF b, k, n
  <2>2. HoldsChannel(n, b, k, band, power)
    BY <1>1, <2>1, ChannelByte, Zenon
  <2>. QED
    BY <2>2 DEF HoldsChannel
<1>3. d = [regs EXCEPT ![CH_NO] = freq % 256, ![CONF1] = n]
  BY DEF TakesChannel, Channel, CH_NO, CONF1
<1>. HIDE DEF d, b, k, n
<1>4. /\ d = [r \in Register |-> d[r]]
      /\ d[CH_NO] = freq % 256 /\ d[CONF1] = n
      /\ \A r \in Register \ {CH_NO, CONF1} : d[r] = regs[r]
  <2>1. regs = [r \in Register |-> regs[r]] /\ {CH_NO, CONF1} \subseteq Register /\ CH_NO # CONF1
    BY DEF Staged, CH_NO, CONF1, Register
  <2>2. d = [r \in Register |-> IF r = CONF1 THEN n ELSE IF r = CH_NO THEN freq % 256 ELSE regs[r]]
    BY <1>3, <2>1
  <2>. QED
    BY <2>1, <2>2
<1>5. Staged(d)
  BY <1>1, <1>2, <1>4 DEF Staged
<1>6. Get(d, "frequency") = freq
  <2>1. Extract(d, CH_NO_8) = k
    BY <1>2, <1>4 DEF Extract, CH_NO_8, Bits
  <2>. QED
    BY <1>1, <1>4, <2>1, Gets
<1>7. Get(d, "rx_address") = Get(regs, "rx_address")
  BY <1>4, Gets DEF RX_ADDRESS, Register, CH_NO, CONF1
<1>8. Get(d, "pll_mode") = band /\ Get(d, "output_power") = power
  <2>1. /\ Field["pll_mode"] = Bits(CONF1, 2, 2) /\ Field["output_power"] = Bits(CONF1, 4, 4)
        /\ {"pll_mode", "output_power"} \subseteq DOMAIN Field
    BY DEF Field
  <2>. QED
    BY <1>2, <1>4, <2>1, Gets DEF Extract, Bits
<1>9. ASSUME NEW other \in DOMAIN Field \ {"pll_mode", "output_power"}
      PROVE  Get(d, other) = Get(regs, other)
  <2>1. CASE Field[other].reg = CONF1
    <3>1. Field[other] \in {Bits(CONF1, 16, 2), Bits(CONF1, 32, 2)}
      BY <2>1 DEF Field, Bits, CONF1, CONF2, RX_PW, TX_PW, CONF3
    <3>2. CONF1 # CH_NO /\ CONF1 \in Register
      BY DEF CONF1, CH_NO, Register
    <3>3. Extract(d, Field[other]) = Extract(regs, Field[other])
      BY <1>2, <1>4, <3>1, <3>2 DEF Extract, Bits, b
    <3>4. Get(d, other) = Extract(d, Field[other]) /\ Get(regs, other) = Extract(regs, Field[other])
      BY Gets
    <3>. QED
      BY <3>3, <3>4
  <2>2. CASE Field[other].reg # CONF1
    <3>1. d[Field[other].reg] = regs[Field[other].reg]
      BY <1>4, <2>2, Layout DEF Inside
    <3>. QED
      BY <3>1, Gets DEF Extract
  <2>. QED
    BY <2>1, <2>2
<1>10. {"pll_mode", "output_power"} \subseteq DOMAIN Field
  BY DEF Field
<1>11. \A other \in Name : Get(d, other) = CASE other = "frequency" -> freq
                                             [] other = "pll_mode" -> band
                                             [] other = "output_power" -> power
                                             [] OTHER -> Get(regs, other)
  BY <1>6, <1>7, <1>8, <1>9, <1>10, Gets DEF Name
<1>12. Meaning(d) = [Meaning(regs) EXCEPT !.frequency = freq, !.pll_mode = band,
                                          !.output_power = power]
  BY <1>10, <1>11 DEF Meaning, Name
<1>. QED
  BY <1>5, <1>12 DEF d, SetsThree

(***************************************************************************)
(* nrf905_device_init step by step.                                        *)
(***************************************************************************)

P == Len(Start)
Write == [kind |-> "write"]

LEMMA Starts ==
  ASSUME Pulses \in BOOLEAN
  PROVE  /\ P \in {2, 3} /\ Start[1] = Pin("PWR_UP", TRUE) /\ Start[P] = Pin("CE", FALSE)
         /\ \A k \in 1..P : Start[k] \in {Pin("PWR_UP", TRUE), Pin("CE", TRUE), Pin("CE", FALSE)}
<1>1. CASE Pulses
  <2>1. Start = <<Pin("PWR_UP", TRUE), Pin("CE", TRUE), Pin("CE", FALSE)>>
    BY <1>1 DEF Start
  <2>2. P = 3
    BY <2>1 DEF P
  <2>3. /\ Start[1] = Pin("PWR_UP", TRUE) /\ Start[2] = Pin("CE", TRUE)
        /\ Start[3] = Pin("CE", FALSE)
    BY <2>1
  <2>4. \A k \in 1..3 : k = 1 \/ k = 2 \/ k = 3
    OBVIOUS
  <2>. QED
    BY <2>2, <2>3, <2>4, Zenon
<1>2. CASE ~Pulses
  <2>1. Start = <<Pin("PWR_UP", TRUE), Pin("CE", FALSE)>>
    BY <1>2 DEF Start
  <2>2. P = 2
    BY <2>1 DEF P
  <2>3. Start[1] = Pin("PWR_UP", TRUE) /\ Start[2] = Pin("CE", FALSE)
    BY <2>1
  <2>4. \A k \in 1..2 : k = 1 \/ k = 2
    OBVIOUS
  <2>. QED
    BY <2>2, <2>3, <2>4, Zenon
<1>. QED
  BY <1>1, <1>2

LEMMA Finishes ==
  ASSUME Mode \in {"TX", "RX"}
  PROVE  /\ Mode = "TX" => Len(Finish) = 0
         /\ Mode = "RX" => /\ Len(Finish) = 2
                           /\ Finish[1] = Pin("TX_EN", FALSE) /\ Finish[2] = Pin("CE", TRUE)
BY DEF Finish

\* The list of the steps: the start, the fifteen setters, the write, the finish.
LEMMA StepList ==
  ASSUME Pulses \in BOOLEAN, Mode \in {"TX", "RX"}
  PROVE  /\ Len(Steps) = P + 16 + Len(Finish)
         /\ \A k \in 1..P : Steps[k] = Start[k]
         /\ \A j \in 1..15 : Steps[P + j] = Setters[j]
         /\ Steps[P + 16] = Write
         /\ \A j \in 1..Len(Finish) : Steps[P + 16 + j] = Finish[j]
<1>. DEFINE Acts == {Pin("PWR_UP", TRUE), Pin("CE", TRUE), Pin("CE", FALSE), Pin("TX_EN", FALSE),
                     Write} \union {Setter(name) : name \in Name}
<1>1. Start \in Seq(Acts) /\ Finish \in Seq(Acts) /\ <<Write>> \in Seq(Acts)
  <2>1. {Pin("PWR_UP", TRUE), Pin("CE", TRUE), Pin("CE", FALSE), Pin("TX_EN", FALSE), Write}
          \subseteq Acts
    OBVIOUS
  <2>. HIDE DEF Acts
  <2>2. ASSUME Pulses PROVE Start \in Seq(Acts)
    <3>1. \A x, y, z \in Acts : <<x, y, z>> \in Seq(Acts)
      OBVIOUS
    <3>. QED
      BY <2>1, <2>2, <3>1, Zenon DEF Start
  <2>3. ASSUME ~Pulses PROVE Start \in Seq(Acts)
    <3>1. \A x, y \in Acts : <<x, y>> \in Seq(Acts)
      OBVIOUS
    <3>. QED
      BY <2>1, <2>3, <3>1, Zenon DEF Start
  <2>4. Finish \in Seq(Acts)
    <3>1. CASE Mode = "RX"
      <4>1. \A x, y \in Acts : <<x, y>> \in Seq(Acts)
        OBVIOUS
      <4>. QED
        BY <2>1, <3>1, <4>1, Zenon DEF Finish
    <3>2. CASE Mode # "RX"
      BY <3>2 DEF Finish
    <3>. QED
      BY <3>1, <3>2
  <2>5. <<Write>> \in Seq(Acts)
    BY <2>1
  <2>6. Start \in Seq(Acts)
    <3>. HIDE DEF Start
    <3>. QED
      BY <2>2, <2>3
  <2>. QED
    BY <2>4, <2>5, <2>6
<1>2. Setters \in Seq(Acts) /\ Len(Setters) = 15
  <2>1. \A j \in 1..15 : Setters[j] \in Acts
    <3>1. \A j \in 1..15 : Setters[j] \in {Setter(name) : name \in Name}
      BY DEF Setters, Name, Field
    <3>. QED
      BY <3>1
  <2>2. Len(Setters) = 15
    BY DEF Setters
  <2>3. Setters = [j \in 1..15 |-> Setters[j]]
    BY DEF Setters
  <2>. HIDE DEF Acts
  <2>. QED
    BY <2>1, <2>2, <2>3
<1>3. Len(<<Write>>) = 1 /\ <<Write>>[1] = Write
  OBVIOUS
<1>. DEFINE a == Start \o Setters  b == a \o <<Write>>
<1>. HIDE DEF Acts
<1>4. /\ a \in Seq(Acts) /\ Len(a) = P + 15
      /\ \A k \in 1..P : a[k] = Start[k]
      /\ \A j \in 1..15 : a[P + j] = Setters[j]
  <2>1. /\ a \in Seq(Acts) /\ Len(a) = Len(Start) + Len(Setters)
        /\ \A i \in 1..Len(Start) + Len(Setters) :
             a[i] = IF i <= Len(Start) THEN Start[i] ELSE Setters[i - Len(Start)]
    BY <1>1, <1>2, ConcatProperties
  <2>. HIDE DEF a
  <2>2. Len(a) = P + 15 /\ P \in {2, 3}
        /\ \A i \in 1..P + 15 : a[i] = IF i <= P THEN Start[i] ELSE Setters[i - P]
    BY <1>2, <2>1, Starts DEF P
  <2>3. \A j \in 1..15 : P + j \in 1..P + 15 /\ ~(P + j <= P) /\ (P + j) - P = j
    BY <2>2
  <2>4. \A j \in 1..15 : a[P + j] = Setters[j]
    BY <2>2, <2>3
  <2>. QED
    BY <2>1, <2>2, <2>4
<1>. HIDE DEF a
<1>5. /\ b \in Seq(Acts) /\ Len(b) = P + 16
      /\ \A k \in 1..P + 15 : b[k] = a[k]
      /\ b[P + 16] = Write
  <2>1. /\ b \in Seq(Acts) /\ Len(b) = Len(a) + Len(<<Write>>)
        /\ \A i \in 1..Len(a) + Len(<<Write>>) :
             b[i] = IF i <= Len(a) THEN a[i] ELSE <<Write>>[i - Len(a)]
    BY <1>1, <1>4, ConcatProperties
  <2>. HIDE DEF b
  <2>2. P \in {2, 3}
    BY Starts
  <2>3. Len(a) + Len(<<Write>>) = P + 16
    BY <1>3, <1>4, <2>2
  <2>4. \A k \in 1..P + 15 : b[k] = a[k]
    BY <1>4, <2>1, <2>2, <2>3
  <2>5. b[P + 16] = Write
    <3>1. b[P + 16] = <<Write>>[P + 16 - Len(a)]
      BY <1>4, <2>1, <2>2, <2>3
    <3>2. P + 16 - Len(a) = 1
      BY <1>4, <2>2
    <3>. QED
      BY <1>3, <3>1, <3>2
  <2>. QED
    BY <2>1, <2>3, <2>4, <2>5
<1>. HIDE DEF b
<1>6. /\ Len(b \o Finish) = P + 16 + Len(Finish)
      /\ \A k \in 1..P + 16 : (b \o Finish)[k] = b[k]
      /\ \A j \in 1..Len(Finish) : (b \o Finish)[P + 16 + j] = Finish[j]
  <2>. DEFINE c == b \o Finish
  <2>1. /\ c \in Seq(Acts) /\ Len(c) = Len(b) + Len(Finish)
        /\ \A i \in 1..Len(b) + Len(Finish) :
             c[i] = IF i <= Len(b) THEN b[i] ELSE Finish[i - Len(b)]
    BY <1>1, <1>5, ConcatProperties
  <2>. HIDE DEF c
  <2>2. Len(Finish) \in Nat
    BY <1>1
  <2>3. \A k \in 1..P + 16 : c[k] = b[k]
    BY <1>5, <2>1, <2>2, Starts
  <2>4. \A j \in 1..Len(Finish) : c[P + 16 + j] = Finish[j]
    BY <1>5, <2>1, <2>2, Starts
  <2>. QED
    BY <1>5, <2>1, <2>3, <2>4 DEF c
<1>7. Steps = b \o Finish
  BY DEF Steps, Write, a, b
<1>8. \A k \in 1..P : Steps[k] = Start[k]
  <2>1. P \in {2, 3}
    BY Starts
  <2>2. \A k \in 1..P : k \in 1..P + 15 /\ k \in 1..P + 16
    BY <2>1
  <2>. QED
    BY <1>4, <1>5, <1>6, <1>7, <2>2
<1>9. \A j \in 1..15 : Steps[P + j] = Setters[j]
  <2>1. \A j \in 1..15 : P + j \in 1..P + 15 /\ P + j \in 1..P + 16
    BY Starts
  <2>. QED
    BY <1>4, <1>5, <1>6, <1>7, <2>1
<1>10. Steps[P + 16] = Write
  <2>1. P + 16 \in 1..P + 16
    BY Starts
  <2>. QED
    BY <1>5, <1>6, <1>7, <2>1
<1>. QED
  BY <1>6, <1>7, <1>8, <1>9, <1>10

\* The setters: one for each field.
LEMMA SetterNames ==
  /\ \A j \in 1..15 : Setters[j] = Setter(Setters[j].name) /\ Setters[j].name \in Name
  /\ \A i, j \in 1..15 : i # j => Setters[i].name # Setters[j].name
  /\ \A name \in Name : \E j \in 1..15 : Setters[j].name = name
  /\ Setters[1].name = "pll_mode" /\ Setters[15].name = "frequency"
BY DEF Setters, Setter, Name, Field

-----------------------------------------------------------------------------
(* The invariant.                                                          *)

\* What the initialisation sets a field to: the frequency of the header in the
\* band of the header.
Target(name) ==
  IF name = "frequency" THEN Header.frequency \div (1 + Header.pll_mode) - 4224
                        ELSE Header[name]

\* The headers and the callers pass values that their fields hold, or that the
\* driver refuses.
CallersAssumption ==
  /\ Mode \in {"TX", "RX"} /\ Pulses \in BOOLEAN
  /\ \A name \in Name : Fits(name, Target(name))
  /\ Settable \subseteq Name
  /\ \A name \in Settable : \A v \in Values[name] : TooLarge(name, v) \/ Fits(name, v)
  /\ \A freq \in Values.frequency : TooLarge("frequency", freq) \/ freq \in 0..511
  /\ Values.output_power \subseteq 0..3

Typed ==
  /\ Staged(conf) /\ Staged(regs)
  /\ pins \in [{"PWR_UP", "CE", "TX_EN"} -> BOOLEAN]
  /\ open \subseteq {"spi", "pwr_up", "ce", "tx_en"}
  /\ inited \in BOOLEAN /\ stuck \in BOOLEAN /\ torn \in BOOLEAN
  /\ result \in {"none", "ok", "failed"}
  /\ DOMAIN asked = Name
  /\ at \in -2..Len(Steps)

\* Where the initialisation is, and what is open then.
Stages ==
  /\ at = 0 => open = {} /\ ~inited /\ ~pins["PWR_UP"] /\ ~torn
  /\ at \in {-2} \union 1..Len(Steps) => open = From(1) /\ inited
  /\ at = -1 <=> result # "none"

\* What the steps before the k-th one have achieved.
Progress(k) ==
  /\ ~torn
  /\ \A j \in 1..15 : P + j < k => meant[Setters[j].name] = Target(Setters[j].name)
  /\ P + 16 < k => asked = meant
  /\ 1 < k => pins["PWR_UP"]
  /\ P < k /\ k <= P + 18 => ~pins["CE"]
  /\ P + 17 < k => ~pins["TX_EN"]
  /\ P + 18 < k => pins["CE"]

IInv ==
  /\ Typed /\ ConfigurationKept /\ Stages /\ FailureReleases
  /\ at > 0 => Progress(at)

LEMMA Lengths ==
  ASSUME CallersAssumption
  PROVE  /\ P \in {2, 3} /\ Len(Steps) \in Nat
         /\ Len(Steps) = IF Mode = "RX" THEN P + 18 ELSE P + 16
<1>1. Mode \in {"TX", "RX"} /\ Pulses \in BOOLEAN
  BY DEF CallersAssumption
<1>2. P \in {2, 3} /\ Len(Steps) = P + 16 + Len(Finish)
  BY <1>1, Starts, StepList
<1>3. Len(Finish) = IF Mode = "RX" THEN 2 ELSE 0
  BY <1>1, Finishes
<1>. QED
  BY <1>2, <1>3

LEMMA Pieces ==
  /\ From(1) = {"spi", "pwr_up", "ce", "tx_en"}
  /\ \A k \in 1..4 : From(k) \subseteq {"spi", "pwr_up", "ce", "tx_en"}
<1>1. Order[1] = "spi" /\ Order[2] = "pwr_up" /\ Order[3] = "ce" /\ Order[4] = "tx_en"
  BY DEF Order
<1>2. \A k \in 1..4 : \A j \in k..4 : j \in 1..4 /\ (j = 1 \/ j = 2 \/ j = 3 \/ j = 4)
  OBVIOUS
<1>. QED
  BY <1>1, <1>2 DEF From

LEMMA DefaultStaged == Staged(Default)
<1>1. /\ Default[1] = 108 /\ Default[2] = 0 /\ Default[3] = 68 /\ Default[4] = 32
      /\ Default[5] = 32 /\ Default[7] = 231
      /\ DOMAIN Default = 1..7 /\ Default = [r \in 1..7 |-> Default[r]]
  BY DEF Default
<1>. QED
  BY <1>1 DEF Staged, Register, RX_ADDRESS

LEMMA InitIInv ==
  ASSUME CallersAssumption, Init
  PROVE  IInv
<1>. USE DEF Init
<1>1. Typed
  <2>1. DOMAIN asked = Name
    BY DEF Meaning
  <2>2. at \in -2..Len(Steps)
    BY Lengths
  <2>. QED
    BY <2>1, <2>2, DefaultStaged DEF Typed
<1>2. ConfigurationKept
  BY DEF ConfigurationKept
<1>3. Stages /\ FailureReleases
  BY DEF Stages, FailureReleases
<1>. QED
  BY <1>1, <1>2, <1>3 DEF IInv

\* One setter called with a value its field holds.
LEMMA FieldSet ==
  ASSUME Staged(conf), Meaning(conf) = meant, NEW name \in Name, NEW v, Fits(name, v),
         SetField(name, v)
  PROVE  Staged(conf') /\ Meaning(conf') = meant' /\ meant' = [meant EXCEPT ![name] = v]
BY Sets DEF SetField

\* A write that succeeds copies the handle into the chip.
LEMMA Written ==
  ASSUME Staged(conf), Staged(regs), WriteConf
  PROVE  regs' = conf /\ asked' = meant /\ ~torn'
<1>1. \A r \in Register : r <= 7
  BY DEF Register
<1>. QED
  BY <1>1 DEF WriteConf, Send, Staged

LEMMA WriteTorn ==
  ASSUME Staged(conf), Staged(regs), WriteConfFails
  PROVE  Staged(regs') /\ asked' = asked /\ torn' = TRUE
BY DEF WriteConfFails, Send, Staged

\* nrf905_init and nrf905_deinit, whether they succeed or not.
LEMMA OpenClose ==
  ASSUME CallersAssumption, IInv, NrfInit \/ NrfInitFails \/ Deinit \/ DeinitFails
  PROVE  IInv'
<1>. USE DEF IInv
<1>0. P \in {2, 3} /\ Len(Steps) \in Nat /\ Len(Steps) >= P
  BY Lengths
<1>1. CASE NrfInit
  <2>. USE DEF NrfInit, chip
  <2>1. Typed'
    BY <1>0, <1>1, DefaultStaged, Pieces DEF Typed
  <2>2. ConfigurationKept'
    BY <1>1 DEF ConfigurationKept
  <2>3. Stages' /\ FailureReleases'
    BY <1>0, <1>1 DEF Stages, FailureReleases
  <2>4. Progress(1)'
    BY <1>0, <1>1 DEF Progress, Stages
  <2>. QED
    BY <1>1, <2>1, <2>2, <2>3, <2>4
<1>2. CASE NrfInitFails
  <2>. USE DEF NrfInitFails, handle, chip
  <2>1. open' \subseteq {"spi", "pwr_up", "ce", "tx_en"}
    BY <1>2, Pieces
  <2>2. Typed'
    BY <1>0, <1>2, <2>1 DEF Typed
  <2>3. ConfigurationKept'
    BY <1>2 DEF ConfigurationKept
  <2>4. /\ ~pins["PWR_UP"] /\ ~inited /\ UNCHANGED <<pins, inited>>
        /\ at' = -1 /\ result' = "failed"
    BY <1>2 DEF Stages
  <2>5. stuck' <=> open' # {}
    BY <1>2
  <2>6. Stages' /\ FailureReleases'
    BY <1>0, <2>4, <2>5 DEF Stages, FailureReleases
  <2>. QED
    BY <1>2, <2>2, <2>3, <2>6
<1>3. CASE Deinit
  <2>. USE DEF Deinit, chip
  <2>1. pins' \in [{"PWR_UP", "CE", "TX_EN"} -> BOOLEAN] /\ ~pins'["PWR_UP"]
    BY <1>3 DEF Typed, PowerDown
  <2>2. Typed'
    <3>1. /\ conf' = conf /\ regs' = regs /\ torn' = torn /\ asked' = asked /\ stuck' = stuck
          /\ at' = -1 /\ result' = "failed" /\ open' = {} /\ inited' = FALSE
      BY <1>3
    <3>2. Staged(conf') /\ Staged(regs') /\ DOMAIN asked' = Name /\ torn' \in BOOLEAN
          /\ stuck' \in BOOLEAN
      BY <3>1 DEF Typed
    <3>3. -1 \in -2..Len(Steps)
      BY <1>0
    <3>4. at' \in -2..Len(Steps) /\ open' \subseteq {"spi", "pwr_up", "ce", "tx_en"}
          /\ inited' \in BOOLEAN /\ result' \in {"none", "ok", "failed"}
      BY <3>1, <3>3
    <3>. QED
      BY <2>1, <3>2, <3>4, Zenon DEF Typed
  <2>3. ConfigurationKept'
    BY <1>3 DEF ConfigurationKept
  <2>4. Stages' /\ FailureReleases'
    BY <1>0, <1>3, <2>1 DEF Stages, FailureReleases
  <2>. QED
    BY <1>3, <2>2, <2>3, <2>4
<1>4. CASE DeinitFails
  <2>. USE DEF DeinitFails, handle, chip
  <2>1. open = From(1) /\ inited /\ "spi" \in From(1)
    BY <1>4, Pieces DEF Stages
  <2>2. PICK k \in 0..4 : /\ pins' = IF k = 0 THEN pins ELSE PowerDown
                          /\ open' = IF k = 0 THEN open ELSE From(k)
    BY <1>4
  <2>3. /\ pins' \in [{"PWR_UP", "CE", "TX_EN"} -> BOOLEAN]
        /\ open' \subseteq {"spi", "pwr_up", "ce", "tx_en"}
        /\ pins'["PWR_UP"] => "spi" \in open'
    BY <2>1, <2>2, Pieces DEF Typed, PowerDown
  <2>4. Typed'
    BY <1>0, <1>4, <2>3 DEF Typed
  <2>5. ConfigurationKept'
    BY <1>4 DEF ConfigurationKept
  <2>6. Stages' /\ FailureReleases'
    BY <1>0, <1>4, <2>1, <2>3 DEF Stages, FailureReleases
  <2>. QED
    BY <1>4, <2>4, <2>5, <2>6
<1>. QED
  BY <1>1, <1>2, <1>3, <1>4

\* The k-th step of nrf905_device_init does its part.
LEMMA StepProgress ==
  ASSUME CallersAssumption, IInv, Step
  PROVE  /\ at \in 1..Len(Steps)
         /\ Staged(conf') /\ Staged(regs') /\ DOMAIN asked' = Name
         /\ pins' \in [{"PWR_UP", "CE", "TX_EN"} -> BOOLEAN] /\ torn' \in BOOLEAN
         /\ ConfigurationKept'
         /\ \A k \in 1..Len(Steps) : at = k => Progress(k + 1)'
<1>. USE DEF IInv
<1>0. /\ P \in {2, 3} /\ Len(Steps) = IF Mode = "RX" THEN P + 18 ELSE P + 16
      /\ Mode \in {"TX", "RX"} /\ Pulses \in BOOLEAN
  BY Lengths DEF CallersAssumption
<1>1. at \in 1..Len(Steps) /\ Progress(at)
  BY <1>0 DEF Step, Typed
<1>1a. /\ \A k \in 1..P : Steps[k] = Start[k]
       /\ \A j \in 1..15 : Steps[P + j] = Setters[j]
       /\ Steps[P + 16] = Write
       /\ Mode = "RX" => Steps[P + 17] = Pin("TX_EN", FALSE) /\ Steps[P + 18] = Pin("CE", TRUE)
  <2>1. Mode = "RX" => Steps[P + 16 + 1] = Finish[1] /\ Steps[P + 16 + 2] = Finish[2]
    <3>1. ASSUME Mode = "RX"
          PROVE  Steps[P + 16 + 1] = Finish[1] /\ Steps[P + 16 + 2] = Finish[2]
      <4>1. Len(Finish) = 2
        BY <1>0, <3>1, Finishes
      <4>2. 1 \in 1..Len(Finish) /\ 2 \in 1..Len(Finish)
        BY <4>1
      <4>. QED
        BY <1>0, <4>2, StepList, Zenon
    <3>. QED
      BY <3>1
  <2>2. P + 16 + 1 = P + 17 /\ P + 16 + 2 = P + 18
    BY <1>0
  <2>3. Mode = "RX" => Steps[P + 17] = Finish[1] /\ Steps[P + 18] = Finish[2]
    BY <2>1, <2>2
  <2>4. Mode = "RX" => Finish[1] = Pin("TX_EN", FALSE) /\ Finish[2] = Pin("CE", TRUE)
    BY <1>0, Finishes
  <2>. QED
    BY <1>0, <2>3, <2>4, StepList
<1>1b. /\ Start[1] = Pin("PWR_UP", TRUE) /\ Start[P] = Pin("CE", FALSE)
       /\ \A k \in 1..P : Start[k] \in {Pin("PWR_UP", TRUE), Pin("CE", TRUE), Pin("CE", FALSE)}
  BY <1>0, Starts
<1>2. ASSUME NEW pin \in {"PWR_UP", "CE", "TX_EN"}, NEW level \in BOOLEAN,
             Steps[at] = Pin(pin, level)
      PROVE  /\ pins' = [pins EXCEPT ![pin] = level]
             /\ UNCHANGED <<conf, regs, txAddress, torn, asked, meant>>
             /\ pins' \in [{"PWR_UP", "CE", "TX_EN"} -> BOOLEAN]
             /\ ConfigurationKept'
  <2>1. /\ Steps[at].kind = "pin" /\ Steps[at].pin = pin /\ Steps[at].level = level
    BY <1>2 DEF Pin
  <2>2. /\ pins' = [pins EXCEPT ![pin] = level]
        /\ UNCHANGED <<conf, regs, txAddress, torn, asked, meant>>
    BY <2>1 DEF Step, chip
  <2>. QED
    BY <2>2 DEF ConfigurationKept, Typed
<1>3. CASE at \in 1..P
  <2>1. Steps[at] \in {Pin("PWR_UP", TRUE), Pin("CE", TRUE), Pin("CE", FALSE)}
    BY <1>0, <1>3, <1>1a, <1>1b
  <2>2. PICK pin \in {"PWR_UP", "CE"}, level \in BOOLEAN : Steps[at] = Pin(pin, level)
    BY <2>1
  <2>2a. ASSUME NEW other, NEW truth, Steps[at] = Pin(other, truth)
         PROVE  pin = other /\ level = truth
    <3>1. Steps[at].pin = other /\ Steps[at].level = truth
      BY <2>2a DEF Pin
    <3>2. Steps[at].pin = pin /\ Steps[at].level = level
      BY <2>2 DEF Pin
    <3>. QED
      BY <3>1, <3>2, Zenon
  <2>3. at = 1 => pin = "PWR_UP" /\ level = TRUE
    <3>1. at = 1 => Steps[at] = Pin("PWR_UP", TRUE)
      BY <1>3, <1>1a, <1>1b
    <3>. QED
      BY <2>2a, <3>1, Zenon
  <2>4. at = P => pin = "CE" /\ level = FALSE
    <3>1. at = P => Steps[at] = Pin("CE", FALSE)
      BY <1>3, <1>1a, <1>1b
    <3>. QED
      BY <2>2a, <3>1, Zenon
  <2>5. pin = "PWR_UP" => level = TRUE
    BY <2>1, <2>2 DEF Pin
  <2>6. /\ pins' = [pins EXCEPT ![pin] = level] /\ pins \in [{"PWR_UP", "CE", "TX_EN"} -> BOOLEAN]
        /\ UNCHANGED <<conf, regs, txAddress, torn, asked, meant>>
        /\ pins' \in [{"PWR_UP", "CE", "TX_EN"} -> BOOLEAN]
        /\ ConfigurationKept'
    BY <1>2, <2>2 DEF Typed
  <2>7. ASSUME NEW k \in 1..Len(Steps), at = k PROVE Progress(k + 1)'
    <3>1. pins'["PWR_UP"]
      BY <1>1, <2>3, <2>5, <2>6, <2>7 DEF Progress
    <3>2. P < k + 1 => ~pins'["CE"]
      BY <1>0, <1>3, <2>4, <2>6, <2>7
    <3>. QED
      BY <1>0, <1>1, <1>3, <2>6, <2>7, <3>1, <3>2 DEF Progress
  <2>. QED
    BY <1>1, <2>6, <2>7 DEF Typed
<1>4. CASE at \in P + 1..P + 15
  <2>1. PICK j \in 1..15 : at = P + j
    BY <1>0, <1>4
  <2>. DEFINE name == Setters[j].name
  <2>2. Steps[at] = Setter(name) /\ name \in Name
    BY <1>1a, <2>1, SetterNames
  <2>3. SetField(name, Wanted(name)) /\ UNCHANGED <<pins, regs, txAddress, torn, asked>>
    BY <2>2 DEF Step, Setter, chip
  <2>4. Wanted(name) = Target(name)
    <3>1. CASE name # "frequency"
      BY <3>1 DEF Wanted, Target
    <3>2. CASE name = "frequency"
      <4>1. j # 1
        BY <3>2, SetterNames
      <4>2. meant["pll_mode"] = Header.pll_mode
        BY <1>0, <1>1, <2>1, <4>1, SetterNames DEF Progress, Target
      <4>3. "pll_mode" \in DOMAIN Field
        BY DEF Field
      <4>4. Extract(conf, Field.pll_mode) = Header.pll_mode
        BY <4>2, <4>3, Gets DEF ConfigurationKept, Meaning, Name
      <4>. QED
        BY <3>2, <4>4 DEF Wanted, Target, FrequencyToRegister
    <3>. QED
      BY <3>1, <3>2
  <2>5. Fits(name, Target(name))
    BY <2>2 DEF CallersAssumption
  <2>. HIDE DEF name
  <2>6. Staged(conf') /\ Meaning(conf') = meant' /\ meant' = [meant EXCEPT ![name] = Target(name)]
    BY <2>2, <2>3, <2>4, <2>5, FieldSet DEF Typed, ConfigurationKept
  <2>7. ConfigurationKept'
    BY <2>3, <2>6 DEF ConfigurationKept
  <2>8. ASSUME NEW k \in 1..Len(Steps), at = k PROVE Progress(k + 1)'
    <3>1. meant'[name] = Target(name) /\ \A other \in Name \ {name} : meant'[other] = meant[other]
      BY <2>2, <2>6 DEF ConfigurationKept, Meaning
    <3>2. ASSUME NEW i \in 1..15, P + i < k + 1
          PROVE  meant'[Setters[i].name] = Target(Setters[i].name)
      <4>1. CASE i = j
        BY <3>1, <4>1 DEF name
      <4>2. CASE i # j
        <5>1. P + i < k
          BY <1>0, <2>1, <2>8, <3>2, <4>2
        <5>2. meant[Setters[i].name] = Target(Setters[i].name)
          BY <1>1, <2>8, <5>1 DEF Progress
        <5>3. Setters[i].name \in Name \ {name}
          BY <4>2, SetterNames DEF name
        <5>. QED
          BY <3>1, <5>2, <5>3
      <4>. QED
        BY <4>1, <4>2
    <3>3. ~torn' /\ UNCHANGED pins /\ P < k /\ k < P + 16 /\ ~pins["CE"] /\ pins["PWR_UP"]
      BY <1>0, <1>1, <1>4, <2>3, <2>8 DEF Progress
    <3>. QED
      BY <1>0, <3>2, <3>3 DEF Progress
  <2>. QED
    BY <1>1, <2>3, <2>6, <2>7, <2>8 DEF Typed
<1>5. CASE at = P + 16
  <2>1. WriteConf /\ UNCHANGED <<conf, pins, meant>>
    BY <1>1a, <1>5 DEF Step, Write
  <2>2. regs' = conf /\ asked' = meant /\ ~torn' /\ torn' \in BOOLEAN
    BY <2>1, Written DEF Typed, WriteConf
  <2>3. ConfigurationKept'
    BY <2>1, <2>2 DEF ConfigurationKept
  <2>4. DOMAIN asked' = Name
    BY <2>2 DEF ConfigurationKept, Meaning
  <2>5. ASSUME NEW k \in 1..Len(Steps), at = k PROVE Progress(k + 1)'
    <3>1. pins' = pins /\ meant' = meant /\ k = P + 16
      BY <1>5, <2>1, <2>5
    <3>2. \A j \in 1..15 : meant'[Setters[j].name] = Target(Setters[j].name)
      <4>1. \A j \in 1..15 : P + j < P + 16
        BY <1>0
      <4>. QED
        BY <1>1, <1>5, <3>1, <4>1 DEF Progress
    <3>3. asked' = meant' /\ ~torn'
      BY <2>2, <3>1
    <3>4. pins'["PWR_UP"] /\ ~pins'["CE"]
      <4>1. 1 < P + 16 /\ P < P + 16 /\ P + 16 <= P + 18
        BY <1>0
      <4>. QED
        BY <1>1, <1>5, <3>1, <4>1 DEF Progress
    <3>5. ~(P + 17 < k + 1) /\ ~(P + 18 < k + 1)
      BY <1>0, <3>1
    <3>. QED
      BY <3>2, <3>3, <3>4, <3>5, Zenon DEF Progress
  <2>. QED
    BY <1>1, <2>1, <2>2, <2>3, <2>4, <2>5 DEF Typed
<1>6. CASE Mode = "RX" /\ at = P + 17
  <2>1. Steps[at] = Pin("TX_EN", FALSE)
    BY <1>1a, <1>6
  <2>2. /\ pins' = [pins EXCEPT !["TX_EN"] = FALSE] /\ pins \in [{"PWR_UP", "CE", "TX_EN"} -> BOOLEAN]
        /\ UNCHANGED <<conf, regs, txAddress, torn, asked, meant>>
        /\ pins' \in [{"PWR_UP", "CE", "TX_EN"} -> BOOLEAN]
        /\ ConfigurationKept'
    BY <1>2, <2>1 DEF Typed
  <2>3. ASSUME NEW k \in 1..Len(Steps), at = k PROVE Progress(k + 1)'
    BY <1>0, <1>1, <1>6, <2>2, <2>3 DEF Progress
  <2>. QED
    BY <1>1, <2>2, <2>3 DEF Typed
<1>6a. CASE Mode = "RX" /\ at = P + 18
  <2>1. Steps[at] = Pin("CE", TRUE)
    BY <1>1a, <1>6a
  <2>2. /\ pins' = [pins EXCEPT !["CE"] = TRUE] /\ pins \in [{"PWR_UP", "CE", "TX_EN"} -> BOOLEAN]
        /\ UNCHANGED <<conf, regs, txAddress, torn, asked, meant>>
        /\ pins' \in [{"PWR_UP", "CE", "TX_EN"} -> BOOLEAN]
        /\ ConfigurationKept'
    BY <1>2, <2>1 DEF Typed
  <2>3. ASSUME NEW k \in 1..Len(Steps), at = k PROVE Progress(k + 1)'
    BY <1>0, <1>1, <1>6a, <2>2, <2>3 DEF Progress
  <2>. QED
    BY <1>1, <2>2, <2>3 DEF Typed
<1>7. \/ at \in 1..P \/ at \in P + 1..P + 15 \/ at = P + 16
      \/ (Mode = "RX" /\ at = P + 17) \/ (Mode = "RX" /\ at = P + 18)
  BY <1>0, <1>1
<1>. QED
  BY <1>3, <1>4, <1>5, <1>6, <1>6a, <1>7

\* A step that succeeds: all is done when it was the last one.
Done == result = "ok" => Progress(Len(Steps) + 1)

LEMMA StepIInv ==
  ASSUME CallersAssumption, IInv, Step
  PROVE  IInv' /\ Done'
<1>0. /\ P \in {2, 3} /\ Len(Steps) \in Nat /\ Len(Steps) > 0
  BY Lengths
<1>1. /\ at \in 1..Len(Steps)
      /\ Staged(conf') /\ Staged(regs') /\ DOMAIN asked' = Name
      /\ pins' \in [{"PWR_UP", "CE", "TX_EN"} -> BOOLEAN] /\ torn' \in BOOLEAN
      /\ ConfigurationKept'
      /\ \A k \in 1..Len(Steps) : at = k => Progress(k + 1)'
  BY StepProgress
<1>1a. PICK k \in 1..Len(Steps) : at = k
  BY <1>1
<1>1b. Progress(k + 1)'
  BY <1>1, <1>1a
<1>2. Typed /\ Stages /\ FailureReleases
  BY DEF IInv
<1>3. open' = open /\ inited' = inited /\ stuck' = stuck
  BY DEF Step
<1>4. open = From(1) /\ inited /\ result = "none"
  BY <1>0, <1>1, <1>2 DEF Stages, Typed
<1>5. \/ at = Len(Steps) /\ at' = -1 /\ result' = "ok"
      \/ at # Len(Steps) /\ at' = at + 1 /\ result' = "none"
  BY <1>4 DEF Step
<1>6. at' \in -2..Len(Steps) /\ result' \in {"none", "ok", "failed"}
  BY <1>0, <1>1, <1>5
<1>7. Typed'
  <2>1. open' \subseteq {"spi", "pwr_up", "ce", "tx_en"} /\ inited' \in BOOLEAN /\ stuck' \in BOOLEAN
    BY <1>2, <1>3 DEF Typed
  <2>. QED
    BY <1>1, <1>6, <2>1, Zenon DEF Typed
<1>8. Stages'
  <2>1. at' # 0 /\ (at' = -1 <=> result' # "none") /\ open' = From(1) /\ inited'
    BY <1>0, <1>1, <1>3, <1>4, <1>5
  <2>. QED
    BY <2>1 DEF Stages
<1>9. FailureReleases'
  BY <1>5 DEF FailureReleases
<1>10. at' > 0 => Progress(at)'
  <2>1. at' > 0 => at' = k + 1
    BY <1>1a, <1>5
  <2>. QED
    BY <1>1b, <2>1 DEF Progress
<1>11. Done'
  <2>1. Steps' = Steps
    BY DEF Steps, Start, Setters, Finish, Pin, Setter
  <2>2. result' = "ok" => at = Len(Steps)
    BY <1>5
  <2>3. result' = "ok" => Steps' = Steps /\ k = Len(Steps)
    BY <1>1a, <2>1, <2>2
  <2>4. P' = P
    BY <2>1 DEF P, Start, Pin
  <2>. QED
    BY <1>1b, <2>3 DEF Done, Progress
<1>. QED
  BY <1>1, <1>7, <1>8, <1>9, <1>10, <1>11 DEF IInv

\* A step that fails: the handle is released next.
LEMMA StepFailsIInv ==
  ASSUME CallersAssumption, IInv, StepFails
  PROVE  IInv' /\ result' = result /\ result = "none"
<1>. USE DEF StepFails, GiveUp
<1>0. Len(Steps) \in Nat
  BY Lengths
<1>1. Typed /\ Stages /\ ConfigurationKept /\ at \in 1..Len(Steps)
  BY <1>0 DEF IInv, Typed
<1>2. open = From(1) /\ inited /\ result = "none"
  BY <1>0, <1>1 DEF Stages
<1>3. Staged(regs') /\ asked' = asked /\ (torn' = TRUE \/ UNCHANGED <<regs, torn>>)
  BY <1>1, WriteTorn DEF Typed, chip
<1>4. ConfigurationKept'
  BY <1>1, <1>3 DEF ConfigurationKept
<1>5. /\ conf' = conf /\ pins' = pins /\ open' = open /\ inited' = inited /\ stuck' = stuck
      /\ at' = -2 /\ result' = result
  OBVIOUS
<1>6. Typed'
  <2>1. /\ Staged(conf') /\ DOMAIN asked' = Name /\ torn' \in BOOLEAN
        /\ pins' \in [{"PWR_UP", "CE", "TX_EN"} -> BOOLEAN]
        /\ open' \subseteq {"spi", "pwr_up", "ce", "tx_en"}
        /\ inited' \in BOOLEAN /\ stuck' \in BOOLEAN /\ result' \in {"none", "ok", "failed"}
    BY <1>1, <1>3, <1>5 DEF Typed
  <2>2. -2 \in -2..Len(Steps)
    BY <1>0
  <2>. QED
    BY <1>3, <1>5, <2>1, <2>2, Zenon DEF Typed
<1>7. Stages' /\ FailureReleases'
  BY <1>2, <1>5 DEF Stages, FailureReleases
<1>. QED
  BY <1>2, <1>4, <1>5, <1>6, <1>7 DEF IInv

\* The calls afterwards.
LEMMA UserIInv ==
  ASSUME CallersAssumption, IInv, User
  PROVE  IInv'
<1>1. Typed /\ Stages /\ ConfigurationKept /\ FailureReleases
  BY DEF IInv
<1>2. Callable /\ UNCHANGED <<inited, open, pins, at, result, stuck>>
  BY DEF User, SetTxAddress, UserWrites, UserSets, ChannelConfig, handle, chip
<1>3. SUFFICES Staged(conf') /\ Staged(regs') /\ torn' \in BOOLEAN /\ DOMAIN asked' = Name
               /\ ConfigurationKept'
  <2>1. Steps' = Steps
    BY DEF Steps, Start, Setters, Finish, Pin, Setter
  <2>2. Stages' /\ FailureReleases'
    BY <1>1, <1>2 DEF Callable, Stages, FailureReleases
  <2>3. ~(at' > 0)
    BY <1>2 DEF Callable
  <2>4. Typed'
    BY <1>1, <1>2, <1>3, <2>1 DEF Typed
  <2>. QED
    BY <1>3, <2>2, <2>3, <2>4 DEF IInv
<1>4. CASE SetTxAddress
  BY <1>1, <1>4 DEF SetTxAddress, handle, Typed, ConfigurationKept
<1>5. CASE UserWrites
  <2>1. UNCHANGED <<conf, meant>>
    BY <1>5 DEF UserWrites, handle
  <2>2. CASE WriteConf
    <3>1. regs' = conf /\ asked' = meant /\ ~torn' /\ torn' \in BOOLEAN
      BY <1>1, <2>2, Written DEF Typed, WriteConf
    <3>. QED
      BY <1>1, <2>1, <3>1 DEF Typed, ConfigurationKept, Meaning
  <2>3. CASE WriteConfFails
    BY <1>1, <2>1, <2>3, WriteTorn DEF Typed, ConfigurationKept
  <2>. QED
    BY <1>5, <2>2, <2>3 DEF UserWrites
<1>6. ASSUME NEW name \in Settable, NEW v \in Values[name], UserSets(name, v)
      PROVE  Staged(conf') /\ Staged(regs') /\ torn' \in BOOLEAN /\ DOMAIN asked' = Name
             /\ ConfigurationKept'
  <2>1. regs' = regs /\ torn' = torn /\ asked' = asked
    BY <1>6 DEF UserSets, chip
  <2>2. CASE TooLarge(name, v)
    <3>1. conf' = conf /\ meant' = meant
      BY <1>6, <2>2 DEF UserSets
    <3>. QED
      BY <1>1, <2>1, <3>1 DEF Typed, ConfigurationKept
  <2>3. CASE ~TooLarge(name, v)
    <3>1. SetField(name, v) /\ name \in Name /\ Fits(name, v)
      BY <1>6, <2>3 DEF UserSets, CallersAssumption
    <3>2. Staged(conf') /\ Meaning(conf') = meant'
      BY <1>1, <3>1, FieldSet DEF Typed, ConfigurationKept
    <3>. QED
      BY <1>1, <2>1, <3>2 DEF Typed, ConfigurationKept
  <2>. QED
    BY <2>2, <2>3
<1>7. ASSUME NEW freq \in Values.frequency, NEW band \in {0, 1},
             NEW power \in Values.output_power, ChannelConfig(freq, band, power)
      PROVE  Staged(conf') /\ Staged(regs') /\ torn' \in BOOLEAN /\ DOMAIN asked' = Name
             /\ ConfigurationKept'
  <2>1. conf' = conf /\ meant' = meant
    BY <1>7 DEF ChannelConfig, handle
  <2>2. freq \in 0..511 /\ band \in 0..1 /\ power \in 0..3
    BY <1>7 DEF ChannelConfig, CallersAssumption
  <2>. DEFINE d == TakesChannel(freq, band, power)
  <2>2a. Staged(regs)
    BY <1>1 DEF Typed
  <2>3. /\ Staged(d)
        /\ Meaning(d) = [Meaning(regs) EXCEPT !.frequency = freq, !.pll_mode = band,
                                              !.output_power = power]
    <3>1. SetsThree(freq, band, power)
      BY <2>2, <2>2a, TakesChannelSets, Zenon
    <3>. QED
      BY <3>1 DEF SetsThree
  <2>4. CASE /\ regs' = d /\ torn' = torn
             /\ asked' = [asked EXCEPT !.frequency = freq, !.pll_mode = band,
                                       !.output_power = power]
    <3>. HIDE DEF d
    <3>. QED
      BY <1>1, <2>1, <2>3, <2>4 DEF Typed, ConfigurationKept
  <2>5. CASE regs' \in {regs, d} /\ torn' = TRUE /\ asked' = asked
    <3>. HIDE DEF d
    <3>. QED
      BY <1>1, <2>1, <2>3, <2>5 DEF Typed, ConfigurationKept
  <2>. QED
    BY <1>7, <2>4, <2>5 DEF ChannelConfig
<1>. QED
  BY <1>4, <1>5, <1>6, <1>7 DEF User

\* One step of the driver.
LEMMA NextIInv ==
  ASSUME CallersAssumption, IInv, [Next]_vars
  PROVE  IInv'
<1>1. CASE UNCHANGED vars
  <2>1. Steps' = Steps
    BY DEF Steps, Start, Setters, Finish, Pin, Setter
  <2>2. UNCHANGED <<conf, inited, open, pins, regs, torn, asked, at, result, stuck, meant>>
    BY <1>1 DEF vars, handle, chip
  <2>3. Typed' /\ ConfigurationKept'
    BY <2>1, <2>2 DEF IInv, Typed, ConfigurationKept
  <2>4. Stages' /\ FailureReleases'
    BY <2>1, <2>2 DEF IInv, Stages, FailureReleases
  <2>5. at' > 0 => Progress(at)'
    BY <2>2 DEF IInv, Progress
  <2>. QED
    BY <2>3, <2>4, <2>5 DEF IInv
<1>. QED
  BY <1>1, OpenClose, StepIInv, StepFailsIInv, UserIInv DEF Next, DeviceInit

\* An initialisation that has returned 0 stays done while only the address is set.
LEMMA StaysDone ==
  ASSUME CallersAssumption, IInv, Done, DeviceInit \/ SetTxAddress \/ UNCHANGED vars
  PROVE  Done'
<1>0. Steps' = Steps
  BY DEF Steps, Start, Setters, Finish, Pin, Setter
<1>1. CASE Step
  BY <1>1, StepIInv
<1>2. CASE StepFails
  BY <1>2, StepFailsIInv DEF Done
<1>3. CASE NrfInit
  <2>1. result = "none"
    BY <1>3 DEF IInv, Stages, NrfInit
  <2>. QED
    BY <1>3, <2>1 DEF NrfInit, Done
<1>4. CASE NrfInitFails \/ Deinit \/ DeinitFails
  BY <1>4 DEF NrfInitFails, Deinit, DeinitFails, Done
<1>5. CASE SetTxAddress \/ UNCHANGED vars
  <2>1. UNCHANGED <<pins, torn, asked, meant, result>>
    BY <1>5 DEF SetTxAddress, vars, handle, chip
  <2>. QED
    BY <1>0, <2>1 DEF Done, Progress
<1>. QED
  BY <1>1, <1>2, <1>3, <1>4, <1>5 DEF DeviceInit

\* What a chip is like when the initialisation has returned 0.
LEMMA WhenDone ==
  ASSUME CallersAssumption, IInv, Done, result = "ok"
  PROVE  /\ Meaning(regs) = [name \in Name |-> Target(name)]
         /\ pins["PWR_UP"]
         /\ Mode = "TX" => ~pins["CE"]
         /\ Mode = "RX" => pins["CE"] /\ ~pins["TX_EN"]
<1>1. /\ P \in {2, 3} /\ Len(Steps) = (IF Mode = "RX" THEN P + 18 ELSE P + 16)
      /\ Mode \in {"TX", "RX"}
  BY Lengths DEF CallersAssumption
<1>2. Progress(Len(Steps) + 1)
  BY DEF Done
<1>3. ~torn /\ asked = meant /\ pins["PWR_UP"]
  BY <1>1, <1>2 DEF Progress
<1>4. Meaning(regs) = meant /\ Meaning(conf) = meant
  BY <1>3 DEF IInv, ConfigurationKept
<1>5. \A j \in 1..15 : meant[Setters[j].name] = Target(Setters[j].name)
  <2>1. \A j \in 1..15 : P + j < Len(Steps) + 1
    BY <1>1
  <2>. QED
    BY <1>2, <2>1 DEF Progress
<1>6. \A name \in Name : meant[name] = Target(name)
  BY <1>5, SetterNames
<1>7. meant = [name \in Name |-> Target(name)]
  BY <1>4, <1>6 DEF Meaning
<1>8. Mode = "TX" => ~pins["CE"]
  BY <1>1, <1>2 DEF Progress
<1>9. Mode = "RX" => pins["CE"] /\ ~pins["TX_EN"]
  BY <1>1, <1>2 DEF Progress
<1>. QED
  BY <1>3, <1>4, <1>7, <1>8, <1>9

-----------------------------------------------------------------------------
(* Theorems.                                                               *)

\* What the callers pass does not change.
LEMMA CallersConstant == CallersAssumption => CallersAssumption'
BY DEF CallersAssumption, Fits, Target, TooLarge, Field, Name, Bits, CONF1, CONF2, RX_PW,
   TX_PW,
   CONF3

\* The invariant holds from the start on, whatever is called and whatever fails.
THEOREM Invariance == CallersAssumption /\ Spec => [](CallersAssumption /\ IInv)
<1>1. CallersAssumption /\ Init => IInv
  BY InitIInv
<1>2. CallersAssumption /\ IInv /\ [Next]_vars => IInv'
  BY NextIInv
<1>. QED
  BY <1>1, <1>2, CallersConstant, PTL DEF Spec

\* Every byte that is staged or sent stays a byte, nothing else than the bus and
\* the three pins is ever open, and the initialisation stays within its steps.
THEOREM TypesCorrect == CallersAssumption /\ Spec => []TypeOK
<1>1. CallersAssumption /\ IInv => TypeOK
  <2>. SUFFICES ASSUME CallersAssumption, IInv PROVE TypeOK
    OBVIOUS
  <2>1. P \in {2, 3} /\ Len(Steps) \in 0..40
    <3>1. /\ P \in {2, 3} /\ Len(Steps) \in Nat
          /\ Len(Steps) = IF Mode = "RX" THEN P + 18 ELSE P + 16
      BY Lengths
    <3>. QED
      BY <3>1
  <2>2. at \in -2..40
    <3>1. at \in -2..Len(Steps)
      BY DEF IInv, Typed
    <3>2. \A n \in 0..40 : -2..n \subseteq -2..40
      OBVIOUS
    <3>. QED
      BY <2>1, <3>1, <3>2, Zenon
  <2>3. DOMAIN meant = Name
    BY DEF IInv, ConfigurationKept, Meaning
  <2>4. Typed
    BY DEF IInv
  <2>. QED
    BY <2>2, <2>3, <2>4 DEF Typed, Staged, TypeOK
<1>. QED
  BY <1>1, Invariance, PTL

\* Setters in any order change the field they are for and no other one, and the
\* chip holds what was last sent to it, by the register or the short command.
THEOREM ConfigurationIsKept == CallersAssumption /\ Spec => []ConfigurationKept
<1>1. IInv => ConfigurationKept
  BY DEF IInv
<1>. QED
  BY <1>1, Invariance, PTL

\* A nrf905_device_init that fails at any step has powered the chip down and
\* released the bus and the pins, unless the interface refuses one of these.
THEOREM FailureAlwaysReleases == CallersAssumption /\ Spec => []FailureReleases
<1>1. IInv => FailureReleases
  BY DEF IInv
<1>. QED
  BY <1>1, Invariance, PTL
=============================================================================
