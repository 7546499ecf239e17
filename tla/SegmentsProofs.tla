--------------------------- MODULE SegmentsProofs ---------------------------
(***************************************************************************)
(* The bytes of a stream: every packet that is built is one the client's   *)
(* TCP accepts, responses arrive whole and the client's packets go up as   *)
(* they were sent, for every stream, segment size and data that fit        *)
(* packets of 16 bits length.                                              *)
(*                                                                         *)
(* A checksum makes a sum of words zero modulo 65535, in both orders of    *)
(* their bytes; the fields of a packet are read where they were written;   *)
(* numbers of 32 bits that wrap around count the data sent.  With these    *)
(* facts about the operators of Packets, SegInv is an invariant of the     *)
(* stream: the packets sent so far, each where the data before it ends,    *)
(* and what is left of the response are what the server answered.          *)
(*                                                                         *)
(* The last part has the types of the relay's parts side by side.          *)
(***************************************************************************)
EXTENDS RelayProofs, MCRelay, Induction

-----------------------------------------------------------------------------
(* Sums of words.                                                          *)
SumOf(f, w) ==
  /\ f \in [0..Len(w) -> Nat]
  /\ f[0] = 0 /\ \A i \in 1..Len(w) : f[i] = w[i] + f[i - 1]
  /\ Total(w) = f[Len(w)]

LEMMA SumExists ==
  ASSUME NEW w \in Seq(Nat)
  PROVE  \E f : SumOf(f, w)
<1> DEFINE n == Len(w)
           step == [x \in (1..n) \X Nat |-> w[x[1]] + x[2]]
           IsSum(f) == f = [i \in 0..n |-> IF i = 0 THEN 0 ELSE w[i] + f[i - 1]]
<1>1. n \in Nat
  OBVIOUS
<1>2. step \in [(1..n) \X Nat -> Nat]
  OBVIOUS
<1>3. \A i \in 1..n, v \in Nat : step[i, v] = w[i] + v
  BY ZenonT(60)
<1> HIDE DEF step, n
<1>4. PICK f \in [0..n -> Nat] : Recursive(f, n, 0, step)
  BY <1>1, <1>2, RecursionExists
<1>5. IsSum(f)
  <2>1. \A i \in 0..n : i # 0 => i \in 1..n /\ i - 1 \in 0..n
    BY <1>1
  <2>2. \A i \in 0..n : f[i] = IF i = 0 THEN 0 ELSE w[i] + f[i - 1]
    BY <1>3, <1>4, <2>1, ZenonT(60) DEF Recursive
  <2> QED BY <1>4, <2>2
<1>6. PICK g : IsSum(g) /\ Total(w) = g[n]
  <2>1. IsSum(CHOOSE g : IsSum(g))
    BY <1>5
  <2> QED BY <2>1 DEF Total, n
<1>7. \A i \in 1..n : g[i - 1] = f[i - 1] => g[i] = f[i]
  <2> SUFFICES ASSUME NEW i \in 1..n, g[i - 1] = f[i - 1] PROVE g[i] = f[i]
    OBVIOUS
  <2>1. i \in 0..n /\ i # 0
    BY <1>1
  <2>2. g[i] = w[i] + g[i - 1] /\ f[i] = w[i] + f[i - 1]
    BY <1>5, <1>6, <2>1
  <2> QED BY <2>2
<1>8. 0 \in 0..n /\ g[0] = 0 /\ f[0] = 0 /\ g[0] = f[0]
  BY <1>1, <1>5, <1>6
<1>9. \A i \in 0..n : g[i] = f[i]
  <2> DEFINE S == {i \in 0..n : g[i] = f[i]}
  <2>1. 0 \in S /\ \A i \in 1..n : i - 1 \in S => i \in S
    BY <1>1, <1>7, <1>8
  <2>2. \A i \in 0..n : i \in S
    <3> HIDE DEF S
    <3> QED BY <1>1, <2>1, UpTo
  <2> QED BY <2>2
<1>10. g \in [0..n -> Nat]
  BY <1>6, <1>9
<1>11. \A i \in 1..n : g[i] = w[i] + g[i - 1]
  BY <1>1, <1>6
<1> QED BY <1>6, <1>8, <1>10, <1>11 DEF SumOf, n

Word == 0..(Base - 1)

LEMMA WordIsSmall ==
  /\ \A x : x \in Word <=> x \in Nat /\ x <= 65535
  /\ \A x \in Word : x \in Nat
<1>1. \A x : x \in Word <=> x \in Nat /\ x <= Base - 1
  BY BaseIsNat DEF Word
<1>2. Base - 1 = 65535
  BY DEF Base
<1> QED BY <1>1, <1>2

LEMMA SumBounded ==
  ASSUME NEW w \in Seq(Word), NEW f, SumOf(f, w)
  PROVE  \A i \in 0..Len(w) : f[i] <= 65535 * i
<1> DEFINE n == Len(w)
           S == {i \in 0..n : f[i] <= 65535 * i}
<1>1. n \in Nat /\ \A i \in 1..n : w[i] \in Word
  OBVIOUS
<1>2. f \in [0..n -> Nat] /\ f[0] = 0 /\ \A i \in 1..n : f[i] = w[i] + f[i - 1]
  BY DEF SumOf
<1> HIDE DEF n
<1>3. 0 \in S
  BY <1>1, <1>2
<1>4. ASSUME NEW i \in 1..n, i - 1 \in S PROVE i \in S
  <2>1. i \in 0..n /\ i - 1 \in 0..n
    BY <1>1
  <2>2. f[i] \in Nat /\ f[i - 1] \in Nat /\ i \in Nat
    BY <1>1, <1>2, <2>1
  <2>3. f[i] = w[i] + f[i - 1] /\ w[i] \in Nat /\ w[i] <= 65535
    <3>1. f[i] = w[i] + f[i - 1] /\ w[i] \in Word
      BY <1>1, <1>2
    <3> QED BY <3>1, WordIsSmall
  <2>4. f[i - 1] <= 65535 * (i - 1)
    BY <1>4
  <2>5. \A y, z \in Nat : z <= 65535 /\ y <= 65535 * (i - 1) => z + y <= 65535 * i
    BY <2>2
  <2> QED BY <2>1, <2>2, <2>3, <2>4, <2>5
<1>5. \A i \in 0..n : i \in S
  <2> HIDE DEF S
  <2> QED BY <1>1, <1>3, <1>4, UpTo
<1> QED BY <1>5 DEF n

(* One word less, or more: the sum differs as the word does.               *)
DifferBy(u, v, j, c) ==
  /\ u \in Seq(Nat) /\ v \in Seq(Nat) /\ Len(u) = Len(v) /\ j \in 1..Len(u) /\ c \in Nat
  /\ v[j] = u[j] + c /\ \A i \in 1..Len(u) : i # j => v[i] = u[i]

LEMMA SumPlaced ==
  ASSUME NEW u, NEW v, NEW j, NEW c, DifferBy(u, v, j, c)
  PROVE  Total(v) = Total(u) + c
<1> DEFINE n == Len(u)
<1> USE DEF DifferBy
<1>1. n \in Nat /\ j \in 1..n /\ c \in Nat
  OBVIOUS
<1>2. PICK f : SumOf(f, u)
  BY SumExists
<1>3. PICK g : SumOf(g, v)
  BY SumExists
<1>4. f \in [0..n -> Nat] /\ f[0] = 0 /\ \A i \in 1..n : f[i] = u[i] + f[i - 1]
  BY <1>2 DEF SumOf
<1>5. g \in [0..n -> Nat] /\ g[0] = 0 /\ \A i \in 1..n : g[i] = v[i] + g[i - 1]
  BY <1>3 DEF SumOf
<1>6. \A i \in 1..n : v[i] = (IF i = j THEN u[i] + c ELSE u[i]) /\ u[i] \in Nat
  OBVIOUS
<1>7. Total(u) = f[n] /\ Total(v) = g[n]
  BY <1>2, <1>3 DEF SumOf
<1> HIDE DEF n, DifferBy
<1> DEFINE S == {i \in 0..n : g[i] = f[i] + (IF i < j THEN 0 ELSE c)}
<1>8. 0 \in S
  BY <1>1, <1>4, <1>5
<1>9. ASSUME NEW i \in 1..n, i - 1 \in S PROVE i \in S
  <2>1. f[i] = u[i] + f[i - 1] /\ g[i] = v[i] + g[i - 1]
    BY <1>4, <1>5
  <2>2. i \in 0..n /\ i - 1 \in 0..n
    BY <1>1
  <2>3. f[i - 1] \in Nat /\ u[i] \in Nat
    BY <1>4, <1>6, <2>2
  <2>4. g[i - 1] = f[i - 1] + (IF i - 1 < j THEN 0 ELSE c)
    BY <1>9
  <2>5. v[i] = IF i = j THEN u[i] + c ELSE u[i]
    BY <1>6
  <2>6. \A x, y \in Nat : (IF i = j THEN x + c ELSE x) + (y + (IF i - 1 < j THEN 0 ELSE c))
                           = x + y + (IF i < j THEN 0 ELSE c)
    BY <1>1
  <2>7. g[i] = f[i] + (IF i < j THEN 0 ELSE c)
    BY <2>1, <2>3, <2>4, <2>5, <2>6
  <2> QED BY <2>2, <2>7
<1>10. \A i \in 0..n : i \in S
  <2> HIDE DEF S
  <2> QED BY <1>1, <1>8, <1>9, UpTo
<1>11. n \in 0..n /\ ~(n < j)
  BY <1>1
<1> QED BY <1>7, <1>10, <1>11

(* The same bytes read in the other order: 256 times as much, but for a    *)
(* multiple of 65535.                                                      *)
Scaled(u, v, d) ==
  /\ u \in Seq(Nat) /\ v \in Seq(Nat) /\ d \in Seq(Nat) /\ Len(u) = Len(v) /\ Len(d) = Len(u)
  /\ \A i \in 1..Len(u) : 256 * u[i] = v[i] + 65535 * d[i]

LEMMA SumScaled ==
  ASSUME NEW u, NEW v, NEW d, Scaled(u, v, d)
  PROVE  256 * Total(u) = Total(v) + 65535 * Total(d)
<1> DEFINE n == Len(u)
<1> USE DEF Scaled
<1>1. n \in Nat
  OBVIOUS
<1>2. PICK f : SumOf(f, u)
  BY SumExists
<1>3. PICK g : SumOf(g, v)
  BY SumExists
<1>4. PICK h : SumOf(h, d)
  BY SumExists
<1>5. f \in [0..n -> Nat] /\ f[0] = 0 /\ \A i \in 1..n : f[i] = u[i] + f[i - 1]
  BY <1>2 DEF SumOf
<1>6. g \in [0..n -> Nat] /\ g[0] = 0 /\ \A i \in 1..n : g[i] = v[i] + g[i - 1]
  BY <1>3 DEF SumOf
<1>7. h \in [0..n -> Nat] /\ h[0] = 0 /\ \A i \in 1..n : h[i] = d[i] + h[i - 1]
  BY <1>4 DEF SumOf
<1>8. \A i \in 1..n : u[i] \in Nat /\ v[i] \in Nat /\ d[i] \in Nat
  <2> SUFFICES ASSUME NEW i \in 1..n PROVE u[i] \in Nat /\ v[i] \in Nat /\ d[i] \in Nat
    OBVIOUS
  <2>1. u[i] \in Nat
    BY ElementOfSeq
  <2>2. v[i] \in Nat
    BY ElementOfSeq
  <2>3. d[i] \in Nat
    BY ElementOfSeq
  <2> QED BY <2>1, <2>2, <2>3
<1>9. Total(u) = f[n] /\ Total(v) = g[n] /\ Total(d) = h[n]
  BY <1>2, <1>3, <1>4 DEF SumOf
<1>10. \A i \in 1..n : 256 * u[i] = v[i] + 65535 * d[i]
  OBVIOUS
<1> HIDE DEF n, Scaled
<1> DEFINE S == {i \in 0..n : 256 * f[i] = g[i] + 65535 * h[i]}
<1>11. 0 \in S
  BY <1>1, <1>5, <1>6, <1>7
<1>12. ASSUME NEW i \in 1..n, i - 1 \in S PROVE i \in S
  <2>1. f[i] = u[i] + f[i - 1] /\ g[i] = v[i] + g[i - 1] /\ h[i] = d[i] + h[i - 1]
    BY <1>5, <1>6, <1>7
  <2>2. i \in 0..n /\ i - 1 \in 0..n
    BY <1>1
  <2>3. f[i - 1] \in Nat
    BY <1>5, <2>2
  <2>4. g[i - 1] \in Nat
    BY <1>6, <2>2
  <2>5. h[i - 1] \in Nat
    BY <1>7, <2>2
  <2>6. 256 * f[i - 1] = g[i - 1] + 65535 * h[i - 1] /\ 256 * u[i] = v[i] + 65535 * d[i]
    BY <1>10, <1>12
  <2>8. u[i] \in Nat /\ v[i] \in Nat /\ d[i] \in Nat
    BY <1>8
  <2>9. 256 * (u[i] + f[i - 1]) = (v[i] + g[i - 1]) + 65535 * (d[i] + h[i - 1])
    <3> DEFINE x1 == u[i]  y1 == v[i]  z1 == d[i]
               x2 == f[i - 1]  y2 == g[i - 1]  z2 == h[i - 1]
    <3>1. /\ x1 \in Nat /\ y1 \in Nat /\ z1 \in Nat /\ x2 \in Nat /\ y2 \in Nat /\ z2 \in Nat
          /\ 256 * x1 = y1 + 65535 * z1 /\ 256 * x2 = y2 + 65535 * z2
      BY <2>3, <2>4, <2>5, <2>6, <2>8
    <3> HIDE DEF x1, y1, z1, x2, y2, z2
    <3>2. 256 * (x1 + x2) = (y1 + y2) + 65535 * (z1 + z2)
      BY <3>1
    <3> QED BY <3>2 DEF x1, y1, z1, x2, y2, z2
  <2>10. 256 * f[i] = g[i] + 65535 * h[i]
    BY <2>1, <2>9
  <2> QED BY <2>2, <2>10
<1>13. \A i \in 0..n : i \in S
  <2> HIDE DEF S
  <2> QED BY <1>1, <1>11, <1>12, UpTo
<1> QED BY <1>1, <1>9, <1>13

-----------------------------------------------------------------------------
(* checksum(), for every sequence of bytes a packet can be.                *)
LEMMA ByteIsSmall ==
  /\ \A x : x \in Byte <=> x \in Nat /\ x <= 255
  /\ Byte \subseteq Nat
  BY DEF Byte

LEMMA WordOfBytes ==
  ASSUME NEW x \in Byte, NEW y \in Byte
  PROVE  /\ 256 * x + y \in Word /\ x + 256 * y \in Word
         /\ 256 * (x + 256 * y) = (256 * x + y) + 65535 * y
<1>1. x \in Nat /\ y \in Nat /\ x <= 255 /\ y <= 255
  BY ByteIsSmall
<1>2. /\ 256 * x + y \in Nat /\ 256 * x + y <= 65535
      /\ x + 256 * y \in Nat /\ x + 256 * y <= 65535
      /\ 256 * (x + 256 * y) = (256 * x + y) + 65535 * y
  BY <1>1
<1> QED BY <1>2, WordIsSmall

LEMMA BytesOfWord ==
  ASSUME NEW c \in Word
  PROVE  /\ c % 256 \in Byte /\ c \div 256 \in Byte
         /\ (c % 256) + 256 * (c \div 256) = c
<1>1. c \in Nat /\ c <= 65535
  BY WordIsSmall
<1>2. /\ c % 256 \in Nat /\ c % 256 <= 255 /\ c \div 256 \in Nat /\ c \div 256 <= 255
      /\ (c % 256) + 256 * (c \div 256) = c
  BY <1>1, SMT
<1> QED BY <1>2, ByteIsSmall

(* The bytes of word j, and no others.                                     *)
LEMMA PlaceOfWord ==
  ASSUME NEW m \in Nat, NEW j \in 1..m
  PROVE  /\ 2 * j \in 1..(2 * m) /\ 2 * j - 1 \in 1..(2 * m)
         /\ (2 * m) \div 2 = m
         /\ \A i \in 1..m : i # j => {2 * i, 2 * i - 1} \cap {2 * j, 2 * j - 1} = {}
<1>1. j \in Nat /\ m \in Nat /\ 1 <= j /\ j <= m
  OBVIOUS
<1>2. (2 * m) \div 2 = m
  BY <1>1, SMT
<1>3. 2 * j \in 1..(2 * m) /\ 2 * j - 1 \in 1..(2 * m)
  BY <1>1
<1>4. ASSUME NEW i \in 1..m, i # j
      PROVE  2 * i # 2 * j /\ 2 * i # 2 * j - 1 /\ 2 * i - 1 # 2 * j /\ 2 * i - 1 # 2 * j - 1
  <2>1. i \in Nat
    OBVIOUS
  <2> QED BY <1>1, <1>4, <2>1
<1> QED BY <1>2, <1>3, <1>4

(* Bytes that make m words, few enough for a sum of 32 bits.               *)
Paired(e, m) == m \in Nat /\ m <= Base /\ e \in Seq(Byte) /\ Len(e) = 2 * m

LEMMA WordsRead ==
  ASSUME NEW m, NEW e, Paired(e, m)
  PROVE  /\ Words(e) \in Seq(Word) /\ Len(Words(e)) = m
         /\ BigWords(e) \in Seq(Word) /\ Len(BigWords(e)) = m
         /\ \A j \in 1..m : /\ Words(e)[j] = e[2 * j - 1] + 256 * e[2 * j]
                            /\ BigWords(e)[j] = 256 * e[2 * j - 1] + e[2 * j]
                            /\ e[2 * j - 1] \in Byte /\ e[2 * j] \in Byte
<1> USE DEF Paired
<1>1. (2 * m) \div 2 = m
  BY SMT
<1>2. ASSUME NEW j \in 1..m
      PROVE  /\ e[2 * j - 1] \in Byte /\ e[2 * j] \in Byte
             /\ 2 * j - 1 + 1 = 2 * j
             /\ e[2 * j - 1] + 256 * e[2 * j] \in Word
             /\ 256 * e[2 * j - 1] + e[2 * j] \in Word
  <2>1. 2 * j \in 1..Len(e) /\ 2 * j - 1 \in 1..Len(e)
    BY PlaceOfWord
  <2>2. e[2 * j - 1] \in Byte /\ e[2 * j] \in Byte
    BY <2>1, ElementOfSeq
  <2>3. 2 * j - 1 + 1 = 2 * j
    OBVIOUS
  <2> QED BY <2>2, <2>3, WordOfBytes
<1>3. /\ Words(e) = [j \in 1..m |-> e[2 * j - 1] + 256 * e[2 * j]]
      /\ BigWords(e) = [j \in 1..m |-> 256 * e[2 * j - 1] + e[2 * j]]
  BY <1>1, <1>2 DEF Words, BigWords, At
<1>4. Words(e) \in [1..m -> Word] /\ BigWords(e) \in [1..m -> Word]
  BY <1>2, <1>3
<1>5. ASSUME NEW f \in [1..m -> Word] PROVE f \in Seq(Word) /\ Len(f) = m
  <2>1. f \in Seq(Word)
    BY SeqDef
  <2>2. DOMAIN f = 1..m /\ DOMAIN f = 1..Len(f) /\ Len(f) \in Nat
    BY <2>1, LenProperties
  <2> QED BY <2>1, <2>2
<1> QED BY <1>2, <1>3, <1>4, <1>5

Fits(s, i) == s \in Seq(Byte) /\ i \in 1..Len(s) /\ i + 1 \in 1..Len(s)

LEMMA StoreKeeps ==
  ASSUME NEW s, NEW i, Fits(s, i), NEW c \in Word
  PROVE  /\ Store(s, i, c) \in Seq(Byte) /\ Len(Store(s, i, c)) = Len(s)
         /\ Store(s, i, c)[i] = c % 256 /\ Store(s, i, c)[i + 1] = c \div 256
         /\ \A k \in 1..Len(s) : k # i /\ k # i + 1 => Store(s, i, c)[k] = s[k]
<1> DEFINE x == c % 256
           y == c \div 256
           r == [s EXCEPT ![i] = x, ![i + 1] = y]
<1> USE DEF Fits
<1>1. x \in Byte /\ y \in Byte
  BY BytesOfWord
<1>2. Store(s, i, c) = r
  BY DEF Store
<1> HIDE DEF x, y
<1>3. i \in Nat /\ i # i + 1
  OBVIOUS
<1>4. s \in [1..Len(s) -> Byte] /\ Len(s) \in Nat
  BY LenProperties, ElementOfSeq
<1>5. r \in [1..Len(s) -> Byte]
  BY <1>1, <1>4
<1>6. r \in Seq(Byte)
  BY <1>4, <1>5, SeqDef
<1>7. Len(r) = Len(s)
  BY <1>4, <1>5, <1>6, LenProperties
<1>8. r[i] = x /\ r[i + 1] = y /\ \A k \in 1..Len(s) : k # i /\ k # i + 1 => r[k] = s[k]
  BY <1>3, <1>4
<1> QED BY <1>2, <1>6, <1>7, <1>8 DEF x, y

LEMMA WiderSeq ==
  ASSUME NEW S, NEW T, S \subseteq T, NEW s \in Seq(S)
  PROVE  s \in Seq(T)
<1>1. Len(s) \in Nat /\ s \in [1..Len(s) -> S]
  BY LenProperties, ElementOfSeq
<1>2. s \in [1..Len(s) -> T]
  BY <1>1
<1> QED BY <1>1, <1>2, SeqDef

LEMMA TotalIsNat ==
  ASSUME NEW w \in Seq(Nat)
  PROVE  Total(w) \in Nat
<1>1. PICK f : SumOf(f, w)
  BY SumExists
<1>2. Len(w) \in 0..Len(w)
  OBVIOUS
<1> QED BY <1>1, <1>2 DEF SumOf

LEMMA TotalBounded ==
  ASSUME NEW m \in Nat, m <= Base, NEW w \in Seq(Word), Len(w) = m
  PROVE  Total(w) \in Nat /\ Total(w) < Base * Base
<1>1. w \in Seq(Nat)
  BY WordIsSmall, WiderSeq
<1>2. PICK f : SumOf(f, w)
  BY <1>1, SumExists
<1>3. m \in 0..Len(w) /\ Total(w) = f[m]
  BY <1>2 DEF SumOf
<1>4. f[m] <= 65535 * m
  BY <1>2, <1>3, SumBounded
<1>5. f[m] \in Nat
  BY <1>1, <1>3, TotalIsNat
<1>6. 65535 * m < 65536 * 65536
  BY DEF Base
<1>7. f[m] < 65536 * 65536
  BY <1>4, <1>5, <1>6
<1> QED BY <1>3, <1>5, <1>7 DEF Base

LEMMA WordsStored ==
  ASSUME NEW m, NEW e, Paired(e, m), NEW j \in 1..m, NEW c \in Word
  PROVE  LET s == Store(e, 2 * j - 1, c) IN
         /\ Paired(s, m)
         /\ Words(s)[j] = c /\ \A i \in 1..m : i # j => Words(s)[i] = Words(e)[i]
<1> DEFINE k == 2 * j - 1
           s == Store(e, k, c)
<1>1. Fits(e, k) /\ k + 1 = 2 * j
  BY PlaceOfWord DEF Fits, Paired
<1> HIDE DEF k
<1>2. /\ s \in Seq(Byte) /\ Len(s) = Len(e) /\ s[k] = c % 256 /\ s[k + 1] = c \div 256
      /\ \A i \in 1..Len(e) : i # k /\ i # k + 1 => s[i] = e[i]
  BY <1>1, StoreKeeps
<1>0. Paired(s, m)
  BY <1>2 DEF Paired
<1> HIDE DEF s
<1>3. \A i \in 1..m : Words(s)[i] = s[2 * i - 1] + 256 * s[2 * i]
  BY <1>0, WordsRead
<1>4. \A i \in 1..m : Words(e)[i] = e[2 * i - 1] + 256 * e[2 * i]
  BY WordsRead
<1>5. Words(s)[j] = c
  <2>1. Words(s)[j] = s[k] + 256 * s[k + 1]
    BY <1>1, <1>3 DEF k
  <2> QED BY <1>2, <2>1, BytesOfWord
<1>6. ASSUME NEW i \in 1..m, i # j PROVE Words(s)[i] = Words(e)[i]
  <2>1. 2 * i \in 1..Len(e) /\ 2 * i - 1 \in 1..Len(e)
    BY PlaceOfWord DEF Paired
  <2>2. 2 * i # k + 1 /\ 2 * i # k /\ 2 * i - 1 # k + 1 /\ 2 * i - 1 # k
    BY <1>1, <1>6, PlaceOfWord DEF k, Paired
  <2>3. s[2 * i] = e[2 * i] /\ s[2 * i - 1] = e[2 * i - 1]
    BY <1>2, <2>1, <2>2
  <2> QED BY <1>3, <1>4, <2>3
<1> QED BY <1>0, <1>5, <1>6 DEF s, k

LEMMA BothOrders ==
  ASSUME NEW m, NEW e, Paired(e, m)
  PROVE  \E k \in Nat : 256 * Total(Words(e)) = Total(BigWords(e)) + 65535 * k
<1> DEFINE u == Words(e)
           v == BigWords(e)
           d == [i \in 1..m |-> e[2 * i]]
<1>1. /\ u \in Seq(Word) /\ v \in Seq(Word) /\ Len(u) = m /\ Len(v) = m
      /\ \A i \in 1..m : /\ u[i] = e[2 * i - 1] + 256 * e[2 * i]
                         /\ v[i] = 256 * e[2 * i - 1] + e[2 * i]
                         /\ e[2 * i - 1] \in Byte /\ e[2 * i] \in Byte
  BY WordsRead
<1> HIDE DEF u, v
<1>2. u \in Seq(Nat) /\ v \in Seq(Nat)
  BY <1>1, WordIsSmall, WiderSeq
<1>3. \A i \in 1..m : d[i] = e[2 * i]
  OBVIOUS
<1>4. d \in Seq(Nat) /\ Len(d) = m
  <2>1. d \in [1..m -> Nat]
    BY <1>1, ByteIsSmall
  <2> HIDE DEF d
  <2>2. m \in Nat
    BY DEF Paired
  <2>3. d \in Seq(Nat)
    BY <2>1, <2>2, SeqDef
  <2> QED BY <2>1, <2>2, <2>3, LenProperties
<1> HIDE DEF d
<1>5. \A i \in 1..Len(u) : 256 * u[i] = v[i] + 65535 * d[i]
  <2> SUFFICES ASSUME NEW i \in 1..m PROVE 256 * u[i] = v[i] + 65535 * d[i]
    BY <1>1
  <2> DEFINE x == e[2 * i - 1]
             y == e[2 * i]
  <2>1. u[i] = x + 256 * y /\ v[i] = 256 * x + y /\ d[i] = y /\ x \in Byte /\ y \in Byte
    BY <1>1, <1>3
  <2> HIDE DEF x, y
  <2>2. 256 * (x + 256 * y) = (256 * x + y) + 65535 * y
    BY <2>1, WordOfBytes
  <2> QED BY <2>1, <2>2
<1>6. 256 * Total(u) = Total(v) + 65535 * Total(d)
  <2>1. Scaled(u, v, d)
    BY <1>1, <1>2, <1>4, <1>5 DEF Scaled
  <2> QED BY <2>1, SumScaled
<1> QED BY <1>4, <1>6, TotalIsNat DEF u, v

(* A checksum that is stored where two zeros were makes the one's          *)
(* complement sum of the words zero, in whichever order their bytes are    *)
(* taken.                                                                  *)
LEMMA StoredSumIsZero ==
  ASSUME NEW m, NEW e, Paired(e, m),
         NEW j \in 1..m, e[2 * j - 1] = 0, e[2 * j] = 0
  PROVE  /\ checksum(e) \in Word
         /\ Total(BigWords(Store(e, 2 * j - 1, checksum(e)))) % (Base - 1) = 0
<1> DEFINE u == Words(e)
           t == Total(u)
           c == checksum(e)
           s == Store(e, 2 * j - 1, c)
           v == Words(s)
           x == Total(BigWords(s))
<1>1. u \in Seq(Word) /\ Len(u) = m /\ u[j] = 0
  <2>1. Words(e)[j] = e[2 * j - 1] + 256 * e[2 * j]
    BY WordsRead
  <2>2. Words(e) \in Seq(Word) /\ Len(Words(e)) = m
    BY WordsRead
  <2> QED BY <2>1, <2>2
<1>2. c = (Base - 1) - Folded(t)
  BY DEF checksum
<1> HIDE DEF u, c
<1>0. m \in Nat /\ m <= Base
  BY DEF Paired
<1>3. t \in Nat /\ t < Base * Base
  BY <1>0, <1>1, TotalBounded
<1> HIDE DEF t
<1>4. PICK k \in Nat : t + c = k * (Base - 1)
  BY <1>2, <1>3, ComplementCancels
<1>5. c \in Word
  <2>1. Folded(t) \in Nat /\ Folded(t) < Base
    BY <1>3, FoldedIsFinal
  <2> QED BY <1>2, <2>1, BaseIsNat DEF Word
<1>6. /\ Paired(s, m)
      /\ v[j] = c /\ \A i \in 1..m : i # j => v[i] = u[i]
  BY <1>5, WordsStored DEF u
<1> HIDE DEF s
<1>7. v \in Seq(Word) /\ Len(v) = m /\ BigWords(s) \in Seq(Word)
  BY <1>6, WordsRead
<1>8. PICK d \in Nat : 256 * Total(v) = x + 65535 * d
  BY <1>6, BothOrders
<1> HIDE DEF v
<1>9. Total(v) = t + c
  <2>1. u \in Seq(Nat) /\ v \in Seq(Nat) /\ c \in Nat
    BY <1>1, <1>5, <1>7, WordIsSmall, WiderSeq
  <2>2. v[j] = u[j] + c
    BY <1>1, <1>6, <2>1
  <2>3. DifferBy(u, v, j, c)
    BY <1>1, <1>6, <1>7, <2>1, <2>2 DEF DifferBy
  <2> QED BY <2>3, SumPlaced DEF t
<1>10. x \in Nat
  BY <1>7, WordIsSmall, WiderSeq, TotalIsNat
<1> HIDE DEF x
<1>11. x % 65535 = 0
  <2>1. 256 * (k * 65535) = x + 65535 * d
    BY <1>4, <1>8, <1>9 DEF Base
  <2>2. x = 65535 * (256 * k - d)
    BY <1>10, <2>1
  <2>3. 256 * k - d \in Int
    OBVIOUS
  <2>4. \A q \in Int : (65535 * q) % 65535 = 0
    BY SMT
  <2> QED BY <2>2, <2>3, <2>4
<1> QED BY <1>5, <1>11 DEF Base, x, s, c

(* The padding of a sum over an odd number of bytes.                       *)
LEMMA EvenPads ==
  ASSUME NEW b \in Seq(Byte)
  PROVE  /\ Even(b) \in Seq(Byte) /\ Len(b) \in Nat
         /\ \E m \in Nat : Len(Even(b)) = 2 * m /\ Len(b) <= 2 * m /\ 2 * m <= Len(b) + 1
         /\ \A i \in 1..Len(b) : Even(b)[i] = b[i]
         /\ Len(b) % 2 # 0 => Len(Even(b)) = Len(b) + 1 /\ Even(b)[Len(b) + 1] = 0
         /\ Len(b) % 2 = 0 => Even(b) = b
<1>1. Len(b) \in Nat
  OBVIOUS
<1>2. CASE Len(b) % 2 = 0
  <2>1. \A n \in Nat : n % 2 = 0 => \E m \in Nat : n = 2 * m
    <3> SUFFICES ASSUME NEW n \in Nat, n % 2 = 0 PROVE n \div 2 \in Nat /\ n = 2 * (n \div 2)
      OBVIOUS
    <3> QED BY SMT
  <2>2. Even(b) = b
    BY <1>2 DEF Even
  <2> QED BY <1>1, <1>2, <2>1, <2>2
<1>3. CASE Len(b) % 2 # 0
  <2>1. \A n \in Nat : n % 2 # 0 => \E m \in Nat : n + 1 = 2 * m
    <3> SUFFICES ASSUME NEW n \in Nat, n % 2 # 0
                 PROVE  (n + 1) \div 2 \in Nat /\ n + 1 = 2 * ((n + 1) \div 2)
      OBVIOUS
    <3> QED BY SMT
  <2>2. Even(b) = Append(b, 0) /\ 0 \in Byte
    BY <1>3, ByteIsSmall DEF Even
  <2>3. /\ Even(b) \in Seq(Byte) /\ Len(Even(b)) = Len(b) + 1
        /\ \A i \in 1..Len(b) : Even(b)[i] = b[i]
        /\ Even(b)[Len(b) + 1] = 0
    BY <2>2, AppendProperties
  <2>4. PICK m \in Nat : Len(b) + 1 = 2 * m
    BY <1>1, <1>3, <2>1
  <2>5. Len(b) <= 2 * m /\ 2 * m <= Len(b) + 1
    BY <1>1, <2>4
  <2>6. Len(Even(b)) = 2 * m
    BY <2>3, <2>4
  <2>7. \E h \in Nat : Len(Even(b)) = 2 * h /\ Len(b) <= 2 * h /\ 2 * h <= Len(b) + 1
    BY <2>5, <2>6
  <2> QED BY <1>1, <1>3, <2>3, <2>7
<1> QED BY <1>2, <1>3

LEMMA EvenOfStore ==
  ASSUME NEW b, NEW i, Fits(b, i), NEW c \in Word
  PROVE  Even(Store(b, i, c)) = Store(Even(b), i, c)
<1> DEFINE s == Store(b, i, c)
           e == Even(b)
           r == Store(e, i, c)
<1>1. s \in Seq(Byte) /\ Len(s) = Len(b) /\ \A k \in 1..Len(b) :
        s[k] = IF k = i THEN c % 256 ELSE IF k = i + 1 THEN c \div 256 ELSE b[k]
  BY StoreKeeps
<1>2. b \in Seq(Byte) /\ i \in 1..Len(b) /\ i + 1 \in 1..Len(b)
  BY DEF Fits
<1>3. CASE Len(b) % 2 = 0
  BY <1>1, <1>2, <1>3, EvenPads
<1>4. CASE Len(b) % 2 # 0
  <2> DEFINE n == Len(b)
             g == Even(s)
  <2>1. e \in Seq(Byte) /\ Len(e) = n + 1 /\ e[n + 1] = 0 /\ \A k \in 1..n : e[k] = b[k]
    BY <1>2, <1>4, EvenPads
  <2> HIDE DEF s
  <2>2. g \in Seq(Byte) /\ Len(g) = n + 1 /\ g[n + 1] = 0 /\ \A k \in 1..n : g[k] = s[k]
    <3>1. s \in Seq(Byte) /\ Len(s) % 2 # 0 /\ Len(s) = n
      BY <1>1, <1>4
    <3> HIDE DEF n
    <3> QED BY <3>1, EvenPads
  <2>3. n \in Nat /\ \A k \in 1..(n + 1) : k = n + 1 \/ k \in 1..n
    BY <1>2
  <2> HIDE DEF n, e, g
  <2>4. Fits(e, i) /\ i # n + 1 /\ i + 1 # n + 1
    BY <1>2, <2>1, <2>3 DEF Fits, n
  <2>5. r \in Seq(Byte) /\ Len(r) = n + 1 /\ \A k \in 1..(n + 1) :
          r[k] = IF k = i THEN c % 256 ELSE IF k = i + 1 THEN c \div 256 ELSE e[k]
    BY <2>1, <2>4, StoreKeeps
  <2> HIDE DEF r
  <2>6. \A k \in 1..(n + 1) : g[k] = r[k]
    BY <1>1, <2>1, <2>2, <2>3, <2>4, <2>5 DEF n
  <2>7. g = r
    BY <2>2, <2>5, <2>6, SeqEqual
  <2> QED BY <2>7 DEF g, r, s, e
<1> QED BY <1>3, <1>4

(* A receiver finds a packet intact whose checksum was stored where it had *)
(* two zeros.                                                              *)
Zeroed(b, j) ==
  /\ j \in Nat /\ Fits(b, 2 * j - 1) /\ Len(b) < 2 * Base
  /\ b[2 * j - 1] = 0 /\ b[2 * j] = 0

LEMMA StoredIsIntact ==
  ASSUME NEW b, NEW j, Zeroed(b, j)
  PROVE  /\ checksum(Even(b)) \in Word
         /\ Intact(Store(b, 2 * j - 1, checksum(Even(b))))
<1> DEFINE e == Even(b)
           c == checksum(e)
           k == 2 * j - 1
<1>1. b \in Seq(Byte) /\ Len(b) \in Nat /\ k \in 1..Len(b) /\ 2 * j \in 1..Len(b)
  BY DEF Fits, Zeroed
<1>0. j \in Nat /\ Len(b) < 2 * Base /\ Fits(b, k) /\ b[k] = 0 /\ b[2 * j] = 0
  BY DEF Zeroed
<1>2. PICK m \in Nat : Len(e) = 2 * m /\ Len(b) <= 2 * m /\ 2 * m <= Len(b) + 1
  BY <1>1, EvenPads
<1>3. Paired(e, m) /\ j \in 1..m
  <2>1. e \in Seq(Byte)
    BY <1>1, EvenPads
  <2>2. m <= Base /\ j \in 1..m
    BY <1>0, <1>1, <1>2, BaseIsNat
  <2> QED BY <1>2, <2>1, <2>2 DEF Paired
<1>4. e[k] = 0 /\ e[2 * j] = 0
  <2> HIDE DEF k
  <2>1. b[k] = 0
    BY <1>0
  <2> QED BY <1>0, <1>1, <2>1, EvenPads
<1> HIDE DEF e
<1>5. c \in Word /\ Total(BigWords(Store(e, k, c))) % (Base - 1) = 0
  BY <1>3, <1>4, StoredSumIsZero
<1>6. Fits(b, k)
  BY <1>0
<1> HIDE DEF k, c
<1>7. Even(Store(b, k, c)) = Store(e, k, c)
  BY <1>5, <1>6, EvenOfStore DEF e
<1>8. \A x : Intact(x) <=> Total(BigWords(Even(x))) % (Base - 1) = 0
  BY DEF Intact, Even
<1>9. Intact(Store(b, k, c))
  BY <1>5, <1>7, <1>8
<1> QED BY <1>5, <1>9 DEF e, c, k

-----------------------------------------------------------------------------
(* What is put together from fields is read field by field.                *)
LEMMA BytesJoined ==
  ASSUME NEW a \in Seq(Byte), NEW b \in Seq(Byte)
  PROVE  /\ a \o b \in Seq(Byte) /\ Len(a \o b) = Len(a) + Len(b)
         /\ Reads(a \o b, 0, a) /\ Reads(a \o b, Len(a), b)
<1>1. a \o b \in Seq(Byte)
  BY ConcatProperties
<1>2. a \in Seq(Nat) /\ b \in Seq(Nat)
  BY ByteIsSmall, WiderSeq
<1> QED BY <1>1, <1>2, JoinedReads

LEMMA ReadsWithin ==
  ASSUME NEW p \in Seq(Byte), NEW a \in Seq(Byte), NEW b \in Seq(Byte), NEW k, NEW i,
         Reads(p, k, a), Reads(a, i, b)
  PROVE  Reads(p, k + i, b)
<1> DEFINE l == Len(a)
           m == Len(b)
           n == Len(p)
<1>1. l \in Nat /\ m \in Nat /\ n \in Nat
  OBVIOUS
<1>2. /\ k \in Nat /\ k + l <= n /\ \A h \in 1..l : p[k + h] = a[h]
      /\ i \in Nat /\ i + m <= l /\ \A h \in 1..m : a[i + h] = b[h]
  BY DEF Reads
<1> HIDE DEF l, m, n
<1>3. ASSUME NEW h \in 1..m PROVE p[k + i + h] = b[h]
  <2>1. i + h \in 1..l /\ k + (i + h) = k + i + h
    BY <1>1, <1>2
  <2> QED BY <1>2, <2>1
<1>4. k + i \in Nat /\ k + i + m <= n
  BY <1>1, <1>2
<1> QED BY <1>3, <1>4 DEF Reads, m, n

Fields(p, a, b, c, d) ==
  /\ p = a \o b \o c \o d
  /\ a \in Seq(Byte) /\ b \in Seq(Byte) /\ c \in Seq(Byte) /\ d \in Seq(Byte)

LEMMA FieldsRead ==
  ASSUME NEW p, NEW a, NEW b, NEW c, NEW d, Fields(p, a, b, c, d)
  PROVE  /\ p \in Seq(Byte) /\ Len(p) = Len(a) + Len(b) + Len(c) + Len(d)
         /\ Reads(p, 0, a) /\ Reads(p, Len(a), b)
         /\ Reads(p, Len(a) + Len(b), c) /\ Reads(p, Len(a) + Len(b) + Len(c), d)
<1> DEFINE ab == a \o b
           abc == ab \o c
           abcd == abc \o d
<1>1. a \in Seq(Byte) /\ b \in Seq(Byte) /\ c \in Seq(Byte) /\ d \in Seq(Byte)
  BY DEF Fields
<1>2. p = abcd
  BY DEF Fields
<1>3. ab \in Seq(Byte) /\ Len(ab) = Len(a) + Len(b) /\ Reads(ab, 0, a) /\ Reads(ab, Len(a), b)
  BY <1>1, BytesJoined
<1> HIDE DEF ab
<1>4. abc \in Seq(Byte) /\ Len(abc) = Len(ab) + Len(c) /\ Reads(abc, 0, ab) /\ Reads(abc, Len(ab), c)
  BY <1>1, <1>3, BytesJoined
<1> HIDE DEF abc
<1>5. /\ abcd \in Seq(Byte) /\ Len(abcd) = Len(abc) + Len(d)
      /\ Reads(abcd, 0, abc) /\ Reads(abcd, Len(abc), d)
  BY <1>1, <1>4, BytesJoined
<1> HIDE DEF abcd
<1>6. Reads(abcd, 0 + 0, ab)
  BY <1>3, <1>4, <1>5, ReadsWithin
<1>7. Reads(abcd, 0 + Len(ab), c)
  BY <1>1, <1>4, <1>5, ReadsWithin
<1>8. Reads(abcd, (0 + 0) + 0, a)
  BY <1>1, <1>3, <1>5, <1>6, ReadsWithin
<1>9. Reads(abcd, (0 + 0) + Len(a), b)
  BY <1>1, <1>3, <1>5, <1>6, ReadsWithin
<1>10. Len(a) \in Nat /\ Len(b) \in Nat /\ Len(c) \in Nat /\ Len(d) \in Nat
  BY <1>1
<1>11. 0 + Len(ab) = Len(a) + Len(b) /\ (0 + 0) + Len(a) = Len(a) /\ (0 + 0) + 0 = 0
  BY <1>3, <1>10
<1>12. Len(p) = Len(a) + Len(b) + Len(c) + Len(d) /\ Len(abc) = Len(a) + Len(b) + Len(c)
  BY <1>2, <1>3, <1>4, <1>5, <1>10
<1> QED BY <1>2, <1>5, <1>7, <1>8, <1>9, <1>11, <1>12

(* The bytes of a field of one or of two known bytes, and of all of it.    *)
LEMMA ReadsPair ==
  ASSUME NEW p, NEW k, NEW a, Len(a) = 2, Reads(p, k, a)
  PROVE  p[k + 1] = a[1] /\ p[k + 2] = a[2]
  BY DEF Reads

LEMMA ReadsAll ==
  ASSUME NEW p \in Seq(Byte), NEW k, NEW c \in Seq(Byte), Reads(p, k, c)
  PROVE  SubSeq(p, k + 1, k + Len(c)) = c
<1> DEFINE m == Len(c)
           N == Len(p)
<1>1. m \in Nat /\ N \in Nat
  OBVIOUS
<1>2. k \in Nat /\ k + m <= N /\ \A i \in 1..m : p[k + i] = c[i]
  BY DEF Reads
<1> DEFINE q == SubSeq(p, k + 1, k + m)
<1>3. ASSUME NEW i \in (k + 1)..(k + m) PROVE p[i] \in Byte
  <2>1. i \in 1..Len(p)
    BY <1>1, <1>2
  <2> QED BY <2>1, ElementOfSeq
<1> HIDE DEF m, N
<1>4. k + 1 \in Int /\ k + m \in Int
  BY <1>1, <1>2
<1>5. /\ q \in Seq(Byte)
      /\ Len(q) = IF k + 1 <= k + m THEN (k + m) - (k + 1) + 1 ELSE 0
      /\ \A i \in 1..((k + m) - (k + 1) + 1) : q[i] = p[(k + 1) + i - 1]
  BY <1>3, <1>4, SubSeqProperties
<1> HIDE DEF q
<1>6. Len(q) = m
  BY <1>1, <1>2, <1>5
<1>7. ASSUME NEW i \in 1..m PROVE q[i] = c[i]
  <2>1. i \in 1..((k + m) - (k + 1) + 1) /\ (k + 1) + i - 1 = k + i
    BY <1>1, <1>2
  <2> QED BY <1>2, <1>5, <2>1
<1>8. q = c
  BY <1>5, <1>6, <1>7, SeqEqual DEF m
<1> QED BY <1>8 DEF q, m

LEMMA TwoBytes ==
  ASSUME NEW n \in Word
  PROVE  /\ Two(n) \in Seq(Byte) /\ Len(Two(n)) = 2
         /\ 256 * Two(n)[1] + Two(n)[2] = n
<1> DEFINE x == n \div 256
           y == n % 256
<1>1. x \in Byte /\ y \in Byte
  BY BytesOfWord
<1>2. n \in Nat
  BY WordIsSmall
<1>3. Two(n) = <<x, y>>
  BY DEF Two
<1> HIDE DEF x, y
<1>4. <<x, y>> \in Seq(Byte)
  BY <1>1
<1> QED BY <1>2, <1>3, <1>4, TwoLayout

Half == Word \X Word

LEMMA FourBytes ==
  ASSUME NEW n \in Half
  PROVE  /\ Four(n) \in Seq(Byte) /\ Len(Four(n)) = 4
         /\ Reads(Four(n), 0, Two(n[1])) /\ Reads(Four(n), 2, Two(n[2]))
<1> DEFINE a == Two(n[1])
           b == Two(n[2])
<1>1. n[1] \in Word /\ n[2] \in Word
  BY DEF Half
<1>2. a \in Seq(Byte) /\ Len(a) = 2 /\ b \in Seq(Byte) /\ Len(b) = 2
  BY <1>1, TwoBytes
<1>3. Four(n) = a \o b
  BY DEF Four
<1> HIDE DEF a, b
<1>4. /\ a \o b \in Seq(Byte) /\ Len(a \o b) = Len(a) + Len(b)
      /\ Reads(a \o b, 0, a) /\ Reads(a \o b, Len(a), b)
  BY <1>2, BytesJoined
<1>5. Four(n) \in Seq(Byte) /\ Len(Four(n)) = 4 /\ Reads(Four(n), 0, a) /\ Reads(Four(n), 2, b)
  BY <1>2, <1>3, <1>4
<1> QED BY <1>5 DEF a, b

(* A number that is read where it was written.                             *)
LEMMA WordRead ==
  ASSUME NEW p, NEW k \in Nat, NEW n \in Word, Reads(p, k, Two(n))
  PROVE  At(p, k + 1) = n
<1>1. Len(Two(n)) = 2 /\ 256 * Two(n)[1] + Two(n)[2] = n
  BY TwoBytes
<1>2. p[k + 1] = Two(n)[1] /\ p[k + 2] = Two(n)[2]
  BY <1>1, ReadsPair
<1>3. (k + 1) + 1 = k + 2
  OBVIOUS
<1> QED BY <1>1, <1>2, <1>3 DEF At

LEMMA HalfRead ==
  ASSUME NEW p \in Seq(Byte), NEW k \in Nat, NEW n \in Half, Reads(p, k, Four(n))
  PROVE  <<At(p, k + 1), At(p, k + 3)>> = n
<1> DEFINE q == Four(n)
<1>1. n[1] \in Word /\ n[2] \in Word /\ n = <<n[1], n[2]>>
  BY DEF Half
<1>2. q \in Seq(Byte) /\ Two(n[1]) \in Seq(Byte) /\ Two(n[2]) \in Seq(Byte)
  BY <1>1, TwoBytes, FourBytes
<1>3. Reads(p, k, q) /\ Reads(q, 0, Two(n[1])) /\ Reads(q, 2, Two(n[2]))
  BY FourBytes
<1> HIDE DEF q
<1>4. Reads(p, k + 0, Two(n[1])) /\ Reads(p, k + 2, Two(n[2]))
  BY <1>2, <1>3, ReadsWithin
<1>5. k + 0 = k /\ (k + 2) + 1 = k + 3 /\ k + 2 \in Nat
  OBVIOUS
<1>6. At(p, k + 1) = n[1]
  BY <1>1, <1>4, <1>5, WordRead
<1>7. At(p, (k + 2) + 1) = n[2]
  BY <1>1, <1>4, <1>5, WordRead
<1> QED BY <1>1, <1>5, <1>6, <1>7

Eight(mid) == mid \in Seq(Byte) /\ Len(mid) = 8

Heading(h, total, mid, src, dst) ==
  /\ h = <<69, 0>> \o Two(total) \o mid \o src \o dst /\ total \in Word /\ Eight(mid)
  /\ src \in Seq(Byte) /\ Len(src) = 4 /\ dst \in Seq(Byte) /\ Len(dst) = 4

LEMMA ReadsEight ==
  ASSUME NEW p, NEW k, NEW a, Eight(a), Reads(p, k, a)
  PROVE  /\ p[k + 1] = a[1] /\ p[k + 2] = a[2] /\ p[k + 5] = a[5]
         /\ p[k + 6] = a[6] /\ p[k + 7] = a[7] /\ p[k + 8] = a[8]
  BY DEF Reads, Eight

LEMMA HeadRead ==
  ASSUME NEW h, NEW total, NEW mid, NEW src, NEW dst, Heading(h, total, mid, src, dst)
  PROVE  /\ h \in Seq(Byte) /\ Len(h) = 20
         /\ Reads(h, 0, <<69, 0>>) /\ Reads(h, 2, Two(total)) /\ Reads(h, 4, mid)
         /\ Reads(h, 12, src) /\ Reads(h, 16, dst)
<1> DEFINE a == <<69, 0>>
           b == Two(total)
           u == a \o b \o mid \o src
<1>1. a \in Seq(Byte) /\ Len(a) = 2
  <2>1. 69 \in Byte /\ 0 \in Byte
    BY DEF Byte
  <2> QED BY <2>1
<1>2. b \in Seq(Byte) /\ Len(b) = 2
  BY TwoBytes DEF Heading
<1>3. h = u \o dst
  BY DEF Heading
<1>0. /\ mid \in Seq(Byte) /\ Len(mid) = 8 /\ src \in Seq(Byte) /\ Len(src) = 4
      /\ dst \in Seq(Byte) /\ Len(dst) = 4
  BY DEF Heading, Eight
<1> HIDE DEF a, b
<1>4. Fields(u, a, b, mid, src)
  BY <1>0, <1>1, <1>2 DEF Fields
<1> HIDE DEF u
<1>5. /\ u \in Seq(Byte) /\ Len(u) = Len(a) + Len(b) + Len(mid) + Len(src)
      /\ Reads(u, 0, a) /\ Reads(u, Len(a), b)
      /\ Reads(u, Len(a) + Len(b), mid) /\ Reads(u, Len(a) + Len(b) + Len(mid), src)
  BY <1>4, FieldsRead
<1>6. /\ u \in Seq(Byte) /\ Len(u) = 16
      /\ Reads(u, 0, a) /\ Reads(u, 2, b) /\ Reads(u, 4, mid) /\ Reads(u, 12, src)
  BY <1>0, <1>1, <1>2, <1>5
<1>7. /\ h \in Seq(Byte) /\ Len(h) = 20 /\ Reads(h, 0, u) /\ Reads(h, 16, dst)
  <2>1. /\ u \o dst \in Seq(Byte) /\ Len(u \o dst) = Len(u) + Len(dst)
        /\ Reads(u \o dst, 0, u) /\ Reads(u \o dst, Len(u), dst)
    BY <1>0, <1>6, BytesJoined
  <2>2. /\ h \in Seq(Byte) /\ Len(h) = Len(u) + Len(dst)
        /\ Reads(h, 0, u) /\ Reads(h, Len(u), dst)
    BY <1>3, <2>1, Zenon
  <2>3. Len(u) = 16 /\ Len(dst) = 4 /\ 16 + 4 = 20
    BY <1>0, <1>6
  <2> QED BY <2>2, <2>3
<1>8. Reads(h, 0 + 0, a) /\ Reads(h, 0 + 2, b)
  BY <1>1, <1>2, <1>6, <1>7, ReadsWithin
<1>9. Reads(h, 0 + 4, mid) /\ Reads(h, 0 + 12, src)
  BY <1>0, <1>6, <1>7, ReadsWithin
<1> QED BY <1>7, <1>8, <1>9 DEF a, b

Headers(t, sport, dport, seq, ack) ==
  /\ sport \in Word /\ dport \in Word /\ seq \in Half /\ ack \in Half
  /\ t = Two(sport) \o Two(dport) \o Four(seq) \o Four(ack)

LEMMA HeadersRead ==
  ASSUME NEW t, NEW sport, NEW dport, NEW seq, NEW ack, Headers(t, sport, dport, seq, ack)
  PROVE  /\ t \in Seq(Byte) /\ Len(t) = 12
         /\ Reads(t, 0, Two(sport)) /\ Reads(t, 2, Two(dport))
         /\ Reads(t, 4, Four(seq)) /\ Reads(t, 8, Four(ack))
<1> DEFINE a == Two(sport)
           b == Two(dport)
           c == Four(seq)
           d == Four(ack)
<1>1. a \in Seq(Byte) /\ Len(a) = 2 /\ b \in Seq(Byte) /\ Len(b) = 2
  BY TwoBytes DEF Headers
<1>2. c \in Seq(Byte) /\ Len(c) = 4 /\ d \in Seq(Byte) /\ Len(d) = 4
  BY FourBytes DEF Headers
<1>3. t = a \o b \o c \o d
  BY DEF Headers
<1> HIDE DEF a, b, c, d
<1>4. Fields(t, a, b, c, d)
  BY <1>1, <1>2, <1>3 DEF Fields
<1>5. /\ t \in Seq(Byte) /\ Len(t) = Len(a) + Len(b) + Len(c) + Len(d)
      /\ Reads(t, 0, a) /\ Reads(t, Len(a), b)
      /\ Reads(t, Len(a) + Len(b), c) /\ Reads(t, Len(a) + Len(b) + Len(c), d)
  BY <1>4, FieldsRead
<1>6. t \in Seq(Byte) /\ Len(t) = 12 /\ Reads(t, 0, a) /\ Reads(t, 2, b) /\ Reads(t, 4, c) /\ Reads(t, 8, d)
  BY <1>1, <1>2, <1>5
<1> QED BY <1>6 DEF a, b, c, d

(* What a TCP segment reads: its ports, its numbers, its eight fixed bytes *)
(* and, behind the options, its data.                                      *)
Segment(t, sport, dport, seq, mid, opt, data) ==
  /\ t \in Seq(Byte) /\ Len(t) = 20 + Len(opt) + Len(data)
  /\ Reads(t, 0, Two(sport)) /\ Reads(t, 2, Two(dport)) /\ Reads(t, 4, Four(seq))
  /\ Reads(t, 12, mid) /\ Reads(t, 20 + Len(opt), data)

LEMMA SegmentRead ==
  ASSUME NEW sport, NEW dport, NEW seq, NEW ack, NEW h, Headers(h, sport, dport, seq, ack),
         NEW mid, Eight(mid), NEW opt \in Seq(Byte), NEW data \in Seq(Byte)
  PROVE  Segment(h \o mid \o opt \o data, sport, dport, seq, mid, opt, data)
<1> DEFINE t == h \o mid \o opt \o data
<1>1. /\ h \in Seq(Byte) /\ Len(h) = 12
      /\ Reads(h, 0, Two(sport)) /\ Reads(h, 2, Two(dport)) /\ Reads(h, 4, Four(seq))
  BY HeadersRead
<1>2. Fields(t, h, mid, opt, data)
  BY <1>1 DEF Fields, Eight
<1> HIDE DEF t
<1>3. /\ t \in Seq(Byte) /\ Len(t) = Len(h) + Len(mid) + Len(opt) + Len(data)
      /\ Reads(t, 0, h) /\ Reads(t, Len(h), mid)
      /\ Reads(t, Len(h) + Len(mid) + Len(opt), data)
  BY <1>2, FieldsRead
<1>4. Two(sport) \in Seq(Byte) /\ Two(dport) \in Seq(Byte) /\ Four(seq) \in Seq(Byte)
  BY TwoBytes, FourBytes DEF Headers
<1>5. Reads(t, 0 + 0, Two(sport)) /\ Reads(t, 0 + 2, Two(dport)) /\ Reads(t, 0 + 4, Four(seq))
  BY <1>1, <1>3, <1>4, ReadsWithin
<1>6. Len(opt) \in Nat /\ Len(data) \in Nat /\ Len(mid) = 8
  BY DEF Eight
<1>7. /\ Len(h) + Len(mid) + Len(opt) + Len(data) = 20 + Len(opt) + Len(data)
      /\ Len(h) + Len(mid) + Len(opt) = 20 + Len(opt)
  BY <1>1, <1>6
<1>8. 0 + 0 = 0 /\ 0 + 2 = 2 /\ 0 + 4 = 4
  OBVIOUS
<1> QED BY <1>1, <1>3, <1>5, <1>7, <1>8 DEF Segment, t

(* A checksum that is stored elsewhere leaves a field as it is.            *)
LEMMA StoreReads ==
  ASSUME NEW s, NEW i, Fits(s, i), NEW c \in Word, NEW k, NEW a \in Seq(Byte), Reads(s, k, a),
         k + Len(a) < i \/ i + 1 <= k
  PROVE  Reads(Store(s, i, c), k, a)
<1> DEFINE r == Store(s, i, c)
           n == Len(s)
           m == Len(a)
<1>1. Len(r) = n /\ \A h \in 1..n : h # i /\ h # i + 1 => r[h] = s[h]
  BY StoreKeeps
<1>2. k \in Nat /\ k + m <= n /\ \A h \in 1..m : s[k + h] = a[h]
  BY DEF Reads
<1>3. n \in Nat /\ m \in Nat /\ i \in Nat
  BY DEF Fits
<1>0. k + m < i \/ i + 1 <= k
  OBVIOUS
<1> HIDE DEF r, n, m
<1>4. ASSUME NEW h \in 1..m PROVE r[k + h] = a[h]
  <2>1. k + h \in 1..n /\ k + h # i /\ k + h # i + 1
    BY <1>0, <1>2, <1>3
  <2> QED BY <1>1, <1>2, <2>1
<1> QED BY <1>1, <1>2, <1>4 DEF Reads, r, n, m

-----------------------------------------------------------------------------
(* A TCP packet: an IP header, and a segment behind it.                    *)
Header(g, total, src, dst) ==
  /\ g \in Seq(Byte) /\ Len(g) = 20
  /\ g[1] = 69 /\ g[10] = 6 /\ At(g, 3) = total
  /\ src \in Seq(Byte) /\ Len(src) = 4 /\ dst \in Seq(Byte) /\ Len(dst) = 4
  /\ Reads(g, 12, src) /\ Reads(g, 16, dst)

Body(s, sport, dport, seq, off, flags, k, data) ==
  /\ s \in Seq(Byte) /\ Len(s) = k + Len(data) /\ data \in Seq(Byte)
  /\ k \in Nat /\ 20 <= k /\ k = 4 * (off \div 16)
  /\ sport \in Word /\ dport \in Word /\ seq \in Half
  /\ Reads(s, 0, Two(sport)) /\ Reads(s, 2, Two(dport)) /\ Reads(s, 4, Four(seq))
  /\ s[13] = off /\ s[14] = flags
  /\ Reads(s, k, data)

Packet(p, g, s, src, dst) ==
  Header(g, 20 + Len(s), src, dst) /\ s \in Seq(Byte) /\ p = g \o s

Parted(p, g, s) ==
  /\ p \in Seq(Byte) /\ Len(p) = 20 + Len(s) /\ Len(s) \in Nat
  /\ Reads(p, 0, g) /\ Reads(p, 20, s)
  /\ p[1] = g[1] /\ p[3] = g[3] /\ p[4] = g[4] /\ p[10] = g[10]
  /\ \A i \in 1..Len(s) : p[20 + i] = s[i]
  /\ SubSeq(p, 1, 20) = g /\ TCPOf(p) = s

LEMMA PacketParts ==
  ASSUME NEW p, NEW g, NEW s, NEW src, NEW dst, Packet(p, g, s, src, dst)
  PROVE  Parted(p, g, s)
<1>1. g \in Seq(Byte) /\ Len(g) = 20 /\ s \in Seq(Byte) /\ p = g \o s
  BY DEF Packet, Header
<1>2. /\ g \o s \in Seq(Byte) /\ Len(g \o s) = Len(g) + Len(s)
      /\ Reads(g \o s, 0, g) /\ Reads(g \o s, Len(g), s)
  BY <1>1, BytesJoined
<1>3. p \in Seq(Byte) /\ Len(p) = 20 + Len(s) /\ Reads(p, 0, g) /\ Reads(p, 20, s)
  BY <1>1, <1>2
<1>4. Len(s) \in Nat
  BY <1>1
<1>5. p[1] = g[1] /\ p[3] = g[3] /\ p[4] = g[4] /\ p[10] = g[10]
  <2>1. \A i \in 1..20 : p[0 + i] = g[i]
    BY <1>1, <1>3 DEF Reads
  <2> QED BY <2>1
<1>6. \A i \in 1..Len(s) : p[20 + i] = s[i]
  BY <1>3 DEF Reads
<1>7. SubSeq(p, 1, 20) = g
  <2>1. SubSeq(p, 0 + 1, 0 + Len(g)) = g
    BY <1>1, <1>3, ReadsAll
  <2>2. 0 + 1 = 1 /\ 0 + Len(g) = 20
    BY <1>1
  <2> QED BY <2>1, <2>2
<1>8. TCPOf(p) = s
  <2>1. SubSeq(p, 20 + 1, 20 + Len(s)) = s
    BY <1>1, <1>3, ReadsAll
  <2>2. 20 + 1 = 21 /\ 20 + Len(s) = Len(p)
    BY <1>3
  <2> QED BY <2>1, <2>2 DEF TCPOf
<1> QED BY <1>3, <1>4, <1>5, <1>6, <1>7, <1>8 DEF Parted

LEMMA PacketRead ==
  ASSUME NEW p, NEW g, NEW s, NEW src, NEW dst, Packet(p, g, s, src, dst),
         NEW sport, NEW dport, NEW seq, NEW off, NEW flags, NEW k, NEW data,
         Body(s, sport, dport, seq, off, flags, k, data)
  PROVE  /\ IsTCP(p) /\ At(p, 3) = Len(p)
         /\ ParseTCP(p) = [key |-> [local_ip |-> src, remote_ip |-> dst,
                                    local_port |-> sport, remote_port |-> dport],
                           flags |-> flags, seq |-> seq, payload |-> data]
<1>1. s \in Seq(Byte)
  BY DEF Body
<1>2. /\ p \in Seq(Byte) /\ Len(p) = 20 + Len(s) /\ Len(s) \in Nat
      /\ Reads(p, 0, g) /\ Reads(p, 20, s)
      /\ p[1] = g[1] /\ p[3] = g[3] /\ p[4] = g[4] /\ p[10] = g[10]
      /\ \A i \in 1..Len(s) : p[20 + i] = s[i]
  <2>1. Parted(p, g, s)
    BY PacketParts
  <2> QED BY <2>1 DEF Parted
<1>3. /\ g[1] = 69 /\ g[10] = 6 /\ At(g, 3) = 20 + Len(s) /\ g \in Seq(Byte)
      /\ src \in Seq(Byte) /\ Len(src) = 4 /\ dst \in Seq(Byte) /\ Len(dst) = 4
      /\ Reads(g, 12, src) /\ Reads(g, 16, dst)
  BY DEF Packet, Header
<1>4. /\ Len(s) = k + Len(data) /\ data \in Seq(Byte)
      /\ k \in Nat /\ 20 <= k /\ k = 4 * (off \div 16)
      /\ sport \in Word /\ dport \in Word /\ seq \in Half
      /\ Reads(s, 0, Two(sport)) /\ Reads(s, 2, Two(dport)) /\ Reads(s, 4, Four(seq))
      /\ s[13] = off /\ s[14] = flags
      /\ Reads(s, k, data)
  BY DEF Body
<1>5. p[1] = 69 /\ p[10] = 6 /\ p[3] = g[3] /\ p[4] = g[4]
  BY <1>2, <1>3
<1>6. At(p, 3) = Len(p)
  <2>0. 3 + 1 = 4
    OBVIOUS
  <2>1. At(p, 3) = At(g, 3)
    BY <1>5, <2>0 DEF At
  <2> QED BY <1>2, <1>3, <2>1
<1>7. HeaderLen(p) = 20 /\ p[1] \div 16 = 4
  BY <1>5 DEF HeaderLen
<1>8. Len(data) \in Nat /\ 13 \in 1..Len(s) /\ 14 \in 1..Len(s)
  <2>1. Len(data) \in Nat
    BY <1>4
  <2> HIDE <1>1
  <2> QED BY <1>4, <2>1
<1>9. p[20 + 13] = off /\ p[20 + 14] = flags
  BY <1>2, <1>4, <1>8
<1>10. TCPHeaderLen(p) = k
  BY <1>4, <1>7, <1>9 DEF TCPHeaderLen
<1>11. SubSeq(p, 13, 16) = src /\ SubSeq(p, 17, 20) = dst
  <2>1. Reads(p, 0 + 12, src) /\ Reads(p, 0 + 16, dst)
    BY <1>2, <1>3, ReadsWithin
  <2>2. SubSeq(p, (0 + 12) + 1, (0 + 12) + Len(src)) = src
    BY <1>2, <1>3, <2>1, ReadsAll
  <2>3. SubSeq(p, (0 + 16) + 1, (0 + 16) + Len(dst)) = dst
    BY <1>2, <1>3, <2>1, ReadsAll
  <2>4. /\ (0 + 12) + 1 = 13 /\ (0 + 12) + Len(src) = 16
        /\ (0 + 16) + 1 = 17 /\ (0 + 16) + Len(dst) = 20
    BY <1>3
  <2> QED BY <2>2, <2>3, <2>4
<1>12. At(p, 21) = sport /\ At(p, 23) = dport
  <2>1. Two(sport) \in Seq(Byte) /\ Two(dport) \in Seq(Byte)
    BY <1>4, TwoBytes
  <2>2. Reads(p, 20 + 0, Two(sport)) /\ Reads(p, 20 + 2, Two(dport))
    BY <1>1, <1>2, <1>4, <2>1, ReadsWithin
  <2>3. 20 + 0 \in Nat /\ 20 + 2 \in Nat /\ (20 + 0) + 1 = 21 /\ (20 + 2) + 1 = 23
    OBVIOUS
  <2>4. At(p, (20 + 0) + 1) = sport /\ At(p, (20 + 2) + 1) = dport
    BY <1>4, <2>2, <2>3, WordRead
  <2> QED BY <2>3, <2>4
<1>13. <<At(p, 20 + 5), At(p, 20 + 7)>> = seq
  <2>1. Four(seq) \in Seq(Byte)
    BY <1>4, FourBytes
  <2>2. Reads(p, 20 + 4, Four(seq))
    BY <1>1, <1>2, <1>4, <2>1, ReadsWithin
  <2>3. 20 + 4 \in Nat /\ (20 + 4) + 1 = 20 + 5 /\ (20 + 4) + 3 = 20 + 7
    OBVIOUS
  <2>4. <<At(p, (20 + 4) + 1), At(p, (20 + 4) + 3)>> = seq
    BY <1>2, <1>4, <2>2, <2>3, HalfRead
  <2> QED BY <2>3, <2>4
<1>14. SubSeq(p, 20 + k + 1, At(p, 3)) = data
  <2>1. Reads(p, 20 + k, data)
    BY <1>1, <1>2, <1>4, ReadsWithin
  <2>2. SubSeq(p, (20 + k) + 1, (20 + k) + Len(data)) = data
    BY <1>2, <1>4, <2>1, ReadsAll
  <2>3. (20 + k) + Len(data) = Len(p)
    <3>1. \A a, b \in Nat : (20 + a) + b = 20 + (a + b)
      OBVIOUS
    <3>2. Len(p) = 20 + (k + Len(data))
      BY <1>2, <1>4
    <3> QED BY <1>4, <1>8, <3>1, <3>2
  <2> QED BY <1>6, <2>2, <2>3
<1>15. IsTCP(p)
  BY <1>2, <1>5, <1>7 DEF IsTCP
<1> QED BY <1>6, <1>7, <1>9, <1>10, <1>11, <1>12, <1>13, <1>14, <1>15 DEF ParseTCP

LEMMA EightBytes ==
  ASSUME NEW a \in Byte, NEW b \in Byte, NEW c \in Byte, NEW d \in Byte,
         NEW e \in Byte, NEW f \in Byte, NEW g \in Byte, NEW h \in Byte
  PROVE  LET m == <<a, b, c, d, e, f, g, h>> IN
         /\ Eight(m) /\ m[1] = a /\ m[2] = b /\ m[5] = e /\ m[6] = f /\ m[7] = g /\ m[8] = h
  BY DEF Eight

(* An IP header, its checksum stored: the packet's length, the addresses   *)
(* and the protocol are read back, and it is intact.                       *)
HeadOf(h, total, src, dst) ==
  /\ h = IPHeader(total, 6, src, dst) /\ total \in Nat /\ total < Base
  /\ src \in Seq(Byte) /\ Len(src) = 4 /\ dst \in Seq(Byte) /\ Len(dst) = 4

LEMMA SealedHead ==
  ASSUME NEW h, NEW total, NEW src, NEW dst, HeadOf(h, total, src, dst)
  PROVE  /\ Header(Store(h, 11, checksum(h)), total, src, dst)
         /\ Intact(Store(h, 11, checksum(h)))
<1> DEFINE m == <<0, 0, 64, 0, 64, 6, 0, 0>>
           c == checksum(h)
           g == Store(h, 11, c)
<1>1. Eight(m) /\ m[6] = 6 /\ m[7] = 0 /\ m[8] = 0
  <2>1. 0 \in Byte /\ 64 \in Byte /\ 6 \in Byte
    BY DEF Byte
  <2> QED BY <2>1, EightBytes
<1>0. src \in Seq(Byte) /\ Len(src) = 4 /\ dst \in Seq(Byte) /\ Len(dst) = 4
  BY DEF HeadOf
<1>2. total \in Word /\ total % Base = total
  <2>0. total \in Nat /\ total < Base
    BY DEF HeadOf
  <2>1. total % Base = total
    BY <2>0, WordsBelowBase
  <2>2. total <= Base - 1
    BY <2>0, BaseIsNat
  <2> QED BY <2>0, <2>1, <2>2, BaseIsNat DEF Word
<1>3. h = <<69, 0>> \o Two(total) \o m \o src \o dst
  BY <1>2 DEF HeadOf, IPHeader
<1> HIDE DEF m
<1>4. /\ h \in Seq(Byte) /\ Len(h) = 20
      /\ Reads(h, 0, <<69, 0>>) /\ Reads(h, 2, Two(total)) /\ Reads(h, 4, m)
      /\ Reads(h, 12, src) /\ Reads(h, 16, dst)
  <2>1. Heading(h, total, m, src, dst)
    BY <1>0, <1>1, <1>2, <1>3 DEF Heading
  <2> QED BY <2>1, HeadRead
<1>5. h[1] = 69 /\ h[10] = 6 /\ h[11] = 0 /\ h[12] = 0
  <2>1. Len(<<69, 0>>) = 2 /\ <<69, 0>>[1] = 69
    OBVIOUS
  <2>2. h[0 + 1] = 69
    BY <1>4, <2>1, ReadsPair
  <2>4. h[4 + 6] = m[6] /\ h[4 + 7] = m[7] /\ h[4 + 8] = m[8]
    BY <1>1, <1>4, ReadsEight
  <2>5. h[10] = m[6] /\ h[11] = m[7] /\ h[12] = m[8]
    BY <2>4
  <2> QED BY <1>1, <2>2, <2>5
<1>6. Fits(h, 11)
  BY <1>4 DEF Fits
<1>7. c \in Word /\ Intact(g)
  <2>1. Even(h) = h
    <3>1. 20 % 2 = 0
      OBVIOUS
    <3> QED BY <1>4, <3>1 DEF Even
  <2>2. 2 * 6 - 1 = 11 /\ 2 * 6 = 12 /\ 6 \in Nat
    OBVIOUS
  <2>3. Len(h) < 2 * Base
    BY <1>4 DEF Base
  <2> HIDE DEF c, g
  <2>4. /\ checksum(Even(h)) \in Word
        /\ Intact(Store(h, 2 * 6 - 1, checksum(Even(h))))
    <3>1. Zeroed(h, 6)
      BY <1>5, <1>6, <2>2, <2>3 DEF Zeroed
    <3> QED BY <3>1, StoredIsIntact
  <2> QED BY <2>1, <2>2, <2>4 DEF c, g
<1> HIDE DEF c
<1>8. g \in Seq(Byte) /\ Len(g) = 20 /\ \A k \in 1..20 : k # 11 /\ k # 12 => g[k] = h[k]
  <2>1. /\ g \in Seq(Byte) /\ Len(g) = Len(h)
        /\ \A k \in 1..Len(h) : k # 11 /\ k # 11 + 1 => g[k] = h[k]
    BY <1>6, <1>7, StoreKeeps
  <2>2. 11 + 1 = 12
    OBVIOUS
  <2> QED BY <1>4, <2>1, <2>2
<1>9. Reads(g, 2, Two(total)) /\ Reads(g, 12, src) /\ Reads(g, 16, dst)
  <2>0. Two(total) \in Seq(Byte) /\ Len(Two(total)) = 2
    BY <1>2, TwoBytes
  <2>1. Two(total) \in Seq(Byte) /\ 2 + Len(Two(total)) < 11
    BY <2>0
  <2>2. Reads(g, 2, Two(total))
    BY <1>4, <1>6, <1>7, <2>1, StoreReads
  <2>3. 11 + 1 <= 12 /\ 11 + 1 <= 16
    OBVIOUS
  <2>4. Reads(g, 12, src)
    BY <1>0, <1>4, <1>6, <1>7, <2>3, StoreReads
  <2>5. Reads(g, 16, dst)
    BY <1>0, <1>4, <1>6, <1>7, <2>3, StoreReads
  <2> QED BY <2>2, <2>4, <2>5
<1> HIDE DEF g
<1>10. At(g, 3) = total
  <2>1. At(g, 2 + 1) = total
    BY <1>2, <1>9, WordRead
  <2> QED BY <2>1
<1>11. g[1] = 69 /\ g[10] = 6
  BY <1>5, <1>8
<1>12. Header(g, total, src, dst)
  BY <1>0, <1>8, <1>9, <1>10, <1>11 DEF Header
<1> QED BY <1>7, <1>12 DEF g, c

(* A segment as buildTCPPacket() and the client's TCP put it together.     *)
BodyOf(t, sport, dport, seq, off, flags, opt, data) ==
  /\ sport \in Word /\ dport \in Word /\ seq \in Half
  /\ off \in Byte /\ flags \in Byte /\ opt \in Seq(Byte) /\ data \in Seq(Byte)
  /\ 4 * (off \div 16) = 20 + Len(opt)
  /\ \E ack \in Half :
       t = Two(sport) \o Two(dport) \o Four(seq) \o Four(ack)
             \o <<off, flags, 250, 240, 0, 0, 0, 0>> \o opt \o data

LEMMA BodyBuilt ==
  ASSUME NEW t, NEW sport, NEW dport, NEW seq, NEW off, NEW flags, NEW opt, NEW data,
         BodyOf(t, sport, dport, seq, off, flags, opt, data)
  PROVE  /\ Body(t, sport, dport, seq, off, flags, 20 + Len(opt), data)
         /\ t[17] = 0 /\ t[18] = 0
<1> DEFINE m == <<off, flags, 250, 240, 0, 0, 0, 0>>
           k == 20 + Len(opt)
<1>1. /\ sport \in Word /\ dport \in Word /\ seq \in Half
      /\ off \in Byte /\ flags \in Byte /\ opt \in Seq(Byte) /\ data \in Seq(Byte)
      /\ 4 * (off \div 16) = 20 + Len(opt)
  BY DEF BodyOf
<1>2. PICK ack \in Half : t = Two(sport) \o Two(dport) \o Four(seq) \o Four(ack) \o m \o opt \o data
  BY DEF BodyOf
<1> DEFINE u == Two(sport) \o Two(dport) \o Four(seq) \o Four(ack)
<1>3. Eight(m) /\ m[1] = off /\ m[2] = flags /\ m[5] = 0 /\ m[6] = 0
  <2>1. 250 \in Byte /\ 240 \in Byte /\ 0 \in Byte
    BY DEF Byte
  <2> QED BY <1>1, <2>1 DEF Eight
<1>4. Headers(u, sport, dport, seq, ack)
  BY <1>1 DEF Headers
<1>5. t = u \o m \o opt \o data
  BY <1>2
<1> HIDE DEF m, u
<1>6. Segment(t, sport, dport, seq, m, opt, data)
  BY <1>1, <1>3, <1>4, <1>5, SegmentRead
<1>7. /\ t \in Seq(Byte) /\ Len(t) = k + Len(data)
      /\ Reads(t, 0, Two(sport)) /\ Reads(t, 2, Two(dport)) /\ Reads(t, 4, Four(seq))
      /\ Reads(t, 12, m) /\ Reads(t, k, data)
  BY <1>6 DEF Segment
<1>8. t[12 + 1] = m[1] /\ t[12 + 2] = m[2] /\ t[12 + 5] = m[5] /\ t[12 + 6] = m[6]
  BY <1>3, <1>7, ReadsEight
<1>9. t[13] = off /\ t[14] = flags /\ t[17] = 0 /\ t[18] = 0
  BY <1>3, <1>8
<1>10. k \in Nat /\ 20 <= k
  <2>1. Len(opt) \in Nat
    BY <1>1
  <2> QED BY <2>1
<1>11. Body(t, sport, dport, seq, off, flags, k, data)
  BY <1>1, <1>7, <1>9, <1>10 DEF Body
<1> QED BY <1>9, <1>11

(* Its checksum stored, it is read as before.                              *)
LEMMA BodySealed ==
  ASSUME NEW t, NEW sport, NEW dport, NEW seq, NEW off, NEW flags, NEW k, NEW data,
         Body(t, sport, dport, seq, off, flags, k, data), NEW c \in Word
  PROVE  /\ Fits(t, 17) /\ Len(Store(t, 17, c)) = Len(t)
         /\ Body(Store(t, 17, c), sport, dport, seq, off, flags, k, data)
<1> DEFINE s == Store(t, 17, c)
<1>1. /\ t \in Seq(Byte) /\ Len(t) = k + Len(data) /\ data \in Seq(Byte)
      /\ k \in Nat /\ 20 <= k /\ k = 4 * (off \div 16)
      /\ sport \in Word /\ dport \in Word /\ seq \in Half
      /\ Reads(t, 0, Two(sport)) /\ Reads(t, 2, Two(dport)) /\ Reads(t, 4, Four(seq))
      /\ t[13] = off /\ t[14] = flags
      /\ Reads(t, k, data)
  BY DEF Body
<1>2. Fits(t, 17) /\ 13 \in 1..Len(t) /\ 14 \in 1..Len(t)
  <2>1. Len(data) \in Nat
    BY <1>1
  <2>2. 17 \in 1..Len(t) /\ 17 + 1 \in 1..Len(t) /\ 13 \in 1..Len(t) /\ 14 \in 1..Len(t)
    BY <1>1, <2>1
  <2> QED BY <1>1, <2>2 DEF Fits
<1>3. /\ s \in Seq(Byte) /\ Len(s) = Len(t)
      /\ \A i \in 1..Len(t) : i # 17 /\ i # 17 + 1 => s[i] = t[i]
  BY <1>2, StoreKeeps
<1>4. s[13] = off /\ s[14] = flags
  BY <1>1, <1>2, <1>3
<1>5. /\ Two(sport) \in Seq(Byte) /\ Len(Two(sport)) = 2
      /\ Two(dport) \in Seq(Byte) /\ Len(Two(dport)) = 2
      /\ Four(seq) \in Seq(Byte) /\ Len(Four(seq)) = 4
  BY <1>1, TwoBytes, FourBytes
<1>6. /\ 0 + Len(Two(sport)) < 17 /\ 2 + Len(Two(dport)) < 17 /\ 4 + Len(Four(seq)) < 17
      /\ 17 + 1 <= k
  BY <1>1, <1>5
<1> HIDE DEF s
<1>7. Reads(s, 0, Two(sport))
  BY <1>1, <1>2, <1>5, <1>6, StoreReads DEF s
<1>8. Reads(s, 2, Two(dport))
  BY <1>1, <1>2, <1>5, <1>6, StoreReads DEF s
<1>9. Reads(s, 4, Four(seq))
  BY <1>1, <1>2, <1>5, <1>6, StoreReads DEF s
<1>10. Reads(s, k, data)
  BY <1>1, <1>2, <1>6, StoreReads DEF s
<1>11. Body(s, sport, dport, seq, off, flags, k, data)
  BY <1>1, <1>3, <1>4, <1>7, <1>8, <1>9, <1>10 DEF Body
<1> QED BY <1>2, <1>3, <1>11 DEF s

(* A checksum stored in what is joined to the pseudo header is stored in   *)
(* the whole.                                                              *)
LEMMA StoreJoined ==
  ASSUME NEW q \in Seq(Byte), NEW t, NEW i, Fits(t, i), NEW c \in Word
  PROVE  Fits(q \o t, Len(q) + i) /\ q \o Store(t, i, c) = Store(q \o t, Len(q) + i, c)
<1> DEFINE s == Store(t, i, c)
           a == q \o s
           e == q \o t
           m == Len(q)
           n == Len(t)
           b == Store(e, m + i, c)
<1>1. t \in Seq(Byte) /\ i \in 1..n /\ i + 1 \in 1..n /\ m \in Nat /\ n \in Nat
  BY DEF Fits
<1>2. /\ s \in Seq(Byte) /\ Len(s) = n /\ s[i] = c % 256 /\ s[i + 1] = c \div 256
      /\ \A h \in 1..n : h # i /\ h # i + 1 => s[h] = t[h]
  BY StoreKeeps
<1> HIDE DEF s
<1>3. /\ e \in Seq(Byte) /\ Len(e) = m + n
      /\ \A h \in 1..(m + n) : e[h] = IF h <= m THEN q[h] ELSE t[h - m]
  BY <1>1, ConcatProperties
<1>4. /\ a \in Seq(Byte) /\ Len(a) = m + n
      /\ \A h \in 1..(m + n) : a[h] = IF h <= m THEN q[h] ELSE s[h - m]
  <2>0. s \in Seq(Byte)
    BY <1>2
  <2>1. /\ a \in Seq(Byte) /\ Len(a) = m + Len(s)
        /\ \A h \in 1..(m + Len(s)) : a[h] = IF h <= m THEN q[h] ELSE s[h - m]
    BY <2>0, ConcatProperties
  <2> HIDE DEF m, n, a, e
  <2> QED BY <1>2, <2>1
<1> HIDE DEF m, n, a, e
<1>5. m + i \in 1..(m + n) /\ m + i + 1 \in 1..(m + n)
  BY <1>1
<1>6. Fits(e, m + i)
  BY <1>3, <1>5 DEF Fits
<1>7. /\ b \in Seq(Byte) /\ Len(b) = Len(e)
      /\ b[m + i] = c % 256 /\ b[m + i + 1] = c \div 256
      /\ \A h \in 1..Len(e) : h # m + i /\ h # m + i + 1 => b[h] = e[h]
  BY <1>6, StoreKeeps
<1> HIDE DEF b
<1>8. ASSUME NEW h \in 1..(m + n) PROVE a[h] = b[h]
  <2>1. CASE h <= m
    <3>1. h # m + i /\ h # m + i + 1
      BY <1>1, <2>1
    <3> QED BY <1>3, <1>4, <1>7, <2>1, <3>1
  <2>2. CASE ~(h <= m)
    <3>1. h - m \in 1..n /\ a[h] = s[h - m] /\ e[h] = t[h - m]
      BY <1>1, <1>3, <1>4, <2>2
    <3>2. CASE h = m + i
      <4>1. h - m = i
        BY <1>1, <3>2
      <4> QED BY <1>2, <1>7, <3>1, <3>2, <4>1
    <3>3. CASE h = m + i + 1
      <4>1. h - m = i + 1
        BY <1>1, <3>3
      <4> QED BY <1>2, <1>7, <3>1, <3>3, <4>1
    <3>4. CASE h # m + i /\ h # m + i + 1
      <4>1. h - m # i /\ h - m # i + 1
        BY <1>1, <3>4
      <4> QED BY <1>2, <1>3, <1>7, <3>1, <3>4, <4>1
    <3> QED BY <3>2, <3>3, <3>4
  <2> QED BY <2>1, <2>2
<1>9. a = b
  BY <1>3, <1>4, <1>7, <1>8, SeqEqual
<1> QED BY <1>6, <1>9 DEF a, b, e, s, m

LEMMA PseudoBytes ==
  ASSUME NEW src \in Seq(Byte), NEW dst \in Seq(Byte), NEW n \in Word
  PROVE  /\ Pseudo(src, dst, n) \in Seq(Byte)
         /\ Len(src) = 4 /\ Len(dst) = 4 => Len(Pseudo(src, dst, n)) = 12
<1> DEFINE q == Pseudo(src, dst, n)
           a == <<0, 6>>
           b == Two(n)
<1>1. a \in Seq(Byte) /\ Len(a) = 2
  <2>1. 0 \in Byte /\ 6 \in Byte
    BY DEF Byte
  <2> QED BY <2>1
<1>2. b \in Seq(Byte) /\ Len(b) = 2
  BY TwoBytes
<1>3. n % Base = n
  <2>1. n \in Nat /\ n <= 65535
    BY WordIsSmall
  <2>2. n < Base
    BY <2>1 DEF Base
  <2> QED BY <2>1, <2>2, WordsBelowBase
<1>4. q = src \o dst \o a \o b
  BY <1>3 DEF Pseudo
<1> HIDE DEF q, a, b
<1>5. Fields(q, src, dst, a, b)
  BY <1>1, <1>2, <1>4 DEF Fields
<1>6. q \in Seq(Byte) /\ Len(q) = Len(src) + Len(dst) + Len(a) + Len(b)
  BY <1>5, FieldsRead
<1>7. Len(src) = 4 /\ Len(dst) = 4 => Len(q) = 12
  BY <1>1, <1>2, <1>6
<1> QED BY <1>6, <1>7 DEF q

(* A segment's checksum, stored: the receiver finds it intact.             *)
LEMMA SegmentIsIntact ==
  ASSUME NEW q \in Seq(Byte), NEW t, Fits(t, 17), t[17] = 0, t[18] = 0,
         Len(q) = 12, Len(t) < Base
  PROVE  LET c == checksum(Even(q \o t)) IN
         c \in Word /\ Intact(q \o Store(t, 17, c))
<1> DEFINE e == q \o t
           c == checksum(Even(e))
<1>1. t \in Seq(Byte) /\ Len(t) \in Nat /\ 17 \in 1..Len(t) /\ 18 \in 1..Len(t)
  BY DEF Fits
<1>2. e \in Seq(Byte) /\ Len(e) = Len(q) + Len(t) /\ Reads(e, Len(q), t)
  BY <1>1, BytesJoined
<1>3. Len(q) = 12 /\ Len(t) < Base /\ t[17] = 0 /\ t[18] = 0
  OBVIOUS
<1> HIDE DEF e
<1>4. e[29] = 0 /\ e[30] = 0
  <2>1. e[Len(q) + 17] = t[17] /\ e[Len(q) + 18] = t[18]
    BY <1>1, <1>2 DEF Reads
  <2>2. Len(q) + 17 = 29 /\ Len(q) + 18 = 30
    BY <1>3
  <2> QED BY <1>3, <2>1, <2>2
<1>5. Len(e) < 2 * Base
  BY <1>1, <1>2, <1>3 DEF Base
<1>6. Fits(e, 29)
  <2>1. 29 \in 1..Len(e) /\ 29 + 1 \in 1..Len(e)
    BY <1>1, <1>2, <1>3
  <2> QED BY <1>2, <2>1 DEF Fits
<1>7. Zeroed(e, 15)
  <2>1. 2 * 15 - 1 = 29 /\ 2 * 15 = 30 /\ 15 \in Nat
    OBVIOUS
  <2> QED BY <1>4, <1>5, <1>6, <2>1 DEF Zeroed
<1>8. c \in Word /\ Intact(Store(e, 29, c))
  <2>1. c \in Word /\ Intact(Store(e, 2 * 15 - 1, c))
    BY <1>7, StoredIsIntact
  <2>2. 2 * 15 - 1 = 29
    OBVIOUS
  <2> QED BY <2>1, <2>2
<1> HIDE DEF c
<1>9. q \o Store(t, 17, c) = Store(e, 29, c)
  <2>1. q \o Store(t, 17, c) = Store(e, Len(q) + 17, c)
    BY <1>8, StoreJoined DEF e
  <2>2. Len(q) + 17 = 29
    BY <1>3
  <2> QED BY <2>1, <2>2
<1> QED BY <1>8, <1>9 DEF c, e

(* A SYN carries an option of four bytes, other packets none.              *)
LEMMA OptionsOf ==
  ASSUME NEW flags \in {SYN + ACK, ACK, ACK + PSH}
  PROVE  LET syn == (flags \div SYN) % 2 = 1
             opt == IF syn THEN <<2, 4, 5, 180>> ELSE <<>>
             off == 16 * (IF syn THEN 6 ELSE 5)
         IN  /\ opt \in Seq(Byte) /\ Len(opt) \in Nat /\ Len(opt) <= 4
             /\ off \in Byte /\ flags \in Byte
             /\ 4 * (off \div 16) = 20 + Len(opt)
             /\ (IF syn THEN 24 ELSE 20) = 20 + Len(opt)
<1>1. {2, 4, 5, 180} \subseteq Byte
  BY DEF Byte
<1>2. <<2, 4, 5, 180>> \in Seq(Byte) /\ Len(<<2, 4, 5, 180>>) = 4
  BY <1>1
<1>3. <<>> \in Seq(Byte) /\ Len(<<>>) = 0
  OBVIOUS
<1>4. 16 * 6 \in Byte /\ 16 * 5 \in Byte /\ (16 * 6) \div 16 = 6 /\ (16 * 5) \div 16 = 5
  BY DEF Byte
<1>5. CASE flags = SYN + ACK
  <2>1. (flags \div SYN) % 2 = 1 /\ flags \in Byte
    BY <1>5 DEF SYN, ACK, Byte
  <2> QED BY <1>2, <1>4, <2>1
<1>6. CASE flags # SYN + ACK
  <2>1. (flags \div SYN) % 2 = 0 /\ flags \in Byte
    BY <1>6 DEF SYN, ACK, PSH, Byte
  <2> QED BY <1>3, <1>4, <2>1
<1> QED BY <1>5, <1>6

LEMMA KeyParts ==
  /\ Key.local_ip \in Seq(Byte) /\ Len(Key.local_ip) = 4
  /\ Key.remote_ip \in Seq(Byte) /\ Len(Key.remote_ip) = 4
  /\ Key.local_port \in Word /\ Key.remote_port \in Word
  /\ Key = [local_ip |-> Key.local_ip, remote_ip |-> Key.remote_ip,
            local_port |-> Key.local_port, remote_port |-> Key.remote_port]
<1>1. ASSUME NEW a \in [1..4 -> Byte] PROVE a \in Seq(Byte) /\ Len(a) = 4
  <2>1. a \in Seq(Byte)
    BY SeqDef
  <2>2. DOMAIN a = 1..4 /\ DOMAIN a = 1..Len(a) /\ Len(a) \in Nat
    BY <2>1, LenProperties
  <2> QED BY <2>1, <2>2
<1>2. /\ Key.local_ip \in [1..4 -> Byte] /\ Key.remote_ip \in [1..4 -> Byte]
      /\ Key.local_port \in Word /\ Key.remote_port \in Word
      /\ Key = [local_ip |-> Key.local_ip, remote_ip |-> Key.remote_ip,
                local_port |-> Key.local_port, remote_port |-> Key.remote_port]
  <2> HIDE <1>1
  <2> QED BY SegAssumption DEF Word
<1> QED BY <1>1, <1>2

(* A packet the client's TCP accepts, and what it reads of it.             *)
Accepted(p, flags, seq, data) ==
  /\ p \in Seq(Byte) /\ At(p, 3) = Len(p)
  /\ Intact(SubSeq(p, 1, 20))
  /\ Intact(Pseudo(Key.remote_ip, Key.local_ip, Len(p) - 20) \o TCPOf(p))
  /\ ParseTCP(p).flags = flags /\ ParseTCP(p).seq = seq /\ Data(p) = data
  /\ data \in Seq(Byte) /\ Len(data) <= MaxSeg

LEMMA PacketBuilt ==
  ASSUME NEW flags \in {SYN + ACK, ACK, ACK + PSH}, NEW seq \in Half, NEW ack \in Half,
         NEW data \in Seq(Byte), Len(data) <= MaxSeg
  PROVE  Accepted(buildTCPPacket(Key, flags, seq, ack, data), flags, seq, data)
<1> DEFINE syn == (flags \div SYN) % 2 = 1
           opt == IF syn THEN <<2, 4, 5, 180>> ELSE <<>>
           off == 16 * (IF syn THEN 6 ELSE 5)
           len == (IF syn THEN 24 ELSE 20) + Len(data)
           src == Key.remote_ip
           dst == Key.local_ip
           h == IPHeader(20 + len, 6, src, dst)
           t == Two(Key.remote_port) \o Two(Key.local_port) \o Four(seq) \o Four(ack)
                  \o <<off, flags, 250, 240, 0, 0, 0, 0>> \o opt \o data
           q == Pseudo(src, dst, len)
           g == Store(h, 11, checksum(h))
           c == checksum(Even(q \o t))
           s == Store(t, 17, c)
           k == 20 + Len(opt)
           p == buildTCPPacket(Key, flags, seq, ack, data)
<1>1. p = g \o s
  BY DEF buildTCPPacket
<1>2. /\ opt \in Seq(Byte) /\ Len(opt) \in Nat /\ Len(opt) <= 4
      /\ off \in Byte /\ flags \in Byte
      /\ 4 * (off \div 16) = 20 + Len(opt)
      /\ (IF syn THEN 24 ELSE 20) = 20 + Len(opt)
  BY OptionsOf
<1>3. /\ dst \in Seq(Byte) /\ Len(dst) = 4 /\ src \in Seq(Byte) /\ Len(src) = 4
      /\ Key.local_port \in Word /\ Key.remote_port \in Word
  BY KeyParts
<1> HIDE DEF syn, opt, off, src, dst
<1>4. BodyOf(t, Key.remote_port, Key.local_port, seq, off, flags, opt, data)
  BY <1>2, <1>3 DEF BodyOf
<1> HIDE DEF t, h, q, c, p, k
<1>5. Body(t, Key.remote_port, Key.local_port, seq, off, flags, k, data) /\ t[17] = 0 /\ t[18] = 0
  BY <1>4, BodyBuilt DEF k
<1>6. /\ Len(t) = len /\ len \in Nat /\ 20 + len < Base
      /\ Len(data) \in Nat /\ Len(data) <= MaxSeg
  <2>1. Len(t) = k + Len(data)
    BY <1>5 DEF Body
  <2>2. MaxSeg \in Nat /\ MaxSeg + 44 < Base /\ Len(data) \in Nat
    BY SegAssumption
  <2>3. len = k + Len(data) /\ k \in Nat /\ k <= 24
    BY <1>2 DEF k
  <2> HIDE DEF len
  <2> QED BY <2>1, <2>2, <2>3, BaseIsNat
<1> HIDE DEF len
<1>7. Header(g, 20 + len, src, dst) /\ Intact(g)
  <2>1. 20 + len \in Nat
    BY <1>6
  <2>2. HeadOf(h, 20 + len, src, dst)
    BY <1>3, <1>6, <2>1 DEF HeadOf, h
  <2> HIDE DEF g
  <2> QED BY <2>2, SealedHead DEF g
<1> HIDE DEF g
<1>8. Fits(t, 17)
  <2>1. 0 \in Word
    BY WordIsSmall
  <2> QED BY <1>5, <2>1, BodySealed
<1>9. q \in Seq(Byte) /\ Len(q) = 12
  <2>1. len \in Word
    BY <1>6, BaseIsNat DEF Word
  <2> QED BY <1>3, <2>1, PseudoBytes DEF q
<1>10. c \in Word /\ Intact(q \o s)
  <2>1. Len(t) < Base
    BY <1>6, BaseIsNat
  <2> HIDE DEF s
  <2> QED BY <1>5, <1>8, <1>9, <2>1, SegmentIsIntact DEF c, s
<1>11. Body(s, Key.remote_port, Key.local_port, seq, off, flags, k, data) /\ Len(s) = len
  BY <1>5, <1>6, <1>10, BodySealed
<1> HIDE DEF s
<1>12. Packet(p, g, s, src, dst)
  <2>1. s \in Seq(Byte)
    BY <1>11 DEF Body
  <2> QED BY <1>1, <1>7, <1>11, <2>1 DEF Packet
<1>13. /\ At(p, 3) = Len(p)
       /\ ParseTCP(p) = [key |-> [local_ip |-> src, remote_ip |-> dst,
                                  local_port |-> Key.remote_port, remote_port |-> Key.local_port],
                         flags |-> flags, seq |-> seq, payload |-> data]
  BY <1>11, <1>12, PacketRead
<1>14. p \in Seq(Byte) /\ Len(p) = 20 + Len(s) /\ SubSeq(p, 1, 20) = g /\ TCPOf(p) = s
  <2>1. Parted(p, g, s)
    BY <1>12, PacketParts
  <2> QED BY <2>1 DEF Parted
<1>15. Len(p) - 20 = len
  BY <1>6, <1>11, <1>14
<1>16. Intact(SubSeq(p, 1, 20)) /\ Intact(Pseudo(src, dst, Len(p) - 20) \o TCPOf(p))
  BY <1>7, <1>10, <1>14, <1>15 DEF q
<1>17. ParseTCP(p).flags = flags /\ ParseTCP(p).seq = seq /\ Data(p) = data
  BY <1>13 DEF Data
<1> QED BY <1>13, <1>14, <1>16, <1>17 DEF Accepted, p, src, dst

ThreeOf(x, y, z) == x \in Seq(Byte) /\ y \in Seq(Byte) /\ z \in Seq(Byte)

LEMMA Regrouped ==
  ASSUME NEW x, NEW y, NEW z, ThreeOf(x, y, z)
  PROVE  (x \o y) \o z = x \o (y \o z) /\ y \o z \in Seq(Byte)
  BY ConcatAssociative, ConcatProperties DEF ThreeOf

(* What the client sends is read: its number and its data, behind options. *)
Sendable(r, from, words, seq) ==
  /\ r \in Seq(Byte) /\ words \in Options /\ 40 + 4 * words + Len(r) < Base
  /\ seq \in Half /\ seq = Plus(begun.client, from) /\ vpn_seq \in Half

ReadsAs(packet, seq, data) ==
  /\ IsTCP(packet) /\ ParseTCP(packet).key = Key
  /\ ParseTCP(packet).seq = seq /\ ParseTCP(packet).payload = data

LEMMA RequestRead ==
  ASSUME NEW r, NEW from, NEW words, NEW seq, Sendable(r, from, words, seq)
  PROVE  ReadsAs(Request(r, from, words), seq, r)
<1> DEFINE total == 40 + 4 * words + Len(r)
           m == <<0, 0, 64, 0, 128, 6, 0, 0>>
           src == Key.local_ip
           dst == Key.remote_ip
           h == <<69, 0>> \o Two(total) \o m \o src \o dst
           off == 16 * (5 + words)
           e == <<off, ACK, 250, 240, 0, 0, 0, 0>>
           opt == [i \in 1..4 * words |-> 1]
           a == Two(Key.local_port)
           b == Two(Key.remote_port)
           c == Four(seq)
           d == Four(vpn_seq)
           t == a \o b \o c \o d \o e \o opt \o r
           p == Request(r, from, words)
           k == 20 + Len(opt)
<1>0. /\ r \in Seq(Byte) /\ words \in Options /\ 40 + 4 * words + Len(r) < Base
      /\ seq \in Half /\ seq = Plus(begun.client, from) /\ vpn_seq \in Half
  BY DEF Sendable
<1> USE <1>0
<1>1. /\ words \in Nat /\ words <= 10 /\ r \in Seq(Byte) /\ Len(r) \in Nat
      /\ total \in Nat /\ total < Base
  <2>1. words \in 0..10 /\ r \in Seq(Byte) /\ total < Base
    BY SegAssumption
  <2> HIDE DEF total
  <2>2. total \in Nat
    BY <2>1 DEF total
  <2> QED BY <2>1, <2>2
<1>2. /\ src \in Seq(Byte) /\ Len(src) = 4 /\ dst \in Seq(Byte) /\ Len(dst) = 4
      /\ Key.local_port \in Word /\ Key.remote_port \in Word
  BY KeyParts
<1>3. off \in Byte /\ ACK \in Byte /\ 4 * (off \div 16) = 20 + 4 * words
  BY <1>1 DEF Byte, ACK
<1>4. opt \in Seq(Byte) /\ Len(opt) = 4 * words
  <2>1. 4 * words \in Nat /\ 1 \in Byte
    BY <1>1 DEF Byte
  <2> DEFINE n == 4 * words
  <2> HIDE DEF n
  <2>2. opt \in [1..n -> Byte]
    BY <2>1 DEF n
  <2> HIDE DEF opt
  <2>3. opt \in Seq(Byte)
    BY <2>1, <2>2, SeqDef DEF n
  <2>4. Len(opt) = n
    BY <2>1, <2>2, <2>3, LenProperties DEF n
  <2> QED BY <2>3, <2>4 DEF n
<1>5. total \in Word
  BY <1>1, BaseIsNat DEF Word
<1>6. Eight(m) /\ m[6] = 6
  <2>1. 0 \in Byte /\ 64 \in Byte /\ 128 \in Byte /\ 6 \in Byte
    BY DEF Byte
  <2> QED BY <2>1 DEF Eight
<1>7. e \in Seq(Byte)
  <2>1. 250 \in Byte /\ 240 \in Byte /\ 0 \in Byte
    BY DEF Byte
  <2> QED BY <1>3, <2>1
<1>8. a \in Seq(Byte) /\ b \in Seq(Byte) /\ c \in Seq(Byte) /\ d \in Seq(Byte)
  BY <1>2, TwoBytes, FourBytes
<1>9. p = h \o a \o b \o c \o d \o e \o opt \o r
  BY DEF Request
<1>10. BodyOf(t, Key.local_port, Key.remote_port, seq, off, ACK, opt, r)
  <2> HIDE DEF opt, off
  <2> QED BY <1>1, <1>2, <1>3, <1>4 DEF BodyOf
<1> HIDE DEF total, m, src, dst, off, e, opt, a, b, c, d, p
<1>11. Heading(h, total, m, src, dst)
  BY <1>2, <1>5, <1>6 DEF Heading
<1> HIDE DEF h
<1>12. /\ h \in Seq(Byte) /\ Len(h) = 20
       /\ Reads(h, 0, <<69, 0>>) /\ Reads(h, 2, Two(total)) /\ Reads(h, 4, m)
       /\ Reads(h, 12, src) /\ Reads(h, 16, dst)
  BY <1>11, HeadRead
<1>13. p = h \o t
  <2> DEFINE ab == a \o b
             abc == ab \o c
             abcd == abc \o d
             abcde == abcd \o e
             abcdef == abcde \o opt
  <2>0. /\ h \in Seq(Byte) /\ a \in Seq(Byte) /\ b \in Seq(Byte) /\ c \in Seq(Byte)
        /\ d \in Seq(Byte) /\ e \in Seq(Byte) /\ opt \in Seq(Byte) /\ r \in Seq(Byte)
    BY <1>1, <1>4, <1>7, <1>8, <1>12
  <2>1. (h \o a) \o b = h \o ab /\ ab \in Seq(Byte)
    <3>1. ThreeOf(h, a, b)
      BY <2>0 DEF ThreeOf
    <3> QED BY <3>1, Regrouped
  <2> HIDE DEF ab
  <2>2. (h \o ab) \o c = h \o abc /\ abc \in Seq(Byte)
    <3>1. ThreeOf(h, ab, c)
      BY <2>0, <2>1 DEF ThreeOf
    <3> QED BY <3>1, Regrouped
  <2> HIDE DEF abc
  <2>3. (h \o abc) \o d = h \o abcd /\ abcd \in Seq(Byte)
    <3>1. ThreeOf(h, abc, d)
      BY <2>0, <2>2 DEF ThreeOf
    <3> QED BY <3>1, Regrouped
  <2> HIDE DEF abcd
  <2>4. (h \o abcd) \o e = h \o abcde /\ abcde \in Seq(Byte)
    <3>1. ThreeOf(h, abcd, e)
      BY <2>0, <2>3 DEF ThreeOf
    <3> QED BY <3>1, Regrouped
  <2> HIDE DEF abcde
  <2>5. (h \o abcde) \o opt = h \o abcdef /\ abcdef \in Seq(Byte)
    <3>1. ThreeOf(h, abcde, opt)
      BY <2>0, <2>4 DEF ThreeOf
    <3> QED BY <3>1, Regrouped
  <2> HIDE DEF abcdef
  <2>6. (h \o abcdef) \o r = h \o (abcdef \o r)
    <3>1. ThreeOf(h, abcdef, r)
      BY <2>0, <2>5 DEF ThreeOf
    <3> QED BY <3>1, Regrouped
  <2>7. t = abcdef \o r
    BY DEF ab, abc, abcd, abcde, abcdef
  <2> QED BY <1>9, <2>1, <2>2, <2>3, <2>4, <2>5, <2>6, <2>7
<1> HIDE DEF t
<1>14. Body(t, Key.local_port, Key.remote_port, seq, off, ACK, k, r)
  BY <1>10, BodyBuilt
<1>15. Len(t) \in Nat /\ 20 + Len(t) = total /\ t \in Seq(Byte)
  <2>1. t \in Seq(Byte) /\ Len(t) = k + Len(r)
    BY <1>14 DEF Body
  <2>2. total = 40 + 4 * words + Len(r) /\ k = 20 + 4 * words
    BY <1>4 DEF total
  <2> HIDE DEF k
  <2> QED BY <1>1, <2>1, <2>2
<1>16. Header(h, total, src, dst)
  <2>1. h[0 + 1] = 69
    <3>1. Len(<<69, 0>>) = 2 /\ <<69, 0>>[1] = 69
      OBVIOUS
    <3> QED BY <1>12, <3>1, ReadsPair
  <2>2. h[4 + 6] = 6
    BY <1>6, <1>12, ReadsEight
  <2>3. At(h, 2 + 1) = total
    BY <1>5, <1>12, WordRead
  <2>4. h[1] = 69 /\ h[10] = 6 /\ At(h, 3) = total
    BY <2>1, <2>2, <2>3
  <2> QED BY <1>2, <1>12, <2>4 DEF Header
<1>17. Packet(p, h, t, src, dst)
  BY <1>13, <1>15, <1>16 DEF Packet
<1>18. IsTCP(p) /\ ParseTCP(p) =
         [key |-> [local_ip |-> src, remote_ip |-> dst,
                   local_port |-> Key.local_port, remote_port |-> Key.remote_port],
          flags |-> ACK, seq |-> seq, payload |-> r]
  BY <1>14, <1>17, PacketRead
<1>19. ParseTCP(p).key = Key /\ ParseTCP(p).seq = seq /\ ParseTCP(p).payload = r
  BY <1>18, KeyParts DEF src, dst
<1> QED BY <1>18, <1>19 DEF p, ReadsAs

-----------------------------------------------------------------------------
(* Numbers of 32 bits, that wrap around.                                   *)
LEMMA WordDivides ==
  ASSUME NEW x \in Nat
  PROVE  /\ x % Base \in Word /\ x \div Base \in Nat
         /\ IF x % Base < Base - 1
              THEN (x + 1) % Base = (x % Base) + 1 /\ (x + 1) \div Base = x \div Base
              ELSE (x + 1) % Base = 0 /\ (x + 1) \div Base = x \div Base + 1
<1>1. x % Base \in Nat /\ x % Base <= 65535 /\ x \div Base \in Nat
  BY SMT DEF Base
<1>2. IF x % Base < Base - 1
        THEN (x + 1) % Base = (x % Base) + 1 /\ (x + 1) \div Base = x \div Base
        ELSE (x + 1) % Base = 0 /\ (x + 1) \div Base = x \div Base + 1
  BY SMT DEF Base
<1> QED BY <1>1, <1>2, WordIsSmall

LEMMA WordsAdd ==
  ASSUME NEW x \in Nat, NEW y \in Nat
  PROVE  /\ ((x % Base) + y) % Base = (x + y) % Base
         /\ x \div Base + ((x % Base) + y) \div Base = (x + y) \div Base
<1>1. ((x % Base) + y) % Base = (x + y) % Base
  BY SMT DEF Base
<1>2. x \div Base + ((x % Base) + y) \div Base = (x + y) \div Base
  BY SMT DEF Base
<1> QED BY <1>1, <1>2

LEMMA HalfIsPair ==
  /\ \A n \in Half : n[1] \in Nat /\ n[2] \in Nat /\ n = <<n[1], n[2]>>
                     /\ n[1] % Base = n[1] /\ n[2] % Base = n[2] /\ n[2] \div Base = 0
  /\ \A x, y \in Word : <<x, y>> \in Half
<1>1. ASSUME NEW n \in Half
      PROVE  /\ n[1] \in Nat /\ n[2] \in Nat /\ n = <<n[1], n[2]>>
             /\ n[1] % Base = n[1] /\ n[2] % Base = n[2] /\ n[2] \div Base = 0
  <2>1. n[1] \in Word /\ n[2] \in Word /\ n = <<n[1], n[2]>>
    BY DEF Half
  <2>2. ASSUME NEW x \in Word PROVE x \in Nat /\ x % Base = x /\ x \div Base = 0
    <3>1. x \in Nat /\ x <= 65535
      BY WordIsSmall
    <3> QED BY <3>1, SMT DEF Base
  <2> QED BY <2>1, <2>2
<1> QED BY <1>1 DEF Half

LEMMA PlusIsHalf ==
  ASSUME NEW n \in Half, NEW k \in Nat
  PROVE  Plus(n, k) \in Half
<1>1. n[1] \in Nat /\ n[2] \in Nat
  BY HalfIsPair
<1>2. (n[2] + k) % Base \in Word /\ (n[2] + k) \div Base \in Nat
  BY <1>1, WordDivides
<1>3. (n[1] + (n[2] + k) \div Base) % Base \in Word
  <2> DEFINE q == (n[2] + k) \div Base
  <2> HIDE DEF q
  <2>1. n[1] + q \in Nat
    BY <1>1, <1>2 DEF q
  <2>2. (n[1] + q) % Base \in Word
    BY <2>1, WordDivides
  <2> QED BY <2>2 DEF q
<1> QED BY <1>2, <1>3, HalfIsPair DEF Plus

LEMMA PlusNothing ==
  ASSUME NEW n \in Half
  PROVE  Plus(n, 0) = n
<1>1. n[1] \in Nat /\ n[2] \in Nat
  BY HalfIsPair
<1>2. n[2] + 0 = n[2] /\ n[1] + 0 = n[1]
  BY <1>1
<1> QED BY <1>2, HalfIsPair DEF Plus

LEMMA PlusPlus ==
  ASSUME NEW n \in Half, NEW a \in Nat, NEW b \in Nat
  PROVE  Plus(Plus(n, a), b) = Plus(n, a + b)
<1> DEFINE x == n[1]
           y == n[2] + a
           q == y \div Base
           l == y % Base
           r == (l + b) \div Base
<1>1. x \in Nat /\ n[2] \in Nat
  BY HalfIsPair
<1>2. y \in Nat /\ n[2] + (a + b) = y + b
  BY <1>1
<1>3. Plus(n, a) = <<(x + q) % Base, l>>
  BY DEF Plus
<1>4. Plus(n, a + b) = <<(x + (y + b) \div Base) % Base, (y + b) % Base>>
  BY <1>2 DEF Plus
<1>5. Plus(Plus(n, a), b) = <<(((x + q) % Base) + r) % Base, (l + b) % Base>>
  BY <1>3 DEF Plus
<1> HIDE DEF x, y
<1>6. (l + b) % Base = (y + b) % Base /\ q + r = (y + b) \div Base
  BY <1>2, WordsAdd
<1>7. q \in Nat /\ l \in Nat
  BY <1>2, WordDivides, WordIsSmall
<1> HIDE DEF q, l
<1>8. r \in Nat
  <2>1. l + b \in Nat
    BY <1>7
  <2> QED BY <2>1, WordDivides
<1> HIDE DEF r
<1>9. (((x + q) % Base) + r) % Base = (x + (q + r)) % Base
  <2>1. x + q \in Nat /\ (x + q) + r = x + (q + r)
    BY <1>1, <1>7, <1>8
  <2>2. (((x + q) % Base) + r) % Base = ((x + q) + r) % Base
    BY <1>8, <2>1, WordsAdd
  <2> QED BY <2>1, <2>2
<1> QED BY <1>4, <1>5, <1>6, <1>9

LEMMA PlusNext ==
  ASSUME NEW n \in Half
  PROVE  Next32(n) = Plus(n, 1)
<1>1. n[1] \in Nat /\ n[2] \in Nat
  BY HalfIsPair
<1>2. n[1] % Base = n[1] /\ n[2] % Base = n[2] /\ n[2] \div Base = 0
  BY HalfIsPair
<1>3. CASE n[2] < Base - 1
  <2>1. (n[2] + 1) % Base = n[2] + 1 /\ (n[2] + 1) \div Base = 0
    BY <1>1, <1>2, <1>3, WordDivides
  <2>2. n[1] + 0 = n[1]
    BY <1>1
  <2> QED BY <1>2, <1>3, <2>1, <2>2 DEF Next32, Plus
<1>4. CASE ~(n[2] < Base - 1)
  <2>1. (n[2] + 1) % Base = 0 /\ (n[2] + 1) \div Base = 0 + 1
    BY <1>1, <1>2, <1>4, WordDivides
  <2>2. 0 + 1 = 1
    OBVIOUS
  <2>3. IF n[1] < Base - 1 THEN (n[1] + 1) % Base = n[1] + 1 ELSE (n[1] + 1) % Base = 0
    BY <1>1, <1>2, WordDivides
  <2> QED BY <1>4, <2>1, <2>2, <2>3 DEF Next32, Plus
<1> QED BY <1>3, <1>4

(* Counted one by one, or added at once.                                   *)
LEMMA CountedIsAdded ==
  ASSUME NEW n \in Half, NEW k \in Nat
  PROVE  After32(n, k) = Plus(n, k)
<1> DEFINE IsAt(f) == f = [i \in 0..k |-> IF i = 0 THEN n ELSE Next32(f[i - 1])]
           h == [i \in 0..k |-> Plus(n, i)]
<1>1. ASSUME NEW i \in 0..k, i # 0 PROVE i - 1 \in 0..k /\ Next32(Plus(n, i - 1)) = Plus(n, i)
  <2>1. i - 1 \in Nat /\ i - 1 \in 0..k /\ (i - 1) + 1 = i
    BY <1>1
  <2>2. Plus(n, i - 1) \in Half
    BY <2>1, PlusIsHalf
  <2>3. Next32(Plus(n, i - 1)) = Plus(Plus(n, i - 1), 1)
    BY <2>2, PlusNext
  <2>4. Plus(Plus(n, i - 1), 1) = Plus(n, (i - 1) + 1)
    BY <2>1, PlusPlus
  <2> QED BY <2>1, <2>3, <2>4
<1>2. IsAt(h)
  <2>1. \A i \in 0..k : h[i] = Plus(n, i)
    OBVIOUS
  <2>2. \A i \in 0..k : h[i] = IF i = 0 THEN n ELSE Next32(h[i - 1])
    <3> SUFFICES ASSUME NEW i \in 0..k PROVE h[i] = IF i = 0 THEN n ELSE Next32(h[i - 1])
      OBVIOUS
    <3> HIDE DEF h
    <3>1. CASE i = 0
      BY <2>1, <3>1, PlusNothing
    <3>2. CASE i # 0
      BY <1>1, <2>1, <3>2
    <3> QED BY <3>1, <3>2
  <2>3. h = [i \in 0..k |-> h[i]]
    OBVIOUS
  <2> HIDE DEF h
  <2> QED BY <2>2, <2>3
<1>3. PICK g : IsAt(g) /\ After32(n, k) = g[k]
  <2>1. IsAt(CHOOSE g : IsAt(g))
    <3> HIDE DEF h
    <3> QED BY <1>2
  <2> QED BY <2>1 DEF After32
<1> DEFINE S == {i \in 0..k : g[i] = Plus(n, i)}
<1>4. 0 \in S
  <2>1. 0 \in 0..k /\ g[0] = n
    BY <1>3
  <2> QED BY <2>1, PlusNothing
<1>5. ASSUME NEW i \in 1..k, i - 1 \in S PROVE i \in S
  <2>1. i \in 0..k /\ i # 0
    OBVIOUS
  <2>2. g[i] = Next32(g[i - 1])
    BY <1>3, <2>1
  <2> QED BY <1>1, <1>5, <2>1, <2>2
<1>6. \A i \in 0..k : i \in S
  <2> HIDE DEF S
  <2> QED BY <1>4, <1>5, UpTo
<1>7. k \in 0..k
  OBVIOUS
<1> QED BY <1>3, <1>6, <1>7

-----------------------------------------------------------------------------
(* The data of the packets, joined.                                        *)
Joined(w, n) ==
  LET data[i \in 0..n] == IF i = 0 THEN <<>> ELSE data[i - 1] \o Data(w[i])
  IN  data[n]

Carries(w, n) == n \in Nat /\ \A i \in 1..n : Data(w[i]) \in Seq(Byte)

DataOf(f, w, n) == f = [i \in 0..n |-> IF i = 0 THEN <<>> ELSE f[i - 1] \o Data(w[i])]

LEMMA JoinedExists ==
  ASSUME NEW w, NEW n, Carries(w, n)
  PROVE  \E f \in [0..n -> Seq(Byte)] : DataOf(f, w, n) /\ Joined(w, n) = f[n]
<1> DEFINE T == Seq(Byte)
           step == [x \in (1..n) \X T |-> x[2] \o Data(w[x[1]])]
<1>1. n \in Nat /\ \A i \in 1..n : Data(w[i]) \in T
  BY DEF Carries
<1>2. <<>> \in T /\ \A v, d \in T : v \o d \in T
  BY ConcatProperties
<1> HIDE DEF T
<1>3. step \in [(1..n) \X T -> T]
  BY <1>1, <1>2
<1>4. \A i \in 1..n, v \in T : step[i, v] = v \o Data(w[i])
  BY ZenonT(60)
<1> HIDE DEF step
<1>5. PICK f \in [0..n -> T] : Recursive(f, n, <<>>, step)
  BY <1>1, <1>2, <1>3, RecursionExists
<1>6. DataOf(f, w, n)
  <2>1. \A i \in 0..n : i # 0 => i \in 1..n /\ i - 1 \in 0..n
    BY <1>1
  <2>2. \A i \in 0..n : f[i] = IF i = 0 THEN <<>> ELSE f[i - 1] \o Data(w[i])
    BY <1>4, <1>5, <2>1, ZenonT(60) DEF Recursive
  <2>3. f = [i \in 0..n |-> f[i]]
    OBVIOUS
  <2>4. f = [i \in 0..n |-> IF i = 0 THEN <<>> ELSE f[i - 1] \o Data(w[i])]
    BY <2>2, <2>3
  <2> QED BY <2>4 DEF DataOf
<1>7. PICK g : DataOf(g, w, n) /\ Joined(w, n) = g[n]
  <2>1. DataOf((CHOOSE g : DataOf(g, w, n)), w, n)
    BY <1>6
  <2> QED BY <2>1 DEF Joined, DataOf
<1> DEFINE S == {i \in 0..n : g[i] = f[i]}
<1>8. 0 \in S
  <2>1. 0 \in 0..n
    BY <1>1
  <2> QED BY <1>6, <1>7, <2>1 DEF DataOf
<1>9. ASSUME NEW i \in 1..n, i - 1 \in S PROVE i \in S
  <2>1. i \in 0..n /\ i # 0
    BY <1>1
  <2>2. g[i] = g[i - 1] \o Data(w[i]) /\ f[i] = f[i - 1] \o Data(w[i])
    BY <1>6, <1>7, <2>1 DEF DataOf
  <2> QED BY <1>9, <2>1, <2>2
<1>10. \A i \in 0..n : i \in S
  <2> HIDE DEF S
  <2> QED BY <1>1, <1>8, <1>9, UpTo
<1>11. n \in 0..n
  BY <1>1
<1> QED BY <1>5, <1>6, <1>7, <1>10, <1>11 DEF T

SameTo(w, v, n) == n \in Nat /\ \A i \in 1..n : w[i] = v[i]

BothData(f, w, n, g, v, m) ==
  SameTo(w, v, n) /\ m \in Nat /\ n <= m /\ DataOf(f, w, n) /\ DataOf(g, v, m)

LEMMA JoinedAgree ==
  ASSUME NEW w, NEW v, NEW n, NEW m, NEW f, NEW g, BothData(f, w, n, g, v, m)
  PROVE  f[n] = g[n]
<1>0. /\ n \in Nat /\ \A i \in 1..n : w[i] = v[i]
      /\ m \in Nat /\ n <= m /\ DataOf(f, w, n) /\ DataOf(g, v, m)
  BY DEF BothData, SameTo
<1> DEFINE S == {i \in 0..n : g[i] = f[i]}
<1>1. 0 \in S
  <2>1. 0 \in 0..n /\ 0 \in 0..m
    BY <1>0
  <2> QED BY <1>0, <2>1 DEF DataOf
<1>2. ASSUME NEW i \in 1..n, i - 1 \in S PROVE i \in S
  <2>1. i \in 0..n /\ i \in 0..m /\ i # 0
    BY <1>0
  <2>2. g[i] = g[i - 1] \o Data(v[i]) /\ f[i] = f[i - 1] \o Data(w[i])
    BY <1>0, <2>1 DEF DataOf
  <2> QED BY <1>0, <1>2, <2>1, <2>2
<1>3. \A i \in 0..n : i \in S
  <2> HIDE DEF S
  <2> QED BY <1>0, <1>1, <1>2, UpTo
<1>4. n \in 0..n
  BY <1>0
<1> QED BY <1>3, <1>4

LEMMA JoinedNone == ASSUME NEW w PROVE Joined(w, 0) = <<>>
<1>1. Carries(w, 0)
  BY DEF Carries
<1>2. PICK f \in [0..0 -> Seq(Byte)] : DataOf(f, w, 0) /\ Joined(w, 0) = f[0]
  BY <1>1, JoinedExists
<1>3. 0 \in 0..0
  OBVIOUS
<1> QED BY <1>2, <1>3 DEF DataOf

LEMMA JoinedIsBytes ==
  ASSUME NEW w, NEW n, Carries(w, n)
  PROVE  Joined(w, n) \in Seq(Byte)
<1>1. PICK f \in [0..n -> Seq(Byte)] : DataOf(f, w, n) /\ Joined(w, n) = f[n]
  BY JoinedExists
<1>2. n \in 0..n
  BY DEF Carries
<1> QED BY <1>1, <1>2

(* Of the same packets, the same data.                                     *)
LEMMA JoinedSame ==
  ASSUME NEW w, NEW v, NEW n, Carries(w, n), Carries(v, n), SameTo(w, v, n)
  PROVE  Joined(w, n) = Joined(v, n)
<1>1. PICK f \in [0..n -> Seq(Byte)] : DataOf(f, w, n) /\ Joined(w, n) = f[n]
  BY JoinedExists
<1>2. PICK g \in [0..n -> Seq(Byte)] : DataOf(g, v, n) /\ Joined(v, n) = g[n]
  BY JoinedExists
<1>3. n \in Nat /\ n <= n /\ n \in 0..n
  BY DEF Carries
<1>4. f[n] = g[n]
  <2>1. BothData(f, w, n, g, v, n)
    BY <1>1, <1>2, <1>3 DEF BothData
  <2> QED BY <2>1, JoinedAgree
<1> QED BY <1>1, <1>2, <1>4

(* A packet more: its data behind.                                         *)
LEMMA JoinedMore ==
  ASSUME NEW w, NEW v, NEW n, Carries(w, n), Carries(v, n + 1), SameTo(w, v, n)
  PROVE  Joined(v, n + 1) = Joined(w, n) \o Data(v[n + 1])
<1>1. PICK f \in [0..n -> Seq(Byte)] : DataOf(f, w, n) /\ Joined(w, n) = f[n]
  BY JoinedExists
<1>2. PICK g \in [0..(n + 1) -> Seq(Byte)] : DataOf(g, v, n + 1) /\ Joined(v, n + 1) = g[n + 1]
  BY JoinedExists
<1>3. n \in Nat /\ n + 1 \in Nat /\ n <= n + 1 /\ n \in 0..n /\ n + 1 \in 0..(n + 1) /\ n + 1 # 0
      /\ (n + 1) - 1 = n
  BY DEF Carries
<1>4. f[n] = g[n]
  <2> DEFINE m == n + 1
  <2>1. BothData(f, w, n, g, v, m)
    BY <1>1, <1>2, <1>3 DEF BothData
  <2> HIDE DEF m
  <2> QED BY <2>1, JoinedAgree
<1>5. g[n + 1] = g[n] \o Data(v[n + 1])
  BY <1>2, <1>3 DEF DataOf
<1> QED BY <1>1, <1>2, <1>4, <1>5

-----------------------------------------------------------------------------
(* What has been sent: packets the client accepts, each with the number    *)
(* that follows the data before it.                                        *)
PacketFlags == {SYN + ACK, ACK, ACK + PSH}

Placed(p, b, before) ==
  \E flags \in PacketFlags, seq \in Half, data \in Seq(Byte) :
    Accepted(p, flags, seq, data) /\ (flags = SYN + ACK \/ seq = Plus(b, Len(before)))

WireOK(w, b) ==
  /\ w \in Seq(Seq(Byte))
  /\ \A i \in 1..Len(w) : Placed(w[i], b, Joined(w, i - 1))

(* The last data sent is pushed exactly when it ends the response.         *)
PushOK(w, o, l) ==
  o > 0 => \E m \in 1..Len(w) :
             /\ Data(w[m]) # <<>> /\ \A j \in 1..Len(w) : j > m => Data(w[j]) = <<>>
             /\ ParseTCP(w[m]).flags = ACK + PSH <=> o = l

LEMMA WireCarries ==
  ASSUME NEW w, NEW b, WireOK(w, b), NEW n \in 0..Len(w)
  PROVE  Carries(w, n)
<1>1. w \in Seq(Seq(Byte)) /\ Len(w) \in Nat
  BY DEF WireOK
<1>2. ASSUME NEW i \in 1..n PROVE Data(w[i]) \in Seq(Byte)
  <2>1. i \in 1..Len(w)
    BY <1>1
  <2>2. Placed(w[i], b, Joined(w, i - 1))
    BY <2>1 DEF WireOK
  <2> QED BY <2>2 DEF Placed, Accepted
<1>3. n \in Nat
  BY <1>1
<1> QED BY <1>2, <1>3 DEF Carries

LEMMA WireGrows ==
  ASSUME NEW w \in Seq(Seq(Byte)), NEW p \in Seq(Byte)
  PROVE  LET v == Append(w, p)
             n == Len(w)
         IN  /\ v \in Seq(Seq(Byte)) /\ Len(v) = n + 1 /\ n \in Nat
             /\ v[n + 1] = p /\ SameTo(w, v, n)
  BY AppendProperties DEF SameTo

Sends(w, b, p, flags, seq, data) ==
  /\ WireOK(w, b) /\ flags \in PacketFlags /\ seq \in Half
  /\ Accepted(p, flags, seq, data)
  /\ flags = SYN + ACK \/ seq = Plus(b, Len(Joined(w, Len(w))))

LEMMA WireKept ==
  ASSUME NEW w, NEW b, NEW p, NEW flags, NEW seq, NEW data, Sends(w, b, p, flags, seq, data)
  PROVE  /\ WireOK(Append(w, p), b)
         /\ Joined(Append(w, p), Len(Append(w, p))) = Joined(w, Len(w)) \o data
<1> DEFINE v == Append(w, p)
           n == Len(w)
<1>1. /\ WireOK(w, b) /\ w \in Seq(Seq(Byte)) /\ p \in Seq(Byte)
      /\ flags \in PacketFlags /\ seq \in Half
      /\ Accepted(p, flags, seq, data) /\ data \in Seq(Byte) /\ Data(p) = data
      /\ flags = SYN + ACK \/ seq = Plus(b, Len(Joined(w, n)))
  BY DEF Sends, WireOK, Accepted
<1>2. v \in Seq(Seq(Byte)) /\ Len(v) = n + 1 /\ n \in Nat /\ v[n + 1] = p /\ SameTo(w, v, n)
  BY <1>1, WireGrows
<1>3. \A i \in 0..n : Carries(w, i)
  BY <1>1, WireCarries
<1> HIDE DEF v, n
<1>4. \A i \in 1..n : v[i] = w[i]
  BY <1>2 DEF SameTo
<1>5. ASSUME NEW i \in 0..n PROVE Joined(v, i) = Joined(w, i)
  <2>1. Carries(w, i) /\ i \in Nat /\ \A j \in 1..i : j \in 1..n
    BY <1>2, <1>3
  <2>2. SameTo(w, v, i)
    BY <1>4, <2>1 DEF SameTo
  <2>3. Carries(v, i)
    BY <1>4, <2>1 DEF Carries
  <2> QED BY <2>1, <2>2, <2>3, JoinedSame
<1>6. n \in 0..n /\ Carries(w, n)
  BY <1>2, <1>3
<1>7. Carries(v, n + 1)
  <2> SUFFICES ASSUME NEW i \in 1..(n + 1) PROVE Data(v[i]) \in Seq(Byte)
    BY <1>2 DEF Carries
  <2>1. CASE i = n + 1
    BY <1>1, <1>2, <2>1
  <2>2. CASE i # n + 1
    <3>1. i \in 1..n
      BY <1>2, <2>2
    <3> QED BY <1>4, <1>6, <3>1 DEF Carries
  <2> QED BY <2>1, <2>2
<1>8. Joined(v, n + 1) = Joined(w, n) \o data
  <2>1. Joined(v, n + 1) = Joined(w, n) \o Data(v[n + 1])
    BY <1>2, <1>6, <1>7, JoinedMore
  <2> QED BY <1>1, <1>2, <2>1
<1>9. ASSUME NEW i \in 1..(n + 1) PROVE Placed(v[i], b, Joined(v, i - 1))
  <2>1. CASE i = n + 1
    <3>1. i - 1 = n
      BY <1>2, <2>1
    <3>2. Joined(v, i - 1) = Joined(w, n)
      BY <1>5, <1>6, <3>1
    <3>3. Placed(p, b, Joined(w, n))
      BY <1>1 DEF Placed, n
    <3> QED BY <1>2, <2>1, <3>2, <3>3
  <2>2. CASE i # n + 1
    <3>1. i \in 1..n /\ i - 1 \in 0..n
      BY <1>2, <2>2
    <3>2. Placed(w[i], b, Joined(w, i - 1))
      BY <1>1, <3>1 DEF WireOK, n
    <3> QED BY <1>4, <1>5, <3>1, <3>2
  <2> QED BY <2>1, <2>2
<1>10. WireOK(v, b)
  BY <1>2, <1>9 DEF WireOK
<1> QED BY <1>2, <1>8, <1>10 DEF v, n

LEMMA PushKept ==
  ASSUME NEW w \in Seq(Seq(Byte)), NEW p \in Seq(Byte), Data(p) = <<>>,
         NEW o, NEW l, PushOK(w, o, l)
  PROVE  PushOK(Append(w, p), o, l)
<1> DEFINE v == Append(w, p)
           n == Len(w)
<1> SUFFICES ASSUME o > 0 PROVE PushOK(v, o, l)
  BY DEF PushOK
<1>1. v \in Seq(Seq(Byte)) /\ Len(v) = n + 1 /\ n \in Nat /\ v[n + 1] = p /\ SameTo(w, v, n)
  BY WireGrows
<1>2. PICK m \in 1..n :
         /\ Data(w[m]) # <<>> /\ \A j \in 1..n : j > m => Data(w[j]) = <<>>
         /\ ParseTCP(w[m]).flags = ACK + PSH <=> o = l
  BY DEF PushOK
<1> HIDE DEF v, n
<1>3. \A i \in 1..n : v[i] = w[i]
  BY <1>1 DEF SameTo
<1>4. m \in 1..Len(v) /\ v[m] = w[m]
  BY <1>1, <1>3
<1>5. ASSUME NEW j \in 1..Len(v), j > m PROVE Data(v[j]) = <<>>
  <2>1. CASE j = n + 1
    BY <1>1, <2>1
  <2>2. CASE j # n + 1
    <3>1. j \in 1..n
      BY <1>1, <2>2
    <3> QED BY <1>2, <1>3, <1>5, <3>1
  <2> QED BY <2>1, <2>2
<1> QED BY <1>2, <1>4, <1>5 DEF PushOK

LEMMA PushNew ==
  ASSUME NEW w \in Seq(Seq(Byte)), NEW p \in Seq(Byte), Data(p) # <<>>,
         NEW o, NEW l, ParseTCP(p).flags = ACK + PSH <=> o = l
  PROVE  PushOK(Append(w, p), o, l)
<1> DEFINE v == Append(w, p)
           n == Len(w)
<1>1. v \in Seq(Seq(Byte)) /\ Len(v) = n + 1 /\ n \in Nat /\ v[n + 1] = p
  BY WireGrows
<1> HIDE DEF v, n
<1>2. n + 1 \in 1..Len(v) /\ \A j \in 1..Len(v) : ~(j > n + 1)
  BY <1>1
<1> QED BY <1>1, <1>2 DEF PushOK, v

(* What is left of a response, before and behind a segment.                *)
LEMMA NothingLeft ==
  ASSUME NEW s \in Seq(Byte)
  PROVE  /\ SubSeq(s, Len(s) + 1, Len(s)) = <<>> /\ SubSeq(s, 0 + 1, Len(s)) = s
         /\ s \o <<>> = s
<1>1. Len(s) \in Nat
  OBVIOUS
<1>2. SubSeq(s, Len(s) + 1, Len(s)) = <<>>
  BY <1>1
<1>3. SubSeq(s, 0 + 1, Len(s)) = s
  OBVIOUS
<1>4. s \o <<>> = s
  BY ConcatEmptySeq
<1> QED BY <1>2, <1>3, <1>4

CutAt(s, o, c, d, e) ==
  /\ s \in Seq(Byte) /\ o \in Nat /\ c \in Nat \ {0} /\ o + c <= Len(s)
  /\ d = SubSeq(s, o + 1, o + c) /\ e = SubSeq(s, o + c + 1, Len(s))

IsCut(s, o, c, d, e) ==
  /\ d \in Seq(Byte) /\ Len(d) = c /\ e \in Seq(Byte)
  /\ SubSeq(s, o + 1, Len(s)) = d \o e

LEMMA SegmentCut ==
  ASSUME NEW s, NEW o, NEW c, NEW d, NEW e, CutAt(s, o, c, d, e)
  PROVE  IsCut(s, o, c, d, e)
<1> DEFINE l == Len(s)
           a == SubSeq(s, o + 1, o + c)
           b == SubSeq(s, o + c + 1, l)
           r == SubSeq(s, o + 1, l)
           ab == a \o b
<1>1. s \in Seq(Byte) /\ o \in Nat /\ c \in Nat /\ c > 0 /\ o + c <= l /\ l \in Nat
  BY DEF CutAt
<1>2. \A i \in 1..l : s[i] \in Byte
  BY <1>1, ElementOfSeq
<1> HIDE DEF l
<1>3. /\ a \in Seq(Byte) /\ Len(a) = c /\ \A i \in 1..c : a[i] = s[o + i]
  <2>1. \A i \in (o + 1)..(o + c) : s[i] \in Byte
    BY <1>1, <1>2
  <2>2. o + 1 \in Int /\ o + c \in Int /\ o + 1 <= o + c /\ (o + c) - (o + 1) + 1 = c
    BY <1>1
  <2>3. /\ a \in Seq(Byte)
        /\ Len(a) = IF o + 1 <= o + c THEN (o + c) - (o + 1) + 1 ELSE 0
        /\ \A i \in 1..((o + c) - (o + 1) + 1) : a[i] = s[(o + 1) + i - 1]
    BY <2>1, <2>2, SubSeqProperties
  <2> HIDE DEF a
  <2>4. \A i \in 1..c : (o + 1) + i - 1 = o + i
    BY <1>1
  <2> QED BY <2>2, <2>3, <2>4
<1>4. /\ b \in Seq(Byte) /\ Len(b) = l - (o + c) /\ \A i \in 1..(l - (o + c)) : b[i] = s[o + c + i]
  <2>1. \A i \in (o + c + 1)..l : s[i] \in Byte
    BY <1>1, <1>2
  <2>2. o + c + 1 \in Int /\ l \in Int /\ l - (o + c + 1) + 1 = l - (o + c)
    BY <1>1
  <2>3. /\ b \in Seq(Byte)
        /\ Len(b) = IF o + c + 1 <= l THEN l - (o + c + 1) + 1 ELSE 0
        /\ \A i \in 1..(l - (o + c + 1) + 1) : b[i] = s[(o + c + 1) + i - 1]
    BY <2>1, <2>2, SubSeqProperties
  <2> HIDE DEF b
  <2>4. \A i \in 1..(l - (o + c)) : (o + c + 1) + i - 1 = o + c + i
    BY <1>1
  <2>5. ~(o + c + 1 <= l) => l - (o + c) = 0
    BY <1>1
  <2> QED BY <2>2, <2>3, <2>4, <2>5
<1>5. /\ r \in Seq(Byte) /\ Len(r) = l - o /\ \A i \in 1..(l - o) : r[i] = s[o + i]
  <2>1. \A i \in (o + 1)..l : s[i] \in Byte
    BY <1>1, <1>2
  <2>2. o + 1 \in Int /\ l \in Int /\ o + 1 <= l /\ l - (o + 1) + 1 = l - o
    BY <1>1
  <2>3. /\ r \in Seq(Byte)
        /\ Len(r) = IF o + 1 <= l THEN l - (o + 1) + 1 ELSE 0
        /\ \A i \in 1..(l - (o + 1) + 1) : r[i] = s[(o + 1) + i - 1]
    BY <2>1, <2>2, SubSeqProperties
  <2> HIDE DEF r
  <2>4. \A i \in 1..(l - o) : (o + 1) + i - 1 = o + i
    BY <1>1
  <2> QED BY <2>2, <2>3, <2>4
<1> HIDE DEF a, b, r
<1>6. /\ ab \in Seq(Byte) /\ Len(ab) = l - o
      /\ \A i \in 1..(l - o) : ab[i] = IF i <= c THEN a[i] ELSE b[i - c]
  <2>1. /\ ab \in Seq(Byte) /\ Len(ab) = Len(a) + Len(b)
        /\ \A i \in 1..(Len(a) + Len(b)) : ab[i] = IF i <= Len(a) THEN a[i] ELSE b[i - Len(a)]
    <3>1. a \in Seq(Byte) /\ b \in Seq(Byte)
      BY <1>3, <1>4
    <3> QED BY <3>1, ConcatProperties
  <2> HIDE DEF ab
  <2>2. Len(a) + Len(b) = l - o
    BY <1>1, <1>3, <1>4
  <2> QED BY <1>3, <2>1, <2>2
<1> HIDE DEF ab
<1>7. ASSUME NEW i \in 1..(l - o) PROVE r[i] = ab[i]
  <2>1. CASE i <= c
    <3>1. i \in 1..c
      BY <1>1, <2>1
    <3>2. a[i] = s[o + i] /\ r[i] = s[o + i]
      BY <1>3, <1>5, <3>1
    <3> QED BY <1>6, <2>1, <3>2
  <2>2. CASE ~(i <= c)
    <3>1. i - c \in 1..(l - (o + c)) /\ o + c + (i - c) = o + i
      BY <1>1, <2>2
    <3>2. b[i - c] = s[o + i]
      BY <1>4, <3>1
    <3> QED BY <1>5, <1>6, <2>2, <3>2
  <2> QED BY <2>1, <2>2
<1>8. r = ab
  BY <1>5, <1>6, <1>7, SeqEqual
<1>9. d = a /\ e = b
  BY DEF CutAt, a, b, l
<1> QED BY <1>3, <1>4, <1>8, <1>9 DEF r, ab, l, IsCut

-----------------------------------------------------------------------------
(* One stream: what has been sent, with what is left, is what the server   *)
(* answered, numbered from where the stream began.                         *)
SegTypes ==
  /\ vpn_seq \in Half /\ client_seq \in Half /\ begun.vpn \in Half /\ begun.client \in Half
  /\ payload \in Seq(Byte) /\ offset \in Nat /\ offset <= Len(payload)
  /\ asked \in Seq(Byte) /\ count \in Nat /\ count <= MaxCount
  /\ written \in Seq(Byte) /\ reached \in Nat /\ reached <= Len(written)

Sending ==
  /\ WireOK(wire, begun.vpn)
  /\ vpn_seq = Plus(begun.vpn, Len(Joined(wire, Len(wire))))
  /\ answered = Joined(wire, Len(wire)) \o SubSeq(payload, offset + 1, Len(payload))
  /\ PushOK(wire, offset, Len(payload))

(* As many bytes are asked as are written only if none was sent again.     *)
AskedOnce ==
  /\ Len(written) <= Len(asked)
  /\ Len(asked) = Len(written) => asked = written /\ reached = Len(written)

Asking == upstream = asked /\ client_seq = Plus(begun.client, reached) /\ AskedOnce

SegInv == SegTypes /\ Sending /\ Asking

LEMMA SegInvInit == SegInit => SegInv
<1> SUFFICES ASSUME SegInit PROVE SegInv
  OBVIOUS
<1>1. vpn_seq \in Half /\ client_seq \in Half
  BY SegAssumption DEF SegInit, Half, Word
<1>2. /\ payload = <<>> /\ offset = 0 /\ wire = <<>> /\ upstream = <<>> /\ answered = <<>>
      /\ asked = <<>> /\ written = <<>> /\ reached = 0
      /\ count = 0 /\ begun = [vpn |-> vpn_seq, client |-> client_seq]
  BY DEF SegInit
<1>3. begun.vpn = vpn_seq /\ begun.client = client_seq
  BY <1>2
<1>4. <<>> \in Seq(Byte) /\ <<>> \in Seq(Seq(Byte)) /\ Len(<<>>) = 0
  OBVIOUS
<1>5. MaxCount \in Nat
  BY SegAssumption
<1>6. SegTypes
  BY <1>1, <1>2, <1>3, <1>4, <1>5 DEF SegTypes
<1>7. Joined(wire, Len(wire)) = <<>>
  BY <1>2, <1>4, JoinedNone
<1>8. Plus(begun.vpn, 0) = vpn_seq /\ Plus(begun.client, 0) = client_seq
  BY <1>1, <1>3, PlusNothing
<1>9. WireOK(wire, begun.vpn)
  BY <1>2, <1>4 DEF WireOK
<1>10. answered = Joined(wire, Len(wire)) \o SubSeq(payload, offset + 1, Len(payload))
  <2>1. SubSeq(<<>>, 0 + 1, Len(<<>>)) = <<>> /\ <<>> \o <<>> = <<>>
    BY <1>4, NothingLeft
  <2> QED BY <1>2, <1>7, <2>1
<1>11. PushOK(wire, offset, Len(payload))
  BY <1>2 DEF PushOK
<1>12. Sending
  BY <1>4, <1>7, <1>8, <1>9, <1>10, <1>11 DEF Sending
<1>13. Asking
  BY <1>2, <1>4, <1>8 DEF Asking, AskedOnce
<1> QED BY <1>6, <1>12, <1>13 DEF SegInv

(* The parts of the invariant a step needs.                                *)
LEMMA SegParts ==
  ASSUME SegInv
  PROVE  /\ vpn_seq \in Half /\ client_seq \in Half /\ begun.vpn \in Half /\ begun.client \in Half
         /\ payload \in Seq(Byte) /\ offset \in Nat /\ offset <= Len(payload)
         /\ asked \in Seq(Byte) /\ count \in Nat /\ count <= MaxCount
         /\ WireOK(wire, begun.vpn) /\ wire \in Seq(Seq(Byte)) /\ Len(wire) \in Nat
         /\ Joined(wire, Len(wire)) \in Seq(Byte)
         /\ vpn_seq = Plus(begun.vpn, Len(Joined(wire, Len(wire))))
         /\ answered = Joined(wire, Len(wire)) \o SubSeq(payload, offset + 1, Len(payload))
         /\ PushOK(wire, offset, Len(payload))
         /\ upstream = asked /\ client_seq = Plus(begun.client, reached)
         /\ written \in Seq(Byte) /\ reached \in Nat /\ reached <= Len(written) /\ AskedOnce
<1>1. WireOK(wire, begun.vpn) /\ wire \in Seq(Seq(Byte)) /\ Len(wire) \in Nat
  BY DEF SegInv, Sending, WireOK
<1>2. Joined(wire, Len(wire)) \in Seq(Byte)
  <2>1. Len(wire) \in 0..Len(wire)
    BY <1>1
  <2> QED BY <1>1, <2>1, WireCarries, JoinedIsBytes
<1> QED BY <1>1, <1>2 DEF SegInv, SegTypes, Sending, Asking

LEMMA ReceiveKeeps == SegInv /\ Receive => SegInv'
<1> SUFFICES ASSUME SegInv, Receive PROVE SegInv'
  OBVIOUS
<1> DEFINE J == Joined(wire, Len(wire))
<1>1. PICK r \in Responses : payload' = r /\ answered' = answered \o r
  BY DEF Receive
<1>2. /\ offset = Len(payload) /\ count < MaxCount /\ offset' = 0 /\ count' = count + 1
      /\ vpn_seq' = vpn_seq /\ client_seq' = client_seq /\ wire' = wire
      /\ upstream' = upstream /\ begun' = begun /\ asked' = asked
      /\ written' = written /\ reached' = reached
  BY DEF Receive, clientVars
<1>3. r \in Seq(Byte) /\ Len(r) \in Nat /\ MaxCount \in Nat
  BY SegAssumption
<1>4. /\ payload \in Seq(Byte) /\ count \in Nat /\ J \in Seq(Byte)
      /\ answered = J \o SubSeq(payload, offset + 1, Len(payload))
  BY SegParts
<1>5. SegTypes'
  <2>1. SegTypes
    BY DEF SegInv
  <2>2. count + 1 \in Nat /\ count + 1 <= MaxCount
    BY <1>2, <1>3, <1>4
  <2> QED BY <1>1, <1>2, <1>3, <2>1, <2>2 DEF SegTypes
<1>6. answered' = J \o SubSeq(payload', offset' + 1, Len(payload'))
  <2> HIDE DEF J
  <2>1. SubSeq(payload, Len(payload) + 1, Len(payload)) = <<>>
    BY <1>4, NothingLeft
  <2>2. J \o <<>> = J
    BY <1>4, NothingLeft
  <2>3. answered = J
    BY <1>2, <1>4, <2>1, <2>2
  <2>4. SubSeq(r, 0 + 1, Len(r)) = r
    BY <1>3, NothingLeft
  <2> QED BY <1>1, <1>2, <2>3, <2>4
<1>7. PushOK(wire', offset', Len(payload'))
  BY <1>2 DEF PushOK
<1>8. Sending'
  <2>1. Sending
    BY DEF SegInv
  <2> QED BY <1>2, <1>6, <1>7, <2>1 DEF Sending
<1>9. Asking'
  BY <1>2 DEF SegInv, Asking, AskedOnce
<1> QED BY <1>5, <1>8, <1>9 DEF SegInv

LEMMA CutKeeps == SegInv /\ Cut => SegInv'
<1> SUFFICES ASSUME SegInv, Cut PROVE SegInv'
  OBVIOUS
<1> DEFINE c == IF Len(payload) - offset < MaxSeg THEN Len(payload) - offset ELSE MaxSeg
           J == Joined(wire, Len(wire))
           d == SubSeq(payload, offset + 1, offset + c)
           e == SubSeq(payload, offset + c + 1, Len(payload))
           fl == Flags(c)
           p == buildTCPPacket(Key, fl, vpn_seq, client_seq, d)
<1>1. /\ wire' = Append(wire, p) /\ vpn_seq' = Plus(vpn_seq, c) /\ offset' = offset + c
      /\ offset < Len(payload)
  BY DEF Cut, Advance
<1>2. /\ client_seq' = client_seq /\ payload' = payload /\ upstream' = upstream
      /\ begun' = begun /\ answered' = answered /\ asked' = asked /\ count' = count
      /\ written' = written /\ reached' = reached
  BY DEF Cut, clientVars
<1>3. /\ vpn_seq \in Half /\ client_seq \in Half /\ begun.vpn \in Half
      /\ payload \in Seq(Byte) /\ offset \in Nat
      /\ WireOK(wire, begun.vpn) /\ wire \in Seq(Seq(Byte)) /\ Len(wire) \in Nat /\ J \in Seq(Byte)
      /\ vpn_seq = Plus(begun.vpn, Len(J))
      /\ answered = J \o SubSeq(payload, offset + 1, Len(payload))
  BY SegParts
<1>4. /\ Len(payload) \in Nat /\ c \in Nat \ {0} /\ c <= MaxSeg /\ offset + c <= Len(payload)
      /\ Len(J) \in Nat
  <2>1. MaxSeg \in Nat \ {0}
    BY SegAssumption
  <2>2. Len(payload) \in Nat /\ Len(J) \in Nat
    BY <1>3
  <2> HIDE DEF J
  <2> QED BY <1>1, <1>3, <2>1, <2>2
<1>5. fl \in PacketFlags /\ (fl = ACK + PSH <=> offset + c = Len(payload))
  <2>1. ACK # ACK + PSH
    BY DEF ACK, PSH
  <2> HIDE DEF c
  <2>2. offset + c >= Len(payload) <=> offset + c = Len(payload)
    BY <1>3, <1>4
  <2> QED BY <2>1, <2>2 DEF Flags, PacketFlags
<1> HIDE DEF c, J, fl
<1>6. CutAt(payload, offset, c, d, e)
  BY <1>3, <1>4 DEF CutAt
<1> HIDE DEF d, e
<1>7. /\ d \in Seq(Byte) /\ Len(d) = c /\ e \in Seq(Byte)
      /\ SubSeq(payload, offset + 1, Len(payload)) = d \o e
  <2>1. IsCut(payload, offset, c, d, e)
    BY <1>6, SegmentCut
  <2> QED BY <2>1 DEF IsCut
<1>8. Accepted(p, fl, vpn_seq, d)
  <2>1. Len(d) <= MaxSeg
    BY <1>4, <1>7
  <2> QED BY <1>3, <1>5, <1>7, <2>1, PacketBuilt DEF PacketFlags
<1> HIDE DEF p
<1>9. /\ WireOK(Append(wire, p), begun.vpn)
      /\ Joined(Append(wire, p), Len(Append(wire, p))) = J \o d
  <2>1. Sends(wire, begun.vpn, p, fl, vpn_seq, d)
    BY <1>3, <1>5, <1>8 DEF Sends, J
  <2> QED BY <2>1, WireKept DEF J
<1>10. vpn_seq' = Plus(begun.vpn, Len(J \o d))
  <2>1. Len(J \o d) = Len(J) + c
    BY <1>3, <1>7, ConcatProperties
  <2>2. c \in Nat
    BY <1>4
  <2>3. Plus(Plus(begun.vpn, Len(J)), c) = Plus(begun.vpn, Len(J) + c)
    BY <1>3, <1>4, <2>2, PlusPlus
  <2> QED BY <1>1, <1>3, <2>1, <2>3
<1>11. answered = (J \o d) \o e
  <2>1. ThreeOf(J, d, e)
    BY <1>3, <1>7 DEF ThreeOf
  <2>2. (J \o d) \o e = J \o (d \o e)
    BY <2>1, Regrouped
  <2> QED BY <1>3, <1>7, <2>2
<1>12. PushOK(Append(wire, p), offset + c, Len(payload))
  <2>1. p \in Seq(Byte) /\ Data(p) = d /\ ParseTCP(p).flags = fl
    BY <1>8 DEF Accepted
  <2>2. d # <<>>
    <3>1. Len(<<>>) = 0 /\ c # 0
      BY <1>4
    <3> QED BY <1>7, <3>1
  <2> QED BY <1>3, <1>5, <2>1, <2>2, PushNew
<1>13. SegTypes'
  <2>1. SegTypes
    BY DEF SegInv
  <2>2. vpn_seq' \in Half
    BY <1>1, <1>3, <1>4, PlusIsHalf
  <2>3. offset + c \in Nat
    BY <1>3, <1>4
  <2> QED BY <1>1, <1>2, <1>4, <2>1, <2>2, <2>3 DEF SegTypes
<1>14. Sending'
  BY <1>1, <1>2, <1>9, <1>10, <1>11, <1>12 DEF Sending, e
<1>15. Asking'
  BY <1>2 DEF SegInv, Asking, AskedOnce
<1> QED BY <1>13, <1>14, <1>15 DEF SegInv

(* A packet without data leaves what has been sent as it is.               *)
LEMMA EmptySent ==
  ASSUME SegInv, NEW p, NEW fl, NEW seq, Sends(wire, begun.vpn, p, fl, seq, <<>>)
  PROVE  /\ WireOK(Append(wire, p), begun.vpn)
         /\ Joined(Append(wire, p), Len(Append(wire, p))) = Joined(wire, Len(wire))
         /\ PushOK(Append(wire, p), offset, Len(payload))
<1>1. /\ wire \in Seq(Seq(Byte)) /\ PushOK(wire, offset, Len(payload))
      /\ Joined(wire, Len(wire)) \in Seq(Byte)
  BY SegParts
<1>2. p \in Seq(Byte) /\ Data(p) = <<>>
  BY DEF Sends, Accepted
<1>3. PushOK(Append(wire, p), offset, Len(payload))
  BY <1>1, <1>2, PushKept
<1>4. /\ WireOK(Append(wire, p), begun.vpn)
      /\ Joined(Append(wire, p), Len(Append(wire, p))) = Joined(wire, Len(wire)) \o <<>>
  BY WireKept
<1>5. Joined(wire, Len(wire)) \o <<>> = Joined(wire, Len(wire))
  BY <1>1, NothingLeft
<1> QED BY <1>3, <1>4, <1>5

(* A packet over a stretch of what the client has written.                 *)
Sent(fresh, from, to, w, d) ==
  /\ fresh \in Seq(Byte) /\ from \in 0..Len(w) /\ to \in 0..Len(w) /\ Stretch(fresh, from, to)
  /\ w = written \o fresh /\ d = SubSeq(w, from + 1, to)

LEMMA StretchRead ==
  ASSUME SegInv, NEW fresh, NEW from, NEW to, NEW w, NEW d, Sent(fresh, from, to, w, d)
  PROVE  /\ w \in Seq(Byte) /\ Len(w) \in Nat /\ Len(w) = Len(written) + Len(fresh)
         /\ Len(fresh) \in Nat /\ Len(written) \in Nat
         /\ from \in Nat /\ to \in Nat /\ from < to /\ to <= Len(w) /\ from <= Len(written)
         /\ d \in Seq(Byte) /\ Len(d) = to - from
<1>1. /\ fresh \in Seq(Byte) /\ from \in 0..Len(w) /\ to \in 0..Len(w)
      /\ from < to /\ from <= Len(written)
      /\ w = written \o fresh /\ d = SubSeq(w, from + 1, to)
  BY DEF Sent, Stretch
<1>2. written \in Seq(Byte)
  BY SegParts
<1>3. w \in Seq(Byte) /\ Len(w) = Len(written) + Len(fresh)
  BY <1>1, <1>2, ConcatProperties
<1>4. Len(w) \in Nat /\ Len(fresh) \in Nat /\ Len(written) \in Nat
  BY <1>1, <1>2, <1>3
<1>5. from \in Nat /\ to \in Nat /\ to <= Len(w)
  BY <1>1, <1>4
<1>6. \A i \in (from + 1)..to : w[i] \in Byte
  <2>1. \A i \in (from + 1)..to : i \in 1..Len(w)
    BY <1>4, <1>5
  <2> QED BY <1>3, <2>1, ElementOfSeq
<1>7. d \in Seq(Byte) /\ Len(d) = IF from + 1 <= to THEN to - (from + 1) + 1 ELSE 0
  <2>1. from + 1 \in Int /\ to \in Int
    BY <1>5
  <2> QED BY <1>1, <1>6, <2>1, SubSeqProperties
<1>8. Len(d) = to - from
  <2>1. from + 1 <= to /\ to - (from + 1) + 1 = to - from
    BY <1>1, <1>5
  <2> QED BY <1>7, <2>1
<1> QED BY <1>1, <1>3, <1>4, <1>5, <1>7, <1>8

(* As many bytes asked as written, before and after: the packet has the    *)
(* new bytes and no other.                                                 *)
LEMMA StretchIsNew ==
  ASSUME SegInv, NEW fresh, NEW from, NEW to, NEW w, NEW d, Sent(fresh, from, to, w, d)
  PROVE  /\ Len(w) <= Len(asked \o d)
         /\ Len(asked \o d) = Len(w) => asked \o d = w /\ to = Len(w)
<1> DEFINE k == Len(written)
           l == Len(fresh)
           n == Len(asked)
           m == Len(w)
<1>1. /\ d \in Seq(Byte) /\ Len(d) = to - from /\ m = k + l
      /\ k \in Nat /\ l \in Nat /\ m \in Nat /\ from \in Nat /\ to \in Nat
      /\ from < to /\ to <= m /\ from <= k
  BY StretchRead
<1>2. /\ asked \in Seq(Byte) /\ written \in Seq(Byte) /\ k <= n
      /\ n = k => asked = written
  BY SegParts DEF AskedOnce
<1>3. n \in Nat /\ Len(asked \o d) = n + (to - from)
  <2>1. n \in Nat
    BY <1>2
  <2>2. Len(asked \o d) = n + Len(d)
    BY <1>1, <1>2, ConcatProperties
  <2> HIDE DEF n
  <2> QED BY <1>1, <2>1, <2>2
<1>4. /\ fresh \in Seq(Byte) /\ w = written \o fresh /\ d = SubSeq(w, from + 1, to)
      /\ fresh # <<>> => to = m
  BY DEF Sent, Stretch
<1>5. CASE fresh = <<>>
  <2>1. l = 0
    BY <1>5
  <2> HIDE DEF k, l, n, m
  <2>2. m <= n + (to - from) /\ m # n + (to - from)
    BY <1>1, <1>2, <1>3, <2>1
  <2> QED BY <1>3, <2>2 DEF m
<1>6. CASE fresh # <<>>
  <2>1. to = m
    BY <1>4, <1>6
  <2>2. m <= n + (to - from)
    <3> HIDE DEF k, l, n, m
    <3> QED BY <1>1, <1>2, <1>3, <2>1
  <2>3. ASSUME n + (to - from) = m PROVE asked \o d = w
    <3>1. n = k /\ from = k
      <4> HIDE DEF k, l, n, m
      <4> QED BY <1>1, <1>2, <1>3, <2>1, <2>3
    <3>2. d = SubSeq(w, k + 1, k + l)
      BY <1>1, <1>4, <2>1, <3>1
    <3>3. Reads(w, k, fresh) /\ w \in Seq(Byte)
      BY <1>2, <1>4, BytesJoined
    <3>4. d = fresh
      BY <1>4, <3>2, <3>3, ReadsAll
    <3> QED BY <1>2, <1>4, <3>1, <3>4
  <2> QED BY <1>3, <2>1, <2>2, <2>3 DEF m
<1> QED BY <1>5, <1>6

LEMMA HandleDataKeeps == SegInv /\ HandleData => SegInv'
<1> SUFFICES ASSUME SegInv, HandleData PROVE SegInv'
  OBVIOUS
<1> DEFINE p == buildTCPPacket(Key, ACK, vpn_seq, client_seq', <<>>)
<1> DEFINE Handled(fresh, words, from, to) ==
             LET d == SubSeq(written \o fresh, from + 1, to)
                 packet == Request(d, from, words)
                 q == ParseTCP(packet)
             IN  /\ Stretch(fresh, from, to)
                 /\ 40 + 4 * words + Len(d) < Base
                 /\ IsTCP(packet) /\ q.key = Key
                 /\ written' = written \o fresh
                 /\ asked' = asked \o d
                 /\ reached' = to
                 /\ client_seq' = Plus(q.seq, Len(q.payload))
                 /\ upstream' = upstream \o q.payload
<1>a. PICK fresh \in Requests \cup {<<>>}, words \in Options :
        \E from, to \in 0..Len(written \o fresh) : Handled(fresh, words, from, to)
  BY Zenon DEF HandleData
<1>1. PICK from \in 0..Len(written \o fresh), to \in 0..Len(written \o fresh) :
        Handled(fresh, words, from, to)
  BY <1>a
<1>2. /\ count < MaxCount /\ wire' = Append(wire, p) /\ count' = count + 1
      /\ vpn_seq' = vpn_seq /\ payload' = payload /\ offset' = offset
      /\ begun' = begun /\ answered' = answered
  BY DEF HandleData
<1>3. /\ vpn_seq \in Half /\ client_seq \in Half /\ begun.client \in Half
      /\ asked \in Seq(Byte) /\ count \in Nat
      /\ WireOK(wire, begun.vpn)
      /\ vpn_seq = Plus(begun.vpn, Len(Joined(wire, Len(wire))))
      /\ upstream = asked
  BY SegParts
<1> DEFINE w == written \o fresh
           d == SubSeq(w, from + 1, to)
           q == ParseTCP(Request(d, from, words))
           seq == Plus(begun.client, from)
<1>4. Sent(fresh, from, to, w, d)
  <2>1. fresh \in Seq(Byte)
    <3>1. Requests \subseteq Seq(Byte)
      BY SegAssumption
    <3>2. <<>> \in Seq(Byte)
      OBVIOUS
    <3> HIDE DEF Handled
    <3> QED BY <3>1, <3>2, Zenon
  <2> QED BY <1>1, <2>1 DEF Sent
<1>0. /\ 40 + 4 * words + Len(d) < Base
      /\ written' = w /\ asked' = asked \o d /\ reached' = to
      /\ client_seq' = Plus(q.seq, Len(q.payload)) /\ upstream' = upstream \o q.payload
  BY <1>1
<1> HIDE DEF w, d, q
<1>5. /\ w \in Seq(Byte) /\ d \in Seq(Byte) /\ Len(d) = to - from /\ Len(d) \in Nat
      /\ from \in Nat /\ to \in Nat /\ to <= Len(w) /\ from + Len(d) = to
  <2>1. /\ w \in Seq(Byte) /\ d \in Seq(Byte) /\ Len(d) = to - from
        /\ from \in Nat /\ to \in Nat /\ to <= Len(w)
    BY <1>4, StretchRead
  <2> QED BY <2>1
<1>6. seq \in Half
  BY <1>3, <1>5, PlusIsHalf
<1>7. q.seq = seq /\ q.payload = d
  <2> HIDE DEF seq
  <2>1. ParseTCP(Request(d, from, words)).seq = seq /\ ParseTCP(Request(d, from, words)).payload = d
    <3>1. Sendable(d, from, words, seq)
      BY <1>0, <1>3, <1>5, <1>6 DEF Sendable, seq
    <3>2. ReadsAs(Request(d, from, words), seq, d)
      BY <3>1, RequestRead
    <3> QED BY <3>2 DEF ReadsAs
  <2> QED BY <2>1 DEF q
<1>8. client_seq' = Plus(begun.client, to) /\ client_seq' \in Half
  <2>1. Plus(Plus(begun.client, from), Len(d)) = Plus(begun.client, from + Len(d))
    BY <1>3, <1>5, PlusPlus
  <2> QED BY <1>0, <1>3, <1>5, <1>7, <2>1, PlusIsHalf
<1>9. /\ asked' \in Seq(Byte)
      /\ Len(w) <= Len(asked')
      /\ Len(asked') = Len(w) => asked' = w /\ to = Len(w)
  <2>1. asked \o d \in Seq(Byte)
    BY <1>3, <1>5, ConcatProperties
  <2>2. /\ Len(w) <= Len(asked \o d)
        /\ Len(asked \o d) = Len(w) => asked \o d = w /\ to = Len(w)
    BY <1>4, StretchIsNew
  <2> QED BY <1>0, <2>1, <2>2
<1>10. Asking'
  <2>1. upstream' = asked'
    BY <1>0, <1>3, <1>7
  <2>2. AskedOnce'
    BY <1>0, <1>9 DEF AskedOnce
  <2> QED BY <1>0, <1>2, <1>8, <2>1, <2>2 DEF Asking
<1> HIDE DEF p
<1>11. Sends(wire, begun.vpn, p, ACK, vpn_seq, <<>>)
  <2>1. ACK \in PacketFlags
    BY DEF PacketFlags
  <2>2. <<>> \in Seq(Byte) /\ Len(<<>>) <= MaxSeg
    BY SegAssumption
  <2>3. Accepted(p, ACK, vpn_seq, <<>>)
    BY <1>3, <1>8, <2>1, <2>2, PacketBuilt DEF p, PacketFlags
  <2> QED BY <1>3, <2>1, <2>3 DEF Sends
<1>12. Sending'
  <2>1. /\ WireOK(Append(wire, p), begun.vpn)
        /\ Joined(Append(wire, p), Len(Append(wire, p))) = Joined(wire, Len(wire))
        /\ PushOK(Append(wire, p), offset, Len(payload))
    BY <1>11, EmptySent
  <2>2. Sending
    BY DEF SegInv
  <2> QED BY <1>2, <2>1, <2>2 DEF Sending
<1>13. SegTypes'
  <2>1. SegTypes
    BY DEF SegInv
  <2>2. count + 1 \in Nat /\ count + 1 <= MaxCount
    <3>1. MaxCount \in Nat
      BY SegAssumption
    <3> QED BY <1>2, <1>3, <3>1
  <2> QED BY <1>0, <1>2, <1>5, <1>8, <1>9, <2>1, <2>2 DEF SegTypes
<1> QED BY <1>10, <1>12, <1>13 DEF SegInv

LEMMA RepeatSynAckKeeps == SegInv /\ RepeatSynAck => SegInv'
<1> SUFFICES ASSUME SegInv, RepeatSynAck PROVE SegInv'
  OBVIOUS
<1> DEFINE seq == MinusOne(vpn_seq)
           p == buildTCPPacket(Key, SYN + ACK, seq, client_seq, <<>>)
<1>1. wire = <<>> /\ wire' = <<p>> /\ UNCHANGED <<streamVars, upstream, begun, answered, clientVars, count>>
  BY DEF RepeatSynAck
<1>2. vpn_seq \in Half /\ client_seq \in Half /\ WireOK(wire, begun.vpn)
  BY SegParts
<1>3. seq \in Half
  <2>1. vpn_seq[1] \in Nat /\ vpn_seq[2] \in Nat
    BY <1>2, HalfIsPair
  <2>2. /\ vpn_seq[1] + (IF vpn_seq[2] = 0 THEN Base - 1 ELSE 0) \in Nat
        /\ vpn_seq[2] + Base - 1 \in Nat
    BY <2>1 DEF Base
  <2>3. /\ (vpn_seq[1] + (IF vpn_seq[2] = 0 THEN Base - 1 ELSE 0)) % Base \in Word
        /\ (vpn_seq[2] + Base - 1) % Base \in Word
    BY <2>2, WordDivides
  <2> QED BY <2>3, HalfIsPair DEF MinusOne
<1> HIDE DEF seq, p
<1>4. Sends(wire, begun.vpn, p, SYN + ACK, seq, <<>>)
  <2>1. SYN + ACK \in PacketFlags
    BY DEF PacketFlags
  <2>2. <<>> \in Seq(Byte) /\ Len(<<>>) <= MaxSeg
    BY SegAssumption
  <2>3. Accepted(p, SYN + ACK, seq, <<>>)
    BY <1>2, <1>3, <2>1, <2>2, PacketBuilt DEF p, PacketFlags
  <2> QED BY <1>2, <1>3, <2>1, <2>3 DEF Sends
<1>5. wire' = Append(wire, p)
  <2>1. Append(<<>>, p) = <<p>>
    OBVIOUS
  <2> QED BY <1>1, <2>1
<1>6. /\ WireOK(Append(wire, p), begun.vpn)
      /\ Joined(Append(wire, p), Len(Append(wire, p))) = Joined(wire, Len(wire))
      /\ PushOK(Append(wire, p), offset, Len(payload))
  BY <1>4, EmptySent
<1>7. Sending'
  <2>1. Sending
    BY DEF SegInv
  <2> QED BY <1>1, <1>5, <1>6, <2>1 DEF Sending, streamVars
<1>8. SegTypes' /\ Asking'
  BY <1>1 DEF SegInv, SegTypes, Asking, AskedOnce, streamVars, clientVars
<1> QED BY <1>7, <1>8 DEF SegInv

LEMMA SegInvStep == SegInv /\ [SegNext]_segVars => SegInv'
<1> SUFFICES ASSUME SegInv, [SegNext]_segVars PROVE SegInv'
  OBVIOUS
<1>1. CASE Receive
  BY <1>1, ReceiveKeeps
<1>2. CASE Cut
  BY <1>2, CutKeeps
<1>3. CASE HandleData
  BY <1>3, HandleDataKeeps
<1>4. CASE RepeatSynAck
  BY <1>4, RepeatSynAckKeeps
<1>5. CASE UNCHANGED segVars
  BY <1>5 DEF SegInv, SegTypes, Sending, Asking, AskedOnce, segVars, streamVars, clientVars
<1> QED BY <1>1, <1>2, <1>3, <1>4, <1>5 DEF SegNext

-----------------------------------------------------------------------------
LEMMA InvAccepts == SegInv => PacketsAccepted
<1> SUFFICES ASSUME SegInv, NEW i \in 1..Len(wire)
             PROVE  /\ At(wire[i], 3) = Len(wire[i])
                    /\ Len(Data(wire[i])) <= MaxSeg
                    /\ Intact(SubSeq(wire[i], 1, 20))
                    /\ Intact(Pseudo(Key.remote_ip, Key.local_ip, Len(wire[i]) - 20) \o TCPOf(wire[i]))
  BY DEF PacketsAccepted
<1>1. Placed(wire[i], begun.vpn, Joined(wire, i - 1))
  BY SegParts DEF WireOK
<1> QED BY <1>1 DEF Placed, Accepted

LEMMA InvStreams == SegInv => BytesRelayed
<1> SUFFICES ASSUME SegInv PROVE BytesRelayed
  OBVIOUS
<1>1. /\ begun.vpn \in Half /\ begun.client \in Half /\ asked \in Seq(Byte)
      /\ WireOK(wire, begun.vpn) /\ Len(wire) \in Nat
      /\ answered = Joined(wire, Len(wire)) \o SubSeq(payload, offset + 1, Len(payload))
      /\ PushOK(wire, offset, Len(payload))
      /\ upstream = asked /\ client_seq = Plus(begun.client, reached) /\ reached \in Nat /\ AskedOnce
  BY SegParts
<1>2. \A n : DataBefore(n) = Joined(wire, n)
  BY DEF DataBefore, Joined
<1>3. Reassembled
  <2>1. ASSUME NEW i \in 1..Len(wire)
        PROVE  \/ ParseTCP(wire[i]).flags = SYN + ACK
               \/ ParseTCP(wire[i]).seq = After32(begun.vpn, Len(DataBefore(i - 1)))
    <3>1. PICK flags \in PacketFlags, seq \in Half, data \in Seq(Byte) :
            /\ Accepted(wire[i], flags, seq, data)
            /\ flags = SYN + ACK \/ seq = Plus(begun.vpn, Len(Joined(wire, i - 1)))
      BY <1>1 DEF WireOK, Placed
    <3>2. ParseTCP(wire[i]).flags = flags /\ ParseTCP(wire[i]).seq = seq
      BY <3>1 DEF Accepted
    <3>3. Len(Joined(wire, i - 1)) \in Nat
      <4>1. i - 1 \in 0..Len(wire)
        BY <1>1
      <4>2. Joined(wire, i - 1) \in Seq(Byte)
        BY <1>1, <4>1, WireCarries, JoinedIsBytes
      <4> QED BY <4>2
    <3>4. After32(begun.vpn, Len(Joined(wire, i - 1))) = Plus(begun.vpn, Len(Joined(wire, i - 1)))
      BY <1>1, <3>3, CountedIsAdded
    <3> QED BY <1>2, <3>1, <3>2, <3>4
  <2> QED BY <1>1, <1>2, <2>1 DEF Reassembled
<1>4. PushEndsResponse
  <2> DEFINE full == {i \in 1..Len(wire) : Data(wire[i]) # <<>>}
             last == CHOOSE i \in full : \A j \in full : j <= i
  <2> SUFFICES ASSUME offset > 0
               PROVE  ParseTCP(wire[last]).flags = ACK + PSH <=> offset = Len(payload)
    BY DEF PushEndsResponse
  <2>1. PICK m \in 1..Len(wire) :
          /\ Data(wire[m]) # <<>> /\ \A j \in 1..Len(wire) : j > m => Data(wire[j]) = <<>>
          /\ ParseTCP(wire[m]).flags = ACK + PSH <=> offset = Len(payload)
    BY <1>1 DEF PushOK
  <2>2. m \in full /\ full \subseteq Nat
    BY <1>1, <2>1
  <2>3. \A j \in full : j <= m
    BY <1>1, <2>1
  <2> HIDE DEF full
  <2>4. last \in full /\ \A j \in full : j <= last
    BY <2>2, <2>3
  <2> HIDE DEF last
  <2>5. last = m
    BY <2>2, <2>3, <2>4
  <2> QED BY <2>1, <2>5
<1>5. UpstreamAsSent
  BY <1>1, CountedIsAdded DEF UpstreamAsSent, AskedOnce
<1> QED BY <1>3, <1>4, <1>5 DEF BytesRelayed

(* Every packet built has the length it states, at most a segment of data, *)
(* and two checksums that add up, whatever carries their sums produce,     *)
(* for data and addresses of every value (packet_processor.cpp:30-39,      *)
(* 66-68,89-110).                                                          *)
THEOREM PacketsAcceptedHolds == SegSpec => []PacketsAccepted
BY SegInvInit, SegInvStep, InvAccepts, PTL DEF SegSpec

(* Responses arrive whole and in order and are handed up when complete;    *)
(* upstream goes the data of every packet of the client, what it sends     *)
(* again once more, and only a client that sends nothing again has its own *)
(* stream there.  For any number of responses and packets, segments of     *)
(* every size, options of every length and numbers that wrap around        *)
(* (packet_processor.cpp:175-193,240-248,347-361).                         *)
THEOREM BytesRelayedHolds == SegSpec => []BytesRelayed
BY SegInvInit, SegInvStep, InvStreams, PTL DEF SegSpec

-----------------------------------------------------------------------------
(* The types of the DNS queries, whatever fails: an answer may reach a     *)
(* socket that did not ask, yet it answers some query, and the thread      *)
(* still holds its own.                                                    *)
ThreadType(i) ==
  /\ threads[i].at \in {"none", "resolve", "await", "reply", "ended"}
  /\ threads[i].at \in {"resolve", "await", "reply"} =>
       i \in DOMAIN queried /\ threads[i].packet = Parts(i)
  /\ threads[i].at = "resolve" =>
       threads[i] = [at |-> "resolve", packet |-> Parts(i),
                     tor_dns_port |-> threads[i].tor_dns_port]
  /\ threads[i].at = "reply" => \E k \in Ids : threads[i].answer = <<k, 1>>

DnsTypes ==
  /\ threads = [i \in Ids |-> threads[i]]
  /\ DOMAIN queried \subseteq Ids /\ \A i \in DOMAIN queried : queried[i] \in Questions
  /\ \A i \in Ids : ThreadType(i)
  /\ \A t \in tor : t.socket \in Ids /\ t.query = <<t.socket>>
  /\ replies \subseteq Seq(Byte)

LEMMA DatagramIsBytes ==
  ASSUME NEW src \in Address, NEW sport \in Word, NEW dst \in Address, NEW dport \in Word,
         NEW data \in Seq(Byte), Len(data) + 28 < Base
  PROVE  buildUDPPacket(src, sport, dst, dport, data) \in Seq(Byte)
<1> DEFINE n == Len(data)
           m == <<0, 0, 64, 0, 64, 17, 0, 0>>
           s == Two(sport)
           d == Two(dport)
           l == Two(8 + n)
           zero == <<0, 0>>
           h == IPHeader(28 + n, 17, src, dst)
<1>1. /\ 28 + n \in Word /\ 8 + n \in Word
      /\ (28 + n) % Base = 28 + n /\ (8 + n) % Base = 8 + n
  <2>1. n \in Nat /\ n + 28 < Base
    OBVIOUS
  <2> HIDE DEF n
  <2>2. 28 + n \in Nat /\ 8 + n \in Nat /\ 28 + n < Base /\ 8 + n < Base
    BY <2>1, BaseIsNat
  <2>3. 28 + n <= 65535 /\ 8 + n <= 65535
    BY <2>1 DEF Base
  <2> QED BY <2>2, <2>3, WordsBelowBase, WordIsSmall
<1>2. Eight(m)
  <2>1. 0 \in Byte /\ 64 \in Byte /\ 17 \in Byte
    BY DEF Byte
  <2> QED BY <2>1, EightBytes
<1>3. src \in Seq(Byte) /\ Len(src) = 4 /\ dst \in Seq(Byte) /\ Len(dst) = 4
  <2>1. src \in Seq(Byte) /\ dst \in Seq(Byte)
    BY SeqDef DEF Address
  <2> QED BY <2>1, AddressLayout
<1>4. s \in Seq(Byte) /\ d \in Seq(Byte)
  BY TwoBytes
<1>5. l \in Seq(Byte)
  <2> HIDE DEF n
  <2> QED BY <1>1, TwoBytes
<1>6. zero \in Seq(Byte)
  BY DEF Byte
<1>7. h = <<69, 0>> \o Two(28 + n) \o m \o src \o dst
  <2> HIDE DEF n
  <2> QED BY <1>1 DEF IPHeader
<1>8. buildUDPPacket(src, sport, dst, dport, data) = h \o s \o d \o l \o zero \o data
  <2> HIDE DEF n
  <2>1. buildUDPPacket(src, sport, dst, dport, data)
          = h \o s \o d \o Two((8 + n) % Base) \o zero \o data
    BY DEF buildUDPPacket, n
  <2> QED BY <1>1, <2>1
<1> HIDE DEF n, m, s, d, l, zero, h
<1>9. h \in Seq(Byte)
  <2>1. Heading(h, 28 + n, m, src, dst)
    BY <1>1, <1>2, <1>3, <1>7 DEF Heading
  <2> QED BY <2>1, HeadRead
<1>10. h \o s \in Seq(Byte)
  BY <1>4, <1>9, BytesJoined
<1>11. h \o s \o d \in Seq(Byte)
  BY <1>4, <1>10, BytesJoined
<1>12. h \o s \o d \o l \in Seq(Byte)
  BY <1>5, <1>11, BytesJoined
<1>13. h \o s \o d \o l \o zero \in Seq(Byte)
  BY <1>6, <1>12, BytesJoined
<1> QED BY <1>8, <1>13, BytesJoined

LEMMA DnsTypesInit == DnsInit => DnsTypes
  BY DEF DnsInit, DnsTypes, ThreadType

(* A thread that is left alone.                                            *)
LEMMA ThreadKept ==
  ASSUME NEW j \in Ids, ThreadType(j), threads'[j] = threads[j],
         j \in DOMAIN queried => j \in DOMAIN queried' /\ queried'[j] = queried[j]
  PROVE  ThreadType(j)'
<1>1. j \in DOMAIN queried => Parts(j)' = Parts(j)
  BY DEF Parts
<1>2. threads[j].at = "resolve" => j \in DOMAIN queried
  BY DEF ThreadType
<1> QED BY <1>1, <1>2 DEF ThreadType

LEMMA EndKeepsTypes ==
  ASSUME DnsTypes, NEW i \in Ids, threads' = Ended(i), UNCHANGED <<tor, queried>>,
         replies' \subseteq Seq(Byte)
  PROVE  DnsTypes'
<1>1. /\ threads' = [j \in Ids |-> threads'[j]]
      /\ \A j \in Ids : threads'[j] = IF j = i THEN [at |-> "ended"] ELSE threads[j]
  BY DEF DnsTypes, Ended
<1>2. ASSUME NEW j \in Ids PROVE ThreadType(j)'
  BY <1>1 DEF DnsTypes, ThreadType, Parts
<1> QED BY <1>1, <1>2 DEF DnsTypes

LEMMA DnsTypesStep == DnsTypes /\ [DnsNext]_dnsVars => DnsTypes'
<1> SUFFICES ASSUME DnsTypes, [DnsNext]_dnsVars PROVE DnsTypes'
  OBVIOUS
<1>1. CASE Intercept
  <2>1. PICK i \in Ids, q \in Questions, port \in UdpPorts :
          /\ i \notin DOMAIN queried
          /\ queried' = [j \in DOMAIN queried \cup {i} |-> IF j = i THEN q ELSE queried[j]]
          /\ threads' = [threads EXCEPT ![i] =
               [at |-> "resolve", packet |-> ParseUDP(Query(i, q)), tor_dns_port |-> port]]
    BY <1>1 DEF Intercept
  <2>2. UNCHANGED <<tor, replies>>
    BY <1>1 DEF Intercept
  <2>3. /\ DOMAIN queried' = DOMAIN queried \cup {i} /\ queried'[i] = q
        /\ \A j \in DOMAIN queried : queried'[j] = queried[j] /\ j # i
    BY <2>1
  <2>4. /\ threads' = [j \in Ids |-> threads'[j]]
        /\ \A j \in Ids : j # i => threads'[j] = threads[j]
        /\ threads'[i] = [at |-> "resolve", packet |-> ParseUDP(Query(i, q)),
                          tor_dns_port |-> port]
    BY <2>1 DEF DnsTypes
  <2>5. ASSUME NEW j \in Ids PROVE ThreadType(j)'
    <3>1. CASE j = i
      <4>1. threads'[j].packet = Parts(j)'
        BY <2>3, <2>4, <3>1, QueryIsRead DEF Parts
      <4> QED BY <2>3, <2>4, <3>1, <4>1 DEF ThreadType
    <3>2. CASE j # i
      <4>1. ThreadType(j) /\ threads'[j] = threads[j]
        BY <2>4, <3>2 DEF DnsTypes
      <4> QED BY <2>3, <4>1, ThreadKept
    <3> QED BY <3>1, <3>2
  <2> QED BY <2>2, <2>3, <2>4, <2>5 DEF DnsTypes
<1>2. ASSUME NEW i \in Ids, Resolve(i) PROVE DnsTypes'
  <2>0. threads[i].at = "resolve" /\ UNCHANGED <<queried, replies>>
    BY <1>2 DEF Resolve
  <2>1. CASE /\ threads' = [threads EXCEPT ![i].at = "await"]
             /\ tor' = tor \cup (IF threads[i].tor_dns_port # DnsPort THEN {}
                                 ELSE {[socket |-> i, query |-> threads[i].packet.payload]})
    <3>1. threads[i].packet = Parts(i) /\ i \in DOMAIN queried
      BY <2>0 DEF DnsTypes, ThreadType
    <3>2. /\ threads' = [j \in Ids |-> threads'[j]]
          /\ \A j \in Ids : j # i => threads'[j] = threads[j]
          /\ threads'[i] = [threads[i] EXCEPT !.at = "await"]
      BY <2>1 DEF DnsTypes
    <3>3. ASSUME NEW t \in tor' PROVE t.socket \in Ids /\ t.query = <<t.socket>>
      <4>1. threads[i].packet.payload = <<i>>
        BY <3>1 DEF Parts
      <4> QED BY <2>1, <4>1 DEF DnsTypes
    <3>4. ASSUME NEW j \in Ids PROVE ThreadType(j)'
      <4>1. CASE j = i
        <5>1. threads[i] = [at |-> "resolve", packet |-> Parts(i),
                            tor_dns_port |-> threads[i].tor_dns_port]
          BY <2>0 DEF DnsTypes, ThreadType
        <5>2. threads'[i].at = "await" /\ threads'[i].packet = Parts(i)
          BY <3>2, <5>1
        <5> QED BY <2>0, <3>1, <4>1, <5>2 DEF ThreadType, Parts
      <4>2. CASE j # i
        <5>1. ThreadType(j) /\ threads'[j] = threads[j] /\ queried' = queried
          BY <2>0, <3>2, <4>2 DEF DnsTypes
        <5> QED BY <5>1, ThreadKept
      <4> QED BY <4>1, <4>2
    <3> QED BY <2>0, <3>2, <3>3, <3>4 DEF DnsTypes
  <2>2. CASE threads' = Ended(i) /\ UNCHANGED tor
    <3>1. replies' \subseteq Seq(Byte)
      BY <2>0 DEF DnsTypes
    <3> QED BY <2>0, <2>2, <3>1, EndKeepsTypes
  <2> QED BY <1>2, <2>1, <2>2 DEF Resolve
<1>3. CASE TorResolves
  <2>1. PICK t \in tor, i \in Ids :
          /\ tor' = tor \ {t}
          /\ threads' = IF threads[i].at # "await" THEN threads
                        ELSE [threads EXCEPT ![i] = [at |-> "reply", packet |-> @.packet,
                                                     answer |-> Append(t.query, 1)]]
          /\ UNCHANGED <<replies, queried>>
    BY <1>3 DEF TorResolves
  <2>2. t.socket \in Ids /\ Append(t.query, 1) = <<t.socket, 1>>
    <3>1. t.socket \in Ids /\ t.query = <<t.socket>>
      BY <2>1 DEF DnsTypes
    <3>2. Append(<<t.socket>>, 1) = <<t.socket, 1>>
      <4>1. t.socket \in Byte
        BY <3>1, DnsAssumption
      <4>2. t.socket \in Nat /\ 1 \in Nat
        BY <4>1, ByteIsSmall
      <4> QED BY <4>2, AppendedPair
    <3> QED BY <3>1, <3>2
  <2>3. CASE threads[i].at # "await"
    BY <2>1, <2>3 DEF DnsTypes, ThreadType, Parts
  <2>4. CASE threads[i].at = "await"
    <3>1. /\ threads' = [j \in Ids |-> threads'[j]]
          /\ \A j \in Ids : j # i => threads'[j] = threads[j]
          /\ threads'[i].at = "reply" /\ threads'[i].packet = threads[i].packet
          /\ threads'[i].answer = <<t.socket, 1>>
      BY <2>1, <2>2, <2>4 DEF DnsTypes
    <3>2. ASSUME NEW j \in Ids PROVE ThreadType(j)'
      <4>1. CASE j = i
        BY <2>1, <2>2, <2>4, <3>1, <4>1 DEF DnsTypes, ThreadType, Parts
      <4>2. CASE j # i
        <5>1. ThreadType(j) /\ threads'[j] = threads[j] /\ queried' = queried
          BY <2>1, <3>1, <4>2 DEF DnsTypes
        <5> QED BY <5>1, ThreadKept
      <4> QED BY <4>1, <4>2
    <3> QED BY <2>1, <3>1, <3>2 DEF DnsTypes
  <2> QED BY <2>3, <2>4
<1>4. ASSUME NEW i \in Ids, GiveUp(i) PROVE DnsTypes'
  <2>1. /\ threads' = Ended(i) /\ UNCHANGED <<tor, queried>>
        /\ replies' \subseteq Seq(Byte)
    BY <1>4 DEF GiveUp, DnsTypes
  <2> QED BY <2>1, EndKeepsTypes
<1>5. ASSUME NEW i \in Ids, Reply(i) PROVE DnsTypes'
  <2>1. threads[i].at = "reply" /\ threads' = Ended(i) /\ UNCHANGED <<tor, queried>>
    BY <1>5 DEF Reply
  <2>2. PICK k \in Ids : threads[i].answer = <<k, 1>>
    BY <2>1 DEF DnsTypes, ThreadType
  <2>3. i \in DOMAIN queried /\ queried[i] \in Questions /\ threads[i].packet = Parts(i)
    BY <2>1 DEF DnsTypes, ThreadType
  <2> DEFINE q == queried[i]
             from == q.server
             to == q.client.ip
             port == q.client.port
             w == <<k, 1>>
  <2>4. from \in Address /\ to \in Address /\ port \in Word
    BY <2>3, DnsAssumption DEF Questions, Word
  <2>5. w \in Seq(Byte) /\ Len(w) + 28 < Base
    <3>1. k \in Byte /\ 1 \in Byte
      BY DnsAssumption DEF Byte
    <3>2. w \in Seq(Byte) /\ Len(w) = 2
      BY <3>1
    <3>3. 2 + 28 < Base
      BY SMT DEF Base
    <3> QED BY <3>2, <3>3
  <2>6. 53 \in Word
    BY WordIsSmall
  <2>7. ReplyPacket(threads[i].packet, threads[i].answer)
          = buildUDPPacket(from, 53, to, port, w)
    BY <2>2, <2>3 DEF ReplyPacket, Parts
  <2> HIDE DEF q, from, to, port, w
  <2>8. buildUDPPacket(from, 53, to, port, w) \in Seq(Byte)
    BY <2>4, <2>5, <2>6, DatagramIsBytes
  <2>9. replies' \subseteq Seq(Byte)
    BY <1>5, <2>7, <2>8 DEF Reply, DnsTypes
  <2> QED BY <2>1, <2>9, EndKeepsTypes
<1>6. CASE UNCHANGED dnsVars
  BY <1>6 DEF dnsVars, DnsTypes, ThreadType, Parts
<1> QED BY <1>1, <1>2, <1>3, <1>4, <1>5, <1>6 DEF DnsNext, ThreadStep

LEMMA DnsTypesHold == DnsTypes => DnsTypeOK
<1> SUFFICES ASSUME DnsTypes PROVE DnsTypeOK
  OBVIOUS
<1>1. ASSUME NEW t \in tor PROVE t.socket \in Ids /\ t.query \in [1..1 -> Ids]
  <2>1. t.socket \in Ids /\ t.query = <<t.socket>>
    BY DEF DnsTypes
  <2> QED BY <2>1
<1>2. ASSUME NEW r \in replies, NEW n \in 1..Len(r) PROVE r[n] \in Byte
  <2>1. r \in Seq(Byte)
    BY DEF DnsTypes
  <2> QED BY <2>1, ElementOfSeq
<1> QED BY <1>1, <1>2 DEF DnsTypes, DnsTypeOK, ThreadType

LEMMA SegTypesHold == SegInv => SegTypeOK
<1> SUFFICES ASSUME SegInv PROVE SegTypeOK
  OBVIOUS
<1>1. /\ vpn_seq \in Half /\ client_seq \in Half /\ payload \in Seq(Byte)
      /\ offset \in Nat /\ offset <= Len(payload) /\ count \in Nat /\ count <= MaxCount
      /\ wire \in Seq(Seq(Byte))
      /\ written \in Seq(Byte) /\ reached \in Nat /\ reached <= Len(written)
  BY SegParts
<1>2. {vpn_seq, client_seq} \subseteq (0..Base - 1) \X (0..Base - 1)
  BY <1>1 DEF Half, Word
<1>3. offset \in 0..Len(payload) /\ reached \in 0..Len(written)
  BY <1>1
<1>4. ASSUME NEW i \in 1..Len(wire), NEW j \in 1..Len(wire[i]) PROVE wire[i][j] \in Byte
  <2>1. wire[i] \in Seq(Byte)
    BY <1>1, ElementOfSeq
  <2> QED BY <2>1, ElementOfSeq
<1>5. count \in 0..MaxCount
  <2>1. MaxCount \in Nat
    BY SegAssumption
  <2> QED BY <1>1, <2>1
<1> QED BY <1>2, <1>3, <1>4, <1>5 DEF SegTypeOK

(* The parts side by side: each takes its own steps while the others rest. *)
LEMMA StreamPart == Spec => []SegInv
<1>1. Init => SegInv
  BY SegInvInit DEF Init
<1>2. SegInv /\ [Next]_relayVars => SegInv'
  <2> SUFFICES ASSUME [Next]_relayVars PROVE [SegNext]_segVars
    BY SegInvStep
  <2> QED BY DEF Next, relayVars, Stream, Queries, Socks, Adapter
<1> QED BY <1>1, <1>2, PTL DEF Spec

LEMMA QueriesPart == Spec => []DnsTypes
<1>1. Init => DnsTypes
  BY DnsTypesInit DEF Init
<1>2. DnsTypes /\ [Next]_relayVars => DnsTypes'
  <2> SUFFICES ASSUME [Next]_relayVars PROVE [DnsNext]_dnsVars
    BY DnsTypesStep
  <2> QED BY DEF Next, relayVars, Stream, Queries, Socks, Adapter
<1> QED BY <1>1, <1>2, PTL DEF Spec

LEMMA SocksPart == Spec => []SocksInv
<1>1. Init => SocksInv
  BY SocksInvInit DEF Init
<1>2. SocksInv /\ [Next]_relayVars => SocksInv'
  <2> SUFFICES ASSUME [Next]_relayVars PROVE [S5Next]_s5Vars
    BY SocksInvStep
  <2> QED BY DEF Next, relayVars, Stream, Queries, Socks, Adapter
<1> QED BY <1>1, <1>2, PTL DEF Spec

LEMMA AdapterPart == Spec => []WintunInv
<1>1. Init => WintunInv
  BY WintunInvInit DEF Init
<1>2. WintunInv /\ [Next]_relayVars => WintunInv'
  <2> SUFFICES ASSUME [Next]_relayVars PROVE [WtNext]_wtVars
    BY WintunInvStep
  <2> QED BY DEF Next, relayVars, Stream, Queries, Socks, Adapter
<1> QED BY <1>1, <1>2, PTL DEF Spec

(* The variables of a stream, of the DNS queries, of a SOCKS connection    *)
(* and of the adapter keep their types, whatever fails, and every packet   *)
(* put on the wire or injected is one of bytes                             *)
(* (packet_processor.cpp:41-151,258-282).                                  *)
THEOREM RelayTypeCorrect == Spec => []RelayTypeOK
<1>1. SegInv /\ DnsTypes /\ SocksInv /\ WintunInv => RelayTypeOK
  BY SegTypesHold, DnsTypesHold DEF SocksInv, WintunInv, RelayTypeOK
<1> QED BY <1>1, StreamPart, QueriesPart, SocksPart, AdapterPart, PTL
=============================================================================
