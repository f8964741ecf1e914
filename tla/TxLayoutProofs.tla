--------------------------- MODULE TxLayoutProofs ---------------------------
(***************************************************************************)
(* extract_blockhash finds the blockhash of every transaction, with any    *)
(* number of signatures and accounts, and nothing in a text that ends      *)
(* before it does.                                                         *)
(***************************************************************************)
EXTENDS TxLayout, TLAPS

LEMMA Numbers ==
  /\ Block \in Nat /\ 128 < Block
  /\ MaxU16 \in Nat /\ MaxU16 = 4 * Block - 1 /\ Block = 128 * 128
BY SMT DEF Block, MaxU16

LEMMA Quotients ==
  ASSUME NEW n \in Nat
  PROVE  /\ n % 128 \in 0..127 /\ n \div 128 \in Nat
         /\ n = (n % 128) + 128 * (n \div 128)
         /\ n < Block => n \div 128 \in 0..127
         /\ n \div Block = (n \div 128) \div 128
         /\ n <= MaxU16 => n \div Block \in 0..3
<1>1. n % 128 \in 0..127 /\ n \div 128 \in Nat /\ n = (n % 128) + 128 * (n \div 128)
  BY SMT
<1>2. n < Block => n \div 128 \in 0..127
  BY <1>1, Numbers, SMT
<1>3. n \div Block = (n \div 128) \div 128
  BY SMT DEF Block
<1>4. n <= MaxU16 => n \div Block \in 0..3
  BY SMT DEF Block, MaxU16
<1> QED BY <1>1, <1>2, <1>3, <1>4

(* The bytes of a shortvec, and what they are worth. *)
LEMMA ShortvecBytes ==
  ASSUME NEW n \in 0..MaxU16
  PROVE  /\ SizeOf(n) \in 1..3
         /\ \A i \in 0..(SizeOf(n) - 2) : ShortvecByte(n, i) \in 128..255
         /\ ShortvecByte(n, SizeOf(n) - 1) \in 0..127
<1> DEFINE q == n \div 128
           k == n \div Block
<1>1. /\ n \in Nat /\ n % 128 \in 0..127 /\ q \in Nat /\ q % 128 \in 0..127
      /\ n < Block => q \in 0..127
      /\ k \in 0..3
  <2>1. n \in Nat /\ n <= MaxU16
    BY Numbers
  <2>2. n % 128 \in 0..127 /\ q \in Nat /\ (n < Block => q \in 0..127) /\ k \in 0..3
    BY <2>1, Quotients
  <2>3. q % 128 \in 0..127
    BY <2>2, Quotients
  <2> QED BY <2>1, <2>2, <2>3
<1>2. 128 < Block /\ Block \in Nat
  BY Numbers
<1>3. CASE n < 128
  <2>1. SizeOf(n) = 1 /\ ShortvecByte(n, 0) = n
    BY <1>3 DEF SizeOf, ShortvecByte
  <2> QED BY <1>1, <1>3, <2>1
<1>4. CASE ~(n < 128) /\ n < Block
  <2>1. SizeOf(n) = 2 /\ ShortvecByte(n, 0) = 128 + (n % 128) /\ ShortvecByte(n, 1) = q
    BY <1>4 DEF SizeOf, ShortvecByte
  <2> HIDE DEF q
  <2> QED BY <1>1, <1>4, <2>1
<1>5. CASE ~(n < 128) /\ ~(n < Block)
  <2>1. /\ SizeOf(n) = 3 /\ ShortvecByte(n, 0) = 128 + (n % 128)
        /\ ShortvecByte(n, 1) = 128 + (q % 128) /\ ShortvecByte(n, 2) = k
    BY <1>5 DEF SizeOf, ShortvecByte
  <2> HIDE DEF q, k
  <2> QED BY <1>1, <2>1
<1>6. ~(n < 128) => (n < Block \/ ~(n < Block))
  OBVIOUS
<1> QED
  BY <1>3, <1>4, <1>5, <1>6

(* b holds n at a position. *)
Holds(b, at, n) == \A i \in 0..(SizeOf(n) - 1) : b[at + i] = ShortvecByte(n, i)

LEMMA ItsSize ==
  ASSUME NEW b, NEW len \in Nat, NEW at \in Nat, NEW n \in 0..MaxU16, Holds(b, at, n)
  PROVE  Sizes(b, len, at) = IF at + SizeOf(n) <= len THEN {SizeOf(n)} ELSE {}
<1> DEFINE z == SizeOf(n)
           y(i) == ShortvecByte(n, i)
<1>1. /\ z \in 1..3
      /\ \A i \in 0..(z - 1) : b[at + i] = y(i)
      /\ \A i \in 0..(z - 2) : y(i) \in 128..255
      /\ y(z - 1) \in 0..127
  BY ShortvecBytes DEF Holds
<1> HIDE DEF z, y
<1>2. ASSUME NEW i \in 0..(z - 2) PROVE b[at + i] \in 128..255
  <2>1. i \in 0..(z - 1)
    BY <1>1
  <2> QED BY <2>1, <1>1
<1>3. b[at + z - 1] \in 0..127
  <2>1. z - 1 \in 0..(z - 1) /\ at + (z - 1) = at + z - 1
    BY <1>1
  <2>2. b[at + (z - 1)] = y(z - 1)
    BY <1>1, <2>1
  <2> QED BY <1>1, <2>1, <2>2
<1>4. ASSUME NEW m \in 1..3, m < z PROVE ~(b[at + m - 1] < 128)
  <2>1. m - 1 \in 0..(z - 2) /\ at + (m - 1) = at + m - 1
    BY <1>1, <1>4
  <2> QED BY <2>1, <1>2
<1>5. ASSUME NEW m \in 1..3, z < m PROVE \E i \in 1..(m - 1) : ~(b[at + i - 1] >= 128)
  <2>1. z \in 1..(m - 1)
    BY <1>1, <1>5
  <2> QED BY <2>1, <1>3
<1>6. \A i \in 1..(z - 1) : b[at + i - 1] >= 128
  <2>1. ASSUME NEW i \in 1..(z - 1) PROVE b[at + i - 1] >= 128
    <3>1. i - 1 \in 0..(z - 2) /\ at + (i - 1) = at + i - 1
      BY <1>1
    <3> QED BY <3>1, <1>2
  <2> QED BY <2>1
<1>7. ASSUME NEW m \in 1..3
      PROVE  m \in Sizes(b, len, at) <=> m = z /\ at + z <= len
  <2>1. CASE m = z
    BY <2>1, <1>3, <1>6 DEF Sizes
  <2>2. CASE m # z
    BY <2>2, <1>1, <1>4, <1>5 DEF Sizes
  <2> QED BY <2>1, <2>2
<1>8. Sizes(b, len, at) \subseteq 1..3
  BY DEF Sizes
<1> QED
  BY <1>1, <1>7, <1>8 DEF z

LEMMA ItsValue ==
  ASSUME NEW b, NEW at \in Nat, NEW n \in 0..MaxU16, Holds(b, at, n)
  PROVE  Value(b, at, SizeOf(n)) = n
<1> DEFINE q == n \div 128
           k == n \div Block
<1>1. /\ n \in Nat /\ n % 128 \in 0..127 /\ q \in Nat /\ q % 128 \in 0..127
      /\ n = (n % 128) + 128 * q
      /\ n < Block => q \in 0..127
      /\ k \in 0..3 /\ q = (q % 128) + 128 * k
  <2>1. n \in Nat /\ n <= MaxU16
    BY Numbers
  <2>2. /\ n % 128 \in 0..127 /\ q \in Nat /\ (n < Block => q \in 0..127) /\ k \in 0..3
        /\ n = (n % 128) + 128 * q /\ k = q \div 128
    BY <2>1, Quotients
  <2>3. q % 128 \in 0..127 /\ q = (q % 128) + 128 * (q \div 128)
    BY <2>2, Quotients
  <2> QED BY <2>1, <2>2, <2>3
<1>2. at + 0 = at
  OBVIOUS
<1>3. CASE n < 128
  <2>1. b[at] = n
    BY <1>2, <1>3 DEF Holds, SizeOf, ShortvecByte
  <2>2. Value(b, at, SizeOf(n)) = (b[at] % 128) + 0 + 0
    BY <1>3 DEF Value, SizeOf
  <2> HIDE DEF q, k
  <2>3. n % 128 = n
    BY <1>1, <1>3
  <2> QED BY <1>1, <2>1, <2>2, <2>3
<1>4. CASE ~(n < 128) /\ n < Block
  <2>1. SizeOf(n) = 2 /\ ShortvecByte(n, 0) = 128 + (n % 128) /\ ShortvecByte(n, 1) = q
    BY <1>4 DEF SizeOf, ShortvecByte
  <2>2. b[at + 0] = 128 + (n % 128) /\ b[at + 1] = q
    BY <2>1 DEF Holds
  <2>3. Value(b, at, SizeOf(n)) = (b[at] % 128) + 128 * (b[at + 1] % 128) + 0
    BY <2>1 DEF Value
  <2> HIDE DEF q, k
  <2>4. (128 + (n % 128)) % 128 = n % 128 /\ q % 128 = q
    BY <1>1, <1>4
  <2> QED BY <1>1, <1>2, <2>2, <2>3, <2>4
<1>5. CASE ~(n < 128) /\ ~(n < Block)
  <2>1. /\ SizeOf(n) = 3 /\ ShortvecByte(n, 0) = 128 + (n % 128)
        /\ ShortvecByte(n, 1) = 128 + (q % 128) /\ ShortvecByte(n, 2) = k
    BY <1>5 DEF SizeOf, ShortvecByte
  <2>2. b[at + 0] = 128 + (n % 128) /\ b[at + 1] = 128 + (q % 128) /\ b[at + 2] = k
    BY <2>1 DEF Holds
  <2>3. Value(b, at, SizeOf(n)) = (b[at] % 128) + 128 * (b[at + 1] % 128) + Block * (b[at + 2] % 128)
    BY <2>1 DEF Value
  <2>4. (128 + (n % 128)) % 128 = n % 128
    BY <1>1
  <2> HIDE DEF q, k
  <2>5. (128 + (q % 128)) % 128 = q % 128 /\ k % 128 = k
    BY <1>1
  <2>6. Value(b, at, SizeOf(n)) = (n % 128) + 128 * (q % 128) + Block * k
    BY <1>2, <2>2, <2>3, <2>4, <2>5
  <2>7. 128 * q = 128 * (q % 128) + Block * k
    BY <1>1, Numbers
  <2> QED BY <1>1, <2>6, <2>7, Numbers
<1> QED
  BY <1>3, <1>4, <1>5

(* read_shortvec is right, or finds that the text is too short. *)
LEMMA ShortvecRead ==
  ASSUME NEW b, NEW len \in Nat, NEW at \in Nat, NEW n \in 0..MaxU16, Holds(b, at, n)
  PROVE  ReadShortvec(b, len, at) =
           IF at + SizeOf(n) <= len THEN {[value |-> n, size |-> SizeOf(n)]} ELSE {}
<1>1. CASE at + SizeOf(n) <= len
  <2>1. {m \in Sizes(b, len, at) : Value(b, at, m) <= MaxU16} = {SizeOf(n)}
    BY <1>1, ItsSize, ItsValue
  <2> QED BY <1>1, <2>1, ItsValue DEF ReadShortvec
<1>2. CASE ~(at + SizeOf(n) <= len)
  <2>1. Sizes(b, len, at) = {}
    BY <1>2, ItsSize
  <2> QED BY <1>2, <2>1 DEF ReadShortvec
<1> QED
  BY <1>1, <1>2

(* Where the parts of a transaction are, and what is there. *)
LEMMA Parts ==
  ASSUME NEW x \in Layouts
  PROVE  /\ x.sigs \in 0..MaxU16 /\ x.accounts \in 0..MaxU16
         /\ MessageAt(x) \in Nat /\ AccountsAt(x) \in Nat /\ BlockhashAt(x) \in Nat
         /\ MessageAt(x) < AccountsAt(x) /\ AccountsAt(x) + SizeOf(x.accounts) <= BlockhashAt(x)
         /\ Holds(Serialized(x), 0, x.sigs)
         /\ Holds(Serialized(x), AccountsAt(x), x.accounts)
         /\ PastHeader(Serialized(x), MessageAt(x)) = AccountsAt(x)
<1> DEFINE b == Serialized(x)
           p == MessageAt(x)
           q == AccountsAt(x)
<1>1. x.sigs \in 1..127 /\ x.accounts \in 1..MaxU16 /\ x.versioned \in BOOLEAN
  BY DEF Layouts
<1>2. SizeOf(x.sigs) = 1 /\ SizeOf(x.accounts) \in 1..3
  BY <1>1, ShortvecBytes DEF SizeOf
<1>3. p \in Nat /\ 1 <= p /\ p = 1 + 64 * x.sigs
  BY <1>1, <1>2 DEF MessageAt, SigBytes
<1>4. q \in Nat /\ q = p + (IF x.versioned THEN 1 ELSE 0) + 3 /\ p < q
  BY <1>1, <1>3 DEF AccountsAt
<1>5. BlockhashAt(x) \in Nat /\ q + SizeOf(x.accounts) <= BlockhashAt(x)
  BY <1>1, <1>2, <1>4 DEF BlockhashAt, KeyBytes
<1> HIDE DEF p, q
<1>6. ASSUME NEW i \in Nat
      PROVE  b[i] = IF i < 1 THEN ShortvecByte(x.sigs, i)
                    ELSE IF i = p THEN IF x.versioned THEN 128 ELSE x.sigs
                    ELSE IF i \in q..(q + SizeOf(x.accounts) - 1) THEN ShortvecByte(x.accounts, i - q)
                    ELSE 255
  BY <1>2 DEF Serialized, p, q
<1> HIDE DEF b
<1>7. Holds(b, 0, x.sigs)
  BY <1>2, <1>6 DEF Holds
<1>8. Holds(b, q, x.accounts)
  <2>1. ASSUME NEW i \in 0..(SizeOf(x.accounts) - 1) PROVE b[q + i] = ShortvecByte(x.accounts, i)
    <3>1. /\ q + i \in Nat /\ ~(q + i < 1) /\ q + i # p
          /\ q + i \in q..(q + SizeOf(x.accounts) - 1) /\ (q + i) - q = i
      BY <1>2, <1>3, <1>4
    <3> QED BY <3>1, <1>6
  <2> QED BY <2>1 DEF Holds
<1>9. PastHeader(b, p) = q
  <2>1. b[p] = IF x.versioned THEN 128 ELSE x.sigs
    BY <1>3, <1>6
  <2> QED BY <2>1, <1>1, <1>3, <1>4 DEF PastHeader
<1>10. x.sigs \in 0..MaxU16 /\ x.accounts \in 0..MaxU16
  <2>1. MaxU16 \in Nat /\ 127 <= MaxU16
    BY SMT DEF Block, MaxU16
  <2>2. ASSUME NEW n \in 1..127 PROVE n \in 0..MaxU16
    BY <2>1
  <2>3. ASSUME NEW n \in 1..MaxU16 PROVE n \in 0..MaxU16
    BY <2>1
  <2> QED BY <1>1, <2>2, <2>3
<1> QED
  BY <1>3, <1>4, <1>5, <1>7, <1>8, <1>9, <1>10 DEF b, p, q

(* extract_blockhash (solana.rs:77): of a transaction with any number of   *)
(* signatures and accounts, versioned or not, it takes exactly the         *)
(* blockhash if the text reaches that far, and nothing if it does not.     *)
THEOREM ExtractsTheBlockhash ==
  ASSUME NEW x \in Layouts, NEW len \in Nat
  PROVE  Extracted(Serialized(x), len) =
           IF Ends(x) <= len THEN {BlockhashAt(x)} ELSE {}
<1> DEFINE b == Serialized(x)
           p == MessageAt(x)
           q == AccountsAt(x)
           first == [value |-> x.sigs, size |-> SizeOf(x.sigs)]
           second == [value |-> x.accounts, size |-> SizeOf(x.accounts)]
           Heads == {s \in ReadShortvec(b, len, 0) : s.size + SigBytes * s.value < len}
           After(s) == {PastHeader(b, s.size + SigBytes * s.value) + k.size + KeyBytes * k.value :
                          k \in ReadShortvec(b, len, PastHeader(b, s.size + SigBytes * s.value))}
<1>1. /\ x.sigs \in 0..MaxU16 /\ x.accounts \in 0..MaxU16
      /\ p \in Nat /\ q \in Nat /\ BlockhashAt(x) \in Nat
      /\ p < q /\ q + SizeOf(x.accounts) <= BlockhashAt(x)
      /\ Holds(b, 0, x.sigs) /\ Holds(b, q, x.accounts) /\ PastHeader(b, p) = q
  BY Parts
<1>2. SizeOf(x.sigs) \in 1..3 /\ SizeOf(x.accounts) \in 1..3
  BY <1>1, ShortvecBytes
<1>3. /\ first.size + SigBytes * first.value = p
      /\ SizeOf(x.sigs) <= p
      /\ q + second.size + KeyBytes * second.value = BlockhashAt(x)
      /\ Ends(x) = BlockhashAt(x) + HashBytes /\ HashBytes = 32
  BY <1>1, <1>2 DEF MessageAt, BlockhashAt, Ends, HashBytes, SigBytes
<1>4. Extracted(b, len) = {o \in UNION {After(s) : s \in Heads} : o + HashBytes <= len}
  BY DEF Extracted
<1>5. ReadShortvec(b, len, 0) = IF SizeOf(x.sigs) <= len THEN {first} ELSE {}
  <2>1. ReadShortvec(b, len, 0) = IF 0 + SizeOf(x.sigs) <= len THEN {first} ELSE {}
    <3> HIDE DEF b
    <3> QED BY <1>1, ShortvecRead
  <2>2. 0 + SizeOf(x.sigs) = SizeOf(x.sigs)
    BY <1>2
  <2> QED BY <2>1, <2>2
<1>6. ReadShortvec(b, len, q) = IF q + SizeOf(x.accounts) <= len THEN {second} ELSE {}
  <2> HIDE DEF b, q
  <2> QED BY <1>1, ShortvecRead
<1> HIDE DEF b, p, q, first, second
<1>7. Heads = IF p < len THEN {first} ELSE {}
  BY <1>1, <1>2, <1>3, <1>5
<1>8. After(first) = IF q + SizeOf(x.accounts) <= len THEN {BlockhashAt(x)} ELSE {}
  BY <1>1, <1>3, <1>6
<1> HIDE DEF Heads, After
<1>9. CASE Ends(x) <= len
  <2>1. Heads = {first} /\ After(first) = {BlockhashAt(x)}
    BY <1>1, <1>2, <1>3, <1>7, <1>8, <1>9
  <2>2. UNION {After(s) : s \in Heads} = {BlockhashAt(x)}
    BY <2>1
  <2> QED BY <1>3, <1>4, <1>9, <2>2 DEF b
<1>10. CASE ~(Ends(x) <= len)
  <2>1. UNION {After(s) : s \in Heads} \subseteq {BlockhashAt(x)}
    BY <1>7, <1>8
  <2>2. ~(BlockhashAt(x) + HashBytes <= len)
    BY <1>3, <1>10
  <2> QED BY <1>4, <1>10, <2>1, <2>2 DEF b
<1> QED
  BY <1>9, <1>10

=============================================================================
