--------------------------- MODULE ArrowBuilders_proofs ---------------------------
(***************************************************************************)
(* Theorems about the builders of arrow-hpp: of the validity bits one      *)
(* gathers, and of the memory a tree of them hands over.                   *)
(***************************************************************************)
EXTENDS ArrayRelease, BitmapBuilder, SequenceTheorems, FiniteSetTheorems, TLAPS

(***************************************************************************)
(* BitmapBuilder implements a sequence of bits: for arrays of any length   *)
(* with any nulls, whenever it is reserved, shrunk and released.           *)
(***************************************************************************)
Cell == Byte \cup {Garbage}

(***************************************************************************)
(* BufferBuilder                                                           *)
(***************************************************************************)

(* realloc() keeps the bytes that fit and provides at least one.           *)
LEMMA ReallocateKeeps ==
  ASSUME NEW d \in Seq(Cell), NEW n \in Nat
  PROVE  /\ Reallocate(d, n) \in Seq(Cell)
         /\ Len(Reallocate(d, n)) = Larger(n, 1)
         /\ \A i \in 1 .. Larger(n, 1) :
              Reallocate(d, n)[i] = IF i <= Len(d) THEN d[i] ELSE Garbage
<1> DEFINE m == Larger(n, 1)
           r == [i \in 1 .. m |-> IF i <= Len(d) THEN d[i] ELSE Garbage]
<1>1. m \in Nat /\ Len(d) \in Nat
  BY LenProperties DEF Larger
<1>2. ASSUME NEW i \in 1 .. m PROVE (IF i <= Len(d) THEN d[i] ELSE Garbage) \in Cell
  BY <1>1, <1>2, ElementOfSeq DEF Cell
<1>3. r \in [1 .. m -> Cell]
  BY <1>2
<1>4. r \in Seq(Cell) /\ Len(r) = m
  BY <1>1, <1>3
<1>5. Reallocate(d, n) = r
  BY DEF Reallocate
<1> HIDE DEF r
<1>6. QED
  BY <1>4, <1>5 DEF Reallocate

(* reserve() keeps every byte and makes room.                              *)
LEMMA ReserveKeeps ==
  ASSUME NEW d \in Seq(Cell), NEW n \in Nat, NEW additional \in Nat
  PROVE  /\ Reserve(d, n, additional) \in Seq(Cell)
         /\ Len(Reserve(d, n, additional)) \in Nat
         /\ Len(Reserve(d, n, additional)) >= Len(d)
         /\ Len(Reserve(d, n, additional)) >= n + additional
         /\ \A i \in 1 .. Len(d) : Reserve(d, n, additional)[i] = d[i]
<1> DEFINE m == Larger(2 * Len(d) + 1, n + additional)
<1>1. Len(d) \in Nat /\ m \in Nat /\ m >= Len(d) /\ m >= n + additional /\ m >= 1
  BY LenProperties DEF Larger
<1>2. CASE n + additional > Len(d)
  <2>1. Reserve(d, n, additional) = Reallocate(d, m)
    BY <1>2 DEF Reserve
  <2>2. Larger(m, 1) = m
    BY <1>1 DEF Larger
  <2> HIDE DEF m
  <2>3. /\ Reallocate(d, m) \in Seq(Cell)
        /\ Len(Reallocate(d, m)) = m
        /\ \A i \in 1 .. m : Reallocate(d, m)[i] = IF i <= Len(d) THEN d[i] ELSE Garbage
    BY <1>1, <2>2, ReallocateKeeps
  <2>4. QED
    BY <1>1, <2>1, <2>3
<1>3. CASE ~(n + additional > Len(d))
  BY <1>1, <1>3 DEF Reserve
<1>4. QED
  BY <1>2, <1>3

(* trigger_alloc(): every byte is 0xff, and there is one for every bit.    *)
LEMMA FilledIsFull ==
  ASSUME data \in Seq(Cell), used = 0, NEW n \in Nat, n % 8 = 0, n > 0
  PROVE  /\ Filled(n) \in Seq(Cell)
         /\ Len(Filled(n)) = n \div 8
         /\ \A i \in 1 .. (n \div 8) : Filled(n)[i] = Full
<1> DEFINE d == Reallocate(data, BytesFor(n))
           m == n \div 8
<1>1. m \in Nat /\ m >= 1 /\ BytesFor(n) = m /\ Larger(m, 1) = m
  BY DEF BytesFor, Larger
<1>2. d \in Seq(Cell) /\ Len(d) = m
  BY <1>1, ReallocateKeeps
<1>3. Filled(n) = [i \in 1 .. m |-> IF i > 0 THEN Full ELSE d[i]]
  BY <1>2 DEF Filled
<1> HIDE DEF d, m
<1>4. [i \in 1 .. m |-> IF i > 0 THEN Full ELSE d[i]] = [i \in 1 .. m |-> Full]
  OBVIOUS
<1>5. Full \in Cell
  BY DEF Full, Cell, Byte
<1>6. [i \in 1 .. m |-> Full] \in Seq(Cell) /\ Len([i \in 1 .. m |-> Full]) = m
  BY <1>1, <1>5
<1>7. QED
  BY <1>3, <1>4, <1>6 DEF m

(***************************************************************************)
(* The invariant: buffer_ holds the bits beyond the last full byte, the    *)
(* full bytes are stored once memory is allocated, which happens only when *)
(* there is a null; null_count_ counts the nulls.                          *)
(***************************************************************************)
Layout ==
  /\ TypeOK
  /\ StoredBytesWritten
  /\ bufferSize = size % 8
  /\ buffer \subseteq 0 .. bufferSize - 1
  /\ used = IF allocated THEN size \div 8 ELSE 0
  /\ size >= length
  /\ ~released => size = length

NullsKnown ==
  /\ nullCount = Cardinality(Nulls)
  /\ allocated => Nulls # {}

BitmapInv == Layout /\ NullsKnown /\ ReleasedBitmap

(* Positions in bytes.                                                     *)
LEMMA DivMod ==
  ASSUME NEW n \in Nat
  PROVE  n \div 8 \in Nat /\ n % 8 \in 0 .. 7 /\ n = 8 * (n \div 8) + (n % 8)
OBVIOUS

(* The bits before a whole number of bytes lie in earlier bytes.           *)
LEMMA DivBelow ==
  ASSUME NEW n \in Nat, NEW i \in Nat, i < n
  PROVE  i \div 8 <= n \div 8 /\ (n % 8 = 0 => i \div 8 < n \div 8)
         /\ (i \div 8 = n \div 8 => i % 8 < n % 8)
BY DivMod

(* A byte that is flushed is stored behind the bytes flushed before it,    *)
(* which are 0xff if they were skipped so far.                             *)
LEMMA FlushStores ==
  ASSUME Layout, NEW byte \in Byte, NEW n \in Nat,
         n % 8 = 0, n \div 8 = size \div 8 + 1, Flush(byte, n)
  PROVE  /\ data' \in Seq(Cell)
         /\ used' = n \div 8 /\ used' \in 0 .. Len(data')
         /\ allocated' = TRUE
         /\ data'[size \div 8 + 1] = byte
         /\ \A k \in 1 .. (size \div 8) : data'[k] = IF allocated THEN data[k] ELSE Full
         /\ StoredBytesWritten'
<1> DEFINE d == IF allocated THEN data ELSE Filled(n)
           u == IF allocated THEN used ELSE Advanced(n)
           r == Reserve(d, u, 1)
<1>1. size \in Nat /\ size \div 8 \in Nat /\ n > 0 /\ used \in Nat /\ data \in Seq(Cell)
  BY DEF Layout, TypeOK, Cell
<1>2. u = size \div 8 /\ u \in Nat
  <2>1. CASE allocated
    BY <2>1, <1>1 DEF Layout
  <2>2. CASE ~allocated
    <3>1. used = 0 /\ (n - 1) \div 8 = size \div 8
      BY <2>2, <1>1 DEF Layout
    <3>2. QED
      BY <2>2, <3>1, <1>1 DEF Advanced
  <2>3. QED
    BY <2>1, <2>2
<1>3. /\ d \in Seq(Cell) /\ Len(d) \in Nat
      /\ u <= Len(d)
      /\ \A k \in 1 .. u : d[k] = IF allocated THEN data[k] ELSE Full
  <2>1. CASE allocated
    BY <2>1, <1>1, <1>2, LenProperties DEF Layout, TypeOK
  <2>2. CASE ~allocated
    <3>1. /\ Filled(n) \in Seq(Cell) /\ Len(Filled(n)) = n \div 8
          /\ \A i \in 1 .. (n \div 8) : Filled(n)[i] = Full
      BY <2>2, <1>1, FilledIsFull DEF Layout
    <3>2. QED
      BY <2>2, <3>1, <1>1, <1>2
  <2>3. QED
    BY <2>1, <2>2
<1> HIDE DEF d, u
<1>4. /\ r \in Seq(Cell) /\ Len(r) \in Nat /\ Len(r) >= u + 1 /\ Len(r) >= Len(d)
      /\ \A i \in 1 .. Len(d) : r[i] = d[i]
  BY <1>2, <1>3, ReserveKeeps
<1> HIDE DEF r
<1>5. data' = [r EXCEPT ![u + 1] = byte] /\ used' = u + 1 /\ allocated' = TRUE
  BY DEF Flush, d, u, r
<1>6. byte \in Cell
  BY DEF Cell
<1>7. /\ data' \in Seq(Cell) /\ Len(data') = Len(r) /\ data'[u + 1] = byte
      /\ \A i \in 1 .. Len(r) : i # u + 1 => data'[i] = r[i]
  BY <1>2, <1>4, <1>5, <1>6, ExceptSeq, LenProperties
<1>8. \A k \in 1 .. (size \div 8) : data'[k] = IF allocated THEN data[k] ELSE Full
  BY <1>1, <1>2, <1>3, <1>4, <1>7
<1>9. StoredBytesWritten'
  <2> SUFFICES ASSUME NEW i \in 1 .. used' PROVE data'[i] \in Byte
    BY DEF StoredBytesWritten
  <2>1. CASE i = u + 1
    BY <2>1, <1>7
  <2>2. CASE i # u + 1
    <3>1. i \in 1 .. (size \div 8) /\ (allocated => i \in 1 .. used)
      BY <2>2, <1>1, <1>2, <1>5 DEF Layout
    <3>2. Full \in Byte
      BY DEF Full, Byte
    <3>3. QED
      BY <3>1, <3>2, <1>8 DEF Layout, StoredBytesWritten
  <2>3. QED
    BY <2>1, <2>2
<1>10. QED
  BY <1>1, <1>2, <1>4, <1>5, <1>7, <1>8, <1>9

(* Flushing the byte in buffer_, whatever bits were added to it, changes   *)
(* no bit that was there.                                                  *)
LEMMA FlushKeepsBits ==
  ASSUME Layout, NEW byte \in Byte, size' \in Nat,
         size' % 8 = 0, size' \div 8 = size \div 8 + 1, Flush(byte, size'),
         NEW i \in Nat, i < size',
         i < size /\ i \div 8 = size \div 8 => (i % 8 \in byte <=> i % 8 \in buffer)
  PROVE  /\ i \div 8 < size' \div 8 /\ allocated'
         /\ i < size => (BitAt(i)' <=> BitAt(i))
         /\ i \div 8 = size \div 8 => (BitAt(i)' <=> i % 8 \in byte)
         /\ BitAt(i)' <=> i % 8 \in data'[i \div 8 + 1]
<1>1. /\ size \in Nat /\ size \div 8 \in Nat
      /\ i \div 8 \in Nat /\ i % 8 \in 0 .. 7 /\ i \div 8 < size' \div 8
  <2>1. size \in Nat
    BY DEF Layout, TypeOK
  <2>2. QED
    BY <2>1, DivMod, DivBelow
<1>2. /\ allocated'
      /\ data'[size \div 8 + 1] = byte
      /\ \A k \in 1 .. (size \div 8) : data'[k] = IF allocated THEN data[k] ELSE Full
  BY FlushStores
<1>3. BitAt(i)' <=> i % 8 \in data'[i \div 8 + 1]
  BY <1>1, <1>2 DEF BitAt
<1>4. CASE i \div 8 = size \div 8
  <2>1. BitAt(i)' <=> i % 8 \in byte
    BY <1>2, <1>3, <1>4
  <2>2. BitAt(i) <=> i % 8 \in buffer
    BY <1>1, <1>4 DEF BitAt
  <2>3. QED
    BY <1>1, <1>2, <1>3, <1>4, <2>1, <2>2
<1>5. CASE i \div 8 # size \div 8
  <2>1. i \div 8 + 1 \in 1 .. (size \div 8) /\ i \div 8 < size \div 8
    <3> DEFINE q == i \div 8
               k == size \div 8
    <3>1. q \in Nat /\ k \in Nat /\ q < k + 1 /\ q # k
      BY <1>1, <1>5
    <3> HIDE DEF q, k
    <3>2. q + 1 \in 1 .. k /\ q < k
      BY <3>1
    <3>3. QED
      BY <3>2 DEF q, k
  <2>2. BitAt(i) <=> (allocated => i % 8 \in data[i \div 8 + 1])
    BY <2>1 DEF BitAt
  <2>3. data'[i \div 8 + 1] = IF allocated THEN data[i \div 8 + 1] ELSE Full
    BY <1>2, <2>1
  <2>4. i % 8 \in data'[i \div 8 + 1] <=> (allocated => i % 8 \in data[i \div 8 + 1])
    <3>1. CASE allocated
      BY <3>1, <2>3
    <3>2. CASE ~allocated
      BY <3>2, <2>3, <1>1 DEF Full
    <3>3. QED
      BY <3>1, <3>2
  <2>5. QED
    BY <1>1, <1>2, <1>3, <1>5, <2>2, <2>4
<1>6. QED
  BY <1>4, <1>5

(* write_element(value) keeps the layout, adds the bit `value` and changes *)
(* no other.                                                               *)
LEMMA WriteElementBits ==
  ASSUME Layout, NEW value \in BOOLEAN, WriteElement(value)
  PROVE  /\ Layout'
         /\ \A i \in 0 .. length : BitAt(i)' <=> IF i = length THEN value ELSE BitAt(i)
<1> DEFINE byte == IF value THEN buffer \cup {bufferSize} ELSE buffer
<1>1. /\ size \in Nat /\ length = size /\ size' = size + 1 /\ length' = length + 1
      /\ bufferSize = size % 8 /\ bufferSize \in 0 .. 7 /\ buffer \subseteq 0 .. bufferSize - 1
      /\ nullCount' \in Nat /\ released' = FALSE /\ ~released
  BY DEF Layout, TypeOK, WriteElement
<1>2. byte \in Byte /\ byte \subseteq 0 .. bufferSize
  BY <1>1 DEF Byte
<1>3. bufferSize \in byte <=> value
  BY <1>1
<1>4. \A i \in 0 .. size - 1 :
         i \div 8 = size \div 8 => i % 8 # bufferSize /\ (i % 8 \in byte <=> i % 8 \in buffer)
  <2>1. \A i \in 0 .. size - 1 : i \div 8 = size \div 8 => i % 8 # bufferSize
    BY <1>1
  <2>2. QED
    BY <2>1
<1> HIDE DEF byte
<1>5. CASE bufferSize < 7
  <2>1. buffer' = byte /\ bufferSize' = bufferSize + 1 /\ UNCHANGED memory
    BY <1>1, <1>5 DEF WriteElement, byte
  <2>2. size' \div 8 = size \div 8 /\ bufferSize' = size' % 8
    BY <1>1, <1>5, <2>1
  <2>3. Layout'
    <3>1. TypeOK'
      <4>1. allocated' \in BOOLEAN /\ released' \in BOOLEAN
        BY <1>1, <2>1, Zenon DEF Layout, TypeOK, memory
      <4>2. bufferSize' \in 0 .. 7 /\ size' \in Nat /\ length' \in Nat /\ buffer' \in Byte
        BY <1>1, <1>2, <1>5, <2>1
      <4>3. QED
        BY <1>1, <2>1, <4>1, <4>2 DEF Layout, TypeOK, memory
    <3>2. used' = IF allocated' THEN size' \div 8 ELSE 0
      BY <2>1, <2>2 DEF Layout, memory
    <3>3. buffer' \subseteq 0 .. bufferSize' - 1
      BY <1>1, <1>2, <2>1
    <3>4. QED
      BY <1>1, <2>1, <2>2, <3>1, <3>2, <3>3 DEF Layout, StoredBytesWritten, memory
  <2>4. ASSUME NEW i \in 0 .. size - 1 PROVE BitAt(i)' <=> BitAt(i)
    <3>1. CASE i \div 8 < size \div 8
      BY <3>1, <2>1, <2>2 DEF BitAt, memory
    <3>2. CASE ~(i \div 8 < size \div 8)
      <4>1. i \div 8 = size \div 8
        BY <3>2, <1>1
      <4>2. QED
        BY <3>2, <4>1, <1>4, <2>1, <2>2 DEF BitAt
    <3>3. QED
      BY <3>1, <3>2
  <2>5. ASSUME NEW i, i = size PROVE BitAt(i)' <=> value
    <3>1. ~(i \div 8 < size' \div 8)
      BY <1>1, <2>2, <2>5
    <3>2. BitAt(i)' <=> i % 8 \in buffer'
      BY <3>1 DEF BitAt
    <3>3. QED
      BY <1>1, <1>3, <2>1, <2>5, <3>2
  <2>6. QED
    BY <1>1, <2>3, <2>4, <2>5
<1>6. CASE bufferSize = 7 /\ byte = Full /\ ~allocated
  <2>1. buffer' = {} /\ bufferSize' = 0 /\ UNCHANGED memory
    BY <1>1, <1>6 DEF WriteElement, byte
  <2>2. size' \div 8 = size \div 8 + 1 /\ bufferSize' = size' % 8
    BY <1>1, <1>6, <2>1
  <2>3. Layout'
    <3>1. TypeOK'
      <4>1. allocated' \in BOOLEAN /\ released' \in BOOLEAN
        BY <1>1, <2>1, Zenon DEF Layout, TypeOK, memory
      <4>2. bufferSize' \in 0 .. 7 /\ size' \in Nat /\ length' \in Nat /\ buffer' \in Byte
        BY <1>1, <2>1 DEF Byte
      <4>3. QED
        BY <1>1, <2>1, <4>1, <4>2 DEF Layout, TypeOK, memory
    <3>2. used' = IF allocated' THEN size' \div 8 ELSE 0
      BY <1>6, <2>1 DEF Layout, memory
    <3>3. QED
      BY <1>1, <2>1, <2>2, <3>1, <3>2 DEF Layout, StoredBytesWritten, memory
  <2>4. ASSUME NEW i \in 0 .. size PROVE BitAt(i)'
    <3>1. i \div 8 < size' \div 8
      BY <1>1, <2>2
    <3>2. QED
      BY <3>1, <1>6, <2>1 DEF BitAt, memory
  <2>5. ASSUME NEW i \in 0 .. size - 1 PROVE BitAt(i)
    <3>1. CASE i \div 8 < size \div 8
      BY <3>1, <1>6 DEF BitAt
    <3>2. CASE ~(i \div 8 < size \div 8)
      <4>1. i \div 8 = size \div 8 /\ i % 8 \in 0 .. 7
        BY <3>2, <1>1
      <4>2. i % 8 \in buffer
        BY <4>1, <1>4, <1>6 DEF Full
      <4>3. QED
        BY <3>2, <4>2 DEF BitAt
    <3>3. QED
      BY <3>1, <3>2
  <2>6. value
    BY <1>3, <1>6 DEF Full
  <2>7. QED
    BY <1>1, <2>3, <2>4, <2>5, <2>6
<1>7. CASE bufferSize = 7 /\ ~(byte = Full /\ ~allocated)
  <2>1. buffer' = {} /\ bufferSize' = 0 /\ Flush(byte, size')
    BY <1>1, <1>7 DEF WriteElement, byte
  <2>2. size' \div 8 = size \div 8 + 1 /\ size' % 8 = 0
    BY <1>1, <1>7
  <2>3. Layout'
    <3>1. /\ data' \in Seq(Cell) /\ used' = size' \div 8 /\ used' \in 0 .. Len(data')
          /\ allocated' = TRUE /\ StoredBytesWritten'
      <4>1. size' \in Nat
        BY <1>1
      <4>2. QED
        BY <4>1, <1>2, <2>1, <2>2, FlushStores
    <3>2. TypeOK'
      <4>1. bufferSize' \in 0 .. 7 /\ size' \in Nat /\ length' \in Nat /\ buffer' \in Byte
        BY <1>1, <2>1 DEF Byte
      <4>2. allocated' \in BOOLEAN /\ released' \in BOOLEAN
        BY <1>1, <3>1
      <4>3. QED
        BY <1>1, <3>1, <4>1, <4>2 DEF TypeOK, Cell
    <3>3. QED
      BY <1>1, <2>1, <2>2, <3>1, <3>2 DEF Layout
  <2>4. ASSUME NEW i \in 0 .. size - 1 PROVE BitAt(i)' <=> BitAt(i)
    <3>1. i \in Nat /\ i < size' /\ size' \in Nat
      BY <1>1
    <3>2. i < size /\ i \div 8 = size \div 8 => (i % 8 \in byte <=> i % 8 \in buffer)
      BY <1>4
    <3>3. i < size => (BitAt(i)' <=> BitAt(i))
      BY <1>2, <2>1, <2>2, <3>1, <3>2, FlushKeepsBits
    <3>4. QED
      BY <1>1, <3>3
  <2>5. ASSUME NEW i, i = size PROVE BitAt(i)' <=> size % 8 \in byte
    <3>1. i \in Nat /\ i < size' /\ size' \in Nat /\ ~(i < size)
      BY <1>1, <2>5
    <3>2. i \div 8 = size \div 8 => (BitAt(i)' <=> i % 8 \in byte)
      BY <1>2, <2>1, <2>2, <3>1, FlushKeepsBits
    <3>3. QED
      BY <2>5, <3>2
  <2>6. QED
    BY <1>1, <1>3, <2>3, <2>4, <2>5
<1>8. QED
  BY <1>1, <1>5, <1>6, <1>7

(* A bit is a truth value, before and after a step.                        *)
LEMMA BitAtBoolean ==
  ASSUME NEW i
  PROVE  BitAt(i) \in BOOLEAN /\ BitAt(i)' \in BOOLEAN
<1>1. BitAt(i) \in BOOLEAN
  <2>1. CASE i \div 8 < size \div 8
    BY <2>1, Zenon DEF BitAt
  <2>2. CASE ~(i \div 8 < size \div 8)
    BY <2>2 DEF BitAt
  <2>3. QED
    BY <2>1, <2>2
<1>2. BitAt(i)' \in BOOLEAN
  <2>1. CASE i \div 8 < size' \div 8
    BY <2>1, Zenon DEF BitAt
  <2>2. CASE ~(i \div 8 < size' \div 8)
    BY <2>2 DEF BitAt
  <2>3. QED
    BY <2>1, <2>2
<1>3. QED
  BY <1>1, <1>2

(* The bits form a sequence of booleans as long as the array.              *)
LEMMA BitsType ==
  ASSUME length \in Nat
  PROVE  Bits \in Seq(BOOLEAN) /\ Len(Bits) = length
<1>1. ASSUME NEW i \in 1 .. length PROVE BitAt(i - 1) \in BOOLEAN
  BY BitAtBoolean
<1>2. Bits \in [1 .. length -> BOOLEAN]
  BY <1>1, Zenon DEF Bits
<1>3. QED
  BY <1>2, LenProperties DEF Bits

(* write_element(value) appends the bit to the sequence the builder stands *)
(* for.                                                                    *)
LEMMA WriteElementAppends ==
  ASSUME Layout, NEW value \in BOOLEAN, WriteElement(value)
  PROVE  Bits' = Append(Bits, value)
<1>1. length \in Nat /\ length' = length + 1
  BY DEF Layout, TypeOK, WriteElement
<1>2. Bits \in Seq(BOOLEAN) /\ Len(Bits) = length
  BY <1>1, BitsType
<1>3. Append(Bits, value) = [i \in 1 .. length + 1 |-> IF i = length + 1 THEN value ELSE Bits[i]]
  <2> DEFINE a == Append(Bits, value)
  <2>1. /\ a \in Seq(BOOLEAN) /\ Len(a) = length + 1
        /\ \A i \in 1 .. length : a[i] = Bits[i]
        /\ a[length + 1] = value
    BY <1>2, AppendProperties
  <2> HIDE DEF a
  <2>2. a \in [1 .. length + 1 -> BOOLEAN]
    BY <2>1, LenProperties
  <2>3. \A i \in 1 .. length + 1 : a[i] = IF i = length + 1 THEN value ELSE Bits[i]
    BY <1>1, <2>1
  <2>4. a = [i \in 1 .. length + 1 |-> IF i = length + 1 THEN value ELSE Bits[i]]
    BY <2>2, <2>3
  <2>5. QED
    BY <2>4 DEF a
<1>4. ASSUME NEW i \in 1 .. length + 1
      PROVE  BitAt(i - 1)' = IF i = length + 1 THEN value ELSE Bits[i]
  <2>1. i - 1 \in 0 .. length
    BY <1>1
  <2>2. BitAt(i - 1)' <=> IF i - 1 = length THEN value ELSE BitAt(i - 1)
    BY <2>1, WriteElementBits
  <2>3. i # length + 1 => Bits[i] = BitAt(i - 1)
    BY <1>1 DEF Bits
  <2>4. i - 1 = length <=> i = length + 1
    BY <1>1
  <2>5. BitAt(i - 1)' \in BOOLEAN /\ BitAt(i - 1) \in BOOLEAN
    BY BitAtBoolean
  <2>6. QED
    BY <2>2, <2>3, <2>4, <2>5, Zenon
<1>5. Bits' = [i \in 1 .. length + 1 |-> BitAt(i - 1)']
  BY <1>1 DEF Bits
<1>6. QED
  BY <1>3, <1>4, <1>5, Zenon

(* The nulls are a finite set of positions.                                *)
LEMMA NullsFinite ==
  ASSUME length \in Nat
  PROVE  IsFiniteSet(Nulls) /\ Nulls \subseteq 1 .. length
<1>1. IsFiniteSet(1 .. length)
  BY FS_Interval
<1>2. Nulls \subseteq 1 .. length
  BY DEF Nulls
<1>3. QED
  BY <1>1, <1>2, FS_Subset

(* write_element() keeps null_count_ the number of nulls, and allocates    *)
(* memory only for a byte with a null.                                     *)
LEMMA WriteElementNulls ==
  ASSUME Layout, NullsKnown, NEW value \in BOOLEAN, WriteElement(value)
  PROVE  NullsKnown'
<1>1. /\ length \in Nat /\ length' = length + 1 /\ size = length /\ size' = size + 1
      /\ nullCount' = nullCount + (IF value THEN 0 ELSE 1)
      /\ bufferSize = size % 8
  BY DEF Layout, TypeOK, WriteElement
<1>2. IsFiniteSet(Nulls) /\ Nulls \subseteq 1 .. length
  BY <1>1, NullsFinite
<1>3. Bits \in Seq(BOOLEAN) /\ Len(Bits) = length
  BY <1>1, BitsType
<1>4. /\ \A i \in 1 .. length : Bits'[i] = Bits[i]
      /\ Bits'[length + 1] = value
  BY <1>3, WriteElementAppends, AppendProperties
<1>5. Nulls' = IF value THEN Nulls ELSE Nulls \cup {length + 1}
  <2>1. Nulls' = {i \in 1 .. length + 1 : ~Bits'[i]}
    BY <1>1 DEF Nulls
  <2>2. QED
    BY <1>1, <1>4, <2>1 DEF Nulls
<1>6. nullCount' = Cardinality(Nulls')
  <2>1. length + 1 \notin Nulls
    BY <1>1, <1>2
  <2>2. Cardinality(Nulls \cup {length + 1}) = Cardinality(Nulls) + 1
    BY <1>2, <2>1, FS_AddElement
  <2>3. nullCount = Cardinality(Nulls) /\ nullCount \in Nat
    BY DEF NullsKnown, Layout, TypeOK
  <2>4. QED
    BY <1>1, <1>5, <2>2, <2>3
<1>7. ASSUME allocated' PROVE Nulls' # {}
  <2>1. CASE allocated
    BY <2>1, <1>5 DEF NullsKnown
  <2>2. CASE ~allocated
    <3> DEFINE byte == IF value THEN buffer \cup {bufferSize} ELSE buffer
               start == 8 * (size \div 8)
    <3>1. bufferSize = 7 /\ byte # Full
      BY <1>7, <2>2 DEF WriteElement, memory
    <3>2. byte \in Byte
      BY <1>1, <3>1 DEF Layout, TypeOK, Byte
    <3>3. PICK j \in 0 .. 7 : j \notin byte
      BY <3>1, <3>2 DEF Full, Byte
    <3>4. Flush(byte, size')
      BY <2>2, <3>1 DEF WriteElement
    <3> HIDE DEF byte
    <3>0. PICK i \in Nat : i = start + j
      BY <1>1
    <3>5. /\ size' \in Nat /\ size' % 8 = 0 /\ size' \div 8 = size \div 8 + 1
          /\ i \in Nat /\ i \div 8 = size \div 8 /\ i % 8 = j /\ i < size'
      BY <1>1, <3>0, <3>1
    <3>6. i < size /\ i \div 8 = size \div 8 => (i % 8 \in byte <=> i % 8 \in buffer)
      <4>1. i < size => j # bufferSize
        BY <1>1, <3>0, <3>1, DivMod
      <4>2. QED
        BY <3>5, <4>1 DEF byte
    <3>7. ~BitAt(i)'
      <4>1. i \div 8 = size \div 8 => (BitAt(i)' <=> i % 8 \in byte)
        BY <3>2, <3>4, <3>5, <3>6, FlushKeepsBits
      <4>2. QED
        BY <4>1, <3>3, <3>5
    <3>8. i + 1 \in 1 .. length' /\ (i + 1) - 1 = i
      BY <1>1, <3>5
    <3>9. Bits'[i + 1] = BitAt(i)'
      BY <3>8 DEF Bits
    <3>10. QED
      BY <3>7, <3>8, <3>9 DEF Nulls
  <2>3. QED
    BY <2>1, <2>2
<1>8. QED
  BY <1>6, <1>7 DEF NullsKnown

others == <<used, buffer, bufferSize, size, nullCount, allocated, length, released>>

(* Memory that keeps the stored bytes stands for the same bits.            *)
LEMMA SameBytes ==
  ASSUME Layout, allocated, data' \in Seq(Cell), used <= Len(data'),
         \A i \in 1 .. used : data'[i] = data[i], UNCHANGED others
  PROVE  Layout' /\ Bits' = Bits /\ Nulls' = Nulls
<1>1. /\ size \in Nat /\ length \in Nat /\ used = size \div 8
      /\ size' = size /\ used' = used /\ length' = length
      /\ allocated' = allocated /\ buffer' = buffer
  BY DEF Layout, TypeOK, others
<1>2. Layout'
  <2>1. TypeOK'
    <3>1. allocated' \in BOOLEAN /\ released' \in BOOLEAN
      BY Zenon DEF Layout, TypeOK, others
    <3>2. Len(data') \in Nat
      BY LenProperties
    <3>3. QED
      BY <3>1, <3>2 DEF Layout, TypeOK, others, Cell
  <2>2. StoredBytesWritten'
    BY <1>1 DEF Layout, StoredBytesWritten
  <2>3. QED
    BY <2>1, <2>2 DEF Layout, others
<1>3. ASSUME NEW i \in 0 .. length - 1 PROVE BitAt(i)' = BitAt(i)
  <2>1. CASE i \div 8 < size \div 8
    <3>1. i \div 8 + 1 \in 1 .. used
      BY <1>1, <2>1, DivMod
    <3>2. QED
      BY <1>1, <2>1, <3>1 DEF BitAt
  <2>2. CASE ~(i \div 8 < size \div 8)
    BY <1>1, <2>2 DEF BitAt
  <2>3. QED
    BY <2>1, <2>2
<1>4. Bits' = Bits
  <2>1. ASSUME NEW i \in 1 .. length PROVE BitAt(i - 1)' = BitAt(i - 1)
    BY <1>1, <1>3
  <2>2. Bits' = [i \in 1 .. length |-> BitAt(i - 1)']
    BY <1>1 DEF Bits
  <2>3. QED
    BY <2>1, <2>2, Zenon DEF Bits
<1>5. QED
  BY <1>1, <1>2, <1>4 DEF Nulls

(* reserve() changes no bit.                                               *)
LEMMA ReserveMoreKeeps ==
  ASSUME Layout, ReserveMore
  PROVE  Layout' /\ Bits' = Bits /\ Nulls' = Nulls /\ UNCHANGED others
<1>1. PICK n \in Extra : data' = Reserve(data, used, n \div 8 + 1)
  BY DEF ReserveMore
<1>2. /\ data \in Seq(Cell) /\ used \in Nat /\ Len(data) \in Nat /\ used <= Len(data)
      /\ n \div 8 + 1 \in Nat
  BY BitmapAssumption, LenProperties DEF Layout, TypeOK, Cell
<1>3. /\ data' \in Seq(Cell) /\ Len(data') \in Nat /\ Len(data') >= Len(data)
      /\ \A i \in 1 .. Len(data) : data'[i] = data[i]
  BY <1>1, <1>2, ReserveKeeps
<1>4. allocated /\ UNCHANGED others
  BY DEF ReserveMore, others
<1>5. used <= Len(data') /\ \A i \in 1 .. used : data'[i] = data[i]
  BY <1>2, <1>3
<1>6. QED
  BY <1>3, <1>4, <1>5, SameBytes

(* shrink() changes no bit.                                                *)
LEMMA ShrinkKeeps ==
  ASSUME Layout, Shrink
  PROVE  Layout' /\ Bits' = Bits /\ Nulls' = Nulls /\ UNCHANGED others
<1>1. data \in Seq(Cell) /\ used \in Nat /\ Len(data) \in Nat /\ used <= Len(data)
  BY LenProperties DEF Layout, TypeOK, Cell
<1>2. /\ data' \in Seq(Cell) /\ Len(data') = Larger(used, 1)
      /\ \A i \in 1 .. Larger(used, 1) : data'[i] = IF i <= Len(data) THEN data[i] ELSE Garbage
  BY <1>1, ReallocateKeeps DEF Shrink
<1>3. used <= Len(data') /\ \A i \in 1 .. used : data'[i] = data[i]
  BY <1>1, <1>2 DEF Larger
<1>4. allocated /\ UNCHANGED others
  BY DEF Shrink, others
<1>5. QED
  BY <1>2, <1>3, <1>4, SameBytes

(* release() changes no bit of an element, and what a consumer reads are   *)
(* the bits written.                                                       *)
LEMMA ReleaseKeeps ==
  ASSUME BitmapInv, Release
  PROVE  BitmapInv' /\ Bits' = Bits
<1>1. /\ size \in Nat /\ length \in Nat /\ size = length
      /\ length' = length /\ nullCount' = nullCount /\ released' = TRUE
      /\ bufferSize = size % 8 /\ buffer \in Byte /\ nullCount \in Nat
  BY DEF BitmapInv, Layout, TypeOK, Release
<1>2. IsFiniteSet(Nulls) /\ nullCount = Cardinality(Nulls)
  BY <1>1, NullsFinite DEF BitmapInv, NullsKnown
<1>3. Bits \in Seq(BOOLEAN) /\ Len(Bits) = length
  BY <1>1, BitsType
<1>4. CASE allocated \/ nullCount > 0
  <2>1. /\ Flush(buffer, size') /\ size' = size + 8 - bufferSize
        /\ buffer' = {} /\ bufferSize' = 0
    BY <1>4 DEF Release
  <2>2. /\ size' \in Nat /\ size' % 8 = 0 /\ size' \div 8 = size \div 8 + 1
        /\ size' >= length
    BY <1>1, <2>1
  <2>3. /\ data' \in Seq(Cell) /\ used' = size' \div 8 /\ used' \in 0 .. Len(data')
        /\ allocated' = TRUE /\ StoredBytesWritten'
    BY <1>1, <2>1, <2>2, FlushStores DEF BitmapInv
  <2>4. Layout'
    <3>1. bufferSize' \in 0 .. 7 /\ length' \in Nat /\ buffer' \in Byte /\ nullCount' \in Nat
      BY <1>1, <2>1 DEF Byte
    <3>2. TypeOK'
      BY <1>1, <2>2, <2>3, <3>1 DEF TypeOK, Cell
    <3>3. QED
      BY <1>1, <2>1, <2>2, <2>3, <3>2 DEF Layout
  <2>5. ASSUME NEW i \in 0 .. length - 1
        PROVE  BitAt(i)' = BitAt(i) /\ (BitAt(i)' <=> i % 8 \in data'[i \div 8 + 1])
    <3>1. i \in Nat /\ i < size' /\ i < size
      BY <1>1, <2>2
    <3>2. (BitAt(i)' <=> BitAt(i)) /\ (BitAt(i)' <=> i % 8 \in data'[i \div 8 + 1])
      BY <1>1, <2>1, <2>2, <3>1, FlushKeepsBits DEF BitmapInv
    <3>3. QED
      BY <3>2, BitAtBoolean, Zenon
  <2>6. Bits' = Bits /\ ConsumedBits' = Bits'
    <3>1. ASSUME NEW i \in 1 .. length
          PROVE  /\ BitAt(i - 1)' = BitAt(i - 1)
                 /\ BitAt(i - 1)' <=> (i - 1) % 8 \in data'[(i - 1) \div 8 + 1]
      BY <1>1, <2>5
    <3>2. ASSUME NEW i \in 1 .. length
          PROVE  BitAt(i - 1)' = (allocated' => (i - 1) % 8 \in data'[(i - 1) \div 8 + 1])
      BY <3>1, <2>3, BitAtBoolean, Zenon
    <3>3. Bits' = [i \in 1 .. length |-> BitAt(i - 1)']
      BY <1>1 DEF Bits
    <3>4. ConsumedBits'
            = [i \in 1 .. length |-> allocated' => (i - 1) % 8 \in data'[(i - 1) \div 8 + 1]]
      BY <1>1 DEF ConsumedBits
    <3>5. Bits' = Bits
      BY <3>1, <3>3, Zenon DEF Bits
    <3>6. ConsumedBits' = Bits'
      BY <3>2, <3>3, <3>4, Zenon
    <3>7. QED
      BY <3>5, <3>6
  <2>7. Nulls' = Nulls /\ Nulls # {}
    <3>1. Nulls # {}
      BY <1>2, <1>4, FS_EmptySet DEF BitmapInv, NullsKnown
    <3>2. QED
      BY <1>1, <2>6, <3>1 DEF Nulls
  <2>8. QED
    BY <1>1, <1>2, <2>3, <2>4, <2>6, <2>7 DEF BitmapInv, NullsKnown, ReleasedBitmap
<1>5. CASE ~(allocated \/ nullCount > 0)
  <2>1. UNCHANGED <<data, used, allocated, size, buffer, bufferSize>>
    BY <1>5 DEF Release, memory
  <2>2. Layout'
    <3>1. allocated' \in BOOLEAN /\ released' \in BOOLEAN
      BY <1>1, <2>1, Zenon DEF BitmapInv, Layout, TypeOK
    <3>2. TypeOK'
      BY <1>1, <2>1, <3>1 DEF BitmapInv, Layout, TypeOK
    <3>3. QED
      BY <1>1, <2>1, <3>2 DEF BitmapInv, Layout, StoredBytesWritten
  <2>3. Bits' = Bits /\ Nulls' = Nulls
    BY <1>1, <2>1 DEF Bits, BitAt, Nulls
  <2>4. Nulls = {}
    BY <1>1, <1>2, <1>5, FS_EmptySet
  <2>5. ConsumedBits' = Bits'
    <3>1. \A i \in 1 .. length : Bits[i] = TRUE
      <4>1. Bits \in [1 .. length -> BOOLEAN]
        BY <1>3, LenProperties
      <4>2. QED
        BY <2>4, <4>1, Zenon DEF Nulls
    <3>2. ConsumedBits' = [i \in 1 .. length |-> TRUE]
      <4>1. \A i \in 1 .. length :
               (allocated' => (i - 1) % 8 \in data'[(i - 1) \div 8 + 1]) = TRUE
        BY <1>5, <2>1, Zenon
      <4>2. QED
        BY <1>1, <4>1, Zenon DEF ConsumedBits
    <3>3. Bits = [i \in 1 .. length |-> TRUE]
      <4>1. Bits = [i \in 1 .. length |-> Bits[i]]
        BY DEF Bits
      <4>2. QED
        BY <3>1, <4>1, Zenon
    <3>4. QED
      BY <2>3, <3>2, <3>3
  <2>6. QED
    BY <1>1, <1>2, <1>5, <2>1, <2>2, <2>3, <2>4, <2>5 DEF BitmapInv, NullsKnown, ReleasedBitmap
<1>6. QED
  BY <1>4, <1>5

(* The invariant holds initially, for the empty sequence of bits.          *)
LEMMA BitmapInitInv ==
  ASSUME BitmapInit
  PROVE  BitmapInv /\ Bits = << >>
<1>1. /\ size = 0 /\ length = 0 /\ used = 0 /\ buffer = {} /\ bufferSize = 0
      /\ nullCount = 0 /\ allocated = FALSE /\ released = FALSE
  BY DEF BitmapInit
<1>2. data \in Seq(Cell) /\ Len(data) \in Nat
  <2>1. << >> \in Seq(Cell)
    OBVIOUS
  <2>2. QED
    BY <2>1, ReallocateKeeps, LenProperties DEF BitmapInit
<1>3. TypeOK
  <2>1. allocated \in BOOLEAN /\ released \in BOOLEAN
    BY <1>1, Zenon
  <2>2. used \in 0 .. Len(data) /\ buffer \in Byte /\ bufferSize \in 0 .. 7
    BY <1>1, <1>2 DEF Byte
  <2>3. QED
    BY <1>1, <1>2, <2>1, <2>2 DEF TypeOK, Cell
<1>4. 0 % 8 = 0
  OBVIOUS
<1>5. Layout
  BY <1>1, <1>3, <1>4 DEF Layout, StoredBytesWritten
<1>6. Bits = << >> /\ Nulls = {}
  BY <1>1, BitsType DEF Nulls
<1>7. NullsKnown
  BY <1>1, <1>6, FS_EmptySet DEF NullsKnown
<1>8. QED
  BY <1>1, <1>5, <1>6, <1>7 DEF BitmapInv, ReleasedBitmap

(* Every step preserves the invariant and is a step of the sequence of     *)
(* bits, or leaves it as it is.                                            *)
LEMMA BitmapNextInv ==
  ASSUME BitmapInv, [BitmapNext]_bitmapVars
  PROVE  BitmapInv' /\ [Abstract!Next]_<<Bits, released>>
<1>1. ASSUME NEW value \in BOOLEAN, WriteElement(value)
      PROVE  BitmapInv' /\ Abstract!Write(value)
  <2>1. ~released /\ released' = released /\ ~released'
    BY <1>1 DEF WriteElement
  <2>2. Layout' /\ NullsKnown' /\ Bits' = Append(Bits, value)
    BY <1>1, WriteElementBits, WriteElementAppends, WriteElementNulls DEF BitmapInv
  <2>3. QED
    BY <2>1, <2>2 DEF BitmapInv, ReleasedBitmap, Abstract!Write
<1>2. CASE ReserveMore \/ Shrink
  <2>1. /\ Layout' /\ Bits' = Bits /\ Nulls' = Nulls /\ UNCHANGED others /\ ~released
    BY <1>2, ReserveMoreKeeps, ShrinkKeeps DEF BitmapInv, ReserveMore, Shrink
  <2>2. QED
    BY <2>1 DEF BitmapInv, NullsKnown, ReleasedBitmap, others
<1>3. CASE Release
  <2>1. BitmapInv' /\ Bits' = Bits /\ ~released /\ released' = TRUE
    BY <1>3, ReleaseKeeps DEF Release
  <2>2. QED
    BY <2>1 DEF Abstract!Next, Abstract!Release
<1>4. CASE UNCHANGED bitmapVars
  <2>1. Bits' = Bits /\ released' = released
    BY <1>4 DEF bitmapVars, Bits, BitAt
  <2>2. QED
    BY <1>4, <2>1
       DEF bitmapVars, BitmapInv, Layout, TypeOK, StoredBytesWritten, NullsKnown, ReleasedBitmap,
           Nulls, ConsumedBits
<1>5. QED
  BY <1>1, <1>2, <1>3, <1>4 DEF BitmapNext, Abstract!Next

(***************************************************************************)
(* Theorems                                                                *)
(***************************************************************************)

(* The invariant of BitmapBuilder (builder.hpp) holds in every reachable   *)
(* state.                                                                  *)
THEOREM BitmapInvariant == BitmapSpec => []BitmapInv
<1>1. BitmapInit => BitmapInv
  BY BitmapInitInv
<1>2. BitmapInv /\ [BitmapNext]_bitmapVars => BitmapInv'
  BY BitmapNextInv
<1>3. QED
  BY <1>1, <1>2, PTL DEF BitmapSpec

(* Types: in particular no byte is stored beyond the capacity.             *)
THEOREM BitmapTypeCorrect == BitmapSpec => []TypeOK
<1>1. BitmapInv => TypeOK
  BY DEF BitmapInv, Layout
<1>2. QED
  BY <1>1, BitmapInvariant, PTL

(* Growing, shrinking and the late allocation leave no stored byte         *)
(* uninitialised.                                                          *)
THEOREM BitmapBytesWritten == BitmapSpec => []StoredBytesWritten
<1>1. BitmapInv => StoredBytesWritten
  BY DEF BitmapInv, Layout
<1>2. QED
  BY <1>1, BitmapInvariant, PTL

(* What release() hands over is the sequence of bits written, with its     *)
(* null count, and without a buffer exactly if there is no null.           *)
THEOREM BitmapReleased == BitmapSpec => []ReleasedBitmap
<1>1. BitmapInv => ReleasedBitmap
  BY DEF BitmapInv
<1>2. QED
  BY <1>1, BitmapInvariant, PTL

(* BitmapBuilder implements a growing sequence of bits: write_element()    *)
(* appends, nothing else changes a bit.                                    *)
THEOREM BitmapImplementsBits == BitmapSpec => ImplementsBits
<1>1. BitmapInit => Abstract!Init
  BY BitmapInitInv DEF Abstract!Init, BitmapInit
<1>2. BitmapInv /\ [BitmapNext]_bitmapVars => [Abstract!Next]_<<Bits, released>>
  BY BitmapNextInv
<1>3. QED
  BY <1>1, <1>2, BitmapInvariant, PTL DEF BitmapSpec, ImplementsBits, Abstract!Spec

(***************************************************************************)
(* While a tree of builders of any shape is released, and whichever        *)
(* malloc() fails, every block of memory has one owner, no block is freed  *)
(* that is not allocated unless a string could not be replaced, and the    *)
(* caller gets all of the array and of the schema, or nothing of it.       *)
(***************************************************************************)
Purposes ==
  {"data", "buffers", "children", "array", "schema children", "schema", "no format", "no name",
   "format", "name", "metadata"}
Blocks == Nodes \X Purposes
Structure == [live : BOOLEAN, own : SUBSET Blocks]
Frames == [node : Nodes, step : Nat \ {0}]
Phases == {"building", "finishing", "copying", "returned", "throwing", "threw", "done"}

TypeInv ==
  /\ heap \subseteq Blocks
  /\ builder \in [Nodes -> SUBSET Blocks]
  /\ array \in [Nodes -> Structure]
  /\ schema \in [Nodes -> Structure]
  /\ moved \subseteq Blocks
  /\ frames \in Seq(Frames)
  /\ phase \in Phases
  /\ misfreed \in BOOLEAN /\ mislaid \in BOOLEAN

(***************************************************************************)
(* Where in Plan(n) the steps are: Strings(n) of them come before the two  *)
(* empty strings, after which format, name and metadata are set; the i-th  *)
(* child is released in step KidAt(n, i), and the last step returns.       *)
(***************************************************************************)
K(n) == Len(Kids[n])
Lists(n) == IF Kids[n] = << >> THEN 0 ELSE 1
Strings(n) ==
  IF phase = "building" THEN 2 + 2 * Lists(n) + 2 * K(n) ELSE Lists(n) + K(n)
Before(n) == Strings(n) + (IF phase = "building" /\ n \notin Structs THEN 6 ELSE 5)
KidAt(n, i) == Before(n) + i
Last(n) == Before(n) + K(n) + 1

(***************************************************************************)
(* Each structure owns blocks of its own names only, and the names of two  *)
(* structures differ: that is why no block has two owners.                 *)
(***************************************************************************)
ArrayLists(n) ==
  {Block(n, what) : what \in {"buffers", "children"}} \cup {Block(k, "array") : k \in KidsOf(n)}
ArrayBlocks(n) == ArrayLists(n) \cup {Block(n, "data")}
SchemaLists(n) == {Block(n, "schema children")} \cup {Block(k, "schema") : k \in KidsOf(n)}
SchemaStrings == {"no format", "no name", "format", "name", "metadata"}
SchemaBlocks(n) == SchemaLists(n) \cup {Block(n, what) : what \in SchemaStrings}

OwnInv ==
  \A n \in Nodes :
    /\ builder[n] \subseteq {Block(n, "data")}
    /\ array[n].own \subseteq ArrayBlocks(n)
    /\ schema[n].own \subseteq SchemaBlocks(n)
    /\ Block(n, "data") \in array[n].own => builder[n] = {}
    /\ array[n].own # {} => array[n].live
    /\ schema[n].own # {} => schema[n].live

OwnedBy(n) == builder[n] \cup array[n].own \cup schema[n].own

(* What is allocated is owned, and the other way round unless a string was *)
(* lost, after which nothing is done but to clean up.                      *)
HeapInv ==
  /\ \A b \in heap : \E n \in Nodes : b \in OwnedBy(n)
  /\ mislaid => phase \in {"throwing", "threw", "done"}
  /\ ~mislaid => ~misfreed /\ \A n \in Nodes : OwnedBy(n) \subseteq heap

(***************************************************************************)
(* The stack: each frame but the innermost waits for the child it released *)
(* last.                                                                   *)
(***************************************************************************)
FramesInv ==
  /\ frames # << >> => frames[1].node = Root
  /\ \A i, j \in 1 .. Len(frames) : frames[i].node = frames[j].node => i = j
  /\ phase \in {"finishing", "returned", "threw", "done"} => frames = << >>
  /\ Running =>
       /\ frames # << >>
       /\ \A j \in 1 .. Len(frames) : frames[j].step <= Last(frames[j].node)
       /\ \A j \in 1 .. Len(frames) - 1 : \E i \in 1 .. K(frames[j].node) :
            /\ frames[j + 1].node = Kids[frames[j].node][i]
            /\ frames[j].step = KidAt(frames[j].node, i) + 1

(* What the steps of a frame have done.                                    *)
Done(n, s) ==
  /\ \A p \in 1 .. s - 1 :
       /\ Plan(n)[p].do = "array" => Plan(n)[p].block \in array[n].own
       /\ Plan(n)[p].do = "schema" => Plan(n)[p].block \in schema[n].own
  /\ s \in Strings(n) + 2 .. Strings(n) + 3 => Block(n, "no format") \in schema[n].own
  /\ s \in Strings(n) + 3 .. Strings(n) + 4 => Block(n, "no name") \in schema[n].own
  /\ s > Strings(n) + 1 => schema[n].live
  /\ phase = "building" /\ n \notin Structs /\ s > Before(n) => builder[n] = {}

DoneInv ==
  Running => \A j \in 1 .. Len(frames) : Done(frames[j].node, frames[j].step)

OwnershipInv == TypeInv /\ OwnInv /\ HeapInv /\ FramesInv /\ DoneInv

-----------------------------------------------------------------------------

(***************************************************************************)
(* The plan.                                                               *)
(***************************************************************************)
Dos ==
  {"begin", "array", "schema", "string", "format", "name", "take", "kid", "return"}
Steps == [do : Dos, block : Blocks]

(* The children of a builder are builders.                                 *)
LEMMA KidsAre ==
  ASSUME NEW n \in Nodes
  PROVE  /\ K(n) \in Nat /\ Lists(n) \in {0, 1}
         /\ \A i \in 1 .. K(n) : Kids[n][i] \in Nodes /\ Kids[n][i] \in KidsOf(n)
         /\ \A k \in KidsOf(n) : k \in Nodes /\ k # Root
BY TreeAssumption, BelowRootAssumption DEF K, Lists, KidsOf

(* A step has the parts it is made of.                                     *)
LEMMA StepsAre ==
  ASSUME NEW do \in Dos, NEW b \in Blocks
  PROVE  Step(do, b) \in Steps /\ Step(do, b).do = do /\ Step(do, b).block = b
BY DEF Step, Steps

(* A block of a node is a block.                                           *)
LEMMA BlocksAre ==
  ASSUME NEW n \in Nodes, NEW what \in Purposes
  PROVE  /\ Block(n, what) \in Blocks
         /\ \A m, other : Block(n, what) = Block(m, other) <=> n = m /\ what = other
         /\ Block(n, what)[1] = n
BY DEF Block, Blocks

(* Allocations are one step for each block.                                *)
LEMMA AllocationsAre ==
  ASSUME NEW do \in Dos, NEW blocks \in Seq(Blocks)
  PROVE  /\ Allocations(do, blocks) \in Seq(Steps)
         /\ Len(Allocations(do, blocks)) = Len(blocks)
         /\ \A i \in 1 .. Len(blocks) : Allocations(do, blocks)[i] = Step(do, blocks[i])
<1>1. \A i \in 1 .. Len(blocks) : Step(do, blocks[i]) \in Steps
  BY StepsAre, LenProperties, ElementOfSeq
<1>2. Len(blocks) \in Nat
  BY LenProperties
<1>3. DOMAIN Allocations(do, blocks) = 1 .. Len(blocks)
  BY DEF Allocations
<1>4. Allocations(do, blocks) \in Seq(Steps)
  BY <1>1, <1>2, <1>3 DEF Allocations
<1> QED
  BY <1>1, <1>2, <1>3, <1>4 DEF Allocations

(* What is done in one sequence of steps and then in another.              *)
LEMMA ThenAfter ==
  ASSUME NEW s \in Seq(Steps), NEW t \in Seq(Steps)
  PROVE  /\ s \o t \in Seq(Steps)
         /\ Len(s) \in Nat /\ Len(t) \in Nat
         /\ Len(s \o t) = Len(s) + Len(t)
         /\ \A i \in 1 .. Len(s) : (s \o t)[i] = s[i]
         /\ \A i \in 1 .. Len(t) : (s \o t)[Len(s) + i] = t[i]
         /\ \A i \in Len(s) + 1 .. Len(s) + Len(t) : (s \o t)[i] = t[i - Len(s)]
BY ConcatProperties, LenProperties

(* A list of one step.                                                     *)
LEMMA OneStep ==
  ASSUME NEW s \in Steps
  PROVE  <<s>> \in Seq(Steps) /\ Len(<<s>>) = 1 /\ <<s>>[1] = s
OBVIOUS

(* A list of two blocks.                                                   *)
LEMMA TwoBlocks ==
  ASSUME NEW b \in Blocks, NEW c \in Blocks
  PROVE  <<b, c>> \in Seq(Blocks) /\ Len(<<b, c>>) = 2 /\ <<b, c>>[1] = b /\ <<b, c>>[2] = c
OBVIOUS

(* A list of blocks after another.                                         *)
LEMMA BlocksAfter ==
  ASSUME NEW s \in Seq(Blocks), NEW t \in Seq(Blocks)
  PROVE  /\ s \o t \in Seq(Blocks)
         /\ Len(s) \in Nat /\ Len(t) \in Nat
         /\ Len(s \o t) = Len(s) + Len(t)
         /\ \A i \in 1 .. Len(s) : (s \o t)[i] = s[i]
         /\ \A i \in 1 .. Len(t) : (s \o t)[Len(s) + i] = t[i]
BY ConcatProperties, LenProperties

(* The steps of allocate_array_data().                                     *)
ArrayShape(n, s) ==
  /\ s \in Seq(Steps)
  /\ Len(s) = 1 + Lists(n) + K(n)
  /\ s[1] = Step("array", Block(n, "buffers"))
  /\ \A p \in 1 .. Len(s) : s[p].do = "array" /\ s[p].block \in ArrayLists(n)
  /\ \A i \in 1 .. K(n) : s[1 + Lists(n) + i] = Step("array", Block(Kids[n][i], "array"))

(* The parts of any step.                                                  *)
LEMMA StepParts == \A do, b : Step(do, b).do = do /\ Step(do, b).block = b
BY DEF Step

(* The blocks that an array or a schema may own.                           *)
LEMMA OwnBlocks ==
  ASSUME NEW n
  PROVE  /\ \A what \in {"buffers", "children"} : Block(n, what) \in ArrayLists(n)
         /\ \A k \in KidsOf(n) : Block(k, "array") \in ArrayLists(n)
         /\ Block(n, "data") \in ArrayBlocks(n)
         /\ ArrayLists(n) \subseteq ArrayBlocks(n)
         /\ \A what \in SchemaStrings : Block(n, what) \in SchemaBlocks(n)
         /\ Block(n, "schema children") \in SchemaLists(n)
         /\ \A k \in KidsOf(n) : Block(k, "schema") \in SchemaLists(n)
         /\ SchemaLists(n) \subseteq SchemaBlocks(n)
BY DEF ArrayBlocks, ArrayLists, SchemaBlocks, SchemaLists

(* The blocks of the structures of the children.                           *)
LEMMA KidBlocksAre ==
  ASSUME NEW n \in Nodes, NEW what \in Purposes
  PROVE  /\ KidBlocks(n, what) \in Seq(Blocks)
         /\ Len(KidBlocks(n, what)) = K(n)
         /\ \A i \in 1 .. K(n) : KidBlocks(n, what)[i] = Block(Kids[n][i], what)
<1>1. K(n) \in Nat /\ \A i \in 1 .. K(n) : Block(Kids[n][i], what) \in Blocks
  BY KidsAre, BlocksAre
<1>2. KidBlocks(n, what) = [i \in 1 .. K(n) |-> Block(Kids[n][i], what)]
  BY DEF KidBlocks, K
<1> QED
  BY <1>1, <1>2

(* The list of children is there when there are any.                       *)
LEMMA ListsAre ==
  ASSUME NEW n \in Nodes, NEW what \in Purposes
  PROVE  /\ (IF Kids[n] = << >> THEN << >> ELSE <<Block(n, what)>>) \in Seq(Blocks)
         /\ Len(IF Kids[n] = << >> THEN << >> ELSE <<Block(n, what)>>) = Lists(n)
         /\ Lists(n) = 1 =>
              (IF Kids[n] = << >> THEN << >> ELSE <<Block(n, what)>>)[1] = Block(n, what)
BY BlocksAre DEF Lists

(* allocate_array_data() allocates what an array owns.                     *)
LEMMA AllocateArrayIs ==
  ASSUME NEW n \in Nodes
  PROVE  ArrayShape(n, AllocateArray(n))
<1> DEFINE first == <<Block(n, "buffers")>>
           list == IF Kids[n] = << >> THEN << >> ELSE <<Block(n, "children")>>
           kids == KidBlocks(n, "array")
           s == AllocateArray(n)
<1>1. /\ first \in Seq(Blocks) /\ Len(first) = 1 /\ first[1] = Block(n, "buffers")
      /\ list \in Seq(Blocks) /\ Len(list) = Lists(n)
      /\ Lists(n) = 1 => list[1] = Block(n, "children")
      /\ kids \in Seq(Blocks) /\ Len(kids) = K(n)
      /\ \A i \in 1 .. K(n) : kids[i] = Block(Kids[n][i], "array")
  <2>1. "buffers" \in Purposes /\ "children" \in Purposes /\ "array" \in Purposes
    BY DEF Purposes
  <2>2. first \in Seq(Blocks) /\ Len(first) = 1 /\ first[1] = Block(n, "buffers")
    BY <2>1, BlocksAre
  <2>3. /\ list \in Seq(Blocks) /\ Len(list) = Lists(n)
        /\ Lists(n) = 1 => list[1] = Block(n, "children")
    BY <2>1, ListsAre, Zenon
  <2>4. /\ kids \in Seq(Blocks) /\ Len(kids) = K(n)
        /\ \A i \in 1 .. K(n) : kids[i] = Block(Kids[n][i], "array")
    BY <2>1, KidBlocksAre, Zenon
  <2> HIDE DEF first, list, kids
  <2> QED
    BY <2>2, <2>3, <2>4
<1>2. K(n) \in Nat /\ Lists(n) \in {0, 1}
  BY KidsAre
<1>3. s = Allocations("array", first \o list \o kids)
  BY DEF AllocateArray
<1> HIDE DEF first, list, kids, s
<1> DEFINE fl == first \o list
           all == fl \o kids
<1>4. /\ fl \in Seq(Blocks) /\ Len(fl) = 1 + Lists(n)
      /\ fl[1] = first[1]
      /\ Lists(n) = 1 => fl[2] = list[1]
  BY <1>1, <1>2, ConcatProperties
<1>5. /\ all \in Seq(Blocks) /\ Len(all) = 1 + Lists(n) + K(n)
      /\ \A i \in 1 .. 1 + Lists(n) : all[i] = fl[i]
      /\ \A i \in 1 .. K(n) : all[1 + Lists(n) + i] = kids[i]
  <2> HIDE DEF fl
  <2> QED
    BY <1>1, <1>2, <1>4, ConcatProperties, SMTT(30)
<1> HIDE DEF all, fl
<1>6. /\ s \in Seq(Steps) /\ Len(s) = 1 + Lists(n) + K(n)
      /\ \A i \in 1 .. 1 + Lists(n) + K(n) : s[i] = Step("array", all[i])
  <2>1. s = Allocations("array", all)
    BY <1>3 DEF all, fl
  <2>2. "array" \in Dos
    BY DEF Dos
  <2> QED
    BY <2>1, <2>2, <1>5, AllocationsAre
<1>7. s[1] = Step("array", Block(n, "buffers"))
  BY <1>1, <1>2, <1>4, <1>5, <1>6
<1>8. \A i \in 1 .. K(n) : s[1 + Lists(n) + i] = Step("array", Block(Kids[n][i], "array"))
  BY <1>1, <1>2, <1>5, <1>6
<1>9. \A p \in 1 .. 1 + Lists(n) + K(n) : all[p] \in ArrayLists(n)
  <2> SUFFICES ASSUME NEW p \in 1 .. 1 + Lists(n) + K(n)
               PROVE  all[p] \in ArrayLists(n)
    OBVIOUS
  <2>1. CASE p = 1
    <3>1. all[p] = Block(n, "buffers")
      BY <2>1, <1>1, <1>2, <1>4, <1>5
    <3> QED
      BY <3>1, OwnBlocks
  <2>2. CASE p # 1 /\ p <= 1 + Lists(n)
    <3>1. p = 2 /\ Lists(n) = 1
      BY <2>2, <1>2
    <3> QED
      <4>1. all[p] = Block(n, "children")
        BY <3>1, <1>1, <1>4, <1>5
      <4> QED
        BY <4>1, OwnBlocks
  <2>3. CASE p > 1 + Lists(n)
    <3>1. PICK i \in 1 .. K(n) : p = 1 + Lists(n) + i
      <4>1. p - (1 + Lists(n)) \in 1 .. K(n) /\ p = 1 + Lists(n) + (p - (1 + Lists(n)))
        BY <2>3, <1>2
      <4> QED
        BY <4>1
    <3>2. all[p] = Block(Kids[n][i], "array") /\ Kids[n][i] \in KidsOf(n)
      BY <3>1, <1>1, <1>5, KidsAre
    <3> QED
      BY <3>2, OwnBlocks
  <2> QED
    BY <2>1, <2>2, <2>3, <1>2
<1>10. \A p \in 1 .. Len(s) : s[p].do = "array" /\ s[p].block \in ArrayLists(n)
  <2>1. \A p \in 1 .. Len(s) : s[p] = Step("array", all[p]) /\ all[p] \in ArrayLists(n)
    BY <1>6, <1>9
  <2> QED
    <3> SUFFICES ASSUME NEW p \in 1 .. Len(s)
                 PROVE  s[p].do = "array" /\ s[p].block \in ArrayLists(n)
      OBVIOUS
    <3>1. s[p] = Step("array", all[p]) /\ all[p] \in ArrayLists(n)
      BY <2>1
    <3> QED
      BY <3>1, StepParts
<1> QED
  BY <1>6, <1>7, <1>8, <1>10 DEF ArrayShape, s

(* The steps of allocate_schema(), without the two strings after it.       *)
SchemaShape(n, s) ==
  /\ s \in Seq(Steps)
  /\ Len(s) = Lists(n) + K(n)
  /\ \A p \in 1 .. Len(s) : s[p].do = "schema" /\ s[p].block \in SchemaLists(n)
  /\ \A i \in 1 .. K(n) : s[Lists(n) + i] = Step("schema", Block(Kids[n][i], "schema"))

(* allocate_schema() allocates what a schema owns.                         *)
LEMMA AllocateSchemaIs ==
  ASSUME NEW n \in Nodes
  PROVE  SchemaShape(n, Allocations("schema",
           (IF Kids[n] = << >> THEN << >> ELSE <<Block(n, "schema children")>>)
           \o KidBlocks(n, "schema")))
<1> DEFINE list == IF Kids[n] = << >> THEN << >> ELSE <<Block(n, "schema children")>>
           kids == KidBlocks(n, "schema")
           all == list \o kids
           s == Allocations("schema", all)
<1>1. /\ list \in Seq(Blocks) /\ Len(list) = Lists(n)
      /\ Lists(n) = 1 => list[1] = Block(n, "schema children")
      /\ kids \in Seq(Blocks) /\ Len(kids) = K(n)
      /\ \A i \in 1 .. K(n) : kids[i] = Block(Kids[n][i], "schema")
  <2>1. "schema children" \in Purposes /\ "schema" \in Purposes
    BY DEF Purposes
  <2>3. /\ list \in Seq(Blocks) /\ Len(list) = Lists(n)
        /\ Lists(n) = 1 => list[1] = Block(n, "schema children")
    BY <2>1, ListsAre, Zenon
  <2>4. /\ kids \in Seq(Blocks) /\ Len(kids) = K(n)
        /\ \A i \in 1 .. K(n) : kids[i] = Block(Kids[n][i], "schema")
    BY <2>1, KidBlocksAre, Zenon
  <2> HIDE DEF list, kids
  <2> QED
    BY <2>3, <2>4
<1>2. K(n) \in Nat /\ Lists(n) \in {0, 1}
  BY KidsAre
<1> HIDE DEF list, kids
<1>5. /\ all \in Seq(Blocks) /\ Len(all) = Lists(n) + K(n)
      /\ \A i \in 1 .. Lists(n) : all[i] = list[i]
      /\ \A i \in 1 .. K(n) : all[Lists(n) + i] = kids[i]
  <2>1. list \in Seq(Blocks) /\ kids \in Seq(Blocks)
    BY <1>1
  <2>2. /\ all \in Seq(Blocks)
        /\ Len(all) = Len(list) + Len(kids)
        /\ \A i \in 1 .. Len(list) : all[i] = list[i]
        /\ \A i \in 1 .. Len(kids) : all[Len(list) + i] = kids[i]
    BY <2>1, BlocksAfter, Zenon
  <2>3. Len(list) = Lists(n) /\ Len(kids) = K(n)
    BY <1>1
  <2> HIDE DEF all
  <2> QED
    BY <2>2, <2>3, Zenon
<1> HIDE DEF all
<1>6. /\ s \in Seq(Steps) /\ Len(s) = Lists(n) + K(n)
      /\ \A i \in 1 .. Lists(n) + K(n) : s[i] = Step("schema", all[i])
  BY <1>5, AllocationsAre DEF Dos
<1> HIDE DEF s
<1>8. \A i \in 1 .. K(n) : s[Lists(n) + i] = Step("schema", Block(Kids[n][i], "schema"))
  <2> SUFFICES ASSUME NEW i \in 1 .. K(n)
               PROVE  s[Lists(n) + i] = Step("schema", Block(Kids[n][i], "schema"))
    OBVIOUS
  <2>1. Lists(n) + i \in 1 .. Lists(n) + K(n)
    BY <1>2
  <2> QED
    BY <2>1, <1>1, <1>5, <1>6
<1>9. \A p \in 1 .. Lists(n) + K(n) : all[p] \in SchemaLists(n)
  <2> SUFFICES ASSUME NEW p \in 1 .. Lists(n) + K(n)
               PROVE  all[p] \in SchemaLists(n)
    OBVIOUS
  <2>2. CASE p <= Lists(n)
    <3>1. p = 1 /\ Lists(n) = 1
      BY <2>2, <1>2
    <3> QED
      <4>1. all[p] = Block(n, "schema children")
        <5>1. p \in 1 .. Lists(n)
          BY <3>1
        <5>2. all[p] = list[p]
          BY <5>1, <1>5, Zenon
        <5> QED
          BY <5>2, <3>1, <1>1, Zenon
      <4> QED
        BY <4>1, OwnBlocks
  <2>3. CASE p > Lists(n)
    <3>1. PICK i \in 1 .. K(n) : p = Lists(n) + i
      <4>1. p - Lists(n) \in 1 .. K(n) /\ p = Lists(n) + (p - Lists(n))
        BY <2>3, <1>2
      <4> QED
        BY <4>1
    <3>2. all[p] = Block(Kids[n][i], "schema") /\ Kids[n][i] \in KidsOf(n)
      BY <3>1, <1>1, <1>5, KidsAre
    <3> QED
      BY <3>2, OwnBlocks
  <2> QED
    BY <2>2, <2>3, <1>2
<1>10. \A p \in 1 .. Len(s) : s[p].do = "schema" /\ s[p].block \in SchemaLists(n)
  <2>1. \A p \in 1 .. Len(s) : s[p] = Step("schema", all[p]) /\ all[p] \in SchemaLists(n)
    BY <1>6, <1>9
  <2> QED
    <3> SUFFICES ASSUME NEW p \in 1 .. Len(s)
                 PROVE  s[p].do = "schema" /\ s[p].block \in SchemaLists(n)
      OBVIOUS
    <3>1. s[p] = Step("schema", all[p]) /\ all[p] \in SchemaLists(n)
      BY <2>1
    <3> QED
      BY <3>1, StepParts
<1>11. SchemaShape(n, s)
  BY <1>6, <1>8, <1>10 DEF SchemaShape
<1> QED
  BY <1>11 DEF s, all, list, kids

(* The positions in a plan are numbers.                                    *)
LEMMA PositionsAre ==
  ASSUME NEW n \in Nodes
  PROVE  /\ Strings(n) \in Nat /\ Before(n) \in Nat /\ Last(n) \in Nat
         /\ Before(n) \in {Strings(n) + 5, Strings(n) + 6}
         /\ \A i \in 1 .. K(n) : KidAt(n, i) \in Nat /\ KidAt(n, i) = Before(n) + i
         /\ Last(n) = Before(n) + K(n) + 1
BY KidsAre DEF Strings, Before, Last, KidAt

(* What is done before the first string is set.                            *)
StartStep(n, s) ==
  \/ s.do = "begin"
  \/ s.do = "array" /\ s.block \in ArrayLists(n)
  \/ s.do = "schema" /\ s.block \in SchemaLists(n)

(* The plan up to the two empty strings.                                   *)
StartShape(n, s) ==
  /\ s \in Seq(Steps)
  /\ Len(s) = Strings(n) + 2
  /\ \A p \in 1 .. Strings(n) : StartStep(n, s[p])
  /\ phase # "building" => \A p \in 1 .. Strings(n) : s[p].do = "schema"
  /\ s[Strings(n) + 1] = Step("string", Block(n, "no format"))
  /\ s[Strings(n) + 2] = Step("string", Block(n, "no name"))
  /\ phase = "building" =>
       /\ Strings(n) >= 2 /\ s[2] = Step("array", Block(n, "buffers"))
       /\ \A i \in 1 .. K(n) :
            \E p \in 1 .. Strings(n) : s[p] = Step("array", Block(Kids[n][i], "array"))
  /\ \A i \in 1 .. K(n) :
       \E p \in 1 .. Strings(n) : s[p] = Step("schema", Block(Kids[n][i], "schema"))

(* The steps of allocate_schema() and allocate() are steps.                *)
LEMMA AllocateSchemaSteps ==
  ASSUME NEW n \in Nodes
  PROVE  AllocateSchema(n) \in Seq(Steps)
<1> DEFINE sc == Allocations("schema",
                   (IF Kids[n] = << >> THEN << >> ELSE <<Block(n, "schema children")>>)
                     \o KidBlocks(n, "schema"))
           b == <<Block(n, "no format"), Block(n, "no name")>>
           two == Allocations("string", b)
<1>1. sc \in Seq(Steps)
  BY AllocateSchemaIs DEF SchemaShape
<1>2. two \in Seq(Steps)
  <2>1. "no format" \in Purposes /\ "no name" \in Purposes /\ "string" \in Dos
    BY DEF Purposes, Dos
  <2>2. Block(n, "no format") \in Blocks /\ Block(n, "no name") \in Blocks
    BY <2>1, BlocksAre
  <2>3. b \in Seq(Blocks)
    BY <2>2, TwoBlocks, Zenon
  <2> HIDE DEF b
  <2> QED
    BY <2>1, <2>3, AllocationsAre, Zenon
<1>3. AllocateSchema(n) = sc \o two
  BY DEF AllocateSchema
<1> HIDE DEF sc, two
<1> QED
  BY <1>1, <1>2, <1>3, ThenAfter

(* allocate_schema() and the empty strings come last of these.             *)
LEMMA AllocateSchemaAt ==
  ASSUME NEW n \in Nodes, NEW h \in Nat, h + Lists(n) + K(n) = Strings(n),
         NEW s \in Seq(Steps), Len(s) = h + Len(AllocateSchema(n)),
         \A i \in 1 .. Len(AllocateSchema(n)) : s[h + i] = AllocateSchema(n)[i]
  PROVE  /\ Len(s) = Strings(n) + 2
         /\ \A p \in h + 1 .. Strings(n) : StartStep(n, s[p]) /\ s[p].do = "schema"
         /\ s[Strings(n) + 1] = Step("string", Block(n, "no format"))
         /\ s[Strings(n) + 2] = Step("string", Block(n, "no name"))
         /\ \A i \in 1 .. K(n) :
              \E p \in 1 .. Strings(n) : s[p] = Step("schema", Block(Kids[n][i], "schema"))
<1> DEFINE sc == Allocations("schema",
                   (IF Kids[n] = << >> THEN << >> ELSE <<Block(n, "schema children")>>)
                     \o KidBlocks(n, "schema"))
           two == Allocations("string", <<Block(n, "no format"), Block(n, "no name")>>)
           a == AllocateSchema(n)
<1>1. SchemaShape(n, sc)
  BY AllocateSchemaIs, Zenon
<1>2. /\ two \in Seq(Steps) /\ Len(two) = 2
      /\ two[1] = Step("string", Block(n, "no format"))
      /\ two[2] = Step("string", Block(n, "no name"))
  <2> DEFINE b == <<Block(n, "no format"), Block(n, "no name")>>
  <2>1. "no format" \in Purposes /\ "no name" \in Purposes /\ "string" \in Dos
    BY DEF Purposes, Dos
  <2>2. /\ b \in Seq(Blocks) /\ Len(b) = 2
        /\ b[1] = Block(n, "no format") /\ b[2] = Block(n, "no name")
    <3>1. Block(n, "no format") \in Blocks /\ Block(n, "no name") \in Blocks
      BY <2>1, BlocksAre
    <3> QED
      BY <3>1, TwoBlocks, Zenon
  <2> HIDE DEF b
  <2>3. /\ two = Allocations("string", b) /\ two \in Seq(Steps) /\ Len(two) = Len(b)
        /\ \A i \in 1 .. Len(b) : two[i] = Step("string", b[i])
    <3>1. two = Allocations("string", b)
      BY DEF b
    <3> HIDE DEF two
    <3> QED
      BY <3>1, <2>1, <2>2, AllocationsAre
  <2> HIDE DEF two
  <2>4. two[1] = Step("string", b[1]) /\ two[2] = Step("string", b[2])
    <3>1. 1 \in 1 .. 2 /\ 2 \in 1 .. 2
      OBVIOUS
    <3> QED
      BY <3>1, <2>2, <2>3, Zenon
  <2> QED
    BY <2>2, <2>3, <2>4, Zenon
<1>3. a = sc \o two
  BY DEF AllocateSchema
<1> HIDE DEF sc, two, a
<1>4. /\ sc \in Seq(Steps) /\ Len(sc) = Lists(n) + K(n)
      /\ \A p \in 1 .. Len(sc) : sc[p].do = "schema" /\ sc[p].block \in SchemaLists(n)
      /\ \A i \in 1 .. K(n) : sc[Lists(n) + i] = Step("schema", Block(Kids[n][i], "schema"))
  BY <1>1 DEF SchemaShape
<1>5. /\ Len(a) = Len(sc) + Len(two)
      /\ \A i \in 1 .. Len(sc) : a[i] = sc[i]
      /\ \A i \in 1 .. Len(two) : a[Len(sc) + i] = two[i]
  BY <1>2, <1>3, <1>4, ThenAfter, ZenonT(40)
<1>6. K(n) \in Nat /\ Lists(n) \in {0, 1} /\ Strings(n) \in Nat
  BY KidsAre, PositionsAre
<1>7. /\ Len(a) = Lists(n) + K(n) + 2
      /\ \A i \in 1 .. Lists(n) + K(n) + 2 : s[h + i] = a[i]
  BY <1>2, <1>4, <1>5, <1>6 DEF a
<1>8. Len(s) = Strings(n) + 2
  BY <1>6, <1>7 DEF a
<1>9. ASSUME NEW i \in 1 .. Lists(n) + K(n)
      PROVE  s[h + i] = sc[i]
  <2>1. i \in 1 .. Lists(n) + K(n) + 2
    BY <1>6
  <2> QED
    BY <2>1, <1>4, <1>5, <1>7
<1>10. ASSUME NEW i \in 1 .. 2
       PROVE  s[Strings(n) + i] = two[i]
  <2>1. Lists(n) + K(n) + i \in 1 .. Lists(n) + K(n) + 2
    BY <1>6
  <2>2. h + (Lists(n) + K(n) + i) = Strings(n) + i
    BY <1>6
  <2>3. s[h + (Lists(n) + K(n) + i)] = a[Lists(n) + K(n) + i]
    BY <2>1, <1>7
  <2>4. a[Lists(n) + K(n) + i] = two[i]
    BY <1>2, <1>4, <1>5
  <2> QED
    BY <2>2, <2>3, <2>4
<1>11. \A p \in h + 1 .. Strings(n) : StartStep(n, s[p]) /\ s[p].do = "schema"
  <2> SUFFICES ASSUME NEW p \in h + 1 .. Strings(n)
               PROVE  StartStep(n, s[p]) /\ s[p].do = "schema"
    OBVIOUS
  <2>1. p - h \in 1 .. Lists(n) + K(n) /\ p = h + (p - h)
    BY <1>6
  <2>2. s[p] = sc[p - h]
    BY <2>1, <1>9
  <2>3. sc[p - h].do = "schema" /\ sc[p - h].block \in SchemaLists(n)
    BY <2>1, <1>4
  <2> QED
    BY <2>2, <2>3 DEF StartStep
<1>12. ASSUME NEW i \in 1 .. K(n)
       PROVE  \E p \in 1 .. Strings(n) : s[p] = Step("schema", Block(Kids[n][i], "schema"))
  <2>1. Lists(n) + i \in 1 .. Lists(n) + K(n)
    BY <1>6
  <2>2. s[h + (Lists(n) + i)] = sc[Lists(n) + i]
    BY <2>1, <1>9
  <2>3. h + (Lists(n) + i) \in 1 .. Strings(n)
    BY <1>6
  <2>4. sc[Lists(n) + i] = Step("schema", Block(Kids[n][i], "schema"))
    BY <1>4
  <2> QED
    BY <2>2, <2>3, <2>4
<1>13. /\ s[Strings(n) + 1] = Step("string", Block(n, "no format"))
       /\ s[Strings(n) + 2] = Step("string", Block(n, "no name"))
  <2>1. s[Strings(n) + 1] = two[1] /\ s[Strings(n) + 2] = two[2]
    <3>1. 1 \in 1 .. 2 /\ 2 \in 1 .. 2
      OBVIOUS
    <3> QED
      BY <3>1, <1>10
  <2> QED
    BY <2>1, <1>2, Zenon
<1> QED
  BY <1>8, <1>11, <1>12, <1>13

(* A copy starts with the schema.                                          *)
LEMMA CopyStart ==
  ASSUME NEW n \in Nodes, phase # "building"
  PROVE  StartShape(n, AllocateSchema(n))
<1> DEFINE s == AllocateSchema(n)
<1>1. s \in Seq(Steps)
  BY AllocateSchemaSteps
<1>2. /\ 0 + Lists(n) + K(n) = Strings(n)
      /\ Len(s) = 0 + Len(s)
      /\ \A i \in 1 .. Len(s) : s[0 + i] = s[i]
  <2>1. K(n) \in Nat /\ Lists(n) \in {0, 1} /\ Len(s) \in Nat
    BY <1>1, KidsAre, LenProperties
  <2> HIDE DEF s
  <2> QED
    BY <2>1 DEF Strings
<1>3. /\ Len(s) = Strings(n) + 2
      /\ \A p \in 0 + 1 .. Strings(n) : StartStep(n, s[p]) /\ s[p].do = "schema"
      /\ s[Strings(n) + 1] = Step("string", Block(n, "no format"))
      /\ s[Strings(n) + 2] = Step("string", Block(n, "no name"))
      /\ \A i \in 1 .. K(n) :
           \E p \in 1 .. Strings(n) : s[p] = Step("schema", Block(Kids[n][i], "schema"))
  <2>1. 0 \in Nat
    OBVIOUS
  <2> QED
    BY <1>1, <1>2, <2>1, AllocateSchemaAt, Zenon
<1>4. 0 + 1 = 1
  OBVIOUS
<1> HIDE DEF s
<1>5. StartShape(n, s)
  BY <1>1, <1>3, <1>4 DEF StartShape
<1> QED
  BY <1>5 DEF s

(* A builder starts with its array and goes on with the schema.            *)
LEMMA BuildStart ==
  ASSUME NEW n \in Nodes, phase = "building"
  PROVE  StartShape(n, <<Step("begin", Block(n, "array"))>>
                         \o AllocateArray(n) \o AllocateSchema(n))
<1> DEFINE b == <<Step("begin", Block(n, "array"))>>
           a == AllocateArray(n)
           ba == b \o a
           c == AllocateSchema(n)
           s == ba \o c
           h == 2 + Lists(n) + K(n)
<1>1. b \in Seq(Steps) /\ Len(b) = 1 /\ b[1] = Step("begin", Block(n, "array"))
  <2>1. "array" \in Purposes /\ "begin" \in Dos
    BY DEF Purposes, Dos
  <2>2. Step("begin", Block(n, "array")) \in Steps
    BY <2>1, BlocksAre, StepsAre
  <2> QED
    BY <2>2, OneStep, Zenon
<1>2. /\ a \in Seq(Steps) /\ Len(a) = 1 + Lists(n) + K(n)
      /\ a[1] = Step("array", Block(n, "buffers"))
      /\ \A p \in 1 .. Len(a) : a[p].do = "array" /\ a[p].block \in ArrayLists(n)
      /\ \A i \in 1 .. K(n) : a[1 + Lists(n) + i] = Step("array", Block(Kids[n][i], "array"))
  BY AllocateArrayIs DEF ArrayShape
<1>3. c \in Seq(Steps)
  BY AllocateSchemaSteps
<1>4. K(n) \in Nat /\ Lists(n) \in {0, 1} /\ Strings(n) \in Nat /\ h \in Nat
  BY KidsAre, PositionsAre
<1> HIDE DEF a, b, c
<1>5. /\ ba \in Seq(Steps) /\ Len(ba) = Len(b) + Len(a)
      /\ \A i \in 1 .. Len(b) : ba[i] = b[i]
      /\ \A i \in 1 .. Len(a) : ba[Len(b) + i] = a[i]
  BY <1>1, <1>2, ThenAfter
<1> HIDE DEF ba
<1>6. /\ s \in Seq(Steps) /\ Len(s) = Len(ba) + Len(c)
      /\ \A i \in 1 .. Len(ba) : s[i] = ba[i]
      /\ \A i \in 1 .. Len(c) : s[Len(ba) + i] = c[i]
  BY <1>3, <1>5, ThenAfter
<1> HIDE DEF s
<1>7. Len(ba) = h
  BY <1>1, <1>2, <1>4, <1>5
<1>8. h + Lists(n) + K(n) = Strings(n) /\ Strings(n) >= 2
  BY <1>4 DEF Strings
<1>9. ASSUME NEW i \in 1 .. Len(a)
      PROVE  s[1 + i] = a[i]
  <2>1. ba[1 + i] = a[i]
    BY <1>1, <1>5
  <2>2. 1 + i \in 1 .. Len(ba)
    BY <1>1, <1>2, <1>4, <1>5
  <2> QED
    BY <2>1, <2>2, <1>6
<1>10. s[1] = b[1]
  <2>1. 1 \in 1 .. Len(b) /\ 1 \in 1 .. Len(ba)
    BY <1>1, <1>4, <1>7
  <2>2. ba[1] = b[1]
    BY <2>1, <1>5
  <2>3. s[1] = ba[1]
    BY <2>1, <1>6
  <2> QED
    BY <2>2, <2>3
<1> HIDE DEF h
<1>11. /\ Len(s) = Strings(n) + 2
       /\ \A p \in h + 1 .. Strings(n) : StartStep(n, s[p]) /\ s[p].do = "schema"
       /\ s[Strings(n) + 1] = Step("string", Block(n, "no format"))
       /\ s[Strings(n) + 2] = Step("string", Block(n, "no name"))
       /\ \A i \in 1 .. K(n) :
            \E p \in 1 .. Strings(n) : s[p] = Step("schema", Block(Kids[n][i], "schema"))
  <2>1. /\ Len(s) = h + Len(AllocateSchema(n))
        /\ \A i \in 1 .. Len(AllocateSchema(n)) : s[h + i] = AllocateSchema(n)[i]
    BY <1>6, <1>7, Zenon DEF c
  <2> QED
    BY <1>4, <1>6, <1>8, <2>1, AllocateSchemaAt, Zenon
<1>12. \A p \in 1 .. Strings(n) : StartStep(n, s[p])
  <2> SUFFICES ASSUME NEW p \in 1 .. Strings(n)
               PROVE  StartStep(n, s[p])
    OBVIOUS
  <2>1. CASE p = 1
    BY <2>1, <1>1, <1>10, StepParts DEF StartStep
  <2>2. CASE p > 1 /\ p <= h
    <3>1. p - 1 \in 1 .. Len(a) /\ 1 + (p - 1) = p
      BY <2>2, <1>2, <1>4 DEF h
    <3>2. s[p] = a[p - 1]
      BY <3>1, <1>9
    <3>3. a[p - 1].do = "array" /\ a[p - 1].block \in ArrayLists(n)
      BY <3>1, <1>2
    <3> QED
      BY <3>2, <3>3 DEF StartStep
  <2>3. CASE p > h
    <3>1. p \in h + 1 .. Strings(n)
      BY <2>3, <1>4
    <3> QED
      BY <3>1, <1>11
  <2> QED
    BY <2>1, <2>2, <2>3, <1>4
<1>13. s[2] = Step("array", Block(n, "buffers"))
  <2>1. 1 \in 1 .. Len(a) /\ 1 + 1 = 2
    BY <1>2, <1>4
  <2>2. s[1 + 1] = a[1]
    BY <2>1, <1>9
  <2> QED
    BY <2>1, <2>2, <1>2
<1>14. ASSUME NEW i \in 1 .. K(n)
       PROVE  \E p \in 1 .. Strings(n) : s[p] = Step("array", Block(Kids[n][i], "array"))
  <2>1. 1 + Lists(n) + i \in 1 .. Len(a)
    BY <1>2, <1>4
  <2>2. s[1 + (1 + Lists(n) + i)] = a[1 + Lists(n) + i]
    BY <2>1, <1>9
  <2>3. 1 + (1 + Lists(n) + i) \in 1 .. Strings(n)
    BY <1>4, <1>8 DEF h
  <2>4. a[1 + Lists(n) + i] = Step("array", Block(Kids[n][i], "array"))
    BY <1>2
  <2> QED
    BY <2>2, <2>3, <2>4
<1>15. StartShape(n, s)
  BY <1>6, <1>8, <1>11, <1>12, <1>13, <1>14 DEF StartShape
<1> QED
  BY <1>15 DEF s, ba, b, a, c

(* The plan of a builder, position by position.                            *)
PlanShape(n) ==
  /\ Plan(n) \in Seq(Steps)
  /\ Len(Plan(n)) = Last(n)
  /\ \A p \in 1 .. Strings(n) : StartStep(n, Plan(n)[p])
  /\ phase # "building" => \A p \in 1 .. Strings(n) : Plan(n)[p].do = "schema"
  /\ Plan(n)[Strings(n) + 1] = Step("string", Block(n, "no format"))
  /\ Plan(n)[Strings(n) + 2] = Step("string", Block(n, "no name"))
  /\ Plan(n)[Strings(n) + 3] = Step("format", Block(n, "format"))
  /\ Plan(n)[Strings(n) + 4] = Step("name", Block(n, "name"))
  /\ Plan(n)[Strings(n) + 5] = Step("string", Block(n, "metadata"))
  /\ Before(n) = Strings(n) + 6 =>
       Plan(n)[Strings(n) + 6] = Step("take", Block(n, "data"))
  /\ \A i \in 1 .. K(n) : Plan(n)[Before(n) + i] = Step("kid", Block(Kids[n][i], "array"))
  /\ Plan(n)[Last(n)] =
       Step("return", Block(n, IF phase = "building" THEN "array" ELSE "schema"))
  /\ phase = "building" =>
       /\ Strings(n) >= 2 /\ Plan(n)[2] = Step("array", Block(n, "buffers"))
       /\ \A i \in 1 .. K(n) :
            \E p \in 1 .. Strings(n) : Plan(n)[p] = Step("array", Block(Kids[n][i], "array"))
  /\ \A i \in 1 .. K(n) :
       \E p \in 1 .. Strings(n) : Plan(n)[p] = Step("schema", Block(Kids[n][i], "schema"))

(* The steps of set_format(), set_name() and set_metadata().               *)
LEMMA DescribeIs ==
  ASSUME NEW n \in Nodes
  PROVE  /\ Describe(n) \in Seq(Steps) /\ Len(Describe(n)) = 3
         /\ Describe(n)[1] = Step("format", Block(n, "format"))
         /\ Describe(n)[2] = Step("name", Block(n, "name"))
         /\ Describe(n)[3] = Step("string", Block(n, "metadata"))
<1>1. /\ {"format", "name", "metadata"} \subseteq Purposes
      /\ {"format", "name", "string"} \subseteq Dos
  BY DEF Purposes, Dos
<1>2. /\ Step("format", Block(n, "format")) \in Steps
      /\ Step("name", Block(n, "name")) \in Steps
      /\ Step("string", Block(n, "metadata")) \in Steps
  BY <1>1, BlocksAre, StepsAre
<1>3. ASSUME NEW a \in Steps, NEW b \in Steps, NEW c \in Steps
      PROVE  /\ <<a, b, c>> \in Seq(Steps) /\ Len(<<a, b, c>>) = 3
             /\ <<a, b, c>>[1] = a /\ <<a, b, c>>[2] = b /\ <<a, b, c>>[3] = c
  OBVIOUS
<1> QED
  BY <1>2, <1>3, Zenon DEF Describe

(* The step that takes the buffers, where there is one.                    *)
LEMMA TakeStepIs ==
  ASSUME NEW n \in Nodes
  PROVE  /\ TakeStep(n) \in Seq(Steps)
         /\ n \in Structs => Len(TakeStep(n)) = 0
         /\ n \notin Structs =>
              Len(TakeStep(n)) = 1 /\ TakeStep(n)[1] = Step("take", Block(n, "data"))
<1>1. "data" \in Purposes /\ "take" \in Dos
  BY DEF Purposes, Dos
<1>2. Step("take", Block(n, "data")) \in Steps
  BY <1>1, BlocksAre, StepsAre
<1>3. CASE n \in Structs
  BY <1>3 DEF TakeStep
<1>4. CASE n \notin Structs
  <2>1. TakeStep(n) = <<Step("take", Block(n, "data"))>>
    BY <1>4 DEF TakeStep
  <2> QED
    BY <2>1, <1>2, <1>4, OneStep, Zenon
<1> QED
  BY <1>3, <1>4

(* The steps that release the children.                                    *)
LEMMA ReleaseKidsIs ==
  ASSUME NEW n \in Nodes
  PROVE  /\ ReleaseKids(n) \in Seq(Steps) /\ Len(ReleaseKids(n)) = K(n)
         /\ \A i \in 1 .. K(n) : ReleaseKids(n)[i] = Step("kid", Block(Kids[n][i], "array"))
<1>1. "array" \in Purposes /\ "kid" \in Dos
  BY DEF Purposes, Dos
<1>2. K(n) \in Nat /\ \A i \in 1 .. K(n) : Step("kid", Block(Kids[n][i], "array")) \in Steps
  BY <1>1, KidsAre, BlocksAre, StepsAre
<1>3. ReleaseKids(n) = [i \in 1 .. K(n) |-> Step("kid", Block(Kids[n][i], "array"))]
  BY DEF ReleaseKids, K
<1> QED
  BY <1>2, <1>3

(* A plan put together from its parts has the shape of a plan.             *)
LEMMA PlanFrom ==
  ASSUME NEW n \in Nodes, NEW u, StartShape(n, u),
         NEW t \in Seq(Steps), Before(n) = Strings(n) + 5 + Len(t),
         Before(n) = Strings(n) + 6 => t[1] = Step("take", Block(n, "data")),
         Plan(n) = u \o Describe(n) \o t \o ReleaseKids(n)
           \o <<Step("return", Block(n, IF phase = "building" THEN "array" ELSE "schema"))>>
  PROVE  PlanShape(n)
<1> DEFINE r == Step("return", Block(n, IF phase = "building" THEN "array" ELSE "schema"))
           d == Describe(n)
           k == ReleaseKids(n)
           w == u \o d
           x == w \o t
           y == x \o k
           z == y \o <<r>>
<1>1. /\ u \in Seq(Steps) /\ Len(u) = Strings(n) + 2
      /\ d \in Seq(Steps) /\ Len(d) = 3
      /\ d[1] = Step("format", Block(n, "format"))
      /\ d[2] = Step("name", Block(n, "name"))
      /\ d[3] = Step("string", Block(n, "metadata"))
  BY DescribeIs DEF StartShape
<1>2. /\ k \in Seq(Steps) /\ Len(k) = K(n)
      /\ \A i \in 1 .. K(n) : k[i] = Step("kid", Block(Kids[n][i], "array"))
  BY ReleaseKidsIs
<1>3. <<r>> \in Seq(Steps) /\ Len(<<r>>) = 1 /\ <<r>>[1] = r
  <2>1. "array" \in Purposes /\ "schema" \in Purposes /\ "return" \in Dos
    BY DEF Purposes, Dos
  <2>2. r \in Steps
    BY <2>1, BlocksAre, StepsAre
  <2> QED
    BY <2>2, OneStep, Zenon
<1>4. /\ Strings(n) \in Nat /\ K(n) \in Nat /\ Before(n) \in Nat /\ Len(t) \in Nat
      /\ Last(n) = Before(n) + K(n) + 1
  BY PositionsAre, KidsAre, LenProperties
<1>5. Plan(n) = z
  OBVIOUS
<1> HIDE DEF r, d, k
<1>6. /\ w \in Seq(Steps) /\ Len(w) = Strings(n) + 5
      /\ \A i \in 1 .. Strings(n) + 2 : w[i] = u[i]
      /\ w[Strings(n) + 3] = d[1] /\ w[Strings(n) + 4] = d[2] /\ w[Strings(n) + 5] = d[3]
  <2>1. /\ w \in Seq(Steps) /\ Len(w) = Len(u) + Len(d)
        /\ \A i \in 1 .. Len(u) : w[i] = u[i]
        /\ \A i \in 1 .. Len(d) : w[Len(u) + i] = d[i]
    BY <1>1, ThenAfter
  <2> HIDE DEF w
  <2>2. w[Len(u) + 1] = d[1] /\ w[Len(u) + 2] = d[2] /\ w[Len(u) + 3] = d[3]
    <3>1. 1 \in 1 .. Len(d) /\ 2 \in 1 .. Len(d) /\ 3 \in 1 .. Len(d)
      BY <1>1
    <3> QED
      BY <3>1, <2>1
  <2>3. /\ Len(u) + 1 = Strings(n) + 3 /\ Len(u) + 2 = Strings(n) + 4
        /\ Len(u) + 3 = Strings(n) + 5
    <3>1. Len(u) = Strings(n) + 2 /\ Strings(n) \in Nat
      BY <1>1, <1>4
    <3>2. \A c \in Nat : c + 2 + 1 = c + 3 /\ c + 2 + 2 = c + 4 /\ c + 2 + 3 = c + 5
      OBVIOUS
    <3> QED
      BY <3>1, <3>2, Zenon
  <2>4. /\ w[Strings(n) + 3] = d[1] /\ w[Strings(n) + 4] = d[2]
        /\ w[Strings(n) + 5] = d[3]
    BY <2>2, <2>3, Zenon
  <2>5. Len(w) = Strings(n) + 5
    BY <1>1, <1>4, <2>1
  <2>6. \A i \in 1 .. Strings(n) + 2 : w[i] = u[i]
    BY <1>1, <2>1
  <2> QED
    BY <2>1, <2>4, <2>5, <2>6
<1> HIDE DEF w
<1>7. /\ x \in Seq(Steps) /\ Len(x) = Before(n)
      /\ \A i \in 1 .. Strings(n) + 5 : x[i] = w[i]
      /\ Before(n) = Strings(n) + 6 => x[Strings(n) + 6] = t[1]
  <2>1. /\ x \in Seq(Steps) /\ Len(x) = Len(w) + Len(t)
        /\ \A i \in 1 .. Len(w) : x[i] = w[i]
        /\ \A i \in 1 .. Len(t) : x[Len(w) + i] = t[i]
    BY <1>6, ThenAfter
  <2> HIDE DEF x
  <2>2. ASSUME Before(n) = Strings(n) + 6
        PROVE  x[Strings(n) + 6] = t[1]
    <3>1. 1 \in 1 .. Len(t) /\ Len(w) + 1 = Strings(n) + 6
      BY <2>2, <1>4, <1>6, SMTT(30)
    <3>2. x[Len(w) + 1] = t[1]
      BY <3>1, <2>1
    <3> QED
      BY <3>1, <3>2, Zenon
  <2>3. Len(x) = Before(n) /\ \A i \in 1 .. Strings(n) + 5 : x[i] = w[i]
    BY <1>4, <1>6, <2>1
  <2> QED
    BY <2>1, <2>2, <2>3
<1> HIDE DEF x
<1>8. /\ y \in Seq(Steps) /\ Len(y) = Before(n) + K(n)
      /\ \A i \in 1 .. Before(n) : y[i] = x[i]
      /\ \A i \in 1 .. K(n) : y[Before(n) + i] = k[i]
  <2>1. /\ y \in Seq(Steps) /\ Len(y) = Len(x) + Len(k)
        /\ \A i \in 1 .. Len(x) : y[i] = x[i]
        /\ \A i \in 1 .. Len(k) : y[Len(x) + i] = k[i]
    BY <1>2, <1>7, ThenAfter
  <2> HIDE DEF y
  <2> QED
    BY <2>1, <1>2, <1>7, Zenon
<1> HIDE DEF y
<1>9. /\ z \in Seq(Steps) /\ Len(z) = Last(n)
      /\ \A i \in 1 .. Before(n) + K(n) : z[i] = y[i]
      /\ z[Last(n)] = r
  <2>1. /\ z \in Seq(Steps) /\ Len(z) = Len(y) + Len(<<r>>)
        /\ \A i \in 1 .. Len(y) : z[i] = y[i]
        /\ \A i \in 1 .. Len(<<r>>) : z[Len(y) + i] = <<r>>[i]
    BY <1>3, <1>8, ThenAfter
  <2> DEFINE one == <<r>>
  <2> HIDE DEF z, one
  <2>2. z[Len(y) + 1] = r
    <3>1. 1 \in 1 .. Len(one)
      BY <1>3 DEF one
    <3>2. z[Len(y) + 1] = one[1]
      BY <3>1, <2>1 DEF one
    <3> QED
      BY <3>2, <1>3, Zenon DEF one
  <2>3. Len(z) = Last(n) /\ Last(n) = Len(y) + 1
    BY <2>1, <1>3, <1>4, <1>8
  <2> QED
    BY <2>1, <2>2, <2>3, <1>8, Zenon
<1> HIDE DEF z
<1>10. \A i \in 1 .. Strings(n) + 2 : z[i] = u[i]
  <2> SUFFICES ASSUME NEW i \in 1 .. Strings(n) + 2
               PROVE  z[i] = u[i]
    OBVIOUS
  <2>1. i \in 1 .. Strings(n) + 5 /\ i \in 1 .. Before(n) /\ i \in 1 .. Before(n) + K(n)
    BY <1>4
  <2>2. z[i] = y[i] /\ y[i] = x[i] /\ x[i] = w[i] /\ w[i] = u[i]
    BY <2>1, <1>6, <1>7, <1>8, <1>9, Zenon
  <2> QED
    BY <2>2, Zenon
<1>16. /\ Strings(n) \in Nat /\ K(n) \in Nat /\ Before(n) \in Nat
       /\ Before(n) >= Strings(n) + 5
  <2>1. \A b, c, e \in Nat : b = c + 5 + e => b >= c + 5
    OBVIOUS
  <2>2. Before(n) = Strings(n) + 5 + Len(t)
    OBVIOUS
  <2> QED
    BY <2>1, <2>2, <1>4, Zenon
<1>11. /\ z[Strings(n) + 3] = d[1] /\ z[Strings(n) + 4] = d[2]
       /\ z[Strings(n) + 5] = d[3]
  <2>1. ASSUME NEW i \in 3 .. 5
        PROVE  z[Strings(n) + i] = w[Strings(n) + i]
    <3>1. /\ Strings(n) + i \in 1 .. Strings(n) + 5 /\ Strings(n) + i \in 1 .. Before(n)
          /\ Strings(n) + i \in 1 .. Before(n) + K(n)
      BY <1>16
    <3> QED
      BY <3>1, <1>7, <1>8, <1>9, Zenon
  <2>2. 3 \in 3 .. 5 /\ 4 \in 3 .. 5 /\ 5 \in 3 .. 5
    OBVIOUS
  <2> QED
    BY <2>1, <2>2, <1>6, Zenon
<1>12. ASSUME Before(n) = Strings(n) + 6
       PROVE  z[Strings(n) + 6] = Step("take", Block(n, "data"))
  <2>1. Strings(n) + 6 \in 1 .. Before(n) /\ Strings(n) + 6 \in 1 .. Before(n) + K(n)
    BY <1>16, <1>12
  <2> QED
    BY <2>1, <1>7, <1>8, <1>9, <1>12, Zenon
<1>13. ASSUME NEW i \in 1 .. K(n)
       PROVE  z[Before(n) + i] = Step("kid", Block(Kids[n][i], "array"))
  <2>1. Before(n) + i \in 1 .. Before(n) + K(n)
    BY <1>4
  <2> QED
    BY <2>1, <1>2, <1>8, <1>9, Zenon
<1>14. /\ \A p \in 1 .. Strings(n) : StartStep(n, z[p])
       /\ phase # "building" => \A p \in 1 .. Strings(n) : z[p].do = "schema"
       /\ z[Strings(n) + 1] = Step("string", Block(n, "no format"))
       /\ z[Strings(n) + 2] = Step("string", Block(n, "no name"))
       /\ phase = "building" =>
            /\ Strings(n) >= 2 /\ z[2] = Step("array", Block(n, "buffers"))
            /\ \A i \in 1 .. K(n) :
                 \E p \in 1 .. Strings(n) : z[p] = Step("array", Block(Kids[n][i], "array"))
       /\ \A i \in 1 .. K(n) :
            \E p \in 1 .. Strings(n) : z[p] = Step("schema", Block(Kids[n][i], "schema"))
  <2>1. /\ \A p \in 1 .. Strings(n) : z[p] = u[p]
        /\ z[Strings(n) + 1] = u[Strings(n) + 1]
        /\ z[Strings(n) + 2] = u[Strings(n) + 2]
        /\ Strings(n) >= 2 => z[2] = u[2]
    <3>1. /\ \A p \in 1 .. Strings(n) : p \in 1 .. Strings(n) + 2
          /\ Strings(n) + 1 \in 1 .. Strings(n) + 2
          /\ Strings(n) + 2 \in 1 .. Strings(n) + 2
          /\ Strings(n) >= 2 => 2 \in 1 .. Strings(n) + 2
      BY <1>4
    <3> QED
      BY <3>1, <1>10, Zenon
  <2> QED
    BY <2>1, Zenon DEF StartShape
<1>15. /\ \A i \in 1 .. K(n) : z[Before(n) + i] = Step("kid", Block(Kids[n][i], "array"))
       /\ z[Last(n)] =
            Step("return", Block(n, IF phase = "building" THEN "array" ELSE "schema"))
  BY <1>9, <1>13, Zenon DEF r
<1> QED
  BY <1>1, <1>5, <1>9, <1>11, <1>12, <1>14, <1>15, Zenon DEF PlanShape

(* Every plan has the shape of a plan.                                     *)
LEMMA PlanAt ==
  ASSUME NEW n \in Nodes
  PROVE  PlanShape(n)
<1>1. TakeStep(n) \in Seq(Steps) /\ Len(TakeStep(n)) \in Nat /\ Strings(n) \in Nat
  BY TakeStepIs, PositionsAre, LenProperties
<1>2. CASE phase = "building"
  <2> DEFINE u == <<Step("begin", Block(n, "array"))>> \o AllocateArray(n) \o AllocateSchema(n)
  <2>1. StartShape(n, u)
    BY <1>2, BuildStart, Zenon
  <2>2. /\ Before(n) = Strings(n) + 5 + Len(TakeStep(n))
        /\ Before(n) = Strings(n) + 6 => TakeStep(n)[1] = Step("take", Block(n, "data"))
    <3>1. CASE n \in Structs
      <4>1. Before(n) = Strings(n) + 5 /\ Len(TakeStep(n)) = 0
        BY <3>1, TakeStepIs DEF Before
      <4> QED
        BY <4>1, <1>1
    <3>2. CASE n \notin Structs
      <4>1. /\ Before(n) = Strings(n) + 6 /\ Len(TakeStep(n)) = 1
            /\ TakeStep(n)[1] = Step("take", Block(n, "data"))
        BY <3>2, <1>2, TakeStepIs DEF Before
      <4> QED
        BY <4>1, <1>1
    <3> QED
      BY <3>1, <3>2
  <2>3. Plan(n) = u \o Describe(n) \o TakeStep(n) \o ReleaseKids(n)
          \o <<Step("return", Block(n, IF phase = "building" THEN "array" ELSE "schema"))>>
    BY <1>2 DEF Plan
  <2> HIDE DEF u
  <2> QED
    BY <1>1, <2>1, <2>2, <2>3, PlanFrom, Zenon
<1>3. CASE phase # "building"
  <2> DEFINE u == AllocateSchema(n)
  <2>1. StartShape(n, u)
    BY <1>3, CopyStart, Zenon
  <2>2. << >> \in Seq(Steps) /\ Len(<< >>) = 0
    OBVIOUS
  <2>3. Before(n) = Strings(n) + 5 + Len(<< >>) /\ Before(n) # Strings(n) + 6
    BY <1>1, <1>3, <2>2 DEF Before
  <2>4. u \o Describe(n) \in Seq(Steps)
    BY <2>1, DescribeIs, ThenAfter DEF StartShape
  <2>5. u \o Describe(n) \o << >> = u \o Describe(n)
    <3> HIDE DEF u
    <3> QED
      BY <2>4, ConcatEmptySeq, Zenon
  <2>6. Plan(n) = u \o Describe(n) \o << >> \o ReleaseKids(n)
          \o <<Step("return", Block(n, IF phase = "building" THEN "array" ELSE "schema"))>>
    BY <1>3, <2>5, Zenon DEF Plan
  <2> HIDE DEF u
  <2> QED
    BY <2>1, <2>2, <2>3, <2>6, PlanFrom, Zenon
<1> QED
  BY <1>2, <1>3

(* What is done at each position.                                          *)
PlanCase(n, s) ==
  \/ /\ s <= Strings(n) /\ StartStep(n, Plan(n)[s])
     /\ phase # "building" => Plan(n)[s].do = "schema"
  \/ s = Strings(n) + 1 /\ Plan(n)[s] = Step("string", Block(n, "no format"))
  \/ s = Strings(n) + 2 /\ Plan(n)[s] = Step("string", Block(n, "no name"))
  \/ s = Strings(n) + 3 /\ Plan(n)[s] = Step("format", Block(n, "format"))
  \/ s = Strings(n) + 4 /\ Plan(n)[s] = Step("name", Block(n, "name"))
  \/ s = Strings(n) + 5 /\ Plan(n)[s] = Step("string", Block(n, "metadata"))
  \/ /\ s = Strings(n) + 6 /\ s = Before(n)
     /\ Plan(n)[s] = Step("take", Block(n, "data"))
  \/ \E i \in 1 .. K(n) :
       s = KidAt(n, i) /\ Plan(n)[s] = Step("kid", Block(Kids[n][i], "array"))
  \/ /\ s = Last(n)
     /\ Plan(n)[s] =
          Step("return", Block(n, IF phase = "building" THEN "array" ELSE "schema"))

(* These are all the positions there are.                                  *)
LEMMA PlanCases ==
  ASSUME NEW n \in Nodes, NEW s \in Nat, s >= 1, s <= Last(n)
  PROVE  PlanCase(n, s)
<1>1. PlanShape(n)
  BY PlanAt
<1>2. /\ Strings(n) \in Nat /\ K(n) \in Nat /\ Before(n) \in Nat
      /\ Before(n) \in {Strings(n) + 5, Strings(n) + 6}
      /\ Last(n) = Before(n) + K(n) + 1
  BY PositionsAre, KidsAre
<1>3. \/ s <= Strings(n)
      \/ s = Strings(n) + 1 \/ s = Strings(n) + 2 \/ s = Strings(n) + 3
      \/ s = Strings(n) + 4 \/ s = Strings(n) + 5
      \/ s = Strings(n) + 6 /\ s = Before(n)
      \/ s = Last(n)
      \/ s - Before(n) \in 1 .. K(n) /\ s = Before(n) + (s - Before(n))
  BY <1>2
<1>4. CASE s <= Strings(n)
  <2>1. s \in 1 .. Strings(n)
    BY <1>4, <1>2
  <2> QED
    BY <2>1, <1>1, <1>4, Zenon DEF PlanShape, PlanCase
<1>5. CASE s = Strings(n) + 1 \/ s = Strings(n) + 2 \/ s = Strings(n) + 3
           \/ s = Strings(n) + 4 \/ s = Strings(n) + 5
  BY <1>1, <1>5, Zenon DEF PlanShape, PlanCase
<1>6. CASE s = Strings(n) + 6 /\ s = Before(n)
  BY <1>1, <1>6, Zenon DEF PlanShape, PlanCase
<1>7. CASE s = Last(n)
  BY <1>1, <1>7, Zenon DEF PlanShape, PlanCase
<1>8. CASE s - Before(n) \in 1 .. K(n) /\ s = Before(n) + (s - Before(n))
  <2>1. PICK i \in 1 .. K(n) : s = Before(n) + i
    BY <1>8
  <2>2. s = KidAt(n, i) /\ Plan(n)[s] = Step("kid", Block(Kids[n][i], "array"))
    BY <2>1, <1>1, Zenon DEF PlanShape, KidAt
  <2> QED
    BY <2>2, Zenon DEF PlanCase
<1> QED
  BY <1>3, <1>4, <1>5, <1>6, <1>7, <1>8, Zenon

-----------------------------------------------------------------------------

(***************************************************************************)
(* The innermost frame.                                                    *)
(***************************************************************************)
TopIs ==
  /\ frames \in Seq(Frames) /\ Len(frames) \in Nat /\ Len(frames) >= 1
  /\ Len(frames) \in 1 .. Len(frames)
  /\ \A j \in 1 .. Len(frames) : frames[j].node \in Nodes /\ frames[j].step \in Nat \ {0}
  /\ Node \in Nodes /\ Top.step \in Nat /\ Top.step >= 1
  /\ Top = frames[Len(frames)] /\ Node = frames[Len(frames)].node
  /\ Callers \in Seq(Frames) /\ Len(Callers) = Len(frames) - 1
  /\ \A j \in 1 .. Len(frames) - 1 : Callers[j] = frames[j]

(* There is one while anything runs.                                       *)
LEMMA TopOf ==
  ASSUME TypeInv, frames # << >>
  PROVE  TopIs
<1>1. frames \in Seq(Frames) /\ Len(frames) \in Nat /\ Len(frames) >= 1
  BY LenProperties, EmptySeq DEF TypeInv
<1>2. \A j \in 1 .. Len(frames) :
        frames[j] \in Frames /\ frames[j].node \in Nodes /\ frames[j].step \in Nat \ {0}
  <2> SUFFICES ASSUME NEW j \in 1 .. Len(frames)
               PROVE  frames[j] \in Frames /\ frames[j].node \in Nodes
                      /\ frames[j].step \in Nat \ {0}
    OBVIOUS
  <2>1. frames[j] \in Frames
    BY <1>1, ElementOfSeq, Zenon
  <2> QED
    BY <2>1 DEF Frames
<1>3. Len(frames) \in 1 .. Len(frames)
  BY <1>1
<1>4. /\ Callers \in Seq(Frames)
      /\ Len(Callers) = IF 1 <= Len(frames) - 1 THEN Len(frames) - 1 - 1 + 1 ELSE 0
      /\ \A i \in 1 .. Len(frames) - 1 - 1 + 1 : Callers[i] = frames[1 + i - 1]
  <2>1. 1 \in Int /\ Len(frames) - 1 \in Int
    BY <1>1
  <2>2. \A i \in 1 .. Len(frames) - 1 : frames[i] \in Frames
    BY <1>1, <1>2
  <2> QED
    <3> DEFINE e == Len(frames) - 1
    <3>1. /\ SubSeq(frames, 1, e) \in Seq(Frames)
          /\ Len(SubSeq(frames, 1, e)) = IF 1 <= e THEN e - 1 + 1 ELSE 0
          /\ \A i \in 1 .. e - 1 + 1 : SubSeq(frames, 1, e)[i] = frames[1 + i - 1]
      <4> HIDE DEF e
      <4>1. e \in Int /\ 1 \in Int /\ \A i \in 1 .. e : frames[i] \in Frames
        BY <2>1, <2>2 DEF e
      <4> QED
        BY <4>1, SubSeqProperties
    <3> QED
      BY <3>1, Zenon DEF Callers
<1>5. Len(Callers) = Len(frames) - 1
  <2>1. \A q \in Nat : q >= 1 => (IF 1 <= q - 1 THEN q - 1 - 1 + 1 ELSE 0) = q - 1
    OBVIOUS
  <2> QED
    BY <2>1, <1>1, <1>4, Zenon
<1>6. \A j \in 1 .. Len(frames) - 1 : Callers[j] = frames[j]
  <2> SUFFICES ASSUME NEW j \in 1 .. Len(frames) - 1
               PROVE  Callers[j] = frames[j]
    OBVIOUS
  <2>1. j \in 1 .. Len(frames) - 1 - 1 + 1 /\ 1 + j - 1 = j
    BY <1>1
  <2> QED
    BY <2>1, <1>4, Zenon
<1>7. Node \in Nodes /\ Top.step \in Nat /\ Top.step >= 1
  BY <1>2, <1>3 DEF Node, Top
<1> QED
  BY <1>1, <1>2, <1>3, <1>4, <1>5, <1>6, <1>7 DEF TopIs, Top, Node

(* What the innermost frame is about to do.                                *)
DoIs ==
  /\ PlanCase(Node, Top.step) /\ Top.step <= Last(Node)
  /\ Target \in Blocks
  /\ Do \in {"begin", "array", "schema"} <=> Top.step <= Strings(Node)
  /\ Do = "array" => phase = "building" /\ Target \in ArrayLists(Node)
  /\ Do = "schema" => Target \in SchemaLists(Node)
  /\ Do = "string" =>
       \/ Top.step = Strings(Node) + 1 /\ Target = Block(Node, "no format")
       \/ Top.step = Strings(Node) + 2 /\ Target = Block(Node, "no name")
       \/ Top.step = Strings(Node) + 5 /\ Target = Block(Node, "metadata")
  /\ Do = "format" => Top.step = Strings(Node) + 3 /\ Target = Block(Node, "format")
  /\ Do = "name" => Top.step = Strings(Node) + 4 /\ Target = Block(Node, "name")
  /\ Do = "take" => phase = "building" /\ Top.step = Strings(Node) + 6 /\ Top.step = Before(Node)
  /\ Do = "kid" =>
       \E i \in 1 .. K(Node) :
         Top.step = KidAt(Node, i) /\ Target = Block(Kids[Node][i], "array")
  /\ Do = "return" =>
       /\ Top.step = Last(Node)
       /\ Target = Block(Node, IF phase = "building" THEN "array" ELSE "schema")
  /\ Do # "return" => Top.step < Last(Node)

(* It is a step of the plan.                                               *)
LEMMA DoOf ==
  ASSUME TopIs, Top.step <= Last(Node)
  PROVE  DoIs
<1> DEFINE n == Node
           s == Top.step
           x == Plan(n)[s]
           S == Strings(n)
<1>1. n \in Nodes /\ s \in Nat /\ s >= 1 /\ s <= Last(n)
  BY DEF TopIs
<1>2. PlanCase(n, s) /\ PlanShape(n)
  BY <1>1, PlanCases, PlanAt, Zenon
<1>3. Do = x.do /\ Target = x.block
  BY DEF Do, Target
<1>4. /\ S \in Nat /\ K(n) \in Nat /\ Before(n) \in {S + 5, S + 6} /\ Before(n) \in Nat
      /\ Last(n) = Before(n) + K(n) + 1
      /\ \A i \in 1 .. K(n) : KidAt(n, i) = Before(n) + i
  BY <1>1, PositionsAre, KidsAre
<1>5. x \in Steps
  <2>1. Plan(n) \in Seq(Steps) /\ Len(Plan(n)) = Last(n)
    BY <1>2, Zenon DEF PlanShape
  <2>2. s \in 1 .. Last(n)
    <3> HIDE DEF s, n
    <3> QED
      BY <1>1, <1>4
  <2>3. s \in 1 .. Len(Plan(n))
    BY <2>1, <2>2, Zenon
  <2> QED
    BY <2>1, <2>3, ElementOfSeq, Zenon
<1>6. Target \in Blocks
  BY <1>3, <1>5 DEF Steps
<1> HIDE DEF n, s, x, S
<1>17. S \in Nat /\ Last(n) \in Nat /\ S + 5 < Last(n)
  BY <1>4
<1>18. ASSUME NEW i \in 1 .. 5, s = S + i
       PROVE  s < Last(n) /\ ~(s <= S)
  BY <1>17, <1>18
<1>7. CASE s <= S /\ StartStep(n, x) /\ (phase # "building" => x.do = "schema")
  <2>1. /\ Do \in {"begin", "array", "schema"}
        /\ Do = "array" => phase = "building" /\ Target \in ArrayLists(n)
        /\ Do = "schema" => Target \in SchemaLists(n)
    BY <1>3, <1>7 DEF StartStep
  <2>2. s < Last(n)
    BY <1>1, <1>4, <1>7
  <2> QED
    BY <2>1, <2>2, <1>1, <1>2, <1>6, <1>7 DEF DoIs, n, s, S
<1>8. CASE s = S + 1 /\ x = Step("string", Block(n, "no format"))
  <2>1. Do = "string" /\ Target = Block(n, "no format")
    BY <1>3, <1>8, StepParts
  <2>2. s < Last(n) /\ ~(s <= S)
    <3>1. 1 \in 1 .. 5
      OBVIOUS
    <3> QED
      BY <3>1, <1>18, <1>8, Zenon
  <2> QED
    BY <2>1, <2>2, <1>1, <1>2, <1>6, <1>8 DEF DoIs, n, s, S
<1>9. CASE s = S + 2 /\ x = Step("string", Block(n, "no name"))
  <2>1. Do = "string" /\ Target = Block(n, "no name")
    BY <1>3, <1>9, StepParts
  <2>2. s < Last(n) /\ ~(s <= S)
    <3>1. 2 \in 1 .. 5
      OBVIOUS
    <3> QED
      BY <3>1, <1>18, <1>9, Zenon
  <2> QED
    BY <2>1, <2>2, <1>1, <1>2, <1>6, <1>9 DEF DoIs, n, s, S
<1>10. CASE s = S + 3 /\ x = Step("format", Block(n, "format"))
  <2>1. Do = "format" /\ Target = Block(n, "format")
    BY <1>3, <1>10, StepParts
  <2>2. s < Last(n) /\ ~(s <= S)
    <3>1. 3 \in 1 .. 5
      OBVIOUS
    <3> QED
      BY <3>1, <1>18, <1>10, Zenon
  <2> QED
    BY <2>1, <2>2, <1>1, <1>2, <1>6, <1>10 DEF DoIs, n, s, S
<1>11. CASE s = S + 4 /\ x = Step("name", Block(n, "name"))
  <2>1. Do = "name" /\ Target = Block(n, "name")
    BY <1>3, <1>11, StepParts
  <2>2. s < Last(n) /\ ~(s <= S)
    <3>1. 4 \in 1 .. 5
      OBVIOUS
    <3> QED
      BY <3>1, <1>18, <1>11, Zenon
  <2> QED
    BY <2>1, <2>2, <1>1, <1>2, <1>6, <1>11 DEF DoIs, n, s, S
<1>12. CASE s = S + 5 /\ x = Step("string", Block(n, "metadata"))
  <2>1. Do = "string" /\ Target = Block(n, "metadata")
    BY <1>3, <1>12, StepParts
  <2>2. s < Last(n) /\ ~(s <= S)
    <3>1. 5 \in 1 .. 5
      OBVIOUS
    <3> QED
      BY <3>1, <1>18, <1>12, Zenon
  <2> QED
    BY <2>1, <2>2, <1>1, <1>2, <1>6, <1>12 DEF DoIs, n, s, S
<1>13. CASE s = S + 6 /\ s = Before(n) /\ x = Step("take", Block(n, "data"))
  <2>1. Do = "take"
    BY <1>3, <1>13, StepParts
  <2>2. s < Last(n) /\ ~(s <= S)
    BY <1>1, <1>4, <1>13
  <2>3. phase = "building"
    <3>1. phase # "building" => Before(n) = S + 5
      BY DEF Before, S
    <3> QED
      BY <3>1, <1>4, <1>13
  <2> QED
    BY <2>1, <2>2, <2>3, <1>1, <1>2, <1>6, <1>13 DEF DoIs, n, s, S
<1>14. CASE \E i \in 1 .. K(n) : s = KidAt(n, i) /\ x = Step("kid", Block(Kids[n][i], "array"))
  <2> PICK i \in 1 .. K(n) : s = KidAt(n, i) /\ x = Step("kid", Block(Kids[n][i], "array"))
    BY <1>14
  <2>1. Do = "kid" /\ Target = Block(Kids[n][i], "array")
    BY <1>3, StepParts
  <2>2. s < Last(n) /\ ~(s <= S)
    <3>1. s = Before(n) + i
      BY <1>4
    <3> QED
      BY <3>1, <1>1, <1>4
  <2> QED
    BY <2>1, <2>2, <1>1, <1>2, <1>6 DEF DoIs, n, s, S
<1>15. CASE /\ s = Last(n)
            /\ x = Step("return", Block(n, IF phase = "building" THEN "array" ELSE "schema"))
  <2>1. /\ Do = "return"
        /\ Target = Block(n, IF phase = "building" THEN "array" ELSE "schema")
    BY <1>3, <1>15, StepParts
  <2>2. ~(s <= S)
    BY <1>1, <1>4, <1>15
  <2> QED
    BY <2>1, <2>2, <1>1, <1>2, <1>6, <1>15 DEF DoIs, n, s, S
<1>16. \/ s <= S /\ StartStep(n, x) /\ (phase # "building" => x.do = "schema")
       \/ s = S + 1 /\ x = Step("string", Block(n, "no format"))
       \/ s = S + 2 /\ x = Step("string", Block(n, "no name"))
       \/ s = S + 3 /\ x = Step("format", Block(n, "format"))
       \/ s = S + 4 /\ x = Step("name", Block(n, "name"))
       \/ s = S + 5 /\ x = Step("string", Block(n, "metadata"))
       \/ s = S + 6 /\ s = Before(n) /\ x = Step("take", Block(n, "data"))
       \/ \E i \in 1 .. K(n) :
            s = KidAt(n, i) /\ x = Step("kid", Block(Kids[n][i], "array"))
       \/ /\ s = Last(n)
          /\ x = Step("return", Block(n, IF phase = "building" THEN "array" ELSE "schema"))
  BY <1>2, Zenon DEF PlanCase, x, S
<1> QED
  BY <1>7, <1>8, <1>9, <1>10, <1>11, <1>12, <1>13, <1>14, <1>15, <1>16, Zenon

(* The top frame goes on to its next step.                                 *)
WentOn ==
  /\ frames' \in Seq(Frames) /\ Len(frames') = Len(frames)
  /\ frames' # << >>
  /\ \A j \in 1 .. Len(frames) - 1 : frames'[j] = frames[j]
  /\ frames'[Len(frames)].node = Node /\ frames'[Len(frames)].step = Top.step + 1
  /\ \A j \in 1 .. Len(frames) : frames'[j].node = frames[j].node
  /\ phase' = phase

(* That is what GoOn does.                                                 *)
LEMMA GoesOn ==
  ASSUME TopIs, GoOn
  PROVE  WentOn
<1> DEFINE f == [node |-> Node, step |-> Top.step + 1]
<1>1. frames' = Append(Callers, f) /\ phase' = phase
  BY DEF GoOn
<1>2. f \in Frames /\ f.node = Node /\ f.step = Top.step + 1
  BY DEF Frames, TopIs
<1> HIDE DEF f
<1>3. /\ Append(Callers, f) \in Seq(Frames)
      /\ Len(Append(Callers, f)) = Len(Callers) + 1
      /\ \A i \in 1 .. Len(Callers) : Append(Callers, f)[i] = Callers[i]
      /\ Append(Callers, f)[Len(Callers) + 1] = f
  BY <1>2, AppendProperties DEF TopIs
<1>4. Len(Callers) = Len(frames) - 1 /\ Len(Callers) + 1 = Len(frames) /\ Len(frames) \in Nat
  BY DEF TopIs
<1>5. /\ frames' \in Seq(Frames) /\ Len(frames') = Len(frames)
      /\ \A j \in 1 .. Len(frames) - 1 : frames'[j] = frames[j]
      /\ frames'[Len(frames)] = f
  BY <1>1, <1>3, <1>4, Zenon DEF TopIs
<1>6. frames' # << >>
  BY <1>5, EmptySeq DEF TopIs
<1>7. ASSUME NEW j \in 1 .. Len(frames)
      PROVE  frames'[j].node = frames[j].node
  <2>1. j \in 1 .. Len(frames) - 1 \/ j = Len(frames)
    BY <1>4
  <2> QED
    BY <2>1, <1>2, <1>5, Zenon DEF TopIs
<1> QED
  BY <1>1, <1>2, <1>5, <1>6, <1>7, Zenon DEF WentOn

-----------------------------------------------------------------------------

(***************************************************************************)
(* Names: no block is of two arrays, of two schemas, or of one of each.    *)
(***************************************************************************)
LEMMA OneName ==
  ASSUME NEW m \in Nodes, NEW n \in Nodes, NEW b
  PROVE  /\ b \in ArrayBlocks(m) /\ b \in ArrayBlocks(n) => m = n
         /\ b \in SchemaBlocks(m) /\ b \in SchemaBlocks(n) => m = n
         /\ ~(b \in ArrayBlocks(m) /\ b \in SchemaBlocks(n))
         /\ b = Block(m, "data") /\ b \in ArrayBlocks(n) => m = n
         /\ ~(b = Block(m, "data") /\ b \in SchemaBlocks(n))
<1>1. \A j, k \in Nodes : KidsOf(j) \cap KidsOf(k) # {} => j = k
  BY BelowRootAssumption DEF KidsOf
<1>2. \A j, k : \A x, y : Block(j, x) = Block(k, y) => j = k /\ x = y
  BY DEF Block
<1>3. ASSUME b \in ArrayBlocks(m)
      PROVE  \/ \E what \in {"data", "buffers", "children"} : b = Block(m, what)
             \/ \E k \in KidsOf(m) : b = Block(k, "array")
  BY <1>3 DEF ArrayBlocks, ArrayLists
<1>4. ASSUME b \in ArrayBlocks(n)
      PROVE  \/ \E what \in {"data", "buffers", "children"} : b = Block(n, what)
             \/ \E k \in KidsOf(n) : b = Block(k, "array")
  BY <1>4 DEF ArrayBlocks, ArrayLists
<1>5. ASSUME b \in SchemaBlocks(m)
      PROVE  \/ \E what \in SchemaStrings \cup {"schema children"} : b = Block(m, what)
             \/ \E k \in KidsOf(m) : b = Block(k, "schema")
  BY <1>5 DEF SchemaBlocks, SchemaLists
<1>11. ASSUME b \in SchemaBlocks(n)
       PROVE  \/ \E what \in SchemaStrings \cup {"schema children"} : b = Block(n, what)
              \/ \E k \in KidsOf(n) : b = Block(k, "schema")
  BY <1>11 DEF SchemaBlocks, SchemaLists
<1>6. b \in ArrayBlocks(m) /\ b \in ArrayBlocks(n) => m = n
  BY <1>1, <1>2, <1>3, <1>4
<1>7. b \in SchemaBlocks(m) /\ b \in SchemaBlocks(n) => m = n
  <2> SUFFICES ASSUME b \in SchemaBlocks(m), b \in SchemaBlocks(n)
               PROVE  m = n
    OBVIOUS
  <2>1. \/ \E what : what # "schema" /\ b = Block(m, what)
        \/ \E k \in KidsOf(m) : b = Block(k, "schema")
    BY <1>5 DEF SchemaStrings
  <2>2. \/ \E what : what # "schema" /\ b = Block(n, what)
        \/ \E k \in KidsOf(n) : b = Block(k, "schema")
    BY <1>11 DEF SchemaStrings
  <2>3. CASE \E what : what # "schema" /\ b = Block(m, what)
    BY <1>2, <2>2, <2>3
  <2>4. CASE \E k \in KidsOf(m) : b = Block(k, "schema")
    BY <1>1, <1>2, <2>2, <2>4
  <2> QED
    BY <2>1, <2>3, <2>4
<1>8. ~(b \in ArrayBlocks(m) /\ b \in SchemaBlocks(n))
  BY <1>2, <1>3, <1>11 DEF SchemaStrings
<1>9. b = Block(m, "data") /\ b \in ArrayBlocks(n) => m = n
  BY <1>2, <1>4
<1>10. ~(b = Block(m, "data") /\ b \in SchemaBlocks(n))
  BY <1>2, <1>11 DEF SchemaStrings
<1> QED
  BY <1>6, <1>7, <1>8, <1>9, <1>10

(***************************************************************************)
(* What releasing a tree does: a structure goes with all that it owns, or  *)
(* stays with all of it.                                                   *)
(***************************************************************************)
CutFrom(s, t, freed) ==
  /\ t \in [Nodes -> Structure]
  /\ \A m \in Nodes :
       \/ t[m] = s[m] /\ s[m].own \cap freed = {}
       \/ t[m] = Released /\ s[m].own \subseteq freed
  /\ \A b \in freed : \E m \in Nodes : b \in s[m].own

(* Nothing is cut.                                                         *)
LEMMA CutNothing ==
  ASSUME NEW s \in [Nodes -> Structure]
  PROVE  CutFrom(s, s, {})
BY DEF CutFrom

(* The callbacks cut a tree of structures that have no block in common.    *)
LEMMA CutTree ==
  ASSUME NEW s \in [Nodes -> Structure], NEW what, NEW n \in Nodes,
         \A l, m \in Nodes : s[l].own \cap s[m].own # {} => l = m
  PROVE  CutFrom(s, WithoutTree(s, what, n), Owned(s, what, n))
<1> DEFINE t == WithoutTree(s, what, n)
           B == Beneath(s, what, n)
<1>1. B \subseteq Nodes
  BY DEF Beneath
<1>2. \A m \in Nodes : t[m] = IF m \in B THEN Released ELSE s[m]
  BY DEF WithoutTree
<1>3. \A b : b \in Owned(s, what, n) <=> \E m \in B : b \in s[m].own
  BY DEF Owned
<1>4. t \in [Nodes -> Structure]
  BY DEF WithoutTree, Released, Structure
<1> HIDE DEF B, t
<1>5. ASSUME NEW m \in Nodes
      PROVE  \/ t[m] = s[m] /\ s[m].own \cap Owned(s, what, n) = {}
             \/ t[m] = Released /\ s[m].own \subseteq Owned(s, what, n)
  BY <1>1, <1>2, <1>3
<1> QED
  BY <1>1, <1>3, <1>4, <1>5 DEF CutFrom, t

(* Arrays have no block in common, nor have schemas.                       *)
LEMMA Disjoint ==
  ASSUME OwnInv
  PROVE  /\ \A l, m \in Nodes : array[l].own \cap array[m].own # {} => l = m
         /\ \A l, m \in Nodes : schema[l].own \cap schema[m].own # {} => l = m
<1>1. \A l \in Nodes : array[l].own \subseteq ArrayBlocks(l) /\ schema[l].own \subseteq SchemaBlocks(l)
  BY DEF OwnInv
<1> QED
  BY <1>1, OneName

(* The builders give up what they have, or nothing.                        *)
CutBuilders(freed) ==
  \/ builder' = builder /\ freed = {}
  \/ builder' = [n \in Nodes |-> {}] /\ freed = UNION {builder[n] : n \in Nodes}

(* Freeing what is cut leaves every block that is left with its owner.     *)
LEMMA FreeKeeps ==
  ASSUME TypeInv, OwnInv, HeapInv, NEW fa, NEW fs, NEW fb,
         CutFrom(array, array', fa), CutFrom(schema, schema', fs), CutBuilders(fb),
         Free(fa \cup fs \cup fb), mislaid' = mislaid,
         mislaid => phase' \in {"throwing", "threw", "done"}
  PROVE  /\ OwnInv' /\ HeapInv'
         /\ heap' \subseteq Blocks /\ misfreed' \in BOOLEAN
         /\ builder' \in [Nodes -> SUBSET Blocks]
<1> DEFINE f == fa \cup fs \cup fb
<1>1. heap' = heap \ f /\ misfreed' = (misfreed \/ ~(f \subseteq heap))
  BY DEF Free
<1>2. \A m \in Nodes :
        \/ array'[m] = array[m] /\ array[m].own \cap fa = {}
        \/ array'[m] = Released /\ array[m].own \subseteq fa
  BY DEF CutFrom
<1>3. \A m \in Nodes :
        \/ schema'[m] = schema[m] /\ schema[m].own \cap fs = {}
        \/ schema'[m] = Released /\ schema[m].own \subseteq fs
  BY DEF CutFrom
<1>4. \A m \in Nodes :
        \/ builder'[m] = builder[m] /\ fb = {}
        \/ builder'[m] = {} /\ builder[m] \subseteq fb
  BY DEF CutBuilders
<1>5. /\ \A b \in fa : \E m \in Nodes : b \in array[m].own
      /\ \A b \in fs : \E m \in Nodes : b \in schema[m].own
      /\ \A b \in fb : \E m \in Nodes : b \in builder[m]
  BY DEF CutFrom, CutBuilders
<1>6. \A m \in Nodes : Released.own = {} /\ Released.live = FALSE
  BY DEF Released
<1>7. \A m \in Nodes :
        /\ array'[m].own \subseteq array[m].own /\ schema'[m].own \subseteq schema[m].own
        /\ builder'[m] \subseteq builder[m]
        /\ array'[m].own # {} => array'[m] = array[m]
        /\ schema'[m].own # {} => schema'[m] = schema[m]
  BY <1>2, <1>3, <1>4, <1>6
<1>8. OwnInv'
  <2> SUFFICES ASSUME NEW m \in Nodes
               PROVE  /\ builder'[m] \subseteq {Block(m, "data")}
                      /\ array'[m].own \subseteq ArrayBlocks(m)
                      /\ schema'[m].own \subseteq SchemaBlocks(m)
                      /\ Block(m, "data") \in array'[m].own => builder'[m] = {}
                      /\ array'[m].own # {} => array'[m].live
                      /\ schema'[m].own # {} => schema'[m].live
    BY Zenon DEF OwnInv, ArrayBlocks, SchemaBlocks
  <2>1. /\ builder[m] \subseteq {Block(m, "data")}
        /\ array[m].own \subseteq ArrayBlocks(m)
        /\ schema[m].own \subseteq SchemaBlocks(m)
        /\ Block(m, "data") \in array[m].own => builder[m] = {}
        /\ array[m].own # {} => array[m].live
        /\ schema[m].own # {} => schema[m].live
    BY Zenon DEF OwnInv
  <2> QED
    BY <2>1, <1>7
<1>9. ASSUME NEW b \in heap'
      PROVE  \E n \in Nodes : b \in OwnedBy(n)'
  <2>1. b \in heap /\ b \notin fa /\ b \notin fs /\ b \notin fb
    BY <1>1
  <2>2. PICK n \in Nodes : b \in builder[n] \cup array[n].own \cup schema[n].own
    BY <2>1 DEF HeapInv, OwnedBy
  <2>3. b \in builder'[n] \cup array'[n].own \cup schema'[n].own
    BY <2>1, <2>2, <1>2, <1>3, <1>4
  <2> QED
    BY <2>3 DEF OwnedBy
<1>10. ASSUME ~mislaid
       PROVE  ~misfreed' /\ \A n \in Nodes : OwnedBy(n)' \subseteq heap'
  <2>1. ~misfreed /\ \A n \in Nodes : builder[n] \cup array[n].own \cup schema[n].own \subseteq heap
    BY <1>10 DEF HeapInv, OwnedBy
  <2>2. f \subseteq heap
    BY <2>1, <1>5
  <2>3. ASSUME NEW n \in Nodes, NEW b \in builder'[n] \cup array'[n].own \cup schema'[n].own
        PROVE  b \in heap'
    <3>1. /\ \A m \in Nodes : builder[m] \subseteq {Block(m, "data")}
          /\ \A m \in Nodes : array[m].own \subseteq ArrayBlocks(m)
          /\ \A m \in Nodes : schema[m].own \subseteq SchemaBlocks(m)
          /\ \A m \in Nodes : Block(m, "data") \in array[m].own => builder[m] = {}
      BY DEF OwnInv
    <3>2. b \in heap
      BY <2>1, <2>3, <1>7
    <3>3. CASE b \in array'[n].own
      <4>1. b \in array[n].own /\ b \notin fa /\ b \in ArrayBlocks(n)
        BY <3>1, <3>3, <1>2, <1>6
      <4>2. b \notin fs
        BY <4>1, <3>1, <1>5, OneName
      <4>3. b \notin fb
        <5> SUFFICES ASSUME b \in fb PROVE FALSE
          OBVIOUS
        <5>1. PICK m \in Nodes : b \in builder[m]
          BY <1>5
        <5>2. b = Block(m, "data")
          BY <5>1, <3>1
        <5>3. m = n
          BY <5>2, <4>1, OneName
        <5> QED
          BY <5>1, <5>2, <5>3, <4>1, <3>1
      <4> QED
        BY <4>1, <4>2, <4>3, <3>2, <1>1
    <3>4. CASE b \in schema'[n].own
      <4>1. b \in schema[n].own /\ b \notin fs /\ b \in SchemaBlocks(n)
        BY <3>1, <3>4, <1>3, <1>6
      <4>2. b \notin fa
        BY <4>1, <3>1, <1>5, OneName
      <4>3. b \notin fb
        BY <4>1, <3>1, <1>5, OneName
      <4> QED
        BY <4>1, <4>2, <4>3, <3>2, <1>1
    <3>5. CASE b \in builder'[n]
      <4>1. b \in builder[n] /\ b \notin fb /\ b = Block(n, "data")
        BY <3>1, <3>5, <1>4
      <4>2. b \notin fs
        BY <4>1, <3>1, <1>5, OneName
      <4>3. b \notin fa
        <5> SUFFICES ASSUME b \in fa PROVE FALSE
          OBVIOUS
        <5>1. PICK m \in Nodes : b \in array[m].own
          BY <1>5
        <5>2. b \in ArrayBlocks(m)
          BY <5>1, <3>1
        <5>3. m = n
          BY <5>2, <4>1, OneName
        <5> QED
          BY <5>1, <5>3, <4>1, <3>1
      <4> QED
        BY <4>1, <4>2, <4>3, <3>2, <1>1
    <3> QED
      BY <2>3, <3>3, <3>4, <3>5
  <2>4. ~misfreed'
    BY <2>1, <2>2, <1>1
  <2> QED
    BY <2>3, <2>4 DEF OwnedBy
<1>11. HeapInv'
  BY <1>9, <1>10 DEF HeapInv
<1>12. /\ heap' \subseteq Blocks /\ misfreed' \in BOOLEAN
       /\ builder' \in [Nodes -> SUBSET Blocks]
  BY <1>1 DEF TypeInv, CutBuilders
<1> QED
  BY <1>8, <1>11, <1>12

-----------------------------------------------------------------------------

(***************************************************************************)
(* Steps of a builder keep who owns what.                                  *)
(***************************************************************************)

(* What runs has an innermost frame, with a step of its plan to take, and  *)
(* has not lost a string.                                                  *)
LEMMA RunningIs ==
  ASSUME OwnershipInv, Running
  PROVE  /\ TopIs /\ DoIs
         /\ ~mislaid /\ ~misfreed
         /\ Done(Node, Top.step)
         /\ \A n \in Nodes : OwnedBy(n) \subseteq heap
<1>1. frames # << >> /\ \A j \in 1 .. Len(frames) : frames[j].step <= Last(frames[j].node)
  BY DEF OwnershipInv, FramesInv
<1>2. TopIs
  BY <1>1, TopOf DEF OwnershipInv
<1>3. Top.step <= Last(Node)
  BY <1>1, <1>2 DEF TopIs
<1>4. DoIs
  BY <1>2, <1>3, DoOf
<1>5. ~mislaid
  BY DEF OwnershipInv, HeapInv, Running
<1>6. Done(Node, Top.step)
  BY <1>2 DEF OwnershipInv, DoneInv, TopIs
<1> QED
  BY <1>2, <1>4, <1>5, <1>6 DEF OwnershipInv, HeapInv

(* A plan depends on what is being done only.                              *)
LEMMA SamePlan ==
  ASSUME phase' = phase
  PROVE  \A n : /\ Plan(n)' = Plan(n) /\ Strings(n)' = Strings(n) /\ Before(n)' = Before(n)
                /\ Last(n)' = Last(n) /\ \A i : KidAt(n, i)' = KidAt(n, i)
<1>1. \A n : Plan(n)' = Plan(n)
  BY DEF Plan, AllocateArray, AllocateSchema, Describe, TakeStep, ReleaseKids, Step,
         Allocations, Block, KidBlocks
<1>2. \A n : Strings(n)' = Strings(n)
  BY DEF Strings, Lists, K
<1>3. \A n : Before(n)' = Before(n)
  BY <1>2 DEF Before
<1> QED
  BY <1>1, <1>2, <1>3 DEF Last, KidAt, K

(* The stack when the innermost frame goes on.                             *)
LEMMA FramesGoOn ==
  ASSUME TopIs, FramesInv, Running, WentOn, Top.step < Last(Node)
  PROVE  FramesInv'
<1>1. Running' /\ phase' = phase
  BY DEF WentOn, Running
<1>3. /\ Len(frames') = Len(frames) /\ frames' # << >> /\ Len(frames) \in Nat
      /\ Len(frames) >= 1
      /\ \A j \in 1 .. Len(frames) : frames'[j].node = frames[j].node
      /\ \A j \in 1 .. Len(frames) - 1 : frames'[j] = frames[j]
      /\ frames'[Len(frames)].step = Top.step + 1
      /\ Node = frames[Len(frames)].node /\ Top.step \in Nat /\ Node \in Nodes
  BY DEF WentOn, TopIs
<1>4. /\ frames # << >>
      /\ frames[1].node = Root
      /\ \A i, j \in 1 .. Len(frames) : frames[i].node = frames[j].node => i = j
      /\ \A j \in 1 .. Len(frames) : frames[j].step <= Last(frames[j].node)
      /\ \A j \in 1 .. Len(frames) - 1 : \E i \in 1 .. K(frames[j].node) :
           /\ frames[j + 1].node = Kids[frames[j].node][i]
           /\ frames[j].step = KidAt(frames[j].node, i) + 1
  BY DEF FramesInv
<1>5. frames'[1].node = Root
  BY <1>3, <1>4
<1>6. \A i, j \in 1 .. Len(frames') : frames'[i].node = frames'[j].node => i = j
  BY <1>3, <1>4
<1>7. ASSUME NEW j \in 1 .. Len(frames')
      PROVE  frames'[j].step <= Last(frames'[j].node)
  <2>1. CASE j = Len(frames)
    <3>1. Last(Node) \in Nat
      BY <1>3, PositionsAre
    <3>2. frames'[j].step = Top.step + 1 /\ frames'[j].node = Node
      BY <2>1, <1>3
    <3> QED
      BY <3>1, <3>2, <1>3
  <2>2. CASE j # Len(frames)
    <3>1. j \in 1 .. Len(frames) - 1 /\ j \in 1 .. Len(frames)
      BY <2>2, <1>3
    <3> QED
      BY <3>1, <1>3, <1>4, Zenon
  <2> QED
    BY <2>1, <2>2
<1>8. ASSUME NEW j \in 1 .. Len(frames') - 1
      PROVE  \E i \in 1 .. K(frames'[j].node) :
               /\ frames'[j + 1].node = Kids[frames'[j].node][i]
               /\ frames'[j].step = KidAt(frames'[j].node, i) + 1
  <2>1. j \in 1 .. Len(frames) - 1 /\ j + 1 \in 1 .. Len(frames)
    BY <1>3
  <2>2. frames'[j] = frames[j] /\ frames'[j + 1].node = frames[j + 1].node
    BY <2>1, <1>3
  <2> QED
    BY <2>1, <2>2, <1>4, Zenon
<1>9. phase' \in {"finishing", "returned", "threw", "done"} => frames' = << >>
  BY <1>1 DEF Running
<1>10. /\ \A j \in 1 .. Len(frames') : frames'[j].step <= Last(frames'[j].node)
       /\ \A j \in 1 .. Len(frames') - 1 : \E i \in 1 .. K(frames'[j].node) :
            /\ frames'[j + 1].node = Kids[frames'[j].node][i]
            /\ frames'[j].step = KidAt(frames'[j].node, i) + 1
  BY <1>7, <1>8
<1> QED
  BY <1>1, <1>3, <1>5, <1>6, <1>9, <1>10, ZenonT(40)
  DEF FramesInv, Last, KidAt, Before, Strings, K, Lists

(* A frame does its next step: what the steps so far have done stays.      *)
NextDone(n, s) ==
  /\ array[n].own \subseteq array'[n].own
  /\ \A b \in schema[n].own :
       \/ b \in schema'[n].own
       \/ b = Block(n, "no format") /\ s = Strings(n) + 3
       \/ b = Block(n, "no name") /\ s = Strings(n) + 4
  /\ schema[n].live => schema'[n].live
  /\ builder'[n] \subseteq builder[n]
  /\ Plan(n)[s].do = "array" => Plan(n)[s].block \in array'[n].own
  /\ Plan(n)[s].do = "schema" => Plan(n)[s].block \in schema'[n].own
  /\ s = Strings(n) + 1 => schema'[n].live /\ Block(n, "no format") \in schema'[n].own
  /\ s = Strings(n) + 2 => Block(n, "no name") \in schema'[n].own
  /\ phase = "building" /\ n \notin Structs /\ s = Before(n) => builder'[n] = {}

(* So it has done one more of them.                                        *)
LEMMA DoneNext ==
  ASSUME NEW n \in Nodes, NEW s \in Nat, s >= 1, s <= Last(n),
         Done(n, s), NextDone(n, s), phase' = phase
  PROVE  \A q : q = s + 1 => Done(n, q)'
<1> SUFFICES ASSUME NEW q, q = s + 1
             PROVE  Done(n, q)'
  OBVIOUS
<1>1. /\ Plan(n)' = Plan(n) /\ Strings(n)' = Strings(n) /\ Before(n)' = Before(n)
  BY SamePlan
<1>2. /\ Strings(n) \in Nat /\ Before(n) \in Nat
  BY PositionsAre
<1>3. /\ Block(n, "no format") \notin SchemaLists(n)
      /\ Block(n, "no name") \notin SchemaLists(n)
  BY DEF SchemaLists, Block
<1>4. ASSUME NEW p \in 1 .. s - 1, Plan(n)[p].do = "schema"
      PROVE  Plan(n)[p].block \in schema'[n].own
  <2>1. p \in Nat /\ p >= 1 /\ p <= Last(n)
    <3>1. Last(n) \in Nat
      BY PositionsAre
    <3> QED
      BY <3>1
  <2>2. Plan(n)[p].block \in SchemaLists(n)
    <3>1. PlanCase(n, p)
      BY <2>1, PlanCases
    <3>2. CASE StartStep(n, Plan(n)[p])
      BY <3>2, <1>4 DEF StartStep
    <3>3. CASE \E do \in Dos \ {"schema"} : \E b : Plan(n)[p] = Step(do, b)
      BY <3>3, <1>4, StepParts
    <3> QED
      <4>1. {"string", "format", "name", "take", "kid", "return"} \subseteq Dos \ {"schema"}
        BY DEF Dos
      <4>2. \/ StartStep(n, Plan(n)[p])
            \/ \E do \in {"string", "format", "name", "take", "kid", "return"} : \E b :
                 Plan(n)[p] = Step(do, b)
        BY <3>1, Zenon DEF PlanCase
      <4> QED
        BY <4>1, <4>2, <3>2, <3>3, Zenon
  <2>3. Plan(n)[p].block \in schema[n].own
    BY <1>4 DEF Done
  <2> QED
    BY <2>2, <2>3, <1>3 DEF NextDone
<1>5. ASSUME NEW p \in 1 .. s - 1, Plan(n)[p].do = "array"
      PROVE  Plan(n)[p].block \in array'[n].own
  BY <1>5 DEF Done, NextDone
<1>6. \A p \in 1 .. q - 1 :
        /\ Plan(n)[p].do = "array" => Plan(n)[p].block \in array'[n].own
        /\ Plan(n)[p].do = "schema" => Plan(n)[p].block \in schema'[n].own
  <2> SUFFICES ASSUME NEW p \in 1 .. q - 1
               PROVE  /\ Plan(n)[p].do = "array" => Plan(n)[p].block \in array'[n].own
                      /\ Plan(n)[p].do = "schema" => Plan(n)[p].block \in schema'[n].own
    OBVIOUS
  <2>1. p \in 1 .. s - 1 \/ p = s
    OBVIOUS
  <2> QED
    BY <2>1, <1>4, <1>5 DEF NextDone
<1>7. Block(n, "no format") # Block(n, "no name")
  BY DEF Block
<1>8. q \in Strings(n) + 2 .. Strings(n) + 3 => Block(n, "no format") \in schema'[n].own
  <2> SUFFICES ASSUME q \in Strings(n) + 2 .. Strings(n) + 3
               PROVE  Block(n, "no format") \in schema'[n].own
    OBVIOUS
  <2>1. s = Strings(n) + 1 \/ s = Strings(n) + 2
    BY <1>2
  <2>2. CASE s = Strings(n) + 1
    BY <2>2 DEF NextDone
  <2>3. CASE s = Strings(n) + 2
    <3>1. s \in Strings(n) + 2 .. Strings(n) + 3 /\ s # Strings(n) + 3
      BY <2>3, <1>2
    <3> QED
      BY <3>1, <1>7 DEF Done, NextDone
  <2> QED
    BY <2>1, <2>2, <2>3
<1>9. q \in Strings(n) + 3 .. Strings(n) + 4 => Block(n, "no name") \in schema'[n].own
  <2> SUFFICES ASSUME q \in Strings(n) + 3 .. Strings(n) + 4
               PROVE  Block(n, "no name") \in schema'[n].own
    OBVIOUS
  <2>1. s = Strings(n) + 2 \/ s = Strings(n) + 3
    BY <1>2
  <2>2. CASE s = Strings(n) + 2
    BY <2>2 DEF NextDone
  <2>3. CASE s = Strings(n) + 3
    <3>1. s \in Strings(n) + 3 .. Strings(n) + 4 /\ s # Strings(n) + 4
      BY <2>3, <1>2
    <3> QED
      BY <3>1, <1>7 DEF Done, NextDone
  <2> QED
    BY <2>1, <2>2, <2>3
<1>10. q > Strings(n) + 1 => schema'[n].live
  <2>1. q > Strings(n) + 1 => s = Strings(n) + 1 \/ s > Strings(n) + 1
    BY <1>2
  <2> QED
    BY <2>1 DEF Done, NextDone
<1>11. phase = "building" /\ n \notin Structs /\ q > Before(n) => builder'[n] = {}
  <2>1. q > Before(n) => s = Before(n) \/ s > Before(n)
    BY <1>2
  <2> QED
    BY <2>1 DEF Done, NextDone
<1> HIDE DEF NextDone
<1> QED
  BY <1>1, <1>6, <1>8, <1>9, <1>10, <1>11, Zenon DEF Done, Block

(* What another frame has done stays.                                      *)
LEMMA DoneStays ==
  ASSUME NEW n, NEW s, Done(n, s), phase' = phase,
         array'[n] = array[n], schema'[n] = schema[n], builder'[n] = builder[n]
  PROVE  Done(n, s)'
<1>1. /\ Plan(n)' = Plan(n) /\ Strings(n)' = Strings(n) /\ Before(n)' = Before(n)
  BY SamePlan
<1> QED
  BY <1>1, Zenon DEF Done, Block

(* The steps done when the innermost frame goes on.                        *)
LEMMA DoneGoOn ==
  ASSUME TopIs, DoIs, FramesInv, DoneInv, Running, WentOn, NextDone(Node, Top.step),
         \A n \in Nodes \ {Node} :
           array'[n] = array[n] /\ schema'[n] = schema[n] /\ builder'[n] = builder[n]
  PROVE  DoneInv'
<1> PICK t, u : t = Node /\ u = Top.step
  OBVIOUS
<1>1. t \in Nodes /\ u \in Nat /\ u >= 1 /\ u <= Last(t) /\ phase' = phase
  BY DEF TopIs, DoIs, WentOn
<1>2. /\ \A j \in 1 .. Len(frames) : Done(frames[j].node, frames[j].step)
      /\ \A i, j \in 1 .. Len(frames) : frames[i].node = frames[j].node => i = j
  BY DEF DoneInv, FramesInv
<1>3. /\ Len(frames') = Len(frames) /\ Len(frames) \in Nat
      /\ \A j \in 1 .. Len(frames) - 1 : frames'[j] = frames[j]
      /\ frames'[Len(frames)].step = u + 1 /\ frames'[Len(frames)].node = t
      /\ t = frames[Len(frames)].node /\ u = frames[Len(frames)].step
      /\ Len(frames) \in 1 .. Len(frames)
      /\ \A j \in 1 .. Len(frames) : frames[j].node \in Nodes
  BY DEF WentOn, TopIs
<1>4. Done(t, u) /\ NextDone(t, u)
  BY <1>2, <1>3
<1>5. \A q : q = u + 1 => Done(t, q)'
  BY <1>1, <1>4, DoneNext, Zenon
<1>6. \A n \in Nodes : \A s : n # t /\ Done(n, s) => Done(n, s)'
  BY <1>1, DoneStays
<1>7. ASSUME NEW j \in 1 .. Len(frames'), NEW n, NEW s,
             n = frames'[j].node, s = frames'[j].step
      PROVE  Done(n, s)'
  <2>1. CASE j = Len(frames)
    BY <2>1, <1>3, <1>5, <1>7
  <2>2. CASE j # Len(frames)
    <3>1. j \in 1 .. Len(frames) - 1 /\ j \in 1 .. Len(frames)
      BY <2>2, <1>3
    <3>2. n = frames[j].node /\ s = frames[j].step
      BY <3>1, <1>3, <1>7
    <3>3. n # t /\ n \in Nodes /\ Done(n, s)
      BY <3>1, <3>2, <2>2, <1>2, <1>3
    <3> QED
      BY <3>3, <1>6
  <2> QED
    BY <2>1, <2>2
<1> QED
  BY <1>7, Zenon DEF DoneInv

(* Where nothing is allocated or freed, each block keeps its owner.        *)
LEMMA SameOwners ==
  ASSUME OwnInv, HeapInv, UNCHANGED <<heap, builder, array, schema, misfreed, mislaid>>,
         mislaid => phase' \in {"throwing", "threw", "done"}
  PROVE  OwnInv' /\ HeapInv'
BY Zenon DEF OwnInv, HeapInv, OwnedBy, ArrayBlocks, ArrayLists, SchemaBlocks, SchemaLists

(* While an exception is thrown frames are left, one by one.               *)
LEMMA StackUnwinds ==
  ASSUME FramesInv, frames = << >> \/ TopIs,
         \/ phase' = "throwing" /\ frames' = frames
         \/ phase' = "throwing" /\ frames # << >> /\ frames' = Callers
         \/ phase' \in {"threw", "done"} /\ frames = << >> /\ frames' = << >>
  PROVE  FramesInv' /\ DoneInv'
<1>1. ~Running' /\ phase' \notin {"finishing", "returned"}
  BY DEF Running
<1>2. /\ frames # << >> => frames[1].node = Root
      /\ \A i, j \in 1 .. Len(frames) : frames[i].node = frames[j].node => i = j
  BY DEF FramesInv
<1>3. \/ frames' = << >> /\ Len(frames') = 0
      \/ frames' = frames /\ phase' = "throwing"
      \/ frames' = Callers /\ frames # << >> /\ phase' = "throwing"
  OBVIOUS
<1>4. /\ frames' # << >> => frames'[1].node = Root
      /\ \A i, j \in 1 .. Len(frames') : frames'[i].node = frames'[j].node => i = j
  <2>1. CASE frames' = << >> /\ Len(frames') = 0
    BY <2>1
  <2>2. CASE frames' = frames
    BY <2>2, <1>2, Zenon
  <2>3. CASE frames' = Callers /\ frames # << >>
    <3>1. TopIs
      BY <2>3
    <3>2. /\ Len(frames') = Len(frames) - 1 /\ Len(frames) \in Nat /\ Len(frames) >= 1
          /\ \A j \in 1 .. Len(frames') : frames'[j] = frames[j] /\ j \in 1 .. Len(frames)
          /\ frames' # << >> => Len(frames') >= 1
      <4>1. Callers \in Seq(Frames) /\ (Callers # << >> => Len(Callers) \in Nat \ {0})
        BY <3>1, EmptySeq DEF TopIs
      <4> QED
        BY <4>1, <2>3, <3>1 DEF TopIs
    <3> QED
      BY <3>2, <1>2
  <2> QED
    BY <1>3, <2>1, <2>2, <2>3
<1>5. phase' \in {"finishing", "returned", "threw", "done"} => frames' = << >>
  BY <1>1
<1> QED
  BY <1>1, <1>4, <1>5, Zenon DEF FramesInv, DoneInv

(* A builder begins, or refuses.                                           *)
LEMMA BeginOwn ==
  ASSUME OwnershipInv, Begin
  PROVE  OwnershipInv'
<1>1. Running /\ Do = "begin" /\ UNCHANGED <<heap, builder, array, schema, moved, misfreed, mislaid>>
  BY DEF Begin
<1>2. /\ TypeInv /\ OwnInv /\ HeapInv /\ FramesInv /\ DoneInv
      /\ TopIs /\ DoIs /\ ~mislaid
  BY <1>1, RunningIs DEF OwnershipInv
<1>3. OwnInv' /\ HeapInv'
  BY <1>1, <1>2, SameOwners
<1>4. CASE GoOn
  <2>1. WentOn
    BY <1>2, <1>4, GoesOn
  <2>2. Top.step < Last(Node) /\ Top.step <= Strings(Node)
    BY <1>1, <1>2 DEF DoIs
  <2>3. FramesInv'
    BY <1>1, <1>2, <2>1, <2>2, FramesGoOn
  <2>4. NextDone(Node, Top.step)
    <3>1. /\ Top.step # Strings(Node) + 1 /\ Top.step # Strings(Node) + 2
          /\ Top.step # Before(Node)
      BY <1>2, <2>2, PositionsAre DEF TopIs
    <3>2. Plan(Node)[Top.step].do = "begin"
      BY <1>1 DEF Do
    <3> QED
      BY <1>1, <3>1, <3>2 DEF NextDone
  <2>5. DoneInv'
    BY <1>1, <1>2, <2>1, <2>4, DoneGoOn
  <2>6. TypeInv'
    BY <1>1, <1>2, <2>1, Zenon DEF TypeInv, WentOn
  <2> QED
    BY <1>3, <2>3, <2>5, <2>6 DEF OwnershipInv
<1>5. CASE Throw
  <2>1. FramesInv' /\ DoneInv'
    BY <1>2, <1>5, StackUnwinds DEF Throw
  <2>2. TypeInv'
    BY <1>1, <1>2, <1>5 DEF TypeInv, Throw, Phases
  <2> QED
    BY <1>3, <2>1, <2>2 DEF OwnershipInv
<1> QED
  BY <1>4, <1>5 DEF Begin

(* The stack and the steps done, when the innermost frame goes on.         *)
LEMMA GoOnOwn ==
  ASSUME OwnershipInv, Running, GoOn, Do # "return", NextDone(Node, Top.step),
         \A n \in Nodes \ {Node} :
           array'[n] = array[n] /\ schema'[n] = schema[n] /\ builder'[n] = builder[n]
  PROVE  FramesInv' /\ DoneInv' /\ frames' \in Seq(Frames) /\ phase' = phase
<1>1. FramesInv /\ DoneInv /\ TopIs /\ DoIs
  BY RunningIs DEF OwnershipInv
<1>2. WentOn
  BY <1>1, GoesOn
<1>3. Top.step < Last(Node)
  BY <1>1 DEF DoIs
<1> QED
  BY <1>1, <1>2, <1>3, FramesGoOn, DoneGoOn, Zenon DEF WentOn

(* The innermost frame allocates a block.                                  *)
LEMMA AllocateOwn ==
  ASSUME OwnershipInv, Allocate
  PROVE  OwnershipInv'
<1> PICK n, b, s : n = Node /\ b = Target /\ s = Top.step
  OBVIOUS
<1>1. /\ Running /\ Do \in {"array", "schema", "string"} /\ GoOn
      /\ heap' = heap \cup {b}
      /\ UNCHANGED <<builder, moved, misfreed, mislaid>>
      /\ Do = "array" => array' = [array EXCEPT ![n] = Owning(@, b)] /\ schema' = schema
      /\ Do # "array" => schema' = [schema EXCEPT ![n] = Owning(@, b)] /\ array' = array
  BY DEF Allocate
<1>2. /\ TypeInv /\ OwnInv /\ HeapInv /\ FramesInv /\ DoneInv
      /\ TopIs /\ DoIs /\ ~mislaid /\ ~misfreed
      /\ \A m \in Nodes : OwnedBy(m) \subseteq heap
  BY <1>1, RunningIs DEF OwnershipInv
<1>3. n \in Nodes /\ b \in Blocks
  BY <1>2 DEF TopIs, DoIs
<1>4. /\ Do = "array" => b \in ArrayBlocks(n) /\ b # Block(n, "data")
      /\ Do # "array" => b \in SchemaBlocks(n)
  <2>1. Do = "array" => b \in ArrayLists(n)
    BY <1>2 DEF DoIs
  <2>2. Block(n, "data") \notin ArrayLists(n)
    BY DEF ArrayLists, Block
  <2>3. Do = "schema" => b \in SchemaLists(n)
    BY <1>2 DEF DoIs
  <2>4. Do = "string" =>
          \E what \in {"no format", "no name", "metadata"} : b = Block(n, what)
    BY <1>2 DEF DoIs
  <2> QED
    BY <1>1, <2>1, <2>2, <2>3, <2>4, OwnBlocks DEF SchemaStrings
<1>5. /\ array \in [Nodes -> Structure] /\ schema \in [Nodes -> Structure]
      /\ builder \in [Nodes -> SUBSET Blocks]
  BY <1>2 DEF TypeInv
<1>6. /\ \A m \in Nodes : array[m].own \subseteq array'[m].own /\ schema[m].own \subseteq schema'[m].own
      /\ \A m \in Nodes : array'[m].own \subseteq array[m].own \cup {b}
      /\ \A m \in Nodes : schema'[m].own \subseteq schema[m].own \cup {b}
      /\ \A m \in Nodes \ {n} : array'[m] = array[m] /\ schema'[m] = schema[m]
      /\ Do = "array" => b \in array'[n].own /\ array'[n].live /\ schema' = schema
      /\ Do # "array" => b \in schema'[n].own /\ schema'[n].live /\ array' = array
  <2>1. CASE Do = "array"
    BY <2>1, <1>1, <1>3, <1>5 DEF Owning
  <2>2. CASE Do # "array"
    BY <2>2, <1>1, <1>3, <1>5 DEF Owning
  <2> QED
    BY <2>1, <2>2
<1>7. array' \in [Nodes -> Structure] /\ schema' \in [Nodes -> Structure]
  <2>1. \A t \in Structure : Owning(t, b) \in Structure
    BY <1>3 DEF Owning, Structure
  <2> QED
    BY <2>1, <1>1, <1>3, <1>5
<1>8. NextDone(n, s)
  <2>1. /\ Plan(n)[s].do = Do /\ Plan(n)[s].block = b
    BY DEF Do, Target
  <2>2. /\ s = Strings(n) + 1 => Do = "string" /\ b = Block(n, "no format")
        /\ s = Strings(n) + 2 => Do = "string" /\ b = Block(n, "no name")
        /\ phase = "building" /\ n \notin Structs => s # Before(n)
    <3>1. /\ Strings(n) \in Nat /\ s \in Nat
          /\ phase = "building" /\ n \notin Structs => Before(n) = Strings(n) + 6
      BY <1>2, <1>3, PositionsAre DEF TopIs, Before
    <3>2. Do = "string" \/ s <= Strings(n)
      BY <1>1, <1>2 DEF DoIs
    <3>3. Do = "string" =>
            \/ s = Strings(n) + 1 /\ b = Block(n, "no format")
            \/ s = Strings(n) + 2 /\ b = Block(n, "no name")
            \/ s = Strings(n) + 5 /\ b = Block(n, "metadata")
      BY <1>2 DEF DoIs
    <3>4. \A c, q \in Nat : q <= c => q # c + 1 /\ q # c + 2 /\ q # c + 6
      OBVIOUS
    <3>5. \A c \in Nat : /\ c + 1 # c + 2 /\ c + 5 # c + 2 /\ c + 5 # c + 1
                         /\ c + 1 # c + 6 /\ c + 2 # c + 6 /\ c + 5 # c + 6
      OBVIOUS
    <3> QED
      BY <3>1, <3>2, <3>3, <3>4, <3>5, Zenon
  <2> QED
    BY <2>1, <2>2, <1>1, <1>3, <1>6 DEF NextDone
<1>9. FramesInv' /\ DoneInv' /\ frames' \in Seq(Frames) /\ phase' = phase
  <2>1. NextDone(Node, Top.step) /\ Do # "return"
    BY <1>1, <1>8
  <2>2. \A m \in Nodes \ {Node} :
          array'[m] = array[m] /\ schema'[m] = schema[m] /\ builder'[m] = builder[m]
    BY <1>1, <1>6
  <2> QED
    BY <2>1, <2>2, <1>1, GoOnOwn
<1>10. OwnInv'
  <2> SUFFICES ASSUME NEW m \in Nodes
               PROVE  /\ builder'[m] \subseteq {Block(m, "data")}
                      /\ array'[m].own \subseteq ArrayBlocks(m)
                      /\ schema'[m].own \subseteq SchemaBlocks(m)
                      /\ Block(m, "data") \in array'[m].own => builder'[m] = {}
                      /\ array'[m].own # {} => array'[m].live
                      /\ schema'[m].own # {} => schema'[m].live
    BY Zenon DEF OwnInv, ArrayBlocks, ArrayLists, SchemaBlocks, SchemaLists
  <2>1. /\ builder[m] \subseteq {Block(m, "data")}
        /\ array[m].own \subseteq ArrayBlocks(m)
        /\ schema[m].own \subseteq SchemaBlocks(m)
        /\ Block(m, "data") \in array[m].own => builder[m] = {}
        /\ array[m].own # {} => array[m].live
        /\ schema[m].own # {} => schema[m].live
    BY <1>2, Zenon DEF OwnInv
  <2> QED
    BY <2>1, <1>1, <1>4, <1>6
<1>11. HeapInv'
  <2>1. \A c \in heap' : \E m \in Nodes : c \in builder'[m] \cup array'[m].own \cup schema'[m].own
    <3>1. b \in array'[n].own \cup schema'[n].own
      BY <1>6
    <3>2. \A c \in heap : \E m \in Nodes : c \in builder[m] \cup array[m].own \cup schema[m].own
      BY <1>2, Zenon DEF HeapInv, OwnedBy
    <3> QED
      BY <3>1, <3>2, <1>1, <1>3, <1>6
  <2>2. \A m \in Nodes : builder'[m] \cup array'[m].own \cup schema'[m].own \subseteq heap'
    <3>1. \A m \in Nodes : builder[m] \cup array[m].own \cup schema[m].own \subseteq heap
      BY <1>2, Zenon DEF OwnedBy
    <3> QED
      BY <3>1, <1>1, <1>6
  <2> QED
    BY <2>1, <2>2, <1>1, <1>2, Zenon DEF HeapInv, OwnedBy
<1>12. TypeInv'
  <2>1. heap' \subseteq Blocks
    BY <1>1, <1>2, <1>3 DEF TypeInv
  <2> QED
    BY <2>1, <1>1, <1>2, <1>7, <1>9 DEF TypeInv
<1> QED
  BY <1>9, <1>10, <1>11, <1>12 DEF OwnershipInv

(* What is left of the types when structures are released.                 *)
LEMMA CutTypes ==
  ASSUME TypeInv, NEW fa, NEW fs, CutFrom(array, array', fa), CutFrom(schema, schema', fs),
         heap' \subseteq Blocks, misfreed' \in BOOLEAN, mislaid' \in BOOLEAN,
         builder' \in [Nodes -> SUBSET Blocks],
         moved' \subseteq Blocks, frames' \in Seq(Frames), phase' \in Phases
  PROVE  TypeInv'
BY DEF TypeInv, CutFrom

(* allocate_array_data() fails.                                            *)
LEMMA AllocateArrayFailsOwn ==
  ASSUME OwnershipInv, AllocateArrayFails
  PROVE  OwnershipInv'
<1> PICK n : n = Node
  OBVIOUS
<1> DEFINE fa == Owned(array, "array", n)
<1>1. /\ Running /\ Free(fa)
      /\ array' = WithoutTree(array, "array", n)
      /\ phase' = "throwing" /\ frames' = frames
      /\ UNCHANGED <<builder, schema, moved, mislaid>>
  BY DEF AllocateArrayFails, Throw
<1>2. /\ TypeInv /\ OwnInv /\ HeapInv /\ FramesInv /\ TopIs /\ n \in Nodes
  BY <1>1, RunningIs DEF OwnershipInv, TopIs
<1>3. CutFrom(array, array', fa)
  <2>1. array \in [Nodes -> Structure]
    BY <1>2 DEF TypeInv
  <2> QED
    BY <2>1, <1>1, <1>2, Disjoint, CutTree, Zenon
<1>4. CutFrom(schema, schema', {})
  BY <1>1, <1>2, CutNothing DEF TypeInv
<1>5. CutBuilders({}) /\ Free(fa \cup {} \cup {})
  <2>1. fa \cup {} \cup {} = fa
    OBVIOUS
  <2> QED
    BY <2>1, <1>1 DEF CutBuilders
<1> HIDE DEF fa
<1>6. /\ OwnInv' /\ HeapInv'
      /\ heap' \subseteq Blocks /\ misfreed' \in BOOLEAN
      /\ builder' \in [Nodes -> SUBSET Blocks]
  BY <1>1, <1>2, <1>3, <1>4, <1>5, FreeKeeps
<1>7. TypeInv'
  BY <1>1, <1>2, <1>3, <1>4, <1>6, CutTypes DEF TypeInv, Phases
<1>8. FramesInv' /\ DoneInv'
  BY <1>1, <1>2, StackUnwinds
<1> QED
  BY <1>6, <1>7, <1>8 DEF OwnershipInv

(* allocate_schema() fails.                                                *)
LEMMA AllocateSchemaFailsOwn ==
  ASSUME OwnershipInv, AllocateSchemaFails
  PROVE  OwnershipInv'
<1> PICK n : n = Node
  OBVIOUS
<1> DEFINE fs == Owned(schema, "schema", n)
<1>1. /\ Running /\ Free(fs)
      /\ schema' = WithoutTree(schema, "schema", n)
      /\ phase' = "throwing" /\ frames' = frames
      /\ UNCHANGED <<builder, array, moved, mislaid>>
  BY DEF AllocateSchemaFails, Throw
<1>2. /\ TypeInv /\ OwnInv /\ HeapInv /\ FramesInv /\ TopIs /\ n \in Nodes
  BY <1>1, RunningIs DEF OwnershipInv, TopIs
<1>3. CutFrom(schema, schema', fs)
  <2>1. schema \in [Nodes -> Structure]
    BY <1>2 DEF TypeInv
  <2> QED
    BY <2>1, <1>1, <1>2, Disjoint, CutTree, Zenon
<1>4. CutFrom(array, array', {})
  BY <1>1, <1>2, CutNothing DEF TypeInv
<1>5. CutBuilders({}) /\ Free({} \cup fs \cup {})
  <2>1. {} \cup fs \cup {} = fs
    OBVIOUS
  <2> QED
    BY <2>1, <1>1 DEF CutBuilders
<1> HIDE DEF fs
<1>6. /\ OwnInv' /\ HeapInv'
      /\ heap' \subseteq Blocks /\ misfreed' \in BOOLEAN
      /\ builder' \in [Nodes -> SUBSET Blocks]
  BY <1>1, <1>2, <1>3, <1>4, <1>5, FreeKeeps
<1>7. TypeInv'
  BY <1>1, <1>2, <1>3, <1>4, <1>6, CutTypes DEF TypeInv, Phases
<1>8. FramesInv' /\ DoneInv'
  BY <1>1, <1>2, StackUnwinds
<1> QED
  BY <1>6, <1>7, <1>8 DEF OwnershipInv

(* A string is not allocated.                                              *)
LEMMA AllocateStringFailsOwn ==
  ASSUME OwnershipInv, AllocateStringFails
  PROVE  OwnershipInv'
<1>1. /\ Running /\ phase' = "throwing" /\ frames' = frames
      /\ UNCHANGED <<heap, builder, array, schema, moved, misfreed, mislaid>>
  BY DEF AllocateStringFails, Throw
<1>2. /\ TypeInv /\ OwnInv /\ HeapInv /\ FramesInv /\ TopIs
  BY <1>1, RunningIs DEF OwnershipInv
<1>3. OwnInv' /\ HeapInv'
  BY <1>1, <1>2, SameOwners
<1>4. FramesInv' /\ DoneInv'
  BY <1>1, <1>2, StackUnwinds
<1>5. TypeInv'
  BY <1>1, <1>2 DEF TypeInv, Phases
<1> QED
  BY <1>3, <1>4, <1>5 DEF OwnershipInv

(* An exception passes a level of the stack.                               *)
LEMMA UnwindOwn ==
  ASSUME OwnershipInv, Unwind
  PROVE  OwnershipInv'
<1> PICK n : n = Node
  OBVIOUS
<1> DEFINE fa == IF ArrayLeft THEN Owned(array, "array", n) ELSE {}
           fs == IF SchemaLeft THEN Owned(schema, "schema", n) ELSE {}
<1>1. /\ phase = "throwing" /\ frames # << >> /\ Free(fa \cup fs)
      /\ array' = IF ArrayLeft THEN WithoutTree(array, "array", n) ELSE array
      /\ schema' = IF SchemaLeft THEN WithoutTree(schema, "schema", n) ELSE schema
      /\ phase' = phase /\ frames' = Callers
      /\ UNCHANGED <<builder, moved, mislaid>>
  BY DEF Unwind
<1>2. /\ TypeInv /\ OwnInv /\ HeapInv /\ FramesInv /\ TopIs /\ n \in Nodes
  BY <1>1, TopOf DEF OwnershipInv, TopIs
<1>3. array \in [Nodes -> Structure] /\ schema \in [Nodes -> Structure]
  BY <1>2 DEF TypeInv
<1>4. CutFrom(array, array', fa)
  <2>1. CASE ArrayLeft
    <3>1. CutFrom(array, WithoutTree(array, "array", n), Owned(array, "array", n))
      BY <1>2, <1>3, Disjoint, CutTree, Zenon
    <3> QED
      BY <3>1, <2>1, <1>1
  <2>2. CASE ~ArrayLeft
    BY <2>2, <1>1, <1>3, CutNothing
  <2> QED
    BY <2>1, <2>2
<1>5. CutFrom(schema, schema', fs)
  <2>1. CASE SchemaLeft
    <3>1. CutFrom(schema, WithoutTree(schema, "schema", n), Owned(schema, "schema", n))
      BY <1>2, <1>3, Disjoint, CutTree, Zenon
    <3> QED
      BY <3>1, <2>1, <1>1
  <2>2. CASE ~SchemaLeft
    BY <2>2, <1>1, <1>3, CutNothing
  <2> QED
    BY <2>1, <2>2
<1>6. CutBuilders({}) /\ Free(fa \cup fs \cup {})
  <2> HIDE DEF fa, fs
  <2>1. fa \cup fs \cup {} = fa \cup fs
    OBVIOUS
  <2> QED
    BY <2>1, <1>1 DEF CutBuilders
<1> HIDE DEF fa, fs
<1>7. /\ OwnInv' /\ HeapInv'
      /\ heap' \subseteq Blocks /\ misfreed' \in BOOLEAN
      /\ builder' \in [Nodes -> SUBSET Blocks]
  BY <1>1, <1>2, <1>4, <1>5, <1>6, FreeKeeps
<1>8. TypeInv'
  <2>1. frames' \in Seq(Frames)
    BY <1>1, <1>2 DEF TopIs
  <2>2. phase' \in Phases /\ moved' \subseteq Blocks /\ mislaid' \in BOOLEAN
    BY <1>1, <1>2 DEF TypeInv
  <2> QED
    BY <2>1, <2>2, <1>2, <1>4, <1>5, <1>7, CutTypes
<1>9. FramesInv' /\ DoneInv'
  BY <1>1, <1>2, StackUnwinds
<1> QED
  BY <1>7, <1>8, <1>9 DEF OwnershipInv

(* The exception is caught.                                                *)
LEMMA CaughtOwn ==
  ASSUME OwnershipInv, Caught
  PROVE  OwnershipInv'
<1>1. /\ phase = "throwing" /\ frames = << >> /\ phase' = "threw" /\ frames' = << >>
      /\ UNCHANGED <<heap, builder, array, schema, moved, misfreed, mislaid, frames>>
  BY DEF Caught
<1>2. /\ TypeInv /\ OwnInv /\ HeapInv /\ FramesInv
  BY DEF OwnershipInv
<1>3. OwnInv' /\ HeapInv'
  BY <1>1, <1>2, SameOwners
<1>4. FramesInv' /\ DoneInv'
  BY <1>1, <1>2, StackUnwinds
<1>5. TypeInv'
  BY <1>1, <1>2 DEF TypeInv, Phases
<1> QED
  BY <1>3, <1>4, <1>5 DEF OwnershipInv

(* The caller cleans up.                                                   *)
LEMMA CleanUpOwn ==
  ASSUME OwnershipInv, CleanUp
  PROVE  OwnershipInv'
<1> DEFINE fa == Owned(array, "array", Root)
           fs == Owned(schema, "schema", Root)
           fb == UNION {builder[n] : n \in Nodes}
<1>1. /\ phase \in {"returned", "threw"} /\ Free(fa \cup fs \cup fb)
      /\ array' = WithoutTree(array, "array", Root)
      /\ schema' = WithoutTree(schema, "schema", Root)
      /\ builder' = [n \in Nodes |-> {}]
      /\ phase' = "done"
      /\ UNCHANGED <<moved, frames, mislaid>>
  BY DEF CleanUp
<1>2. /\ TypeInv /\ OwnInv /\ HeapInv /\ FramesInv /\ Root \in Nodes /\ frames = << >>
  BY <1>1, TreeAssumption DEF OwnershipInv, FramesInv
<1>3. array \in [Nodes -> Structure] /\ schema \in [Nodes -> Structure]
  BY <1>2 DEF TypeInv
<1>4. CutFrom(array, array', fa)
  BY <1>1, <1>2, <1>3, Disjoint, CutTree, Zenon
<1>5. CutFrom(schema, schema', fs)
  BY <1>1, <1>2, <1>3, Disjoint, CutTree, Zenon
<1>6. CutBuilders(fb)
  BY <1>1 DEF CutBuilders
<1> HIDE DEF fa, fs, fb
<1>7. /\ OwnInv' /\ HeapInv'
      /\ heap' \subseteq Blocks /\ misfreed' \in BOOLEAN
      /\ builder' \in [Nodes -> SUBSET Blocks]
  BY <1>1, <1>2, <1>4, <1>5, <1>6, FreeKeeps
<1>8. TypeInv'
  BY <1>1, <1>2, <1>4, <1>5, <1>7, CutTypes DEF TypeInv, Phases
<1>9. FramesInv' /\ DoneInv'
  BY <1>1, <1>2, StackUnwinds
<1> QED
  BY <1>7, <1>8, <1>9 DEF OwnershipInv

(* The string that is to be replaced is there.                             *)
LEMMA OldIsThere ==
  ASSUME OwnershipInv, Running, Do \in {"format", "name"}
  PROVE  /\ Old \in schema[Node].own /\ schema[Node].live
         /\ Target \in SchemaBlocks(Node) /\ Target \in Blocks
         /\ \/ Top.step = Strings(Node) + 3 /\ Old = Block(Node, "no format")
            \/ Top.step = Strings(Node) + 4 /\ Old = Block(Node, "no name")
<1> PICK n, s : n = Node /\ s = Top.step
  OBVIOUS
<1>1. /\ TopIs /\ DoIs /\ Done(n, s) /\ OwnInv
  BY RunningIs DEF OwnershipInv
<1>2. n \in Nodes /\ s \in Nat /\ Strings(n) \in Nat
  BY <1>1, PositionsAre DEF TopIs
<1>3. /\ Do = "format" => s = Strings(n) + 3 /\ Target = Block(n, "format")
      /\ Do = "name" => s = Strings(n) + 4 /\ Target = Block(n, "name")
  BY <1>1 DEF DoIs
<1>4. Target \in SchemaBlocks(n)
  BY <1>3, OwnBlocks DEF SchemaStrings
<1>5. /\ s = Strings(n) + 3 => s \in Strings(n) + 2 .. Strings(n) + 3 /\ s > Strings(n) + 1
      /\ s = Strings(n) + 4 => s \in Strings(n) + 3 .. Strings(n) + 4 /\ s > Strings(n) + 1
  BY <1>2
<1>6. /\ Do = "format" => Old = Block(n, "no format")
      /\ Do = "name" => Old = Block(n, "no name")
  BY DEF Old
<1>7. Old \in schema[n].own /\ schema[n].live
  BY <1>1, <1>3, <1>5, <1>6 DEF Done
<1>8. Target \in Blocks
  BY <1>1 DEF DoIs
<1> QED
  BY <1>3, <1>4, <1>6, <1>7, <1>8

(* A string is replaced.                                                   *)
LEMMA ReplaceOwn ==
  ASSUME OwnershipInv, Replace
  PROVE  OwnershipInv'
<1> PICK n, b, s, old : n = Node /\ b = Target /\ s = Top.step /\ old = Old
  OBVIOUS
<1>1. /\ Running /\ Do \in {"format", "name"} /\ GoOn
      /\ heap' = (heap \ {old}) \cup {b}
      /\ misfreed' = (misfreed \/ old \notin heap)
      /\ schema' = [schema EXCEPT ![n] = [live |-> @.live, own |-> (@.own \ {old}) \cup {b}]]
      /\ UNCHANGED <<builder, array, moved, mislaid>>
  BY DEF Replace, Swapped
<1>2. /\ TypeInv /\ OwnInv /\ HeapInv /\ FramesInv /\ DoneInv
      /\ TopIs /\ DoIs /\ ~mislaid /\ ~misfreed
      /\ \A m \in Nodes : OwnedBy(m) \subseteq heap
  BY <1>1, RunningIs DEF OwnershipInv
<1>3. /\ n \in Nodes /\ b \in Blocks /\ b \in SchemaBlocks(n)
      /\ old \in schema[n].own /\ schema[n].live
      /\ \/ s = Strings(n) + 3 /\ old = Block(n, "no format")
         \/ s = Strings(n) + 4 /\ old = Block(n, "no name")
  BY <1>1, <1>2, OldIsThere DEF TopIs
<1>4. /\ array \in [Nodes -> Structure] /\ schema \in [Nodes -> Structure]
      /\ builder \in [Nodes -> SUBSET Blocks]
  BY <1>2 DEF TypeInv
<1>5. /\ schema'[n].own = (schema[n].own \ {old}) \cup {b} /\ schema'[n].live
      /\ \A m \in Nodes \ {n} : schema'[m] = schema[m]
  BY <1>1, <1>3, <1>4
<1>6. schema' \in [Nodes -> Structure]
  <2>1. \A t \in Structure : [live |-> t.live, own |-> (t.own \ {old}) \cup {b}] \in Structure
    BY <1>3 DEF Structure
  <2> QED
    BY <2>1, <1>1, <1>3, <1>4
<1>7. NextDone(n, s)
  <2>1. Plan(n)[s].do \in {"format", "name"}
    BY <1>1 DEF Do
  <2>2. /\ s # Strings(n) + 1 /\ s # Strings(n) + 2
        /\ phase = "building" /\ n \notin Structs => s # Before(n)
    <3>1. /\ Strings(n) \in Nat
          /\ phase = "building" /\ n \notin Structs => Before(n) = Strings(n) + 6
      BY <1>3, PositionsAre DEF Before
    <3>2. \A c \in Nat : /\ c + 3 # c + 1 /\ c + 3 # c + 2 /\ c + 3 # c + 6
                         /\ c + 4 # c + 1 /\ c + 4 # c + 2 /\ c + 4 # c + 6
      OBVIOUS
    <3> QED
      BY <3>1, <3>2, <1>3, Zenon
  <2>3. \A c \in schema[n].own :
          \/ c \in schema'[n].own
          \/ c = Block(n, "no format") /\ s = Strings(n) + 3
          \/ c = Block(n, "no name") /\ s = Strings(n) + 4
    BY <1>3, <1>5
  <2> QED
    BY <2>1, <2>2, <2>3, <1>1, <1>5 DEF NextDone
<1>8. FramesInv' /\ DoneInv' /\ frames' \in Seq(Frames) /\ phase' = phase
  <2>1. NextDone(Node, Top.step) /\ Do # "return"
    BY <1>1, <1>7
  <2>2. \A m \in Nodes \ {Node} :
          array'[m] = array[m] /\ schema'[m] = schema[m] /\ builder'[m] = builder[m]
    BY <1>1, <1>5
  <2> QED
    BY <2>1, <2>2, <1>1, GoOnOwn
<1>9. OwnInv'
  <2> SUFFICES ASSUME NEW m \in Nodes
               PROVE  /\ builder'[m] \subseteq {Block(m, "data")}
                      /\ array'[m].own \subseteq ArrayBlocks(m)
                      /\ schema'[m].own \subseteq SchemaBlocks(m)
                      /\ Block(m, "data") \in array'[m].own => builder'[m] = {}
                      /\ array'[m].own # {} => array'[m].live
                      /\ schema'[m].own # {} => schema'[m].live
    BY Zenon DEF OwnInv, ArrayBlocks, ArrayLists, SchemaBlocks, SchemaLists
  <2>1. /\ builder[m] \subseteq {Block(m, "data")}
        /\ array[m].own \subseteq ArrayBlocks(m)
        /\ schema[m].own \subseteq SchemaBlocks(m)
        /\ Block(m, "data") \in array[m].own => builder[m] = {}
        /\ array[m].own # {} => array[m].live
        /\ schema[m].own # {} => schema[m].live
    BY <1>2, Zenon DEF OwnInv
  <2> QED
    BY <2>1, <1>1, <1>3, <1>5
<1>10. HeapInv'
  <2>1. \A c \in heap' : \E m \in Nodes : c \in builder'[m] \cup array'[m].own \cup schema'[m].own
    <3>1. \A c \in heap : \E m \in Nodes : c \in builder[m] \cup array[m].own \cup schema[m].own
      BY <1>2, Zenon DEF HeapInv, OwnedBy
    <3> QED
      BY <3>1, <1>1, <1>3, <1>5, ZenonT(40)
  <2>2. ASSUME NEW m \in Nodes, NEW c \in builder'[m] \cup array'[m].own \cup schema'[m].own
        PROVE  c \in heap'
    <3>1. builder[m] \cup array[m].own \cup schema[m].own \subseteq heap
      BY <1>2, Zenon DEF OwnedBy
    <3>2. /\ builder[m] \subseteq {Block(m, "data")}
          /\ array[m].own \subseteq ArrayBlocks(m)
          /\ schema[m].own \subseteq SchemaBlocks(m)
          /\ schema[n].own \subseteq SchemaBlocks(n)
      BY <1>2, <1>3, Zenon DEF OwnInv
    <3>3. old \in SchemaBlocks(n)
      BY <3>2, <1>3
    <3>4. CASE c \in builder[m] \cup array[m].own
      <4>1. c # old
        BY <3>2, <3>3, <3>4, <1>3, OneName
      <4> QED
        BY <4>1, <3>1, <3>4, <1>1
    <3>5. CASE c \in schema'[m].own /\ m = n
      BY <3>1, <3>5, <1>1, <1>5
    <3>6. CASE c \in schema'[m].own /\ m # n
      <4>1. c \in schema[m].own /\ c \in SchemaBlocks(m)
        BY <3>2, <3>6, <1>5
      <4>2. c # old
        BY <4>1, <3>3, <3>6, <1>3, OneName
      <4> QED
        BY <4>1, <4>2, <3>1, <1>1
    <3> QED
      BY <2>2, <3>4, <3>5, <3>6, <1>1
  <2>3. ~misfreed'
    BY <1>1, <1>2, <1>3 DEF OwnedBy
  <2> QED
    BY <2>1, <2>2, <2>3, <1>1, <1>2, Zenon DEF HeapInv, OwnedBy
<1>11. TypeInv'
  <2>1. heap' \subseteq Blocks /\ misfreed' \in BOOLEAN
    BY <1>1, <1>2, <1>3 DEF TypeInv
  <2> QED
    BY <2>1, <1>1, <1>2, <1>6, <1>8 DEF TypeInv
<1> QED
  BY <1>8, <1>9, <1>10, <1>11 DEF OwnershipInv

(* A string cannot be replaced: the old one is lost.                       *)
LEMMA ReplaceFailsOwn ==
  ASSUME OwnershipInv, ReplaceFails
  PROVE  OwnershipInv'
<1>1. /\ Running /\ Free({Old}) /\ mislaid' = TRUE
      /\ phase' = "throwing" /\ frames' = frames
      /\ UNCHANGED <<builder, array, schema, moved>>
  BY DEF ReplaceFails, Throw
<1>2. /\ TypeInv /\ OwnInv /\ HeapInv /\ FramesInv /\ TopIs
  BY <1>1, RunningIs DEF OwnershipInv
<1>3. heap' \subseteq heap /\ misfreed' \in BOOLEAN
  BY <1>1, <1>2 DEF Free, TypeInv
<1>4. OwnInv'
  BY <1>1, <1>2, Zenon DEF OwnInv, ArrayBlocks, ArrayLists, SchemaBlocks, SchemaLists
<1>5. HeapInv'
  BY <1>1, <1>2, <1>3 DEF HeapInv, OwnedBy
<1>6. FramesInv' /\ DoneInv'
  BY <1>1, <1>2, StackUnwinds
<1>7. TypeInv'
  BY <1>1, <1>2, <1>3 DEF TypeInv, Phases
<1> QED
  BY <1>4, <1>5, <1>6, <1>7 DEF OwnershipInv

(* The array takes the buffers of the builder.                             *)
LEMMA TakeBuffersOwn ==
  ASSUME OwnershipInv, TakeBuffers
  PROVE  OwnershipInv'
<1> PICK n, s : n = Node /\ s = Top.step
  OBVIOUS
<1>1. /\ Running /\ Do = "take" /\ GoOn
      /\ array' = [array EXCEPT ![n] = [live |-> TRUE, own |-> @.own \cup builder[n]]]
      /\ builder' = [builder EXCEPT ![n] = {}]
      /\ UNCHANGED <<heap, schema, moved, misfreed, mislaid>>
  BY DEF TakeBuffers
<1>2. /\ TypeInv /\ OwnInv /\ HeapInv /\ FramesInv /\ DoneInv
      /\ TopIs /\ DoIs /\ ~mislaid /\ ~misfreed
      /\ \A m \in Nodes : OwnedBy(m) \subseteq heap
  BY <1>1, RunningIs DEF OwnershipInv
<1>3. n \in Nodes /\ s = Strings(n) + 6 /\ Strings(n) \in Nat
  BY <1>1, <1>2, PositionsAre DEF TopIs, DoIs
<1>4. /\ array \in [Nodes -> Structure] /\ schema \in [Nodes -> Structure]
      /\ builder \in [Nodes -> SUBSET Blocks]
  BY <1>2 DEF TypeInv
<1>5. /\ array'[n].own = array[n].own \cup builder[n] /\ array'[n].live
      /\ builder'[n] = {}
      /\ \A m \in Nodes \ {n} : array'[m] = array[m] /\ builder'[m] = builder[m]
  BY <1>1, <1>3, <1>4
<1>6. array' \in [Nodes -> Structure] /\ builder' \in [Nodes -> SUBSET Blocks]
  <2>1. \A t \in Structure : [live |-> TRUE, own |-> t.own \cup builder[n]] \in Structure
    BY <1>3, <1>4 DEF Structure
  <2> QED
    BY <2>1, <1>1, <1>3, <1>4
<1>7. NextDone(n, s)
  <2>1. Plan(n)[s].do = "take"
    BY <1>1 DEF Do
  <2>2. s # Strings(n) + 1 /\ s # Strings(n) + 2
    BY <1>3
  <2> QED
    BY <2>1, <2>2, <1>1, <1>5 DEF NextDone
<1>8. FramesInv' /\ DoneInv' /\ frames' \in Seq(Frames) /\ phase' = phase
  <2>1. NextDone(Node, Top.step) /\ Do # "return"
    BY <1>1, <1>7
  <2>2. \A m \in Nodes \ {Node} :
          array'[m] = array[m] /\ schema'[m] = schema[m] /\ builder'[m] = builder[m]
    BY <1>1, <1>5
  <2> QED
    BY <2>1, <2>2, <1>1, GoOnOwn
<1>9. OwnInv'
  <2> SUFFICES ASSUME NEW m \in Nodes
               PROVE  /\ builder'[m] \subseteq {Block(m, "data")}
                      /\ array'[m].own \subseteq ArrayBlocks(m)
                      /\ schema'[m].own \subseteq SchemaBlocks(m)
                      /\ Block(m, "data") \in array'[m].own => builder'[m] = {}
                      /\ array'[m].own # {} => array'[m].live
                      /\ schema'[m].own # {} => schema'[m].live
    BY Zenon DEF OwnInv, ArrayBlocks, ArrayLists, SchemaBlocks, SchemaLists
  <2>1. /\ builder[m] \subseteq {Block(m, "data")}
        /\ array[m].own \subseteq ArrayBlocks(m)
        /\ schema[m].own \subseteq SchemaBlocks(m)
        /\ Block(m, "data") \in array[m].own => builder[m] = {}
        /\ array[m].own # {} => array[m].live
        /\ schema[m].own # {} => schema[m].live
    BY <1>2, Zenon DEF OwnInv
  <2>2. Block(m, "data") \in ArrayBlocks(m)
    BY OwnBlocks
  <2> QED
    BY <2>1, <2>2, <1>1, <1>3, <1>5
<1>10. HeapInv'
  <2>1. \A m \in Nodes : OwnedBy(m)' = OwnedBy(m)
    BY <1>1, <1>3, <1>5 DEF OwnedBy
  <2> QED
    BY <2>1, <1>1, <1>2, <1>8, Zenon DEF HeapInv
<1>11. TypeInv'
  BY <1>1, <1>2, <1>6, <1>8 DEF TypeInv
<1> QED
  BY <1>8, <1>9, <1>10, <1>11 DEF OwnershipInv

(* The stack when a child is released: its frame is on top.                *)
Pushed(n, i, s) ==
  /\ frames' \in Seq(Frames) /\ Len(frames') = Len(frames) + 1
  /\ \A j \in 1 .. Len(frames) - 1 : frames'[j] = frames[j]
  /\ frames'[Len(frames)] = [node |-> n, step |-> s + 1]
  /\ frames'[Len(frames) + 1] = [node |-> Kids[n][i], step |-> 1]
  /\ i \in 1 .. K(n) /\ s = KidAt(n, i) /\ n = Node /\ s = Top.step

(* That is what ReleaseKid does.                                           *)
LEMMA KidIsPushed ==
  ASSUME OwnershipInv, ReleaseKid
  PROVE  \E i : Pushed(Node, i, Top.step)
<1> PICK n, s : n = Node /\ s = Top.step
  OBVIOUS
<1>1. Running /\ Do = "kid"
  BY DEF ReleaseKid
<1>2. TopIs /\ DoIs
  BY <1>1, RunningIs
<1>3. PICK i \in 1 .. K(n) : s = KidAt(n, i) /\ Target = Block(Kids[n][i], "array")
  BY <1>1, <1>2 DEF DoIs
<1>4. n \in Nodes /\ s \in Nat /\ Kids[n][i] \in Nodes
  BY <1>2, KidsAre DEF TopIs
<1> DEFINE f == [node |-> n, step |-> s + 1]
           g == [node |-> Kids[n][i], step |-> 1]
           two == <<f, g>>
<1>5. f \in Frames /\ g \in Frames
  BY <1>4 DEF Frames
<1>6. frames' = Callers \o two
  BY <1>3 DEF ReleaseKid, Block
<1> HIDE DEF f, g
<1>7. two \in Seq(Frames) /\ Len(two) = 2 /\ two[1] = f /\ two[2] = g
  BY <1>5
<1> HIDE DEF two
<1>8. /\ Callers \o two \in Seq(Frames)
      /\ Len(Callers \o two) = Len(Callers) + Len(two)
      /\ \A j \in 1 .. Len(Callers) + Len(two) : (Callers \o two)[j] =
           IF j <= Len(Callers) THEN Callers[j] ELSE two[j - Len(Callers)]
  BY <1>2, <1>7, ConcatProperties, ZenonT(40) DEF TopIs
<1>9. /\ Len(Callers) = Len(frames) - 1 /\ Len(frames) \in Nat /\ Len(frames) >= 1
      /\ \A j \in 1 .. Len(frames) - 1 : Callers[j] = frames[j]
  BY <1>2 DEF TopIs
<1> PICK l \in Nat : l = Len(frames)
  BY <1>9
<1>10. Len(Callers) = l - 1 /\ l >= 1
  BY <1>9
<1>11. frames' \in Seq(Frames) /\ Len(frames') = l + 1
  BY <1>6, <1>7, <1>8, <1>10
<1>12. \A j \in 1 .. l + 1 : frames'[j] = IF j <= l - 1 THEN Callers[j] ELSE two[j - (l - 1)]
  <2>1. Len(Callers) + Len(two) = l + 1
    BY <1>7, <1>10
  <2>2. \A j \in 1 .. l + 1 : (Callers \o two)[j] =
          IF j <= Len(Callers) THEN Callers[j] ELSE two[j - Len(Callers)]
    BY <1>8, <2>1, Zenon
  <2> QED
    BY <2>2, <1>6, <1>10
<1>13. \A j \in 1 .. l - 1 : frames'[j] = frames[j]
  <2> SUFFICES ASSUME NEW j \in 1 .. l - 1 PROVE frames'[j] = frames[j]
    OBVIOUS
  <2>1. j \in 1 .. l + 1 /\ j <= l - 1
    BY <1>10
  <2> QED
    BY <2>1, <1>9, <1>12, Zenon
<1>14. frames'[l] = two[1] /\ frames'[l + 1] = two[2]
  <2>1. /\ l \in 1 .. l + 1 /\ l + 1 \in 1 .. l + 1 /\ ~(l <= l - 1) /\ ~(l + 1 <= l - 1)
        /\ l - (l - 1) = 1 /\ l + 1 - (l - 1) = 2
    BY <1>10
  <2>2. frames'[l] = two[l - (l - 1)] /\ frames'[l + 1] = two[l + 1 - (l - 1)]
    BY <2>1, <1>12
  <2> QED
    BY <2>1, <2>2, Zenon
<1> QED
  BY <1>3, <1>7, <1>11, <1>13, <1>14, Zenon DEF Pushed, f, g

(* A child that is released is not on the stack.                           *)
LEMMA KidIsNew ==
  ASSUME FramesInv, Running, TopIs, NEW i \in 1 .. K(Node)
  PROVE  \A j \in 1 .. Len(frames) : frames[j].node # Kids[Node][i]
<1> PICK n : n = Node
  OBVIOUS
<1>1. /\ n \in Nodes /\ n = frames[Len(frames)].node
      /\ Len(frames) \in 1 .. Len(frames) /\ Len(frames) \in Nat
      /\ \A j \in 1 .. Len(frames) : frames[j].node \in Nodes
  BY DEF TopIs
<1>2. Kids[n][i] \in Nodes /\ Kids[n][i] # Root
  BY <1>1, KidsAre
<1> SUFFICES ASSUME NEW j \in 1 .. Len(frames), frames[j].node = Kids[n][i]
             PROVE  FALSE
  OBVIOUS
<1>3. j # 1
  <2>1. frames # << >> => frames[1].node = Root
    BY DEF FramesInv
  <2>2. frames # << >>
    BY DEF FramesInv
  <2> QED
    BY <2>1, <2>2, <1>2
<1>4. j - 1 \in 1 .. Len(frames) - 1 /\ j - 1 \in 1 .. Len(frames) /\ j - 1 + 1 = j
      /\ j - 1 # Len(frames)
  BY <1>1, <1>3
<1>5. PICK h \in 1 .. K(frames[j - 1].node) :
        frames[j - 1 + 1].node = Kids[frames[j - 1].node][h]
  BY <1>4, Zenon DEF FramesInv
<1>6. frames[j - 1].node \in Nodes /\ Kids[frames[j - 1].node][h] = Kids[n][i]
  BY <1>1, <1>4, <1>5
<1>7. frames[j - 1].node = n
  <2>1. i \in 1 .. K(n)
    OBVIOUS
  <2> QED
    BY <2>1, <1>1, <1>5, <1>6, BelowRootAssumption, Zenon DEF K
<1>8. j - 1 = Len(frames)
  BY <1>1, <1>4, <1>7, Zenon DEF FramesInv
<1> QED
  BY <1>4, <1>8

(* A frame that has only begun has done nothing.                           *)
LEMMA NothingDone == \A n \in Nodes : Done(n, 1) /\ 1 <= Last(n)
<1> SUFFICES ASSUME NEW n \in Nodes
             PROVE  Done(n, 1) /\ 1 <= Last(n)
  OBVIOUS
<1>1. Strings(n) \in Nat /\ Before(n) \in Nat /\ Before(n) >= 5 /\ Last(n) \in Nat
      /\ Last(n) >= 6
  <2>1. Strings(n) \in Nat /\ Before(n) \in Nat /\ Last(n) \in Nat
    BY PositionsAre
  <2>2. Before(n) >= 5
    BY <2>1, PositionsAre
  <2>3. K(n) \in Nat /\ Last(n) = Before(n) + K(n) + 1
    BY KidsAre, PositionsAre
  <2> QED
    BY <2>1, <2>2, <2>3
<1>2. /\ \A p \in 1 .. 1 - 1 : FALSE
      /\ 1 \notin Strings(n) + 2 .. Strings(n) + 3 /\ 1 \notin Strings(n) + 3 .. Strings(n) + 4
      /\ ~(1 > Strings(n) + 1) /\ ~(1 > Before(n))
  BY <1>1
<1>3. 1 <= Last(n)
  BY <1>1
<1> QED
  BY <1>2, <1>3, Zenon DEF Done

(* A child is released.                                                    *)
LEMMA ReleaseKidOwn ==
  ASSUME OwnershipInv, ReleaseKid
  PROVE  OwnershipInv'
<1> PICK n, s : n = Node /\ s = Top.step
  OBVIOUS
<1>1. /\ Running /\ Do = "kid" /\ phase' = phase
      /\ UNCHANGED <<heap, builder, array, schema, moved, misfreed, mislaid>>
  BY DEF ReleaseKid
<1>2. /\ TypeInv /\ OwnInv /\ HeapInv /\ FramesInv /\ DoneInv
      /\ TopIs /\ DoIs /\ ~mislaid /\ Done(n, s)
  BY <1>1, RunningIs DEF OwnershipInv
<1> PICK i : Pushed(n, i, s)
  BY KidIsPushed
<1>3. /\ frames' \in Seq(Frames) /\ Len(frames') = Len(frames) + 1
      /\ \A j \in 1 .. Len(frames) - 1 : frames'[j] = frames[j]
      /\ frames'[Len(frames)] = [node |-> n, step |-> s + 1]
      /\ frames'[Len(frames) + 1] = [node |-> Kids[n][i], step |-> 1]
      /\ i \in 1 .. K(n) /\ s = KidAt(n, i) /\ n = Node /\ s = Top.step
  BY DEF Pushed
<1> PICK k : k = Kids[n][i]
  OBVIOUS
<1>4. /\ n \in Nodes /\ k \in Nodes /\ s \in Nat /\ s >= 1 /\ s < Last(n) /\ Last(n) \in Nat
      /\ Len(frames) \in Nat /\ Len(frames) >= 1
      /\ \A j \in 1 .. Len(frames) : frames[j].node \in Nodes
      /\ n = frames[Len(frames)].node /\ s = frames[Len(frames)].step
  <2>1. Do # "return"
    BY <1>1
  <2> QED
    BY <2>1, <1>2, <1>3, KidsAre, PositionsAre DEF TopIs, DoIs
<1> PICK l \in Nat : l = Len(frames)
  BY <1>4
<1>5. /\ Len(frames') = l + 1 /\ l >= 1
      /\ \A j \in 1 .. l - 1 : frames'[j] = frames[j]
      /\ frames'[l].node = n /\ frames'[l].step = s + 1
      /\ frames'[l + 1].node = k /\ frames'[l + 1].step = 1
  BY <1>3, <1>4
<1>6. ASSUME NEW j \in 1 .. l + 1
      PROVE  j \in 1 .. l - 1 \/ j = l \/ j = l + 1
  OBVIOUS
<1>7. \A j \in 1 .. l : frames'[j].node = frames[j].node
  <2> SUFFICES ASSUME NEW j \in 1 .. l PROVE frames'[j].node = frames[j].node
    OBVIOUS
  <2>1. j \in 1 .. l - 1 \/ j = l
    OBVIOUS
  <2> QED
    BY <2>1, <1>4, <1>5, Zenon
<1>8. \A j \in 1 .. l : frames[j].node # k
  BY <1>1, <1>2, <1>3, KidIsNew
<1>9. /\ frames # << >> /\ frames[1].node = Root
      /\ \A h, j \in 1 .. l : frames[h].node = frames[j].node => h = j
      /\ \A j \in 1 .. l : frames[j].step <= Last(frames[j].node)
      /\ \A j \in 1 .. l - 1 : \E h \in 1 .. K(frames[j].node) :
           /\ frames[j + 1].node = Kids[frames[j].node][h]
           /\ frames[j].step = KidAt(frames[j].node, h) + 1
  BY <1>1, <1>2, Zenon DEF FramesInv
<1>10. OwnInv' /\ HeapInv'
  BY <1>1, <1>2, SameOwners
<1>11. TypeInv'
  BY <1>1, <1>2, <1>3 DEF TypeInv
<1>12. /\ frames' # << >> /\ frames'[1].node = Root
  <2>1. 1 \in 1 .. l
    BY <1>5
  <2>2. Len(<< >>) = 0 /\ l + 1 # 0
    OBVIOUS
  <2>3. frames' # << >>
    BY <2>2, <1>5, Zenon
  <2> QED
    BY <2>1, <2>3, <1>7, <1>9, Zenon
<1>13. \A h, j \in 1 .. l + 1 : frames'[h].node = frames'[j].node => h = j
  <2> SUFFICES ASSUME NEW h \in 1 .. l + 1, NEW j \in 1 .. l + 1,
                      frames'[h].node = frames'[j].node
               PROVE  h = j
    OBVIOUS
  <2>1. (h \in 1 .. l \/ h = l + 1) /\ (j \in 1 .. l \/ j = l + 1)
    OBVIOUS
  <2>2. CASE h \in 1 .. l /\ j \in 1 .. l
    <3>1. frames[h].node = frames[j].node
      BY <2>2, <1>7
    <3> QED
      BY <2>2, <3>1, <1>9, Zenon
  <2>3. CASE h \in 1 .. l /\ j = l + 1
    <3>1. frames'[h].node = frames[h].node /\ frames'[j].node = k /\ frames[h].node # k
      BY <2>3, <1>5, <1>7, <1>8, Zenon
    <3> QED
      BY <3>1
  <2>4. CASE h = l + 1 /\ j \in 1 .. l
    <3>1. frames'[j].node = frames[j].node /\ frames'[h].node = k /\ frames[j].node # k
      BY <2>4, <1>5, <1>7, <1>8, Zenon
    <3> QED
      BY <3>1
  <2> QED
    BY <2>1, <2>2, <2>3, <2>4
<1>14. /\ \A m : Last(m)' = Last(m) /\ Plan(m)' = Plan(m)
       /\ \A m, h : KidAt(m, h)' = KidAt(m, h)
  BY <1>1, SamePlan
<1>15. ASSUME NEW j \in 1 .. l + 1
       PROVE  frames'[j].step <= Last(frames'[j].node)
  <2>1. CASE j \in 1 .. l - 1
    <3>1. j \in 1 .. l
      BY <2>1
    <3> QED
      BY <2>1, <3>1, <1>5, <1>9, Zenon
  <2>2. CASE j = l
    <3>1. s + 1 <= Last(n)
      BY <1>4
    <3> QED
      BY <2>2, <3>1, <1>5, Zenon
  <2>3. CASE j = l + 1
    BY <2>3, <1>4, <1>5, NothingDone, Zenon
  <2> QED
    BY <1>6, <2>1, <2>2, <2>3
<1>16. ASSUME NEW j \in 1 .. l
       PROVE  \E h \in 1 .. K(frames'[j].node) :
                /\ frames'[j + 1].node = Kids[frames'[j].node][h]
                /\ frames'[j].step = KidAt(frames'[j].node, h) + 1
  <2>1. CASE j \in 1 .. l - 1
    <3>1. j + 1 \in 1 .. l
      BY <2>1
    <3>2. frames'[j] = frames[j] /\ frames'[j + 1].node = frames[j + 1].node
      BY <2>1, <3>1, <1>5, <1>7, Zenon
    <3> QED
      BY <2>1, <3>2, <1>9, ZenonT(40)
  <2>2. CASE j = l
    BY <2>2, <1>3, <1>5, Zenon
  <2>3. j \in 1 .. l - 1 \/ j = l
    OBVIOUS
  <2> QED
    BY <2>1, <2>2, <2>3
<1>17. FramesInv'
  <2>1. /\ Len(frames') = l + 1 /\ Len(frames') - 1 = l
    BY <1>5
  <2>2. /\ \A j \in 1 .. l + 1 : frames'[j].step <= Last(frames'[j].node)
        /\ \A j \in 1 .. l : \E h \in 1 .. K(frames'[j].node) :
             /\ frames'[j + 1].node = Kids[frames'[j].node][h]
             /\ frames'[j].step = KidAt(frames'[j].node, h) + 1
    BY <1>15, <1>16
  <2>3. /\ \A j \in 1 .. Len(frames') : frames'[j].step <= Last(frames'[j].node)
        /\ \A j \in 1 .. Len(frames') - 1 : \E h \in 1 .. K(frames'[j].node) :
             /\ frames'[j + 1].node = Kids[frames'[j].node][h]
             /\ frames'[j].step = KidAt(frames'[j].node, h) + 1
    BY <2>1, <2>2
  <2>4. \A h, j \in 1 .. Len(frames') : frames'[h].node = frames'[j].node => h = j
    BY <2>1, <1>13
  <2>5. phase' \notin {"finishing", "returned", "threw", "done"}
    BY <1>1 DEF Running
  <2> QED
    BY <2>3, <2>4, <2>5, <1>1, <1>12, Zenon
    DEF FramesInv, Last, KidAt, Before, Strings, K, Lists
<1>18. DoneInv'
  <2>1. /\ \A j \in 1 .. l : Done(frames[j].node, frames[j].step)
    BY <1>1, <1>2 DEF DoneInv
  <2>2. \A m, q : Done(m, q) => Done(m, q)'
    BY <1>1, DoneStays
  <2>3. Done(k, 1)
    BY <1>4, NothingDone
  <2>4. NextDone(n, s)
    <3>1. Plan(n)[s].do = "kid"
      BY <1>1, <1>3 DEF Do
    <3>2. s # Strings(n) + 1 /\ s # Strings(n) + 2 /\ s # Before(n)
      <4>1. /\ Strings(n) \in Nat /\ Before(n) \in Nat /\ i \in Nat /\ i >= 1
            /\ s = Before(n) + i
        <5>1. Strings(n) \in Nat /\ Before(n) \in Nat /\ K(n) \in Nat
          BY <1>4, PositionsAre, KidsAre
        <5>2. KidAt(n, i) = Before(n) + i
          BY DEF KidAt
        <5> QED
          BY <5>1, <5>2, <1>3
      <4>2. Before(n) >= Strings(n) + 5
        BY <4>1, <1>4, PositionsAre
      <4> QED
        BY <4>1, <4>2
    <3> QED
      BY <3>1, <3>2, <1>1 DEF NextDone
  <2>5. \A q : q = s + 1 => Done(n, q)'
    <3>1. s <= Last(n)
      BY <1>4
    <3> QED
      BY <3>1, <2>4, <1>1, <1>2, <1>4, DoneNext, Zenon
  <2>6. ASSUME NEW j \in 1 .. l + 1, NEW m, NEW q, m = frames'[j].node, q = frames'[j].step
        PROVE  Done(m, q)'
    <3>1. CASE j \in 1 .. l - 1
      <4>1. j \in 1 .. l
        BY <3>1
      <4> QED
        BY <3>1, <4>1, <2>1, <2>2, <2>6, <1>5, Zenon
    <3>2. CASE j = l
      BY <3>2, <2>5, <2>6, <1>5, Zenon
    <3>3. CASE j = l + 1
      BY <3>3, <2>2, <2>3, <2>6, <1>5, Zenon
    <3> QED
      BY <1>6, <3>1, <3>2, <3>3
  <2> QED
    BY <2>6, <1>5, Zenon DEF DoneInv
<1> QED
  BY <1>10, <1>11, <1>17, <1>18 DEF OwnershipInv

(* The innermost frame returns.                                            *)
LEMMA ReturnOwn ==
  ASSUME OwnershipInv, Return
  PROVE  OwnershipInv'
<1>1. /\ Running /\ Do = "return" /\ frames' = Callers
      /\ moved' = moved \cup {Target, Block(Node, "schema")}
      /\ phase' = IF Callers # << >> THEN phase
                  ELSE IF phase = "building" THEN "finishing" ELSE "returned"
      /\ UNCHANGED <<heap, builder, array, schema, misfreed, mislaid>>
  BY DEF Return
<1>2. /\ TypeInv /\ OwnInv /\ HeapInv /\ FramesInv /\ DoneInv
      /\ TopIs /\ DoIs /\ ~mislaid
  BY <1>1, RunningIs DEF OwnershipInv
<1>3. OwnInv' /\ HeapInv'
  BY <1>1, <1>2, SameOwners
<1>4. TypeInv'
  <2>1. Target \in Blocks /\ Block(Node, "schema") \in Blocks
    BY <1>2, BlocksAre DEF TopIs, DoIs, Purposes
  <2>2. moved' \subseteq Blocks
    BY <2>1, <1>1, <1>2 DEF TypeInv
  <2>3. phase' \in Phases
    BY <1>1, <1>2 DEF TypeInv, Phases
  <2>4. frames' \in Seq(Frames)
    BY <1>1, <1>2 DEF TopIs
  <2> QED
    BY <2>2, <2>3, <2>4, <1>1, <1>2 DEF TypeInv
<1>5. CASE Callers = << >>
  <2>1. frames' = << >> /\ ~Running' /\ Len(frames') = 0
    BY <1>1, <1>5 DEF Running
  <2> QED
    BY <2>1, <1>3, <1>4 DEF OwnershipInv, FramesInv, DoneInv
<1>6. CASE Callers # << >>
  <2> PICK l \in Nat : l = Len(frames)
    BY <1>2 DEF TopIs
  <2>1. /\ phase' = phase /\ Running' /\ frames' # << >>
    BY <1>1, <1>6 DEF Running
  <2>2. /\ Len(frames') = l - 1 /\ l >= 1
        /\ \A j \in 1 .. l - 1 : frames'[j] = frames[j]
    BY <1>1, <1>2 DEF TopIs
  <2>3. l - 1 >= 1
    <3>1. Callers \in Seq(Frames)
      BY <1>2 DEF TopIs
    <3>2. Len(Callers) \in Nat \ {0}
      BY <3>1, <1>6, EmptySeq
    <3> QED
      BY <3>2, <2>2, <1>1
  <2>4. /\ frames[1].node = Root
        /\ \A h, j \in 1 .. l : frames[h].node = frames[j].node => h = j
        /\ \A j \in 1 .. l : frames[j].step <= Last(frames[j].node)
        /\ \A j \in 1 .. l - 1 : \E h \in 1 .. K(frames[j].node) :
             /\ frames[j + 1].node = Kids[frames[j].node][h]
             /\ frames[j].step = KidAt(frames[j].node, h) + 1
    BY <1>1, <1>2, Zenon DEF FramesInv
  <2>5. /\ \A j \in 1 .. l - 1 : j \in 1 .. l
        /\ \A j \in 1 .. l - 1 - 1 : j \in 1 .. l - 1 /\ j + 1 \in 1 .. l - 1
        /\ 1 \in 1 .. l - 1
    BY <2>3
  <2>6. FramesInv'
    <3>1. frames'[1].node = Root
      BY <2>2, <2>4, <2>5, Zenon
    <3>2. \A h, j \in 1 .. l - 1 : frames'[h].node = frames'[j].node => h = j
      BY <2>2, <2>4, <2>5, Zenon
    <3>3. \A j \in 1 .. l - 1 : frames'[j].step <= Last(frames'[j].node)
      BY <2>2, <2>4, <2>5, Zenon
    <3>4. \A j \in 1 .. l - 1 - 1 : \E h \in 1 .. K(frames'[j].node) :
             /\ frames'[j + 1].node = Kids[frames'[j].node][h]
             /\ frames'[j].step = KidAt(frames'[j].node, h) + 1
      <4> SUFFICES ASSUME NEW j \in 1 .. l - 1 - 1
                   PROVE  \E h \in 1 .. K(frames'[j].node) :
                            /\ frames'[j + 1].node = Kids[frames'[j].node][h]
                            /\ frames'[j].step = KidAt(frames'[j].node, h) + 1
        OBVIOUS
      <4>1. frames'[j] = frames[j] /\ frames'[j + 1] = frames[j + 1]
        BY <2>2, <2>5, Zenon
      <4>2. \E h \in 1 .. K(frames[j].node) :
              /\ frames[j + 1].node = Kids[frames[j].node][h]
              /\ frames[j].step = KidAt(frames[j].node, h) + 1
        BY <2>4, <2>5, Zenon
      <4> QED
        BY <4>1, <4>2
    <3>5. phase' \notin {"finishing", "returned", "threw", "done"}
      BY <2>1 DEF Running
    <3> QED
      BY <2>1, <2>2, <3>1, <3>2, <3>3, <3>4, <3>5, ZenonT(40)
      DEF FramesInv, Last, KidAt, Before, Strings, K, Lists
  <2>7. DoneInv'
    <3>1. \A j \in 1 .. l : Done(frames[j].node, frames[j].step)
      BY <1>1, <1>2 DEF DoneInv
    <3>2. \A m, q : Done(m, q) => Done(m, q)'
      BY <2>1, <1>1, DoneStays
    <3>3. ASSUME NEW j \in 1 .. l - 1, NEW m, NEW q, m = frames'[j].node, q = frames'[j].step
          PROVE  Done(m, q)'
      BY <3>1, <3>2, <3>3, <2>2, <2>5, Zenon
    <3> QED
      BY <3>3, <2>2, Zenon DEF DoneInv
  <2> QED
    BY <2>6, <2>7, <1>3, <1>4 DEF OwnershipInv
<1> QED
  BY <1>5, <1>6

(* One frame that has only begun is a stack.                               *)
LEMMA FirstFrame ==
  ASSUME NEW f \in Seq(Frames), Len(f) = 1, f[1] = [node |-> Root, step |-> 1], f # << >>
  PROVE  /\ f[1].node = Root /\ f[1].step = 1
         /\ \A i, j \in 1 .. Len(f) : f[i].node = f[j].node => i = j
         /\ \A j \in 1 .. Len(f) : j = 1
         /\ \A j \in 1 .. Len(f) - 1 : FALSE
OBVIOUS

(* finish_schema() keeps the schema, throws, or copies it.                 *)
LEMMA FinishSchemaOwn ==
  ASSUME OwnershipInv, FinishSchema
  PROVE  OwnershipInv'
<1>1. /\ TypeInv /\ OwnInv /\ HeapInv /\ FramesInv /\ frames = << >> /\ ~mislaid
      /\ phase = "finishing"
  BY DEF FinishSchema, OwnershipInv, FramesInv, HeapInv
<1>2. CASE /\ phase' \in {"returned", "throwing"}
           /\ UNCHANGED <<heap, schema, moved, frames, misfreed, builder, array, mislaid>>
  <2>1. OwnInv' /\ HeapInv'
    BY <1>1, <1>2, SameOwners
  <2>2. TypeInv'
    BY <1>1, <1>2 DEF TypeInv, Phases
  <2>3. frames' = << >> /\ ~Running' /\ Len(frames') = 0
    BY <1>1, <1>2 DEF Running
  <2> QED
    BY <2>1, <2>2, <2>3 DEF OwnershipInv, FramesInv, DoneInv
<1>3. CASE /\ phase' = "copying"
           /\ Free(Owned(schema, "schema", Root))
           /\ schema' = WithoutTree(schema, "schema", Root)
           /\ moved' = moved \ {Block(n, "schema") : n \in Nodes}
           /\ frames' = <<[node |-> Root, step |-> 1]>>
           /\ UNCHANGED <<builder, array, mislaid>>
  <2> DEFINE fs == Owned(schema, "schema", Root)
  <2>1. CutFrom(array, array', {})
    BY <1>1, <1>3, CutNothing DEF TypeInv
  <2>2. CutFrom(schema, schema', fs)
    <3>1. schema \in [Nodes -> Structure] /\ Root \in Nodes
      BY <1>1, TreeAssumption DEF TypeInv
    <3> QED
      BY <3>1, <1>1, <1>3, Disjoint, CutTree, Zenon
  <2>3. CutBuilders({}) /\ Free({} \cup fs \cup {})
    <3>1. {} \cup fs \cup {} = fs
      OBVIOUS
    <3> QED
      BY <3>1, <1>3 DEF CutBuilders
  <2> HIDE DEF fs
  <2>4. /\ OwnInv' /\ HeapInv'
        /\ heap' \subseteq Blocks /\ misfreed' \in BOOLEAN
        /\ builder' \in [Nodes -> SUBSET Blocks]
    BY <1>1, <1>3, <2>1, <2>2, <2>3, FreeKeeps
  <2>5. /\ frames' \in Seq(Frames) /\ Len(frames') = 1 /\ frames' # << >>
        /\ frames'[1] = [node |-> Root, step |-> 1]
    <3>1. [node |-> Root, step |-> 1] \in Frames
      BY TreeAssumption DEF Frames
    <3>2. \A f \in Frames : <<f>> \in Seq(Frames) /\ Len(<<f>>) = 1 /\ <<f>> # << >> /\ <<f>>[1] = f
      OBVIOUS
    <3> QED
      BY <3>1, <3>2, <1>3, Zenon
  <2>6. TypeInv'
    BY <1>1, <1>3, <2>1, <2>2, <2>4, <2>5, CutTypes DEF TypeInv, Phases
  <2>7. /\ frames'[1].node = Root /\ frames'[1].step = 1
        /\ \A i, j \in 1 .. Len(frames') : frames'[i].node = frames'[j].node => i = j
        /\ \A j \in 1 .. Len(frames') : j = 1
        /\ \A j \in 1 .. Len(frames') - 1 : FALSE
    BY <2>5, FirstFrame, Zenon
  <2>8. (\A n \in Nodes : Done(n, 1) /\ 1 <= Last(n))'
    BY NothingDone, PTL
  <2>9. /\ \A n : n = Root => 1 <= Last(n)'
        /\ \A n, q : n = Root /\ q = 1 => Done(n, q)'
    BY <2>8, TreeAssumption, Zenon
  <2>10. FramesInv'
    <3>1. phase' \notin {"finishing", "returned", "threw", "done"}
      BY <1>3
    <3> QED
      BY <2>5, <2>7, <2>9, <3>1, Zenon DEF FramesInv
  <2>11. DoneInv'
    BY <2>7, <2>9, Zenon DEF DoneInv
  <2> QED
    BY <2>4, <2>6, <2>10, <2>11 DEF OwnershipInv
<1> QED
  BY <1>1, <1>2, <1>3 DEF FinishSchema

(* At the start every builder has its buffers, and nothing else is         *)
(* allocated.                                                              *)
LEMMA InitOwn ==
  ASSUME Init
  PROVE  OwnershipInv
<1>1. /\ heap = {Block(n, "data") : n \in Nodes}
      /\ builder = [n \in Nodes |-> {Block(n, "data")}]
      /\ array = [n \in Nodes |-> Released]
      /\ schema = [n \in Nodes |-> Released]
      /\ moved = {}
      /\ frames = <<[node |-> Root, step |-> 1]>>
      /\ phase = "building"
      /\ misfreed = FALSE /\ mislaid = FALSE
  BY DEF Init
<1>2. /\ frames \in Seq(Frames) /\ Len(frames) = 1 /\ frames # << >>
      /\ frames[1] = [node |-> Root, step |-> 1]
  <2>1. [node |-> Root, step |-> 1] \in Frames
    BY TreeAssumption DEF Frames
  <2>2. \A f \in Frames : <<f>> \in Seq(Frames) /\ Len(<<f>>) = 1 /\ <<f>> # << >> /\ <<f>>[1] = f
    OBVIOUS
  <2> QED
    BY <2>1, <2>2, <1>1, Zenon
<1>3. Released \in Structure /\ Released.own = {}
  BY DEF Released, Structure
<1>4. \A n \in Nodes : Block(n, "data") \in Blocks
  BY BlocksAre DEF Purposes
<1>5. TypeInv
  BY <1>1, <1>2, <1>3, <1>4 DEF TypeInv, Phases
<1>6. OwnInv
  BY <1>1, <1>3 DEF OwnInv
<1>7. HeapInv
  BY <1>1, <1>3 DEF HeapInv, OwnedBy
<1>8. /\ frames[1].node = Root /\ frames[1].step = 1
      /\ \A i, j \in 1 .. Len(frames) : frames[i].node = frames[j].node => i = j
      /\ \A j \in 1 .. Len(frames) : j = 1
      /\ \A j \in 1 .. Len(frames) - 1 : FALSE
  BY <1>2, FirstFrame, Zenon
<1>9. FramesInv
  BY <1>1, <1>2, <1>8, NothingDone, TreeAssumption DEF FramesInv
<1>10. DoneInv
  BY <1>8, NothingDone, TreeAssumption, Zenon DEF DoneInv
<1> QED
  BY <1>5, <1>6, <1>7, <1>9, <1>10 DEF OwnershipInv

(***************************************************************************)
(* While builders are released, whichever malloc() fails: each structure   *)
(* owns blocks of its own, what is allocated is owned, and the frames on   *)
(* the stack have done the steps before theirs.                            *)
(***************************************************************************)
THEOREM OwnershipInvariant == Spec => []OwnershipInv
<1>1. Init => OwnershipInv
  BY InitOwn
<1>2. OwnershipInv /\ [Next]_vars => OwnershipInv'
  <2> SUFFICES ASSUME OwnershipInv, [Next]_vars
               PROVE  OwnershipInv'
    OBVIOUS
  <2>1. CASE Begin
    BY <2>1, BeginOwn
  <2>2. CASE Allocate
    BY <2>2, AllocateOwn
  <2>3. CASE AllocateArrayFails
    BY <2>3, AllocateArrayFailsOwn
  <2>4. CASE AllocateSchemaFails
    BY <2>4, AllocateSchemaFailsOwn
  <2>5. CASE AllocateStringFails
    BY <2>5, AllocateStringFailsOwn
  <2>6. CASE Replace
    BY <2>6, ReplaceOwn
  <2>7. CASE ReplaceFails
    BY <2>7, ReplaceFailsOwn
  <2>8. CASE TakeBuffers
    BY <2>8, TakeBuffersOwn
  <2>9. CASE ReleaseKid
    BY <2>9, ReleaseKidOwn
  <2>10. CASE Return
    BY <2>10, ReturnOwn
  <2>11. CASE FinishSchema
    BY <2>11, FinishSchemaOwn
  <2>12. CASE Unwind
    BY <2>12, UnwindOwn
  <2>13. CASE Caught
    BY <2>13, CaughtOwn
  <2>14. CASE CleanUp
    BY <2>14, CleanUpOwn
  <2>15. CASE UNCHANGED vars
    <3>1. /\ UNCHANGED <<heap, builder, array, schema, misfreed, mislaid>>
          /\ UNCHANGED <<moved, frames, phase>>
      BY <2>15 DEF vars
    <3>2. OwnInv' /\ HeapInv'
      <4>1. mislaid => phase' \in {"throwing", "threw", "done"}
        BY <3>1 DEF OwnershipInv, HeapInv
      <4> QED
        BY <3>1, <4>1, SameOwners DEF OwnershipInv
    <3>3. TypeInv'
      BY <3>1 DEF OwnershipInv, TypeInv
    <3>4. /\ \A n : Last(n)' = Last(n)
          /\ \A n, i : KidAt(n, i)' = KidAt(n, i)
          /\ \A n, s : Done(n, s) => Done(n, s)'
      BY <3>1, SamePlan, DoneStays
    <3>5. FramesInv'
      <4>1. FramesInv /\ (Running' <=> Running)
        BY <3>1 DEF OwnershipInv, Running
      <4> QED
        BY <4>1, <3>1, <3>4, Zenon DEF FramesInv
    <3>6. DoneInv'
      <4>1. DoneInv /\ (Running' <=> Running)
        BY <3>1 DEF OwnershipInv, Running
      <4> QED
        BY <4>1, <3>1, <3>4, Zenon DEF DoneInv
    <3> QED
      BY <3>2, <3>3, <3>5, <3>6 DEF OwnershipInv
  <2> QED
    BY <2>1, <2>2, <2>3, <2>4, <2>5, <2>6, <2>7, <2>8, <2>9, <2>10, <2>11, <2>12, <2>13, <2>14,
       <2>15 DEF Next
<1> QED
  BY <1>1, <1>2, PTL DEF Spec

(***************************************************************************)
(* At every point, with any malloc() failing, exactly one builder or       *)
(* structure owns each block, so that exactly one destructor or release    *)
(* callback is going to free it.                                           *)
(***************************************************************************)
THEOREM EachHasOneOwner == Spec => []OneOwner
<1>1. OwnershipInv => OneOwner
  <2> SUFFICES ASSUME TypeInv, OwnInv, HeapInv, NEW b \in heap
               PROVE  Cardinality({<<"builder", n>> : n \in {m \in Nodes : b \in builder[m]}}
                        \cup {<<"array", n>> : n \in {m \in Nodes : b \in array[m].own}}
                        \cup {<<"schema", n>> : n \in {m \in Nodes : b \in schema[m].own}}) = 1
    BY DEF OwnershipInv, OneOwner
  <2> DEFINE owners == {<<"builder", n>> : n \in {m \in Nodes : b \in builder[m]}}
                        \cup {<<"array", n>> : n \in {m \in Nodes : b \in array[m].own}}
                        \cup {<<"schema", n>> : n \in {m \in Nodes : b \in schema[m].own}}
  <2>1. PICK n \in Nodes : b \in builder[n] \cup array[n].own \cup schema[n].own
    BY DEF HeapInv, OwnedBy
  <2>2. \A m \in Nodes :
          /\ b \in builder[m] => b = Block(m, "data")
          /\ b \in array[m].own => b \in ArrayBlocks(m)
          /\ b \in schema[m].own => b \in SchemaBlocks(m)
          /\ Block(m, "data") \in array[m].own => builder[m] = {}
    BY DEF OwnInv
  <2>3. \A l, m : Block(l, "data") = Block(m, "data") => l = m
    BY DEF Block
  <2>4. CASE b \in builder[n]
    <3>1. \A m \in Nodes : b \in builder[m] => m = n
      BY <2>2, <2>3, <2>4
    <3>2. \A m \in Nodes : b \notin array[m].own /\ b \notin schema[m].own
      BY <2>2, <2>4, OneName
    <3>3. owners = {<<"builder", n>>}
      BY <2>4, <3>1, <3>2
    <3> QED
      BY <3>3, FS_Singleton
  <2>5. CASE b \in array[n].own
    <3>1. \A m \in Nodes : b \notin builder[m] /\ b \notin schema[m].own
      BY <2>2, <2>5, OneName
    <3>2. \A m \in Nodes : b \in array[m].own => m = n
      BY <2>2, <2>5, OneName
    <3>3. owners = {<<"array", n>>}
      BY <2>5, <3>1, <3>2
    <3> QED
      BY <3>3, FS_Singleton
  <2>6. CASE b \in schema[n].own
    <3>1. \A m \in Nodes : b \notin builder[m] /\ b \notin array[m].own
      BY <2>2, <2>6, OneName
    <3>2. \A m \in Nodes : b \in schema[m].own => m = n
      BY <2>2, <2>6, OneName
    <3>3. owners = {<<"schema", n>>}
      BY <2>6, <3>1, <3>2
    <3> QED
      BY <3>3, FS_Singleton
  <2> QED
    BY <2>1, <2>4, <2>5, <2>6
<1> QED
  BY <1>1, OwnershipInvariant, PTL

(***************************************************************************)
(* No destructor or release callback frees a block that is not allocated,  *)
(* unless a string could not be replaced before.                           *)
(***************************************************************************)
THEOREM NoneFreedTwice == Spec => []FreedOnce
<1>1. OwnershipInv => FreedOnce
  BY DEF OwnershipInv, HeapInv, FreedOnce
<1> QED
  BY <1>1, OwnershipInvariant, PTL

-----------------------------------------------------------------------------

(***************************************************************************)
(* What the caller gets. A node is gone when its structures have left its  *)
(* finalizer: no node on the stack is gone, and every child before the one *)
(* that is being released is.                                              *)
(***************************************************************************)
Gone(n) == Block(n, "schema") \in moved

StackInv == \A j \in 1 .. Len(frames) : ~Gone(frames[j].node)

KidsGoneInv ==
  Running =>
    \A j \in 1 .. Len(frames) : \A i \in 1 .. K(frames[j].node) :
      KidAt(frames[j].node, i) < frames[j].step =>
        \/ Gone(Kids[frames[j].node][i])
        \/ j < Len(frames) /\ frames[j + 1].node = Kids[frames[j].node][i]

(* A child that is gone was released by the builder above it.              *)
OrderInv ==
  Running =>
    \A n \in Nodes : \A i \in 1 .. K(n) :
      Gone(Kids[n][i]) =>
        Gone(n) \/ \E j \in 1 .. Len(frames) : frames[j].node = n /\ frames[j].step > KidAt(n, i)

(* While a tree is built its arrays move with its schemas.                 *)
TogetherInv ==
  /\ Block(Root, "array") \notin moved =>
       \A n \in Nodes : Block(n, "array") \in moved <=> Gone(n)
  /\ phase = "building" => Block(Root, "array") \notin moved
  /\ phase \in {"finishing", "copying", "returned"} => Block(Root, "array") \in moved
  /\ phase \in {"finishing", "returned"} => Gone(Root)

(* A structure that has moved is complete, and when the outermost one has  *)
(* moved, so is all below it.                                              *)
Complete(structs, what, out, n) ==
  structs[n].live /\ \A i \in 1 .. K(n) : Block(Kids[n][i], what) \in structs[n].own \cap out

Whole(structs, what, out) ==
  \A n \in Nodes : Block(n, what) \in out /\ Complete(structs, what, out, n)

CompleteInv ==
  Running =>
    \A n \in Nodes :
      /\ Block(n, "array") \in moved => Complete(array, "array", moved, n)
      /\ Block(n, "schema") \in moved => Complete(schema, "schema", moved, n)

WholeInv ==
  phase # "done" =>
    /\ Block(Root, "array") \in moved => Whole(array, "array", moved)
    /\ Block(Root, "schema") \in moved => Whole(schema, "schema", moved)

TakenInv ==
  \A n \in Nodes : n \notin Structs /\ Block(n, "array") \in moved => builder[n] = {}

(* Whatever is live is held by a finalizer on the stack, or by the         *)
(* structure above it, which is live.                                      *)
Held(structs, what, out, stack) ==
  \A n \in Nodes : structs[n].live =>
    \/ Block(n, what) \notin out /\ \E j \in 1 .. Len(stack) : stack[j].node = n
    \/ /\ Block(n, what) \in out
       /\ n = Root \/ \E p \in Nodes : structs[p].live /\ Block(n, what) \in structs[p].own

HeldInv ==
  phase # "done" => Held(array, "array", moved, frames) /\ Held(schema, "schema", moved, frames)

EmptyInv == phase = "done" => heap = {}

ReleaseInv == StackInv /\ KidsGoneInv /\ OrderInv /\ TogetherInv /\ CompleteInv
OutputInv == ReleaseInv /\ WholeInv /\ TakenInv /\ HeldInv /\ EmptyInv

(***************************************************************************)
(* The tree of structures.                                                 *)
(***************************************************************************)

(* What is true of the outermost builder and is handed down is true of all.*)
LEMMA DownTheTree ==
  ASSUME NEW S, Root \in S, \A n \in Nodes : n \in S => KidsOf(n) \subseteq S
  PROVE  Nodes \subseteq S
<1> DEFINE T == S \cap Nodes
<1>1. T \in SUBSET Nodes /\ Root \in T
  BY TreeAssumption
<1>2. \A n \in T : KidsOf(n) \subseteq T
  BY KidsAre
<1>3. T = Nodes
  BY <1>1, <1>2, BelowRootAssumption
<1> QED
  BY <1>3

(* A builder has one above it at most, in which it has one place.          *)
LEMMA OneParent ==
  ASSUME NEW m \in Nodes, NEW n \in Nodes
  PROVE  /\ KidsOf(m) \cap KidsOf(n) # {} => m = n
         /\ \A i \in 1 .. K(m), j \in 1 .. K(n) : Kids[m][i] = Kids[n][j] => m = n /\ i = j
BY BelowRootAssumption DEF KidsOf, K

(* A structure owns those of the builders below it only.                   *)
LEMMA OwnsItsKids ==
  ASSUME OwnInv
  PROVE  \A p, k \in Nodes :
           /\ Block(k, "array") \in array[p].own => k \in KidsOf(p)
           /\ Block(k, "schema") \in schema[p].own => k \in KidsOf(p)
BY DEF OwnInv, ArrayBlocks, ArrayLists, SchemaBlocks, SchemaLists, SchemaStrings, Block

OwnsKids(structs, what) ==
  \A p, k \in Nodes : Block(k, what) \in structs[p].own => k \in KidsOf(p)

(* When the stack is empty, whatever is live is below the outermost one.   *)
LEMMA LiveBeneath ==
  ASSUME NEW s, NEW what, OwnsKids(s, what), Held(s, what, moved, << >>)
  PROVE  \A n \in Nodes : s[n].live => n \in Beneath(s, what, Root)
<1>1. \A n \in Nodes : s[n].live =>
        /\ Block(n, what) \in moved
        /\ n = Root \/ \E p \in Nodes : s[p].live /\ Block(n, what) \in s[p].own
  BY DEF Held
<1>2. \A m \in Nodes : \A k \in KidsOf(m) :
        s[k].live => s[m].live /\ Block(k, what) \in s[m].own \cap moved
  <2> SUFFICES ASSUME NEW m \in Nodes, NEW k \in KidsOf(m), s[k].live
               PROVE  s[m].live /\ Block(k, what) \in s[m].own \cap moved
    OBVIOUS
  <2>1. k \in Nodes /\ k # Root
    BY KidsAre
  <2>2. PICK p \in Nodes : s[p].live /\ Block(k, what) \in s[p].own
    BY <1>1, <2>1
  <2>3. k \in KidsOf(p)
    BY <2>1, <2>2 DEF OwnsKids
  <2>4. p = m
    BY <2>3, OneParent
  <2> QED
    BY <1>1, <2>1, <2>2, <2>4
<1>3. ASSUME NEW S, Root \in S, \A k \in Nodes : k \in S => Children(s, what, k) \subseteq S
      PROVE  \A n \in Nodes : s[n].live => n \in S
  <2> DEFINE T == {n \in Nodes : s[n].live => n \in S}
  <2>1. Root \in T
    BY <1>3, TreeAssumption
  <2>2. \A n \in Nodes : n \in T => KidsOf(n) \subseteq T
    <3> SUFFICES ASSUME NEW n \in Nodes, n \in T, NEW k \in KidsOf(n), s[k].live
                 PROVE  k \in S
      BY KidsAre
    <3>1. n \in S /\ Block(k, what) \in s[n].own \cap moved
      BY <1>2
    <3>2. k \in Children(s, what, n)
      BY <3>1, KidsAre DEF Children
    <3> QED
      BY <1>3, <3>1, <3>2
  <2> HIDE DEF T
  <2>3. Nodes \subseteq T
    BY <2>1, <2>2, DownTheTree
  <2> QED
    BY <2>3 DEF T
<1>4. \A n \in Nodes : s[n].live => s[Root].live
  <2> DEFINE T == {n \in Nodes : s[n].live => s[Root].live}
  <2>1. Root \in T
    BY TreeAssumption
  <2>2. \A n \in Nodes : n \in T => KidsOf(n) \subseteq T
    BY <1>2, KidsAre
  <2> HIDE DEF T
  <2>3. Nodes \subseteq T
    BY <2>1, <2>2, DownTheTree
  <2> QED
    BY <2>3 DEF T
<1> QED
  BY <1>3, <1>4 DEF Beneath

(* What moved as a whole is below the outermost one.                       *)
LEMMA WholeBeneath ==
  ASSUME NEW s, NEW what, OwnsKids(s, what), Held(s, what, moved, << >>), Whole(s, what, moved)
  PROVE  Beneath(s, what, Root) = Nodes
<1>1. \A n \in Nodes : s[n].live
  BY DEF Whole, Complete
<1>2. \A n \in Nodes : n \in Beneath(s, what, Root)
  BY <1>1, LiveBeneath
<1> QED
  BY <1>2 DEF Beneath

(* Whatever structure owns something is freed with the outermost one.      *)
LEMMA AllOwned ==
  ASSUME NEW s, NEW what, OwnsKids(s, what), Held(s, what, moved, << >>),
         \A n \in Nodes : s[n].own # {} => s[n].live
  PROVE  \A n \in Nodes : s[n].own \subseteq Owned(s, what, Root)
<1> SUFFICES ASSUME NEW n \in Nodes, NEW b \in s[n].own
             PROVE  b \in Owned(s, what, Root)
  OBVIOUS
<1>1. n \in Beneath(s, what, Root)
  BY LiveBeneath
<1> QED
  BY <1>1 DEF Owned

(* Releasing a tree leaves what is above and beside it as it was.          *)
LEMMA CutHeld ==
  ASSUME NEW s, NEW what, NEW n \in Nodes
  PROVE  LET t == WithoutTree(s, what, n)
         IN  /\ ~t[n].live
             /\ \A k \in Nodes : t[k].live => s[k].live /\ t[k] = s[k]
             /\ \A k, p \in Nodes :
                  t[k].live /\ s[p].live /\ Block(k, what) \in s[p].own \cap moved => t[p] = s[p]
<1> DEFINE t == WithoutTree(s, what, n)
<1>1. \A k \in Nodes : t[k] = IF k \in Beneath(s, what, n) THEN Released ELSE s[k]
  BY DEF WithoutTree
<1>2. \A k \in Nodes : t[k].live => k \notin Beneath(s, what, n) /\ t[k] = s[k]
  BY <1>1 DEF Released
<1>3. s[n].live => n \in Beneath(s, what, n)
  BY DEF Beneath
<1>4. ASSUME NEW k \in Nodes, NEW p \in Nodes, t[k].live, s[p].live,
             Block(k, what) \in s[p].own \cap moved
      PROVE  t[p] = s[p]
  <2>1. CASE p \notin Beneath(s, what, n)
    BY <1>1, <2>1
  <2>2. CASE p \in Beneath(s, what, n)
    <3>1. s[k].live
      BY <1>2, <1>4
    <3>2. k \in Children(s, what, p)
      BY <1>4, <3>1 DEF Children
    <3>3. k \in Beneath(s, what, n)
      BY <2>2, <3>2 DEF Beneath
    <3> QED
      BY <1>2, <1>4, <3>3
  <2> QED
    BY <2>1, <2>2
<1>5. ~t[n].live
  BY <1>2, <1>3
<1>6. \A k \in Nodes : t[k].live => s[k].live /\ t[k] = s[k]
  BY <1>2
<1> QED
  BY <1>4, <1>5, <1>6

(* So whatever is left of it is held as it was, also when the frame of the *)
(* structure is left.                                                      *)
LEMMA HeldAfterCut ==
  ASSUME NEW s, NEW what, NEW n \in Nodes, NEW f,
         Held(s, what, moved, frames),
         \A j \in 1 .. Len(frames) : frames[j].node # n =>
           \E l \in 1 .. Len(f) : f[l].node = frames[j].node
  PROVE  Held(WithoutTree(s, what, n), what, moved, f)
<1> DEFINE t == WithoutTree(s, what, n)
<1>1. /\ ~t[n].live
      /\ \A k \in Nodes : t[k].live => s[k].live /\ t[k] = s[k]
      /\ \A k, p \in Nodes :
           t[k].live /\ s[p].live /\ Block(k, what) \in s[p].own \cap moved => t[p] = s[p]
  BY CutHeld
<1> HIDE DEF t
<1>2. Held(t, what, moved, f)
  <2> SUFFICES ASSUME NEW k \in Nodes, t[k].live
               PROVE  \/ Block(k, what) \notin moved /\ \E j \in 1 .. Len(f) : f[j].node = k
                      \/ /\ Block(k, what) \in moved
                         /\ k = Root \/ \E p \in Nodes : t[p].live /\ Block(k, what) \in t[p].own
    BY DEF Held
  <2>1. s[k].live /\ k # n
    BY <1>1
  <2>2. CASE Block(k, what) \notin moved
    BY <2>1, <2>2 DEF Held
  <2>3. CASE Block(k, what) \in moved /\ k = Root
    BY <2>3
  <2>4. CASE Block(k, what) \in moved /\ k # Root
    <3>1. PICK p \in Nodes : s[p].live /\ Block(k, what) \in s[p].own
      BY <2>1, <2>4 DEF Held
    <3>2. t[p] = s[p]
      BY <1>1, <2>4, <3>1
    <3> QED
      BY <2>4, <3>1, <3>2
  <2> QED
    BY <2>2, <2>3, <2>4
<1> QED
  BY <1>2 DEF t
(* The stack is empty once the outermost builder has returned or thrown.   *)
LEMMA NoFrames ==
  ASSUME OwnershipInv, HeldInv, phase \in {"finishing", "returned", "threw"}
  PROVE  /\ Held(array, "array", moved, << >>) /\ Held(schema, "schema", moved, << >>)
         /\ OwnsKids(array, "array") /\ OwnsKids(schema, "schema")
<1>1. frames = << >>
  BY DEF OwnershipInv, FramesInv
<1>2. OwnsKids(array, "array") /\ OwnsKids(schema, "schema")
  BY OwnsItsKids DEF OwnershipInv, OwnsKids
<1> QED
  BY <1>1, <1>2 DEF HeldInv

(* What is live then has moved, as a whole.                                *)
LEMMA AllOrNothing ==
  ASSUME NEW s, NEW what, OwnsKids(s, what), Held(s, what, moved, << >>),
         Block(Root, what) \in moved => Whole(s, what, moved)
  PROVE  Beneath(s, what, Root) \in {{}, Nodes}
<1>1. CASE ~s[Root].live
  BY <1>1 DEF Beneath
<1>2. CASE s[Root].live
  <2>1. Block(Root, what) \in moved
    BY <1>2, TreeAssumption DEF Held
  <2> QED
    BY <2>1, WholeBeneath
<1> QED
  BY <1>1, <1>2

(* What is left when the outermost builder has returned is in the two      *)
(* trees, but for the validity buffers of structs.                         *)
LEMMA HeapReturned ==
  ASSUME OwnershipInv, TakenInv, phase = "returned",
         Whole(array, "array", moved),
         Beneath(array, "array", Root) = Nodes, Beneath(schema, "schema", Root) = Nodes
  PROVE  heap = Owned(array, "array", Root) \cup Owned(schema, "schema", Root)
                  \cup UNION {builder[n] : n \in Structs}
<1>1. Owned(array, "array", Root) = UNION {array[n].own : n \in Nodes}
  BY DEF Owned
<1>2. Owned(schema, "schema", Root) = UNION {schema[n].own : n \in Nodes}
  BY DEF Owned
<1>3. \A n \in Nodes : n \notin Structs => builder[n] = {}
  BY DEF Whole, TakenInv
<1>4. \A n \in Nodes : OwnedBy(n) \subseteq heap
  BY DEF OwnershipInv, HeapInv
<1>5. \A b \in heap : \E n \in Nodes : b \in OwnedBy(n)
  BY DEF OwnershipInv, HeapInv
<1>6. Structs \subseteq Nodes
  BY TreeAssumption
<1>7. ASSUME NEW b \in heap
      PROVE  b \in Owned(array, "array", Root) \cup Owned(schema, "schema", Root)
                  \cup UNION {builder[n] : n \in Structs}
  <2>1. PICK n \in Nodes : b \in builder[n] \/ b \in array[n].own \/ b \in schema[n].own
    BY <1>5 DEF OwnedBy
  <2> QED
    BY <2>1, <1>1, <1>2, <1>3
<1>8. ASSUME NEW b, b \in Owned(array, "array", Root) \cup Owned(schema, "schema", Root)
                  \cup UNION {builder[n] : n \in Structs}
      PROVE  b \in heap
  BY <1>8, <1>1, <1>2, <1>4, <1>6 DEF OwnedBy
<1> QED
  BY <1>7, <1>8

(* The invariant says what the caller gets.                                *)
LEMMA OutputFrom ==
  ASSUME OwnershipInv, OutputInv
  PROVE  OutputWhole
<1>1. CASE phase \in {"returned", "threw"}
  <2>1. /\ Held(array, "array", moved, << >>) /\ Held(schema, "schema", moved, << >>)
        /\ OwnsKids(array, "array") /\ OwnsKids(schema, "schema")
    BY <1>1, NoFrames DEF OutputInv
  <2>2. /\ Block(Root, "array") \in moved => Whole(array, "array", moved)
        /\ Block(Root, "schema") \in moved => Whole(schema, "schema", moved)
    BY <1>1 DEF OutputInv, WholeInv
  <2>3. /\ Beneath(array, "array", Root) \in {{}, Nodes}
        /\ Beneath(schema, "schema", Root) \in {{}, Nodes}
    BY <2>1, <2>2, AllOrNothing
  <2>4. CASE phase = "returned"
    <3>1. Block(Root, "array") \in moved /\ Block(Root, "schema") \in moved
      BY <2>4 DEF OutputInv, ReleaseInv, TogetherInv, Gone
    <3>2. /\ Whole(array, "array", moved)
          /\ Beneath(array, "array", Root) = Nodes
          /\ Beneath(schema, "schema", Root) = Nodes
      BY <2>1, <2>2, <3>1, WholeBeneath
    <3>3. heap = Owned(array, "array", Root) \cup Owned(schema, "schema", Root)
                  \cup UNION {builder[n] : n \in Structs}
      BY <2>4, <3>2, HeapReturned DEF OutputInv
    <3> QED
      BY <2>3, <2>4, <3>2, <3>3 DEF OutputWhole
  <2>5. CASE phase = "threw"
    BY <2>3, <2>5 DEF OutputWhole
  <2> QED
    BY <1>1, <2>4, <2>5
<1>2. CASE phase \notin {"returned", "threw"}
  BY <1>2 DEF OutputWhole, OutputInv, EmptyInv
<1> QED
  BY <1>1, <1>2

-----------------------------------------------------------------------------

(***************************************************************************)
(* Steps that release nothing and move nothing.                            *)
(***************************************************************************)

(* While there are frames the outermost schema has not moved.              *)
LEMMA RootIsHeld ==
  ASSUME OwnershipInv, StackInv, frames # << >>
  PROVE  ~Gone(Root)
<1>1. frames[1].node = Root /\ 1 \in 1 .. Len(frames)
  BY DEF OwnershipInv, FramesInv, TypeInv
<1> QED
  BY <1>1 DEF StackInv

(* When nothing runs any more, and nothing moves, what is known of the     *)
(* stack stays.                                                            *)
LEMMA Stopped ==
  ASSUME ReleaseInv, TakenInv, moved' = moved, \A n \in Nodes : builder'[n] \subseteq builder[n],
         \A j \in 1 .. Len(frames') : frames'[j].node = frames[j].node /\ j \in 1 .. Len(frames),
         phase' \in {"throwing", "threw", "done"} \/ (phase = "finishing" /\ phase' = "returned")
  PROVE  ReleaseInv' /\ TakenInv'
<1>1. StackInv'
  BY DEF ReleaseInv, StackInv, Gone
<1>2. ~Running'
  BY DEF Running
<1>3. TogetherInv'
  BY DEF ReleaseInv, TogetherInv, Gone
<1>4. TakenInv'
  BY DEF TakenInv
<1> QED
  BY <1>1, <1>2, <1>3, <1>4 DEF ReleaseInv, KidsGoneInv, OrderInv, CompleteInv

(* An exception is thrown, or passes on, with all structures as they are.  *)
LEMMA ThrownOut ==
  ASSUME OutputInv, UNCHANGED <<array, schema, builder, moved, frames>>, phase # "done",
         phase' \in {"throwing", "threw"} \/ (phase = "finishing" /\ phase' = "returned")
  PROVE  OutputInv'
<1>1. ReleaseInv' /\ TakenInv'
  BY Stopped DEF OutputInv
<1>2. WholeInv' /\ HeldInv'
  BY DEF OutputInv, WholeInv, HeldInv, Whole, Complete, Held
<1>3. EmptyInv'
  BY DEF EmptyInv
<1> QED
  BY <1>1, <1>2, <1>3 DEF OutputInv
(***************************************************************************)
(* Steps of the innermost frame.                                           *)
(***************************************************************************)

(* The innermost frame adds to what its structures hold: its schema always,*)
(* its array while the tree is built.                                      *)
Grows ==
  /\ \A n \in Nodes \ {Node} : array'[n] = array[n] /\ schema'[n] = schema[n]
  /\ \A k \in Nodes :
       /\ Block(k, "array") \in array[Node].own => Block(k, "array") \in array'[Node].own
       /\ Block(k, "schema") \in schema[Node].own => Block(k, "schema") \in schema'[Node].own
  /\ array[Node].live => array'[Node].live
  /\ schema[Node].live => schema'[Node].live
  /\ phase # "building" => array' = array
  /\ \A n \in Nodes : builder'[n] \subseteq builder[n]
  /\ moved' = moved

(* No structure of a frame has moved, but for the array that is kept while *)
(* the schema is copied.                                                   *)
LEMMA FrameHolds ==
  ASSUME OwnershipInv, ReleaseInv, Running, NEW j \in 1 .. Len(frames)
  PROVE  /\ Block(frames[j].node, "schema") \notin moved
         /\ phase = "building" => Block(frames[j].node, "array") \notin moved
<1>1. frames[j].node \in Nodes
  BY RunningIs DEF TopIs
<1> QED
  BY <1>1 DEF ReleaseInv, StackInv, TogetherInv, Gone

(* What stays held when the innermost frame adds to its structures.        *)
LEMMA GrowsHeld ==
  ASSUME NEW s, NEW t, NEW what, NEW f, NEW n \in Nodes,
         \A m \in Nodes \ {n} : t[m] = s[m],
         s[n].live => t[n].live,
         \A k \in Nodes : Block(k, what) \in s[n].own => Block(k, what) \in t[n].own,
         Block(n, what) \notin moved \/ t = s,
         \E j \in 1 .. Len(f) : f[j].node = n,
         \A j \in 1 .. Len(frames) : j \in 1 .. Len(f) /\ f[j].node = frames[j].node,
         Held(s, what, moved, frames)
  PROVE  Held(t, what, moved, f)
<1>1. CASE t = s
  BY <1>1 DEF Held
<1>2. CASE Block(n, what) \notin moved
  <2> SUFFICES ASSUME NEW k \in Nodes, t[k].live
               PROVE  \/ Block(k, what) \notin moved /\ \E j \in 1 .. Len(f) : f[j].node = k
                      \/ /\ Block(k, what) \in moved
                         /\ k = Root \/ \E p \in Nodes : t[p].live /\ Block(k, what) \in t[p].own
    BY DEF Held
  <2>1. CASE k = n
    BY <1>2, <2>1
  <2>2. CASE k # n
    <3>1. s[k].live
      BY <2>2
    <3>2. CASE Block(k, what) \notin moved
      BY <3>1, <3>2 DEF Held
    <3>3. CASE Block(k, what) \in moved /\ k = Root
      BY <3>3
    <3>4. CASE Block(k, what) \in moved /\ k # Root
      <4>1. PICK p \in Nodes : s[p].live /\ Block(k, what) \in s[p].own
        BY <3>1, <3>4 DEF Held
      <4>2. t[p].live /\ Block(k, what) \in t[p].own
        BY <4>1
      <4> QED
        BY <3>4, <4>2
    <3> QED
      BY <3>2, <3>3, <3>4
  <2> QED
    BY <2>1, <2>2
<1> QED
  BY <1>1, <1>2

(* A structure that is complete stays so while another one is built.       *)
LEMMA StillComplete ==
  ASSUME NEW s, NEW t, NEW what, NEW out, NEW n, t[n] = s[n], Complete(s, what, moved, n),
         moved \subseteq out
  PROVE  Complete(t, what, out, n)
BY DEF Complete

(* A child's step is one that releases a child.                            *)
LEMMA KidStep ==
  ASSUME TopIs, NEW i \in 1 .. K(Node), Top.step = KidAt(Node, i)
  PROVE  Do = "kid" /\ Target = Block(Kids[Node][i], "array")
<1>1. Plan(Node)[Before(Node) + i] = Step("kid", Block(Kids[Node][i], "array"))
  BY PlanAt DEF TopIs, PlanShape
<1> QED
  BY <1>1, StepParts DEF Do, Target, KidAt

(* What is known of the stack when the innermost frame goes on.            *)
LEMMA StackGoesOn ==
  ASSUME OwnershipInv, ReleaseInv, Running, GoOn, Do # "kid", moved' = moved
  PROVE  StackInv' /\ KidsGoneInv' /\ OrderInv' /\ TogetherInv'
<1>1. TopIs /\ DoIs
  BY RunningIs
<1>2. WentOn
  BY <1>1, GoesOn
<1>3. \A n : Gone(n)' <=> Gone(n)
  BY DEF Gone
<1>4. StackInv'
  BY <1>1, <1>2, <1>3 DEF WentOn, ReleaseInv, StackInv
<1>5. TogetherInv'
  BY <1>2, <1>3 DEF WentOn, ReleaseInv, TogetherInv
<1>6. Running' /\ \A n : \A i : KidAt(n, i)' = KidAt(n, i)
  BY <1>2, SamePlan DEF WentOn, Running
<1>7. KidsGoneInv'
  <2> SUFFICES ASSUME NEW j \in 1 .. Len(frames),
                      NEW n, n = frames[j].node, NEW i \in 1 .. K(n),
                      KidAt(n, i) < frames'[j].step
               PROVE  \/ Gone(Kids[n][i])
                      \/ j < Len(frames) /\ frames[j + 1].node = Kids[n][i]
    <3>1. /\ Len(frames') = Len(frames)
          /\ \A j \in 1 .. Len(frames) : frames'[j].node = frames[j].node
      BY <1>2 DEF WentOn
    <3>2. \A j \in 1 .. Len(frames) : j < Len(frames) => frames'[j + 1].node = frames[j + 1].node
      BY <1>1, <3>1 DEF TopIs
    <3>3. \A j \in 1 .. Len(frames') : \A i \in 1 .. K(frames'[j].node) :
            KidAt(frames'[j].node, i) < frames'[j].step =>
              \/ Gone(Kids[frames'[j].node][i])
              \/ j < Len(frames') /\ frames'[j + 1].node = Kids[frames'[j].node][i]
      BY <3>1, <3>2, ZenonT(40)
    <3> QED
      BY <1>3, <1>6, <3>3, Zenon DEF KidsGoneInv
  <2>1. CASE j # Len(frames)
    <3>1. frames'[j] = frames[j]
      BY <1>1, <1>2, <2>1 DEF TopIs, WentOn
    <3> QED
      BY <3>1 DEF ReleaseInv, KidsGoneInv
  <2>2. CASE j = Len(frames)
    <3>1. frames'[j].step = frames[j].step + 1 /\ n = Node /\ frames[j].step = Top.step
      BY <1>1, <1>2, <2>2 DEF TopIs, WentOn
    <3>2. KidAt(n, i) # Top.step
      BY <1>1, <3>1, KidStep
    <3>3. KidAt(n, i) \in Nat /\ Top.step \in Nat
      BY <1>1, <3>1, PositionsAre DEF TopIs
    <3>4. KidAt(n, i) < frames[j].step
      BY <3>1, <3>2, <3>3
    <3> QED
      BY <3>4 DEF ReleaseInv, KidsGoneInv
  <2> QED
    BY <2>1, <2>2
<1>8. OrderInv'
  <2> SUFFICES ASSUME NEW n \in Nodes, NEW i \in 1 .. K(n), Gone(Kids[n][i]), ~Gone(n)
               PROVE  \E j \in 1 .. Len(frames') : frames'[j].node = n /\ frames'[j].step > KidAt(n, i)
    BY <1>3, <1>6, Zenon DEF OrderInv
  <2>1. PICK j \in 1 .. Len(frames) : frames[j].node = n /\ frames[j].step > KidAt(n, i)
    BY DEF ReleaseInv, OrderInv
  <2>2. Len(frames') = Len(frames) /\ frames'[j].node = n
    BY <1>2, <2>1 DEF WentOn
  <2>3. KidAt(n, i) \in Nat /\ frames[j].step \in Nat
    BY <1>1, PositionsAre DEF TopIs
  <2>4. frames'[j].step = frames[j].step \/ frames'[j].step = frames[j].step + 1
    <3>1. CASE j = Len(frames)
      BY <1>1, <1>2, <3>1 DEF TopIs, WentOn
    <3>2. CASE j # Len(frames)
      <4>1. j \in 1 .. Len(frames) - 1
        BY <1>1, <3>2 DEF TopIs
      <4> QED
        BY <1>2, <4>1 DEF WentOn
    <3> QED
      BY <3>1, <3>2
  <2>5. frames'[j].step > KidAt(n, i)
    BY <2>1, <2>3, <2>4
  <2> QED
    BY <2>2, <2>5
<1> QED
  BY <1>4, <1>5, <1>7, <1>8
(* What has moved stays as it was.                                         *)
LEMMA GrowsComplete ==
  ASSUME OwnershipInv, OutputInv, Running, Grows
  PROVE  CompleteInv' /\ WholeInv' /\ TakenInv'
<1>1. TopIs
  BY RunningIs
<1>2. /\ Block(Node, "schema") \notin moved
      /\ phase = "building" => Block(Node, "array") \notin moved
  BY <1>1, FrameHolds DEF TopIs, OutputInv
<1>3. \A n \in Nodes :
        /\ Block(n, "array") \in moved => array'[n] = array[n]
        /\ Block(n, "schema") \in moved => schema'[n] = schema[n]
  BY <1>2, Zenon DEF Grows, Running
<1>4. \A n \in Nodes :
        /\ Block(n, "array") \in moved =>
             /\ Complete(array, "array", moved, n)
             /\ Complete(array', "array", moved', n)
        /\ Block(n, "schema") \in moved =>
             /\ Complete(schema, "schema", moved, n)
             /\ Complete(schema', "schema", moved', n)
  <2>1. moved \subseteq moved'
    BY DEF Grows
  <2> SUFFICES ASSUME NEW n \in Nodes
               PROVE  /\ Block(n, "array") \in moved =>
                           /\ Complete(array, "array", moved, n)
                           /\ Complete(array', "array", moved', n)
                      /\ Block(n, "schema") \in moved =>
                           /\ Complete(schema, "schema", moved, n)
                           /\ Complete(schema', "schema", moved', n)
    OBVIOUS
  <2>2. /\ Block(n, "array") \in moved => Complete(array, "array", moved, n)
        /\ Block(n, "schema") \in moved => Complete(schema, "schema", moved, n)
    BY DEF OutputInv, ReleaseInv, CompleteInv
  <2>3. ASSUME Block(n, "array") \in moved
        PROVE  Complete(array', "array", moved', n)
    BY <1>3, <2>1, <2>2, <2>3, StillComplete
  <2>4. ASSUME Block(n, "schema") \in moved
        PROVE  Complete(schema', "schema", moved', n)
    BY <1>3, <2>1, <2>2, <2>4, StillComplete
  <2> QED
    BY <2>2, <2>3, <2>4
<1>5. CompleteInv'
  BY <1>4 DEF CompleteInv, Complete, Grows
<1>6. WholeInv'
  <2>1. phase # "done"
    BY DEF Running
  <2>2. /\ Block(Root, "array") \in moved => Whole(array', "array", moved')
        /\ Block(Root, "schema") \in moved => Whole(schema', "schema", moved')
    BY <1>4, <2>1 DEF OutputInv, WholeInv, Whole, Grows
  <2> QED
    BY <2>2 DEF WholeInv, Whole, Complete, Grows
<1>7. TakenInv'
  BY DEF OutputInv, TakenInv, Grows
<1> QED
  BY <1>5, <1>6, <1>7

(* The innermost frame goes on, having added to its structures.            *)
LEMMA GrowsOut ==
  ASSUME OwnershipInv, OutputInv, Running, GoOn, Do # "kid", Grows
  PROVE  OutputInv'
<1>1. TopIs /\ WentOn
  BY RunningIs, GoesOn
<1>2. StackInv' /\ KidsGoneInv' /\ OrderInv' /\ TogetherInv'
  BY StackGoesOn DEF OutputInv, Grows
<1>3. CompleteInv' /\ WholeInv' /\ TakenInv'
  BY GrowsComplete
<1>4. /\ Block(Node, "schema") \notin moved
      /\ phase = "building" => Block(Node, "array") \notin moved
  BY <1>1, FrameHolds DEF TopIs, OutputInv
<1>5. /\ Held(array, "array", moved, frames) /\ Held(schema, "schema", moved, frames)
      /\ phase \in {"building", "copying"}
  BY DEF OutputInv, HeldInv, Running
<1>6. /\ Node \in Nodes /\ \E j \in 1 .. Len(frames') : frames'[j].node = Node
      /\ \A j \in 1 .. Len(frames) : j \in 1 .. Len(frames') /\ frames'[j].node = frames[j].node
  BY <1>1 DEF TopIs, WentOn
<1>7. Held(array', "array", moved, frames')
  <2>1. /\ \A m \in Nodes \ {Node} : array'[m] = array[m]
        /\ array[Node].live => array'[Node].live
        /\ \A k \in Nodes : Block(k, "array") \in array[Node].own =>
             Block(k, "array") \in array'[Node].own
    BY DEF Grows
  <2>2. Block(Node, "array") \notin moved \/ array' = array
    BY <1>4, <1>5 DEF Grows
  <2> QED
    BY <1>5, <1>6, <2>1, <2>2, GrowsHeld
<1>8. Held(schema', "schema", moved, frames')
  <2>1. /\ \A m \in Nodes \ {Node} : schema'[m] = schema[m]
        /\ schema[Node].live => schema'[Node].live
        /\ \A k \in Nodes : Block(k, "schema") \in schema[Node].own =>
             Block(k, "schema") \in schema'[Node].own
    BY DEF Grows
  <2> QED
    BY <1>4, <1>5, <1>6, <2>1, GrowsHeld
<1>9. HeldInv'
  BY <1>7, <1>8 DEF HeldInv, Held, Grows
<1>10. EmptyInv'
  BY <1>1, <1>5 DEF WentOn, EmptyInv
<1> QED
  BY <1>2, <1>3, <1>9, <1>10 DEF OutputInv, ReleaseInv

(* A builder begins, or refuses.                                           *)
LEMMA BeginOut ==
  ASSUME OwnershipInv, OutputInv, Begin
  PROVE  OutputInv'
<1>1. Running /\ Do = "begin" /\ UNCHANGED <<builder, array, schema, moved>>
  BY DEF Begin
<1>2. CASE GoOn
  <2>1. Grows
    BY <1>1 DEF Grows
  <2> QED
    BY <1>1, <1>2, <2>1, GrowsOut
<1>3. CASE Throw
  BY <1>1, <1>3, ThrownOut DEF Throw, Running
<1> QED
  BY <1>2, <1>3 DEF Begin

(* The innermost frame allocates a block.                                  *)
LEMMA AllocateOut ==
  ASSUME OwnershipInv, OutputInv, Allocate
  PROVE  OutputInv'
<1>1. /\ Running /\ Do \in {"array", "schema", "string"} /\ GoOn
      /\ UNCHANGED <<builder, moved>>
  BY DEF Allocate
<1>2. Node \in Nodes /\ (Do = "array" => phase = "building")
  BY <1>1, RunningIs DEF TopIs, DoIs
<1>3. array \in [Nodes -> Structure] /\ schema \in [Nodes -> Structure]
  BY DEF OwnershipInv, TypeInv
<1>4. CASE Do = "array"
  <2>1. array' = [array EXCEPT ![Node] = Owning(@, Target)] /\ schema' = schema
    BY <1>4 DEF Allocate
  <2>2. /\ array'[Node].live /\ array[Node].own \subseteq array'[Node].own
        /\ \A n \in Nodes \ {Node} : array'[n] = array[n]
    BY <1>2, <1>3, <2>1 DEF Owning
  <2>3. Grows
    BY <1>1, <1>2, <1>4, <2>1, <2>2 DEF Grows
  <2> QED
    BY <1>1, <2>3, GrowsOut
<1>5. CASE Do # "array"
  <2>1. schema' = [schema EXCEPT ![Node] = Owning(@, Target)] /\ array' = array
    BY <1>5 DEF Allocate
  <2>2. /\ schema'[Node].live /\ schema[Node].own \subseteq schema'[Node].own
        /\ \A n \in Nodes \ {Node} : schema'[n] = schema[n]
    BY <1>2, <1>3, <2>1 DEF Owning
  <2>3. Grows
    BY <1>1, <2>1, <2>2 DEF Grows
  <2> QED
    BY <1>1, <2>3, GrowsOut
<1> QED
  BY <1>4, <1>5

(* A string is not allocated.                                              *)
LEMMA AllocateStringFailsOut ==
  ASSUME OwnershipInv, OutputInv, AllocateStringFails
  PROVE  OutputInv'
BY ThrownOut DEF AllocateStringFails, Throw, Running

(* A string is replaced.                                                   *)
LEMMA ReplaceOut ==
  ASSUME OwnershipInv, OutputInv, Replace
  PROVE  OutputInv'
<1>1. /\ Running /\ Do \in {"format", "name"} /\ GoOn
      /\ UNCHANGED <<builder, array, moved>>
      /\ schema' = [schema EXCEPT ![Node] = Swapped(@)]
  BY DEF Replace
<1>2. Node \in Nodes
  BY <1>1, RunningIs DEF TopIs
<1>3. schema \in [Nodes -> Structure]
  BY DEF OwnershipInv, TypeInv
<1>4. \A k : Block(k, "schema") # Old
  BY DEF Old, Block
<1>5. /\ schema[Node].live => schema'[Node].live
      /\ \A k : Block(k, "schema") \in schema[Node].own => Block(k, "schema") \in schema'[Node].own
      /\ \A n \in Nodes \ {Node} : schema'[n] = schema[n]
  BY <1>1, <1>2, <1>3, <1>4 DEF Swapped
<1>6. Grows
  BY <1>1, <1>5 DEF Grows
<1> QED
  BY <1>1, <1>6, GrowsOut

(* A string cannot be replaced.                                            *)
LEMMA ReplaceFailsOut ==
  ASSUME OwnershipInv, OutputInv, ReplaceFails
  PROVE  OutputInv'
BY ThrownOut DEF ReplaceFails, Throw, Running

(* The array takes the buffers of the builder.                             *)
LEMMA TakeBuffersOut ==
  ASSUME OwnershipInv, OutputInv, TakeBuffers
  PROVE  OutputInv'
<1>1. /\ Running /\ Do = "take" /\ GoOn
      /\ UNCHANGED <<schema, moved>>
      /\ array' = [array EXCEPT ![Node] = [live |-> TRUE, own |-> @.own \cup builder[Node]]]
      /\ builder' = [builder EXCEPT ![Node] = {}]
  BY DEF TakeBuffers
<1>2. Node \in Nodes /\ phase = "building"
  BY <1>1, RunningIs DEF TopIs, DoIs
<1>3. array \in [Nodes -> Structure] /\ builder \in [Nodes -> SUBSET Blocks]
  BY DEF OwnershipInv, TypeInv
<1>4. /\ array'[Node].live /\ array[Node].own \subseteq array'[Node].own
      /\ \A n \in Nodes \ {Node} : array'[n] = array[n]
  BY <1>1, <1>2, <1>3
<1>5. \A n \in Nodes : builder'[n] \subseteq builder[n]
  BY <1>1, <1>3
<1>6. Grows
  BY <1>1, <1>2, <1>4, <1>5 DEF Grows
<1> QED
  BY <1>1, <1>6, GrowsOut
(***************************************************************************)
(* Steps that release.                                                     *)
(***************************************************************************)

(* allocate_array_data() fails: no array has left its finalizer for good.  *)
LEMMA AllocateArrayFailsOut ==
  ASSUME OwnershipInv, OutputInv, AllocateArrayFails
  PROVE  OutputInv'
<1>1. /\ Running /\ Do = "array" /\ array' = WithoutTree(array, "array", Node)
      /\ UNCHANGED <<builder, schema, moved, frames>> /\ phase' = "throwing"
  BY DEF AllocateArrayFails, Throw
<1>2. TopIs /\ phase = "building"
  BY <1>1, RunningIs DEF DoIs
<1>3. Node \in Nodes /\ frames # << >>
  BY <1>2 DEF TopIs
<1>4. Block(Root, "array") \notin moved /\ Block(Root, "schema") \notin moved
  BY <1>2, <1>3, RootIsHeld DEF OutputInv, ReleaseInv, TogetherInv, Gone
<1>5. ReleaseInv' /\ TakenInv'
  BY <1>1, Stopped DEF OutputInv
<1>6. Held(array, "array", moved, frames) /\ Held(schema, "schema", moved, frames)
  BY <1>2 DEF OutputInv, HeldInv
<1>7. Held(array', "array", moved, frames)
  BY <1>1, <1>3, <1>6, HeldAfterCut
<1>8. HeldInv' /\ WholeInv' /\ EmptyInv'
  BY <1>1, <1>4, <1>6, <1>7 DEF HeldInv, WholeInv, EmptyInv, Held
<1> QED
  BY <1>5, <1>8 DEF OutputInv

(* allocate_schema() fails: no schema has, and the array stays.            *)
LEMMA AllocateSchemaFailsOut ==
  ASSUME OwnershipInv, OutputInv, AllocateSchemaFails
  PROVE  OutputInv'
<1>1. /\ Running /\ schema' = WithoutTree(schema, "schema", Node)
      /\ UNCHANGED <<builder, array, moved, frames>> /\ phase' = "throwing"
  BY DEF AllocateSchemaFails, Throw
<1>2. TopIs /\ phase # "done"
  BY <1>1, RunningIs DEF Running
<1>3. Node \in Nodes /\ frames # << >>
  BY <1>2 DEF TopIs
<1>4. Block(Root, "schema") \notin moved
  BY <1>3, RootIsHeld DEF OutputInv, ReleaseInv, Gone
<1>5. ReleaseInv' /\ TakenInv'
  BY <1>1, Stopped DEF OutputInv
<1>6. Held(array, "array", moved, frames) /\ Held(schema, "schema", moved, frames)
  BY <1>2 DEF OutputInv, HeldInv
<1>7. Held(schema', "schema", moved, frames)
  BY <1>1, <1>3, <1>6, HeldAfterCut
<1>8. HeldInv' /\ EmptyInv'
  BY <1>1, <1>6, <1>7 DEF HeldInv, EmptyInv, Held
<1>9. WholeInv'
  BY <1>1, <1>2, <1>4 DEF OutputInv, WholeInv, Whole, Complete
<1> QED
  BY <1>5, <1>8, <1>9 DEF OutputInv

(* An exception passes a level: what its frame holds is released, and what *)
(* has moved is not held by a frame.                                       *)
LEMMA UnwindOut ==
  ASSUME OwnershipInv, OutputInv, Unwind
  PROVE  OutputInv'
<1>1. /\ phase = "throwing" /\ phase' = "throwing" /\ frames # << >> /\ frames' = Callers
      /\ array' = IF ArrayLeft THEN WithoutTree(array, "array", Node) ELSE array
      /\ schema' = IF SchemaLeft THEN WithoutTree(schema, "schema", Node) ELSE schema
      /\ UNCHANGED <<builder, moved>>
  BY DEF Unwind
<1>2. TopIs
  BY <1>1, TopOf DEF OwnershipInv
<1>3. Node \in Nodes /\ Len(frames) \in 1 .. Len(frames) /\ Node = frames[Len(frames)].node
  BY <1>2 DEF TopIs
<1>4. ~Gone(Root) /\ ~Gone(Node)
  BY <1>1, <1>3, RootIsHeld DEF OutputInv, ReleaseInv, StackInv
<1>5. /\ Len(Callers) = Len(frames) - 1 /\ Len(frames) \in Nat
      /\ \A j \in 1 .. Len(Callers) : Callers[j] = frames[j] /\ j \in 1 .. Len(frames)
  BY <1>2 DEF TopIs
<1>6. ReleaseInv' /\ TakenInv'
  BY <1>1, <1>5, Stopped DEF OutputInv
<1>7. \A j \in 1 .. Len(frames) : frames[j].node # Node =>
        \E l \in 1 .. Len(frames') : frames'[l].node = frames[j].node
  <2> SUFFICES ASSUME NEW j \in 1 .. Len(frames), frames[j].node # Node
               PROVE  j \in 1 .. Len(frames') /\ frames'[j].node = frames[j].node
    OBVIOUS
  <2>1. j # Len(frames)
    BY <1>3
  <2>2. j \in 1 .. Len(Callers)
    BY <1>5, <2>1
  <2> QED
    BY <1>1, <1>5, <2>2
<1>8. Held(array, "array", moved, frames) /\ Held(schema, "schema", moved, frames)
  BY <1>1 DEF OutputInv, HeldInv
<1>9. Held(schema', "schema", moved, frames')
  <2>1. schema' = WithoutTree(schema, "schema", Node)
    BY <1>1, <1>4 DEF SchemaLeft, InFinalizer, Gone
  <2> QED
    BY <1>3, <1>7, <1>8, <2>1, HeldAfterCut
<1>10. Held(array', "array", moved, frames')
  <2>1. CASE ArrayLeft
    <3>1. array' = WithoutTree(array, "array", Node)
      BY <1>1, <2>1
    <3> QED
      BY <1>3, <1>7, <1>8, <3>1, HeldAfterCut
  <2>2. CASE ~ArrayLeft
    <3>1. array' = array /\ Block(Node, "array") \in moved
      BY <1>1, <2>2 DEF ArrayLeft, InFinalizer
    <3>2. ASSUME NEW k \in Nodes, Block(k, "array") \notin moved,
                 \E j \in 1 .. Len(frames) : frames[j].node = k
          PROVE  \E j \in 1 .. Len(frames') : frames'[j].node = k
      BY <1>7, <3>1, <3>2
    <3> QED
      BY <1>8, <3>1, <3>2, Zenon DEF Held
  <2> QED
    BY <2>1, <2>2
<1>11. WholeInv'
  <2>1. ASSUME Block(Root, "array") \in moved
        PROVE  Whole(array, "array", moved) /\ array' = array
    <3>1. Whole(array, "array", moved)
      BY <1>1, <2>1 DEF OutputInv, WholeInv
    <3>2. ~ArrayLeft
      BY <1>3, <3>1 DEF Whole, ArrayLeft, InFinalizer
    <3> QED
      BY <1>1, <3>1, <3>2
  <2> QED
    BY <1>1, <1>4, <2>1 DEF WholeInv, Whole, Complete, Gone
<1>12. HeldInv' /\ EmptyInv'
  BY <1>1, <1>9, <1>10 DEF HeldInv, Held, EmptyInv
<1> QED
  BY <1>6, <1>11, <1>12 DEF OutputInv

(* The exception is caught.                                                *)
LEMMA CaughtOut ==
  ASSUME OwnershipInv, OutputInv, Caught
  PROVE  OutputInv'
BY ThrownOut DEF Caught

(* The caller cleans up: nothing is left.                                  *)
LEMMA CleanUpOut ==
  ASSUME OwnershipInv, OutputInv, CleanUp
  PROVE  OutputInv'
<1>1. /\ phase \in {"returned", "threw"} /\ phase' = "done"
      /\ Free(Owned(array, "array", Root) \cup Owned(schema, "schema", Root)
              \cup UNION {builder[n] : n \in Nodes})
      /\ builder' = [n \in Nodes |-> {}]
      /\ UNCHANGED <<moved, frames>>
  BY DEF CleanUp
<1>2. ReleaseInv' /\ TakenInv'
  BY <1>1, Stopped DEF OutputInv
<1>3. /\ Held(array, "array", moved, << >>) /\ Held(schema, "schema", moved, << >>)
      /\ OwnsKids(array, "array") /\ OwnsKids(schema, "schema")
  BY <1>1, NoFrames DEF OutputInv
<1>4. \A n \in Nodes : (array[n].own # {} => array[n].live) /\ (schema[n].own # {} => schema[n].live)
  BY DEF OwnershipInv, OwnInv
<1>5. \A n \in Nodes : /\ array[n].own \subseteq Owned(array, "array", Root)
                       /\ schema[n].own \subseteq Owned(schema, "schema", Root)
  BY <1>3, <1>4, AllOwned
<1>6. \A b \in heap : b \in Owned(array, "array", Root) \cup Owned(schema, "schema", Root)
                           \cup UNION {builder[n] : n \in Nodes}
  BY <1>5 DEF OwnershipInv, HeapInv, OwnedBy
<1>7. heap' = {}
  BY <1>1, <1>6 DEF Free
<1>8. EmptyInv' /\ HeldInv' /\ WholeInv'
  BY <1>1, <1>7 DEF EmptyInv, HeldInv, WholeInv
<1> QED
  BY <1>2, <1>8 DEF OutputInv
(***************************************************************************)
(* Steps that move along the tree.                                         *)
(***************************************************************************)

(* A child that is released is not gone.                                   *)
LEMMA KidIsNotGone ==
  ASSUME OwnershipInv, ReleaseInv, Running, NEW i \in 1 .. K(Node), Top.step = KidAt(Node, i)
  PROVE  ~Gone(Kids[Node][i])
<1>1. TopIs
  BY RunningIs
<1>2. SUFFICES ASSUME Gone(Kids[Node][i])
               PROVE  FALSE
  OBVIOUS
<1>3. ~Gone(Node)
  BY <1>1 DEF ReleaseInv, StackInv, TopIs
<1>4. PICK j \in 1 .. Len(frames) : frames[j].node = Node /\ frames[j].step > KidAt(Node, i)
  BY <1>1, <1>2, <1>3 DEF ReleaseInv, OrderInv, TopIs
<1>5. j = Len(frames)
  BY <1>1, <1>4 DEF TopIs, OwnershipInv, FramesInv
<1>6. KidAt(Node, i) \in Nat
  BY <1>1, PositionsAre DEF TopIs
<1> QED
  BY <1>1, <1>4, <1>5, <1>6 DEF TopIs

(* A child is released.                                                    *)
LEMMA ReleaseKidOut ==
  ASSUME OwnershipInv, OutputInv, ReleaseKid
  PROVE  OutputInv'
<1>1. Running /\ UNCHANGED <<heap, builder, array, schema, moved, phase>>
  BY DEF ReleaseKid
<1>2. TopIs
  BY <1>1, RunningIs
<1>3. PICK c : Pushed(Node, c, Top.step)
  BY KidIsPushed
<1>4. PICK t : t = Node
  OBVIOUS
<1>5. PICK s : s = Top.step
  OBVIOUS
<1>6. PICK L : L = Len(frames)
  OBVIOUS
<1>7. /\ t \in Nodes /\ s \in Nat /\ L \in Nat /\ L >= 1 /\ frames[L].node = t /\ frames[L].step = s
      /\ c \in 1 .. K(t) /\ s = KidAt(t, c) /\ K(t) \in Nat
  BY <1>2, <1>3, <1>4, <1>5, <1>6, KidsAre DEF TopIs, Pushed
<1>8. /\ Len(frames') = L + 1
      /\ \A j \in 1 .. L - 1 : frames'[j] = frames[j]
      /\ frames'[L] = [node |-> t, step |-> s + 1]
      /\ frames'[L + 1] = [node |-> Kids[t][c], step |-> 1]
  BY <1>3, <1>4, <1>5, <1>6 DEF Pushed
<1>9. \A j \in 1 .. L : frames'[j].node = frames[j].node
  <2> SUFFICES ASSUME NEW j \in 1 .. L
               PROVE  frames'[j].node = frames[j].node
    OBVIOUS
  <2>1. j \in 1 .. L - 1 \/ j = L
    BY <1>7
  <2> QED
    BY <2>1, <1>7, <1>8
<1>10. ~Gone(Kids[t][c])
  BY <1>1, <1>3, <1>4, KidIsNotGone DEF Pushed, OutputInv
<1>11. (\A n : Gone(n)' <=> Gone(n)) /\ Running' /\ \A n : \A i : KidAt(n, i)' = KidAt(n, i)
  BY <1>1, SamePlan DEF Gone, Running
<1>12. StackInv'
  <2> SUFFICES ASSUME NEW j \in 1 .. L + 1
               PROVE  ~Gone(frames'[j].node)
    BY <1>8, <1>11, Zenon DEF StackInv
  <2>1. CASE j = L + 1
    BY <1>8, <1>10, <2>1
  <2>2. CASE j # L + 1
    <3>1. j \in 1 .. L
      BY <1>7, <2>2
    <3> QED
      BY <1>6, <1>9, <3>1 DEF OutputInv, ReleaseInv, StackInv
  <2> QED
    BY <2>1, <2>2
<1>13. KidsGoneInv'
  <2> SUFFICES ASSUME NEW j \in 1 .. L + 1, NEW n, n = frames'[j].node, NEW i \in 1 .. K(n),
                      KidAt(n, i) < frames'[j].step
               PROVE  \/ Gone(Kids[n][i])
                      \/ j < L + 1 /\ frames'[j + 1].node = Kids[n][i]
    <3>1. \A j \in 1 .. Len(frames') : \A i \in 1 .. K(frames'[j].node) :
            KidAt(frames'[j].node, i) < frames'[j].step =>
              \/ Gone(Kids[frames'[j].node][i])
              \/ j < Len(frames') /\ frames'[j + 1].node = Kids[frames'[j].node][i]
      BY <1>8
    <3> QED
      BY <1>11, <3>1, Zenon DEF KidsGoneInv
  <2>1. CASE j = L + 1
    <3>1. n = Kids[t][c] /\ frames'[j].step = 1 /\ n \in Nodes
      BY <1>7, <1>8, <2>1, KidsAre
    <3>2. KidAt(n, i) \in Nat /\ KidAt(n, i) = Before(n) + i /\ Before(n) \in Nat
      BY <3>1, PositionsAre
    <3>3. i >= 1 /\ i \in Nat
      BY <3>1, KidsAre
    <3> QED
      BY <3>1, <3>2, <3>3
  <2>2. CASE j = L
    <3>1. n = t /\ frames'[j].step = s + 1
      BY <1>8, <2>2
    <3>2. CASE i = c
      BY <1>7, <1>8, <2>2, <3>1, <3>2
    <3>3. CASE i # c
      <4>1. KidAt(t, i) < s
        BY <1>7, <3>1, <3>3, PositionsAre
      <4>2. Gone(Kids[t][i])
        BY <1>1, <1>6, <1>7, <2>2, <3>1, <4>1 DEF OutputInv, ReleaseInv, KidsGoneInv
      <4> QED
        BY <3>1, <4>2
    <3> QED
      BY <3>2, <3>3
  <2>3. CASE j # L + 1 /\ j # L
    <3>1. j \in 1 .. L - 1 /\ j + 1 \in 1 .. L /\ j \in 1 .. L
      BY <1>7, <2>3
    <3>2. frames'[j] = frames[j] /\ frames'[j + 1].node = frames[j + 1].node
      BY <1>8, <1>9, <3>1
    <3>3. Gone(Kids[n][i]) \/ frames[j + 1].node = Kids[n][i]
      BY <1>1, <1>6, <3>1, <3>2 DEF OutputInv, ReleaseInv, KidsGoneInv
    <3> QED
      BY <1>7, <3>1, <3>2, <3>3
  <2> QED
    BY <2>1, <2>2, <2>3
<1>14. OrderInv'
  <2> SUFFICES ASSUME NEW n \in Nodes, NEW i \in 1 .. K(n), Gone(Kids[n][i]), ~Gone(n)
               PROVE  \E j \in 1 .. L + 1 : frames'[j].node = n /\ frames'[j].step > KidAt(n, i)
    BY <1>8, <1>11, Zenon DEF OrderInv
  <2>1. PICK j \in 1 .. L : frames[j].node = n /\ frames[j].step > KidAt(n, i)
    BY <1>1, <1>6 DEF OutputInv, ReleaseInv, OrderInv
  <2>2. j \in 1 .. L + 1 /\ frames'[j].node = n
    BY <1>7, <1>9, <2>1
  <2>3. CASE j = L
    <3>1. KidAt(n, i) \in Nat
      BY PositionsAre
    <3>2. frames'[j].step > KidAt(n, i)
      BY <1>7, <1>8, <2>1, <2>3, <3>1
    <3> QED
      BY <2>2, <3>2
  <2>4. CASE j # L
    <3>1. j \in 1 .. L - 1
      BY <1>7, <2>4
    <3> QED
      BY <1>8, <2>1, <2>2, <3>1
  <2> QED
    BY <2>3, <2>4
<1>15. TogetherInv' /\ CompleteInv' /\ WholeInv' /\ TakenInv' /\ EmptyInv'
  <2>1. TogetherInv'
    BY <1>1, <1>11 DEF OutputInv, ReleaseInv, TogetherInv
  <2>2. CompleteInv' /\ WholeInv'
    BY <1>1 DEF OutputInv, ReleaseInv, CompleteInv, WholeInv, Whole, Complete, Running
  <2>3. TakenInv' /\ EmptyInv'
    BY <1>1 DEF OutputInv, TakenInv, EmptyInv
  <2> QED
    BY <2>1, <2>2, <2>3
<1>16. HeldInv'
  <2>1. Held(array, "array", moved, frames) /\ Held(schema, "schema", moved, frames)
    BY <1>1 DEF OutputInv, HeldInv, Running
  <2>2. ASSUME NEW k, \E j \in 1 .. Len(frames) : frames[j].node = k
        PROVE  \E j \in 1 .. Len(frames') : frames'[j].node = k
    <3>1. PICK j \in 1 .. L : frames[j].node = k
      BY <1>6, <2>2
    <3>2. j \in 1 .. L + 1 /\ frames'[j].node = k
      BY <1>7, <1>9, <3>1
    <3> QED
      BY <1>8, <3>2
  <2>3. Held(array, "array", moved, frames') /\ Held(schema, "schema", moved, frames')
    BY <2>1, <2>2, Zenon DEF Held
  <2> QED
    BY <1>1, <2>3 DEF HeldInv, Held
<1> QED
  BY <1>12, <1>13, <1>14, <1>15, <1>16 DEF OutputInv, ReleaseInv
(* A frame that has allocated owns the places of its children.             *)
LEMMA KidIsOwned ==
  ASSUME OwnershipInv, Running, NEW j \in 1 .. Len(frames), NEW n, n = frames[j].node,
         frames[j].step > Strings(n)
  PROVE  \A i \in 1 .. K(n) :
           /\ Block(Kids[n][i], "schema") \in schema[n].own
           /\ phase = "building" => Block(Kids[n][i], "array") \in array[n].own
<1>1. TopIs
  BY RunningIs
<1>2. n \in Nodes /\ frames[j].step \in Nat
  BY <1>1 DEF TopIs
<1>3. Done(n, frames[j].step)
  BY DEF OwnershipInv, DoneInv
<1>4. Strings(n) \in Nat
  BY <1>2, PositionsAre
<1>5. \A p \in 1 .. Strings(n) : p \in 1 .. frames[j].step - 1
  BY <1>2, <1>4
<1> TAKE i \in 1 .. K(n)
<1>6. Block(Kids[n][i], "schema") \in schema[n].own
  <2>1. PICK p \in 1 .. Strings(n) : Plan(n)[p] = Step("schema", Block(Kids[n][i], "schema"))
    BY <1>2, PlanAt DEF PlanShape
  <2>2. Plan(n)[p].do = "schema" /\ Plan(n)[p].block = Block(Kids[n][i], "schema")
    BY <2>1 DEF Step
  <2>3. p \in 1 .. frames[j].step - 1
    BY <1>5
  <2> QED
    BY <1>3, <2>2, <2>3, Zenon DEF Done
<1>7. ASSUME phase = "building"
      PROVE  Block(Kids[n][i], "array") \in array[n].own
  <2>1. PICK p \in 1 .. Strings(n) : Plan(n)[p] = Step("array", Block(Kids[n][i], "array"))
    BY <1>2, <1>7, PlanAt DEF PlanShape
  <2>2. Plan(n)[p].do = "array" /\ Plan(n)[p].block = Block(Kids[n][i], "array")
    BY <2>1 DEF Step
  <2>3. p \in 1 .. frames[j].step - 1
    BY <1>5
  <2> QED
    BY <1>3, <2>2, <2>3, Zenon DEF Done
<1> QED
  BY <1>6, <1>7

(* What the innermost frame returns is complete.                           *)
LEMMA NodeIsComplete ==
  ASSUME OwnershipInv, ReleaseInv, Running, Do = "return"
  PROVE  /\ Complete(schema, "schema", moved, Node)
         /\ phase = "building" => Complete(array, "array", moved, Node)
         /\ phase = "building" /\ Node \notin Structs => builder[Node] = {}
<1>1. TopIs /\ DoIs /\ Done(Node, Top.step)
  BY RunningIs
<1>2. Node \in Nodes /\ Top.step = Last(Node)
  BY <1>1 DEF TopIs, DoIs
<1>3. PICK n : n = Node
  OBVIOUS
<1>4. /\ n \in Nodes /\ Len(frames) \in 1 .. Len(frames) /\ n = frames[Len(frames)].node
      /\ frames[Len(frames)].step = Last(n) /\ Done(n, Last(n))
  BY <1>1, <1>2, <1>3 DEF TopIs
<1>5. /\ Strings(n) \in Nat /\ Before(n) \in Nat /\ K(n) \in Nat /\ Last(n) \in Nat
      /\ Before(n) >= Strings(n) + 5 /\ Last(n) = Before(n) + K(n) + 1
      /\ \A i \in 1 .. K(n) : KidAt(n, i) = Before(n) + i
  BY <1>4, PositionsAre, KidsAre
<1>6. \A i \in 1 .. K(n) : Gone(Kids[n][i])
  <2> TAKE i \in 1 .. K(n)
  <2>1. KidAt(n, i) < Last(n)
    BY <1>5
  <2>2. ~(Len(frames) < Len(frames))
    BY <1>1 DEF TopIs
  <2> QED
    BY <1>4, <2>1, <2>2 DEF ReleaseInv, KidsGoneInv
<1>7. \A i \in 1 .. K(n) :
        /\ Block(Kids[n][i], "schema") \in schema[n].own
        /\ phase = "building" => Block(Kids[n][i], "array") \in array[n].own
  <2>1. frames[Len(frames)].step > Strings(n)
    BY <1>4, <1>5
  <2> QED
    BY <1>4, <2>1, KidIsOwned
<1>8. schema[n].live
  <2>1. Last(n) > Strings(n) + 1
    BY <1>5
  <2> QED
    BY <1>4, <2>1 DEF Done
<1>9. Complete(schema, "schema", moved, n)
  BY <1>6, <1>7, <1>8 DEF Complete, Gone
<1>10. ASSUME phase = "building"
       PROVE  Complete(array, "array", moved, n)
  <2>1. Block(n, "buffers") \in array[n].own
    <3>1. 2 \in 1 .. Last(n) - 1
      BY <1>5
    <3>2. Plan(n)[2] = Step("array", Block(n, "buffers"))
      BY <1>4, <1>10, PlanAt DEF PlanShape
    <3>3. Plan(n)[2].do = "array" /\ Plan(n)[2].block = Block(n, "buffers")
      BY <3>2 DEF Step
    <3> QED
      BY <1>4, <3>1, <3>3, Zenon DEF Done
  <2>2. array[n].live
    BY <1>4, <2>1 DEF OwnershipInv, OwnInv
  <2>3. \A k \in Nodes : Gone(k) => Block(k, "array") \in moved
    BY <1>10 DEF ReleaseInv, TogetherInv
  <2>4. \A i \in 1 .. K(n) : Kids[n][i] \in Nodes
    BY <1>4, KidsAre
  <2> QED
    BY <1>6, <1>7, <1>10, <2>2, <2>3, <2>4 DEF Complete
<1>11. ASSUME phase = "building", n \notin Structs
       PROVE  builder[n] = {}
  <2>1. Last(n) > Before(n)
    BY <1>5
  <2> QED
    BY <1>4, <1>11, <2>1 DEF Done
<1> QED
  BY <1>3, <1>9, <1>10, <1>11

(* When all that has moved is complete, and the outermost one has moved,   *)
(* everything has.                                                         *)
LEMMA WholeFrom ==
  ASSUME NEW s, NEW what, NEW out, Block(Root, what) \in out,
         \A n \in Nodes : Block(n, what) \in out => Complete(s, what, out, n)
  PROVE  Whole(s, what, out)
<1> DEFINE S == {n \in Nodes : Block(n, what) \in out}
<1>1. Root \in S
  BY TreeAssumption
<1>2. \A n \in Nodes : n \in S => KidsOf(n) \subseteq S
  BY KidsAre DEF Complete, KidsOf, K
<1> HIDE DEF S
<1>3. Nodes \subseteq S
  BY <1>1, <1>2, DownTheTree
<1> QED
  BY <1>3 DEF S, Whole

(* What a return changes.                                                  *)
Returned(t, L) ==
  /\ UNCHANGED <<heap, builder, array, schema>>
  /\ t \in Nodes /\ L \in Nat /\ L >= 1 /\ frames[L].node = t /\ Len(frames) = L
  /\ frames' = Callers /\ Len(frames') = L - 1
  /\ \A j \in 1 .. L - 1 : frames'[j] = frames[j]
  /\ \A j \in 1 .. L - 1 : frames[j].node # t
  /\ \A n \in Nodes :
       /\ Block(n, "schema") \in moved' <=> Block(n, "schema") \in moved \/ n = t
       /\ Block(n, "array") \in moved' <=>
            Block(n, "array") \in moved \/ (phase = "building" /\ n = t)
  /\ moved \subseteq moved'
  /\ \/ L > 1 /\ t # Root /\ phase' = phase
     \/ L = 1 /\ t = Root /\ phase' = IF phase = "building" THEN "finishing" ELSE "returned"

(* That is what Return does.                                               *)
LEMMA ReturnIs ==
  ASSUME OwnershipInv, Return
  PROVE  Running /\ Do = "return" /\ Returned(Node, Len(frames))
<1>1. /\ Running /\ Do = "return" /\ UNCHANGED <<heap, builder, array, schema>>
      /\ moved' = moved \cup {Target, Block(Node, "schema")} /\ frames' = Callers
      /\ phase' = IF Callers # << >> THEN phase
                  ELSE IF phase = "building" THEN "finishing" ELSE "returned"
  BY DEF Return
<1>2. TopIs /\ DoIs
  BY <1>1, RunningIs
<1>3. PICK t : t = Node
  OBVIOUS
<1>4. PICK L : L = Len(frames)
  OBVIOUS
<1>5. /\ t \in Nodes /\ L \in Nat /\ L >= 1 /\ frames[L].node = t
      /\ Len(Callers) = L - 1 /\ (\A j \in 1 .. L - 1 : Callers[j] = frames[j])
      /\ Callers \in Seq(Frames)
  BY <1>2, <1>3, <1>4 DEF TopIs
<1>6. Target = Block(t, IF phase = "building" THEN "array" ELSE "schema")
  BY <1>1, <1>2, <1>3 DEF DoIs
<1>7. \A n \in Nodes :
        /\ Block(n, "schema") \in moved' <=> Block(n, "schema") \in moved \/ n = t
        /\ Block(n, "array") \in moved' <=>
             Block(n, "array") \in moved \/ (phase = "building" /\ n = t)
  BY <1>1, <1>3, <1>6 DEF Block
<1>8. /\ \A i, j \in 1 .. L : frames[i].node = frames[j].node => i = j
      /\ frames[1].node = Root
  BY <1>1, <1>2, <1>4, <1>5 DEF OwnershipInv, FramesInv, TopIs
<1>9. \A j \in 1 .. L - 1 : frames[j].node # t
  <2> SUFFICES ASSUME NEW j \in 1 .. L - 1, frames[j].node = t
               PROVE  FALSE
    OBVIOUS
  <2>1. j \in 1 .. L /\ L \in 1 .. L /\ j # L
    BY <1>5
  <2> QED
    BY <1>5, <1>8, <2>1
<1>10. CASE L = 1
  <2>1. Callers = << >>
    BY <1>5, <1>10
  <2>2. t = Root
    BY <1>5, <1>8, <1>10
  <2> QED
    BY <1>1, <1>3, <1>4, <1>5, <1>7, <1>9, <1>10, <2>1, <2>2 DEF Returned
<1>11. CASE L # 1
  <2>1. L > 1 /\ 1 \in 1 .. L - 1
    BY <1>5, <1>11
  <2>2. Callers # << >> /\ t # Root
    BY <1>5, <1>8, <1>9, <2>1
  <2> QED
    BY <1>1, <1>3, <1>4, <1>5, <1>7, <1>9, <2>1, <2>2 DEF Returned
<1> QED
  BY <1>10, <1>11
(* The stack when the innermost frame returns.                             *)
LEMMA ReturnStack ==
  ASSUME OwnershipInv, ReleaseInv, Running, NEW t, NEW L, Returned(t, L)
  PROVE  StackInv' /\ KidsGoneInv' /\ OrderInv'
<1>1. \A n \in Nodes : Gone(n)' <=> Gone(n) \/ n = t
  BY DEF Gone, Returned
<1>2. /\ Len(frames') = L - 1 /\ Len(frames) = L /\ L \in Nat /\ L >= 1 /\ t \in Nodes
      /\ frames[L].node = t
      /\ \A j \in 1 .. L - 1 : frames'[j] = frames[j] /\ frames[j].node # t /\ j \in 1 .. L
  BY DEF Returned
<1>3. TopIs
  BY RunningIs
<1>4. \A j \in 1 .. L : frames[j].node \in Nodes /\ frames[j].step \in Nat
  BY <1>2, <1>3 DEF TopIs
<1>5. StackInv'
  <2> SUFFICES ASSUME NEW j \in 1 .. L - 1
               PROVE  frames'[j].node \in Nodes /\ ~Gone(frames'[j].node) /\ frames'[j].node # t
    BY <1>1, <1>2, Zenon DEF StackInv
  <2>1. j \in 1 .. L /\ frames'[j] = frames[j] /\ frames[j].node # t
    BY <1>2
  <2> QED
    BY <1>2, <1>4, <2>1 DEF ReleaseInv, StackInv
<1>6. CASE ~Running'
  BY <1>5, <1>6 DEF KidsGoneInv, OrderInv
<1>7. CASE Running'
  <2>1. phase' = phase /\ L > 1
    BY <1>7 DEF Running, Returned
  <2>2. \A n : \A i : KidAt(n, i)' = KidAt(n, i)
    BY <2>1, SamePlan
  <2>3. KidsGoneInv'
    <3> SUFFICES ASSUME NEW j \in 1 .. L - 1, NEW i \in 1 .. K(frames'[j].node),
                        KidAt(frames'[j].node, i) < frames'[j].step
                 PROVE  \/ /\ Kids[frames'[j].node][i] \in Nodes
                           /\ Gone(Kids[frames'[j].node][i]) \/ Kids[frames'[j].node][i] = t
                        \/ j < L - 1 /\ frames'[j + 1].node = Kids[frames'[j].node][i]
      <4>1. \A j \in 1 .. Len(frames') : \A i \in 1 .. K(frames'[j].node) :
              KidAt(frames'[j].node, i) < frames'[j].step =>
                \/ /\ Kids[frames'[j].node][i] \in Nodes
                   /\ Gone(Kids[frames'[j].node][i]) \/ Kids[frames'[j].node][i] = t
                \/ j < Len(frames') /\ frames'[j + 1].node = Kids[frames'[j].node][i]
        BY <1>2, Zenon
      <4> QED
        BY <1>1, <2>2, <4>1, Zenon DEF KidsGoneInv
    <3>1. PICK n : n = frames[j].node
      OBVIOUS
    <3>2. frames'[j] = frames[j] /\ j \in 1 .. L /\ n \in Nodes
      BY <1>2, <1>4, <3>1
    <3>3. i \in 1 .. K(n) /\ KidAt(n, i) < frames[j].step
      BY <3>1, <3>2, Zenon
    <3>4. Kids[n][i] \in Nodes
      BY <3>2, <3>3, KidsAre
    <3>5. Gone(Kids[n][i]) \/ (j < L /\ frames[j + 1].node = Kids[n][i])
      BY <1>2, <3>1, <3>2, <3>3, Zenon DEF ReleaseInv, KidsGoneInv
    <3>6. \/ Gone(Kids[n][i]) \/ Kids[n][i] = t
          \/ j < L - 1 /\ frames'[j + 1].node = Kids[n][i]
      <4>1. CASE j + 1 = L
        BY <1>2, <3>5, <4>1
      <4>2. CASE j + 1 # L
        <5>1. j + 1 \in 1 .. L - 1 /\ j < L - 1
          BY <1>2, <4>2
        <5> QED
          BY <1>2, <3>5, <5>1, Zenon
      <4> QED
        BY <4>1, <4>2
    <3> QED
      BY <3>1, <3>2, <3>4, <3>6, Zenon
  <2>4. OrderInv'
    <3> SUFFICES ASSUME NEW n \in Nodes, NEW i \in 1 .. K(n),
                        Gone(Kids[n][i]) \/ Kids[n][i] = t, ~Gone(n), n # t
                 PROVE  \E j \in 1 .. L - 1 : frames[j].node = n /\ frames[j].step > KidAt(n, i)
      <4>1. \A n \in Nodes : \A i \in 1 .. K(n) : Kids[n][i] \in Nodes
        BY KidsAre
      <4>2. \A n \in Nodes : \A i \in 1 .. K(n) :
              Gone(Kids[n][i]) \/ Kids[n][i] = t =>
                \/ Gone(n) \/ n = t
                \/ \E j \in 1 .. Len(frames') :
                     frames'[j].node = n /\ frames'[j].step > KidAt(n, i)
        BY <1>2
      <4> QED
        BY <1>1, <2>2, <4>1, <4>2, Zenon DEF OrderInv
    <3>1. CASE Gone(Kids[n][i])
      <4>1. PICK j \in 1 .. L : frames[j].node = n /\ frames[j].step > KidAt(n, i)
        BY <1>2, <3>1 DEF ReleaseInv, OrderInv
      <4>2. j # L
        BY <1>2, <4>1
      <4> QED
        BY <1>2, <4>1, <4>2
    <3>2. CASE Kids[n][i] = t
      <4>1. PICK p : p = frames[L - 1].node
        OBVIOUS
      <4>2. L - 1 \in 1 .. L /\ L - 1 \in 1 .. Len(frames) - 1 /\ (L - 1) + 1 = L
        BY <1>2, <2>1
      <4>3. p \in Nodes /\ frames[L - 1].step \in Nat
        BY <1>4, <4>1, <4>2
      <4>4. PICK c \in 1 .. K(p) : t = Kids[p][c] /\ frames[L - 1].step = KidAt(p, c) + 1
        <5>1. \A j \in 1 .. Len(frames) - 1 : \E k \in 1 .. K(frames[j].node) :
                /\ frames[j + 1].node = Kids[frames[j].node][k]
                /\ frames[j].step = KidAt(frames[j].node, k) + 1
          BY DEF OwnershipInv, FramesInv
        <5>2. PICK k \in 1 .. K(frames[L - 1].node) :
                /\ frames[(L - 1) + 1].node = Kids[frames[L - 1].node][k]
                /\ frames[L - 1].step = KidAt(frames[L - 1].node, k) + 1
          BY <4>2, <5>1
        <5> QED
          BY <1>2, <4>1, <4>2, <5>2
      <4>5. n = p /\ i = c
        BY <3>2, <4>3, <4>4, OneParent
      <4>6. KidAt(n, i) \in Nat
        BY PositionsAre
      <4>7. frames[L - 1].node = n /\ frames[L - 1].step > KidAt(n, i)
        BY <4>1, <4>4, <4>5, <4>6
      <4> QED
        BY <1>2, <2>1, <4>7
    <3> QED
      BY <3>1, <3>2
  <2> QED
    BY <1>5, <2>3, <2>4
<1> QED
  BY <1>6, <1>7

(* What has moved when the innermost frame returns.                        *)
LEMMA ReturnMoved ==
  ASSUME OwnershipInv, OutputInv, Running, Do = "return", NEW t, t = Node, NEW L, Returned(t, L)
  PROVE  TogetherInv' /\ CompleteInv' /\ WholeInv' /\ TakenInv'
<1>1. /\ UNCHANGED <<heap, builder, array, schema>> /\ t \in Nodes /\ moved \subseteq moved'
      /\ \A n \in Nodes :
           /\ Block(n, "schema") \in moved' <=> Block(n, "schema") \in moved \/ n = t
           /\ Block(n, "array") \in moved' <=>
                Block(n, "array") \in moved \/ (phase = "building" /\ n = t)
      /\ \/ t # Root /\ phase' = phase
         \/ t = Root /\ phase' = IF phase = "building" THEN "finishing" ELSE "returned"
  BY DEF Returned
<1>2. phase \in {"building", "copying"} /\ Root \in Nodes
  BY TreeAssumption DEF Running
<1>3. /\ Complete(schema, "schema", moved, t)
      /\ phase = "building" => Complete(array, "array", moved, t)
      /\ phase = "building" /\ t \notin Structs => builder[t] = {}
  BY NodeIsComplete DEF OutputInv
<1>4. \A n \in Nodes :
        /\ Block(n, "array") \in moved => Complete(array, "array", moved, n)
        /\ Block(n, "schema") \in moved => Complete(schema, "schema", moved, n)
  BY DEF OutputInv, ReleaseInv, CompleteInv
<1>5. \A n \in Nodes :
        /\ Block(n, "array") \in moved' => Complete(array, "array", moved', n)
        /\ Block(n, "schema") \in moved' => Complete(schema, "schema", moved', n)
  <2> TAKE n \in Nodes
  <2>1. ASSUME Block(n, "array") \in moved'
        PROVE  Complete(array, "array", moved', n)
    <3>1. Complete(array, "array", moved, n)
      BY <1>1, <1>3, <1>4, <2>1
    <3> QED
      BY <1>1, <3>1, StillComplete
  <2>2. ASSUME Block(n, "schema") \in moved'
        PROVE  Complete(schema, "schema", moved', n)
    <3>1. Complete(schema, "schema", moved, n)
      BY <1>1, <1>3, <1>4, <2>2
    <3> QED
      BY <1>1, <3>1, StillComplete
  <2> QED
    BY <2>1, <2>2
<1>6. CompleteInv'
  BY <1>1, <1>5 DEF CompleteInv, Complete
<1>7. WholeInv'
  <2>1. Block(Root, "array") \in moved' => Whole(array, "array", moved')
    BY <1>5, WholeFrom
  <2>2. Block(Root, "schema") \in moved' => Whole(schema, "schema", moved')
    BY <1>5, WholeFrom
  <2> QED
    BY <1>1, <2>1, <2>2 DEF WholeInv, Whole, Complete
<1>8. TakenInv'
  BY <1>1, <1>3 DEF OutputInv, TakenInv
<1>9. TogetherInv'
  <2>1. /\ Block(Root, "array") \notin moved =>
             \A n \in Nodes : Block(n, "array") \in moved <=> Block(n, "schema") \in moved
        /\ phase = "building" => Block(Root, "array") \notin moved
        /\ phase = "copying" => Block(Root, "array") \in moved
    BY DEF OutputInv, ReleaseInv, TogetherInv, Gone
  <2>2. CASE phase = "building"
    <3>1. \A n \in Nodes : Block(n, "array") \in moved' <=> Block(n, "schema") \in moved'
      BY <1>1, <2>1, <2>2
    <3>2. CASE t # Root
      <4>1. phase' = "building" /\ Block(Root, "array") \notin moved'
        BY <1>1, <1>2, <2>1, <2>2, <3>2
      <4> QED
        BY <3>1, <4>1 DEF TogetherInv, Gone
    <3>3. CASE t = Root
      <4>1. phase' = "finishing" /\ Block(Root, "array") \in moved' /\ Block(Root, "schema") \in moved'
        BY <1>1, <1>2, <2>2, <3>3
      <4> QED
        BY <3>1, <4>1 DEF TogetherInv, Gone
    <3> QED
      BY <3>2, <3>3
  <2>3. CASE phase = "copying"
    <3>1. Block(Root, "array") \in moved'
      BY <1>1, <2>1, <2>3
    <3>2. phase' \in {"copying", "returned"} /\ (phase' = "returned" => t = Root)
      BY <1>1, <2>3
    <3>3. phase' = "returned" => Block(Root, "schema") \in moved'
      BY <1>1, <1>2, <3>2
    <3> QED
      BY <3>1, <3>2, <3>3 DEF TogetherInv, Gone
  <2> QED
    BY <1>2, <2>2, <2>3
<1> QED
  BY <1>6, <1>7, <1>8, <1>9
(* The structures of a child are in those of the frame below it.           *)
LEMMA ParentHolds ==
  ASSUME OwnershipInv, Running, NEW t, NEW L, Returned(t, L), t # Root
  PROVE  \E p \in Nodes :
           /\ schema[p].live /\ Block(t, "schema") \in schema[p].own
           /\ phase = "building" => array[p].live /\ Block(t, "array") \in array[p].own
<1>1. TopIs
  BY RunningIs
<1>2. /\ L > 1 /\ L \in Nat /\ Len(frames) = L /\ t = frames[L].node
      /\ L - 1 \in 1 .. Len(frames) /\ L - 1 \in 1 .. Len(frames) - 1 /\ (L - 1) + 1 = L
  BY DEF Returned
<1>3. PICK p : p = frames[L - 1].node
  OBVIOUS
<1>4. p \in Nodes
  BY <1>1, <1>2, <1>3 DEF TopIs
<1>5. PICK c \in 1 .. K(p) : t = Kids[p][c] /\ frames[L - 1].step = KidAt(p, c) + 1
  <2>1. \A j \in 1 .. Len(frames) - 1 : \E k \in 1 .. K(frames[j].node) :
          /\ frames[j + 1].node = Kids[frames[j].node][k]
          /\ frames[j].step = KidAt(frames[j].node, k) + 1
    BY DEF OwnershipInv, FramesInv
  <2>2. PICK k \in 1 .. K(frames[L - 1].node) :
          /\ frames[(L - 1) + 1].node = Kids[frames[L - 1].node][k]
          /\ frames[L - 1].step = KidAt(frames[L - 1].node, k) + 1
    BY <1>2, <2>1
  <2> QED
    BY <1>2, <1>3, <2>2
<1>6. frames[L - 1].step > Strings(p)
  BY <1>4, <1>5, PositionsAre, KidsAre
<1>7. /\ Block(t, "schema") \in schema[p].own
      /\ phase = "building" => Block(t, "array") \in array[p].own
  BY <1>2, <1>3, <1>5, <1>6, KidIsOwned
<1>8. (schema[p].own # {} => schema[p].live) /\ (array[p].own # {} => array[p].live)
  BY <1>4 DEF OwnershipInv, OwnInv
<1> QED
  BY <1>4, <1>7, <1>8

(* Whatever is live stays held when the innermost frame returns.           *)
LEMMA ReturnHolds ==
  ASSUME NEW s, NEW what, NEW t, NEW L, Returned(t, L), Held(s, what, moved, frames),
         \A n \in Nodes : Block(n, what) \in moved' <=> Block(n, what) \in moved \/ n = t,
         t = Root \/ \E p \in Nodes : s[p].live /\ Block(t, what) \in s[p].own
  PROVE  Held(s, what, moved', frames')
<1> SUFFICES ASSUME NEW k \in Nodes, s[k].live
             PROVE  \/ Block(k, what) \notin moved' /\ \E j \in 1 .. Len(frames') : frames'[j].node = k
                    \/ /\ Block(k, what) \in moved'
                       /\ k = Root \/ \E p \in Nodes : s[p].live /\ Block(k, what) \in s[p].own
  BY DEF Held
<1>1. CASE k = t
  BY <1>1
<1>2. CASE k # t /\ Block(k, what) \in moved
  BY <1>2 DEF Held
<1>3. CASE k # t /\ Block(k, what) \notin moved
  <2>1. PICK j \in 1 .. Len(frames) : frames[j].node = k
    BY <1>3 DEF Held
  <2>2. j \in 1 .. L - 1
    <3>1. Len(frames) = L /\ L \in Nat /\ frames[L].node = t
      BY DEF Returned
    <3>2. j # L
      BY <1>3, <2>1, <3>1
    <3> QED
      BY <2>1, <3>1, <3>2
  <2>3. j \in 1 .. Len(frames') /\ frames'[j].node = k
    BY <2>1, <2>2 DEF Returned
  <2> QED
    BY <1>3, <2>3
<1> QED
  BY <1>1, <1>2, <1>3

(* The innermost frame returns.                                            *)
LEMMA ReturnOut ==
  ASSUME OwnershipInv, OutputInv, Return
  PROVE  OutputInv'
<1>1. PICK t : t = Node
  OBVIOUS
<1>2. PICK L : L = Len(frames)
  OBVIOUS
<1>3. Running /\ Do = "return" /\ Returned(t, L)
  BY <1>1, <1>2, ReturnIs
<1>4. StackInv' /\ KidsGoneInv' /\ OrderInv'
  BY <1>3, ReturnStack DEF OutputInv
<1>5. TogetherInv' /\ CompleteInv' /\ WholeInv' /\ TakenInv'
  BY <1>1, <1>3, ReturnMoved
<1>6. /\ Held(array, "array", moved, frames) /\ Held(schema, "schema", moved, frames)
      /\ phase # "done"
  BY <1>3 DEF OutputInv, HeldInv, Running
<1>7. /\ UNCHANGED <<heap, builder, array, schema>>
      /\ \A n \in Nodes :
           /\ Block(n, "schema") \in moved' <=> Block(n, "schema") \in moved \/ n = t
           /\ Block(n, "array") \in moved' <=>
                Block(n, "array") \in moved \/ (phase = "building" /\ n = t)
      /\ phase' \in {"building", "copying", "finishing", "returned"}
  BY <1>3 DEF Returned, Running
<1>8. Held(schema, "schema", moved', frames')
  <2>1. t = Root \/ \E p \in Nodes : schema[p].live /\ Block(t, "schema") \in schema[p].own
    BY <1>3, ParentHolds
  <2> QED
    BY <1>3, <1>6, <1>7, <2>1, ReturnHolds
<1>9. Held(array, "array", moved', frames')
  <2>1. CASE phase = "building"
    <3>1. t = Root \/ \E p \in Nodes : array[p].live /\ Block(t, "array") \in array[p].own
      BY <1>3, <2>1, ParentHolds
    <3>2. \A n \in Nodes : Block(n, "array") \in moved' <=> Block(n, "array") \in moved \/ n = t
      BY <1>7, <2>1
    <3> QED
      BY <1>3, <1>6, <3>1, <3>2, ReturnHolds
  <2>2. CASE phase # "building"
    <3>1. phase = "copying"
      BY <1>3, <2>2 DEF Running
    <3>2. Whole(array, "array", moved)
      BY <3>1 DEF OutputInv, ReleaseInv, TogetherInv, WholeInv
    <3>3. \A n \in Nodes : Block(n, "array") \in moved /\ Block(n, "array") \in moved'
      BY <1>7, <3>2 DEF Whole
    <3> QED
      BY <1>6, <3>3, Zenon DEF Held
  <2> QED
    BY <2>1, <2>2
<1>10. HeldInv' /\ EmptyInv'
  BY <1>7, <1>8, <1>9 DEF HeldInv, Held, EmptyInv
<1> QED
  BY <1>4, <1>5, <1>10 DEF OutputInv, ReleaseInv

(* No child is released in the first step.                                 *)
LEMMA RootKids == \A i \in 1 .. K(Root) : ~(KidAt(Root, i) < 1)
<1>1. Root \in Nodes
  BY TreeAssumption
<1> QED
  BY <1>1, PositionsAre, KidsAre

(* finish_schema() starts to copy: the whole schema is released.           *)
LEMMA CopyOut ==
  ASSUME OwnershipInv, OutputInv, phase = "finishing", phase' = "copying",
         schema' = WithoutTree(schema, "schema", Root),
         moved' = moved \ {Block(n, "schema") : n \in Nodes},
         frames' = <<[node |-> Root, step |-> 1]>>, UNCHANGED <<builder, array>>
  PROVE  OutputInv'
<1>1. /\ Held(array, "array", moved, << >>) /\ Held(schema, "schema", moved, << >>)
      /\ OwnsKids(schema, "schema") /\ Root \in Nodes
  BY NoFrames, TreeAssumption DEF OutputInv
<1>2. Block(Root, "array") \in moved /\ Block(Root, "schema") \in moved
  BY DEF OutputInv, ReleaseInv, TogetherInv, Gone
<1>3. Whole(array, "array", moved) /\ Whole(schema, "schema", moved)
  BY <1>2 DEF OutputInv, WholeInv
<1>4. Beneath(schema, "schema", Root) = Nodes
  BY <1>1, <1>3, WholeBeneath
<1>5. \A n \in Nodes : ~schema'[n].live
  BY <1>4 DEF WithoutTree, Released
<1>6. \A n \in Nodes : /\ Block(n, "schema") \notin moved'
                       /\ Block(n, "array") \in moved' <=> Block(n, "array") \in moved
  BY DEF Block
<1>7. /\ frames' \in Seq(Frames) /\ Len(frames') = 1 /\ frames'[1] = [node |-> Root, step |-> 1]
      /\ frames' # << >>
  BY <1>1 DEF Frames
<1>8. StackInv'
  BY <1>1, <1>6, <1>7 DEF StackInv, Gone
<1>9. OrderInv' /\ CompleteInv'
  <2>1. \A n \in Nodes : \A i \in 1 .. K(n) : Kids[n][i] \in Nodes
    BY KidsAre
  <2>2. OrderInv'
    BY <1>6, <2>1 DEF OrderInv, Gone
  <2>3. \A n \in Nodes : Complete(array, "array", moved', n)
    <3>1. \A n \in Nodes : Block(n, "array") \in moved /\ Complete(array, "array", moved, n)
      BY <1>3 DEF Whole
    <3> QED
      BY <1>6, <2>1, <3>1 DEF Complete
  <2>4. CompleteInv'
    BY <1>6, <2>3 DEF CompleteInv, Complete
  <2> QED
    BY <2>2, <2>4
<1>10. KidsGoneInv'
  <2>1. \A i \in 1 .. K(Root) : ~(KidAt(Root, i)' < 1)
    <3>1. (\A i \in 1 .. K(Root) : ~(KidAt(Root, i) < 1))'
      BY RootKids, PTL
    <3> QED
      BY <3>1
  <2> QED
    BY <1>7, <2>1 DEF KidsGoneInv
<1>11. TogetherInv' /\ TakenInv' /\ EmptyInv'
  BY <1>1, <1>2, <1>6 DEF OutputInv, TogetherInv, TakenInv, EmptyInv
<1>12. WholeInv'
  BY <1>1, <1>3, <1>6, <1>9, KidsAre DEF WholeInv, Whole, Complete
<1>13. HeldInv'
  <2>1. Held(array, "array", moved', frames')
    <3>1. \A n \in Nodes : Block(n, "array") \in moved /\ Block(n, "array") \in moved'
      BY <1>3, <1>6 DEF Whole
    <3> QED
      BY <1>1, <3>1, Zenon DEF Held
  <2>2. Held(schema', "schema", moved', frames')
    BY <1>5 DEF Held
  <2> QED
    BY <2>1, <2>2 DEF HeldInv, Held
<1> QED
  BY <1>8, <1>9, <1>10, <1>11, <1>12, <1>13 DEF OutputInv, ReleaseInv

(* finish_schema() keeps the schema, throws, or copies it.                 *)
LEMMA FinishSchemaOut ==
  ASSUME OwnershipInv, OutputInv, FinishSchema
  PROVE  OutputInv'
<1>1. CASE phase' \in {"returned", "throwing"} /\ UNCHANGED <<heap, schema, moved, frames, misfreed>>
  BY <1>1, ThrownOut DEF FinishSchema
<1>2. CASE ~(phase' \in {"returned", "throwing"} /\ UNCHANGED <<heap, schema, moved, frames, misfreed>>)
  BY <1>2, CopyOut DEF FinishSchema
<1> QED
  BY <1>1, <1>2

(* At the start nothing is live and nothing has moved.                     *)
LEMMA InitOut ==
  ASSUME Init
  PROVE  OutputInv
<1>1. /\ moved = {} /\ phase = "building" /\ frames = <<[node |-> Root, step |-> 1]>>
      /\ Root \in Nodes
      /\ \A n \in Nodes : ~array[n].live /\ ~schema[n].live
  BY TreeAssumption DEF Init, Released
<1>2. Len(frames) = 1 /\ frames[1].node = Root /\ frames[1].step = 1
  BY <1>1
<1>3. KidsGoneInv
  <2>1. \A i \in 1 .. K(Root) : ~(KidAt(Root, i) < 1)
    BY RootKids
  <2> QED
    BY <1>2, <2>1 DEF KidsGoneInv
<1>4. StackInv /\ OrderInv /\ TogetherInv /\ CompleteInv
  BY <1>1 DEF StackInv, OrderInv, TogetherInv, CompleteInv, Gone
<1>5. WholeInv /\ TakenInv /\ HeldInv /\ EmptyInv
  BY <1>1 DEF WholeInv, TakenInv, HeldInv, Held, EmptyInv
<1> QED
  BY <1>3, <1>4, <1>5 DEF OutputInv, ReleaseInv

(* Where nothing changes, neither does this.                               *)
LEMMA StutterOut ==
  ASSUME OutputInv, UNCHANGED vars
  PROVE  OutputInv'
<1>1. \A n : \A i : KidAt(n, i)' = KidAt(n, i)
  BY SamePlan DEF vars
<1>2. UNCHANGED <<heap, builder, array, schema, moved, frames, phase, misfreed, mislaid>>
  BY DEF vars
<1>3. ReleaseInv /\ WholeInv /\ TakenInv /\ HeldInv /\ EmptyInv
  BY DEF OutputInv
<1>4. StackInv'
  BY <1>1, <1>2, <1>3 DEF ReleaseInv, StackInv, Running, Gone
<1>5. KidsGoneInv'
  BY <1>1, <1>2, <1>3 DEF ReleaseInv, KidsGoneInv, Running, Gone
<1>6. OrderInv'
  BY <1>1, <1>2, <1>3 DEF ReleaseInv, OrderInv, Running, Gone
<1>7. TogetherInv'
  BY <1>2, <1>3 DEF ReleaseInv, TogetherInv, Running, Gone
<1>8. CompleteInv'
  BY <1>2, <1>3 DEF ReleaseInv, CompleteInv, Running, Complete
<1>9. WholeInv'
  BY <1>2, <1>3 DEF ReleaseInv, WholeInv, Whole, Complete
<1>10. TakenInv'
  BY <1>2, <1>3 DEF ReleaseInv, TakenInv
<1>11. HeldInv'
  BY <1>2, <1>3 DEF ReleaseInv, HeldInv, Held
<1>12. EmptyInv'
  BY <1>2, <1>3 DEF ReleaseInv, EmptyInv
<1>13. QED
  BY <1>4, <1>5, <1>6, <1>7, <1>8, <1>9, <1>10, <1>11, <1>12 DEF OutputInv, ReleaseInv

(***************************************************************************)
(* Whichever malloc() fails and whichever builder throws, what is live is  *)
(* held by the stack or by the structure above it, and what has left the   *)
(* outermost finalizer has left it as a whole.                             *)
(***************************************************************************)
THEOREM OutputInvariant == Spec => [](OwnershipInv /\ OutputInv)
<1>1. Init => OutputInv
  BY InitOut
<1>2. OwnershipInv /\ OutputInv /\ [Next]_vars => OutputInv'
  <2> SUFFICES ASSUME OwnershipInv, OutputInv, [Next]_vars
               PROVE  OutputInv'
    OBVIOUS
  <2>1. CASE Begin
    BY <2>1, BeginOut
  <2>2. CASE Allocate
    BY <2>2, AllocateOut
  <2>3. CASE AllocateArrayFails
    BY <2>3, AllocateArrayFailsOut
  <2>4. CASE AllocateSchemaFails
    BY <2>4, AllocateSchemaFailsOut
  <2>5. CASE AllocateStringFails
    BY <2>5, AllocateStringFailsOut
  <2>6. CASE Replace
    BY <2>6, ReplaceOut
  <2>7. CASE ReplaceFails
    BY <2>7, ReplaceFailsOut
  <2>8. CASE TakeBuffers
    BY <2>8, TakeBuffersOut
  <2>9. CASE ReleaseKid
    BY <2>9, ReleaseKidOut
  <2>10. CASE Return
    BY <2>10, ReturnOut
  <2>11. CASE FinishSchema
    BY <2>11, FinishSchemaOut
  <2>12. CASE Unwind
    BY <2>12, UnwindOut
  <2>13. CASE Caught
    BY <2>13, CaughtOut
  <2>14. CASE CleanUp
    BY <2>14, CleanUpOut
  <2>15. CASE UNCHANGED vars
    BY <2>15, StutterOut
  <2> QED
    BY <2>1, <2>2, <2>3, <2>4, <2>5, <2>6, <2>7, <2>8, <2>9, <2>10, <2>11, <2>12, <2>13, <2>14, <2>15
       DEF Next
<1>3. Spec => []OwnershipInv
  BY OwnershipInvariant
<1> QED
  BY <1>1, <1>2, <1>3, PTL DEF Spec

(***************************************************************************)
(* The caller gets the whole tree or nothing, of the array and of the      *)
(* schema alike, and both of them unless an exception was thrown; when the *)
(* output is released and the builder destroyed, nothing is left.          *)
(***************************************************************************)
THEOREM OutputIsWhole == Spec => []OutputWhole
<1>1. OwnershipInv /\ OutputInv => OutputWhole
  BY OutputFrom
<1> QED
  BY <1>1, OutputInvariant, PTL
=============================================================================
