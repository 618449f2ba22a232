-------------------------- MODULE LogFormat_proofs --------------------------
(***************************************************************************)
(* For any sizes of blocks, headers and records and any failures of        *)
(* appends: the types of the log's state; that a reader returns only       *)
(* records that were written, each once and in order; and that, if no      *)
(* append has failed, it returns all that are whole in the file, wherever  *)
(* the file is cut.                                                        *)
(***************************************************************************)
EXTENDS LogFormat, SequenceTheorems, FiniteSetTheorems, TLAPS

AnyByte == {Zero} \cup ({"header", "data"} \X Nat \X Nat)

Rec == [length : Lengths, status : {"writing", "ok", "error"}]

Frag == [type : Types, record : Nat, from : Nat, length : Nat]

(* Byte number m of fragment number i, and how many it has *)
Byte(i, m) == IF m <= kHeaderSize THEN <<"header", i, m>> ELSE <<"data", i, m - kHeaderSize>>

Size(i) == kHeaderSize + frags[i].length

(* The inductive invariant, first part: LogTypeOK, and that the buffer is  *)
(* what lies before the reader's place in the file.                        *)
WriterTypeOK ==
    /\ phase \in {"write", "read", "done"}
    /\ file \in Seq(AnyByte) /\ records \in Seq(Rec) /\ frags \in Seq(Frag)
    /\ block_offset \in 0 .. kBlockSize
    /\ left \in Int /\ left >= -1
    /\ left >= 0 => records # <<>> /\ left <= records[Len(records)].length
    /\ begin \in BOOLEAN /\ failures \in 0 .. MaxFailures

ReaderTypeOK ==
    /\ pos \in Nat /\ buffer \in Seq(AnyByte)
    /\ Len(buffer) <= kBlockSize /\ Len(buffer) <= pos /\ pos <= Len(file)
    /\ \A k \in 1 .. Len(buffer) : buffer[k] = file[pos - Len(buffer) + k]
    /\ eof \in BOOLEAN /\ inFragmented \in BOOLEAN /\ reports \in Nat

NothingRead ==
    /\ pos = 0 /\ buffer = <<>> /\ eof = FALSE
    /\ scratch = <<>> /\ inFragmented = FALSE /\ out = <<>> /\ reports = 0

LTypeInv == WriterTypeOK /\ ReaderTypeOK /\ (phase = "write" => NothingRead)

-----------------------------------------------------------------------------
(* Bytes and fragments *)

LEMMA Sizes == kHeaderSize \in Nat /\ kHeaderSize > 0 /\ kBlockSize \in Nat /\ kBlockSize >= kHeaderSize
BY FormatAssumption

LEMMA BytesDiffer ==
    ASSUME NEW i, NEW j, NEW m \in Nat, NEW n \in Nat, m > 0, n > 0
    PROVE  /\ Byte(i, m) # Zero
           /\ Byte(i, m) = Byte(j, n) => i = j /\ m = n
BY Sizes DEF Byte, Zero

LEMMA BytesAre ==
    ASSUME NEW i \in Nat, NEW n \in Nat
    PROVE  /\ Bytes(i, n) \in Seq(AnyByte) /\ Len(Bytes(i, n)) = kHeaderSize + n
           /\ \A m \in 1 .. kHeaderSize + n : Bytes(i, n)[m] = Byte(i, m)
<1> DEFINE h == [k \in 1 .. kHeaderSize |-> <<"header", i, k>>]
           d == [k \in 1 .. n |-> <<"data", i, k>>]
<1>1. h \in Seq(AnyByte) /\ Len(h) = kHeaderSize
  BY Sizes DEF AnyByte
<1>2. d \in Seq(AnyByte) /\ Len(d) = n
  BY Sizes DEF AnyByte
<1>3. /\ h \o d \in Seq(AnyByte) /\ Len(h \o d) = kHeaderSize + n
      /\ \A m \in 1 .. kHeaderSize + n : (h \o d)[m] = IF m <= kHeaderSize THEN h[m] ELSE d[m - kHeaderSize]
  <2> HIDE DEF h, d
  <2> QED BY <1>1, <1>2
<1>4. \A m \in 1 .. kHeaderSize + n : (h \o d)[m] = Byte(i, m)
  BY <1>3, Sizes DEF Byte
<1> QED BY <1>3, <1>4 DEF Bytes

LEMMA TrailerIs ==
    ASSUME LTypeInv
    PROVE  /\ Trailer \in Seq(AnyByte)
           /\ Len(Trailer) = IF NewBlock THEN leftover ELSE 0
           /\ \A k \in 1 .. Len(Trailer) : Trailer[k] = Zero
<1>1. leftover \in Nat
  BY Sizes DEF LTypeInv, WriterTypeOK, leftover
<1>2. CASE NewBlock
  <2> DEFINE t == [i \in 1 .. leftover |-> Zero]
  <2>1. t \in Seq(AnyByte) /\ Len(t) = leftover /\ \A k \in 1 .. leftover : t[k] = Zero
    BY <1>1 DEF AnyByte
  <2> QED BY <1>2, <2>1 DEF Trailer
<1>3. CASE ~NewBlock
  BY <1>3 DEF Trailer
<1> QED BY <1>2, <1>3

(* The fragment that EmitPhysicalRecord is about to write *)
LEMMA FragmentFits ==
    ASSUME LTypeInv, left >= 0
    PROVE  /\ StartOffset \in Nat /\ avail \in Nat
           /\ fragment_length \in Nat /\ fragment_length <= left
           /\ StartOffset + kHeaderSize + fragment_length <= kBlockSize
           /\ fragment_length < left => fragment_length = avail
           /\ left \in Nat /\ records # <<>> /\ Len(records) \in Nat /\ Len(records) > 0
           /\ records[Len(records)] \in Rec /\ records[Len(records)].length - left \in Nat
<1>1. block_offset \in 0 .. kBlockSize /\ left \in Nat
  BY DEF LTypeInv, WriterTypeOK
<1>2. records # <<>> /\ Len(records) \in Nat /\ Len(records) > 0
  BY DEF LTypeInv, WriterTypeOK
<1>3. records[Len(records)] \in Rec
  BY <1>2 DEF LTypeInv, WriterTypeOK
<1>4. records[Len(records)].length - left \in Nat
  <2>1. records[Len(records)].length \in Nat
    BY <1>3, FormatAssumption DEF Rec
  <2>2. left <= records[Len(records)].length
    BY DEF LTypeInv, WriterTypeOK
  <2> QED BY <1>1, <2>1, <2>2
<1>5. StartOffset \in Nat /\ avail \in Nat
  BY <1>1, Sizes DEF StartOffset, avail, NewBlock, leftover
<1> QED BY <1>1, <1>2, <1>3, <1>4, <1>5, Sizes DEF fragment_length, avail

-----------------------------------------------------------------------------
(* What EmitPhysicalRecord does *)

(* The file has grown by t bytes of a trailer and by b bytes of the next   *)
(* fragment.                                                               *)
Grown(t, b) ==
    /\ file' \in Seq(AnyByte) /\ Len(file') = Len(file) + t + b
    /\ \A p \in 1 .. Len(file) : file'[p] = file[p]
    /\ \A p \in 1 .. t : file'[Len(file) + p] = Zero
    /\ \A p \in 1 .. b : file'[Len(file) + t + p] = Byte(Len(frags) + 1, p)

LEMMA Parts ==
    ASSUME NEW x \in Seq(AnyByte), NEW y \in Seq(AnyByte), NEW z \in Seq(AnyByte)
    PROVE  /\ x \o y \o z \in Seq(AnyByte) /\ Len(x \o y \o z) = Len(x) + Len(y) + Len(z)
           /\ \A p \in 1 .. Len(x) : (x \o y \o z)[p] = x[p]
           /\ \A p \in 1 .. Len(y) : (x \o y \o z)[Len(x) + p] = y[p]
           /\ \A p \in 1 .. Len(z) : (x \o y \o z)[Len(x) + Len(y) + p] = z[p]
<1>1. /\ x \o y \in Seq(AnyByte) /\ Len(x \o y) = Len(x) + Len(y)
      /\ \A p \in 1 .. Len(x) : (x \o y)[p] = x[p]
      /\ \A p \in 1 .. Len(y) : (x \o y)[Len(x) + p] = y[p]
  OBVIOUS
<1> DEFINE w == x \o y
<1>2. /\ w \o z \in Seq(AnyByte) /\ Len(w \o z) = Len(w) + Len(z)
      /\ \A p \in 1 .. Len(w) : (w \o z)[p] = w[p]
      /\ \A p \in 1 .. Len(z) : (w \o z)[Len(w) + p] = z[p]
  <2> HIDE DEF w
  <2>1. w \in Seq(AnyByte)
    BY <1>1 DEF w
  <2> QED BY <2>1
<1>3. Len(x) \in Nat /\ Len(y) \in Nat
  OBVIOUS
<1>4. \A p \in 1 .. Len(y) : Len(x) + p \in 1 .. Len(w)
  BY <1>1, <1>3
<1>5. \A p \in 1 .. Len(x) : p \in 1 .. Len(w)
  BY <1>1, <1>3
<1> QED BY <1>1, <1>2, <1>4, <1>5

LEMMA GrownIs ==
    ASSUME file \in Seq(AnyByte), NEW y \in Seq(AnyByte), NEW z \in Seq(AnyByte),
           file' = file \o y \o z, \A p \in 1 .. Len(y) : y[p] = Zero,
           \A p \in 1 .. Len(z) : z[p] = Byte(Len(frags) + 1, p)
    PROVE  Grown(Len(y), Len(z))
<1> DEFINE w == file \o y \o z
<1>1. /\ w \in Seq(AnyByte) /\ Len(w) = Len(file) + Len(y) + Len(z)
      /\ \A p \in 1 .. Len(file) : w[p] = file[p]
      /\ \A p \in 1 .. Len(y) : w[Len(file) + p] = y[p]
      /\ \A p \in 1 .. Len(z) : w[Len(file) + Len(y) + p] = z[p]
  BY Parts
<1> HIDE DEF w
<1>2. file' = w
  BY DEF w
<1> QED BY <1>1, <1>2 DEF Grown

LEMMA PrefixIs ==
    ASSUME NEW x \in Seq(AnyByte), NEW k \in 0 .. Len(x)
    PROVE  /\ SubSeq(x, 1, k) \in Seq(AnyByte) /\ Len(SubSeq(x, 1, k)) = k
           /\ \A p \in 1 .. k : SubSeq(x, 1, k)[p] = x[p]
<1>1. k \in Nat /\ Len(x) \in Nat /\ k <= Len(x) /\ \A p \in 1 .. k : p \in 1 .. Len(x)
  OBVIOUS
<1> QED BY <1>1

(* However much of it reaches the file: a fragment is whole if the call of *)
(* AddRecord goes on, and so is its trailer if nothing has failed yet.     *)
LEMMA Emitted ==
    ASSUME LTypeInv, EmitPhysicalRecord
    PROVE  \E t, b \in Nat :
             /\ Grown(t, b) /\ b <= kHeaderSize + fragment_length
             /\ left' >= 0 => b = kHeaderSize + fragment_length
             /\ failures' = 0 => /\ b = kHeaderSize + fragment_length
                                 /\ t = IF NewBlock THEN leftover ELSE 0
             /\ failures' = 0 => failures = 0
<1> DEFINE n == fragment_length
           i == Len(frags) + 1
           bytes == Bytes(i, n)
           T == Trailer
<1>1. n \in Nat /\ i \in Nat /\ left \in Nat /\ n <= left
  BY FragmentFits DEF EmitPhysicalRecord, LTypeInv, WriterTypeOK
<1>2. /\ bytes \in Seq(AnyByte) /\ Len(bytes) = kHeaderSize + n
      /\ \A m \in 1 .. kHeaderSize + n : bytes[m] = Byte(i, m)
  BY <1>1, BytesAre
<1>3. /\ T \in Seq(AnyByte) /\ Len(T) = IF NewBlock THEN leftover ELSE 0
      /\ \A k \in 1 .. Len(T) : T[k] = Zero
  BY TrailerIs
<1>4. file \in Seq(AnyByte) /\ failures \in Nat /\ Len(T) \in Nat /\ Len(bytes) \in Nat
  BY <1>2, <1>3 DEF LTypeInv, WriterTypeOK
<1>5. \/ /\ file' = file \o T \o bytes /\ UNCHANGED failures
      \/ /\ failures' = failures + 1 /\ left' = -1
         /\ \E k \in 0 .. Len(bytes) : file' = file \o T \o SubSeq(bytes, 1, k)
      \/ /\ failures' = failures + 1
         /\ \E k \in 0 .. Len(T) - 1 : file' = file \o SubSeq(T, 1, k) \o bytes
  BY DEF EmitPhysicalRecord
<1> HIDE DEF n, i, bytes, T
<1>6. ASSUME NEW k \in 0 .. Len(bytes), file' = file \o T \o SubSeq(bytes, 1, k)
      PROVE  Grown(Len(T), k)
  <2>1. /\ SubSeq(bytes, 1, k) \in Seq(AnyByte) /\ Len(SubSeq(bytes, 1, k)) = k
        /\ \A p \in 1 .. k : SubSeq(bytes, 1, k)[p] = bytes[p]
    BY <1>2, PrefixIs
  <2>2. \A p \in 1 .. k : p \in 1 .. kHeaderSize + n
    BY <1>2, <1>4
  <2>3. \A p \in 1 .. k : SubSeq(bytes, 1, k)[p] = Byte(Len(frags) + 1, p)
    BY <1>2, <2>1, <2>2 DEF i
  <2> DEFINE z == SubSeq(bytes, 1, k)
  <2> HIDE DEF z
  <2>4. z \in Seq(AnyByte) /\ Len(z) = k /\ file' = file \o T \o z
        /\ \A p \in 1 .. k : z[p] = Byte(Len(frags) + 1, p)
    BY <1>6, <2>1, <2>3 DEF z
  <2> QED BY <1>3, <1>4, <2>4, GrownIs
<1>7. CASE file' = file \o T \o bytes /\ UNCHANGED failures
  <2>1. Grown(Len(T), Len(bytes))
    BY <1>2, <1>3, <1>4, <1>7, GrownIs DEF i
  <2> QED BY <1>2, <1>3, <1>4, <1>7, <2>1 DEF n
<1>8. ASSUME failures' = failures + 1, left' = -1,
             NEW k \in 0 .. Len(bytes), file' = file \o T \o SubSeq(bytes, 1, k)
      PROVE  \E t, b \in Nat : Grown(t, b) /\ b <= kHeaderSize + n /\ ~(left' >= 0) /\ failures' # 0
  <2>1. k \in Nat /\ k <= kHeaderSize + n /\ failures' # 0
    BY <1>2, <1>4, <1>8
  <2>2. Grown(Len(T), k) /\ Len(T) \in Nat
    BY <1>4, <1>6, <1>8
  <2> QED BY <1>8, <2>1, <2>2
<1>9. ASSUME failures' = failures + 1,
             NEW k \in 0 .. Len(T) - 1, file' = file \o SubSeq(T, 1, k) \o bytes
      PROVE  \E t \in Nat : Grown(t, kHeaderSize + n) /\ failures' # 0
  <2>1. k \in 0 .. Len(T)
    BY <1>4
  <2> DEFINE y == SubSeq(T, 1, k)
  <2>2. y \in Seq(AnyByte) /\ Len(y) = k /\ \A p \in 1 .. k : y[p] = T[p]
    BY <1>3, <2>1, PrefixIs
  <2>3. \A p \in 1 .. k : p \in 1 .. Len(T)
    BY <1>4, <2>1
  <2> HIDE DEF y
  <2>4. file' = file \o y \o bytes
    BY <1>9 DEF y
  <2>5. Grown(Len(y), Len(bytes))
    <3>1. \A p \in 1 .. Len(y) : y[p] = Zero
      BY <1>3, <2>2, <2>3
    <3> QED BY <1>2, <1>4, <2>2, <2>4, <3>1, GrownIs DEF i
  <2> QED BY <1>2, <1>4, <1>9, <2>1, <2>2, <2>5
<1>10. CASE failures' = failures + 1
  <2>1. failures' # 0 /\ kHeaderSize + n \in Nat
    BY <1>1, <1>4, <1>10, Sizes
  <2>2. CASE left' = -1 /\ \E k \in 0 .. Len(bytes) : file' = file \o T \o SubSeq(bytes, 1, k)
    BY <1>8, <1>10, <2>1, <2>2 DEF n
  <2>3. CASE \E k \in 0 .. Len(T) - 1 : file' = file \o SubSeq(T, 1, k) \o bytes
    <3>1. PICK t \in Nat : Grown(t, kHeaderSize + n)
      BY <1>9, <1>10, <2>3
    <3>2. kHeaderSize + n <= kHeaderSize + n
      BY <2>1
    <3> QED BY <2>1, <3>1, <3>2 DEF n
  <2>4. failures' # failures
    BY <1>4, <1>10
  <2> QED BY <1>5, <2>2, <2>3, <2>4, Zenon
<1> QED BY <1>5, <1>7, <1>10

(* The record it works on, and what becomes of the call *)
LEMMA EmittedRecord ==
    ASSUME LTypeInv, EmitPhysicalRecord
    PROVE  /\ records' \in Seq(Rec) /\ Len(records') = Len(records)
           /\ \A r \in 1 .. Len(records) : records'[r].length = records[r].length
           /\ \A r \in 1 .. Len(records) : r # Len(records) => records'[r] = records[r]
           /\ left' = -1 \/ (left' = left - fragment_length /\ left' > 0)
           /\ left = fragment_length => left' = -1
           /\ failures' = 0 => IF left = fragment_length
                               THEN left' = -1 /\ records'[Len(records)].status = "ok"
                               ELSE left' = left - fragment_length /\ records' = records
<1> DEFINE n == fragment_length
           l == Len(records)
<1>1. n \in Nat /\ left \in Nat /\ n <= left /\ records \in Seq(Rec) /\ l \in Nat /\ l > 0
  BY FragmentFits DEF EmitPhysicalRecord, LTypeInv, WriterTypeOK
<1>2. ASSUME NEW s \in {"writing", "ok", "error"}
      PROVE  LET new == [records EXCEPT ![l].status = s]
             IN  /\ new \in Seq(Rec) /\ Len(new) = l /\ new[l].status = s
                 /\ \A r \in 1 .. l : new[r].length = records[r].length
                 /\ \A r \in 1 .. l : r # l => new[r] = records[r]
  <2>1. l \in 1 .. l /\ DOMAIN records = 1 .. l /\ records \in [1 .. l -> Rec]
    BY <1>1
  <2>2. [records[l] EXCEPT !.status = s] \in Rec
    BY <2>1 DEF Rec
  <2> DEFINE new == [records EXCEPT ![l].status = s]
  <2>3. new \in [1 .. l -> Rec]
    BY <2>1, <2>2
  <2>4. new \in Seq(Rec) /\ Len(new) = l
    BY <1>1, <2>3, SeqDef
  <2>5. new[l].status = s
    BY <2>1 DEF Rec
  <2>6. \A r \in 1 .. l : r # l => new[r] = records[r]
    BY <2>1
  <2>7. new[l].length = records[l].length
    BY <2>1 DEF Rec
  <2> QED BY <2>4, <2>5, <2>6, <2>7
<1>3. \/ /\ left' = IF left = n THEN -1 ELSE left - n
         /\ records' = IF left = n THEN [records EXCEPT ![l].status = "ok"] ELSE records
      \/ /\ failures' = failures + 1 /\ left' = -1
         /\ records' = [records EXCEPT ![l].status = "error"]
  BY DEF EmitPhysicalRecord
<1>4. failures' = failures + 1 => failures' # 0
  BY DEF LTypeInv, WriterTypeOK
<1> HIDE DEF n, l
<1>5. CASE /\ left' = IF left = n THEN -1 ELSE left - n
           /\ records' = IF left = n THEN [records EXCEPT ![l].status = "ok"] ELSE records
  <2>1. CASE left = n
    <3>1. left' = -1 /\ records' = [records EXCEPT ![l].status = "ok"]
      BY <1>5, <2>1
    <3>2. /\ records' \in Seq(Rec) /\ Len(records') = l /\ records'[l].status = "ok"
          /\ \A r \in 1 .. l : records'[r].length = records[r].length
          /\ \A r \in 1 .. l : r # l => records'[r] = records[r]
      BY <1>2, <3>1
    <3> QED BY <2>1, <3>1, <3>2 DEF n, l
  <2>2. CASE left # n
    BY <1>1, <1>5, <2>2 DEF n, l
  <2> QED BY <2>1, <2>2
<1>6. CASE /\ failures' = failures + 1 /\ left' = -1
           /\ records' = [records EXCEPT ![l].status = "error"]
  <2>1. /\ records' \in Seq(Rec) /\ Len(records') = l
        /\ \A r \in 1 .. l : records'[r].length = records[r].length
        /\ \A r \in 1 .. l : r # l => records'[r] = records[r]
    BY <1>2, <1>6
  <2> QED BY <1>4, <1>6, <2>1 DEF l, n
<1> QED BY <1>3, <1>5, <1>6

(* Its fragment.  What the type says: whether it begins and whether it     *)
(* ends a record.                                                          *)
LEMMA EmittedFragment ==
    ASSUME LTypeInv, EmitPhysicalRecord
    PROVE  LET f == frags'[Len(frags) + 1]
           IN  /\ frags' \in Seq(Frag) /\ Len(frags') = Len(frags) + 1
               /\ \A i \in 1 .. Len(frags) : frags'[i] = frags[i]
               /\ f.record = Len(records) /\ f.length = fragment_length
               /\ f.from = records[Len(records)].length - left
               /\ f.type \in {"full", "last"} <=> left = fragment_length
               /\ f.type \in {"full", "first"} <=> begin
<1> DEFINE new == [type |-> FragmentType(begin), record |-> Len(records),
                   from |-> records[Len(records)].length - left, length |-> fragment_length]
<1>1. frags' = Append(frags, new)
  BY DEF EmitPhysicalRecord, Last
<1>2. frags \in Seq(Frag) /\ begin \in BOOLEAN
  BY DEF LTypeInv, WriterTypeOK
<1>3. /\ FragmentType(begin) \in Types
      /\ FragmentType(begin) \in {"full", "last"} <=> left = fragment_length
      /\ FragmentType(begin) \in {"full", "first"} <=> begin
  <2>1. CASE begin
    <3>1. CASE left = fragment_length
      BY <2>1, <3>1 DEF FragmentType, Types
    <3>2. CASE left # fragment_length
      BY <2>1, <3>2 DEF FragmentType, Types
    <3> QED BY <3>1, <3>2
  <2>2. CASE ~begin
    <3>1. CASE left = fragment_length
      BY <2>2, <3>1 DEF FragmentType, Types
    <3>2. CASE left # fragment_length
      BY <2>2, <3>2 DEF FragmentType, Types
    <3> QED BY <3>1, <3>2
  <2> QED BY <2>1, <2>2
<1>4. new \in Frag
  BY <1>3, FragmentFits DEF Frag, EmitPhysicalRecord
<1>5. /\ new.record = Len(records) /\ new.length = fragment_length
      /\ new.from = records[Len(records)].length - left /\ new.type = FragmentType(begin)
  OBVIOUS
<1> HIDE DEF new
<1>6. /\ frags' \in Seq(Frag) /\ Len(frags') = Len(frags) + 1
      /\ \A i \in 1 .. Len(frags) : frags'[i] = frags[i]
      /\ frags'[Len(frags) + 1] = new
  BY <1>1, <1>2, <1>4, AppendProperties
<1> QED BY <1>3, <1>5, <1>6

-----------------------------------------------------------------------------
(* The types *)

LEMMA AtStart == WriterTypeOK /\ NothingRead => ReaderTypeOK
<1> SUFFICES ASSUME WriterTypeOK, NothingRead PROVE ReaderTypeOK
  OBVIOUS
<1>1. pos = 0 /\ buffer = <<>> /\ reports = 0 /\ Len(file) \in Nat
  BY DEF WriterTypeOK, NothingRead
<1>2. buffer \in Seq(AnyByte) /\ Len(buffer) = 0
  BY <1>1
<1>3. \A k \in 1 .. Len(buffer) : buffer[k] = file[pos - Len(buffer) + k]
  BY <1>2
<1>4. eof \in BOOLEAN /\ inFragmented \in BOOLEAN
  BY Zenon DEF NothingRead
<1> QED BY <1>1, <1>2, <1>3, <1>4, Sizes DEF ReaderTypeOK

LEMMA LTypeInit == LogInit => LTypeInv
<1> SUFFICES ASSUME LogInit PROVE LTypeInv
  OBVIOUS
<1>1. phase = "write" /\ block_offset = 0 /\ left = -1 /\ begin = TRUE /\ failures = 0
  BY DEF LogInit
<1>2. file = <<>> /\ records = <<>> /\ frags = <<>>
  BY DEF LogInit
<1>3. WriterTypeOK
  BY <1>1, <1>2, FormatAssumption, Sizes DEF WriterTypeOK
<1>4. NothingRead
  BY DEF LogInit, NothingRead
<1>5. ReaderTypeOK
  BY <1>3, <1>4, AtStart
<1> QED BY <1>3, <1>4, <1>5 DEF LTypeInv

LEMMA AddRecordType ==
    ASSUME LTypeInv, NEW n \in Lengths, AddRecord(n)
    PROVE  LTypeInv'
<1>1. UNCHANGED <<phase, file, frags, block_offset, failures, readerVars>>
  BY DEF AddRecord
<1>2. n \in Nat /\ records \in Seq(Rec) /\ [length |-> n, status |-> "writing"] \in Rec
  BY FormatAssumption DEF LTypeInv, WriterTypeOK, Rec
<1>3. /\ records' \in Seq(Rec) /\ Len(records') = Len(records) + 1
      /\ records'[Len(records) + 1] = [length |-> n, status |-> "writing"] /\ records' # <<>>
  BY <1>2, AppendProperties DEF AddRecord
<1>4. left' = n /\ begin' = TRUE
  BY DEF AddRecord
<1>5. WriterTypeOK'
  BY <1>1, <1>2, <1>3, <1>4 DEF LTypeInv, WriterTypeOK
<1>6. ReaderTypeOK' /\ (phase' = "write" => NothingRead')
  BY <1>1 DEF LTypeInv, ReaderTypeOK, NothingRead, readerVars
<1> QED BY <1>5, <1>6 DEF LTypeInv

LEMMA EmitType == LTypeInv /\ EmitPhysicalRecord => LTypeInv'
<1> SUFFICES ASSUME LTypeInv, EmitPhysicalRecord PROVE LTypeInv'
  OBVIOUS
<1>1. UNCHANGED <<phase, readerVars>> /\ phase = "write" /\ begin' = FALSE
  BY DEF EmitPhysicalRecord
<1>2. PICK t, b \in Nat : Grown(t, b)
  BY Emitted
<1>3. file' \in Seq(AnyByte)
  BY <1>2 DEF Grown
<1>4. block_offset' \in 0 .. kBlockSize
  <2>1. block_offset' = StartOffset + kHeaderSize + fragment_length /\ left >= 0
    BY DEF EmitPhysicalRecord
  <2> QED BY <2>1, FragmentFits, Sizes
<1>5. failures' \in 0 .. MaxFailures
  <2>1. failures' = failures \/ (failures < MaxFailures /\ failures' = failures + 1)
    BY DEF EmitPhysicalRecord
  <2>2. failures \in 0 .. MaxFailures
    BY DEF LTypeInv, WriterTypeOK
  <2> QED BY <2>1, <2>2, FormatAssumption
<1>6. left' \in Int /\ left' >= -1 /\ (left' >= 0 => records' # <<>> /\ left' <= records'[Len(records')].length)
  <2>1. /\ left \in Nat /\ fragment_length \in Nat /\ Len(records) \in Nat /\ Len(records) > 0
        /\ records[Len(records)].length - left \in Nat /\ records[Len(records)] \in Rec
    BY FragmentFits DEF EmitPhysicalRecord
  <2>2. /\ Len(records') = Len(records) /\ records' \in Seq(Rec)
        /\ records'[Len(records)].length = records[Len(records)].length
        /\ left' = -1 \/ (left' = left - fragment_length /\ left' > 0)
    BY <2>1, EmittedRecord
  <2>3. records[Len(records)].length \in Nat
    BY <2>1, FormatAssumption DEF Rec
  <2>4. records' # <<>>
    BY <2>1, <2>2
  <2> QED BY <2>1, <2>2, <2>3, <2>4
<1>7. WriterTypeOK'
  BY <1>1, <1>3, <1>4, <1>5, <1>6, EmittedRecord, EmittedFragment DEF LTypeInv, WriterTypeOK
<1>8. NothingRead'
  BY <1>1 DEF LTypeInv, NothingRead, readerVars
<1>9. ReaderTypeOK'
  BY <1>7, <1>8, AtStart, PTL
<1> QED BY <1>7, <1>8, <1>9 DEF LTypeInv

LEMMA CrashType == LTypeInv /\ (Crash \/ ProcessEnds) => LTypeInv'
<1> SUFFICES ASSUME LTypeInv, Crash \/ ProcessEnds PROVE LTypeInv'
  OBVIOUS
<1>1. /\ UNCHANGED <<records, frags, block_offset, left, begin, failures, readerVars>>
      /\ phase = "write" /\ phase' = "read"
  BY DEF Crash, ProcessEnds, writerVars
<1>2. file' \in Seq(AnyByte)
  <2>1. file \in Seq(AnyByte)
    BY DEF LTypeInv, WriterTypeOK
  <2>2. CASE Crash
    <3>1. PICK n \in 0 .. Len(file) : file' = SubSeq(file, 1, n)
      BY <2>2 DEF Crash
    <3> QED BY <2>1, <3>1, PrefixIs
  <2>3. CASE ProcessEnds
    BY <2>1, <2>3 DEF ProcessEnds, writerVars
  <2> QED BY <2>2, <2>3
<1>3. WriterTypeOK'
  BY <1>1, <1>2 DEF LTypeInv, WriterTypeOK
<1>4. NothingRead'
  BY <1>1 DEF LTypeInv, NothingRead, readerVars
<1>5. ReaderTypeOK'
  BY <1>3, <1>4, AtStart, PTL
<1> QED BY <1>1, <1>3, <1>5 DEF LTypeInv

(* The next block, or what there is of it *)
LEMMA BlockRead ==
    ASSUME LTypeInv, ReadBlock
    PROVE  /\ pos' \in Nat /\ pos <= pos' /\ pos' <= Len(file) /\ pos' <= pos + kBlockSize
           /\ buffer' \in Seq(AnyByte) /\ Len(buffer') = pos' - pos
           /\ \A k \in 1 .. Len(buffer') : buffer'[k] = file[pos + k]
           /\ eof' \in BOOLEAN
           /\ eof' => pos' = Len(file)
           /\ ~eof' => pos' = pos + kBlockSize
<1> DEFINE m == Min({pos + kBlockSize, Len(file)})
<1>1. pos \in Nat /\ Len(file) \in Nat /\ pos <= Len(file) /\ file \in Seq(AnyByte)
  BY DEF LTypeInv, WriterTypeOK, ReaderTypeOK
<1>2. /\ m \in {pos + kBlockSize, Len(file)}
      /\ m <= pos + kBlockSize /\ m <= Len(file)
  <2> DEFINE S == {pos + kBlockSize, Len(file)}
             T(x) == x \in S /\ \A y \in S : x <= y
  <2>1. \E x : T(x)
    <3>1. CASE pos + kBlockSize <= Len(file)
      <4>1. T(pos + kBlockSize)
        BY <1>1, <3>1, Sizes
      <4> QED BY <4>1
    <3>2. CASE ~(pos + kBlockSize <= Len(file))
      <4>1. T(Len(file))
        BY <1>1, <3>2, Sizes
      <4> QED BY <4>1
    <3> QED BY <3>1, <3>2
  <2>2. m = CHOOSE x \in S : \A y \in S : x <= y
    BY DEF Min
  <2>3. T(m)
    BY <2>1, <2>2, Zenon
  <2> QED BY <2>3
<1>3. m \in Nat /\ pos <= m
  BY <1>1, <1>2, Sizes
<1> HIDE DEF m
<1>4. /\ SubSeq(file, pos + 1, m) \in Seq(AnyByte) /\ Len(SubSeq(file, pos + 1, m)) = m - pos
      /\ \A k \in 1 .. m - pos : SubSeq(file, pos + 1, m)[k] = file[pos + k]
  <2>1. \A k \in pos + 1 .. m : k \in 1 .. Len(file)
    BY <1>1, <1>2, <1>3
  <2> QED BY <1>1, <1>2, <1>3, <2>1
<1>5. /\ buffer' = SubSeq(file, pos + 1, m) /\ pos' = pos + Len(buffer')
      /\ eof' = (Len(buffer') < kBlockSize)
  BY DEF ReadBlock, m
<1>6. Len(buffer') = m - pos /\ pos' = m
  BY <1>1, <1>3, <1>4, <1>5
<1>7. /\ pos' \in Nat /\ pos <= pos' /\ pos' <= Len(file) /\ pos' <= pos + kBlockSize
      /\ Len(buffer') = pos' - pos
  BY <1>2, <1>3, <1>6
<1>8. buffer' \in Seq(AnyByte) /\ \A k \in 1 .. Len(buffer') : buffer'[k] = file[pos + k]
  BY <1>4, <1>5, <1>6
<1>9. eof' \in BOOLEAN /\ (eof' => pos' = Len(file)) /\ (~eof' => pos' = pos + kBlockSize)
  <2>1. eof' \in BOOLEAN
    BY <1>5, SMT
  <2>2. eof' <=> Len(buffer') < kBlockSize
    BY <1>5, Zenon
  <2>3. m - pos < kBlockSize => m = Len(file)
    BY <1>1, <1>2, <1>3, Sizes
  <2>4. ~(m - pos < kBlockSize) => m = pos + kBlockSize
    BY <1>1, <1>2, <1>3, Sizes
  <2> QED BY <1>6, <2>1, <2>2, <2>3, <2>4, Zenon
<1> QED BY <1>7, <1>8, <1>9

(* What a whole fragment at the front of the buffer is followed by *)
LEMMA FragmentRead ==
    ASSUME LTypeInv, ReadFragment, Fragment \in Frag
    PROVE  LET n == kHeaderSize + Fragment.length
           IN  /\ n \in Nat /\ n <= Len(buffer)
               /\ buffer' \in Seq(AnyByte) /\ Len(buffer') = Len(buffer) - n
               /\ \A k \in 1 .. Len(buffer') : buffer'[k] = buffer[n + k]
               /\ UNCHANGED <<phase, writerVars, pos, eof>>
<1> DEFINE n == kHeaderSize + Fragment.length
<1>1. n \in Nat /\ n <= Len(buffer) /\ buffer \in Seq(AnyByte) /\ Len(buffer) \in Nat
  BY Sizes DEF LTypeInv, ReaderTypeOK, Frag, ReadFragment, TooLong
<1>2. buffer' = SubSeq(buffer, n + 1, Len(buffer))
  BY DEF ReadFragment
<1> HIDE DEF n
<1>3. \A k \in n + 1 .. Len(buffer) : k \in 1 .. Len(buffer)
  BY <1>1
<1>4. /\ buffer' \in Seq(AnyByte) /\ Len(buffer') = Len(buffer) - n
      /\ \A k \in 1 .. Len(buffer') : buffer'[k] = buffer[n + k]
  BY <1>1, <1>2, <1>3
<1> QED BY <1>1, <1>4 DEF n, ReadFragment

-----------------------------------------------------------------------------
(* The inductive invariant, second part: what the fragments are, and where *)
(* their bytes are in the file, whatever has failed.                       *)

Begins(i) == frags[i].type \in {"full", "first"}
Ends(i) == frags[i].type \in {"full", "last"}

(* A fragment is a piece of its record: a first one is its beginning, a    *)
(* last one its end, any other goes on where the one before stops.         *)
Pieces ==
    \A i \in 1 .. Len(frags) :
        LET f == frags[i]
        IN  /\ f.record \in 1 .. Len(records)
            /\ Ends(i) => f.from + f.length = records[f.record].length
            /\ Begins(i) => f.from = 0
            /\ ~Begins(i) => /\ i > 1 /\ f.record = frags[i - 1].record
                             /\ f.from = frags[i - 1].from + frags[i - 1].length

RecordsInOrder ==
    \A i, j \in 1 .. Len(frags) :
        i < j => /\ frags[i].record <= frags[j].record
                 /\ Ends(i) => frags[i].record < frags[j].record

(* The call of AddRecord under way *)
CallInv ==
    left >= 0 =>
        /\ \A i \in 1 .. Len(frags) : frags[i].record = Len(records) => ~begin /\ ~Ends(i)
        /\ begin => left = records[Len(records)].length
        /\ ~begin => LET f == frags[Len(frags)]
                     IN  /\ Len(frags) > 0 /\ f.record = Len(records)
                         /\ f.from + f.length = records[Len(records)].length - left

FragsInv == Pieces /\ RecordsInOrder /\ CallInv

LEMMA LengthTypes ==
    ASSUME LTypeInv
    PROVE  /\ Len(frags) \in Nat /\ Len(records) \in Nat /\ Len(file) \in Nat
           /\ \A i \in 1 .. Len(frags) :
                /\ frags[i] \in Frag /\ frags[i].from \in Nat /\ frags[i].length \in Nat
                /\ frags[i].record \in Nat /\ Size(i) \in Nat /\ Size(i) >= kHeaderSize
           /\ \A r \in 1 .. Len(records) : records[r] \in Rec /\ records[r].length \in Nat
<1>1. frags \in Seq(Frag) /\ records \in Seq(Rec) /\ file \in Seq(AnyByte)
  BY DEF LTypeInv, WriterTypeOK
<1>2. \A i \in 1 .. Len(frags) : frags[i] \in Frag
  BY <1>1
<1>3. \A r \in 1 .. Len(records) : records[r] \in Rec /\ records[r].length \in Nat
  <2>1. \A r \in 1 .. Len(records) : records[r] \in Rec
    BY <1>1
  <2>2. \A x \in Rec : x.length \in Nat
    BY FormatAssumption DEF Rec
  <2> QED BY <2>1, <2>2
<1>4. Len(frags) \in Nat /\ Len(records) \in Nat /\ Len(file) \in Nat
  BY <1>1
<1>5. ASSUME NEW i \in 1 .. Len(frags)
      PROVE  /\ frags[i].from \in Nat /\ frags[i].length \in Nat /\ frags[i].record \in Nat
             /\ Size(i) \in Nat /\ Size(i) >= kHeaderSize
  <2>1. frags[i].from \in Nat /\ frags[i].length \in Nat /\ frags[i].record \in Nat
    BY <1>2 DEF Frag
  <2> QED BY <2>1, Sizes DEF Size
<1> QED BY <1>2, <1>3, <1>4, <1>5

LEMMA FragsInit == LogInit => FragsInv
<1> SUFFICES ASSUME LogInit PROVE FragsInv
  OBVIOUS
<1>1. frags = <<>> /\ left = -1
  BY DEF LogInit
<1>2. Len(frags) = 0
  BY <1>1
<1> QED BY <1>1, <1>2 DEF FragsInv, Pieces, RecordsInOrder, CallInv

LEMMA AddRecordFrags ==
    ASSUME LTypeInv, FragsInv, NEW n \in Lengths, AddRecord(n)
    PROVE  FragsInv'
<1> DEFINE l == Len(records)
<1>1. frags' = frags /\ left' = n /\ begin' = TRUE /\ l \in Nat
  BY LengthTypes DEF AddRecord
<1>2. /\ Len(records') = l + 1 /\ \A r \in 1 .. l : records'[r] = records[r]
      /\ records'[l + 1].length = n
  <2>1. records \in Seq(Rec) /\ [length |-> n, status |-> "writing"] \in Rec
    BY DEF LTypeInv, WriterTypeOK, Rec
  <2> QED BY <2>1, AppendProperties DEF AddRecord
<1>3. Pieces'
  <2> SUFFICES ASSUME NEW i \in 1 .. Len(frags)
               PROVE  /\ frags[i].record \in 1 .. l + 1
                      /\ Ends(i) => frags[i].from + frags[i].length = records'[frags[i].record].length
                      /\ Begins(i) => frags[i].from = 0
                      /\ ~Begins(i) => /\ i > 1 /\ frags[i].record = frags[i - 1].record
                                       /\ frags[i].from = frags[i - 1].from + frags[i - 1].length
    BY <1>1, <1>2 DEF Pieces, Begins, Ends
  <2>1. frags[i].record \in 1 .. l
    BY DEF FragsInv, Pieces
  <2>2. frags[i].record \in 1 .. l + 1
    BY <1>1, <2>1
  <2> QED BY <1>2, <2>1, <2>2 DEF FragsInv, Pieces
<1>4. RecordsInOrder'
  BY <1>1 DEF FragsInv, RecordsInOrder, Ends
<1>5. CallInv'
  BY <1>1, <1>2, LengthTypes DEF FragsInv, Pieces, CallInv
<1> QED BY <1>3, <1>4, <1>5 DEF FragsInv

LEMMA EmitFrags == LTypeInv /\ FragsInv /\ EmitPhysicalRecord => FragsInv'
<1> SUFFICES ASSUME LTypeInv, FragsInv, EmitPhysicalRecord PROVE FragsInv'
  OBVIOUS
<1> DEFINE l == Len(records)
           N == Len(frags)
           n == fragment_length
<1>1. /\ l \in Nat /\ l > 0 /\ N \in Nat /\ n \in Nat /\ left \in Nat /\ n <= left /\ left >= 0
      /\ begin' = FALSE /\ records[l].length \in Nat
  <2>1. left >= 0 /\ begin' = FALSE
    BY DEF EmitPhysicalRecord
  <2>2. l \in Nat /\ l > 0 /\ n \in Nat /\ left \in Nat /\ n <= left
    BY <2>1, FragmentFits
  <2>3. N \in Nat /\ records[l].length \in Nat
    <3>1. l \in 1 .. l
      BY <2>2
    <3> QED BY <3>1, LengthTypes
  <2> QED BY <2>1, <2>2, <2>3
<1>2. /\ Len(frags') = N + 1 /\ \A i \in 1 .. N : frags'[i] = frags[i]
      /\ frags'[N + 1].record = l /\ frags'[N + 1].length = n
      /\ frags'[N + 1].from = records[l].length - left
      /\ frags'[N + 1].type \in {"full", "last"} <=> left = n
      /\ frags'[N + 1].type \in {"full", "first"} <=> begin
  BY EmittedFragment
<1>3. /\ Len(records') = l /\ \A r \in 1 .. l : records'[r].length = records[r].length
      /\ left' = -1 \/ (left' = left - n /\ left' > 0)
      /\ left = n => left' = -1
  BY EmittedRecord
<1>4. /\ \A i \in 1 .. N : frags[i].record = l => ~begin /\ ~Ends(i)
      /\ begin => left = records[l].length
      /\ ~begin => /\ N > 0 /\ frags[N].record = l
                   /\ frags[N].from + frags[N].length = records[l].length - left
  BY <1>1 DEF FragsInv, CallInv
<1> HIDE DEF l, N, n
<1>5. Pieces'
  <2> SUFFICES ASSUME NEW i \in 1 .. N + 1
               PROVE  /\ frags'[i].record \in 1 .. l
                      /\ Ends(i)' => frags'[i].from + frags'[i].length = records'[frags'[i].record].length
                      /\ Begins(i)' => frags'[i].from = 0
                      /\ ~Begins(i)' => /\ i > 1 /\ frags'[i].record = frags'[i - 1].record
                                        /\ frags'[i].from = frags'[i - 1].from + frags'[i - 1].length
    BY <1>2, <1>3 DEF Pieces
  <2>1. CASE i \in 1 .. N
    <3>1. /\ frags[i].record \in 1 .. l
          /\ Ends(i) => frags[i].from + frags[i].length = records[frags[i].record].length
          /\ Begins(i) => frags[i].from = 0
          /\ ~Begins(i) => /\ i > 1 /\ frags[i].record = frags[i - 1].record
                           /\ frags[i].from = frags[i - 1].from + frags[i - 1].length
      BY <2>1 DEF FragsInv, Pieces, N, l
    <3>2. i > 1 => i - 1 \in 1 .. N
      BY <1>1, <2>1
    <3> QED BY <1>2, <1>3, <2>1, <3>1, <3>2 DEF Begins, Ends
  <2>2. CASE i = N + 1
    <3>1. (i - 1) = N /\ (~begin => i > 1 /\ N \in 1 .. N)
      BY <1>1, <1>4, <2>2
    <3>2. l \in 1 .. l
      BY <1>1
    <3>3. frags'[i].record = l /\ frags'[i].length = n /\ frags'[i].from = records[l].length - left
      BY <1>2, <2>2
    <3>4. records'[frags'[i].record].length = records[l].length
      BY <1>3, <3>2, <3>3
    <3>5. (Ends(i)' <=> left = n) /\ (Begins(i)' <=> begin)
      BY <1>2, <2>2 DEF Ends, Begins
    <3>6. ~begin => frags'[i - 1] = frags[N]
      BY <1>2, <3>1
    <3> QED BY <1>1, <1>4, <3>1, <3>2, <3>3, <3>4, <3>5, <3>6
  <2> QED BY <1>1, <2>1, <2>2
<1>6. RecordsInOrder'
  <2> SUFFICES ASSUME NEW i \in 1 .. N + 1, NEW j \in 1 .. N + 1, i < j
               PROVE  /\ frags'[i].record <= frags'[j].record
                      /\ Ends(i)' => frags'[i].record < frags'[j].record
    BY <1>2 DEF RecordsInOrder
  <2>1. i \in 1 .. N /\ frags'[i] = frags[i] /\ (Ends(i)' <=> Ends(i))
    BY <1>1, <1>2 DEF Ends
  <2>2. CASE j \in 1 .. N
    BY <1>2, <2>1, <2>2 DEF FragsInv, RecordsInOrder, N
  <2>3. CASE j = N + 1
    <3>1. frags[i].record \in 1 .. l /\ (Ends(i) => frags[i].record # l)
      BY <1>4, <2>1 DEF FragsInv, Pieces, N, l
    <3> QED BY <1>1, <1>2, <2>1, <2>3, <3>1
  <2> QED BY <1>1, <2>2, <2>3
<1>7. CallInv'
  <2> SUFFICES ASSUME left' >= 0
               PROVE  /\ \A i \in 1 .. N + 1 : frags'[i].record = l => ~Ends(i)'
                      /\ frags'[N + 1].record = l
                      /\ frags'[N + 1].from + frags'[N + 1].length = records'[l].length - left'
    BY <1>1, <1>2, <1>3 DEF CallInv
  <2>1. left # n /\ left' = left - n
    BY <1>3
  <2>2. \A i \in 1 .. N : frags'[i].record = l => ~Ends(i)'
    BY <1>2, <1>4 DEF Ends
  <2>3. \A i \in 1 .. N + 1 : frags'[i].record = l => ~Ends(i)'
    <3>1. \A i \in 1 .. N + 1 : i \in 1 .. N \/ i = N + 1
      BY <1>1
    <3>2. \A i : i = N + 1 => ~Ends(i)'
      BY <1>2, <2>1 DEF Ends
    <3> QED BY <2>2, <3>1, <3>2
  <2>4. records'[l].length = records[l].length
    BY <1>1, <1>3
  <2>5. frags'[N + 1].from + frags'[N + 1].length = records'[l].length - left'
    BY <1>1, <1>2, <2>1, <2>4
  <2> QED BY <1>2, <2>3, <2>5
<1> QED BY <1>5, <1>6, <1>7 DEF FragsInv

LEMMA FragsKept == FragsInv /\ UNCHANGED <<records, frags, left, begin>> => FragsInv'
BY DEF FragsInv, Pieces, RecordsInOrder, CallInv, Begins, Ends

(* Where the bytes are *)
At(p, i, m) == p \in 1 .. Len(file) /\ file[p] = Byte(i, m)

(* Every byte is one of a trailer or of a fragment. *)
Written ==
    \A p \in 1 .. Len(file) :
        file[p] = Zero \/ \E i \in 1 .. Len(frags) : \E m \in 1 .. Size(i) : At(p, i, m)

(* The fragments lie in their order, each in one piece ... *)
InOrder ==
    \A p, q \in 1 .. Len(file) : \A i, j \in 1 .. Len(frags) :
        \A m \in 1 .. Size(i), n \in 1 .. Size(j) :
            p < q /\ At(p, i, m) /\ At(q, j, n) => i <= j /\ (i = j => n - m = q - p)

(* ... that starts with the first byte ... *)
FromFirst ==
    \A p \in 1 .. Len(file) : \A i \in 1 .. Len(frags) : \A m \in 1 .. Size(i) :
        At(p, i, m) => \A n \in 1 .. m : At(p - m + n, i, n)

(* ... and is whole, when the record goes on behind it. *)
ContinuedWhole ==
    \A i, j \in 1 .. Len(frags) : \A n \in 1 .. Size(j) : \A p \in 1 .. Len(file) :
        i < j /\ ~Begins(i + 1) /\ At(p, j, n) => \E q \in 1 .. p - 1 : At(q, i, Size(i))

(* (While the file is written, that is so whatever is behind it.) *)
GoesOn(i) == IF i < Len(frags) THEN ~Begins(i + 1) ELSE left >= 0 /\ ~begin

WholeSoFar ==
    phase = "write" => \A i \in 1 .. Len(frags) :
                           GoesOn(i) => \E q \in 1 .. Len(file) : At(q, i, Size(i))

FileInv == Written /\ InOrder /\ FromFirst /\ ContinuedWhole /\ WholeSoFar

LEMMA FileInit == LogInit => FileInv
<1> SUFFICES ASSUME LogInit PROVE FileInv
  OBVIOUS
<1>1. file = <<>> /\ left = -1
  BY DEF LogInit
<1>2. Len(file) = 0
  BY <1>1
<1>3. frags = <<>>
  BY DEF LogInit
<1>4. Len(frags) = 0
  BY <1>3
<1> QED BY <1>1, <1>2, <1>4 DEF FileInv, Written, InOrder, FromFirst, ContinuedWhole, WholeSoFar

(* A step that writes nothing, or cuts the file *)
LEMMA FileCut ==
    ASSUME LTypeInv, FileInv, frags' = frags, Len(file') \in 0 .. Len(file),
           \A p \in 1 .. Len(file') : file'[p] = file[p], WholeSoFar'
    PROVE  FileInv'
<1>1. /\ \A p \in 1 .. Len(file') : p \in 1 .. Len(file)
      /\ \A p, i, m : At(p, i, m)' <=> p \in 1 .. Len(file') /\ At(p, i, m)
      /\ \A i : Size(i)' = Size(i) /\ (Begins(i)' <=> Begins(i))
  BY LengthTypes DEF At, Byte, Size, Begins
<1>2. Written'
  BY <1>1, LengthTypes DEF FileInv, Written
<1>3. InOrder'
  <2> SUFFICES ASSUME NEW p \in 1 .. Len(file'), NEW q \in 1 .. Len(file'),
                      NEW i \in 1 .. Len(frags), NEW j \in 1 .. Len(frags),
                      NEW m \in 1 .. Size(i), NEW n \in 1 .. Size(j),
                      p < q, At(p, i, m), At(q, j, n)
               PROVE  i <= j /\ (i = j => n - m = q - p)
    BY <1>1 DEF InOrder
  <2> QED BY <1>1 DEF FileInv, InOrder
<1>4. FromFirst'
  <2> SUFFICES ASSUME NEW p \in 1 .. Len(file'), NEW i \in 1 .. Len(frags), NEW m \in 1 .. Size(i),
                      At(p, i, m), NEW n \in 1 .. m
               PROVE  p - m + n \in 1 .. Len(file') /\ At(p - m + n, i, n)
    <3>1. FromFirst' <=> \A p \in 1 .. Len(file') : \A i \in 1 .. Len(frags) : \A m \in 1 .. Size(i) :
                            At(p, i, m)' => \A n \in 1 .. m : At(p - m + n, i, n)'
      BY <1>1 DEF FromFirst
    <3> QED BY <1>1, <3>1
  <2>1. p \in 1 .. Len(file) /\ At(p - m + n, i, n)
    BY <1>1 DEF FileInv, FromFirst
  <2>2. p - m + n \in 1 .. Len(file) /\ m \in Nat /\ n \in Nat
    BY <2>1, LengthTypes DEF At
  <2> QED BY <2>1, <2>2
<1>5. ContinuedWhole'
  <2> SUFFICES ASSUME NEW i \in 1 .. Len(frags), NEW j \in 1 .. Len(frags), NEW n \in 1 .. Size(j),
                      NEW p \in 1 .. Len(file'), i < j, ~Begins(i + 1), At(p, j, n)
               PROVE  \E q \in 1 .. p - 1 : At(q, i, Size(i))'
    BY <1>1 DEF ContinuedWhole
  <2>1. PICK q \in 1 .. p - 1 : At(q, i, Size(i))
    BY <1>1 DEF FileInv, ContinuedWhole
  <2>2. q \in 1 .. Len(file')
    BY <2>1
  <2>3. Size(i)' = Size(i)
    BY <1>1
  <2> QED BY <1>1, <2>1, <2>2, <2>3
<1> QED BY <1>2, <1>3, <1>4, <1>5 DEF FileInv

(* Where a byte of a fragment can be, when the file of L bytes has grown   *)
(* by t of a trailer and b of fragment N, which has s: the bytes there     *)
(* were are where they were.                                               *)
Laid(t, b, L, N, s) ==
    /\ Len(frags') = N /\ Len(file') = L + t + b /\ s > 0
    /\ \A i \in 1 .. N - 1 : /\ i \in 1 .. Len(frags) /\ Size(i) \in Nat /\ Size(i) > 0
                             /\ Size(i)' = Size(i) /\ (Begins(i)' <=> Begins(i))
    /\ Size(N)' = s /\ (Begins(N)' <=> begin)
    /\ \A p : \A i \in 1 .. N - 1 : \A m \in 1 .. Size(i) : At(p, i, m)' <=> At(p, i, m)
    /\ \A p : \A m \in 1 .. s : At(p, N, m)' <=> m <= b /\ p = L + t + m
    /\ \A p \in L + 1 .. L + t : file'[p] = Zero
    /\ \A p \in 1 .. L : file'[p] = file[p]

LEMMA EmittedBytes ==
    ASSUME LTypeInv, Written, EmitPhysicalRecord,
           NEW t \in Nat, NEW b \in Nat, Grown(t, b), b <= kHeaderSize + fragment_length,
           NEW L \in Nat, L = Len(file), NEW N \in Nat, N = Len(frags) + 1,
           NEW s \in Nat, s = kHeaderSize + fragment_length
    PROVE  Laid(t, b, L, N, s)
<1>5. /\ Len(frags') = N /\ \A i \in 1 .. N - 1 : frags'[i] = frags[i]
      /\ frags'[N].length = fragment_length
      /\ frags'[N].type \in {"full", "first"} <=> begin
  BY LengthTypes, EmittedFragment
<1>6. /\ \A i \in 1 .. N - 1 : Size(i)' = Size(i) /\ (Begins(i)' <=> Begins(i)) /\ Size(i) \in Nat /\ Size(i) > 0
      /\ Size(N)' = s /\ (Begins(N)' <=> begin) /\ 1 .. N - 1 = 1 .. Len(frags) /\ s > 0
  <2>1. 1 .. N - 1 = 1 .. Len(frags) /\ s > 0
    BY LengthTypes, FragmentFits, Sizes DEF EmitPhysicalRecord
  <2>2. \A i \in 1 .. N - 1 : Size(i)' = Size(i) /\ (Begins(i)' <=> Begins(i))
    BY <1>5 DEF Size, Begins
  <2>3. \A i \in 1 .. N - 1 : Size(i) \in Nat /\ Size(i) > 0
    BY <2>1, LengthTypes, Sizes
  <2>4. Size(N)' = s /\ (Begins(N)' <=> begin)
    BY <1>5 DEF Size, Begins
  <2> QED BY <2>1, <2>2, <2>3, <2>4
<1>7. /\ Len(file') = L + t + b
      /\ \A p \in 1 .. L : file'[p] = file[p]
      /\ \A p \in 1 .. t : file'[L + p] = Zero
      /\ \A p \in 1 .. b : file'[L + t + p] = Byte(N, p)
      /\ b <= s
  BY DEF Grown
<1>8. \A i, m : Byte(i, m)' = Byte(i, m)
  BY DEF Byte
(* where a byte of a fragment can be now *)
<1>old. ASSUME NEW p, NEW i \in 1 .. N - 1, NEW m \in 1 .. Size(i)
        PROVE  At(p, i, m)' <=> At(p, i, m)
  <2>1. m \in Nat /\ m > 0
    BY <1>6
  <2>2. CASE p \in 1 .. L
    BY <1>7, <1>8, <2>2 DEF At
  <2>3. CASE p \in L + 1 .. L + t
    <3>1. p - L \in 1 .. t /\ L + (p - L) = p /\ p \notin 1 .. L
      BY <2>3
    <3>2. file'[p] = Zero
      BY <1>7, <3>1
    <3> QED BY <1>8, <2>1, <3>1, <3>2, BytesDiffer DEF At
  <2>4. CASE p \in L + t + 1 .. L + t + b
    <3>1. p - L - t \in 1 .. b /\ L + t + (p - L - t) = p /\ p \notin 1 .. L
      BY <2>4
    <3>2. PICK k \in 1 .. b : k = p - L - t
      BY <3>1
    <3>a. k \in Nat /\ k > 0
      OBVIOUS
    <3>b. N # i
      OBVIOUS
    <3>3. file'[p] = Byte(N, k)
      BY <1>7, <3>1, <3>2
    <3>4. file'[p] # Byte(i, m)
      BY <2>1, <3>a, <3>b, <3>3, BytesDiffer
    <3> QED BY <1>8, <3>1, <3>4 DEF At
  <2>5. p \in 1 .. L + t + b => p \in 1 .. L \/ p \in L + 1 .. L + t \/ p \in L + t + 1 .. L + t + b
    OBVIOUS
  <2>6. CASE p \notin 1 .. L + t + b
    BY <1>7, <2>6 DEF At
  <2> QED BY <2>2, <2>3, <2>4, <2>5, <2>6
<1>new. ASSUME NEW p, NEW m \in 1 .. s
        PROVE  At(p, N, m)' <=> m <= b /\ p = L + t + m
  <2>1. m \in Nat /\ m > 0
    OBVIOUS
  <2>2. CASE p \in 1 .. L
    <3>1. p \in 1 .. Len(file) /\ p # L + t + m
      BY <2>1, <2>2
    <3>2. file[p] = Zero \/ \E i \in 1 .. N - 1 : \E k \in 1 .. Size(i) : file[p] = Byte(i, k)
      BY <1>6, <3>1 DEF Written, At
    <3>3. file[p] # Byte(N, m)
      <4>1. ASSUME NEW i \in 1 .. N - 1, NEW k \in 1 .. Size(i), file[p] = Byte(i, k)
            PROVE  file[p] # Byte(N, m)
        <5>1. k \in Nat /\ k > 0 /\ i # N
          BY <1>6
        <5> QED BY <2>1, <4>1, <5>1, BytesDiffer
      <4> QED BY <2>1, <3>2, <4>1, BytesDiffer
    <3> QED BY <1>7, <1>8, <2>2, <3>1, <3>3 DEF At
  <2>3. CASE p \in L + 1 .. L + t
    <3>1. p - L \in 1 .. t /\ L + (p - L) = p /\ p # L + t + m
      BY <2>1, <2>3
    <3>2. file'[p] = Zero
      BY <1>7, <2>3, <3>1
    <3> QED BY <1>8, <2>1, <3>1, <3>2, BytesDiffer DEF At
  <2>4. CASE p \in L + t + 1 .. L + t + b
    <3>1. p - L - t \in 1 .. b /\ L + t + (p - L - t) = p /\ p \in 1 .. L + t + b
      BY <2>4
    <3>2. file'[p] = Byte(N, p - L - t) /\ p - L - t \in Nat /\ p - L - t > 0
      <4>1. p - L - t \in Nat /\ p - L - t > 0
        BY <3>1
      <4>2. file'[p] = Byte(N, p - L - t)
        BY <1>7, <3>1
      <4> QED BY <4>1, <4>2
    <3>3. file'[p] = Byte(N, m) <=> m = p - L - t
      BY <2>1, <3>2, BytesDiffer
    <3>4. m = p - L - t <=> m <= b /\ p = L + t + m
      BY <2>1, <2>4
    <3> QED BY <1>7, <1>8, <3>1, <3>3, <3>4 DEF At
  <2>5. p \in 1 .. L + t + b => p \in 1 .. L \/ p \in L + 1 .. L + t \/ p \in L + t + 1 .. L + t + b
    OBVIOUS
  <2>6. CASE p \notin 1 .. L + t + b
    <3>1. ~(m <= b /\ p = L + t + m)
      BY <2>1, <2>6
    <3> QED BY <1>7, <2>6, <3>1 DEF At
  <2> QED BY <2>2, <2>3, <2>4, <2>5, <2>6
<1>zero. ASSUME NEW p \in L + 1 .. L + t PROVE file'[p] = Zero
  <2>1. p - L \in 1 .. t /\ L + (p - L) = p
    OBVIOUS
  <2> QED BY <1>7, <2>1
<1> QED BY <1>5, <1>6, <1>7, <1>old, <1>new, <1>zero DEF Laid

LEMMA EmitFile == LTypeInv /\ FragsInv /\ FileInv /\ EmitPhysicalRecord => FileInv'
<1> SUFFICES ASSUME LTypeInv, FragsInv, FileInv, EmitPhysicalRecord PROVE FileInv'
  OBVIOUS
<1>1. PICK t, b \in Nat : /\ Grown(t, b) /\ b <= kHeaderSize + fragment_length
                          /\ left' >= 0 => b = kHeaderSize + fragment_length
  BY Emitted
<1>2. PICK L \in Nat : L = Len(file)
  BY LengthTypes
<1>3. PICK N \in Nat : N = Len(frags) + 1
  BY LengthTypes
<1>4. PICK s \in Nat : s = kHeaderSize + fragment_length
  <2>1. left >= 0
    BY DEF EmitPhysicalRecord
  <2>2. kHeaderSize + fragment_length \in Nat
    BY <2>1, FragmentFits, Sizes
  <2> QED BY <2>2
<1>5. /\ Len(frags') = N /\ Len(file') = L + t + b /\ s > 0 /\ Written
      /\ \A i \in 1 .. N - 1 : /\ i \in 1 .. Len(frags) /\ Size(i) \in Nat /\ Size(i) > 0
                               /\ Size(i)' = Size(i) /\ (Begins(i)' <=> Begins(i))
      /\ Size(N)' = s /\ (Begins(N)' <=> begin)
      /\ \A p : \A i \in 1 .. N - 1 : \A m \in 1 .. Size(i) : At(p, i, m)' <=> At(p, i, m)
      /\ \A p : \A m \in 1 .. s : At(p, N, m)' <=> m <= b /\ p = L + t + m
      /\ \A p \in L + 1 .. L + t : file'[p] = Zero
      /\ \A p \in 1 .. L : file'[p] = file[p]
  <2>1. Written /\ Grown(t, b) /\ b <= kHeaderSize + fragment_length
    BY <1>1 DEF FileInv
  <2>2. Laid(t, b, L, N, s)
    BY <1>2, <1>3, <1>4, <2>1, EmittedBytes
  <2> QED BY <2>1, <2>2 DEF Laid
<1>6. \A i \in 1 .. N : i \in 1 .. N - 1 \/ i = N
  OBVIOUS
<1>7. \A p, i, m : At(p, i, m) => p \in 1 .. L
  BY <1>2 DEF At
<1>8. Written'
  <2> SUFFICES ASSUME NEW p \in 1 .. L + t + b
               PROVE  file'[p] = Zero \/ \E i \in 1 .. N : \E m \in 1 .. Size(i)' : At(p, i, m)'
    BY <1>5 DEF Written
  <2>1. CASE p \in 1 .. L
    <3>1. file[p] = Zero \/ \E i \in 1 .. Len(frags) : \E m \in 1 .. Size(i) : At(p, i, m)
      BY <1>2, <2>1 DEF FileInv, Written
    <3>2. ASSUME NEW i \in 1 .. Len(frags), NEW m \in 1 .. Size(i), At(p, i, m)
          PROVE  i \in 1 .. N /\ m \in 1 .. Size(i)' /\ At(p, i, m)'
      <4>1. i \in 1 .. N - 1 /\ i \in 1 .. N
        BY <1>3, LengthTypes
      <4> QED BY <1>5, <3>2, <4>1
    <3> QED BY <1>5, <2>1, <3>1, <3>2
  <2>2. CASE p \in L + 1 .. L + t
    BY <1>5, <2>2
  <2>3. CASE p \in L + t + 1 .. L + t + b
    <3>1. p - L - t \in 1 .. s /\ p - L - t <= b /\ p = L + t + (p - L - t)
      BY <1>1, <1>4, <2>3
    <3>2. At(p, N, p - L - t)' /\ N \in 1 .. N
      <4> DEFINE k == p - L - t
      <4>1. k \in 1 .. s /\ k <= b /\ p = L + t + k
        BY <3>1
      <4> HIDE DEF k
      <4>2. At(p, N, k)'
        BY <1>5, <4>1
      <4> QED BY <1>3, <4>2, LengthTypes DEF k
    <3> QED BY <1>5, <3>1, <3>2
  <2> QED BY <2>1, <2>2, <2>3
<1>9. InOrder'
  <2> SUFFICES ASSUME NEW p \in 1 .. L + t + b, NEW q \in 1 .. L + t + b, NEW i \in 1 .. N, NEW j \in 1 .. N,
                      NEW m \in 1 .. Size(i)', NEW n \in 1 .. Size(j)', p < q, At(p, i, m)', At(q, j, n)'
               PROVE  i <= j /\ (i = j => n - m = q - p)
    BY <1>5 DEF InOrder
  <2>1. CASE i \in 1 .. N - 1 /\ j \in 1 .. N - 1
    <3>1. At(p, i, m) /\ At(q, j, n) /\ m \in 1 .. Size(i) /\ n \in 1 .. Size(j)
      BY <1>5, <2>1
    <3>2. /\ i \in 1 .. Len(frags) /\ j \in 1 .. Len(frags)
          /\ p \in 1 .. Len(file) /\ q \in 1 .. Len(file)
      BY <1>2, <1>5, <1>7, <2>1, <3>1
    <3>3. InOrder
      BY DEF FileInv
    <3> QED BY <3>1, <3>2, <3>3 DEF InOrder
  <2>2. CASE i \in 1 .. N - 1 /\ j = N
    BY <2>2
  <2>3. CASE i = N /\ j \in 1 .. N - 1
    <3>1. p = L + t + m /\ m \in Nat /\ At(q, j, n)
      BY <1>5, <2>3
    <3>2. q \in 1 .. L
      BY <1>7, <3>1
    <3> QED BY <3>1, <3>2
  <2>4. CASE i = N /\ j = N
    <3>1. p = L + t + m /\ q = L + t + n /\ m \in Nat /\ n \in Nat
      BY <1>5, <2>4
    <3> QED BY <2>4, <3>1
  <2> QED BY <1>6, <2>1, <2>2, <2>3, <2>4
<1>10. FromFirst'
  <2> SUFFICES ASSUME NEW p \in 1 .. L + t + b, NEW i \in 1 .. N, NEW m \in 1 .. Size(i)', At(p, i, m)',
                      NEW n \in 1 .. m
               PROVE  At(p - m + n, i, n)'
    <3>1. FromFirst' <=> \A p \in 1 .. L + t + b : \A i \in 1 .. N : \A m \in 1 .. Size(i)' :
                            At(p, i, m)' => \A n \in 1 .. m : At(p - m + n, i, n)'
      BY <1>5 DEF FromFirst
    <3> QED BY <3>1
  <2>0. PICK k : k = p - m + n
    OBVIOUS
  <2>1. CASE i \in 1 .. N - 1
    <3>1. At(p, i, m) /\ m \in 1 .. Size(i) /\ p \in 1 .. Len(file)
      BY <1>2, <1>5, <1>7, <2>1
    <3>2. At(p - m + n, i, n) /\ n \in 1 .. Size(i)
      BY <1>5, <2>1, <3>1 DEF FileInv, FromFirst
    <3>3. At(k, i, n)
      BY <2>0, <3>2
    <3>4. At(k, i, n)'
      BY <1>5, <2>1, <3>2, <3>3
    <3> QED BY <2>0, <3>4
  <2>2. CASE i = N
    <3>1. m \in 1 .. s /\ m <= b /\ p = L + t + m
      BY <1>5, <2>2
    <3>2. n \in 1 .. s /\ n <= b /\ k = L + t + n
      BY <2>0, <3>1
    <3>3. At(k, i, n)'
      BY <1>5, <2>2, <3>2
    <3> QED BY <2>0, <3>3
  <2> QED BY <1>6, <2>1, <2>2
(* Every fragment that goes on is whole in the file as it was. *)
<1>11. ASSUME NEW i \in 1 .. N - 1, ~Begins(i + 1)'
       PROVE  \E q \in 1 .. L : At(q, i, Size(i))
  <2>1. GoesOn(i)
    <3>1. CASE i + 1 \in 1 .. N - 1
      BY <1>3, <1>5, <1>11, <3>1, LengthTypes DEF GoesOn
    <3>2. CASE i + 1 = N
      BY <1>3, <1>5, <1>11, <3>2, LengthTypes DEF GoesOn, EmitPhysicalRecord
    <3> QED BY <3>1, <3>2
  <2> QED BY <1>2, <1>5, <2>1 DEF FileInv, WholeSoFar, EmitPhysicalRecord
<1>12. \A q : \A i \in 1 .. N - 1 : At(q, i, Size(i)) => At(q, i, Size(i))'
  <2> SUFFICES ASSUME NEW q, NEW i \in 1 .. N - 1, At(q, i, Size(i)) PROVE At(q, i, Size(i))'
    OBVIOUS
  <2>1. PICK k : k = Size(i)
    OBVIOUS
  <2>2. k \in 1 .. Size(i) /\ At(q, i, k)
    BY <1>5, <2>1
  <2>3. At(q, i, k)' /\ Size(i)' = k
    BY <1>5, <2>1, <2>2
  <2> QED BY <2>3
<1>13. ContinuedWhole'
  <2> SUFFICES ASSUME NEW i \in 1 .. N, NEW j \in 1 .. N, NEW n \in 1 .. Size(j)',
                      NEW p \in 1 .. L + t + b, i < j, ~Begins(i + 1)', At(p, j, n)'
               PROVE  \E q \in 1 .. p - 1 : At(q, i, Size(i))'
    BY <1>5 DEF ContinuedWhole
  <2>1. i \in 1 .. N - 1
    OBVIOUS
  <2>2. CASE j \in 1 .. N - 1
    <3>1. At(p, j, n) /\ n \in 1 .. Size(j) /\ p \in 1 .. Len(file) /\ j \in 1 .. Len(frags) /\ i \in 1 .. Len(frags)
      BY <1>2, <1>5, <1>7, <2>1, <2>2
    <3>2. i + 1 \in 1 .. N - 1 /\ ~Begins(i + 1)
      BY <1>5, <2>1, <2>2
    <3>3. PICK q \in 1 .. p - 1 : At(q, i, Size(i))
      BY <3>1, <3>2 DEF FileInv, ContinuedWhole
    <3> QED BY <1>12, <2>1, <3>3
  <2>3. CASE j = N
    <3>1. p = L + t + n /\ n \in Nat /\ n > 0
      BY <1>5, <2>3
    <3>2. PICK q \in 1 .. L : At(q, i, Size(i))
      BY <1>11, <2>1
    <3>3. q \in 1 .. p - 1
      BY <3>1, <3>2
    <3> QED BY <1>12, <2>1, <3>2, <3>3
  <2> QED BY <1>6, <2>2, <2>3
<1>14. WholeSoFar'
  <2> SUFFICES ASSUME NEW i \in 1 .. N, GoesOn(i)'
               PROVE  \E q \in 1 .. L + t + b : At(q, i, Size(i))'
    BY <1>5 DEF WholeSoFar
  <2>1. CASE i \in 1 .. N - 1
    <3>1. ~Begins(i + 1)'
      BY <1>5, <2>1 DEF GoesOn
    <3>2. PICK q \in 1 .. L : At(q, i, Size(i))
      BY <1>11, <2>1, <3>1
    <3>3. q \in 1 .. L + t + b
      BY <3>2
    <3> QED BY <1>12, <2>1, <3>2, <3>3
  <2>2. CASE i = N
    <3>1. left' >= 0
      BY <1>5, <2>2 DEF GoesOn
    <3>2. b = s
      BY <1>1, <1>4, <3>1
    <3>3. PICK k, q : k = s /\ q = L + t + s
      OBVIOUS
    <3>4. At(q, N, k)' /\ Size(N)' = k /\ q \in 1 .. L + t + b
      BY <1>5, <3>2, <3>3
    <3> QED BY <2>2, <3>4
  <2> QED BY <1>6, <2>1, <2>2
<1> QED BY <1>8, <1>9, <1>10, <1>13, <1>14 DEF FileInv

LEMMA AddRecordFile ==
    ASSUME LTypeInv, FileInv, NEW n \in Lengths, AddRecord(n)
    PROVE  FileInv'
<1>1. frags' = frags /\ file' = file /\ begin' = TRUE /\ phase' = phase /\ phase = "write" /\ left = -1
  BY DEF AddRecord
<1>2. WholeSoFar'
  <2> SUFFICES ASSUME NEW i \in 1 .. Len(frags), GoesOn(i)'
               PROVE  \E q \in 1 .. Len(file) : At(q, i, Size(i))
    BY <1>1 DEF WholeSoFar, At, Byte, Size
  <2>1. GoesOn(i)
    BY <1>1 DEF GoesOn, Begins
  <2> QED BY <1>1, <2>1 DEF FileInv, WholeSoFar
<1> QED BY <1>1, <1>2, FileCut, LengthTypes

LEMMA CrashFile == LTypeInv /\ FileInv /\ (Crash \/ ProcessEnds) => FileInv'
<1> SUFFICES ASSUME LTypeInv, FileInv, Crash \/ ProcessEnds PROVE FileInv'
  OBVIOUS
<1>1. frags' = frags /\ phase' = "read"
  BY DEF Crash, ProcessEnds, writerVars
<1>2. Len(file') \in 0 .. Len(file) /\ \A p \in 1 .. Len(file') : file'[p] = file[p]
  <2>1. CASE Crash
    <3>1. PICK n \in 0 .. Len(file) : file' = SubSeq(file, 1, n)
      BY <2>1 DEF Crash
    <3>2. file \in Seq(AnyByte)
      BY DEF LTypeInv, WriterTypeOK
    <3> QED BY <3>1, <3>2, PrefixIs
  <2>2. CASE ProcessEnds
    BY <2>2, LengthTypes DEF ProcessEnds, writerVars
  <2> QED BY <2>1, <2>2
<1>3. WholeSoFar'
  BY <1>1 DEF WholeSoFar
<1> QED BY <1>1, <1>2, <1>3, FileCut

LEMMA ReadFile == LTypeInv /\ FileInv /\ UNCHANGED writerVars /\ phase # "write" /\ phase' # "write" => FileInv'
<1> SUFFICES ASSUME LTypeInv, FileInv, UNCHANGED writerVars, phase' # "write" PROVE FileInv'
  OBVIOUS
<1>1. frags' = frags /\ file' = file
  BY DEF writerVars
<1>2. WholeSoFar'
  BY DEF WholeSoFar
<1> QED BY <1>1, <1>2, FileCut, LengthTypes

-----------------------------------------------------------------------------
(* The reader *)

(* How far the reader has come: the buffer is what follows. *)
Place == pos - Len(buffer)

(* A header that is whole is one of a fragment, and lies in the file. *)
LEMMA FrontIs ==
    ASSUME LTypeInv, FileInv, Len(buffer) >= kHeaderSize, HeaderWhole
    PROVE  \E j \in 1 .. Len(frags) :
             /\ Fragment = frags[j] /\ At(Place + 1, j, 1)
             /\ ~TooLong <=> Size(j) <= Len(buffer)
             /\ ~TooLong /\ ChecksumMatches => At(Place + Size(j), j, Size(j))
<1>1. /\ Len(buffer) \in Nat /\ pos \in Nat /\ Len(buffer) <= pos /\ pos <= Len(file) /\ Len(file) \in Nat
      /\ \A k \in 1 .. Len(buffer) : buffer[k] = file[Place + k]
  BY LengthTypes DEF LTypeInv, ReaderTypeOK, Place
<1>2. Place \in Nat /\ \A k \in 1 .. Len(buffer) : Place + k \in 1 .. Len(file)
  BY <1>1 DEF Place
<1>3. 1 \in 1 .. Len(buffer) /\ 1 \in 1 .. kHeaderSize
  BY <1>1, Sizes
<1> DEFINE j == buffer[1][2]
<1>4. buffer[1] = Byte(j, 1)
  BY <1>3, Sizes DEF HeaderWhole, Byte
<1>5. file[Place + 1] = Byte(j, 1) /\ Place + 1 \in 1 .. Len(file)
  BY <1>1, <1>2, <1>3, <1>4
<1> HIDE DEF j
<1>6. j \in 1 .. Len(frags)
  <2>1. file[Place + 1] = Zero \/ \E i \in 1 .. Len(frags) : \E m \in 1 .. Size(i) : file[Place + 1] = Byte(i, m)
    BY <1>5 DEF FileInv, Written, At
  <2>2. file[Place + 1] # Zero
    BY <1>5, BytesDiffer
  <2>3. PICK i \in 1 .. Len(frags) : \E m \in 1 .. Size(i) : file[Place + 1] = Byte(i, m)
    BY <2>1, <2>2
  <2>4. PICK m \in 1 .. Size(i) : file[Place + 1] = Byte(i, m)
    BY <2>3
  <2>5. m \in Nat /\ m > 0
    BY LengthTypes
  <2>6. i = j
    BY <1>5, <2>4, <2>5, BytesDiffer
  <2> QED BY <2>6
<1>7. At(Place + 1, j, 1)
  BY <1>5 DEF At
<1>8. Fragment = frags[j] /\ Fragment.length = frags[j].length /\ frags[j].length \in Nat /\ Size(j) \in Nat
  BY <1>6, LengthTypes DEF Fragment, j
<1>9. ~TooLong <=> Size(j) <= Len(buffer)
  BY <1>1, <1>8, Sizes DEF TooLong, Size
<1>10. ASSUME ~TooLong, ChecksumMatches PROVE At(Place + Size(j), j, Size(j))
  <2>1. Size(j) \in 1 .. Len(buffer)
    BY <1>1, <1>6, <1>9, <1>10, LengthTypes, Sizes
  <2>2. buffer[Size(j)] = Byte(j, Size(j))
    <3>1. CASE frags[j].length = 0
      <4>1. Size(j) = kHeaderSize /\ kHeaderSize \in 1 .. kHeaderSize
        BY <3>1, Sizes DEF Size
      <4>2. buffer[kHeaderSize] = <<"header", j, kHeaderSize>>
        BY <4>1 DEF HeaderWhole, j
      <4> QED BY <4>1, <4>2, Sizes DEF Byte
    <3>2. CASE frags[j].length # 0
      <4> DEFINE k == frags[j].length
      <4>1. k \in 1 .. Fragment.length /\ Size(j) = kHeaderSize + k /\ Size(j) - kHeaderSize = k /\ ~(Size(j) <= kHeaderSize)
        BY <1>8, <3>2, Sizes DEF Size
      <4>2. buffer[kHeaderSize + k] = <<"data", j, k>>
        BY <1>10, <4>1 DEF ChecksumMatches, j
      <4> QED BY <4>1, <4>2 DEF Byte
    <3> QED BY <3>1, <3>2
  <2> QED BY <1>1, <1>2, <2>1, <2>2 DEF At
<1> QED BY <1>6, <1>7, <1>8, <1>9, <1>10

(* What a step does when the buffer is dropped *)
Dropped ==
    /\ buffer' = <<>> /\ pos' = pos /\ eof' = eof /\ out' = out
    /\ \/ phase' = "done" /\ reports' = reports /\ inFragmented' = inFragmented
       \/ phase' = phase /\ reports' \in Nat /\ inFragmented' = FALSE

LEMMA Drops ==
    ASSUME LTypeInv, ReadEof \/ ReadGarbage \/ ReadTooLong \/ ReadMismatch
    PROVE  Dropped
<1>1. Stop => Dropped
  BY DEF Stop, Dropped
<1>2. \A told \in BOOLEAN : BadRecord(told) => Dropped
  <2> SUFFICES ASSUME NEW told \in BOOLEAN, BadRecord(told) PROVE Dropped
    OBVIOUS
  <2>1. reports' = reports + (IF told THEN 1 ELSE 0) + (IF inFragmented THEN 1 ELSE 0) /\ reports \in Nat
    BY DEF BadRecord, LTypeInv, ReaderTypeOK
  <2>2. reports' \in Nat
    BY <2>1
  <2> QED BY <2>2 DEF BadRecord, Dropped
<1>3. ZeroHeader \in BOOLEAN
  BY DEF ZeroHeader
<1> QED BY <1>1, <1>2, <1>3 DEF ReadEof, ReadGarbage, ReadTooLong, ReadMismatch

(* The switch of ReadRecord, case by case *)
LEMMA Assembled ==
    ASSUME LTypeInv, NEW f \in Frag, Assemble(f)
    PROVE  /\ reports' \in Nat /\ inFragmented' \in BOOLEAN
           /\ f.type = "full" => /\ out' = Append(out, Payload(f)) /\ ~inFragmented'
                                 /\ ~inFragmented => reports' = reports
           /\ f.type = "first" => /\ out' = out /\ scratch' = Payload(f) /\ inFragmented'
                                  /\ ~inFragmented => reports' = reports
           /\ f.type = "middle" /\ inFragmented =>
                /\ out' = out /\ scratch' = scratch \o Payload(f) /\ inFragmented' /\ reports' = reports
           /\ f.type = "middle" /\ ~inFragmented => out' = out /\ ~inFragmented'
           /\ f.type = "last" /\ inFragmented =>
                out' = Append(out, scratch \o Payload(f)) /\ ~inFragmented' /\ reports' = reports
           /\ f.type = "last" /\ ~inFragmented => out' = out /\ ~inFragmented'
<1>1. reports \in Nat /\ inFragmented \in BOOLEAN
  BY DEF LTypeInv, ReaderTypeOK
<1>2. f.type \in {"full", "first", "middle", "last"}
  BY DEF Frag, Types
<1> DEFINE cut == inFragmented /\ scratch # <<>>
<1>3. CASE f.type = "full"
  <2>1. Return(Payload(f)) /\ reports' = reports + (IF cut THEN 1 ELSE 0)
    BY <1>3 DEF Assemble
  <2>2. reports' \in Nat /\ (~inFragmented => reports' = reports)
    BY <1>1, <2>1
  <2>3. out' = Append(out, Payload(f)) /\ inFragmented' = FALSE
    BY <2>1 DEF Return
  <2> QED BY <1>3, <2>2, <2>3
<1>4. CASE f.type = "first"
  <2>1. scratch' = Payload(f) /\ inFragmented' = TRUE /\ reports' = reports + (IF cut THEN 1 ELSE 0) /\ out' = out
    BY <1>4 DEF Assemble
  <2> QED BY <1>1, <1>4, <2>1
<1>5. CASE f.type = "middle"
  <2>1. /\ scratch' = IF inFragmented THEN scratch \o Payload(f) ELSE scratch
        /\ reports' = reports + (IF inFragmented THEN 0 ELSE 1)
        /\ inFragmented' = inFragmented /\ out' = out
    BY <1>5 DEF Assemble
  <2>2. reports' \in Nat /\ (inFragmented => reports' = reports)
    BY <1>1, <2>1
  <2>3. inFragmented' \in BOOLEAN /\ (inFragmented' <=> inFragmented)
    BY <1>1, <2>1, Zenon
  <2>4. inFragmented => scratch' = scratch \o Payload(f)
    BY <2>1
  <2> QED BY <1>5, <2>1, <2>2, <2>3, <2>4
<1>6. CASE f.type = "last" /\ inFragmented
  <2>1. Return(scratch \o Payload(f)) /\ reports' = reports
    BY <1>6 DEF Assemble
  <2> QED BY <1>1, <1>6, <2>1 DEF Return
<1>7. CASE f.type = "last" /\ ~inFragmented
  <2>1. reports' = reports + 1 /\ inFragmented' = inFragmented /\ out' = out
    BY <1>7 DEF Assemble
  <2>2. inFragmented' \in BOOLEAN /\ ~inFragmented'
    BY <1>1, <1>7, <2>1, Zenon
  <2>3. reports' \in Nat
    BY <1>1, <2>1
  <2> QED BY <1>7, <2>1, <2>2, <2>3
<1> QED BY <1>2, <1>3, <1>4, <1>5, <1>6, <1>7

LEMMA ReadType == LTypeInv /\ FileInv /\ Read => LTypeInv' /\ UNCHANGED writerVars /\ phase = "read" /\ phase' # "write"
<1> SUFFICES ASSUME LTypeInv, FileInv, Read
             PROVE  LTypeInv' /\ UNCHANGED writerVars /\ phase = "read" /\ phase' # "write"
  OBVIOUS
<1>1. UNCHANGED writerVars /\ phase = "read"
  BY DEF Read, ReadBlock, ReadEof, ReadGarbage, ReadTooLong, ReadMismatch, ReadFragment
<1>2. phase' \in {"read", "done"}
  BY <1>1, Drops DEF Read, ReadBlock, Dropped, ReadFragment
<1>3. WriterTypeOK'
  BY <1>1, <1>2 DEF LTypeInv, WriterTypeOK, writerVars
<1>4. /\ pos \in Nat /\ pos <= Len(file) /\ Len(file) \in Nat /\ buffer \in Seq(AnyByte) /\ Len(buffer) \in Nat
      /\ Len(buffer) <= pos /\ Len(buffer) <= kBlockSize
      /\ \A k \in 1 .. Len(buffer) : buffer[k] = file[pos - Len(buffer) + k]
      /\ eof \in BOOLEAN /\ inFragmented \in BOOLEAN /\ reports \in Nat /\ file' = file
  BY <1>1, LengthTypes DEF LTypeInv, ReaderTypeOK, writerVars
<1>5. CASE ReadBlock
  <2>1. inFragmented' = inFragmented /\ reports' = reports
    BY <1>5 DEF ReadBlock
  <2>2. \A k \in 1 .. Len(buffer') : buffer'[k] = file'[pos' - Len(buffer') + k]
    <3>1. pos' - Len(buffer') = pos
      BY <1>4, <1>5, BlockRead
    <3> QED BY <1>4, <1>5, <3>1, BlockRead
  <2>3. ReaderTypeOK'
    BY <1>4, <1>5, <2>1, <2>2, BlockRead, Sizes DEF ReaderTypeOK
  <2> QED BY <1>1, <1>2, <1>3, <2>3 DEF LTypeInv
<1>6. CASE Dropped
  <2>1. buffer' \in Seq(AnyByte) /\ Len(buffer') = 0 /\ pos' = pos /\ eof' = eof
    BY <1>6 DEF Dropped
  <2>2. inFragmented' \in BOOLEAN
    BY <1>4, <1>6, Zenon DEF Dropped
  <2>3. reports' \in Nat
    BY <1>4, <1>6 DEF Dropped
  <2>4. eof' \in BOOLEAN
    BY <1>4, <2>1, Zenon
  <2>5. ReaderTypeOK'
    BY <1>4, <2>1, <2>2, <2>3, <2>4, Sizes DEF ReaderTypeOK
  <2> QED BY <1>1, <1>2, <1>3, <2>5 DEF LTypeInv
<1>7. CASE ReadFragment
  <2>1. Fragment \in Frag /\ Assemble(Fragment)
    BY <1>7, FrontIs, LengthTypes DEF ReadFragment
  <2>2. reports' \in Nat /\ inFragmented' \in BOOLEAN
    BY <2>1, Assembled
  <2>3. PICK n \in Nat : /\ n <= Len(buffer) /\ buffer' \in Seq(AnyByte) /\ Len(buffer') = Len(buffer) - n
                         /\ \A k \in 1 .. Len(buffer') : buffer'[k] = buffer[n + k]
                         /\ pos' = pos /\ eof' = eof
    BY <1>7, <2>1, FragmentRead
  <2>4. eof' \in BOOLEAN
    BY <1>4, <2>3, Zenon
  <2>5. \A k \in 1 .. Len(buffer') : buffer'[k] = file'[pos' - Len(buffer') + k]
    <3> SUFFICES ASSUME NEW k \in 1 .. Len(buffer') PROVE buffer'[k] = file[pos - Len(buffer') + k]
      BY <1>4, <2>3
    <3>1. n + k \in 1 .. Len(buffer) /\ pos - Len(buffer') + k = pos - Len(buffer) + (n + k)
      BY <1>4, <2>3
    <3> QED BY <1>4, <2>3, <3>1
  <2>6. ReaderTypeOK'
    BY <1>4, <2>2, <2>3, <2>4, <2>5, Sizes DEF ReaderTypeOK
  <2> QED BY <1>1, <1>2, <1>3, <2>6 DEF LTypeInv
<1> QED BY <1>1, <1>2, <1>5, <1>6, <1>7, Drops DEF Read

(* The inductive invariant, so far *)
LogInv == LTypeInv /\ FragsInv /\ FileInv

LEMMA LogInvNext == LogInv /\ [LogNext]_logVars => LogInv'
<1> SUFFICES ASSUME LogInv, [LogNext]_logVars PROVE LogInv'
  OBVIOUS
<1>1. LTypeInv /\ FragsInv /\ FileInv
  BY DEF LogInv
<1>2. ASSUME NEW n \in Lengths, AddRecord(n) PROVE LogInv'
  BY <1>1, <1>2, AddRecordType, AddRecordFrags, AddRecordFile DEF LogInv
<1>3. CASE EmitPhysicalRecord
  BY <1>1, <1>3, EmitType, EmitFrags, EmitFile DEF LogInv
<1>4. CASE Crash \/ ProcessEnds
  <2>1. UNCHANGED <<records, frags, left, begin>>
    BY <1>4 DEF Crash, ProcessEnds, writerVars
  <2> QED BY <1>1, <1>4, <2>1, CrashType, CrashFile, FragsKept DEF LogInv
<1>5. CASE Read
  <2>1. LTypeInv' /\ UNCHANGED writerVars /\ phase = "read" /\ phase' # "write"
    BY <1>1, <1>5, ReadType
  <2>2. FileInv'
    BY <1>1, <2>1, ReadFile
  <2>3. UNCHANGED <<records, frags, left, begin>>
    BY <2>1 DEF writerVars
  <2> QED BY <1>1, <2>1, <2>2, <2>3, FragsKept DEF LogInv
<1>6. CASE UNCHANGED logVars
  <2>1. LTypeInv'
    BY <1>1, <1>6 DEF logVars, writerVars, readerVars, LTypeInv, WriterTypeOK, ReaderTypeOK, NothingRead
  <2>2. FragsInv'
    BY <1>1, <1>6, FragsKept DEF logVars, writerVars
  <2>3. FileInv'
    <3>1. UNCHANGED <<phase, file, frags, left, begin>>
      BY <1>6 DEF logVars, writerVars
    <3>2. WholeSoFar'
      BY <1>1, <3>1 DEF FileInv, WholeSoFar, GoesOn, At, Byte, Size, Begins
    <3>3. Len(file') \in 0 .. Len(file) /\ \A p \in 1 .. Len(file') : file'[p] = file[p]
      BY <1>1, <3>1, LengthTypes
    <3> QED BY <1>1, <3>1, <3>2, <3>3, FileCut
  <2> QED BY <2>1, <2>2, <2>3 DEF LogInv
<1> QED BY <1>2, <1>3, <1>4, <1>5, <1>6 DEF LogNext

LEMMA LogInvAlways == LogSpec => []LogInv
<1>1. LogInit => LogInv
  BY LTypeInit, FragsInit, FileInit DEF LogInv
<1> QED BY <1>1, LogInvNext, PTL DEF LogSpec

(* The writer's offset stays in its block and what is left to write in its *)
(* record, the reader's place in the file; a header that the reader takes  *)
(* for whole is one of a fragment that was emitted.                        *)
THEOREM LogTypeCorrect == LogSpec => []LogTypeOK
<1>1. LogInv => LogTypeOK
  <2> SUFFICES ASSUME LTypeInv PROVE LogTypeOK
    BY DEF LogInv
  <2>1. ToSet(file) \cup ToSet(buffer) \subseteq AnyByte
    BY DEF LTypeInv, WriterTypeOK, ReaderTypeOK, ToSet
  <2>2. left \in -1 .. IF records = <<>> THEN 0 ELSE Last(records).length
    <3>1. CASE left >= 0
      BY <3>1, FragmentFits DEF Last, LTypeInv, WriterTypeOK
    <3>2. CASE left = -1
      <4>1. CASE records = <<>>
        BY <3>2, <4>1
      <4>2. CASE records # <<>>
        <5>1. Len(records) \in 1 .. Len(records)
          BY <4>2 DEF LTypeInv, WriterTypeOK
        <5> QED BY <3>2, <4>2, <5>1, LengthTypes DEF Last
      <4> QED BY <4>1, <4>2
    <3> QED BY <3>1, <3>2 DEF LTypeInv, WriterTypeOK
  <2>3. {begin, eof, inFragmented} \subseteq BOOLEAN
    BY Zenon DEF LTypeInv, WriterTypeOK, ReaderTypeOK
  <2> QED BY <2>1, <2>2, <2>3 DEF LTypeInv, WriterTypeOK, ReaderTypeOK, LogTypeOK, AnyByte, Rec, Frag
<1> QED BY <1>1, LogInvAlways, PTL

-----------------------------------------------------------------------------
(* The inductive invariant, third part: what the reader has returned, and  *)
(* what it is putting together.                                            *)

(* The record of fragment i, up to the end of this fragment *)
Upto(i) == [k \in 1 .. frags[i].from + frags[i].length |-> <<frags[i].record, k>>]

(* scratch is a record up to the end of fragment i, and too little of the  *)
(* file has been passed since for a fragment in between.                   *)
Building(i) ==
    /\ ~Ends(i) /\ scratch = Upto(i)
    /\ \E e \in 1 .. Place :
         /\ At(e, i, Size(i))
         /\ e = Place \/ (Place - e < kHeaderSize /\ (eof \/ Len(buffer) >= kHeaderSize))

(* g says which records have been returned: each whole, in their order,    *)
(* and none that can be met again.                                         *)
Returned(g) ==
    /\ g \in [1 .. Len(out) -> 1 .. Len(records)]
    /\ \A h, i \in 1 .. Len(out) : h < i => g[h] < g[i]
    /\ \A h \in 1 .. Len(out) : out[h] = Content(g[h])
    /\ \A p \in 1 .. Len(file) : \A j \in 1 .. Len(frags) : \A n \in 1 .. Size(j) :
         p > Place /\ At(p, j, n) => \A h \in 1 .. Len(out) : g[h] < frags[j].record
    /\ phase = "read" /\ inFragmented =>
         \E i \in 1 .. Len(frags) :
             Building(i) /\ \A h \in 1 .. Len(out) : g[h] < frags[i].record

ReturnedInv ==
    /\ out \in Seq(Seq(Nat \X Nat))
    /\ \E g : Returned(g)

LEMMA NothingReturned == LTypeInv /\ NothingRead => ReturnedInv
<1> SUFFICES ASSUME LTypeInv, NothingRead PROVE ReturnedInv
  OBVIOUS
<1>1. out = <<>> /\ inFragmented = FALSE
  BY DEF NothingRead
<1>2. Len(out) = 0 /\ out \in Seq(Seq(Nat \X Nat))
  BY <1>1
<1> DEFINE g == [h \in 1 .. Len(out) |-> 1]
<1>3. g \in [1 .. Len(out) -> 1 .. Len(records)]
  BY <1>2
<1>4. Returned(g)
  BY <1>1, <1>2, <1>3 DEF Returned
<1> QED BY <1>2, <1>4 DEF ReturnedInv

(* Content put together *)
LEMMA Joined ==
    ASSUME NEW r \in Nat, NEW a \in Nat, NEW b \in Nat
    PROVE  LET x == [k \in 1 .. a |-> <<r, k>>]
               y == [k \in 1 .. b |-> <<r, a + k>>]
               z == [k \in 1 .. a + b |-> <<r, k>>]
           IN  x \in Seq(Nat \X Nat) /\ z \in Seq(Nat \X Nat) /\ x \o y = z
<1> DEFINE x == [k \in 1 .. a |-> <<r, k>>]
           y == [k \in 1 .. b |-> <<r, a + k>>]
           z == [k \in 1 .. a + b |-> <<r, k>>]
<1>1. x \in Seq(Nat \X Nat) /\ Len(x) = a
  OBVIOUS
<1>2. y \in Seq(Nat \X Nat) /\ Len(y) = b
  OBVIOUS
<1>3. z \in Seq(Nat \X Nat) /\ Len(z) = a + b
  OBVIOUS
<1>4. \A k \in 1 .. a + b : k \in 1 .. a \/ (k - a \in 1 .. b /\ a + (k - a) = k)
  OBVIOUS
<1>5. /\ \A k \in 1 .. a : x[k] = <<r, k>>
      /\ \A k \in 1 .. b : y[k] = <<r, a + k>>
      /\ \A k \in 1 .. a + b : z[k] = <<r, k>>
  OBVIOUS
<1> HIDE DEF x, y, z
<1>6. /\ x \o y \in Seq(Nat \X Nat) /\ Len(x \o y) = a + b
      /\ \A k \in 1 .. a + b : (x \o y)[k] = IF k <= a THEN x[k] ELSE y[k - a]
  <2>1. /\ x \o y \in Seq(Nat \X Nat) /\ Len(x \o y) = Len(x) + Len(y)
        /\ \A k \in 1 .. Len(x) + Len(y) : (x \o y)[k] = IF k <= Len(x) THEN x[k] ELSE y[k - Len(x)]
    BY <1>1, <1>2, ConcatProperties
  <2> QED BY <1>1, <1>2, <2>1
<1>7. \A k \in 1 .. a + b : (x \o y)[k] = z[k]
  <2> SUFFICES ASSUME NEW k \in 1 .. a + b PROVE (x \o y)[k] = z[k]
    OBVIOUS
  <2>0. (x \o y)[k] = (IF k <= a THEN x[k] ELSE y[k - a]) /\ z[k] = <<r, k>>
    BY <1>5, <1>6
  <2>1. CASE k \in 1 .. a
    <3>1. k <= a
      BY <2>1
    <3> QED BY <1>5, <2>0, <2>1, <3>1
  <2>2. CASE k - a \in 1 .. b /\ a + (k - a) = k
    <3>1. ~(k <= a)
      BY <2>2
    <3>2. y[k - a] = <<r, a + (k - a)>>
      BY <1>5, <2>2
    <3> QED BY <2>0, <2>2, <3>1, <3>2
  <2> QED BY <1>4, <2>1, <2>2
<1>8. x \o y = z
  BY <1>3, <1>6, <1>7, SeqEqual
<1> QED BY <1>1, <1>3, <1>8 DEF x, y, z

(* What a fragment adds to the ones before it *)
LEMMA FragmentAdds ==
    ASSUME LogInv, NEW j \in 1 .. Len(frags)
    PROVE  /\ Upto(j) \in Seq(Nat \X Nat)
           /\ Begins(j) => Payload(frags[j]) = Upto(j)
           /\ ~Begins(j) => j - 1 \in 1 .. Len(frags) /\ Upto(j - 1) \o Payload(frags[j]) = Upto(j)
           /\ Ends(j) => Upto(j) = Content(frags[j].record)
<1> DEFINE f == frags[j]
<1>0. LTypeInv /\ Pieces
  BY DEF LogInv, FragsInv
<1>1. /\ f.from \in Nat /\ f.length \in Nat /\ f.record \in Nat
      /\ Ends(j) => f.from + f.length = records[f.record].length
      /\ Begins(j) => f.from = 0
      /\ ~Begins(j) => j > 1 /\ f.record = frags[j - 1].record /\ f.from = frags[j - 1].from + frags[j - 1].length
  BY <1>0, LengthTypes DEF Pieces
<1>2. /\ Upto(j) \in Seq(Nat \X Nat)
      /\ [k \in 1 .. f.from |-> <<f.record, k>>] \o Payload(f) = Upto(j)
  BY <1>1, Joined DEF Upto, Payload
<1>3. ASSUME Begins(j) PROVE Payload(f) = Upto(j)
  <2>1. f.from = 0 /\ 0 + f.length = f.length /\ \A k \in 1 .. f.length : 0 + k = k
    BY <1>1, <1>3
  <2> QED BY <2>1 DEF Payload, Upto
<1>4. ASSUME ~Begins(j) PROVE j - 1 \in 1 .. Len(frags) /\ Upto(j - 1) \o Payload(f) = Upto(j)
  <2>1. j - 1 \in 1 .. Len(frags)
    BY <1>0, <1>1, <1>4, LengthTypes
  <2>2. Upto(j - 1) = [k \in 1 .. f.from |-> <<f.record, k>>]
    BY <1>1, <1>4 DEF Upto
  <2> QED BY <1>2, <2>1, <2>2
<1>5. ASSUME Ends(j) PROVE Upto(j) = Content(f.record)
  BY <1>1, <1>5 DEF Upto, Content
<1> QED BY <1>2, <1>3, <1>4, <1>5

(* Behind the last byte of a fragment there are only later fragments. *)
LEMMA Behind ==
    ASSUME LogInv, NEW i \in 1 .. Len(frags), NEW e, At(e, i, Size(i)),
           NEW j \in 1 .. Len(frags), NEW n \in 1 .. Size(j), NEW p, At(p, j, n), e < p
    PROVE  i < j
<1>1. LTypeInv /\ InOrder
  BY DEF LogInv, FileInv
<1>2. Size(i) \in 1 .. Size(i) /\ e \in 1 .. Len(file) /\ p \in 1 .. Len(file) /\ Size(i) \in Nat
  BY <1>1, LengthTypes, Sizes DEF At
<1>3. i <= j /\ (i = j => n - Size(i) = p - e)
  BY <1>1, <1>2 DEF InOrder
<1>4. i # j
  BY <1>1, <1>2, <1>3, LengthTypes
<1> QED BY <1>1, <1>3, <1>4, LengthTypes

(* The fragment that is read next, when it goes on with a record, is the   *)
(* one that follows the last one put together: another one would be whole  *)
(* and would not fit in between.                                           *)
LEMMA Adjacent ==
    ASSUME LogInv, NEW i \in 1 .. Len(frags), NEW j \in 1 .. Len(frags),
           Building(i), At(Place + 1, j, 1), ~Begins(j), Place \in Nat
    PROVE  j = i + 1
<1>1. LTypeInv /\ InOrder /\ FromFirst /\ ContinuedWhole
  BY DEF LogInv, FileInv
<1>2. PICK e \in 1 .. Place : At(e, i, Size(i)) /\ Place - e < kHeaderSize
  <2>1. PICK e \in 1 .. Place : /\ At(e, i, Size(i))
                                /\ e = Place \/ Place - e < kHeaderSize
    BY DEF Building
  <2> QED BY <2>1, Sizes
<1>3. /\ i \in Nat /\ j \in Nat /\ 1 \in 1 .. Size(j) /\ Len(frags) \in Nat
      /\ \A k \in 1 .. Len(frags) : Size(k) \in Nat /\ Size(k) >= kHeaderSize /\ Size(k) > 0
  BY <1>1, LengthTypes, Sizes
<1>4. i < j
  BY <1>2, <1>3, Behind
<1> SUFFICES ASSUME j # i + 1 PROVE FALSE
  OBVIOUS
<1>5. PICK k \in 1 .. Len(frags) : k = j - 1
  BY <1>3, <1>4
<1>6. i < k /\ k < j /\ k + 1 = j
  BY <1>3, <1>4, <1>5
<1>7. PICK q \in 1 .. Place : At(q, k, Size(k))
  <2>1. Place + 1 \in 1 .. Len(file) /\ (Place + 1) - 1 = Place
    BY DEF At
  <2>2. ~Begins(k + 1)
    BY <1>6
  <2>3. \E q \in 1 .. (Place + 1) - 1 : At(q, k, Size(k))
    BY <1>1, <1>3, <1>6, <2>1, <2>2 DEF ContinuedWhole
  <2> QED BY <2>1, <2>3
<1>8. PICK p : p = q - Size(k) + 1
  OBVIOUS
<1>9. At(p, k, 1)
  <2>1. Size(k) \in 1 .. Size(k) /\ 1 \in 1 .. Size(k) /\ q \in 1 .. Len(file)
    BY <1>3, <1>7 DEF At
  <2> QED BY <1>1, <1>7, <1>8, <2>1 DEF FromFirst
<1>10. p \in Nat /\ p \in 1 .. Len(file) /\ e \in 1 .. Len(file) /\ Len(file) \in Nat
  BY <1>1, <1>2, <1>9, LengthTypes DEF At
<1>11. ~(p < e)
  <2> SUFFICES ASSUME p < e PROVE FALSE
    OBVIOUS
  <2>1. 1 \in 1 .. Size(k) /\ Size(i) \in 1 .. Size(i)
    BY <1>3
  <2>2. k <= i
    BY <1>1, <1>2, <1>9, <1>10, <2>1 DEF InOrder
  <2> QED BY <1>3, <1>6, <2>2
<1>12. p # e
  <2> SUFFICES ASSUME p = e PROVE FALSE
    OBVIOUS
  <2>1. Byte(k, 1) = Byte(i, Size(i))
    BY <1>2, <1>9 DEF At
  <2>2. k = i
    BY <1>3, <2>1, BytesDiffer
  <2> QED BY <1>6, <2>2
<1> QED BY <1>2, <1>3, <1>7, <1>8, <1>10, <1>11, <1>12, Sizes

LEMMA PlaceTypes ==
    LTypeInv => /\ Place \in Nat /\ pos \in Nat /\ Len(buffer) \in Nat /\ Len(file) \in Nat
                /\ Place <= pos /\ pos = Place + Len(buffer) /\ pos <= Len(file)
BY LengthTypes DEF LTypeInv, ReaderTypeOK, Place

(* Steps that return nothing *)
LEMMA ReturnsNothing ==
    ASSUME LogInv, LTypeInv', UNCHANGED writerVars, out' = out, Place' >= Place,
           NEW g, Returned(g),
           phase' = "read" /\ inFragmented' =>
               \E i \in 1 .. Len(frags) :
                   Building(i)' /\ \A h \in 1 .. Len(out) : g[h] < frags[i].record
    PROVE  Returned(g)'
<1>1. file' = file /\ frags' = frags /\ records' = records
  BY DEF writerVars
<1>2. /\ \A p, i, m : At(p, i, m)' <=> At(p, i, m)
      /\ \A i : Size(i)' = Size(i)
      /\ \A r : Content(r)' = Content(r)
  BY <1>1 DEF At, Byte, Size, Content
<1>3. Place \in Nat
  BY PlaceTypes DEF LogInv
<1>4. Place' \in Nat
  BY DEF LTypeInv, ReaderTypeOK, Place
<1>5. \A p \in 1 .. Len(file) : p > Place' => p > Place
  BY <1>3, <1>4
<1> QED BY <1>1, <1>2, <1>5 DEF Returned

LEMMA ReadBlockReturned ==
    ASSUME LogInv, LTypeInv', ReadBlock, NEW g, Returned(g)
    PROVE  Returned(g)'
<1>0. LTypeInv /\ UNCHANGED writerVars /\ phase' = phase /\ out' = out /\ scratch' = scratch
      /\ inFragmented' = inFragmented /\ Len(buffer) < kHeaderSize /\ eof = FALSE /\ phase = "read"
  BY DEF LogInv, ReadBlock, LTypeInv, ReaderTypeOK
<1>1. Place \in Nat /\ pos = Place + Len(buffer) /\ Len(buffer) \in Nat /\ pos \in Nat
  BY <1>0, PlaceTypes
<1>2. Place' = pos /\ Place' >= Place
  BY <1>0, <1>1, BlockRead DEF Place
<1>3. eof' \/ Len(buffer') >= kHeaderSize
  <2>1. ~eof' => Len(buffer') = kBlockSize
    BY <1>0, <1>1, BlockRead, Sizes
  <2> QED BY <2>1, Sizes
<1>4. ASSUME inFragmented
      PROVE  \E i \in 1 .. Len(frags) :
                 Building(i)' /\ \A h \in 1 .. Len(out) : g[h] < frags[i].record
  <2>1. PICK i \in 1 .. Len(frags) : Building(i) /\ \A h \in 1 .. Len(out) : g[h] < frags[i].record
    BY <1>0, <1>4 DEF Returned
  <2>2. PICK e \in 1 .. Place : At(e, i, Size(i)) /\ e = Place
    BY <1>0, <1>1, <2>1, Sizes DEF Building
  <2>3. file' = file /\ frags' = frags
    BY <1>0 DEF writerVars
  <2>4. At(e, i, Size(i))' /\ ~Ends(i)' /\ scratch' = Upto(i)'
    BY <1>0, <2>1, <2>2, <2>3 DEF At, Byte, Size, Ends, Upto, Building
  <2>5. e \in 1 .. Place' /\ Place' - e < kHeaderSize
    BY <1>0, <1>1, <1>2, <2>2
  <2>6. Building(i)'
    BY <1>3, <2>4, <2>5 DEF Building
  <2> QED BY <2>1, <2>6
<1> QED BY <1>0, <1>2, <1>4, ReturnsNothing

LEMMA DroppedReturned ==
    ASSUME LogInv, LTypeInv', UNCHANGED writerVars, Dropped, NEW g, Returned(g)
    PROVE  Returned(g)'
<1>1. Place \in Nat /\ Place <= pos /\ pos \in Nat
  BY PlaceTypes DEF LogInv
<1>2. Place' = pos
  BY <1>1 DEF Place, Dropped
<1>3. out' = out /\ ~(phase' = "read" /\ inFragmented')
  <2>1. CASE phase' = "done"
    BY <2>1 DEF Dropped
  <2>2. CASE inFragmented' = FALSE
    BY <2>2 DEF Dropped
  <2> QED BY <2>1, <2>2 DEF Dropped
<1> QED BY <1>1, <1>2, <1>3, ReturnsNothing

(* One record more *)
LEMMA ReturnsOne ==
    ASSUME LogInv, LTypeInv', UNCHANGED writerVars, ReturnedInv,
           NEW j \in 1 .. Len(frags), Ends(j), out' = Append(out, Upto(j)), ~inFragmented',
           At(Place + 1, j, 1), Place' > Place, At(Place', j, Size(j))
    PROVE  ReturnedInv'
<1> DEFINE r == frags[j].record
           n == Len(out)
<1>0. file' = file /\ frags' = frags /\ records' = records /\ LTypeInv /\ Pieces /\ RecordsInOrder
  BY DEF writerVars, LogInv, FragsInv
<1>1. PICK g : Returned(g)
  BY DEF ReturnedInv
<1>2. out \in Seq(Seq(Nat \X Nat)) /\ n \in Nat /\ Upto(j) \in Seq(Nat \X Nat) /\ Upto(j) = Content(r)
  BY FragmentAdds DEF ReturnedInv
<1>3. /\ out' \in Seq(Seq(Nat \X Nat)) /\ Len(out') = n + 1
      /\ \A h \in 1 .. n : out'[h] = out[h]
      /\ out'[n + 1] = Content(r)
  BY <1>2, AppendProperties
<1>4. r \in 1 .. Len(records) /\ Len(records) \in Nat
  BY <1>0, LengthTypes DEF Pieces
<1>5. \A h \in 1 .. n : g[h] < r
  <2>1. Place + 1 \in 1 .. Len(file) /\ 1 \in 1 .. Size(j) /\ Place + 1 > Place
    BY <1>0, LengthTypes, PlaceTypes, Sizes DEF At
  <2> QED BY <1>1, <2>1 DEF Returned
<1> DEFINE G == [h \in 1 .. n + 1 |-> IF h = n + 1 THEN r ELSE g[h]]
<1>6. /\ g \in [1 .. n -> 1 .. Len(records)]
      /\ \A h, i \in 1 .. n : h < i => g[h] < g[i]
      /\ \A h \in 1 .. n : out[h] = Content(g[h])
  BY <1>1 DEF Returned
<1>7. \A h \in 1 .. n + 1 : (h \in 1 .. n /\ h # n + 1) \/ h = n + 1
  BY <1>2
<1>8. /\ \A h \in 1 .. n : h \in 1 .. n + 1 /\ h # n + 1 /\ G[h] = g[h]
      /\ G[n + 1] = r
  BY <1>2
<1>9. G \in [1 .. n + 1 -> 1 .. Len(records)]
  BY <1>4, <1>6, <1>7
<1> HIDE DEF G, r, n
<1>10. \A h, i \in 1 .. n + 1 : h < i => G[h] < G[i]
  <2> SUFFICES ASSUME NEW h \in 1 .. n + 1, NEW i \in 1 .. n + 1, h < i PROVE G[h] < G[i]
    OBVIOUS
  <2>1. h \in 1 .. n
    BY <1>2, <1>7
  <2> QED BY <1>5, <1>6, <1>7, <1>8, <2>1
<1>11. \A h \in 1 .. n + 1 : out'[h] = Content(G[h])
  BY <1>3, <1>6, <1>7, <1>8
<1>12. ASSUME NEW p \in 1 .. Len(file), NEW k \in 1 .. Len(frags), NEW m \in 1 .. Size(k),
              p > Place', At(p, k, m), NEW h \in 1 .. n + 1
       PROVE  G[h] < frags[k].record
  <2>1. j < k
    BY <1>12, Behind
  <2>2. r < frags[k].record
    BY <1>0, <2>1 DEF RecordsInOrder, r
  <2>3. CASE h = n + 1
    BY <1>8, <2>2, <2>3
  <2>4. CASE h \in 1 .. n
    <3>1. G[h] < r /\ G[h] \in Nat /\ r \in Nat /\ frags[k].record \in Nat
      <4>1. r \in Nat /\ frags[k].record \in Nat
        BY <1>0, <1>4, LengthTypes
      <4>2. G[h] = g[h] /\ g[h] \in 1 .. Len(records)
        BY <1>6, <1>8, <2>4
      <4> QED BY <1>4, <1>5, <2>4, <4>1, <4>2
    <3> QED BY <2>2, <3>1
  <2> QED BY <1>7, <2>3, <2>4
<1>13. \E F : Returned(F)'
  <2>1. /\ \A p, i, m : At(p, i, m)' <=> At(p, i, m)
        /\ \A i : Size(i)' = Size(i)
        /\ \A x : Content(x)' = Content(x)
    BY <1>0 DEF At, Byte, Size, Content
  <2>2. PICK F : F = G
    OBVIOUS
  <2>3. Returned(F)'
    BY <1>0, <1>3, <1>9, <1>10, <1>11, <1>12, <2>1, <2>2 DEF Returned
  <2> QED BY <2>3
<1> QED BY <1>3, <1>13 DEF ReturnedInv

LEMMA ReadFragmentReturned ==
    ASSUME LogInv, LTypeInv', ReadFragment, ReturnedInv
    PROVE  ReturnedInv'
<1>0. LTypeInv /\ FileInv /\ FragsInv /\ phase = "read"
  BY DEF LogInv, ReadFragment
<1>1. PICK j \in 1 .. Len(frags) :
        Fragment = frags[j] /\ At(Place + 1, j, 1) /\ At(Place + Size(j), j, Size(j))
  BY <1>0, FrontIs DEF ReadFragment
<1> DEFINE f == frags[j]
<1>2. f \in Frag /\ Size(j) \in Nat /\ Size(j) > 0 /\ Size(j) = kHeaderSize + f.length /\ Assemble(f)
  BY <1>0, <1>1, LengthTypes, Sizes DEF Size, ReadFragment
<1>3. UNCHANGED <<phase, writerVars>> /\ Place' = Place + Size(j) /\ Place' > Place /\ Place \in Nat
  <2>1. /\ Place \in Nat /\ pos \in Nat /\ Len(buffer) \in Nat
    BY <1>0, PlaceTypes
  <2>2. /\ UNCHANGED <<phase, writerVars>> /\ pos' = pos /\ Len(buffer') = Len(buffer) - Size(j)
    BY <1>0, <1>1, <1>2, FragmentRead
  <2> QED BY <1>2, <2>1, <2>2 DEF Place
<1>4. At(Place', j, Size(j)) /\ file' = file /\ frags' = frags /\ records' = records
  BY <1>1, <1>3 DEF writerVars
<1>5. PICK g : Returned(g)
  BY DEF ReturnedInv
<1>6. inFragmented => \E i \in 1 .. Len(frags) : Building(i)
  BY <1>0, <1>5 DEF Returned
<1>7. ASSUME inFragmented, ~Begins(j) PROVE scratch \o Payload(f) = Upto(j)
  <2>1. PICK i \in 1 .. Len(frags) : Building(i)
    BY <1>6, <1>7
  <2>2. j = i + 1
    BY <1>1, <1>3, <1>7, <2>1, Adjacent
  <2>3. i = j - 1 /\ scratch = Upto(i)
    BY <2>1, <2>2 DEF Building
  <2> QED BY <1>7, <2>3, FragmentAdds
<1>8. f.type \in {"full", "first", "middle", "last"}
  BY <1>2 DEF Frag, Types
<1>9. CASE f.type = "full"
  <2>1. out' = Append(out, Upto(j)) /\ ~inFragmented' /\ Ends(j)
    BY <1>0, <1>2, <1>9, Assembled, FragmentAdds DEF Begins, Ends
  <2> QED BY <1>1, <1>3, <1>4, <2>1, ReturnsOne
<1>10. CASE f.type = "last" /\ inFragmented
  <2>1. Ends(j) /\ ~Begins(j)
    BY <1>10 DEF Begins, Ends
  <2>2. out' = Append(out, Upto(j)) /\ ~inFragmented'
    BY <1>0, <1>2, <1>7, <1>10, <2>1, Assembled
  <2> QED BY <1>1, <1>3, <1>4, <2>1, <2>2, ReturnsOne
<1>11. CASE f.type = "first" \/ (f.type = "middle" /\ inFragmented)
  <2>1. ~Ends(j) /\ (f.type = "first" <=> Begins(j))
    BY <1>11 DEF Begins, Ends
  <2>2. out' = out /\ scratch' = Upto(j)
    BY <1>0, <1>2, <1>7, <1>11, <2>1, Assembled, FragmentAdds
  <2>3. ~Ends(j)' /\ scratch' = Upto(j)' /\ At(Place, j, Size(j))'
    BY <1>4, <2>1, <2>2 DEF Ends, Upto, At, Byte, Size
  <2>4. Place' \in 1 .. Place'
    BY <1>2, <1>3
  <2>5. Building(j)'
    BY <2>3, <2>4 DEF Building
  <2>6. \A h \in 1 .. Len(out) : g[h] < f.record
    <3>1. Place + 1 \in 1 .. Len(file) /\ 1 \in 1 .. Size(j) /\ Place + 1 > Place
      BY <1>1, <1>2, <1>3 DEF At
    <3> QED BY <1>1, <1>5, <3>1 DEF Returned
  <2>7. Returned(g)'
    BY <1>3, <1>5, <2>2, <2>5, <2>6, ReturnsNothing
  <2> QED BY <2>2, <2>7 DEF ReturnedInv
<1>12. CASE f.type \in {"middle", "last"} /\ ~inFragmented
  <2>1. out' = out /\ ~inFragmented'
    BY <1>0, <1>2, <1>12, Assembled
  <2>2. Returned(g)'
    BY <1>3, <1>5, <2>1, ReturnsNothing
  <2> QED BY <2>1, <2>2 DEF ReturnedInv
<1> QED BY <1>8, <1>9, <1>10, <1>11, <1>12

LEMMA ReturnedNext == LogInv /\ LogInv' /\ ReturnedInv /\ [LogNext]_logVars => ReturnedInv'
<1> SUFFICES ASSUME LogInv, LogInv', ReturnedInv, [LogNext]_logVars PROVE ReturnedInv'
  OBVIOUS
<1>0. LTypeInv /\ LTypeInv' /\ FileInv
  BY DEF LogInv
<1>1. CASE phase = "write" /\ ~Read
  <2>1. NothingRead
    BY <1>0, <1>1 DEF LTypeInv
  <2>2. UNCHANGED readerVars
    BY <1>1 DEF LogNext, AddRecord, EmitPhysicalRecord, Crash, ProcessEnds, logVars
  <2>3. NothingRead'
    BY <2>1, <2>2 DEF NothingRead, readerVars
  <2> QED BY <1>0, <2>3, NothingReturned, PTL
<1>2. CASE Read
  <2>1. UNCHANGED writerVars
    BY <1>0, <1>2, ReadType
  <2>2. PICK g : Returned(g)
    BY DEF ReturnedInv
  <2>3. CASE ReadBlock
    <3>1. Returned(g)'
      BY <1>0, <2>2, <2>3, ReadBlockReturned
    <3> QED BY <2>3, <3>1 DEF ReturnedInv, ReadBlock
  <2>4. CASE ReadEof \/ ReadGarbage \/ ReadTooLong \/ ReadMismatch
    <3>1. Dropped
      BY <1>0, <2>4, Drops
    <3>2. Returned(g)'
      BY <1>0, <2>1, <2>2, <3>1, DroppedReturned
    <3> QED BY <3>1, <3>2 DEF ReturnedInv, Dropped
  <2>5. CASE ReadFragment
    BY <1>0, <2>5, ReadFragmentReturned
  <2> QED BY <1>2, <2>3, <2>4, <2>5 DEF Read
<1>3. CASE phase # "write" /\ ~Read
  <2>1. UNCHANGED logVars
    BY <1>3 DEF LogNext, AddRecord, EmitPhysicalRecord, Crash, ProcessEnds
  <2>2. PICK g : Returned(g)
    BY DEF ReturnedInv
  <2>3. Returned(g)'
    BY <2>1, <2>2 DEF logVars, writerVars, readerVars, Returned, Building, Place, At, Byte, Size, Ends, Upto, Content
  <2> QED BY <2>1, <2>3 DEF ReturnedInv, logVars, readerVars
<1> QED BY <1>1, <1>2, <1>3

(* Whatever has failed, and wherever the file is cut: a reader returns     *)
(* only records that were given to AddRecord, whole, never a mixture of    *)
(* two, each once and in their order, for any sizes of blocks, headers and *)
(* records.                                                                *)
THEOREM NothingForged == LogSpec => []NeverForged
<1>1. LogInit => ReturnedInv
  <2> SUFFICES ASSUME LogInit PROVE ReturnedInv
    OBVIOUS
  <2>1. LTypeInv /\ NothingRead
    BY LTypeInit DEF LogInit, NothingRead
  <2> QED BY <2>1, NothingReturned
<1>2. LogInv /\ ReturnedInv => NeverForged
  <2> SUFFICES ASSUME LTypeInv, ReturnedInv PROVE NeverForged
    BY DEF LogInv
  <2>1. DOMAIN records = 1 .. Len(records) /\ DOMAIN out = 1 .. Len(out)
    BY DEF LTypeInv, WriterTypeOK, ReturnedInv
  <2>2. PICK g : Returned(g)
    BY DEF ReturnedInv
  <2>3. /\ g \in [DOMAIN out -> DOMAIN records]
        /\ \A h, i \in DOMAIN out : h < i => g[h] < g[i]
        /\ \A h \in DOMAIN out : out[h] = Content(g[h])
    BY <2>1, <2>2 DEF Returned
  <2> QED BY <2>3 DEF NeverForged
<1> QED BY <1>1, <1>2, LogInvAlways, LogInvNext, ReturnedNext, PTL DEF LogSpec

-----------------------------------------------------------------------------
(* The inductive invariant, fourth part: the log when no append has        *)
(* failed.  Then every record has all its fragments, one after the other,  *)
(* and every fragment but the last in the file is followed by the next.    *)

Boundary == {q * kBlockSize : q \in Nat}

LEMMA Boundaries ==
    /\ 0 \in Boundary
    /\ \A a \in Boundary : a \in Nat /\ a + kBlockSize \in Boundary
    /\ \A a, b \in Boundary : a < b => a + kBlockSize <= b
<1>1. 0 \in Boundary
  BY Sizes DEF Boundary
<1>2. ASSUME NEW q \in Nat
      PROVE  q * kBlockSize \in Nat /\ q * kBlockSize + kBlockSize = (q + 1) * kBlockSize /\ q + 1 \in Nat
  BY Sizes
<1>3. ASSUME NEW q \in Nat, NEW r \in Nat, q * kBlockSize < r * kBlockSize
      PROVE  q * kBlockSize + kBlockSize <= r * kBlockSize
  <2>1. q < r
    <3> SUFFICES ASSUME r <= q PROVE r * kBlockSize <= q * kBlockSize
      BY <1>2, <1>3
    <3>1. PICK d \in Nat : q = r + d
      <4>1. q - r \in Nat /\ q = r + (q - r)
        OBVIOUS
      <4> QED BY <4>1
    <3>2. q * kBlockSize = r * kBlockSize + d * kBlockSize /\ d * kBlockSize \in Nat
      BY <3>1, Sizes
    <3> QED BY <1>2, <3>2
  <2>2. PICK d \in Nat : r = q + 1 + d
    <3>1. r - q - 1 \in Nat /\ r = q + 1 + (r - q - 1)
      BY <2>1
    <3> QED BY <3>1
  <2>3. r * kBlockSize = q * kBlockSize + kBlockSize + d * kBlockSize /\ d * kBlockSize \in Nat
    BY <2>2, Sizes
  <2> QED BY <1>2, <2>3, Sizes
<1>4. \A a \in Boundary : a \in Nat /\ a + kBlockSize \in Boundary
  BY <1>2 DEF Boundary
<1>5. \A a, b \in Boundary : a < b => a + kBlockSize <= b
  BY <1>3 DEF Boundary
<1> QED BY <1>1, <1>4, <1>5

(* One record follows the other, and only the last can be unfinished. *)
InTurn ==
    /\ Len(frags) > 0 => frags[1].record = 1
    /\ \A i \in 1 .. Len(frags) - 1 :
         IF Ends(i) THEN frags[i + 1].record = frags[i].record + 1 ELSE ~Begins(i + 1)

Finished ==
    /\ \A r \in 1 .. Len(records) :
         \/ records[r].status = "ok" /\ \E i \in 1 .. Len(frags) : frags[i].record = r /\ Ends(i)
         \/ records[r].status = "writing" /\ r = Len(records) /\ left >= 0
    /\ \A i \in 1 .. Len(frags) : Ends(i) => records[frags[i].record].status = "ok"

CallClean ==
    /\ Len(frags) = 0 => Len(records) = (IF left = -1 THEN 0 ELSE 1) /\ begin
    /\ Len(frags) > 0 =>
         /\ Ends(Len(frags)) <=> left = -1 \/ begin
         /\ left = -1 => frags[Len(frags)].record = Len(records)
         /\ left >= 0 /\ begin => frags[Len(frags)].record = Len(records) - 1

CleanRecords == InTurn /\ Finished /\ CallClean

LEMMA RecordsCleanInit == LogInit => CleanRecords
<1> SUFFICES ASSUME LogInit PROVE CleanRecords
  OBVIOUS
<1>1. frags = <<>> /\ records = <<>> /\ left = -1 /\ begin = TRUE
  BY DEF LogInit
<1>2. Len(frags) = 0 /\ Len(records) = 0
  BY <1>1
<1> QED BY <1>1, <1>2 DEF CleanRecords, InTurn, Finished, CallClean

LEMMA AddRecordClean ==
    ASSUME LogInv, CleanRecords, NEW n \in Lengths, AddRecord(n)
    PROVE  CleanRecords'
<1> DEFINE l == Len(records)
<1>0. LTypeInv /\ Pieces
  BY DEF LogInv, FragsInv
<1>1. frags' = frags /\ left' = n /\ begin' = TRUE /\ left = -1 /\ l \in Nat /\ n \in Nat /\ Len(frags) \in Nat
  BY <1>0, LengthTypes, FormatAssumption DEF AddRecord
<1>2. /\ Len(records') = l + 1 /\ \A r \in 1 .. l : records'[r] = records[r]
      /\ records'[l + 1].status = "writing"
  <2>1. records \in Seq(Rec) /\ [length |-> n, status |-> "writing"] \in Rec
    BY <1>0 DEF LTypeInv, WriterTypeOK, Rec
  <2> QED BY <2>1, AppendProperties DEF AddRecord
<1>3. InTurn'
  BY <1>1 DEF CleanRecords, InTurn, Begins, Ends
<1>4. Finished'
  <2>1. ASSUME NEW r \in 1 .. l + 1
        PROVE  \/ records'[r].status = "ok" /\ \E i \in 1 .. Len(frags) : frags[i].record = r /\ Ends(i)
               \/ records'[r].status = "writing" /\ r = l + 1 /\ left' >= 0
    <3>1. CASE r \in 1 .. l
      BY <1>1, <1>2, <3>1 DEF CleanRecords, Finished
    <3>2. CASE r = l + 1
      BY <1>1, <1>2, <3>2
    <3> QED BY <1>1, <3>1, <3>2
  <2>2. \A i \in 1 .. Len(frags) : Ends(i) => records'[frags[i].record].status = "ok"
    BY <1>0, <1>2 DEF CleanRecords, Finished, Pieces
  <2> QED BY <1>1, <1>2, <2>1, <2>2 DEF Finished, Ends
<1>5. CallClean'
  <2>1. Len(frags) = 0 => l + 1 = 1
    BY <1>1 DEF CleanRecords, CallClean
  <2>2. Len(frags) > 0 => Ends(Len(frags)) /\ frags[Len(frags)].record = (l + 1) - 1
    BY <1>1 DEF CleanRecords, CallClean
  <2>3. left' # -1 /\ left' >= 0
    BY <1>1
  <2>4. Len(frags') = Len(frags) /\ Len(records') = l + 1 /\ begin'
    BY <1>1, <1>2
  <2> HIDE DEF l
  <2> QED BY <1>1, <2>1, <2>2, <2>3, <2>4 DEF CallClean, Ends
<1> QED BY <1>3, <1>4, <1>5 DEF CleanRecords

LEMMA EmitClean == LogInv /\ CleanRecords /\ EmitPhysicalRecord /\ failures' = 0 => CleanRecords'
<1> SUFFICES ASSUME LogInv, CleanRecords, EmitPhysicalRecord, failures' = 0 PROVE CleanRecords'
  OBVIOUS
<1>0. LTypeInv /\ Pieces /\ CallInv
  BY DEF LogInv, FragsInv
<1>1. PICK N \in Nat : N = Len(frags) + 1
  BY <1>0, LengthTypes
<1>2. PICK l \in Nat : l = Len(records) /\ l > 0
  BY <1>0, LengthTypes, FragmentFits DEF EmitPhysicalRecord
<1>3. /\ left >= 0 /\ left \in Nat /\ fragment_length \in Nat /\ begin' = FALSE /\ begin \in BOOLEAN
      /\ Len(frags) = N - 1 /\ N > 0
  BY <1>0, <1>1, FragmentFits, LengthTypes DEF EmitPhysicalRecord, LTypeInv, WriterTypeOK
<1>4. /\ Len(frags') = N /\ \A i \in 1 .. N - 1 : frags'[i] = frags[i]
      /\ frags'[N].record = l
      /\ frags'[N].type \in {"full", "last"} <=> left = fragment_length
      /\ frags'[N].type \in {"full", "first"} <=> begin
  BY <1>0, <1>1, <1>2, <1>3, EmittedFragment
<1>5. /\ Len(records') = l /\ \A r \in 1 .. l : r # l => records'[r] = records[r]
      /\ left = fragment_length => left' = -1 /\ records'[l].status = "ok"
      /\ left # fragment_length => left' >= 0 /\ records' = records
  <2>1. /\ \A r \in 1 .. l : r # l => records'[r] = records[r]
        /\ Len(records') = l
        /\ IF left = fragment_length
           THEN left' = -1 /\ records'[l].status = "ok"
           ELSE left' = left - fragment_length /\ records' = records
    BY <1>0, <1>2, EmittedRecord
  <2>2. fragment_length <= left
    BY <1>0, <1>3, FragmentFits
  <2>3. left' = left - fragment_length => left' >= 0
    BY <1>3, <2>2
  <2> QED BY <2>1, <2>3
<1>6. /\ \A i \in 1 .. N - 1 : Ends(i) => frags[i].record # l
      /\ \A i \in 1 .. N - 1 : frags[i].record \in 1 .. l
  BY <1>0, <1>2, <1>3 DEF CallInv, Pieces
<1>7. /\ \A i \in 1 .. N - 1 : (Ends(i)' <=> Ends(i)) /\ (Begins(i)' <=> Begins(i))
      /\ Ends(N)' <=> left = fragment_length
      /\ Begins(N)' <=> begin
  BY <1>4 DEF Ends, Begins
<1>8. /\ N - 1 = 0 => l = 1
      /\ N - 1 > 0 => (Ends(N - 1) <=> begin) /\ (begin => frags[N - 1].record = l - 1)
  BY <1>2, <1>3 DEF CleanRecords, CallClean
<1>9. InTurn'
  <2>1. frags'[1].record = 1
    <3>1. CASE N = 1
      BY <1>4, <1>8, <3>1
    <3>2. CASE N > 1
      <4>1. 1 \in 1 .. N - 1 /\ Len(frags) > 0
        BY <1>3, <3>2
      <4> QED BY <1>4, <4>1 DEF CleanRecords, InTurn
    <3> QED BY <1>3, <3>1, <3>2
  <2>2. ASSUME NEW i \in 1 .. N - 1
        PROVE  IF Ends(i)' THEN frags'[i + 1].record = frags'[i].record + 1 ELSE ~Begins(i + 1)'
    <3>1. CASE i + 1 = N
      <4>1. i = N - 1 /\ N - 1 > 0 /\ frags'[i] = frags[N - 1] /\ (Ends(i)' <=> begin)
        BY <1>4, <1>7, <1>8, <3>1
      <4>2. frags'[i + 1].record = l /\ (Begins(i + 1)' <=> begin)
        BY <1>4, <1>7, <3>1
      <4> QED BY <1>2, <1>8, <4>1, <4>2
    <3>2. CASE i + 1 \in 1 .. N - 1
      <4>1. i \in 1 .. Len(frags) - 1
        BY <1>3, <3>2
      <4>2. IF Ends(i) THEN frags[i + 1].record = frags[i].record + 1 ELSE ~Begins(i + 1)
        BY <4>1 DEF CleanRecords, InTurn
      <4> QED BY <1>4, <1>7, <3>2, <4>2
    <3> QED BY <3>1, <3>2
  <2> QED BY <1>4, <2>1, <2>2 DEF InTurn
<1>10. Finished'
  <2>1. ASSUME NEW r \in 1 .. l
        PROVE  \/ records'[r].status = "ok" /\ \E i \in 1 .. N : frags'[i].record = r /\ Ends(i)'
               \/ records'[r].status = "writing" /\ r = l /\ left' >= 0
    <3>1. CASE r # l
      <4>1. PICK i \in 1 .. N - 1 : frags[i].record = r /\ Ends(i) /\ records[r].status = "ok"
        BY <1>2, <1>3, <3>1 DEF CleanRecords, Finished
      <4>2. i \in 1 .. N
        OBVIOUS
      <4> QED BY <1>4, <1>5, <1>7, <3>1, <4>1, <4>2
    <3>2. CASE r = l /\ left = fragment_length
      <4>1. N \in 1 .. N
        BY <1>3
      <4> QED BY <1>4, <1>5, <1>7, <3>2, <4>1
    <3>3. CASE r = l /\ left # fragment_length
      BY <1>2, <1>3, <1>5, <1>6, <3>3 DEF CleanRecords, Finished
    <3> QED BY <3>1, <3>2, <3>3
  <2>2. ASSUME NEW i \in 1 .. N, Ends(i)' PROVE records'[frags'[i].record].status = "ok"
    <3>1. CASE i = N
      BY <1>4, <1>5, <1>7, <2>2, <3>1
    <3>2. CASE i \in 1 .. N - 1
      <4>1. Ends(i) /\ frags'[i].record = frags[i].record /\ frags[i].record \in 1 .. l /\ frags[i].record # l
        BY <1>4, <1>6, <1>7, <2>2, <3>2
      <4>2. records[frags[i].record].status = "ok"
        BY <1>3, <3>2, <4>1 DEF CleanRecords, Finished
      <4> QED BY <1>5, <4>1, <4>2
    <3> QED BY <3>1, <3>2
  <2> QED BY <1>4, <1>5, <2>1, <2>2 DEF Finished
<1>11. CallClean'
  <2>1. N > 0 /\ N # 0 /\ (Ends(N)' <=> left' = -1)
    BY <1>3, <1>5, <1>7
  <2> QED BY <1>3, <1>4, <1>5, <2>1 DEF CallClean
<1> QED BY <1>9, <1>10, <1>11 DEF CleanRecords

LEMMA CleanKept == CleanRecords /\ UNCHANGED <<records, frags, left, begin>> => CleanRecords'
BY DEF CleanRecords, InTurn, Finished, CallClean, Begins, Ends

(* Where the fragment behind the byte at p starts: at once, or behind a    *)
(* trailer, in the next block *)
Follows(p, c) == c = p \/ (c \in Boundary /\ p < c /\ c - p < kHeaderSize)

(* The first fragment starts the file. *)
StartsAtOnce == Len(file) > 0 => Len(frags) > 0 /\ At(1, 1, 1)

(* A fragment lies behind all of the fragments before it ... *)
AllBefore ==
    \A i, j \in 1 .. Len(frags) : \A n \in 1 .. Size(j) : \A p \in 1 .. Len(file) :
        i < j /\ At(p, j, n) => \E q \in 1 .. p - 1 : At(q, i, Size(i))

(* ... goes on as far as the file does ... *)
Unbroken ==
    \A i \in 1 .. Len(frags) : \A p \in 1 .. Len(file) :
        At(p, i, 1) => \A n \in 1 .. Size(i) : p - 1 + n <= Len(file) => At(p - 1 + n, i, n)

(* ... is followed by the next one ... *)
NextFollows ==
    \A i \in 1 .. Len(frags) : \A p \in 1 .. Len(file) :
        At(p, i, Size(i)) /\ p < Len(file) =>
            /\ i < Len(frags)
            /\ \E c \in Nat : /\ Follows(p, c)
                              /\ c < Len(file) => At(c + 1, i + 1, 1)
                              /\ phase = "write" => c < Len(file)

(* ... and crosses no boundary of a block. *)
InOneBlock ==
    \A i \in 1 .. Len(frags) : \A p \in 1 .. Len(file) :
        At(p, i, 1) => \E b \in Boundary : b < p /\ p - 1 + Size(i) <= b + kBlockSize

(* The writer is where its offset says, behind its last fragment. *)
WriterAtEnd ==
    phase = "write" =>
        /\ \E b \in Boundary : Len(file) = b + block_offset
        /\ Len(frags) = 0 => Len(file) = 0 /\ block_offset = 0
        /\ Len(frags) > 0 => At(Len(file), Len(frags), Size(Len(frags)))

CleanFile ==
    StartsAtOnce /\ AllBefore /\ Unbroken /\ NextFollows /\ InOneBlock /\ WriterAtEnd

LEMMA CleanFileInit == LogInit => CleanFile
<1> SUFFICES ASSUME LogInit PROVE CleanFile
  OBVIOUS
<1>1. file = <<>> /\ frags = <<>> /\ block_offset = 0
  BY DEF LogInit
<1>2. Len(file) = 0 /\ Len(frags) = 0
  BY <1>1
<1>3. WriterAtEnd
  BY <1>1, <1>2, Boundaries DEF WriterAtEnd
<1> QED BY <1>2, <1>3 DEF CleanFile, StartsAtOnce, AllBefore, Unbroken, NextFollows, InOneBlock

(* A step that writes nothing, or cuts the file and ends the writing *)
LEMMA CleanCut ==
    ASSUME LTypeInv, CleanFile, frags' = frags, Len(file') \in 0 .. Len(file),
           \A p \in 1 .. Len(file') : file'[p] = file[p], WriterAtEnd',
           phase' = "write" => phase = "write" /\ file' = file
    PROVE  CleanFile'
<1>0. Len(file) \in Nat /\ Len(file') \in Nat /\ Len(file') <= Len(file)
  BY LengthTypes
<1>1. /\ \A p \in 1 .. Len(file') : p \in 1 .. Len(file)
      /\ \A p, i, m : At(p, i, m)' <=> p \in 1 .. Len(file') /\ At(p, i, m)
      /\ \A i : Size(i)' = Size(i)
      /\ \A p, c : Follows(p, c)' <=> Follows(p, c)
      /\ Boundary' = Boundary
  BY <1>0 DEF At, Byte, Size, Follows, Boundary
<1>2. StartsAtOnce'
  BY <1>0, <1>1 DEF CleanFile, StartsAtOnce
<1>3. AllBefore'
  <2> SUFFICES ASSUME NEW i \in 1 .. Len(frags), NEW j \in 1 .. Len(frags), NEW n \in 1 .. Size(j),
                      NEW p \in 1 .. Len(file'), i < j, At(p, j, n)
               PROVE  \E q \in 1 .. p - 1 : At(q, i, Size(i))'
    BY <1>1 DEF AllBefore
  <2>1. PICK q \in 1 .. p - 1 : At(q, i, Size(i))
    BY <1>1 DEF CleanFile, AllBefore
  <2>2. q \in 1 .. Len(file')
    BY <1>0, <2>1
  <2>3. Size(i)' = Size(i)
    BY <1>1
  <2> QED BY <1>1, <2>1, <2>2, <2>3
<1>4. Unbroken'
  <2> SUFFICES ASSUME NEW i \in 1 .. Len(frags), NEW p \in 1 .. Len(file'), At(p, i, 1),
                      NEW n \in 1 .. Size(i), p - 1 + n <= Len(file')
               PROVE  p - 1 + n \in 1 .. Len(file') /\ At(p - 1 + n, i, n)
    <3>1. Unbroken' <=> \A i \in 1 .. Len(frags) : \A p \in 1 .. Len(file') :
                            At(p, i, 1)' => \A n \in 1 .. Size(i) : p - 1 + n <= Len(file') => At(p - 1 + n, i, n)'
      BY <1>1 DEF Unbroken
    <3> QED BY <1>1, <3>1
  <2>1. p - 1 + n <= Len(file) /\ p - 1 + n \in 1 .. Len(file')
    BY <1>0, LengthTypes
  <2> QED BY <1>1, <2>1 DEF CleanFile, Unbroken
<1>5. NextFollows'
  <2> SUFFICES ASSUME NEW i \in 1 .. Len(frags), NEW p \in 1 .. Len(file'),
                      At(p, i, Size(i)), p < Len(file')
               PROVE  /\ i < Len(frags)
                      /\ \E c \in Nat : /\ Follows(p, c)
                                        /\ c < Len(file') => At(c + 1, i + 1, 1)
                                        /\ phase' = "write" => c < Len(file')
    <3>1. \A c \in Nat : \A j : At(c + 1, j, 1) /\ c < Len(file') => At(c + 1, j, 1)'
      BY <1>0, <1>1
    <3>2. NextFollows' <=>
            \A i \in 1 .. Len(frags) : \A p \in 1 .. Len(file') :
                At(p, i, Size(i))' /\ p < Len(file') =>
                    /\ i < Len(frags)
                    /\ \E c \in Nat : /\ Follows(p, c)
                                      /\ c < Len(file') => At(c + 1, i + 1, 1)'
                                      /\ phase' = "write" => c < Len(file')
      BY <1>1 DEF NextFollows
    <3>3. \A i, p : At(p, i, Size(i))' => At(p, i, Size(i))
      BY <1>1 DEF At, Size, Byte
    <3> QED BY <3>1, <3>2, <3>3
  <2>1. p \in 1 .. Len(file) /\ p < Len(file)
    BY <1>0
  <2>2. PICK c \in Nat : /\ i < Len(frags) /\ Follows(p, c)
                         /\ c < Len(file) => At(c + 1, i + 1, 1)
                         /\ phase = "write" => c < Len(file)
    BY <2>1 DEF CleanFile, NextFollows
  <2>3. c < Len(file') => c < Len(file)
    BY <1>0
  <2> QED BY <2>2, <2>3
<1>6. InOneBlock'
  BY <1>1 DEF CleanFile, InOneBlock
<1> QED BY <1>2, <1>3, <1>4, <1>5, <1>6 DEF CleanFile

(* How far the first and the last byte of a fragment are apart *)
LEMMA Extent ==
    ASSUME LTypeInv, InOrder, NEW i \in 1 .. Len(frags), NEW p, At(p, i, 1), NEW q, At(q, i, Size(i))
    PROVE  q = p - 1 + Size(i)
<1>1. /\ p \in 1 .. Len(file) /\ q \in 1 .. Len(file) /\ 1 \in 1 .. Size(i) /\ Size(i) \in 1 .. Size(i)
      /\ Size(i) \in Nat /\ p \in Nat /\ q \in Nat
  BY LengthTypes, Sizes DEF At
<1>2. CASE p < q
  <2>1. Size(i) - 1 = q - p
    BY <1>1, <1>2 DEF InOrder
  <2> QED BY <1>1, <2>1
<1>3. CASE p = q
  <2>1. Byte(i, 1) = Byte(i, Size(i))
    BY <1>3 DEF At
  <2>2. Size(i) = 1
    BY <1>1, <2>1, BytesDiffer
  <2> QED BY <1>1, <1>3, <2>2
<1>4. CASE q < p
  <2>1. 1 - Size(i) = p - q
    BY <1>1, <1>4 DEF InOrder
  <2> QED BY <1>1, <1>4, <2>1
<1> QED BY <1>1, <1>2, <1>3, <1>4

LEMMA EmitCleanFile == LogInv /\ CleanFile /\ EmitPhysicalRecord /\ failures' = 0 => CleanFile'
<1> SUFFICES ASSUME LogInv, CleanFile, EmitPhysicalRecord, failures' = 0 PROVE CleanFile'
  OBVIOUS
<1>0. LTypeInv /\ Written /\ InOrder /\ phase = "write" /\ phase' = "write" /\ left >= 0
  BY DEF LogInv, FileInv, EmitPhysicalRecord
<1>1. PICK t, s \in Nat : /\ Grown(t, s) /\ s = kHeaderSize + fragment_length
                          /\ t = IF NewBlock THEN leftover ELSE 0
  BY <1>0, Emitted
<1>2. PICK L \in Nat : L = Len(file)
  BY <1>0, LengthTypes
<1>3. PICK N \in Nat : N = Len(frags) + 1
  BY <1>0, LengthTypes
<1>4. Laid(t, s, L, N, s)
  BY <1>0, <1>1, <1>2, <1>3, EmittedBytes
<1>5. /\ Len(frags') = N /\ Len(file') = L + t + s /\ s > 0 /\ Len(frags) = N - 1 /\ N > 0
      /\ \A i \in 1 .. N - 1 : /\ i \in 1 .. Len(frags) /\ Size(i) \in Nat /\ Size(i) > 0
                               /\ Size(i)' = Size(i)
      /\ Size(N)' = s
      /\ \A p : \A i \in 1 .. N - 1 : \A m \in 1 .. Size(i) : At(p, i, m)' <=> At(p, i, m)
      /\ \A p : \A m \in 1 .. s : At(p, N, m)' <=> p = L + t + m
      /\ \A i \in 1 .. N : i \in 1 .. N - 1 \/ i = N
      /\ \A p, i, m : At(p, i, m) => p \in 1 .. L
  BY <1>0, <1>2, <1>3, <1>4, LengthTypes DEF Laid, At
(* the block that is written to *)
<1>6. PICK b \in Boundary : /\ b <= L + t /\ L + t + s <= b + kBlockSize
                            /\ L + t + s = b + block_offset'
  <2>1. PICK a \in Boundary : L = a + block_offset
    BY <1>0, <1>2 DEF CleanFile, WriterAtEnd
  <2>2. a \in Nat /\ a + kBlockSize \in Boundary
    BY Boundaries
  <2>3. /\ block_offset' = StartOffset + s /\ StartOffset + s <= kBlockSize /\ StartOffset \in Nat
        /\ block_offset \in Nat
    <3>1. block_offset' = StartOffset + kHeaderSize + fragment_length
      BY DEF EmitPhysicalRecord
    <3>2. fragment_length \in Nat /\ StartOffset \in Nat /\ StartOffset + kHeaderSize + fragment_length <= kBlockSize
      BY <1>0, FragmentFits
    <3>3. block_offset \in Nat
      BY <1>0 DEF LTypeInv, WriterTypeOK
    <3> QED BY <1>1, <3>1, <3>2, <3>3, Sizes
  <2>4. CASE NewBlock
    <3>1. t = kBlockSize - block_offset /\ StartOffset = 0
      BY <1>1, <2>4 DEF leftover, StartOffset
    <3>2. L + t = a + kBlockSize
      BY <2>1, <2>2, <2>3, <3>1, Sizes
    <3> QED BY <2>2, <2>3, <3>1, <3>2, Sizes
  <2>5. CASE ~NewBlock
    <3>1. t = 0 /\ StartOffset = block_offset
      BY <1>1, <2>5 DEF StartOffset
    <3> QED BY <2>1, <2>2, <2>3, <3>1, Sizes
  <2> QED BY <2>4, <2>5
(* where the fragment starts *)
<1>7. Follows(L, L + t)
  <2>1. CASE t = 0
    BY <2>1 DEF Follows
  <2>2. CASE t # 0
    <3>1. NewBlock /\ t = kBlockSize - block_offset /\ t < kHeaderSize
      BY <1>1, <2>2 DEF leftover, NewBlock
    <3>2. PICK a \in Boundary : L = a + block_offset
      BY <1>0, <1>2 DEF CleanFile, WriterAtEnd
    <3>3. a \in Nat /\ a + kBlockSize \in Boundary /\ block_offset \in Nat
      BY <1>0, Boundaries DEF LTypeInv, WriterTypeOK
    <3>4. L + t = a + kBlockSize /\ L < L + t /\ (L + t) - L < kHeaderSize
      BY <2>2, <3>1, <3>2, <3>3, Sizes
    <3> QED BY <3>3, <3>4 DEF Follows
  <2> QED BY <2>1, <2>2
<1>8. N = 1 => L + t = 0
  <2> SUFFICES ASSUME N = 1 PROVE L + t = 0
    OBVIOUS
  <2>1. L = 0 /\ block_offset = 0
    BY <1>0, <1>2, <1>5 DEF CleanFile, WriterAtEnd
  <2>2. ~NewBlock
    BY <2>1, Sizes DEF NewBlock, leftover
  <2> QED BY <1>1, <2>1, <2>2
<1>9. N > 1 => At(L, N - 1, Size(N - 1))
  BY <1>0, <1>2, <1>5 DEF CleanFile, WriterAtEnd
(* every fragment is whole so far *)
<1>whole. ASSUME NEW i \in 1 .. N - 1 PROVE \E q \in 1 .. L : At(q, i, Size(i))
  <2>0. N > 1
    BY <1>5
  <2>1. CASE i = N - 1
    <3>1. At(L, i, Size(i)) /\ L \in 1 .. L
      BY <1>5, <1>9, <2>0, <2>1
    <3> QED BY <3>1
  <2>2. CASE i < N - 1
    <3>1. /\ N - 1 \in 1 .. Len(frags) /\ Size(N - 1) \in 1 .. Size(N - 1) /\ L \in 1 .. Len(file)
          /\ i \in 1 .. Len(frags)
      BY <1>2, <1>5, <1>9, <2>0
    <3>2. PICK q \in 1 .. L - 1 : At(q, i, Size(i))
      BY <1>9, <2>0, <2>2, <3>1 DEF CleanFile, AllBefore
    <3> QED BY <3>2
  <2> QED BY <2>1, <2>2
<1>10. \A q : \A i \in 1 .. N - 1 : At(q, i, Size(i)) <=> At(q, i, Size(i))'
  <2> SUFFICES ASSUME NEW q, NEW i \in 1 .. N - 1 PROVE At(q, i, Size(i)) <=> At(q, i, Size(i))'
    OBVIOUS
  <2>1. PICK k : k = Size(i)
    OBVIOUS
  <2>2. k \in 1 .. Size(i) /\ Size(i)' = k
    BY <1>5, <2>1
  <2>3. At(q, i, k)' <=> At(q, i, k)
    BY <1>5, <2>2
  <2> QED BY <2>1, <2>2, <2>3
<1>11. /\ \A p : \A i \in 1 .. N - 1 : At(p, i, 1)' <=> At(p, i, 1)
       /\ \A p : At(p, N, 1)' <=> p = L + t + 1
       /\ \A p : At(p, N, Size(N))' <=> p = L + t + s
  <2>1. 1 \in 1 .. s /\ s \in 1 .. s /\ \A i \in 1 .. N - 1 : 1 \in 1 .. Size(i)
    BY <1>5
  <2>2. \A p : At(p, N, s)' <=> p = L + t + s
    BY <1>5, <2>1
  <2>3. \A p : At(p, N, Size(N))' <=> At(p, N, s)'
    BY <1>5 DEF At
  <2> QED BY <1>5, <2>1, <2>2, <2>3
<1>12. StartsAtOnce'
  <2>1. At(1, 1, 1)'
    <3>1. CASE N = 1
      BY <1>8, <1>11, <3>1
    <3>2. CASE N > 1
      <4>1. 1 \in 1 .. N - 1 /\ L > 0
        BY <1>5, <1>9, <3>2
      <4>2. At(1, 1, 1)
        BY <1>2, <4>1 DEF CleanFile, StartsAtOnce
      <4> QED BY <1>11, <4>1, <4>2
    <3> QED BY <1>5, <3>1, <3>2
  <2> QED BY <1>5, <2>1 DEF StartsAtOnce
<1>13. AllBefore'
  <2> SUFFICES ASSUME NEW i \in 1 .. N, NEW j \in 1 .. N, NEW n \in 1 .. Size(j)',
                      NEW p \in 1 .. L + t + s, i < j, At(p, j, n)'
               PROVE  \E q \in 1 .. p - 1 : At(q, i, Size(i))'
    BY <1>5 DEF AllBefore
  <2>1. i \in 1 .. N - 1 /\ i \in 1 .. Len(frags)
    BY <1>5
  <2>2. CASE j \in 1 .. N - 1
    <3>1. At(p, j, n) /\ n \in 1 .. Size(j) /\ p \in 1 .. Len(file) /\ j \in 1 .. Len(frags)
      BY <1>2, <1>5, <2>2
    <3>2. PICK q \in 1 .. p - 1 : At(q, i, Size(i))
      BY <2>1, <3>1 DEF CleanFile, AllBefore
    <3> QED BY <1>10, <2>1, <3>2
  <2>3. CASE j = N
    <3>1. p = L + t + n /\ n \in Nat /\ n > 0 /\ N > 1
      BY <1>5, <2>1, <2>3
    <3>3. PICK q \in 1 .. L : At(q, i, Size(i))
      BY <1>whole, <2>1
    <3>4. q \in 1 .. p - 1
      BY <3>1
    <3> QED BY <1>10, <2>1, <3>3, <3>4
  <2> QED BY <1>5, <2>2, <2>3
<1>14. Unbroken'
  <2> SUFFICES ASSUME NEW i \in 1 .. N, NEW p \in 1 .. L + t + s, At(p, i, 1)',
                      NEW n \in 1 .. Size(i)', p - 1 + n <= L + t + s
               PROVE  At(p - 1 + n, i, n)'
    <3>1. Unbroken' <=> \A i \in 1 .. N : \A p \in 1 .. L + t + s :
                           At(p, i, 1)' => \A n \in 1 .. Size(i)' :
                               p - 1 + n <= L + t + s => At(p - 1 + n, i, n)'
      BY <1>5 DEF Unbroken
    <3> QED BY <3>1
  <2>0. PICK k : k = p - 1 + n
    OBVIOUS
  <2>1. CASE i \in 1 .. N - 1
    <3>1. /\ At(p, i, 1) /\ n \in 1 .. Size(i) /\ p \in 1 .. Len(file) /\ i \in 1 .. Len(frags)
          /\ Size(i) \in Nat
      BY <1>2, <1>5, <1>11, <2>1
    <3>2. PICK q \in 1 .. L : At(q, i, Size(i))
      BY <1>whole, <2>1
    <3>3. q = p - 1 + Size(i)
      BY <1>0, <1>2, <3>1, <3>2, Extent
    <3>4. p - 1 + n <= Len(file)
      BY <1>2, <3>1, <3>2, <3>3
    <3>5. At(k, i, n)
      BY <2>0, <3>1, <3>4 DEF CleanFile, Unbroken
    <3>6. At(k, i, n)'
      BY <1>5, <2>1, <3>1, <3>5
    <3> QED BY <2>0, <3>6
  <2>2. CASE i = N
    <3>1. n \in 1 .. s /\ k = L + t + n
      BY <1>5, <1>11, <2>0, <2>2
    <3>2. At(k, i, n)'
      BY <1>5, <2>2, <3>1
    <3> QED BY <2>0, <3>2
  <2> QED BY <1>5, <2>1, <2>2
<1>15. NextFollows'
  <2> SUFFICES ASSUME NEW i \in 1 .. N, NEW p \in 1 .. L + t + s, At(p, i, Size(i))', p < L + t + s
               PROVE  i < N /\ \E c \in Nat : Follows(p, c) /\ c < L + t + s /\ At(c + 1, i + 1, 1)'
    <3>1. \A p, c : Follows(p, c)' <=> Follows(p, c)
      BY DEF Follows, Boundary
    <3>2. NextFollows' <=>
            \A i \in 1 .. N : \A p \in 1 .. L + t + s :
                At(p, i, Size(i))' /\ p < L + t + s =>
                    /\ i < N
                    /\ \E c \in Nat : /\ Follows(p, c)
                                      /\ c < L + t + s => At(c + 1, i + 1, 1)'
                                      /\ phase' = "write" => c < L + t + s
      BY <1>5, <3>1 DEF NextFollows
    <3> QED BY <3>2
  <2>1. i \in 1 .. N - 1 /\ i \in 1 .. Len(frags) /\ At(p, i, Size(i)) /\ p \in 1 .. L
    <3>1. i # N
      BY <1>11
    <3> QED BY <1>5, <1>10, <3>1
  <2>2. CASE p < L
    <3>1. PICK c \in Nat : i < Len(frags) /\ Follows(p, c) /\ At(c + 1, i + 1, 1) /\ c < L
      BY <1>0, <1>2, <2>1, <2>2 DEF CleanFile, NextFollows
    <3>2. i + 1 \in 1 .. N - 1 /\ c < L + t + s
      BY <1>5, <2>1, <3>1
    <3>3. PICK x, y : x = c + 1 /\ y = i + 1
      OBVIOUS
    <3>4. At(x, y, 1)'
      BY <1>11, <3>1, <3>2, <3>3
    <3> QED BY <2>1, <3>1, <3>2, <3>3, <3>4
  <2>3. CASE p = L
    <3>1. i = N - 1
      <4> SUFFICES ASSUME i # N - 1 PROVE FALSE
        OBVIOUS
      <4>1. N - 1 \in 1 .. N - 1 /\ N > 1
        BY <2>1
      <4>2. Byte(i, Size(i)) = Byte(N - 1, Size(N - 1))
        BY <1>9, <2>1, <2>3, <4>1 DEF At
      <4> QED BY <1>5, <2>1, <4>1, <4>2, BytesDiffer
    <3>2. PICK x, y : x = (L + t) + 1 /\ y = i + 1
      OBVIOUS
    <3>3. At(x, y, 1)'
      BY <1>11, <3>1, <3>2
    <3>4. L + t \in Nat /\ L + t < L + t + s /\ i < N
      BY <1>5, <3>1
    <3> QED BY <1>7, <2>3, <3>2, <3>3, <3>4
  <2> QED BY <2>1, <2>2, <2>3
<1>16. InOneBlock'
  <2> SUFFICES ASSUME NEW i \in 1 .. N, NEW p \in 1 .. L + t + s, At(p, i, 1)'
               PROVE  \E a \in Boundary : a < p /\ p - 1 + Size(i)' <= a + kBlockSize
    BY <1>5 DEF InOneBlock, Boundary
  <2>1. CASE i \in 1 .. N - 1
    <3>1. At(p, i, 1) /\ p \in 1 .. Len(file) /\ i \in 1 .. Len(frags) /\ Size(i)' = Size(i)
      BY <1>2, <1>5, <1>11, <2>1
    <3> QED BY <3>1 DEF CleanFile, InOneBlock
  <2>2. CASE i = N
    <3>1. p = L + t + 1 /\ Size(i)' = s
      BY <1>5, <1>11, <2>2
    <3>2. b \in Nat
      BY Boundaries
    <3> QED BY <1>6, <3>1, <3>2
  <2> QED BY <1>5, <2>1, <2>2
<1>17. WriterAtEnd'
  <2>1. PICK k, x : k = N /\ x = L + t + s
    OBVIOUS
  <2>2. At(x, k, Size(k))'
    BY <1>11, <2>1
  <2>3. \E a \in Boundary' : L + t + s = a + block_offset'
    BY <1>6 DEF Boundary
  <2> QED BY <1>5, <2>1, <2>2, <2>3 DEF WriterAtEnd
<1> QED BY <1>12, <1>13, <1>14, <1>15, <1>16, <1>17 DEF CleanFile

(* How many records are complete before fragment c *)
Count(c) == IF c = 1 THEN 0
            ELSE IF Ends(c - 1) THEN frags[c - 1].record ELSE frags[c - 1].record - 1

(* The reader has passed the fragments before c and no other ... *)
Reached(c) ==
    /\ c = 1 => Place = 0
    /\ c > 1 => \E e \in 1 .. Place :
                  /\ At(e, c - 1, Size(c - 1))
                  /\ \/ e = Place
                     \/ /\ Place \in Boundary /\ Place - e < kHeaderSize
                        /\ Place < Len(file) => c <= Len(frags) /\ At(Place + 1, c, 1)

(* ... has returned the records that were complete there ... *)
Held(c) ==
    /\ out = [r \in 1 .. Count(c) |-> Content(r)]
    /\ inFragmented <=> c > 1 /\ ~Ends(c - 1)
    /\ inFragmented => scratch = Upto(c - 1)

(* ... and its buffer is the rest of a block, or of the file. *)
BufferInBlock ==
    /\ \E s \in Boundary : s <= Place /\ pos <= s + kBlockSize
    /\ eof => pos = Len(file)
    /\ ~eof => pos \in Boundary

CleanReader ==
    /\ reports = 0 /\ BufferInBlock
    /\ \E c \in 1 .. Len(frags) + 1 : Reached(c) /\ Held(c)

(* The next fragment begins a record just when the last one ended one. *)
LEMMA CountIs ==
    ASSUME LogInv, CleanRecords, NEW c \in 1 .. Len(frags)
    PROVE  /\ Count(c) = frags[c].record - 1 /\ Count(c) \in Nat
           /\ Begins(c) <=> ~(c > 1 /\ ~Ends(c - 1))
<1>1. LTypeInv /\ Pieces /\ RecordsInOrder /\ InTurn
  BY DEF LogInv, FragsInv, CleanRecords
<1>2. /\ c \in Nat /\ c > 0 /\ Len(frags) > 0 /\ Len(frags) \in Nat
      /\ frags[c].record \in 1 .. Len(records) /\ Len(records) \in Nat
      /\ ~Begins(c) => c > 1 /\ frags[c].record = frags[c - 1].record
  BY <1>1, LengthTypes DEF Pieces
<1>3. CASE c = 1
  BY <1>1, <1>2, <1>3 DEF InTurn, Count
<1>4. CASE c > 1
  <2>1. PICK d \in 1 .. Len(frags) - 1 : d = c - 1
    BY <1>2, <1>4
  <2>2. d \in 1 .. Len(frags) /\ d + 1 = c /\ d < c /\ c # 1
    BY <1>2, <1>4, <2>1
  <2>3. IF Ends(d) THEN frags[c].record = frags[d].record + 1 ELSE ~Begins(c)
    BY <1>1, <2>1, <2>2 DEF InTurn
  <2>4. frags[d].record \in Nat /\ frags[d].record > 0
    BY <1>1, <1>2, <2>2 DEF Pieces
  <2>5. Count(c) = IF Ends(d) THEN frags[d].record ELSE frags[d].record - 1
    BY <2>1, <2>2 DEF Count
  <2>6. CASE Ends(d)
    <3>1. frags[c].record # frags[d].record
      BY <2>3, <2>4, <2>6
    <3>2. Begins(c)
      BY <1>2, <2>1, <3>1
    <3> QED BY <2>1, <2>3, <2>4, <2>5, <2>6, <3>2
  <2>7. CASE ~Ends(d)
    BY <1>2, <1>4, <2>1, <2>3, <2>4, <2>5, <2>7
  <2> QED BY <2>6, <2>7
<1> QED BY <1>2, <1>3, <1>4

(* A header's worth of bytes in the buffer: fragment c is at its front. *)
LEMMA FrontIsNext ==
    ASSUME LogInv, CleanFile, BufferInBlock, NEW c \in 1 .. Len(frags) + 1, Reached(c),
           Len(buffer) >= kHeaderSize
    PROVE  /\ c \in 1 .. Len(frags) /\ At(Place + 1, c, 1)
           /\ \A k \in 1 .. Size(c) : k <= Len(buffer) => buffer[k] = Byte(c, k)
           /\ ~eof => Size(c) <= Len(buffer)
           /\ HeaderWhole /\ Fragment = frags[c]
<1>0. LTypeInv
  BY DEF LogInv
<1>1. /\ Place \in Nat /\ pos \in Nat /\ Len(buffer) \in Nat /\ Len(file) \in Nat /\ pos = Place + Len(buffer)
      /\ pos <= Len(file) /\ Place < pos /\ Place < Len(file) /\ Len(frags) \in Nat /\ c \in Nat
  BY <1>0, PlaceTypes, LengthTypes, Sizes
<1>2. c \in 1 .. Len(frags) /\ At(Place + 1, c, 1)
  <2>1. CASE c = 1
    BY <1>1, <2>1 DEF CleanFile, StartsAtOnce, Reached
  <2>2. CASE c > 1
    <3>1. PICK e \in 1 .. Place :
                  /\ At(e, c - 1, Size(c - 1))
                  /\ \/ e = Place
                     \/ c <= Len(frags) /\ At(Place + 1, c, 1)
      BY <1>1, <2>2 DEF Reached
    <3>2. CASE e = Place
      <4>1. PICK d \in 1 .. Len(frags) : d = c - 1
        BY <1>1, <2>2
      <4>2. At(Place, d, Size(d)) /\ Place \in 1 .. Len(file)
        BY <3>1, <3>2, <4>1 DEF At
      <4>3. PICK x \in Nat : d < Len(frags) /\ Follows(Place, x) /\ (x < Len(file) => At(x + 1, d + 1, 1))
        BY <1>1, <4>2 DEF CleanFile, NextFollows
      <4>4. x = Place
        <5> SUFFICES ASSUME x \in Boundary, Place < x, x - Place < kHeaderSize PROVE FALSE
          BY <4>3 DEF Follows
        <5>1. PICK s \in Boundary : s <= Place /\ pos <= s + kBlockSize
          BY DEF BufferInBlock
        <5>2. s \in Nat /\ s < x
          BY <1>1, <5>1, Boundaries
        <5>3. s + kBlockSize <= x
          BY <5>1, <5>2, Boundaries
        <5> QED BY <1>1, <5>1, <5>2, <5>3, Sizes
      <4> QED BY <1>1, <2>2, <4>1, <4>3, <4>4
    <3> QED BY <1>1, <3>1, <3>2
  <2> QED BY <1>1, <2>1, <2>2
<1>3. Size(c) \in Nat /\ Size(c) >= kHeaderSize /\ frags[c] \in Frag
  BY <1>0, <1>2, LengthTypes
<1>4. ASSUME NEW k \in 1 .. Size(c), k <= Len(buffer) PROVE buffer[k] = Byte(c, k)
  <2>1. (Place + 1) - 1 + k = Place + k /\ Place + k <= Len(file) /\ k \in 1 .. Len(buffer) /\ Place + 1 \in 1 .. Len(file)
    BY <1>1, <1>3, <1>4
  <2>2. At((Place + 1) - 1 + k, c, k)
    BY <1>2, <2>1 DEF CleanFile, Unbroken
  <2>3. buffer[k] = file[Place + k]
    BY <1>0, <2>1 DEF LTypeInv, ReaderTypeOK, Place
  <2> QED BY <2>1, <2>2, <2>3 DEF At
<1>5. ASSUME ~eof PROVE Size(c) <= Len(buffer)
  <2>1. Place + 1 \in 1 .. Len(file)
    BY <1>1
  <2>2. PICK b \in Boundary : b < Place + 1 /\ (Place + 1) - 1 + Size(c) <= b + kBlockSize
    BY <1>2, <2>1 DEF CleanFile, InOneBlock
  <2>3. b \in Nat /\ pos \in Boundary /\ b < pos
    BY <1>1, <1>5, <2>2, Boundaries DEF BufferInBlock
  <2>4. b + kBlockSize <= pos
    BY <2>3, Boundaries
  <2> QED BY <1>1, <1>3, <2>2, <2>3, <2>4, Sizes
<1>6. \A k \in 1 .. kHeaderSize : buffer[k] = <<"header", c, k>>
  <2> SUFFICES ASSUME NEW k \in 1 .. kHeaderSize PROVE buffer[k] = <<"header", c, k>>
    OBVIOUS
  <2>1. k \in 1 .. Size(c) /\ k <= Len(buffer) /\ k <= kHeaderSize
    BY <1>1, <1>3, Sizes
  <2> QED BY <1>4, <2>1 DEF Byte
<1>7. 1 \in 1 .. kHeaderSize
  BY Sizes
<1>8. buffer[1] = <<"header", c, 1>>
  BY <1>6, <1>7
<1>9. buffer[1][1] = "header" /\ buffer[1][2] = c
  BY <1>8
<1> QED BY <1>2, <1>4, <1>5, <1>6, <1>9 DEF HeaderWhole, Fragment

(* Where the bytes of the next fragment can be *)
LEMMA NextIsBehind ==
    ASSUME LogInv, NEW c \in 1 .. Len(frags), Reached(c), NEW q, At(q, c, Size(c))
    PROVE  q >= Place + kHeaderSize
<1>0. LTypeInv /\ InOrder /\ FromFirst
  BY DEF LogInv, FileInv
<1>1. /\ Place \in Nat /\ Len(file) \in Nat /\ c \in Nat /\ c > 0 /\ Len(frags) \in Nat
      /\ \A k \in 1 .. Len(frags) : Size(k) \in Nat /\ Size(k) >= kHeaderSize /\ Size(k) > 0
  BY <1>0, PlaceTypes, LengthTypes, Sizes
<1>2. PICK p : p = q - Size(c) + 1
  OBVIOUS
<1>3. At(p, c, 1)
  <2>1. Size(c) \in 1 .. Size(c) /\ 1 \in 1 .. Size(c) /\ q \in 1 .. Len(file)
    BY <1>1 DEF At
  <2> QED BY <1>0, <1>2, <2>1 DEF FromFirst
<1>4. p \in 1 .. Len(file) /\ q \in 1 .. Len(file)
  BY <1>3 DEF At
<1>5. CASE c = 1
  BY <1>1, <1>2, <1>4, <1>5, Sizes DEF Reached
<1>6. CASE c > 1
  <2>1. PICK d \in 1 .. Len(frags) : d = c - 1
    BY <1>1, <1>6
  <2>2. PICK e \in 1 .. Place :
                  /\ At(e, d, Size(d))
                  /\ \/ e = Place
                     \/ /\ Place - e < kHeaderSize
                        /\ Place < Len(file) => At(Place + 1, c, 1)
    BY <1>6, <2>1 DEF Reached
  <2>3. e < p
    <3>1. ~(p < e)
      <4> SUFFICES ASSUME p < e PROVE FALSE
        OBVIOUS
      <4>1. 1 \in 1 .. Size(c) /\ Size(d) \in 1 .. Size(d) /\ e \in 1 .. Len(file)
        BY <1>1, <2>2 DEF At
      <4>2. c <= d
        BY <1>0, <1>3, <1>4, <2>2, <4>1 DEF InOrder
      <4> QED BY <1>1, <2>1, <4>2
    <3>2. p # e
      <4> SUFFICES ASSUME p = e PROVE FALSE
        OBVIOUS
      <4>1. Byte(c, 1) = Byte(d, Size(d))
        BY <1>3, <2>2 DEF At
      <4>2. c = d
        BY <1>1, <4>1, BytesDiffer
      <4> QED BY <1>1, <2>1, <4>2
    <3> QED BY <1>4, <3>1, <3>2
  <2>4. CASE e = Place
    BY <1>1, <1>2, <1>4, <2>3, <2>4, Sizes
  <2>5. CASE Place < Len(file) /\ At(Place + 1, c, 1)
    <3>1. q = (Place + 1) - 1 + Size(c)
      BY <1>0, <2>5, Extent
    <3> QED BY <1>1, <3>1, Sizes
  <2>6. CASE Place - e < kHeaderSize /\ ~(Place < Len(file))
    BY <1>1, <1>2, <1>4, <2>3, <2>6, Sizes
  <2> QED BY <2>2, <2>4, <2>5, <2>6
<1> QED BY <1>1, <1>5, <1>6

(* A new block: the fragment before c ends the last block, but for its     *)
(* trailer.                                                                *)
LEMMA BlockClean ==
    ASSUME LogInv, CleanFile, CleanReader, ReadBlock
    PROVE  CleanReader'
<1>0. LTypeInv
  BY DEF LogInv
<1>1. /\ Place \in Nat /\ pos \in Nat /\ Len(buffer) \in Nat /\ Len(file) \in Nat
      /\ Place <= pos /\ pos = Place + Len(buffer) /\ pos <= Len(file) /\ Len(frags) \in Nat
  BY <1>0, PlaceTypes, LengthTypes
<1>2. /\ phase = "read" /\ ~eof /\ Len(buffer) < kHeaderSize
      /\ file' = file /\ frags' = frags /\ records' = records
      /\ scratch' = scratch /\ inFragmented' = inFragmented /\ out' = out /\ reports' = reports
  BY DEF ReadBlock, writerVars
<1>3. /\ pos' \in Nat /\ pos' <= pos + kBlockSize /\ Place' = pos
      /\ eof' => pos' = Len(file)
      /\ ~eof' => pos' = pos + kBlockSize
  <2>1. /\ pos' \in Nat /\ pos' <= pos + kBlockSize /\ Len(buffer') = pos' - pos
        /\ eof' => pos' = Len(file)
        /\ ~eof' => pos' = pos + kBlockSize
    BY <1>0, BlockRead
  <2>2. pos' - (pos' - pos) = pos
    BY <1>1, <2>1
  <2>3. Place' = pos
    BY <2>1, <2>2 DEF Place
  <2> QED BY <2>1, <2>3
<1>4. pos \in Boundary /\ pos + kBlockSize \in Boundary /\ pos - Place < kHeaderSize
  BY <1>1, <1>2, Boundaries DEF CleanReader, BufferInBlock
<1>5. BufferInBlock'
  BY <1>1, <1>2, <1>3, <1>4 DEF BufferInBlock, Boundary
<1>6. PICK c \in 1 .. Len(frags) + 1 : Reached(c) /\ Held(c)
  BY DEF CleanReader
<1>7. Held(c)'
  BY <1>2, <1>6 DEF Held, Count, Content, Upto, Ends
<1>8. Reached(c)'
  <2>0. ASSUME NEW x \in Boundary, Place <= x, x - Place < kHeaderSize PROVE x = pos
    <3>1. x \in Nat
      BY <2>0, Boundaries
    <3>2. x < pos => x + kBlockSize <= pos
      BY <1>4, Boundaries
    <3>3. pos < x => pos + kBlockSize <= x
      BY <1>4, Boundaries
    <3> QED BY <1>1, <1>4, <2>0, <3>1, <3>2, <3>3, Sizes
  <2>1. CASE c = 1
    <3>1. Place = 0 /\ 0 \in Boundary
      BY <1>6, <2>1, Boundaries DEF Reached
    <3>2. pos = 0
      BY <2>0, <3>1, Sizes
    <3> QED BY <1>3, <2>1, <3>2 DEF Reached
  <2>2. CASE c > 1
    <3>1. PICK e \in 1 .. Place :
                  /\ At(e, c - 1, Size(c - 1))
                  /\ \/ e = Place
                     \/ /\ Place \in Boundary /\ Place - e < kHeaderSize
                        /\ Place < Len(file) => c <= Len(frags) /\ At(Place + 1, c, 1)
      BY <1>6, <2>2 DEF Reached
    <3>2. PICK d \in 1 .. Len(frags) : d = c - 1 /\ d + 1 = c
      BY <1>1, <2>2
    <3>3. \/ e = pos
          \/ /\ pos \in Boundary /\ pos - e < kHeaderSize
             /\ pos < Len(file) => c <= Len(frags) /\ At(pos + 1, c, 1)
      <4>1. CASE Place \in Boundary
        <5>1. Place = pos
          BY <1>1, <2>0, <4>1, Sizes
        <5> QED BY <3>1, <5>1
      <4>2. CASE e = Place /\ Place = pos
        BY <4>2
      <4>3. CASE e = Place /\ Place < pos
        <5>1. Place \in 1 .. Len(file) /\ Place < Len(file) /\ At(Place, d, Size(d))
          BY <1>1, <3>1, <3>2, <4>3
        <5>2. PICK x \in Nat : d < Len(frags) /\ Follows(Place, x) /\ (x < Len(file) => At(x + 1, c, 1))
          BY <3>2, <5>1 DEF CleanFile, NextFollows
        <5>3. x # Place
          <6> SUFFICES ASSUME x = Place PROVE FALSE
            OBVIOUS
          <6>1. At(Place + 1, c, 1) /\ c \in 1 .. Len(frags) /\ Place + 1 \in 1 .. Len(file)
            BY <1>1, <3>2, <5>1, <5>2
          <6>2. PICK b \in Boundary : b < Place + 1 /\ (Place + 1) - 1 + Size(c) <= b + kBlockSize
            BY <6>1 DEF CleanFile, InOneBlock
          <6>3. b \in Nat /\ b < pos
            BY <1>1, <4>3, <6>2, Boundaries
          <6>4. b + kBlockSize <= pos
            BY <1>4, <6>3, Boundaries
          <6>5. Size(c) \in Nat /\ Size(c) >= kHeaderSize
            BY <1>0, <6>1, LengthTypes
          <6> QED BY <1>1, <1>4, <6>2, <6>3, <6>4, <6>5, Sizes
        <5>4. x = pos
          BY <2>0, <5>1, <5>2, <5>3 DEF Follows
        <5> QED BY <1>1, <1>4, <3>2, <4>3, <5>2, <5>4
      <4> QED BY <1>1, <3>1, <4>1, <4>2, <4>3
    <3>4. e \in 1 .. pos
      BY <1>1
    <3> QED BY <1>2, <1>3, <2>2, <3>1, <3>3, <3>4 DEF Reached, At, Byte, Size, Boundary
  <2> QED BY <1>1, <2>1, <2>2
<1> QED BY <1>2, <1>5, <1>6, <1>7, <1>8 DEF CleanReader

LEMMA OneMore ==
    ASSUME NEW k \in Nat
    PROVE  Append([r \in 1 .. k |-> Content(r)], Content(k + 1)) = [r \in 1 .. k + 1 |-> Content(r)]
<1> DEFINE S == {Content(r) : r \in 1 .. k + 1}
           x == [r \in 1 .. k |-> Content(r)]
           y == [r \in 1 .. k + 1 |-> Content(r)]
<1> HIDE DEF S
<1>1. \A r \in 1 .. k + 1 : Content(r) \in S
  BY DEF S
<1>2. x \in Seq(S) /\ Len(x) = k /\ Content(k + 1) \in S
  BY <1>1
<1>3. y \in Seq(S) /\ Len(y) = k + 1
  BY <1>1
<1>4. \A r \in 1 .. k : x[r] = Content(r)
  OBVIOUS
<1>5. \A r \in 1 .. k + 1 : y[r] = Content(r)
  OBVIOUS
<1> HIDE DEF x, y
<1>6. Append(x, Content(k + 1)) = y
  BY <1>2, <1>3, <1>4, <1>5
<1> QED BY <1>6 DEF x, y

(* Fragment c goes on where the reader is, or begins a record.  It is      *)
(* taken, and the reader has reached the next.                             *)
LEMMA FragmentClean ==
    ASSUME LogInv, CleanRecords, CleanFile, CleanReader, ReadFragment
    PROVE  CleanReader'
<1>0. LTypeInv /\ FragsInv
  BY DEF LogInv
<1>1. PICK c \in 1 .. Len(frags) + 1 : Reached(c) /\ Held(c)
  BY DEF CleanReader
<1>2. c \in 1 .. Len(frags) /\ At(Place + 1, c, 1) /\ Fragment = frags[c]
  BY <1>1, FrontIsNext DEF CleanReader, ReadFragment
<1> DEFINE f == frags[c]
<1>3. /\ f \in Frag /\ f.record \in Nat /\ Size(c) \in Nat /\ Size(c) > 0 /\ Size(c) = kHeaderSize + f.length
      /\ Assemble(f) /\ Len(frags) \in Nat
  BY <1>0, <1>2, LengthTypes, Sizes DEF Size, ReadFragment
<1>4. /\ Place \in Nat /\ pos \in Nat /\ Len(buffer) \in Nat /\ Len(file) \in Nat
      /\ pos = Place + Len(buffer) /\ pos <= Len(file)
  BY <1>0, PlaceTypes
<1>5. /\ file' = file /\ frags' = frags /\ records' = records /\ pos' = pos /\ eof' = eof
      /\ Place' = Place + Size(c) /\ Size(c) <= Len(buffer)
  <2>1. /\ UNCHANGED writerVars /\ pos' = pos /\ eof' = eof
        /\ Len(buffer') = Len(buffer) - Size(c) /\ Size(c) <= Len(buffer)
    BY <1>0, <1>2, <1>3, FragmentRead
  <2>2. pos' = pos /\ Len(buffer') = Len(buffer) - Size(c) /\ Size(c) \in Nat
    BY <1>3, <2>1
  <2>3. pos - (Len(buffer) - Size(c)) = Place + Size(c)
    BY <1>4, <2>2
  <2>4. Place' = Place + Size(c)
    BY <2>2, <2>3 DEF Place
  <2> QED BY <2>1, <2>4 DEF writerVars
<1>6. At(Place + Size(c), c, Size(c))
  <2>0. Size(c) \in Nat /\ Size(c) > 0 /\ Size(c) <= Len(buffer)
    BY <1>3, <1>5
  <2>1. /\ Place + 1 \in 1 .. Len(file) /\ Size(c) \in 1 .. Size(c)
        /\ (Place + 1) - 1 + Size(c) = Place + Size(c) /\ Place + Size(c) <= Len(file)
    BY <1>4, <2>0
  <2> QED BY <1>2, <2>1 DEF CleanFile, Unbroken
<1>7. BufferInBlock'
  <2>1. PICK s \in Boundary : s <= Place /\ pos <= s + kBlockSize
    BY DEF CleanReader, BufferInBlock
  <2>2. s \in Nat
    BY <2>1, Boundaries
  <2>3. s <= Place'
    BY <1>3, <1>4, <1>5, <2>1, <2>2
  <2> QED BY <1>5, <2>1, <2>3 DEF CleanReader, BufferInBlock, Boundary
<1>8. PICK n \in 1 .. Len(frags) + 1 : n = c + 1 /\ n - 1 = c /\ n > 1
  BY <1>2, <1>3
<1>9. Reached(n)'
  <2>1. PICK e : e = Place + Size(c)
    OBVIOUS
  <2>2. Size(c) \in Nat /\ Size(c) > 0
    BY <1>3
  <2>3. Place' = e /\ e \in 1 .. e
    BY <1>4, <1>5, <2>1, <2>2
  <2>4. At(e, c, Size(c))'
    BY <1>5, <1>6, <2>1 DEF At, Byte, Size
  <2>5. At(e, n - 1, Size(n - 1))'
    BY <1>8, <2>4
  <2> QED BY <1>8, <2>3, <2>5 DEF Reached
<1>10. PICK k \in Nat : k = f.record - 1 /\ Count(c) = k /\ k + 1 = f.record
  BY <1>2, <1>3, CountIs
<1>11. inFragmented <=> ~Begins(c)
  BY <1>1, <1>2, CountIs DEF Held
<1>12. inFragmented => c > 1 /\ scratch = Upto(c - 1)
  BY <1>1 DEF Held
<1>13. /\ Count(n)' = IF Ends(c) THEN k + 1 ELSE k
       /\ (inFragmented' <=> n > 1 /\ ~Ends(n - 1)') <=> (inFragmented' <=> ~Ends(c))
       /\ Upto(n - 1)' = Upto(c)
       /\ \A r : Content(r)' = Content(r)
  BY <1>5, <1>8, <1>10 DEF Count, Ends, Upto, Content
<1>14. /\ out' = IF Ends(c) THEN Append(out, Upto(c)) ELSE out
       /\ inFragmented' <=> ~Ends(c)
       /\ inFragmented' => scratch' = Upto(c)
       /\ reports' = reports
  <2>1. f.type \in {"full", "first", "middle", "last"}
    BY <1>3 DEF Frag, Types
  <2>2. ~Begins(c) => scratch \o Payload(f) = Upto(c)
    BY <1>0, <1>2, <1>11, <1>12, FragmentAdds
  <2>3. Begins(c) => Payload(f) = Upto(c)
    BY <1>0, <1>2, FragmentAdds
  <2>4. CASE f.type = "full"
    BY <1>0, <1>3, <1>11, <2>3, <2>4, Assembled DEF Begins, Ends
  <2>5. CASE f.type = "first"
    BY <1>0, <1>3, <1>11, <2>3, <2>5, Assembled DEF Begins, Ends
  <2>6. CASE f.type = "middle"
    BY <1>0, <1>3, <1>11, <2>2, <2>6, Assembled DEF Begins, Ends
  <2>7. CASE f.type = "last"
    BY <1>0, <1>3, <1>11, <2>2, <2>7, Assembled DEF Begins, Ends
  <2> QED BY <2>1, <2>4, <2>5, <2>6, <2>7
<1>15. out' = [r \in 1 .. Count(n)' |-> Content(r)]
  <2>1. out = [r \in 1 .. k |-> Content(r)]
    BY <1>1, <1>10 DEF Held
  <2>2. CASE Ends(c)
    <3>1. Upto(c) = Content(k + 1)
      BY <1>0, <1>2, <1>10, <2>2, FragmentAdds
    <3> QED BY <1>13, <1>14, <2>1, <2>2, <3>1, OneMore
  <2>3. CASE ~Ends(c)
    BY <1>13, <1>14, <2>1, <2>3
  <2> QED BY <2>2, <2>3
<1>16. Held(n)'
  BY <1>13, <1>14, <1>15 DEF Held
<1> QED BY <1>5, <1>7, <1>8, <1>9, <1>14, <1>16 DEF CleanReader

(* Which fragments are in the file, and which records *)
InFile(i) == \E q : At(q, i, Size(i))

LEMMA InFileIs ==
    ASSUME LogInv, NEW i \in 1 .. Len(frags)
    PROVE  InFile(i) <=> \A n \in 1 .. Len(Bytes(i, frags[i].length)) :
                             Contains(file, Bytes(i, frags[i].length)[n])
<1>0. LTypeInv /\ FromFirst
  BY DEF LogInv, FileInv
<1>1. i \in Nat /\ frags[i].length \in Nat /\ Size(i) \in Nat /\ Size(i) > 0 /\ Size(i) = kHeaderSize + frags[i].length
  BY <1>0, LengthTypes, Sizes DEF Size
<1>2. /\ Len(Bytes(i, frags[i].length)) = Size(i)
      /\ \A n \in 1 .. Size(i) : Bytes(i, frags[i].length)[n] = Byte(i, n)
  BY <1>1, BytesAre
<1>3. \A n : Contains(file, Byte(i, n)) <=> \E q : At(q, i, n)
  BY DEF Contains, At
<1>4. ASSUME InFile(i), NEW n \in 1 .. Size(i) PROVE \E p : At(p, i, n)
  <2>1. PICK q : At(q, i, Size(i))
    BY <1>4 DEF InFile
  <2>2. q \in 1 .. Len(file) /\ Size(i) \in 1 .. Size(i)
    BY <1>1, <2>1 DEF At
  <2>3. At(q - Size(i) + n, i, n)
    BY <1>0, <2>1, <2>2 DEF FromFirst
  <2> QED BY <2>3
<1>5. Size(i) \in 1 .. Size(i)
  BY <1>1
<1> QED BY <1>2, <1>3, <1>4, <1>5 DEF InFile

LEMMA WholeRecordsAre ==
    ASSUME LogInv, NEW r
    PROVE  r \in WholeRecords <=> /\ r \in 1 .. Len(records) /\ records[r].status = "ok"
                                  /\ \A i \in 1 .. Len(frags) : frags[i].record = r => InFile(i)
<1>1. DOMAIN records = 1 .. Len(records) /\ DOMAIN frags = 1 .. Len(frags)
  BY DEF LogInv, LTypeInv, WriterTypeOK
<1> QED BY <1>1, InFileIs DEF WholeRecords

(* The fragments before c are in the file, and c is not: then the records  *)
(* that are complete before c are in the file, and no other.               *)
LEMMA Stopped ==
    ASSUME LogInv, CleanRecords, CleanFile, NEW c \in 1 .. Len(frags) + 1, Reached(c),
           c \in 1 .. Len(frags) => ~InFile(c)
    PROVE  Cardinality(WholeRecords) = Count(c)
<1>0. LTypeInv /\ Pieces /\ RecordsInOrder /\ Finished
  BY DEF LogInv, FragsInv, CleanRecords
<1>1. /\ Len(frags) \in Nat /\ Len(records) \in Nat /\ c \in Nat /\ c > 0
      /\ \A i \in 1 .. Len(frags) : Size(i) \in 1 .. Size(i)
      /\ \A i \in 1 .. Len(frags) : frags[i].record \in 1 .. Len(records)
  <2>1. Len(frags) \in Nat /\ Len(records) \in Nat
    BY <1>0, LengthTypes
  <2>2. ASSUME NEW i \in 1 .. Len(frags) PROVE Size(i) \in 1 .. Size(i)
    <3>1. Size(i) \in Nat /\ Size(i) >= kHeaderSize
      BY <1>0, LengthTypes
    <3> QED BY <3>1, Sizes
  <2>3. \A i \in 1 .. Len(frags) : frags[i].record \in 1 .. Len(records)
    BY <1>0 DEF Pieces
  <2> QED BY <2>1, <2>2, <2>3
<1>2. ASSUME NEW i \in 1 .. Len(frags), NEW j \in 1 .. Len(frags), i < j, InFile(j) PROVE InFile(i)
  <2>1. PICK p : At(p, j, Size(j))
    BY <1>2 DEF InFile
  <2>2. p \in 1 .. Len(file) /\ Size(j) \in 1 .. Size(j)
    BY <1>1, <2>1 DEF At
  <2>3. \E q \in 1 .. p - 1 : At(q, i, Size(i))
    BY <1>2, <2>1, <2>2 DEF CleanFile, AllBefore
  <2> QED BY <2>3 DEF InFile
<1>3. ASSUME NEW i \in 1 .. Len(frags) PROVE InFile(i) <=> i < c
  <2>1. ASSUME InFile(i) PROVE i < c
    <3> SUFFICES ASSUME c <= i PROVE FALSE
      BY <1>1
    <3>1. c \in 1 .. Len(frags) /\ (c = i \/ c < i)
      BY <1>1
    <3>2. InFile(c)
      BY <1>2, <2>1, <3>1
    <3> QED BY <3>1, <3>2
  <2>2. ASSUME i < c PROVE InFile(i)
    <3>1. PICK d \in 1 .. Len(frags) : d = c - 1 /\ (i = d \/ i < d)
      BY <1>1, <2>2
    <3>2. InFile(d)
      BY <1>1, <2>2, <3>1 DEF Reached, InFile
    <3> QED BY <1>2, <3>1, <3>2
  <2> QED BY <2>1, <2>2
<1>4. \A r : r \in WholeRecords <=> /\ r \in 1 .. Len(records) /\ records[r].status = "ok"
                                    /\ \A i \in 1 .. Len(frags) : frags[i].record = r => i < c
  BY <1>3, WholeRecordsAre
<1>5. ASSUME NEW r \in WholeRecords
      PROVE  r \in 1 .. Len(records) /\ \E i \in 1 .. Len(frags) : frags[i].record = r /\ Ends(i) /\ i < c
  BY <1>0, <1>4 DEF Finished
<1>6. CASE c = 1
  <2>1. WholeRecords = {}
    BY <1>1, <1>5, <1>6
  <2> QED BY <1>6, <2>1, FS_EmptySet DEF Count
<1>7. CASE c > 1
  <2>1. PICK d \in 1 .. Len(frags) : d = c - 1 /\ d < c
    BY <1>1, <1>7
  <2>2. PICK R \in 1 .. Len(records) : R = frags[d].record
    BY <1>1
  <2>3. Count(c) = (IF Ends(d) THEN R ELSE R - 1) /\ Count(c) \in Nat /\ Count(c) <= R
    BY <1>1, <1>7, <2>1, <2>2 DEF Count
  <2>4. ASSUME NEW i \in 1 .. Len(frags)
        PROVE  /\ i < d => frags[i].record <= R /\ (Ends(i) => frags[i].record < R)
               /\ d < i => R <= frags[i].record /\ (Ends(d) => R < frags[i].record)
               /\ i < c <=> i = d \/ i < d
    BY <1>0, <1>1, <2>1, <2>2 DEF RecordsInOrder
  <2>5. ASSUME NEW r \in WholeRecords PROVE r \in 1 .. Count(c)
    <3>1. PICK i \in 1 .. Len(frags) : frags[i].record = r /\ Ends(i) /\ i < c
      BY <1>5, <2>5
    <3>2. r \in 1 .. Len(records)
      BY <1>5, <2>5
    <3>3. CASE i = d
      BY <1>1, <2>2, <2>3, <3>1, <3>2, <3>3
    <3>4. CASE i < d
      <4>1. r < R
        BY <2>4, <3>1, <3>4
      <4> QED BY <1>1, <2>3, <3>2, <4>1
    <3> QED BY <2>4, <3>1, <3>3, <3>4
  <2>6. ASSUME NEW r \in 1 .. Count(c) PROVE r \in WholeRecords
    <3>1. r \in 1 .. Len(records) /\ r <= R /\ (r = R => Ends(d))
      BY <1>1, <2>3
    <3>2. records[r].status = "ok"
      <4>1. CASE r = R
        BY <1>0, <2>2, <3>1, <4>1 DEF Finished
      <4>2. CASE r < R
        <5>1. r # Len(records)
          BY <1>1, <3>1, <4>2
        <5> QED BY <1>0, <3>1, <5>1 DEF Finished
      <4> QED BY <1>1, <3>1, <4>1, <4>2
    <3>3. ASSUME NEW i \in 1 .. Len(frags), frags[i].record = r PROVE i < c
      <4> SUFFICES ASSUME d < i PROVE FALSE
        BY <1>1, <2>1
      <4>1. R <= r /\ (Ends(d) => R < r)
        BY <2>4, <3>3
      <4> QED BY <1>1, <3>1, <4>1
    <3> QED BY <1>4, <3>1, <3>2, <3>3
  <2>7. WholeRecords = 1 .. Count(c)
    BY <2>5, <2>6
  <2>8. Cardinality(1 .. Count(c)) = Count(c)
    <3>1. PICK k \in Nat : k = Count(c)
      BY <2>3
    <3>2. 1 \in Int /\ k \in Int
      OBVIOUS
    <3>3. Cardinality(1 .. k) = IF 1 > k THEN 0 ELSE k - 1 + 1
      BY <3>2, FS_Interval
    <3>4. Cardinality(1 .. k) = k
      BY <3>3
    <3> QED BY <3>1, <3>4
  <2> QED BY <2>7, <2>8
<1> QED BY <1>1, <1>6, <1>7

(* The reader has come to the end: what is left is no whole fragment. *)
LEMMA EndClean ==
    ASSUME LogInv, CleanRecords, CleanFile, CleanReader, eof,
           ReadEof \/ (ReadTooLong /\ Stop)
    PROVE  PrefixSurvives'
<1>0. LTypeInv /\ InOrder
  BY DEF LogInv, FileInv
<1>1. /\ Place \in Nat /\ pos \in Nat /\ Len(buffer) \in Nat /\ Len(file) \in Nat
      /\ pos = Place + Len(buffer) /\ pos <= Len(file)
  BY <1>0, PlaceTypes
<1>2. PICK c \in 1 .. Len(frags) + 1 : Reached(c) /\ Held(c)
  BY DEF CleanReader
<1>3. pos = Len(file) /\ reports = 0
  BY DEF CleanReader, BufferInBlock
<1>4. /\ file' = file /\ frags' = frags /\ records' = records /\ out' = out /\ reports' = reports
      /\ phase' = "done"
  BY DEF ReadEof, ReadTooLong, Stop, writerVars
<1>5. c \in 1 .. Len(frags) => ~InFile(c)
  <2> SUFFICES ASSUME c \in 1 .. Len(frags), NEW q, At(q, c, Size(c)) PROVE FALSE
    BY DEF InFile
  <2>1. q \in 1 .. Len(file) /\ Size(c) \in Nat
    BY <1>0, LengthTypes DEF At
  <2>2. CASE ReadEof
    <3>1. q >= Place + kHeaderSize /\ Len(buffer) < kHeaderSize
      BY <1>2, <2>2, NextIsBehind DEF ReadEof
    <3> QED BY <1>1, <1>3, <2>1, <3>1, Sizes
  <2>3. CASE ReadTooLong
    <3>1. At(Place + 1, c, 1) /\ Fragment = frags[c]
      BY <1>2, <2>3, FrontIsNext DEF CleanReader, ReadTooLong
    <3>2. Size(c) > Len(buffer)
      BY <2>3, <3>1 DEF ReadTooLong, TooLong, Size
    <3>3. q = (Place + 1) - 1 + Size(c)
      BY <1>0, <3>1, Extent
    <3> QED BY <1>1, <1>3, <2>1, <3>2, <3>3
  <2> QED BY <2>2, <2>3
<1>6. Cardinality(WholeRecords) = Count(c)
  BY <1>2, <1>5, Stopped
<1>7. out = [r \in 1 .. Cardinality(WholeRecords) |-> Content(r)]
  BY <1>2, <1>6 DEF Held
<1>8. WholeRecords' = WholeRecords /\ \A r : Content(r)' = Content(r)
  BY <1>4 DEF WholeRecords, Content
<1> QED BY <1>3, <1>4, <1>7, <1>8 DEF PrefixSurvives

(* No block is dropped: what is at the front of the buffer is a fragment,  *)
(* whole unless the file ends.                                             *)
LEMMA NothingDropped ==
    ASSUME LogInv, CleanFile, CleanReader
    PROVE  ~ReadGarbage /\ ~ReadMismatch /\ (ReadTooLong => eof)
<1>0. LTypeInv
  BY DEF LogInv
<1>1. PICK c \in 1 .. Len(frags) + 1 : Reached(c) /\ Held(c)
  BY DEF CleanReader
<1> SUFFICES ASSUME Len(buffer) >= kHeaderSize
             PROVE  HeaderWhole /\ (~TooLong => ChecksumMatches) /\ (TooLong => eof)
  BY DEF ReadGarbage, ReadMismatch, ReadTooLong
<1>2. /\ c \in 1 .. Len(frags)
      /\ \A k \in 1 .. Size(c) : k <= Len(buffer) => buffer[k] = Byte(c, k)
      /\ ~eof => Size(c) <= Len(buffer)
      /\ HeaderWhole /\ Fragment = frags[c]
  BY <1>1, FrontIsNext DEF CleanReader
<1>3. /\ Size(c) \in Nat /\ frags[c].length \in Nat /\ Size(c) = kHeaderSize + frags[c].length
      /\ Len(buffer) \in Nat
  BY <1>0, <1>2, LengthTypes, PlaceTypes DEF Size
<1>4. TooLong => eof
  BY <1>2, <1>3, Sizes DEF TooLong
<1>5. ASSUME ~TooLong PROVE ChecksumMatches
  <2>1. buffer[1][2] = c
    <3>1. 1 \in 1 .. Size(c) /\ 1 <= Len(buffer) /\ 1 <= kHeaderSize
      BY <1>3, Sizes
    <3>2. buffer[1] = <<"header", c, 1>>
      BY <1>2, <3>1 DEF Byte
    <3> QED BY <3>2
  <2>2. ASSUME NEW k \in 1 .. frags[c].length PROVE buffer[kHeaderSize + k] = <<"data", c, k>>
    <3>1. /\ kHeaderSize + k \in 1 .. Size(c) /\ kHeaderSize + k <= Len(buffer)
          /\ ~(kHeaderSize + k <= kHeaderSize) /\ (kHeaderSize + k) - kHeaderSize = k
      BY <1>2, <1>3, <1>5, Sizes DEF TooLong
    <3> QED BY <1>2, <3>1 DEF Byte
  <2> QED BY <1>2, <2>1, <2>2 DEF ChecksumMatches
<1> QED BY <1>2, <1>4, <1>5

CleanInv ==
    failures = 0 =>
        /\ CleanRecords /\ CleanFile
        /\ phase = "read" => CleanReader
        /\ phase = "done" => PrefixSurvives

(* Where the reading starts *)
LEMMA ReadingStarts == LTypeInv /\ NothingRead => CleanReader
<1> SUFFICES ASSUME LTypeInv, NothingRead PROVE CleanReader
  OBVIOUS
<1>1. pos = 0 /\ Len(buffer) = 0 /\ eof = FALSE /\ inFragmented = FALSE /\ out = <<>> /\ reports = 0
  BY DEF NothingRead
<1>2. Place = 0 /\ Len(frags) \in Nat
  BY <1>1, LengthTypes DEF Place
<1>3. BufferInBlock
  BY <1>1, <1>2, Boundaries, Sizes DEF BufferInBlock
<1>4. Reached(1)
  BY <1>2 DEF Reached
<1>5. Count(1) = 0
  BY DEF Count
<1>6. out = [r \in 1 .. 0 |-> Content(r)]
  BY <1>1
<1>7. Held(1)
  BY <1>1, <1>5, <1>6 DEF Held
<1> QED BY <1>1, <1>2, <1>3, <1>4, <1>7 DEF CleanReader

LEMMA CleanNext == LogInv /\ LogInv' /\ CleanInv /\ [LogNext]_logVars => CleanInv'
<1> SUFFICES ASSUME LogInv, LogInv', CleanInv, [LogNext]_logVars, failures' = 0
             PROVE  /\ CleanRecords' /\ CleanFile'
                    /\ phase' = "read" => CleanReader'
                    /\ phase' = "done" => PrefixSurvives'
  BY DEF CleanInv
<1>0. LTypeInv /\ LTypeInv' /\ FileInv /\ Len(file) \in Nat /\ file \in Seq(AnyByte)
  BY LengthTypes DEF LogInv, LTypeInv, WriterTypeOK
<1>1. failures = 0
  <2>1. CASE EmitPhysicalRecord
    BY <1>0, <2>1, Emitted
  <2>2. CASE ~EmitPhysicalRecord
    BY <1>0, <2>2, ReadType DEF LogNext, AddRecord, Crash, ProcessEnds, logVars, writerVars
  <2> QED BY <2>1, <2>2
<1>2. /\ CleanRecords /\ CleanFile
      /\ phase = "read" => CleanReader
      /\ phase = "done" => PrefixSurvives
  BY <1>1 DEF CleanInv
<1>3. ASSUME frags' = frags, file' = file, WriterAtEnd', phase' = "write" => phase = "write" PROVE CleanFile'
  <2>1. Len(file') \in 0 .. Len(file) /\ \A p \in 1 .. Len(file') : file'[p] = file[p]
    BY <1>0, <1>3
  <2> QED BY <1>0, <1>2, <1>3, <2>1, CleanCut
<1>4. ASSUME NEW n \in Lengths, AddRecord(n)
      PROVE  CleanRecords' /\ CleanFile' /\ phase' = "write"
  <2>1. phase = "write" /\ phase' = "write" /\ frags' = frags /\ file' = file /\ block_offset' = block_offset
    BY <1>4 DEF AddRecord
  <2>2. WriterAtEnd'
    BY <1>2, <2>1 DEF CleanFile, WriterAtEnd, At, Byte, Size, Boundary
  <2> QED BY <1>2, <1>3, <1>4, <2>1, <2>2, AddRecordClean
<1>5. CASE EmitPhysicalRecord
  <2>1. phase' = "write"
    BY <1>5 DEF EmitPhysicalRecord
  <2> QED BY <1>2, <1>5, <2>1, EmitClean, EmitCleanFile
<1>6. CASE Crash \/ ProcessEnds
  <2>1. /\ phase = "write" /\ phase' = "read" /\ UNCHANGED <<records, frags, left, begin>>
        /\ UNCHANGED readerVars
    BY <1>6 DEF Crash, ProcessEnds, writerVars
  <2>2. NothingRead'
    BY <1>0, <2>1 DEF LTypeInv, NothingRead, readerVars
  <2>3. CleanReader'
    BY <1>0, <2>2, ReadingStarts, PTL
  <2>4. WriterAtEnd'
    BY <2>1 DEF WriterAtEnd
  <2>5. Len(file') \in 0 .. Len(file) /\ \A p \in 1 .. Len(file') : file'[p] = file[p]
    <3>1. CASE Crash
      <4>1. PICK n \in 0 .. Len(file) : file' = SubSeq(file, 1, n)
        BY <3>1 DEF Crash
      <4> QED BY <1>0, <4>1, PrefixIs
    <3>2. CASE ProcessEnds
      BY <1>0, <3>2 DEF ProcessEnds, writerVars
    <3> QED BY <1>6, <3>1, <3>2
  <2>6. CleanFile'
    BY <1>0, <1>2, <2>1, <2>4, <2>5, CleanCut
  <2> QED BY <1>2, <2>1, <2>3, <2>6, CleanKept
<1>7. CASE Read
  <2>1. UNCHANGED writerVars /\ phase = "read" /\ phase' # "write"
    BY <1>0, <1>7, ReadType
  <2>2. UNCHANGED <<records, frags, left, begin>> /\ file' = file
    BY <2>1 DEF writerVars
  <2>3. WriterAtEnd'
    BY <2>1 DEF WriterAtEnd
  <2>4. CleanRecords' /\ CleanFile'
    BY <1>2, <1>3, <2>1, <2>2, <2>3, CleanKept
  <2>5. CleanReader
    BY <1>2, <2>1
  <2>6. CASE ReadBlock
    BY <1>2, <2>1, <2>4, <2>5, <2>6, BlockClean DEF ReadBlock
  <2>7. CASE ReadFragment
    BY <1>2, <2>1, <2>4, <2>5, <2>7, FragmentClean DEF ReadFragment
  <2>8. CASE ReadEof
    <3>1. phase' = "done" /\ eof
      BY <2>8 DEF ReadEof, Stop
    <3> QED BY <1>2, <2>4, <2>5, <2>8, <3>1, EndClean
  <2>9. CASE ReadTooLong
    <3>1. eof
      BY <1>2, <2>5, <2>9, NothingDropped
    <3>2. Stop /\ phase' = "done"
      BY <2>9, <3>1 DEF ReadTooLong, Stop
    <3> QED BY <1>2, <2>4, <2>5, <2>9, <3>1, <3>2, EndClean
  <2>10. ~ReadGarbage /\ ~ReadMismatch
    BY <1>2, <2>5, NothingDropped
  <2> QED BY <1>7, <2>6, <2>7, <2>8, <2>9, <2>10 DEF Read
<1>8. CASE UNCHANGED logVars
  <2>1. /\ UNCHANGED <<records, frags, left, begin, file, block_offset, phase, failures>>
        /\ UNCHANGED <<pos, buffer, eof, scratch, inFragmented, out, reports>>
    BY <1>8 DEF logVars, writerVars, readerVars
  <2>2. WriterAtEnd'
    BY <1>2, <2>1 DEF CleanFile, WriterAtEnd, At, Byte, Size, Boundary
  <2>3. CleanRecords' /\ CleanFile'
    BY <1>2, <1>3, <2>1, <2>2, CleanKept
  <2>4. CleanReader => CleanReader'
    <3>1. Place' = Place /\ Boundary' = Boundary
      BY <2>1 DEF Place, Boundary
    <3>2. BufferInBlock => BufferInBlock'
      BY <2>1, <3>1 DEF BufferInBlock
    <3>3. ASSUME NEW c, Reached(c) PROVE Reached(c)'
      BY <2>1, <3>1, <3>3 DEF Reached, At, Byte, Size
    <3>4. ASSUME NEW c, Held(c) PROVE Held(c)'
      BY <2>1, <3>4 DEF Held, Count, Upto, Content, Ends
    <3> QED BY <2>1, <3>2, <3>3, <3>4 DEF CleanReader
  <2>5. PrefixSurvives => PrefixSurvives'
    BY <2>1 DEF PrefixSurvives, WholeRecords, Content
  <2> QED BY <1>2, <2>1, <2>3, <2>4, <2>5
<1> QED BY <1>4, <1>5, <1>6, <1>7, <1>8 DEF LogNext

(* If no append has failed, a reader returns exactly the records that are  *)
(* whole in the file, in their order, wherever the file is cut, and takes  *)
(* the cut for no corruption: for any sizes of blocks, headers and         *)
(* records, where a header need not fit the rest of a block and a fragment *)
(* may be without data.                                                    *)
THEOREM PrefixReturned == LogSpec => []PrefixSurvives
<1>1. LogInit => CleanInv
  BY RecordsCleanInit, CleanFileInit DEF CleanInv, LogInit
<1>2. CleanInv => PrefixSurvives
  BY DEF CleanInv, PrefixSurvives
<1> QED BY <1>1, <1>2, LogInvAlways, LogInvNext, CleanNext, PTL DEF LogSpec
=============================================================================
