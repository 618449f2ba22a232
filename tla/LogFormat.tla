----------------------------- MODULE LogFormat -----------------------------
(***************************************************************************)
(* The format of leveldb's log files (db/log_writer.cc, db/log_reader.cc), *)
(* in which Firestore's local store keeps, on the device, the writes that  *)
(* the backend has not taken yet.                                          *)
(*                                                                         *)
(* A writer cuts records into fragments that do not cross the boundary of  *)
(* a block.  The process or the machine stops at any moment, and a reader  *)
(* reads what is left, block by block.  One step is one fragment.          *)
(*                                                                         *)
(* A byte of the file is the triple of what it belongs to, the number of   *)
(* its fragment and its place there, so that bytes of two fragments are    *)
(* never mistaken for one fragment: the checksum is taken to find that     *)
(* out.  The zero bytes of a trailer are Zero.                             *)
(*                                                                         *)
(* Not modelled: initial_offset_, which every caller of Reader sets to 0.  *)
(***************************************************************************)
EXTENDS Integers, Sequences, FiniteSets, SequencesExt

CONSTANTS kBlockSize, kHeaderSize,
          Lengths,      \* the lengths of records
          MaxRecords,   \* bound: how many records are written
          MaxFailures   \* bound: how many appends fail

ASSUME FormatAssumption ==
    /\ kHeaderSize \in Nat \ {0} /\ kBlockSize \in Nat /\ kBlockSize >= kHeaderSize
    /\ Lengths \subseteq Nat /\ MaxRecords \in Nat /\ MaxFailures \in Nat

VARIABLES
    phase,          \* "write", "read" or "done"
    file,           \* the bytes of the file
    records,        \* the records of the AddRecord calls: length and status
    frags,          \* the fragments emitted: type, record, where it begins, length
    block_offset,   \* of the writer
    left, begin,    \* of the call of AddRecord under way; left is -1 when there is none
    failures,
    pos, buffer, eof,        \* of the reader: how far it has read, and the block at hand
    scratch, inFragmented,   \* of the call of ReadRecord under way
    out,            \* the records that ReadRecord has returned
    reports         \* how often the reporter was told of a corruption

writerVars == <<file, records, frags, block_offset, left, begin, failures>>
readerVars == <<pos, buffer, eof, scratch, inFragmented, out, reports>>
logVars    == <<phase, writerVars, readerVars>>

Zero == <<"zero", 0, 0>>

Types == {"full", "first", "middle", "last"}

LogTypeOK ==
    /\ phase \in {"write", "read", "done"}
    /\ ToSet(file) \cup ToSet(buffer)
         \subseteq {Zero} \cup ({"header", "data"} \X Nat \X Nat)
    /\ records \in Seq([length : Lengths, status : {"writing", "ok", "error"}])
    /\ frags \in Seq([type : Types, record : Nat, from : Nat, length : Nat])
    /\ block_offset \in 0 .. kBlockSize
    /\ left \in -1 .. IF records = <<>> THEN 0 ELSE Last(records).length
    /\ pos \in 0 .. Len(file) /\ Len(buffer) <= kBlockSize
    /\ {begin, eof, inFragmented} \subseteq BOOLEAN
    /\ failures \in 0 .. MaxFailures /\ reports \in Nat

LogInit ==
    /\ phase = "write" /\ file = <<>> /\ records = <<>> /\ frags = <<>>
    /\ block_offset = 0 /\ left = -1 /\ begin = TRUE /\ failures = 0
    /\ pos = 0 /\ buffer = <<>> /\ eof = FALSE
    /\ scratch = <<>> /\ inFragmented = FALSE /\ out = <<>> /\ reports = 0

-----------------------------------------------------------------------------
(* log::Writer *)

(* AddRecord(slice), up to its loop *)
AddRecord(n) ==
    /\ phase = "write" /\ left = -1 /\ Len(records) < MaxRecords
    /\ records' = Append(records, [length |-> n, status |-> "writing"])
    /\ left' = n /\ begin' = TRUE
    /\ UNCHANGED <<phase, file, frags, block_offset, failures, readerVars>>

leftover == kBlockSize - block_offset

(* "Switch to a new block" *)
NewBlock == leftover < kHeaderSize

Trailer == IF NewBlock THEN [i \in 1 .. leftover |-> Zero] ELSE <<>>

StartOffset == IF NewBlock THEN 0 ELSE block_offset

avail == kBlockSize - StartOffset - kHeaderSize

fragment_length == IF left < avail THEN left ELSE avail

(* Mutant: whether the fragment is the last one is asked of the space.     *)
FragmentType_space(first) ==
    LET end == fragment_length < avail
    IN  CASE first /\ end -> "full" [] first /\ ~end -> "first"
          [] ~first /\ end -> "last" [] ~first /\ ~end -> "middle"

FragmentType(first) ==
    LET end == left = fragment_length
    IN  CASE first /\ end -> "full" [] first /\ ~end -> "first"
          [] ~first /\ end -> "last" [] ~first /\ ~end -> "middle"

(* The bytes of fragment number i, of length n *)
Bytes(i, n) == [k \in 1 .. kHeaderSize |-> <<"header", i, k>>]
               \o [k \in 1 .. n |-> <<"data", i, k>>]

(* One turn of the loop of AddRecord, with EmitPhysicalRecord.  Appending  *)
(* can fail at any byte: of the trailer, when the status is not looked at, *)
(* or of the fragment.  The writer's offset moves on in any case.          *)
EmitPhysicalRecord ==
    /\ phase = "write" /\ left >= 0
    /\ LET n     == fragment_length
           bytes == Bytes(Len(frags) + 1, n)
           sent  == Last(records).length - left
       IN  /\ frags' = Append(frags, [type |-> FragmentType(begin), record |-> Len(records),
                                      from |-> sent, length |-> n])
           /\ block_offset' = StartOffset + kHeaderSize + n
           /\ \/ /\ file' = file \o Trailer \o bytes
                 /\ left' = IF left = n THEN -1 ELSE left - n
                 /\ records' = IF left = n THEN [records EXCEPT ![Len(records)].status = "ok"]
                               ELSE records
                 /\ UNCHANGED failures
              \/ /\ failures < MaxFailures /\ failures' = failures + 1
                 /\ \E k \in 0 .. Len(bytes) : file' = file \o Trailer \o SubSeq(bytes, 1, k)
                 /\ left' = -1
                 /\ records' = [records EXCEPT ![Len(records)].status = "error"]
              \/ /\ failures < MaxFailures /\ failures' = failures + 1
                 /\ \E k \in 0 .. Len(Trailer) - 1 : file' = file \o SubSeq(Trailer, 1, k) \o bytes
                 /\ left' = IF left = n THEN -1 ELSE left - n
                 /\ records' = IF left = n THEN [records EXCEPT ![Len(records)].status = "ok"]
                               ELSE records
    /\ begin' = FALSE
    /\ UNCHANGED <<phase, readerVars>>

(* The process ends: what was appended is in the file.  Or the machine     *)
(* stops, and only a part of the file is on the disk.                      *)
Crash ==
    /\ phase = "write"
    /\ phase' = "read"
    /\ \E n \in 0 .. Len(file) : file' = SubSeq(file, 1, n)
    /\ UNCHANGED <<records, frags, block_offset, left, begin, failures, readerVars>>

ProcessEnds ==
    /\ phase = "write"
    /\ phase' = "read"
    /\ UNCHANGED <<writerVars, readerVars>>

-----------------------------------------------------------------------------
(* log::Reader *)

Stop == phase' = "done" /\ UNCHANGED <<pos, eof, scratch, inFragmented, out, reports>>
        /\ buffer' = <<>>

(* Mutant: a short read is counted as a block. *)
ReadBlock_wholeBlock ==
    /\ phase = "read" /\ Len(buffer) < kHeaderSize /\ ~eof
    /\ buffer' = SubSeq(file, pos + 1, Min({pos + kBlockSize, Len(file)}))
    /\ pos' = pos + kBlockSize
    /\ eof' = (Len(buffer') < kBlockSize)
    /\ UNCHANGED <<phase, writerVars, scratch, inFragmented, out, reports>>

(* ReadPhysicalRecord reads the next block. *)
ReadBlock ==
    /\ phase = "read" /\ Len(buffer) < kHeaderSize /\ ~eof
    /\ buffer' = SubSeq(file, pos + 1, Min({pos + kBlockSize, Len(file)}))
    /\ pos' = pos + Len(buffer')
    /\ eof' = (Len(buffer') < kBlockSize)
    /\ UNCHANGED <<phase, writerVars, scratch, inFragmented, out, reports>>

(* It has reached the end; a truncated header is no error. *)
ReadEof ==
    /\ phase = "read" /\ Len(buffer) < kHeaderSize /\ eof
    /\ Stop
    /\ UNCHANGED writerVars

(* The header at the front of the buffer is one the writer made, and the   *)
(* fragment it is of.                                                      *)
HeaderWhole == /\ buffer[1][1] = "header"
               /\ \A k \in 1 .. kHeaderSize : buffer[k] = <<"header", buffer[1][2], k>>
Fragment == frags[buffer[1][2]]
ZeroHeader == \A k \in 1 .. kHeaderSize : buffer[k] = Zero

TooLong == kHeaderSize + Fragment.length > Len(buffer)

ChecksumMatches ==
    \A k \in 1 .. Fragment.length : buffer[kHeaderSize + k] = <<"data", buffer[1][2], k>>

(* kBadRecord: the rest of the block is dropped, and a record that is      *)
(* being put together is given up.                                         *)
BadRecord(told) ==
    /\ buffer' = <<>>
    /\ reports' = reports + (IF told THEN 1 ELSE 0) + (IF inFragmented THEN 1 ELSE 0)
    /\ inFragmented' = FALSE /\ scratch' = <<>>
    /\ UNCHANGED <<phase, pos, eof, out>>

(* A header that is not whole: its length and type can be anything, also   *)
(* those of a zero record, which is skipped without a report whatever its  *)
(* checksum is.                                                            *)
ReadGarbage ==
    /\ phase = "read" /\ Len(buffer) >= kHeaderSize /\ ~HeaderWhole
    /\ \/ \E told \in BOOLEAN : (ZeroHeader => ~told) /\ BadRecord(told)
       \/ ~ZeroHeader /\ eof /\ Stop
    /\ UNCHANGED writerVars

(* The payload ends beyond the block, or, at the end of the file, is cut.  *)
ReadTooLong ==
    /\ phase = "read" /\ Len(buffer) >= kHeaderSize /\ HeaderWhole /\ TooLong
    /\ IF eof THEN Stop ELSE BadRecord(TRUE)
    /\ UNCHANGED writerVars

ReadMismatch ==
    /\ phase = "read" /\ Len(buffer) >= kHeaderSize /\ HeaderWhole /\ ~TooLong
    /\ ~ChecksumMatches
    /\ BadRecord(TRUE)
    /\ UNCHANGED writerVars

(* The content of a fragment: which byte of which record *)
Payload(f) == [k \in 1 .. f.length |-> <<f.record, f.from + k>>]

Return(bytes) == out' = Append(out, bytes) /\ scratch' = <<>> /\ inFragmented' = FALSE

(* Mutant: the last fragment is returned alone. *)
Assemble_last(f) ==
    CASE f.type = "full" -> Return(Payload(f)) /\ UNCHANGED reports
      [] f.type = "first" -> scratch' = Payload(f) /\ inFragmented' = TRUE /\ UNCHANGED <<out, reports>>
      [] f.type = "middle" -> scratch' = scratch \o Payload(f) /\ UNCHANGED <<inFragmented, out, reports>>
      [] f.type = "last" -> Return(Payload(f)) /\ UNCHANGED reports

(* The switch of ReadRecord on a fragment.  A first fragment without bytes *)
(* may be followed by anything: older writers left such fragments.         *)
Assemble(f) ==
    LET cut == inFragmented /\ scratch # <<>>
    IN  CASE f.type = "full" ->
               Return(Payload(f)) /\ reports' = reports + (IF cut THEN 1 ELSE 0)
          [] f.type = "first" ->
               /\ scratch' = Payload(f) /\ inFragmented' = TRUE
               /\ reports' = reports + (IF cut THEN 1 ELSE 0)
               /\ UNCHANGED out
          [] f.type = "middle" ->
               /\ scratch' = IF inFragmented THEN scratch \o Payload(f) ELSE scratch
               /\ reports' = reports + (IF inFragmented THEN 0 ELSE 1)
               /\ UNCHANGED <<inFragmented, out>>
          [] f.type = "last" /\ inFragmented ->
               Return(scratch \o Payload(f)) /\ UNCHANGED reports
          [] f.type = "last" /\ ~inFragmented ->
               reports' = reports + 1 /\ UNCHANGED <<scratch, inFragmented, out>>

ReadFragment ==
    /\ phase = "read" /\ Len(buffer) >= kHeaderSize /\ HeaderWhole /\ ~TooLong
    /\ ChecksumMatches
    /\ Assemble(Fragment)
    /\ buffer' = SubSeq(buffer, kHeaderSize + Fragment.length + 1, Len(buffer))
    /\ UNCHANGED <<phase, writerVars, pos, eof>>

Read == ReadBlock \/ ReadEof \/ ReadGarbage \/ ReadTooLong \/ ReadMismatch \/ ReadFragment

LogNext ==
    \/ \E n \in Lengths : AddRecord(n)
    \/ EmitPhysicalRecord
    \/ Crash \/ ProcessEnds
    \/ Read

LogSpec == LogInit /\ [][LogNext]_logVars

-----------------------------------------------------------------------------
(* Properties *)

Content(r) == [k \in 1 .. records[r].length |-> <<r, k>>]

(* The records whose bytes are all in the file *)
WholeRecords ==
    LET inFile(i) == \A n \in 1 .. Len(Bytes(i, frags[i].length)) :
                        Contains(file, Bytes(i, frags[i].length)[n])
    IN  {r \in DOMAIN records :
            /\ records[r].status = "ok"
            /\ \A i \in DOMAIN frags : frags[i].record = r => inFile(i)}

(* Wherever the file is cut, a reader returns exactly the records that are *)
(* whole, in the order in which they were written, and takes the cut for   *)
(* no corruption - as long as no append has failed.                        *)
PrefixSurvives ==
    phase = "done" /\ failures = 0 =>
        /\ out = [r \in 1 .. Cardinality(WholeRecords) |-> Content(r)]
        /\ reports = 0

(* Also after appends have failed a reader returns only what was given to  *)
(* AddRecord, never a mixture, and each record once, in order.             *)
NeverForged ==
    \E f \in {g \in [DOMAIN out -> DOMAIN records] :
                \A i, j \in DOMAIN out : i < j => g[i] < g[j]} :
        \A i \in DOMAIN out : out[i] = Content(f[i])

-----------------------------------------------------------------------------
(* What the repository says and the code does not do *)

(* "if it is just the process that crashes (i.e., the machine does not     *)
(* reboot), no writes will be lost even if sync==false"                    *)
(* (include/leveldb/options.h, 194): a record for which AddRecord returned *)
(* OK, and whose bytes are all in the file, is returned by the reader.     *)
NoWritesLost == phase = "done" => \A r \in WholeRecords : Contains(out, Content(r))
=============================================================================
