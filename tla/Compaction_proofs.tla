------------------------- MODULE Compaction_proofs -------------------------
(***************************************************************************)
(* For any keys, any number of levels, updates and snapshots: the types of *)
(* the version's tables; that a compaction keeps in its outputs what every *)
(* read finds in its inputs, whichever snapshots are taken or released     *)
(* before it is installed; and that a search which stops at the first      *)
(* level with the key finds what was written last, where no compaction has *)
(* parted the tables of a key or been installed over another table.        *)
(***************************************************************************)
EXTENDS Compaction, FiniteSetTheorems, WellFoundedInduction, TLAPS

Update == [key : Key, type : {"value", "deletion"}]

Tables == (SUBSET (1 .. LastSequence)) \ {{}}

(* The parts of CompactionTypeOK, and the shape of work *)
DataTypeOK ==
    /\ updates \in Seq(Update)
    /\ mem \in SUBSET (1 .. LastSequence) /\ imm \in SUBSET (1 .. LastSequence)
    /\ snapshots \in Seq(0 .. LastSequence)

FilesTypeOK == files \in [Level -> SUBSET Tables]

WorkTypeOK ==
    /\ work.level \in Level
    /\ work # Idle => work.level + 1 \in Level
    /\ work.kept \subseteq InputEntries
    /\ InputEntries \subseteq 1 .. LastSequence

(* snapshots_.oldest() is the smallest: numbers are taken in their order. *)
SnapshotsSorted ==
    \A i, j \in DOMAIN snapshots : i <= j => snapshots[i] <= snapshots[j]

CInv == DataTypeOK /\ FilesTypeOK /\ WorkTypeOK /\ SnapshotsSorted /\ KeepsVisible

-----------------------------------------------------------------------------
(* The inputs of a compaction are tables of its two levels, however they   *)
(* are chosen.                                                             *)
LEMMA OverlappingInLevel ==
    ASSUME NEW level \in Nat, NEW lo, NEW hi
    PROVE  GetOverlappingInputs(level, lo, hi) \subseteq files[level]
BY DEF GetOverlappingInputs

LEMMA OtherInputsAreFiles ==
    ASSUME NEW level \in Nat, NEW inputs0 \in SUBSET files[level],
           NEW inputs \in SetupOtherInputs(level, inputs0)
    PROVE  /\ inputs[1] \subseteq files[level]
           /\ inputs[2] \subseteq files[level + 1]
<1> level + 1 \in Nat
  OBVIOUS
<1> QED BY OverlappingInLevel DEF SetupOtherInputs

LEMMA PickedAreFiles ==
    ASSUME NEW level \in Nat, NEW inputs \in PickCompaction(level)
    PROVE  /\ inputs[1] \subseteq files[level]
           /\ inputs[2] \subseteq files[level + 1]
<1>1. PICK f \in files[level] :
        inputs \in SetupOtherInputs(level, IF level = 0
                       THEN GetOverlappingInputs(0, Lower({f}), Upper({f})) ELSE {f})
  BY DEF PickCompaction
<1>2. (IF level = 0 THEN GetOverlappingInputs(0, Lower({f}), Upper({f})) ELSE {f})
         \in SUBSET files[level]
  BY OverlappingInLevel
<1> QED BY <1>1, <1>2, OtherInputsAreFiles

LEMMA RangeAreFiles ==
    ASSUME NEW level \in Nat, NEW lo, NEW hi, NEW inputs \in CompactRange(level, lo, hi)
    PROVE  /\ inputs[1] \subseteq files[level]
           /\ inputs[2] \subseteq files[level + 1]
<1>1. PICK S \in SUBSET GetOverlappingInputs(level, lo, hi) :
        inputs \in SetupOtherInputs(level, S)
  BY DEF CompactRange
<1>2. S \in SUBSET files[level]
  BY OverlappingInLevel
<1> QED BY <1>1, <1>2, OtherInputsAreFiles

(* The oldest snapshot is not newer than any other, nor than the present. *)
LEMMA SmallestSnapshot ==
    ASSUME DataTypeOK, SnapshotsSorted, NEW s \in ReadPoints
    PROVE  smallest_snapshot <= s
<1> USE DEF DataTypeOK, SnapshotsSorted, ReadPoints, smallest_snapshot, LastSequence
<1>1. CASE snapshots = <<>>
  BY <1>1
<1>2. CASE snapshots # <<>>
  <2>1. 1 \in DOMAIN snapshots /\ snapshots[1] \in 0 .. Len(updates)
    BY <1>2
  <2> QED BY <1>2, <2>1
<1> QED BY <1>1, <1>2

(* What the loop keeps: at every point not before smallest_snapshot, the   *)
(* entry a read stops at, unless it is a deletion.                         *)
LEMMA KeptVisible ==
    ASSUME NEW level, NEW entries \in SUBSET (1 .. LastSequence), NEW e \in entries,
           NEW s \in Int, LastSequence \in Nat, smallest_snapshot \in Int,
           smallest_snapshot <= s, e <= s,
           \A d \in entries : key(d) = key(e) /\ d <= s => d <= e
    PROVE  e \in Kept(level, entries) \/ Deletion(e)
BY DEF Kept

-----------------------------------------------------------------------------
LEMMA InitInv == Init => CInv
<1> SUFFICES ASSUME Init PROVE CInv
  OBVIOUS
<1>1. LastSequence = 0
  BY DEF Init, LastSequence
<1>2. InputEntries = {}
  BY DEF Init, Idle, InputEntries
<1>3. DataTypeOK
  BY <1>1 DEF Init, DataTypeOK
<1>4. FilesTypeOK
  BY DEF Init, FilesTypeOK
<1>5. WorkTypeOK
  BY <1>2, CompactionAssumption DEF Init, Idle, WorkTypeOK, Level
<1>6. SnapshotsSorted
  BY DEF Init, SnapshotsSorted
<1>7. KeepsVisible
  BY <1>2 DEF KeepsVisible
<1> QED BY <1>3, <1>4, <1>5, <1>6, <1>7 DEF CInv

(* A step that leaves the database's data alone, or only adds to it        *)
LEMMA WriteInv ==
    ASSUME CInv, NEW k \in Key, NEW type \in {"value", "deletion"}, Write(k, type)
    PROVE  CInv'
<1> DEFINE new == [key |-> k, type |-> type]
<1>0. DataTypeOK /\ FilesTypeOK /\ WorkTypeOK /\ SnapshotsSorted /\ KeepsVisible
  BY DEF CInv
<1>1. new \in Update
  BY Zenon DEF Update
<1>2. /\ LastSequence \in Nat /\ LastSequence' = LastSequence + 1
      /\ updates' \in Seq(Update)
      /\ \A e \in 1 .. LastSequence : updates'[e] = updates[e]
  BY <1>0, <1>1 DEF Write, DataTypeOK, LastSequence
<1>3. InputEntries' = InputEntries
  BY DEF Write, InputEntries
<1>4. DataTypeOK'
  <2>1. snapshots' \in Seq(0 .. LastSequence')
    BY <1>0, <1>2 DEF Write, DataTypeOK
  <2>2. mem' \in SUBSET (1 .. LastSequence') /\ imm' \in SUBSET (1 .. LastSequence')
    BY <1>0, <1>2 DEF Write, DataTypeOK
  <2> QED BY <1>2, <2>1, <2>2 DEF DataTypeOK
<1>5. FilesTypeOK'
  <2>1. Tables \subseteq Tables'
    BY <1>2 DEF Tables
  <2> QED BY <1>0, <2>1 DEF FilesTypeOK, Write
<1>6. WorkTypeOK'
  BY <1>0, <1>2, <1>3 DEF WorkTypeOK, Write
<1>7. SnapshotsSorted'
  BY <1>0 DEF SnapshotsSorted, Write
<1>8. KeepsVisible'
  <2> SUFFICES ASSUME NEW s \in ReadPoints', NEW e \in InputEntries, StopsAt(e, s)'
               PROVE  e \in work.kept \/ Deletion(e)'
    BY <1>3 DEF KeepsVisible, Write
  <2>1. \A d \in InputEntries : d \in 1 .. LastSequence /\ key(d)' = key(d)
    BY <1>0, <1>2 DEF WorkTypeOK, key
  <2>2. Deletion(e)' <=> Deletion(e)
    BY <1>2, <2>1 DEF Deletion
  <2>3. CASE s = LastSequence'
    <3>1. StopsAt(e, LastSequence)
      BY <1>2, <1>3, <2>1, <2>3 DEF StopsAt
    <3> QED BY <1>0, <2>2, <3>1 DEF KeepsVisible, ReadPoints
  <2>4. CASE s \in ReadPoints
    <3>1. StopsAt(e, s)
      BY <1>3, <2>1 DEF StopsAt
    <3> QED BY <1>0, <2>2, <2>4, <3>1 DEF KeepsVisible
  <2> QED BY <2>3, <2>4 DEF ReadPoints, Write
<1> QED BY <1>4, <1>5, <1>6, <1>7, <1>8 DEF CInv

(* KeepsVisible asks the updates, the snapshots and work. *)
LEMMA VisibleFrame ==
    ASSUME KeepsVisible, UNCHANGED <<updates, work>>,
           ReadPoints' \subseteq ReadPoints
    PROVE  KeepsVisible'
<1>1. InputEntries' = InputEntries
  BY DEF InputEntries
<1>2. \A e : key(e)' = key(e) /\ (Deletion(e)' <=> Deletion(e))
  BY DEF key, Deletion
<1>3. \A e, s : StopsAt(e, s)' <=> StopsAt(e, s)
  BY <1>1, <1>2 DEF StopsAt
<1> QED BY <1>1, <1>2, <1>3 DEF KeepsVisible

LEMMA SwitchMemInv == CInv /\ SwitchMem => CInv'
<1> SUFFICES ASSUME CInv, SwitchMem PROVE CInv'
  OBVIOUS
<1>1. UNCHANGED <<updates, files, snapshots, work>> /\ LastSequence' = LastSequence
  BY DEF SwitchMem, LastSequence
<1>2. DataTypeOK'
  BY <1>1 DEF CInv, SwitchMem, DataTypeOK
<1>3. FilesTypeOK' /\ WorkTypeOK' /\ SnapshotsSorted'
  BY <1>1 DEF CInv, FilesTypeOK, Tables, WorkTypeOK, InputEntries, SnapshotsSorted
<1>4. KeepsVisible'
  BY <1>1, VisibleFrame DEF CInv, ReadPoints
<1> QED BY <1>2, <1>3, <1>4 DEF CInv

(* What is left of the snapshots when the i-th is released *)
LEMMA ReleasedSnapshots ==
    ASSUME CInv, NEW i \in DOMAIN snapshots, ReleaseSnapshot(i)
    PROVE  LET n == Len(snapshots)
           IN  /\ n \in Nat /\ i \in 1 .. n /\ DOMAIN snapshots = 1 .. n
               /\ snapshots' \in Seq(0 .. LastSequence)
               /\ DOMAIN snapshots' = 1 .. n - 1
               /\ \A j \in 1 .. n - 1 :
                    \/ j < i /\ snapshots'[j] = snapshots[j]
                    \/ j >= i /\ snapshots'[j] = snapshots[j + 1]
<1>2. LastSequence \in Nat /\ snapshots \in Seq(0 .. LastSequence)
  BY DEF CInv, DataTypeOK, LastSequence
<1> DEFINE n == Len(snapshots)
<1>0. n \in Nat /\ i \in 1 .. n /\ DOMAIN snapshots = 1 .. n
  BY <1>2
<1>3. /\ snapshots' \in Seq(0 .. LastSequence)
      /\ DOMAIN snapshots' = 1 .. n - 1
      /\ \A j \in 1 .. n - 1 :
           \/ j < i /\ snapshots'[j] = snapshots[j]
           \/ j >= i /\ snapshots'[j] = snapshots[j + 1]
  <2>1. \A j \in 1 .. n - 1 : j \in 1 .. n /\ j + 1 \in 1 .. n
    BY <1>0
  <2>2. \A j \in 1 .. n - 1 :
          (IF j < i THEN snapshots[j] ELSE snapshots[j + 1]) \in 0 .. LastSequence
    BY <1>2, <1>0, <2>1
  <2>3. n - 1 \in Nat
    BY <1>0
  <2> QED BY <1>0, <2>1, <2>2, <2>3 DEF ReleaseSnapshot
<1> QED BY <1>0, <1>3

(* No step but a write adds a point that is read from. *)
LEMMA SnapshotReads ==
    ASSUME CInv, GetSnapshot \/ \E i \in DOMAIN snapshots : ReleaseSnapshot(i)
    PROVE  ReadPoints' \subseteq ReadPoints
<1>1. LastSequence' = LastSequence /\ LastSequence \in Nat /\ snapshots \in Seq(0 .. LastSequence)
  BY DEF CInv, DataTypeOK, LastSequence, GetSnapshot, ReleaseSnapshot
<1>2. CASE GetSnapshot
  BY <1>1, <1>2 DEF ReadPoints, GetSnapshot
<1>3. ASSUME NEW i \in DOMAIN snapshots, ReleaseSnapshot(i) PROVE ReadPoints' \subseteq ReadPoints
  <2> DEFINE n == Len(snapshots)
  <2>1. ASSUME NEW j \in 1 .. n - 1 PROVE snapshots'[j] \in ReadPoints
    <3>1. j \in 1 .. n /\ j + 1 \in 1 .. n
      BY <1>1
    <3> QED BY <1>3, ReleasedSnapshots, <3>1 DEF ReadPoints
  <2> QED BY <1>1, <1>3, ReleasedSnapshots, <2>1 DEF ReadPoints
<1> QED BY <1>2, <1>3

LEMMA GetSnapshotInv == CInv /\ GetSnapshot => CInv'
<1> SUFFICES ASSUME CInv, GetSnapshot PROVE CInv'
  OBVIOUS
<1>1. UNCHANGED <<updates, mem, imm, files, work>> /\ LastSequence' = LastSequence
  BY DEF GetSnapshot, LastSequence
<1>2. LastSequence \in Nat /\ snapshots \in Seq(0 .. LastSequence)
  BY DEF CInv, DataTypeOK, LastSequence
<1>3. DataTypeOK'
  BY <1>1, <1>2 DEF CInv, GetSnapshot, DataTypeOK
<1>4. FilesTypeOK' /\ WorkTypeOK'
  BY <1>1 DEF CInv, FilesTypeOK, Tables, WorkTypeOK, InputEntries
<1>5. SnapshotsSorted'
  BY <1>2 DEF CInv, SnapshotsSorted, GetSnapshot
<1>6. ReadPoints' \subseteq ReadPoints
  BY SnapshotReads
<1>7. KeepsVisible'
  BY <1>1, <1>6, VisibleFrame DEF CInv
<1> QED BY <1>3, <1>4, <1>5, <1>7 DEF CInv

LEMMA ReleaseSnapshotInv ==
    ASSUME CInv, NEW i \in DOMAIN snapshots, ReleaseSnapshot(i)
    PROVE  CInv'
<1>1. UNCHANGED <<updates, mem, imm, files, work>> /\ LastSequence' = LastSequence
  BY DEF ReleaseSnapshot, LastSequence
<1>2. LastSequence \in Nat /\ snapshots \in Seq(0 .. LastSequence)
  BY DEF CInv, DataTypeOK, LastSequence
<1> DEFINE n == Len(snapshots)
<1>0. n \in Nat /\ i \in 1 .. n /\ DOMAIN snapshots = 1 .. n
  BY ReleasedSnapshots
<1>3. /\ snapshots' \in Seq(0 .. LastSequence)
      /\ DOMAIN snapshots' = 1 .. n - 1
      /\ \A j \in 1 .. n - 1 :
           \/ j < i /\ snapshots'[j] = snapshots[j]
           \/ j >= i /\ snapshots'[j] = snapshots[j + 1]
  BY ReleasedSnapshots
<1>4. DataTypeOK'
  BY <1>1, <1>3 DEF CInv, DataTypeOK
<1>5. FilesTypeOK' /\ WorkTypeOK'
  BY <1>1 DEF CInv, FilesTypeOK, Tables, WorkTypeOK, InputEntries
<1>6. SnapshotsSorted'
  <2> SUFFICES ASSUME NEW g \in 1 .. n - 1, NEW h \in 1 .. n - 1, g <= h
               PROVE  snapshots'[g] <= snapshots'[h]
    BY <1>3 DEF SnapshotsSorted
  <2>1. \A j \in 1 .. n : snapshots[j] \in Int
    BY <1>2, <1>0
  <2>2. \A j, k \in 1 .. n : j <= k => snapshots[j] <= snapshots[k]
    BY <1>0 DEF CInv, SnapshotsSorted
  <2>3. {g, h, g + 1, h + 1} \subseteq 1 .. n
    BY <1>0
  <2> QED BY <1>0, <1>3, <2>1, <2>2, <2>3
<1>7. ReadPoints' \subseteq ReadPoints
  BY SnapshotReads
<1>8. KeepsVisible'
  BY <1>1, <1>7, VisibleFrame DEF CInv
<1> QED BY <1>4, <1>5, <1>6, <1>8 DEF CInv

(* An action of the background thread leaves the data alone. *)
LEMMA DataFrame ==
    ASSUME DataTypeOK, SnapshotsSorted, UNCHANGED <<updates, mem, imm, snapshots>>
    PROVE  DataTypeOK' /\ SnapshotsSorted'
BY DEF DataTypeOK, SnapshotsSorted, LastSequence

LEMMA TablesAre ==
    \A t : t \in Tables <=> t \in SUBSET (1 .. LastSequence) /\ t # {}
<1> DEFINE X == 1 .. LastSequence
<1> SUFFICES ASSUME NEW t PROVE t \in (SUBSET X) \ {{}} <=> t \in SUBSET X /\ t # {}
  BY DEF Tables
<1> HIDE DEF X
<1>1. t \in (SUBSET X) \ {{}} <=> t \in SUBSET X /\ t \notin {{}}
  BY Zenon
<1>2. t \in {{}} <=> t = {}
  BY Zenon
<1> QED BY <1>1, <1>2, Zenon

LEMMA CompactMemTableInv == CInv /\ CompactMemTable => CInv'
<1> SUFFICES ASSUME CInv, CompactMemTable PROVE CInv'
  OBVIOUS
<1>1. UNCHANGED <<updates, mem, snapshots, work>> /\ LastSequence' = LastSequence
  BY DEF CompactMemTable, LastSequence
<1>2. DataTypeOK' /\ SnapshotsSorted'
  BY <1>1 DEF CInv, CompactMemTable, DataTypeOK, SnapshotsSorted
<1>3. FilesTypeOK'
  <2>1. PICK level \in 0 .. MaxMemCompactLevel :
          files' = [files EXCEPT ![level] = @ \cup {imm}]
    BY DEF CompactMemTable, PickLevelForMemTableOutput
  <2>2. level \in Level
    BY <2>1, CompactionAssumption DEF Level
  <2>3. imm \in Tables /\ Tables' = Tables
    <3>1. imm \in SUBSET (1 .. LastSequence) /\ imm # {}
      BY DEF CInv, CompactMemTable, DataTypeOK
    <3>2. imm \in Tables
      BY <3>1, TablesAre, Zenon
    <3> QED BY <1>1, <3>2 DEF Tables
  <2> QED BY <2>1, <2>2, <2>3 DEF CInv, FilesTypeOK
<1>4. WorkTypeOK'
  BY <1>1 DEF CInv, WorkTypeOK, InputEntries
<1>5. KeepsVisible'
  BY <1>1, VisibleFrame DEF CInv, ReadPoints
<1> QED BY <1>2, <1>3, <1>4, <1>5 DEF CInv

(* When the inputs have been chosen, what is kept is settled. *)
LEMMA StartWorkInv ==
    ASSUME CInv, NEW level \in 0 .. NumLevels - 2, NEW inputs,
           inputs[1] \subseteq files[level], inputs[2] \subseteq files[level + 1],
           StartWork(level, inputs)
    PROVE  CInv'
<1> DEFINE entries == UNION (inputs[1] \cup inputs[2])
<1>1. UNCHANGED <<updates, mem, imm, files, snapshots>> /\ LastSequence' = LastSequence
  BY DEF StartWork, LastSequence
<1>2. LastSequence \in Nat
  BY DEF CInv, DataTypeOK, LastSequence
<1>3. level \in Level /\ level + 1 \in Level
  BY CompactionAssumption DEF Level
<1>4. entries \subseteq 1 .. LastSequence
  BY <1>3 DEF CInv, FilesTypeOK, Tables
<1>5. /\ work'.level = level /\ work'.kept = Kept(level, entries)
      /\ InputEntries' = entries
  BY DEF StartWork, InputEntries
<1>6. DataTypeOK' /\ SnapshotsSorted'
  BY <1>1, DataFrame DEF CInv
<1>7. FilesTypeOK'
  BY <1>1 DEF CInv, FilesTypeOK, Tables
<1>8. WorkTypeOK'
  <2>1. Kept(level, entries) \subseteq entries
    BY DEF Kept
  <2> QED BY <1>1, <1>3, <1>4, <1>5, <2>1 DEF WorkTypeOK
<1>9. KeepsVisible'
  <2> SUFFICES ASSUME NEW s \in ReadPoints', NEW e \in entries, StopsAt(e, s)'
               PROVE  e \in Kept(level, entries) \/ Deletion(e)'
    BY <1>5 DEF KeepsVisible
  <2>1. s \in ReadPoints /\ s \in Int
    BY <1>1, <1>2 DEF ReadPoints, CInv, DataTypeOK
  <2>2. smallest_snapshot <= s
    BY <2>1, SmallestSnapshot DEF CInv
  <2>3. smallest_snapshot \in Int
    BY <1>2 DEF smallest_snapshot, CInv, DataTypeOK
  <2>4. e <= s /\ \A d \in entries : key(d) = key(e) /\ d <= s => d <= e
    BY <1>1, <1>5 DEF StopsAt, key
  <2>5. e \in Kept(level, entries) \/ Deletion(e)
    BY <1>2, <1>4, <2>1, <2>2, <2>3, <2>4, KeptVisible
  <2> QED BY <1>1, <2>5 DEF Deletion
<1> QED BY <1>6, <1>7, <1>8, <1>9 DEF CInv

LEMMA CompactInv ==
    ASSUME CInv, NEW level \in 0 .. NumLevels - 2,
           Compact(level) \/ \E lo, hi \in Key : CompactManually(level, lo, hi)
    PROVE  CInv'
<1>0. level \in Nat
  BY CompactionAssumption
<1>1. CASE Compact(level)
  BY <1>0, <1>1, PickedAreFiles, StartWorkInv DEF Compact
<1>2. ASSUME NEW lo \in Key, NEW hi \in Key, CompactManually(level, lo, hi) PROVE CInv'
  BY <1>0, <1>2, RangeAreFiles, StartWorkInv DEF CompactManually
<1> QED BY <1>1, <1>2

LEMMA MoveInv ==
    ASSUME CInv, NEW level \in 0 .. NumLevels - 2, Move(level)
    PROVE  CInv'
<1>1. UNCHANGED <<updates, mem, imm, snapshots, work>> /\ LastSequence' = LastSequence
  BY DEF Move, LastSequence
<1>2. level \in Nat /\ level \in Level /\ level + 1 \in Level /\ level + 1 # level
  BY CompactionAssumption DEF Level
<1>3. PICK inputs \in PickCompaction(level) :
        files' = [files EXCEPT ![level] = @ \ inputs[1], ![level + 1] = @ \cup inputs[1]]
  BY DEF Move
<1>4. inputs[1] \subseteq files[level]
  BY <1>2, PickedAreFiles
<1>5. FilesTypeOK'
  BY <1>1, <1>2, <1>3, <1>4 DEF CInv, FilesTypeOK, Tables
<1>6. DataTypeOK' /\ SnapshotsSorted'
  BY <1>1, DataFrame DEF CInv
<1>7. WorkTypeOK'
  BY <1>1 DEF CInv, WorkTypeOK, InputEntries
<1>8. KeepsVisible'
  BY <1>1, VisibleFrame DEF CInv, ReadPoints
<1> QED BY <1>5, <1>6, <1>7, <1>8 DEF CInv

LEMMA OutputsAreTables ==
    ASSUME NEW entries \in SUBSET (1 .. LastSequence), NEW tables \in Outputs(entries)
    PROVE  tables \subseteq Tables
<1> DEFINE Starts(cut, e) == Cardinality({c \in cut : c = e \/ Before(c, e)})
           Cut(cut, n) == {e \in entries : Starts(cut, e) = n}
<1>1. PICK cut \in SUBSET entries :
        tables = {Cut(cut, n) : n \in 0 .. Cardinality(cut)} \ {{}}
  BY Zenon DEF Outputs
<1>2. ASSUME NEW t \in tables PROVE t \in SUBSET (1 .. LastSequence) /\ t # {}
  <2>1. t # {} /\ \E n \in 0 .. Cardinality(cut) : t = Cut(cut, n)
    BY <1>1, Zenon
  <2> QED BY <2>1
<1> QED BY <1>2, TablesAre, Zenon

LEMMA FinishWorkInv == CInv /\ FinishWork => CInv'
<1> SUFFICES ASSUME CInv, FinishWork PROVE CInv'
  OBVIOUS
<1>1. UNCHANGED <<updates, mem, imm, snapshots>> /\ LastSequence' = LastSequence
  BY DEF FinishWork, LastSequence
<1>2. work.level \in Level /\ work.level + 1 \in Level /\ work.kept \subseteq 1 .. LastSequence
  BY DEF CInv, WorkTypeOK, FinishWork
<1>3. PICK tables \in Outputs(work.kept) :
        files' = [files EXCEPT ![work.level] = @ \ work.inputs[1],
                               ![work.level + 1] = (@ \ work.inputs[2]) \cup tables]
  BY DEF FinishWork
<1>4. tables \subseteq Tables /\ Tables' = Tables
  BY <1>1, <1>2, OutputsAreTables DEF Tables
<1>5. FilesTypeOK'
  <2>1. work.level + 1 # work.level
    BY <1>2, CompactionAssumption DEF Level
  <2> QED BY <1>2, <1>3, <1>4, <2>1 DEF CInv, FilesTypeOK
<1>6. DataTypeOK' /\ SnapshotsSorted'
  BY <1>1, DataFrame DEF CInv
<1>7. InputEntries' = {} /\ work' = Idle
  BY DEF FinishWork, Idle, InputEntries
<1>8. WorkTypeOK'
  BY <1>7, CompactionAssumption DEF WorkTypeOK, Idle, Level
<1>9. KeepsVisible'
  BY <1>7 DEF KeepsVisible
<1> QED BY <1>5, <1>6, <1>8, <1>9 DEF CInv

LEMMA NextInv == CInv /\ [Next]_vars => CInv'
<1> SUFFICES ASSUME CInv, [Next]_vars PROVE CInv'
  OBVIOUS
<1>1. CASE Next
  BY <1>1, WriteInv, SwitchMemInv, GetSnapshotInv, ReleaseSnapshotInv, CompactMemTableInv,
     FinishWorkInv, CompactInv, MoveInv DEF Next, BackgroundStep
<1>2. CASE UNCHANGED vars
  <2>1. UNCHANGED <<updates, mem, imm, snapshots, files, work>> /\ LastSequence' = LastSequence
    BY <1>2 DEF vars, LastSequence
  <2>2. DataTypeOK' /\ SnapshotsSorted'
    BY <2>1, DataFrame DEF CInv
  <2>3. FilesTypeOK' /\ WorkTypeOK'
    BY <2>1 DEF CInv, FilesTypeOK, Tables, WorkTypeOK, InputEntries
  <2>4. KeepsVisible'
    BY <2>1, VisibleFrame DEF CInv, ReadPoints
  <2> QED BY <2>2, <2>3, <2>4 DEF CInv
<1> QED BY <1>1, <1>2

LEMMA CInvAlways == Spec => []CInv
BY InitInv, NextInv, PTL DEF Spec

(* Tables are never empty and hold entries that were written, in every     *)
(* level of any database; a running compaction keeps a part of its inputs  *)
(* and has a level to put it into.                                         *)
THEOREM CompactionTypeCorrect == Spec => []CompactionTypeOK
<1>1. CInv => CompactionTypeOK
  BY DEF CInv, DataTypeOK, FilesTypeOK, WorkTypeOK, CompactionTypeOK, Tables, Update
<1> QED BY <1>1, CInvAlways, PTL

(* DoCompactionWork drops with the smallest snapshot it read before it     *)
(* released the mutex; nothing that a snapshot or the present sees in its  *)
(* inputs when the outputs are installed has been dropped.                 *)
THEOREM VisibleKept == Spec => []KeepsVisible
<1>1. CInv => KeepsVisible
  BY DEF CInv
<1> QED BY <1>1, CInvAlways, PTL

-----------------------------------------------------------------------------
(* The least and the greatest of some numbers, which Min and Max look for. *)
LEMMA LeastNumber ==
    ASSUME NEW S \in SUBSET Nat, S # {}
    PROVE  \E n \in S : \A m \in S : n <= m
<1>1. \E x \in S : \A y \in S : ~(<<y, x>> \in OpToRel(<, Nat))
  BY NatLessThanWellFounded, WFMin
<1>2. \A x, y \in Nat : y < x => <<y, x>> \in OpToRel(<, Nat)
  BY Zenon DEF OpToRel
<1>3. PICK n \in S : \A m \in S : ~(m < n)
  BY <1>1, <1>2, Zenon
<1> QED BY <1>3

LEMMA GreatestNumber ==
    ASSUME NEW S \in SUBSET Nat, S # {}, NEW b \in Nat, \A x \in S : x <= b
    PROVE  \E n \in S : \A m \in S : m <= n
<1> DEFINE T == {n \in 0 .. b : b - n \in S}
<1>1. T \in SUBSET Nat /\ \A x \in S : b - x \in T
  <2>1. \A x \in S : b - x \in 0 .. b /\ b - (b - x) = x
    OBVIOUS
  <2> QED BY <2>1
<1>2. PICK t \in T : \A u \in T : t <= u
  <2> HIDE DEF T
  <2> QED BY <1>1, LeastNumber
<1>3. t \in 0 .. b /\ b - t \in S
  BY <1>2
<1>4. \A m \in S : t <= b - m
  BY <1>1, <1>2
<1> QED BY <1>3, <1>4

LEMMA FiniteGreatest ==
    ASSUME NEW S \in SUBSET Nat, S # {}, IsFiniteSet(S)
    PROVE  \E n \in S : \A m \in S : m <= n
<1>0. PICK c \in Nat : ExistsSurjection(1 .. c, S)
  BY FS_NatSurjection
<1>1. PICK f : f \in Surjection(1 .. c, S)
  BY <1>0 DEF ExistsSurjection
<1>2. f \in [1 .. c -> S] /\ \A x \in S : \E i \in 1 .. c : f[i] = x
  BY <1>1 DEF Surjection
<1> DEFINE Covered(m) == \E x \in S : \A i \in 1 .. m : f[i] <= x
           T == {m \in 0 .. c : Covered(m)}
<1>3. T \in SUBSET Nat /\ 0 \in T /\ \A m \in T : m <= c
  <2>1. Covered(0)
    <3>1. \A i \in 1 .. 0 : FALSE
      OBVIOUS
    <3> QED BY <3>1, Zenon
  <2>2. 0 \in 0 .. c
    OBVIOUS
  <2> QED BY <2>1, <2>2
<1>4. PICK m \in T : \A n \in T : n <= m
  <2> HIDE DEF T
  <2> QED BY <1>3, GreatestNumber
<1>5. PICK x \in S : \A i \in 1 .. m : f[i] <= x
  BY <1>4
<1>6. CASE m = c
  BY <1>2, <1>5, <1>6
<1>7. CASE m # c
  <2>1. m + 1 \in 1 .. c /\ m \in 0 .. c
    BY <1>4, <1>7
  <2>2. f[m + 1] \in S /\ \A i \in 1 .. c : f[i] \in Nat
    BY <1>2, <2>1
  <2>3. Covered(m + 1)
    <3>1. CASE f[m + 1] <= x
      BY <1>5, <2>1, <2>2, <3>1
    <3>2. CASE ~(f[m + 1] <= x)
      <4>1. \A i \in 1 .. m + 1 : f[i] <= f[m + 1]
        BY <1>5, <2>1, <2>2, <3>2
      <4> QED BY <2>2, <4>1
    <3> QED BY <3>1, <3>2
  <2>4. m + 1 \in T
    BY <2>1, <2>3
  <2> HIDE DEF T
  <2>5. m + 1 <= m /\ m \in Nat
    BY <1>3, <1>4, <2>4
  <2> QED BY <2>5
<1> QED BY <1>6, <1>7

LEMMA MaxIs ==
    ASSUME NEW S \in SUBSET Nat, NEW x \in S, \A y \in S : y <= x
    PROVE  Max(S) = x
<1> DEFINE Top(z) == \A y \in S : z >= y
<1>1. Top(x) /\ \A z \in S : Top(z) => z = x
  OBVIOUS
<1>2. Max(S) = CHOOSE z \in S : Top(z)
  BY DEF Max
<1> QED BY <1>1, <1>2

LEMMA MinIs ==
    ASSUME NEW S \in SUBSET Nat, NEW x \in S, \A y \in S : x <= y
    PROVE  Min(S) = x
<1> DEFINE Bottom(z) == \A y \in S : z =< y
<1>1. Bottom(x) /\ \A z \in S : Bottom(z) => z = x
  OBVIOUS
<1>2. Min(S) = CHOOSE z \in S : Bottom(z)
  BY DEF Min
<1> QED BY <1>1, <1>2

(* Entries and their keys *)
LEMMA EntryTypes ==
    ASSUME CInv
    PROVE  /\ LastSequence \in Nat
           /\ \A e \in 1 .. LastSequence : e \in Nat /\ key(e) \in Key /\ key(e) \in Nat
           /\ \A l \in Level : \A f \in files[l] : f \in SUBSET (1 .. LastSequence) /\ f # {}
<1>1. LastSequence \in Nat /\ \A e \in 1 .. LastSequence : updates[e] \in Update
  BY DEF CInv, DataTypeOK, LastSequence
<1>2. \A e \in 1 .. LastSequence : key(e) \in Key /\ key(e) \in Nat
  BY <1>1, CompactionAssumption DEF key, Update
<1>3. \A l \in Level : \A f \in files[l] : f \in Tables
  BY DEF CInv, FilesTypeOK
<1>4. \A l \in Level : \A f \in files[l] : f \in SUBSET (1 .. LastSequence) /\ f # {}
  BY <1>3, TablesAre, Zenon
<1> QED BY <1>1, <1>2, <1>4

(* Lower and Upper bound the user keys of some tables. *)
LEMMA KeysBetween ==
    ASSUME CInv, NEW S, UNION S \subseteq 1 .. LastSequence, UNION S # {}
    PROVE  /\ Lower(S) \in Nat /\ Upper(S) \in Nat
           /\ \A e \in UNION S : Lower(S) <= key(e) /\ key(e) <= Upper(S)
           /\ \E e \in UNION S : key(e) = Lower(S)
           /\ \E e \in UNION S : key(e) = Upper(S)
<1> DEFINE K == UserKeys(UNION S)
<1>1. K \in SUBSET Key /\ K \in SUBSET Nat /\ K # {}
  BY EntryTypes DEF UserKeys
<1>2. IsFiniteSet(K)
  BY <1>1, CompactionAssumption, FS_Subset
<1>3. \A k \in K : \E e \in UNION S : key(e) = k
  BY DEF UserKeys
<1>4. \A e \in UNION S : key(e) \in K
  BY DEF UserKeys
<1> HIDE DEF K
<1>5. PICK lo \in K : \A k \in K : lo <= k
  BY <1>1, LeastNumber
<1>6. PICK hi \in K : \A k \in K : k <= hi
  BY <1>1, <1>2, FiniteGreatest
<1>7. Lower(S) = lo /\ Upper(S) = hi
  BY <1>1, <1>5, <1>6, MinIs, MaxIs DEF Lower, Upper, K
<1> QED BY <1>1, <1>3, <1>4, <1>5, <1>6, <1>7

(* The ends of a table in the order of InternalKeyComparator *)
LEMMA EndsExist ==
    ASSUME CInv, NEW t \in SUBSET (1 .. LastSequence), t # {}
    PROVE  /\ largest(t) \in t /\ \A d \in t \ {largest(t)} : Before(d, largest(t))
           /\ smallest(t) \in t /\ \A d \in t \ {smallest(t)} : Before(smallest(t), d)
<1>1. LastSequence \in Nat /\ \A e \in t : e \in Nat /\ key(e) \in Nat /\ e <= LastSequence
  BY EntryTypes
<1>2. /\ UNION {t} \subseteq 1 .. LastSequence /\ UNION {t} # {} /\ UNION {t} = t
  OBVIOUS
<1>3. /\ \A e \in t : Lower({t}) <= key(e) /\ key(e) <= Upper({t})
      /\ \E e \in t : key(e) = Lower({t})
      /\ \E e \in t : key(e) = Upper({t})
  BY <1>2, KeysBetween
<1>4. \E e \in t : \A d \in t \ {e} : Before(d, e)
  <2> DEFINE S == {e \in t : key(e) = Upper({t})}
  <2>1. S \in SUBSET Nat /\ S # {}
    BY <1>1, <1>3
  <2>2. PICK e \in S : \A d \in S : e <= d
    <3> HIDE DEF S
    <3> QED BY <2>1, LeastNumber
  <2>3. ASSUME NEW d \in t \ {e} PROVE Before(d, e)
    <3>1. CASE d \in S
      BY <1>1, <2>2, <3>1 DEF Before
    <3>2. CASE d \notin S
      <4>1. key(d) # Upper({t}) /\ key(d) <= Upper({t}) /\ key(e) = Upper({t}) /\ e \in t
        BY <1>3, <2>2, <3>2
      <4>2. key(d) \in Nat /\ key(e) \in Nat
        BY <1>1, <4>1
      <4> QED BY <4>1, <4>2 DEF Before
    <3> QED BY <3>1, <3>2
  <2> QED BY <2>2, <2>3
<1>5. \E e \in t : \A d \in t \ {e} : Before(e, d)
  <2> DEFINE S == {e \in t : key(e) = Lower({t})}
  <2>1. S \in SUBSET Nat /\ S # {} /\ \A e \in S : e <= LastSequence
    BY <1>1, <1>3
  <2>2. PICK e \in S : \A d \in S : d <= e
    <3> HIDE DEF S
    <3> QED BY <1>1, <2>1, GreatestNumber
  <2>3. ASSUME NEW d \in t \ {e} PROVE Before(e, d)
    <3>1. CASE d \in S
      BY <1>1, <2>2, <3>1 DEF Before
    <3>2. CASE d \notin S
      <4>1. key(d) # Lower({t}) /\ Lower({t}) <= key(d) /\ key(e) = Lower({t}) /\ e \in t
        BY <1>3, <2>2, <3>2
      <4>2. key(d) \in Nat /\ key(e) \in Nat
        BY <1>1, <4>1
      <4> QED BY <4>1, <4>2 DEF Before
    <3> QED BY <3>1, <3>2
  <2> QED BY <2>2, <2>3
<1> DEFINE Tops(e) == \A d \in t \ {e} : Before(d, e)
           Opens(e) == \A d \in t \ {e} : Before(e, d)
<1>6. largest(t) = (CHOOSE e \in t : Tops(e)) /\ \E e \in t : Tops(e)
  BY <1>4, Zenon DEF largest
<1>7. smallest(t) = (CHOOSE e \in t : Opens(e)) /\ \E e \in t : Opens(e)
  BY <1>5, Zenon DEF smallest
<1>8. largest(t) \in t /\ Tops(largest(t))
  <2> HIDE DEF Tops
  <2> QED BY <1>6, Zenon
<1>9. smallest(t) \in t /\ Opens(smallest(t))
  <2> HIDE DEF Opens
  <2> QED BY <1>7, Zenon
<1> QED BY <1>8, <1>9

(* The keys of a table lie between Lower and Upper. *)
LEMMA TableBetween ==
    ASSUME CInv, NEW t \in SUBSET (1 .. LastSequence), t # {}
    PROVE  /\ Lower({t}) \in Nat /\ Upper({t}) \in Nat
           /\ \A e \in t : Lower({t}) <= key(e) /\ key(e) <= Upper({t})
<1>1. UNION {t} \subseteq 1 .. LastSequence /\ UNION {t} # {} /\ UNION {t} = t
  OBVIOUS
<1> QED BY <1>1, KeysBetween

(* A table with a user key of the range overlaps it. *)
LEMMA SharedOverlaps ==
    ASSUME CInv, NEW t \in SUBSET (1 .. LastSequence), NEW e \in t,
           NEW lo \in Nat, NEW hi \in Nat, lo <= key(e), key(e) <= hi
    PROVE  Overlaps(t, lo, hi)
<1>1. Lower({t}) \in Nat /\ Upper({t}) \in Nat /\ Lower({t}) <= key(e) /\ key(e) <= Upper({t})
  BY TableBetween
<1>2. key(e) \in Nat
  BY EntryTypes
<1> QED BY <1>1, <1>2 DEF Overlaps

(* Tables whose ranges of user keys do not overlap lie one behind the other. *)
LEMMA RangesApart ==
    ASSUME CInv, NEW f \in SUBSET (1 .. LastSequence), f # {},
           NEW g \in SUBSET (1 .. LastSequence), g # {},
           ~Overlaps(g, Lower({f}), Upper({f}))
    PROVE  \/ \A e \in f, d \in g : key(e) < key(d)
           \/ \A e \in f, d \in g : key(d) < key(e)
<1>1. /\ Lower({f}) \in Nat /\ Upper({f}) \in Nat /\ Lower({g}) \in Nat /\ Upper({g}) \in Nat
      /\ \A e \in f : Lower({f}) <= key(e) /\ key(e) <= Upper({f})
      /\ \A e \in g : Lower({g}) <= key(e) /\ key(e) <= Upper({g})
  BY TableBetween
<1>2. Upper({g}) < Lower({f}) \/ Upper({f}) < Lower({g})
  BY <1>1 DEF Overlaps
<1>3. \A e \in f \union g : key(e) \in Nat
  BY EntryTypes
<1> QED BY <1>1, <1>2, <1>3

-----------------------------------------------------------------------------
(***************************************************************************)
(* Reading level by level.  As long as no compaction has separated tables  *)
(* that share a user key or put its output over a table, entries do not    *)
(* hop across levels: of the entries of a key, those of a level are newer  *)
(* than those of a deeper one.                                             *)
(***************************************************************************)
Entries(level) == UNION files[level]

InFiles == UNION {Entries(level) : level \in Level}

Present == mem \cup imm \cup InFiles

(* The memtables hold the newest entries. *)
MemNewest ==
    /\ \A e \in mem, d \in imm \cup InFiles : d < e
    /\ \A e \in imm, d \in InFiles : d < e

LevelsOrdered ==
    \A l, m \in Level : l < m =>
        \A e \in Entries(l), d \in Entries(m) : key(e) = key(d) => d < e

(* e is what a read of its key at s has to stop at. *)
IsNewest(e, s) == e <= s /\ \A d \in 1 .. LastSequence : key(d) = key(e) /\ d <= s => d <= e

(* It is there, or it is a deletion and nothing older is left. *)
NothingLost ==
    \A s \in ReadPoints : \A e \in 1 .. LastSequence :
        IsNewest(e, s) => \/ e \in Present
                          \/ Deletion(e) /\ \A d \in Present : key(d) = key(e) => s < d

(* Get, in terms of what is present: the memtables, then the levels *)
LEMMA NewestIs ==
    ASSUME CInv, NEW E \in SUBSET (1 .. LastSequence), NEW k, NEW s
    PROVE  /\ Newest(E, k, s) \in {e \in E : key(e) = k /\ e <= s} \cup {0}
           /\ \A e \in E : key(e) = k /\ e <= s => e <= Newest(E, k, s)
           /\ Newest(E, k, s) \in Nat
<1> DEFINE S == {e \in E : key(e) = k /\ e <= s} \cup {0}
<1>1. LastSequence \in Nat
  BY EntryTypes
<1>2. S \in SUBSET Nat /\ 0 \in S /\ \A e \in S : e <= LastSequence
  <2>1. \A e \in S : e \in 0 .. LastSequence
    BY <1>1
  <2>2. 0 \in S
    BY Zenon
  <2> HIDE DEF S
  <2> QED BY <1>1, <2>1, <2>2
<1>3. PICK n \in S : \A m \in S : m <= n
  <2> HIDE DEF S
  <2> QED BY <1>1, <1>2, GreatestNumber
<1>4. Newest(E, k, s) = n
  <2>1. Max(S) = n
    <3> HIDE DEF S
    <3> QED BY <1>2, <1>3, MaxIs
  <2> QED BY <2>1 DEF Newest
<1> QED BY <1>2, <1>3, <1>4

(* Looking into some of the tables of a level is enough, if the table with *)
(* the newest entry is among them.                                         *)
LEMMA LookedUp ==
    ASSUME CInv, NEW level \in Level, NEW k, NEW s, NEW F \in SUBSET files[level],
           LET n == Newest(Entries(level), k, s) IN n # 0 => \E f \in F : n \in f
    PROVE  Max({Newest(f, k, s) : f \in F} \cup {0}) = Newest(Entries(level), k, s)
<1> DEFINE n == Newest(Entries(level), k, s)
           S == {Newest(f, k, s) : f \in F} \cup {0}
<1>1. /\ Entries(level) \in SUBSET (1 .. LastSequence)
      /\ \A f \in F : f \in SUBSET (1 .. LastSequence) /\ f \subseteq Entries(level)
  BY EntryTypes DEF Entries
<1>2. /\ n \in {e \in Entries(level) : key(e) = k /\ e <= s} \cup {0} /\ n \in Nat
      /\ \A e \in Entries(level) : key(e) = k /\ e <= s => e <= n
  BY <1>1, NewestIs
<1>3. \A f \in F : /\ Newest(f, k, s) \in {e \in f : key(e) = k /\ e <= s} \cup {0}
                   /\ \A e \in f : key(e) = k /\ e <= s => e <= Newest(f, k, s)
                   /\ Newest(f, k, s) \in Nat
  BY <1>1, NewestIs
<1>4. \A f \in F : Newest(f, k, s) <= n
  BY <1>1, <1>2, <1>3
<1>5. n \in S
  <2>1. CASE n = 0
    BY <2>1
  <2>2. CASE n # 0
    <3>1. PICK f \in F : n \in f
      BY <2>2
    <3>2. n <= Newest(f, k, s) /\ Newest(f, k, s) <= n
      BY <1>2, <1>3, <1>4, <2>2, <3>1
    <3>3. n = Newest(f, k, s)
      BY <1>2, <1>3, <3>2
    <3> QED BY <3>3
  <2> QED BY <2>1, <2>2
<1>6. S \in SUBSET Nat /\ \A m \in S : m <= n
  BY <1>2, <1>3, <1>4
<1>7. Max(S) = n
  <2> HIDE DEF S, n
  <2> QED BY <1>5, <1>6, MaxIs
<1> QED BY <1>7

(* Below level 0 the binary search is right: the first table that reaches  *)
(* the key looked for has its newest entry.                                *)
LEMMA FindFileFinds ==
    ASSUME CInv, NEW level \in Level, Disjoint(files[level]), NEW k \in Nat, NEW s \in Nat,
           Newest(Entries(level), k, s) # 0
    PROVE  \E f \in FindFile(level, k, s) : Newest(Entries(level), k, s) \in f
<1> DEFINE n == Newest(Entries(level), k, s)
           Reaches(f) == key(largest(f)) > k \/ (key(largest(f)) = k /\ largest(f) <= s)
<1>1. \A f \in files[level] : f \in SUBSET (1 .. LastSequence) /\ f # {} /\ f \subseteq Entries(level)
  BY EntryTypes DEF Entries
<1>2. Entries(level) \in SUBSET (1 .. LastSequence)
  BY <1>1 DEF Entries
<1>3. /\ n \in Entries(level) /\ key(n) = k /\ n <= s /\ n \in Nat
      /\ \A e \in Entries(level) : key(e) = k /\ e <= s => e <= n
  BY <1>2, NewestIs
<1> HIDE DEF n
<1>4. PICK g \in files[level] : n \in g
  BY <1>3 DEF Entries
<1>5. \A e \in 1 .. LastSequence : e \in Nat /\ key(e) \in Nat
  BY EntryTypes
<1>6. \A f \in files[level] : /\ largest(f) \in f /\ smallest(f) \in f
                              /\ \A d \in f \ {largest(f)} : Before(d, largest(f))
                              /\ \A d \in f \ {smallest(f)} : Before(smallest(f), d)
  BY <1>1, EndsExist
<1>7. \A f \in files[level] : /\ largest(f) \in Nat /\ smallest(f) \in Nat
                              /\ key(largest(f)) \in Nat /\ key(smallest(f)) \in Nat
  BY <1>1, <1>5, <1>6
<1>8. Reaches(g)
  BY <1>3, <1>4, <1>6, <1>7 DEF Before
<1>9. ASSUME NEW h \in files[level], h # g, Reaches(h)
      PROVE  Before(smallest(g), smallest(h))
  <2>1. CASE Before(largest(g), smallest(h))
    <3>1. smallest(g) = largest(g) \/ Before(smallest(g), largest(g))
      BY <1>6
    <3> QED BY <1>7, <2>1, <3>1 DEF Before
  <2>2. CASE Before(largest(h), smallest(g))
    <3>1. smallest(g) = n \/ Before(smallest(g), n)
      BY <1>4, <1>6
    <3>2. Before(largest(h), n)
      BY <1>3, <1>7, <2>2, <3>1 DEF Before
    <3>3. key(largest(h)) = k /\ largest(h) > n /\ largest(h) <= s
      BY <1>3, <1>7, <1>9, <3>2 DEF Before
    <3>4. largest(h) \in Entries(level)
      BY <1>1, <1>6
    <3> QED BY <1>3, <1>7, <3>3, <3>4
  <2> QED BY <1>9, <2>1, <2>2 DEF Disjoint
<1> DEFINE reaching == {f \in files[level] : Reaches(f)}
<1>10. FindFile(level, k, s) = {f \in reaching : \A h \in reaching \ {f} : Before(smallest(f), smallest(h))}
  BY DEF FindFile
<1>11. g \in reaching /\ \A h \in reaching \ {g} : Before(smallest(g), smallest(h))
  BY <1>8, <1>9
<1>12. g \in FindFile(level, k, s)
  <2> HIDE DEF reaching
  <2> QED BY <1>10, <1>11
<1> QED BY <1>4, <1>12 DEF n

LEMMA LevelFinds ==
    ASSUME CInv, NEW level \in Level, level # 0 => Disjoint(files[level]),
           NEW k \in Nat, NEW s \in Nat
    PROVE  GetFromLevel(level, k, s) = Newest(Entries(level), k, s)
<1>1. CASE level = 0
  <2>1. Entries(level) \in SUBSET (1 .. LastSequence)
    BY EntryTypes DEF Entries
  <2>2. Newest(Entries(level), k, s) \in Entries(level) \cup {0}
    BY <2>1, NewestIs
  <2>3. Newest(Entries(level), k, s) # 0 => \E f \in files[level] : Newest(Entries(level), k, s) \in f
    BY <2>2 DEF Entries
  <2>4. Max({Newest(f, k, s) : f \in files[level]} \cup {0}) = Newest(Entries(level), k, s)
    BY <2>3, LookedUp
  <2> QED BY <1>1, <2>4 DEF GetFromLevel
<1>2. CASE level # 0
  <2>1. FindFile(level, k, s) \in SUBSET files[level]
    BY DEF FindFile
  <2>2. Newest(Entries(level), k, s) # 0 =>
           \E f \in FindFile(level, k, s) : Newest(Entries(level), k, s) \in f
    BY <1>2, FindFileFinds
  <2>3. Max({Newest(f, k, s) : f \in FindFile(level, k, s)} \cup {0}) = Newest(Entries(level), k, s)
    BY <2>1, <2>2, LookedUp
  <2> QED BY <1>2, <2>3 DEF GetFromLevel
<1> QED BY <1>1, <1>2

(* Get stops at the newest of the entries that are present. *)
LEMMA GetFinds ==
    ASSUME CInv, MemNewest, LevelsOrdered, MustNotOverlap, NEW k \in Nat, NEW s \in Nat
    PROVE  LET p == Newest(Present, k, s)
           IN  Get(k, s) = IF p # 0 /\ Deletion(p) THEN 0 ELSE p
<1> DEFINE p == Newest(Present, k, s)
           hits == {l \in Level : GetFromLevel(l, k, s) > 0}
           found == CASE Newest(mem, k, s) > 0 -> Newest(mem, k, s)
                      [] Newest(mem, k, s) = 0 /\ Newest(imm, k, s) > 0 -> Newest(imm, k, s)
                      [] OTHER -> IF hits = {} THEN 0 ELSE GetFromLevel(Min(hits), k, s)
           Sought(e) == key(e) = k /\ e <= s
<1>1. /\ mem \in SUBSET (1 .. LastSequence) /\ imm \in SUBSET (1 .. LastSequence)
      /\ \A l \in Level : Entries(l) \in SUBSET (1 .. LastSequence) /\ Entries(l) \subseteq InFiles
      /\ InFiles \in SUBSET (1 .. LastSequence)
  <2>1. \A l \in Level : Entries(l) \in SUBSET (1 .. LastSequence) /\ Entries(l) \subseteq InFiles
    BY EntryTypes DEF Entries, InFiles
  <2> QED BY <2>1 DEF CInv, DataTypeOK, InFiles
<1>2. Present \in SUBSET (1 .. LastSequence) /\ \A e \in 1 .. LastSequence : e \in Nat /\ e > 0
  BY <1>1, EntryTypes DEF Present
<1>3. /\ p \in {e \in Present : Sought(e)} \cup {0} /\ p \in Nat
      /\ \A e \in Present : Sought(e) => e <= p
  BY <1>2, NewestIs
<1>4. /\ Newest(mem, k, s) \in {e \in mem : Sought(e)} \cup {0} /\ Newest(mem, k, s) \in Nat
      /\ \A e \in mem : Sought(e) => e <= Newest(mem, k, s)
  BY <1>1, NewestIs
<1>5. /\ Newest(imm, k, s) \in {e \in imm : Sought(e)} \cup {0} /\ Newest(imm, k, s) \in Nat
      /\ \A e \in imm : Sought(e) => e <= Newest(imm, k, s)
  BY <1>1, NewestIs
<1>6. ASSUME NEW l \in Level
      PROVE  /\ GetFromLevel(l, k, s) = Newest(Entries(l), k, s)
             /\ Newest(Entries(l), k, s) \in {e \in Entries(l) : Sought(e)} \cup {0}
             /\ Newest(Entries(l), k, s) \in Nat
             /\ \A e \in Entries(l) : Sought(e) => e <= Newest(Entries(l), k, s)
  <2>1. GetFromLevel(l, k, s) = Newest(Entries(l), k, s)
    BY LevelFinds DEF MustNotOverlap
  <2> QED BY <1>1, <2>1, NewestIs
<1>7. ASSUME NEW q \in Nat, q \in Present, Sought(q), \A e \in Present : Sought(e) => e <= q
      PROVE  q = p
  BY <1>2, <1>3, <1>7
<1>8. ASSUME \A e \in Present : ~Sought(e) PROVE p = 0
  BY <1>3, <1>8
<1> HIDE DEF p
<1>9. Present = mem \cup imm \cup InFiles /\ \A e \in InFiles : \E l \in Level : e \in Entries(l)
  BY DEF Present, InFiles
<1>10. found = p
  <2>1. CASE Newest(mem, k, s) > 0
    <3>1. Newest(mem, k, s) \in mem /\ Sought(Newest(mem, k, s))
      BY <1>4, <2>1
    <3>2. \A e \in Present : Sought(e) => e <= Newest(mem, k, s)
      BY <1>2, <1>4, <1>9, <3>1 DEF MemNewest
    <3> QED BY <1>4, <1>7, <1>9, <2>1, <3>1, <3>2
  <2>2. CASE Newest(mem, k, s) = 0 /\ Newest(imm, k, s) > 0
    <3>1. Newest(imm, k, s) \in imm /\ Sought(Newest(imm, k, s))
      BY <1>5, <2>2
    <3>2. \A e \in mem : ~Sought(e)
      BY <1>1, <1>2, <1>4, <2>2
    <3>3. \A e \in Present : Sought(e) => e <= Newest(imm, k, s)
      BY <1>2, <1>5, <1>9, <3>1, <3>2 DEF MemNewest
    <3> QED BY <1>5, <1>7, <1>9, <2>2, <3>1, <3>3
  <2>3. CASE Newest(mem, k, s) = 0 /\ Newest(imm, k, s) = 0
    <3>1. \A e \in mem \cup imm : ~Sought(e)
      BY <1>1, <1>2, <1>4, <1>5, <2>3
    <3>2. found = IF hits = {} THEN 0 ELSE GetFromLevel(Min(hits), k, s)
      BY <2>3
    <3>3. \A l \in Level : l \in hits <=> \E e \in Entries(l) : Sought(e)
      <4> SUFFICES ASSUME NEW l \in Level PROVE l \in hits <=> \E e \in Entries(l) : Sought(e)
        OBVIOUS
      <4>1. l \in hits <=> Newest(Entries(l), k, s) > 0
        BY <1>6
      <4> QED BY <1>1, <1>2, <1>6, <4>1
    <3>4. hits \in SUBSET Nat /\ hits \in SUBSET Level
      BY CompactionAssumption DEF Level
    <3> HIDE DEF hits, found
    <3>5. CASE hits = {}
      <4>1. \A e \in Present : ~Sought(e)
        BY <1>9, <3>1, <3>3, <3>5
      <4> QED BY <1>8, <3>2, <3>5, <4>1
    <3>6. CASE hits # {}
      <4>1. PICK m \in hits : \A l \in hits : m <= l
        BY <3>4, <3>6, LeastNumber
      <4>2. Min(hits) = m /\ m \in Level
        BY <3>4, <4>1, MinIs
      <4> DEFINE q == Newest(Entries(m), k, s)
      <4>3. found = q /\ q \in Nat /\ q \in Entries(m) /\ Sought(q)
        <5>1. \E e \in Entries(m) : Sought(e)
          BY <3>3, <4>1, <4>2
        <5>2. q # 0
          BY <1>1, <1>2, <1>6, <4>2, <5>1
        <5> QED BY <1>6, <3>2, <3>6, <4>2, <5>2
      <4>4. \A e \in Entries(m) : Sought(e) => e <= q
        BY <1>6, <4>2
      <4> HIDE DEF q
      <4>5. ASSUME NEW e \in Present, Sought(e) PROVE e <= q
        <5>1. PICK l \in Level : e \in Entries(l)
          BY <1>9, <3>1, <4>5
        <5>2. l \in hits /\ m <= l
          BY <3>3, <4>1, <4>5, <5>1
        <5>3. CASE l = m
          BY <4>4, <4>5, <5>1, <5>3
        <5>4. CASE m < l
          <6>1. e < q
            BY <4>2, <4>3, <4>5, <5>1, <5>4 DEF LevelsOrdered
          <6> QED BY <1>2, <4>3, <6>1
        <5> QED BY <3>4, <4>1, <5>2, <5>3, <5>4
      <4>6. q \in Present
        BY <1>1, <1>9, <4>2, <4>3
      <4> QED BY <1>7, <4>3, <4>5, <4>6
    <3> QED BY <3>5, <3>6
  <2> QED BY <1>4, <1>5, <2>1, <2>2, <2>3
<1>11. Get(k, s) = IF found # 0 /\ Deletion(found) THEN 0 ELSE found
  BY DEF Get
<1> QED BY <1>10, <1>11 DEF p

(* What the levels promise is all that a read needs. *)
LEMMA ReadsRight ==
    ASSUME CInv, MemNewest, LevelsOrdered, MustNotOverlap, NothingLost,
           NEW k \in Key, NEW s \in ReadPoints
    PROVE  Get(k, s) = Expected(k, s)
<1> DEFINE p == Newest(Present, k, s)
           e == Newest(1 .. LastSequence, k, s)
<1>1. LastSequence \in Nat /\ k \in Nat /\ \A d \in 1 .. LastSequence : d \in Nat /\ d > 0
  BY EntryTypes, CompactionAssumption
<1>2. s \in Nat
  BY <1>1 DEF ReadPoints, CInv, DataTypeOK
<1>3. Present \in SUBSET (1 .. LastSequence)
  <2>1. \A l \in Level : Entries(l) \in SUBSET (1 .. LastSequence)
    BY EntryTypes DEF Entries
  <2> QED BY <2>1 DEF CInv, DataTypeOK, Present, InFiles
<1>4. Get(k, s) = IF p # 0 /\ Deletion(p) THEN 0 ELSE p
  BY <1>1, <1>2, GetFinds
<1>5. /\ p \in {d \in Present : key(d) = k /\ d <= s} \cup {0} /\ p \in Nat
      /\ \A d \in Present : key(d) = k /\ d <= s => d <= p
  BY <1>3, NewestIs
<1>6. /\ e \in {d \in 1 .. LastSequence : key(d) = k /\ d <= s} \cup {0} /\ e \in Nat
      /\ \A d \in 1 .. LastSequence : key(d) = k /\ d <= s => d <= e
  BY NewestIs
<1>7. Expected(k, s) = IF e # 0 /\ Deletion(e) THEN 0 ELSE e
  BY DEF Expected
<1> HIDE DEF p, e
<1>8. p <= e
  BY <1>1, <1>3, <1>5, <1>6
<1>9. CASE e = 0
  BY <1>4, <1>5, <1>7, <1>8, <1>9
<1>10. CASE e # 0
  <2>1. e \in 1 .. LastSequence /\ key(e) = k /\ IsNewest(e, s)
    BY <1>6, <1>10 DEF IsNewest
  <2>2. CASE e \in Present
    <3>1. e <= p
      BY <1>5, <1>6, <1>10, <2>1, <2>2
    <3>2. p = e
      BY <1>5, <1>6, <1>8, <3>1
    <3> QED BY <1>4, <1>7, <3>2
  <2>3. CASE e \notin Present
    <3>1. Deletion(e) /\ \A d \in Present : key(d) = k => s < d
      BY <2>1, <2>3 DEF NothingLost
    <3>2. p = 0
      BY <1>1, <1>2, <1>3, <1>5, <3>1
    <3> QED BY <1>4, <1>7, <1>10, <3>1, <3>2
  <2> QED BY <2>2, <2>3
<1> QED BY <1>9, <1>10

-----------------------------------------------------------------------------
(* MustNotOverlap, entry by entry *)
Sorted(tables) ==
    \A f, g \in tables : f # g => \/ \A e \in f, d \in g : Before(e, d)
                                 \/ \A e \in f, d \in g : Before(d, e)

LevelsSorted == \A l \in Level \ {0} : Sorted(files[l])

LEMMA DisjointSorted ==
    ASSUME CInv, NEW tables \in SUBSET Tables
    PROVE  Disjoint(tables) <=> Sorted(tables)
<1>1. \A f \in tables : f \in SUBSET (1 .. LastSequence) /\ f # {}
  BY TablesAre, Zenon
<1>2. \A f \in tables : /\ largest(f) \in f /\ smallest(f) \in f
                        /\ \A d \in f \ {largest(f)} : Before(d, largest(f))
                        /\ \A d \in f \ {smallest(f)} : Before(smallest(f), d)
  BY <1>1, EndsExist
<1>3. \A f \in tables : \A e \in f : e \in Nat /\ key(e) \in Nat
  BY <1>1, EntryTypes
<1>4. ASSUME NEW f \in tables, NEW g \in tables, Before(largest(f), smallest(g)),
             NEW e \in f, NEW d \in g
      PROVE  Before(e, d)
  <2>1. e = largest(f) \/ Before(e, largest(f))
    BY <1>2
  <2>2. d = smallest(g) \/ Before(smallest(g), d)
    BY <1>2
  <2>3. /\ key(e) \in Nat /\ key(d) \in Nat /\ key(largest(f)) \in Nat /\ key(smallest(g)) \in Nat
        /\ e \in Nat /\ d \in Nat /\ largest(f) \in Nat /\ smallest(g) \in Nat
    BY <1>2, <1>3
  <2> QED BY <1>4, <2>1, <2>2, <2>3 DEF Before
<1>5. Disjoint(tables) => Sorted(tables)
  BY <1>4 DEF Disjoint, Sorted
<1>6. Sorted(tables) => Disjoint(tables)
  BY <1>2 DEF Disjoint, Sorted
<1> QED BY <1>5, <1>6

LEMMA SortedLevels ==
    ASSUME CInv
    PROVE  LevelsSorted <=> MustNotOverlap
<1>1. \A l \in Level : files[l] \in SUBSET Tables
  BY DEF CInv, FilesTypeOK
<1> QED BY <1>1, DisjointSorted DEF LevelsSorted, MustNotOverlap

(* A newer entry of the key that no read can miss *)
Covered(e, ss) == \E d \in InputEntries : key(d) = key(e) /\ d > e /\ d <= ss

(* No level below the one the outputs go to has the key of e. *)
Deepest(e) ==
    \A m \in Level : m >= work.level + 2 => \A d \in Entries(m) : key(d) # key(e)

(* What was dropped, and what not: ss is the smallest_snapshot that        *)
(* DoCompactionWork read when it began.                                    *)
DropsSound ==
    \E ss \in 0 .. LastSequence :
        /\ \A s \in ReadPoints : ss <= s
        /\ \A e \in work.kept : ~Covered(e, ss)
        /\ \A e \in InputEntries \ work.kept :
             Covered(e, ss) \/ (Deletion(e) /\ e <= ss /\ Deepest(e))

(* The inputs are still there; what their levels hold beside them has no   *)
(* key of theirs, but for newer tables of level 0.                         *)
InputsApart ==
    /\ work.inputs[1] \subseteq files[work.level]
    /\ work.inputs[2] \subseteq files[work.level + 1]
    /\ \A f \in files[work.level] \ work.inputs[1] :
         \A e \in f, d \in UNION work.inputs[1] : key(e) = key(d) => d < e
    /\ \A f \in files[work.level + 1] \ work.inputs[2] :
         \A e \in f, d \in InputEntries : key(e) # key(d)

LevelInv ==
    /\ MemNewest /\ LevelsOrdered /\ NothingLost /\ LevelsSorted
    /\ work # Idle => InputsApart /\ DropsSound

Whole == ~parted /\ ~overlaid => LevelInv

(* Everything that is present has been written. *)
LEMMA PresentTypes ==
    ASSUME CInv
    PROVE  /\ mem \in SUBSET (1 .. LastSequence) /\ imm \in SUBSET (1 .. LastSequence)
           /\ \A l \in Level : Entries(l) \in SUBSET (1 .. LastSequence) /\ Entries(l) \subseteq InFiles
           /\ InFiles \in SUBSET (1 .. LastSequence) /\ Present \in SUBSET (1 .. LastSequence)
           /\ InputEntries \in SUBSET (1 .. LastSequence)
<1>1. \A l \in Level : Entries(l) \in SUBSET (1 .. LastSequence) /\ Entries(l) \subseteq InFiles
  BY EntryTypes DEF Entries, InFiles
<1>2. InFiles \in SUBSET (1 .. LastSequence)
  BY <1>1 DEF InFiles
<1> QED BY <1>1, <1>2 DEF CInv, DataTypeOK, WorkTypeOK, Present

LEMMA WholeInit == Init => Whole
<1> SUFFICES ASSUME Init PROVE LevelInv
  BY DEF Whole
<1>1. \A l \in Level : files[l] = {}
  BY DEF Init
<1>2. InFiles = {} /\ \A l \in Level : Entries(l) = {}
  BY <1>1 DEF InFiles, Entries
<1>3. MemNewest /\ LevelsOrdered
  BY <1>2 DEF Init, MemNewest, LevelsOrdered
<1>4. NothingLost
  BY DEF Init, NothingLost, LastSequence
<1>5. LevelsSorted
  BY <1>1 DEF LevelsSorted, Sorted
<1> QED BY <1>3, <1>4, <1>5 DEF LevelInv, Init

(* Steps that leave the tables alone *)
LEMMA FewerReads ==
    ASSUME CInv, Whole, UNCHANGED <<updates, mem, imm, files, work, parted, overlaid>>,
           ReadPoints' \subseteq ReadPoints
    PROVE  Whole'
<1> SUFFICES ASSUME LevelInv PROVE LevelInv'
  BY DEF Whole
<1>1. /\ LastSequence' = LastSequence /\ InFiles' = InFiles /\ Present' = Present
      /\ InputEntries' = InputEntries
      /\ \A l : Entries(l)' = Entries(l)
      /\ \A e : key(e)' = key(e) /\ (Deletion(e)' <=> Deletion(e))
  BY DEF LastSequence, InFiles, Present, Entries, key, Deletion, InputEntries
<1>2. MemNewest' /\ LevelsOrdered'
  BY <1>1 DEF LevelInv, MemNewest, LevelsOrdered
<1>3. NothingLost'
  BY <1>1 DEF LevelInv, NothingLost, IsNewest
<1>4. LevelsSorted'
  BY <1>1 DEF LevelInv, LevelsSorted, Sorted, Before
<1>5. InputsApart => InputsApart'
  BY <1>1 DEF InputsApart
<1>6. DropsSound => DropsSound'
  BY <1>1 DEF DropsSound, Covered, Deepest
<1>7. work' # Idle => InputsApart' /\ DropsSound'
  BY <1>5, <1>6 DEF LevelInv, Idle
<1> QED BY <1>2, <1>3, <1>4, <1>7 DEF LevelInv

LEMMA SwitchMemWhole == CInv /\ Whole /\ SwitchMem => Whole'
<1> SUFFICES ASSUME CInv, Whole, SwitchMem, LevelInv PROVE LevelInv'
  BY DEF Whole, SwitchMem
<1>1. /\ LastSequence' = LastSequence /\ InFiles' = InFiles /\ Present' = Present
      /\ InputEntries' = InputEntries /\ ReadPoints' = ReadPoints
      /\ \A l : Entries(l)' = Entries(l)
      /\ \A e : key(e)' = key(e) /\ (Deletion(e)' <=> Deletion(e))
  BY DEF SwitchMem, LastSequence, InFiles, Present, Entries, key, Deletion, InputEntries, ReadPoints
<1>2. MemNewest' /\ LevelsOrdered'
  BY <1>1 DEF SwitchMem, LevelInv, MemNewest, LevelsOrdered
<1>3. NothingLost'
  BY <1>1 DEF LevelInv, NothingLost, IsNewest
<1>4. LevelsSorted'
  BY <1>1 DEF SwitchMem, LevelInv, LevelsSorted, Sorted, Before
<1>5. InputsApart => InputsApart'
  BY <1>1 DEF SwitchMem, InputsApart
<1>6. DropsSound => DropsSound'
  BY <1>1 DEF SwitchMem, DropsSound, Covered, Deepest
<1>7. work' # Idle => InputsApart' /\ DropsSound'
  BY <1>5, <1>6 DEF SwitchMem, LevelInv, Idle
<1> QED BY <1>2, <1>3, <1>4, <1>7 DEF LevelInv

LEMMA WriteWhole ==
    ASSUME CInv, Whole, NEW k \in Key, NEW type \in {"value", "deletion"}, Write(k, type)
    PROVE  Whole'
<1> SUFFICES ASSUME LevelInv PROVE LevelInv'
  BY DEF Whole, Write
<1>n. PICK n \in Nat : n = LastSequence
  BY EntryTypes
<1>0. n \in Nat /\ \A e \in 1 .. n : e \in Nat /\ e <= n
  OBVIOUS
<1>1. /\ LastSequence' = n + 1 /\ key(n + 1)' = k
      /\ \A e \in 1 .. n : key(e)' = key(e) /\ (Deletion(e)' <=> Deletion(e))
  <2>1. /\ updates \in Seq(Update) /\ n = Len(updates)
        /\ updates' = Append(updates, [key |-> k, type |-> type])
    BY <1>n DEF Write, LastSequence, CInv, DataTypeOK
  <2>2. /\ Len(updates') = n + 1 /\ updates'[n + 1] = [key |-> k, type |-> type]
        /\ \A e \in 1 .. n : updates'[e] = updates[e]
    BY <2>1
  <2> QED BY <2>1, <2>2 DEF LastSequence, key, Deletion
<1>2. /\ mem' = mem \cup {n + 1} /\ imm' = imm /\ InFiles' = InFiles /\ InputEntries' = InputEntries
      /\ Present' = Present \cup {n + 1} /\ \A l : Entries(l)' = Entries(l)
  BY <1>n DEF Write, InFiles, Present, Entries, InputEntries
<1>3. /\ mem \in SUBSET (1 .. n) /\ imm \in SUBSET (1 .. n) /\ InFiles \in SUBSET (1 .. n)
      /\ Present \in SUBSET (1 .. n) /\ InputEntries \in SUBSET (1 .. n)
      /\ \A l \in Level : Entries(l) \in SUBSET (1 .. n)
  BY <1>n, PresentTypes
<1>4. /\ \A s \in ReadPoints : s \in 0 .. n
      /\ n \in ReadPoints
      /\ \A s \in ReadPoints' : s = n + 1 \/ s \in ReadPoints
  BY <1>n, <1>0, <1>1 DEF ReadPoints, Write, CInv, DataTypeOK
<1>5. MemNewest'
  BY <1>0, <1>2, <1>3 DEF LevelInv, MemNewest
<1>6. LevelsOrdered'
  BY <1>1, <1>2, <1>3 DEF LevelInv, LevelsOrdered
<1>7. NothingLost'
  <2> SUFFICES ASSUME NEW s \in ReadPoints', NEW e \in 1 .. n + 1, IsNewest(e, s)'
               PROVE  \/ e \in Present'
                      \/ Deletion(e)' /\ \A d \in Present' : key(d)' = key(e)' => s < d
    BY <1>1 DEF NothingLost
  <2>1. e <= s /\ \A d \in 1 .. n + 1 : key(d)' = key(e)' /\ d <= s => d <= e
    BY <1>1 DEF IsNewest
  <2>2. CASE e = n + 1
    BY <1>2, <2>2
  <2>3. CASE e \in 1 .. n /\ s \in ReadPoints
    <3>1. IsNewest(e, s)
      BY <1>n, <1>0, <1>1, <2>1, <2>3 DEF IsNewest
    <3>2. e \in Present \/ (Deletion(e) /\ \A d \in Present : key(d) = key(e) => s < d)
      BY <1>n, <2>3, <3>1 DEF LevelInv, NothingLost
    <3>3. s < n + 1
      BY <1>0, <1>4, <2>3
    <3> QED BY <1>1, <1>2, <1>3, <2>3, <3>2, <3>3
  <2>4. CASE e \in 1 .. n /\ s = n + 1
    <3>1. k # key(e)
      <4>1. n + 1 \in 1 .. n + 1 /\ n + 1 <= s /\ ~(n + 1 <= e)
        BY <1>0, <2>4
      <4> QED BY <1>1, <2>1, <2>4, <4>1
    <3>2. IsNewest(e, n)
      BY <1>n, <1>0, <1>1, <2>1, <2>4 DEF IsNewest
    <3>3. e \in Present \/ (Deletion(e) /\ \A d \in Present : key(d) = key(e) => n < d)
      BY <1>n, <1>4, <2>4, <3>2 DEF LevelInv, NothingLost
    <3>4. CASE e \in Present
      BY <1>2, <3>4
    <3>5. CASE Deletion(e) /\ \A d \in Present : key(d) = key(e) => n < d
      <4>1. \A d \in Present : d \in 1 .. n /\ key(d) # key(e)
        BY <1>0, <1>3, <3>5
      <4>2. \A d \in Present' : key(d)' # key(e)'
        BY <1>1, <1>2, <2>4, <3>1, <4>1
      <4> QED BY <1>1, <2>4, <3>5, <4>2
    <3> QED BY <3>3, <3>4, <3>5
  <2> QED BY <1>0, <1>4, <2>2, <2>3, <2>4
<1>8. LevelsSorted'
  <2>1. \A l \in Level : \A f \in files[l] : f \in SUBSET (1 .. n)
    BY <1>n, EntryTypes
  <2>2. files' = files
    BY DEF Write
  <2> QED BY <1>1, <2>1, <2>2 DEF LevelInv, LevelsSorted, Sorted, Before
<1>9. ASSUME work # Idle PROVE InputsApart' /\ DropsSound'
  <2>1. InputsApart /\ DropsSound /\ work' = work /\ files' = files
    BY <1>9 DEF LevelInv, Write
  <2>2. work.level \in Level /\ work.level + 1 \in Level /\ work.kept \subseteq InputEntries
    BY <1>9 DEF CInv, WorkTypeOK
  <2>3. InputsApart'
    <3>1. UNION work.inputs[1] \subseteq InputEntries
      BY DEF InputEntries
    <3>2. \A l \in Level : \A f \in files[l] : f \in SUBSET (1 .. n)
      BY <1>n, EntryTypes
    <3> QED BY <1>1, <1>2, <1>3, <2>1, <2>2, <3>1, <3>2 DEF InputsApart
  <2>4. DropsSound'
    <3>1. PICK ss \in 0 .. n :
            /\ \A s \in ReadPoints : ss <= s
            /\ \A e \in work.kept : ~Covered(e, ss)
            /\ \A e \in InputEntries \ work.kept :
                 Covered(e, ss) \/ (Deletion(e) /\ e <= ss /\ Deepest(e))
      BY <1>n, <2>1 DEF DropsSound
    <3>2. ss \in 0 .. n + 1 /\ \A s \in ReadPoints' : ss <= s
      <4>1. ss \in 0 .. n + 1 /\ ss <= n + 1
        BY <1>0
      <4> QED BY <1>4, <3>1, <4>1
    <3>3. \A e \in InputEntries : Covered(e, ss)' <=> Covered(e, ss)
      BY <1>1, <1>2, <1>3 DEF Covered
    <3>4. \A e \in InputEntries : Deepest(e)' <=> Deepest(e)
      BY <1>1, <1>2, <1>3, <2>1 DEF Deepest
    <3> QED BY <1>1, <1>2, <1>3, <2>1, <2>2, <3>1, <3>2, <3>3, <3>4 DEF DropsSound
  <2> QED BY <2>3, <2>4
<1>10. work' # Idle' => work # Idle
  BY DEF Write, Idle
<1> QED BY <1>5, <1>6, <1>7, <1>8, <1>9, <1>10 DEF LevelInv

(* A flush to a level below 0 passes no table with a key of the memtable. *)
LEMMA FlushPasses ==
    ASSUME CInv, imm # {}, NEW level \in PickLevelForMemTableOutput(Lower({imm}), Upper({imm})),
           level > 0, NEW l \in 0 .. level, NEW f \in files[l]
    PROVE  /\ \A e \in imm, d \in f : key(e) # key(d)
           /\ \/ \A e \in f, d \in imm : Before(e, d)
              \/ \A e \in f, d \in imm : Before(d, e)
<1>1. level \in 0 .. MaxMemCompactLevel /\ ~OverlapInLevel(l, Lower({imm}), Upper({imm}))
  BY DEF PickLevelForMemTableOutput
<1>2. l \in Level
  BY <1>1, CompactionAssumption DEF Level
<1>3. ~Overlaps(f, Lower({imm}), Upper({imm}))
  BY <1>1 DEF OverlapInLevel
<1>4. f \in SUBSET (1 .. LastSequence) /\ f # {} /\ imm \in SUBSET (1 .. LastSequence)
  BY <1>2, EntryTypes, PresentTypes
<1>5. \/ \A e \in imm, d \in f : key(e) < key(d)
      \/ \A e \in imm, d \in f : key(d) < key(e)
  BY <1>3, <1>4, RangesApart
<1>6. \A e \in imm \cup f : key(e) \in Nat
  BY <1>4, EntryTypes
<1> QED BY <1>5, <1>6 DEF Before

LEMMA CompactMemTableWhole == CInv /\ Whole /\ CompactMemTable => Whole'
<1>0. CompactMemTable => UNCHANGED <<parted, overlaid>>
  BY DEF CompactMemTable
<1> SUFFICES ASSUME CInv, Whole, CompactMemTable, LevelInv PROVE LevelInv'
  BY <1>0 DEF Whole
<1>1. PICK level \in PickLevelForMemTableOutput(Lower({imm}), Upper({imm})) :
        files' = [files EXCEPT ![level] = @ \cup {imm}]
  BY DEF CompactMemTable
<1>2. level \in 0 .. MaxMemCompactLevel /\ level \in Level /\ level \in Nat
  BY CompactionAssumption DEF PickLevelForMemTableOutput, Level
<1>3. /\ LastSequence' = LastSequence /\ ReadPoints' = ReadPoints /\ InputEntries' = InputEntries
      /\ \A e : key(e)' = key(e) /\ (Deletion(e)' <=> Deletion(e))
      /\ mem' = mem /\ imm' = {} /\ work' = work /\ imm # {}
  BY DEF CompactMemTable, LastSequence, ReadPoints, InputEntries, key, Deletion
<1>4. /\ files'[level] = files[level] \cup {imm}
      /\ \A l \in Level \ {level} : files'[l] = files[l]
  BY <1>1, <1>2 DEF CInv, FilesTypeOK
<1>5. /\ Entries(level)' = Entries(level) \cup imm
      /\ \A l \in Level \ {level} : Entries(l)' = Entries(l)
  BY <1>4 DEF Entries
<1>6. InFiles' = InFiles \cup imm
  BY <1>2, <1>5 DEF InFiles
<1>7. Present' = Present
  BY <1>3, <1>6 DEF Present
<1>8. MemNewest'
  BY <1>3, <1>6 DEF LevelInv, MemNewest
<1>9. ASSUME NEW l \in Level, l <= level, level > 0, NEW e \in imm, NEW d \in Entries(l)
      PROVE  key(e) # key(d)
  <2>1. l \in 0 .. level /\ \E f \in files[l] : d \in f
    BY <1>2, <1>9, CompactionAssumption DEF Level, Entries
  <2> QED BY <1>3, <1>9, <2>1, FlushPasses
<1>10. LevelsOrdered'
  <2> SUFFICES ASSUME NEW l \in Level, NEW m \in Level, l < m,
                      NEW e \in Entries(l)', NEW d \in Entries(m)', key(e) = key(d)
               PROVE  d < e
    BY <1>3 DEF LevelsOrdered
  <2>0. l \in Nat /\ m \in Nat
    BY CompactionAssumption DEF Level
  <2>1. CASE e \in Entries(l) /\ d \in Entries(m)
    BY <2>1 DEF LevelInv, LevelsOrdered
  <2>2. CASE e \in imm /\ d \in Entries(m)
    BY <2>2, PresentTypes DEF LevelInv, MemNewest
  <2>3. CASE d \in imm /\ e \in Entries(l) /\ m = level
    BY <1>9, <2>0, <2>3
  <2> QED BY <1>5, <2>0, <2>1, <2>2, <2>3
<1>11. NothingLost'
  BY <1>3, <1>7 DEF LevelInv, NothingLost, IsNewest
<1>12. LevelsSorted'
  <2>1. ASSUME NEW l \in Level \ {0} PROVE Sorted(files'[l])
    <3>1. CASE l # level
      BY <1>4, <2>1, <3>1 DEF LevelInv, LevelsSorted
    <3>2. CASE l = level
      <4>1. Sorted(files[level]) /\ level > 0 /\ level \in 0 .. level
        BY <1>2, <2>1, <3>2 DEF LevelInv, LevelsSorted
      <4>2. \A f \in files[level] : \/ \A e \in f, d \in imm : Before(e, d)
                                    \/ \A e \in f, d \in imm : Before(d, e)
        BY <1>3, <4>1, FlushPasses
      <4> QED BY <1>4, <3>2, <4>1, <4>2 DEF Sorted
    <3> QED BY <3>1, <3>2
  <2>2. \A T : Sorted(T)' <=> Sorted(T)
    BY <1>3 DEF Sorted, Before
  <2> QED BY <2>1, <2>2 DEF LevelsSorted
<1>13. ASSUME work # Idle PROVE InputsApart' /\ DropsSound'
  <2> DEFINE w == work.level
  <2>1. InputsApart /\ DropsSound /\ w \in Level /\ w + 1 \in Level /\ w \in Nat
    BY <1>13, CompactionAssumption DEF LevelInv, CInv, WorkTypeOK, Level
  <2>2. /\ UNION work.inputs[1] \subseteq Entries(w)
        /\ \A d \in InputEntries : d \in Entries(w) \/ d \in Entries(w + 1)
    BY <2>1 DEF InputsApart, InputEntries, Entries
  <2>3. InputsApart'
    <3>1. work.inputs[1] \subseteq files'[w] /\ work.inputs[2] \subseteq files'[w + 1]
      BY <1>4, <2>1 DEF InputsApart
    <3>2. ASSUME NEW f \in files'[w] \ work.inputs[1], NEW e \in f, NEW d \in UNION work.inputs[1],
                 key(e) = key(d)
          PROVE  d < e
      <4>1. CASE f = imm
        BY <2>1, <2>2, <4>1, <3>2, PresentTypes DEF LevelInv, MemNewest
      <4>2. CASE f \in files[w]
        BY <2>1, <3>2, <4>2 DEF InputsApart
      <4> QED BY <1>4, <2>1, <3>2, <4>1, <4>2
    <3>3. ASSUME NEW f \in files'[w + 1] \ work.inputs[2], NEW e \in f, NEW d \in InputEntries
          PROVE  key(e) # key(d)
      <4>1. CASE f = imm /\ level = w + 1
        <5>1. \E l \in Level : l <= level /\ d \in Entries(l)
          BY <2>1, <2>2, <4>1
        <5> QED BY <1>9, <2>1, <3>3, <4>1, <5>1
      <4>2. CASE f \in files[w + 1]
        BY <2>1, <3>3, <4>2 DEF InputsApart
      <4> QED BY <1>4, <2>1, <3>3, <4>1, <4>2
    <3> QED BY <1>3, <3>1, <3>2, <3>3 DEF InputsApart
  <2>4. ASSUME NEW e \in InputEntries, Deepest(e) PROVE Deepest(e)'
    <3> SUFFICES ASSUME NEW m \in Level, m >= w + 2, NEW d \in Entries(m)' PROVE key(d) # key(e)
      BY <1>3 DEF Deepest
    <3>1. CASE d \in Entries(m)
      BY <2>4, <3>1 DEF Deepest
    <3>2. CASE d \in imm /\ m = level
      <4>1. \E l \in Level : l <= level /\ e \in Entries(l)
        BY <1>2, <2>1, <2>2, <3>2
      <4> QED BY <1>2, <1>9, <2>1, <3>2, <4>1
    <3> QED BY <1>5, <3>1, <3>2
  <2>5. DropsSound'
    <3>1. \A e, ss : Covered(e, ss)' <=> Covered(e, ss)
      BY <1>3 DEF Covered
    <3> QED BY <1>3, <2>1, <2>4, <3>1 DEF DropsSound
  <2> QED BY <2>3, <2>5
<1>14. work' # Idle' => work # Idle
  BY <1>3 DEF Idle
<1> QED BY <1>8, <1>10, <1>11, <1>12, <1>13, <1>14 DEF LevelInv

(* The inputs of the next level are all tables of it that overlap, however *)
(* the inputs of the level itself were chosen.                             *)
LEMMA OtherInputsOverlap ==
    ASSUME NEW level \in Nat, NEW inputs0, NEW inputs \in SetupOtherInputs(level, inputs0)
    PROVE  inputs[2] = {f \in files[level + 1] : Overlaps(f, Lower(inputs[1]), Upper(inputs[1]))}
<1>1. inputs[2] = GetOverlappingInputs(level + 1, Lower(inputs[1]), Upper(inputs[1]))
  BY DEF SetupOtherInputs
<1> QED BY <1>1 DEF GetOverlappingInputs

LEMMA ChosenOverlap ==
    ASSUME NEW level \in Nat, NEW inputs,
           inputs \in PickCompaction(level) \/ \E lo, hi \in Key : inputs \in CompactRange(level, lo, hi)
    PROVE  /\ inputs[1] \subseteq files[level] /\ inputs[2] \subseteq files[level + 1]
           /\ inputs[2] = {f \in files[level + 1] : Overlaps(f, Lower(inputs[1]), Upper(inputs[1]))}
<1>1. inputs[1] \subseteq files[level] /\ inputs[2] \subseteq files[level + 1]
  BY PickedAreFiles, RangeAreFiles
<1>2. \E inputs0 : inputs \in SetupOtherInputs(level, inputs0)
  BY DEF PickCompaction, CompactRange
<1> QED BY <1>1, <1>2, OtherInputsOverlap

(* So a table beside them shares no key with those of the level above. *)
LEMMA BesideApart ==
    ASSUME CInv, NEW level \in Nat, level \in Level, level + 1 \in Level, NEW inputs,
           inputs[1] \subseteq files[level],
           inputs[2] = {f \in files[level + 1] : Overlaps(f, Lower(inputs[1]), Upper(inputs[1]))},
           NEW f \in files[level + 1] \ inputs[2], NEW e \in f, NEW d \in UNION inputs[1]
    PROVE  key(e) # key(d)
<1>1. UNION inputs[1] \subseteq 1 .. LastSequence /\ UNION inputs[1] # {}
  BY EntryTypes
<1>2. /\ Lower(inputs[1]) \in Nat /\ Upper(inputs[1]) \in Nat
      /\ Lower(inputs[1]) <= key(d) /\ key(d) <= Upper(inputs[1])
  BY <1>1, KeysBetween
<1>3. f \in SUBSET (1 .. LastSequence) /\ ~Overlaps(f, Lower(inputs[1]), Upper(inputs[1]))
  BY EntryTypes
<1> QED BY <1>2, <1>3, SharedOverlaps

(* Compact and CompactManually: nothing has been moved yet. *)
LEMMA StartWorkWhole ==
    ASSUME CInv, Whole, work = Idle, NEW level \in 0 .. NumLevels - 2, NEW inputs,
           inputs[1] \subseteq files[level], inputs[2] \subseteq files[level + 1],
           inputs[2] = {f \in files[level + 1] : Overlaps(f, Lower(inputs[1]), Upper(inputs[1]))},
           StartWork(level, inputs)
    PROVE  Whole'
<1> SUFFICES ASSUME LevelInv, ~parted' PROVE LevelInv'
  BY DEF Whole, StartWork
<1> DEFINE entries == UNION (inputs[1] \cup inputs[2])
<1>1. /\ UNCHANGED <<updates, mem, imm, files, snapshots>> /\ LastSequence' = LastSequence
      /\ ReadPoints' = ReadPoints /\ smallest_snapshot' = smallest_snapshot
      /\ InFiles' = InFiles /\ Present' = Present /\ \A l : Entries(l)' = Entries(l)
      /\ \A e : key(e)' = key(e) /\ (Deletion(e)' <=> Deletion(e))
  BY DEF StartWork, LastSequence, ReadPoints, smallest_snapshot, InFiles, Present, Entries, key, Deletion
<1>2. level \in Nat /\ level \in Level /\ level + 1 \in Level
  BY CompactionAssumption DEF Level
<1>3. /\ work'.level = level /\ work'.inputs = inputs /\ work'.kept = Kept(level, entries)
      /\ InputEntries' = entries
  BY DEF StartWork, InputEntries
<1>4. MemNewest' /\ LevelsOrdered'
  BY <1>1 DEF LevelInv, MemNewest, LevelsOrdered
<1>5. NothingLost'
  BY <1>1 DEF LevelInv, NothingLost, IsNewest
<1>6. LevelsSorted'
  BY <1>1 DEF LevelInv, LevelsSorted, Sorted, Before
<1>7. ~Parts(level, inputs[1]) /\ ~Parts(level + 1, inputs[2])
  BY DEF StartWork
<1>8. InputsApart'
  <2>1. ASSUME NEW f \in files[level] \ inputs[1], NEW e \in f, NEW d \in UNION inputs[1]
        PROVE  key(e) # key(d)
    BY <1>7 DEF Parts, UserKeys
  <2>2. ASSUME NEW f \in files[level + 1] \ inputs[2], NEW e \in f, NEW d \in entries
        PROVE  key(e) # key(d)
    <3>1. CASE d \in UNION inputs[1]
      BY <1>2, <3>1, BesideApart
    <3>2. CASE d \in UNION inputs[2]
      BY <1>7, <3>2 DEF Parts, UserKeys
    <3> QED BY <3>1, <3>2
  <2> QED BY <1>1, <1>3, <2>1, <2>2 DEF InputsApart
<1>9. DropsSound'
  <2> DEFINE ss == smallest_snapshot
  <2>1. ss \in 0 .. LastSequence /\ \A s \in ReadPoints : ss <= s
    <3>1. LastSequence \in Nat
      BY EntryTypes
    <3>2. ss \in 0 .. LastSequence
      BY <3>1 DEF smallest_snapshot, CInv, DataTypeOK
    <3> QED BY <3>2, SmallestSnapshot DEF CInv
  <2>2. entries \in SUBSET (1 .. LastSequence)
    BY <1>2, EntryTypes
  <2>3. PICK t \in 0 .. LastSequence : t = ss
    BY <2>1
  <2>4. \A e \in entries : Covered(e, t)' <=> \E d \in entries : key(d) = key(e) /\ d > e /\ d <= ss
    BY <1>1, <1>3, <2>3 DEF Covered
  <2>5. ASSUME NEW e \in entries, IsBaseLevelForKey(level, key(e)) PROVE Deepest(e)'
    <3> SUFFICES ASSUME NEW m \in Level, m >= level + 2, NEW d \in Entries(m) PROVE key(d) # key(e)
      BY <1>1, <1>3 DEF Deepest
    <3>1. m \in level + 2 .. NumLevels - 1
      BY <1>2, CompactionAssumption DEF Level
    <3>2. PICK f \in files[m] : d \in f
      BY DEF Entries
    <3>3. ~Overlaps(f, key(e), key(e))
      BY <2>5, <3>1, <3>2 DEF IsBaseLevelForKey, OverlapInLevel
    <3>4. f \in SUBSET (1 .. LastSequence) /\ key(e) \in Nat
      BY <2>2, EntryTypes
    <3> QED BY <3>2, <3>3, <3>4, SharedOverlaps
  <2>6. \A e \in Kept(level, entries) : e \in entries /\ ~Covered(e, t)'
    BY <2>4 DEF Kept
  <2>7. \A e \in entries \ Kept(level, entries) :
           Covered(e, t)' \/ (Deletion(e)' /\ e <= t /\ Deepest(e)')
    BY <1>1, <2>3, <2>4, <2>5 DEF Kept
  <2> HIDE DEF entries, ss
  <2> QED BY <1>1, <1>3, <2>1, <2>3, <2>6, <2>7 DEF DropsSound
<1> QED BY <1>4, <1>5, <1>6, <1>8, <1>9 DEF LevelInv

LEMMA CompactWhole ==
    ASSUME CInv, Whole, NEW level \in 0 .. NumLevels - 2,
           Compact(level) \/ \E lo, hi \in Key : CompactManually(level, lo, hi)
    PROVE  Whole'
<1>0. level \in Nat
  BY CompactionAssumption
<1>1. PICK inputs : /\ work = Idle /\ StartWork(level, inputs)
                    /\ \/ inputs \in PickCompaction(level)
                       \/ \E lo, hi \in Key : inputs \in CompactRange(level, lo, hi)
  BY DEF Compact, CompactManually
<1> QED BY <1>0, <1>1, ChosenOverlap, StartWorkWhole

LEMMA MoveWhole ==
    ASSUME CInv, Whole, NEW level \in 0 .. NumLevels - 2, Move(level)
    PROVE  Whole'
<1>0. level \in Nat /\ level \in Level /\ level + 1 \in Level /\ level + 1 # level
  BY CompactionAssumption DEF Level
<1>1. PICK inputs \in PickCompaction(level) :
        /\ SingleTable(inputs)
        /\ files' = [files EXCEPT ![level] = @ \ inputs[1], ![level + 1] = @ \cup inputs[1]]
        /\ parted' = (parted \/ Parts(level, inputs[1]))
  BY DEF Move
<1>2. work = Idle /\ UNCHANGED <<updates, mem, imm, snapshots, work, overlaid>>
  BY DEF Move
<1> SUFFICES ASSUME LevelInv, ~Parts(level, inputs[1]) PROVE LevelInv'
  BY <1>1, <1>2 DEF Whole
<1>3. /\ inputs[1] \subseteq files[level]
      /\ inputs[2] = {f \in files[level + 1] : Overlaps(f, Lower(inputs[1]), Upper(inputs[1]))}
  BY <1>0, ChosenOverlap
<1>4. PICK f : inputs[1] = {f}
  <2>1. LastSequence \in Nat
    BY EntryTypes
  <2>2. IsFiniteSet(SUBSET (1 .. LastSequence))
    <3>1. IsFiniteSet(1 .. LastSequence)
      BY <2>1, FS_Interval
    <3> QED BY <3>1, FS_SUBSET
  <2>3. inputs[1] \subseteq SUBSET (1 .. LastSequence)
    BY <1>0, <1>3, EntryTypes
  <2>4. IsFiniteSet(inputs[1]) /\ Cardinality(inputs[1]) = 1
    BY <1>1, <2>2, <2>3, FS_Subset DEF SingleTable
  <2> QED BY <2>4, FS_Singleton
<1>5. f \in files[level] /\ \A g \in files[level + 1] : ~Overlaps(g, Lower({f}), Upper({f}))
  BY <1>1, <1>3, <1>4 DEF SingleTable
<1>6. f \in SUBSET (1 .. LastSequence) /\ f # {} /\ f \subseteq Entries(level)
  BY <1>0, <1>5, EntryTypes DEF Entries
<1>7. /\ files'[level] = files[level] \ {f} /\ files'[level + 1] = files[level + 1] \cup {f}
      /\ \A l \in Level \ {level, level + 1} : files'[l] = files[l]
  BY <1>0, <1>1, <1>4 DEF CInv, FilesTypeOK
<1>8. /\ Entries(level)' \subseteq Entries(level) /\ Entries(level) = Entries(level)' \cup f
      /\ Entries(level + 1)' = Entries(level + 1) \cup f
      /\ \A l \in Level \ {level, level + 1} : Entries(l)' = Entries(l)
  BY <1>5, <1>7 DEF Entries
<1>9. InFiles' = InFiles
  <2>1. \A e \in InFiles' : \E l \in Level : e \in Entries(l)'
    BY DEF InFiles
  <2>2. \A e \in InFiles : \E l \in Level : e \in Entries(l)
    BY DEF InFiles
  <2>3. \A e \in InFiles' : \E l \in Level : e \in Entries(l)
    BY <1>0, <1>6, <1>8, <2>1
  <2>4. \A e \in InFiles : \E l \in Level : e \in Entries(l)'
    BY <1>0, <1>8, <2>2
  <2> QED BY <2>3, <2>4 DEF InFiles
<1>10. /\ LastSequence' = LastSequence /\ ReadPoints' = ReadPoints /\ Present' = Present
       /\ \A e : key(e)' = key(e) /\ (Deletion(e)' <=> Deletion(e))
  BY <1>2, <1>9 DEF LastSequence, ReadPoints, Present, key, Deletion
<1>11. MemNewest'
  BY <1>2, <1>9 DEF LevelInv, MemNewest
<1>12. LevelsOrdered'
  <2> SUFFICES ASSUME NEW l \in Level, NEW m \in Level, l < m,
                      NEW e \in Entries(l)', NEW d \in Entries(m)', key(e) = key(d)
               PROVE  d < e
    BY <1>10 DEF LevelsOrdered
  <2>0. l \in Nat /\ m \in Nat
    BY CompactionAssumption DEF Level
  <2>1. CASE e \in Entries(l) /\ d \in Entries(m)
    BY <2>1 DEF LevelInv, LevelsOrdered
  <2>2. CASE e \in f /\ l = level + 1 /\ d \in Entries(m)
    BY <1>0, <1>6, <2>0, <2>2 DEF LevelInv, LevelsOrdered
  <2>3. CASE d \in f /\ m = level + 1
    <3>1. CASE l = level
      <4>1. PICK g \in files[level] \ {f} : e \in g
        BY <1>7, <3>1 DEF Entries
      <4>2. UserKeys(f) \cap UserKeys(g) = {}
        BY <1>4, <4>1 DEF Parts
      <4> QED BY <2>3, <4>1, <4>2 DEF UserKeys
    <3>2. CASE l # level
      <4>1. l < level /\ e \in Entries(l) /\ d \in Entries(level)
        BY <1>0, <1>6, <1>8, <2>0, <2>3, <3>2
      <4> QED BY <1>0, <4>1 DEF LevelInv, LevelsOrdered
    <3> QED BY <3>1, <3>2
  <2> QED BY <1>0, <1>8, <2>0, <2>1, <2>2, <2>3
<1>13. NothingLost'
  BY <1>10 DEF LevelInv, NothingLost, IsNewest
<1>14. LevelsSorted'
  <2>1. ASSUME NEW l \in Level \ {0} PROVE Sorted(files'[l])
    <3>0. Sorted(files[l])
      BY DEF LevelInv, LevelsSorted
    <3>1. CASE l # level + 1
      <4>1. files'[l] \subseteq files[l]
        BY <1>7, <3>1
      <4> QED BY <3>0, <4>1 DEF Sorted
    <3>2. CASE l = level + 1
      <4>1. ASSUME NEW g \in files[level + 1]
            PROVE  \/ \A e \in f, d \in g : Before(e, d)
                   \/ \A e \in f, d \in g : Before(d, e)
        <5>1. g \in SUBSET (1 .. LastSequence) /\ g # {}
          BY <1>0, EntryTypes
        <5> QED BY <1>5, <1>6, <5>1, RangesApart DEF Before
      <4> QED BY <1>7, <3>0, <3>2, <4>1 DEF Sorted
    <3> QED BY <3>1, <3>2
  <2>2. \A T : Sorted(T)' <=> Sorted(T)
    BY <1>10 DEF Sorted, Before
  <2> QED BY <2>1, <2>2 DEF LevelsSorted
<1>15. work' = Idle'
  BY <1>2 DEF Idle
<1> QED BY <1>11, <1>12, <1>13, <1>14, <1>15 DEF LevelInv

(* The outputs hold what was kept. *)
LEMMA OutputsHold ==
    ASSUME NEW entries, IsFiniteSet(entries), NEW tables \in Outputs(entries)
    PROVE  UNION tables = entries
<1> DEFINE Starts(cut, e) == Cardinality({c \in cut : c = e \/ Before(c, e)})
           Cut(cut, n) == {e \in entries : Starts(cut, e) = n}
<1>1. PICK cut \in SUBSET entries :
        tables = {Cut(cut, n) : n \in 0 .. Cardinality(cut)} \ {{}}
  BY Zenon DEF Outputs
<1>2. ASSUME NEW t \in tables PROVE t \subseteq entries
  <2>1. \E n \in 0 .. Cardinality(cut) : t = Cut(cut, n)
    BY <1>1, Zenon
  <2> QED BY <2>1
<1>3. ASSUME NEW e \in entries PROVE \E t \in tables : e \in t
  <2>1. IsFiniteSet(cut) /\ {c \in cut : c = e \/ Before(c, e)} \subseteq cut
    BY FS_Subset
  <2>2. Starts(cut, e) \in 0 .. Cardinality(cut)
    BY <2>1, FS_Subset, FS_CardinalityType
  <2>3. e \in Cut(cut, Starts(cut, e))
    BY Zenon
  <2>4. Cut(cut, Starts(cut, e)) \in tables
    <3>1. Cut(cut, Starts(cut, e)) # {}
      BY <2>3, Zenon
    <3>2. Cut(cut, Starts(cut, e)) \in {Cut(cut, n) : n \in 0 .. Cardinality(cut)}
      BY <2>2, Zenon
    <3> QED BY <1>1, <3>1, <3>2, Zenon
  <2> QED BY <2>3, <2>4, Zenon
<1> QED BY <1>2, <1>3

LEMMA FinishWorkWhole == CInv /\ Whole /\ FinishWork => Whole'
<1> SUFFICES ASSUME CInv, Whole, FinishWork PROVE Whole'
  OBVIOUS
<1>0. work # Idle /\ UNCHANGED <<updates, mem, imm, snapshots, parted>> /\ work' = Idle
  BY DEF FinishWork
<1>w. PICK v, in1, in2 : v = work.level /\ in1 = work.inputs[1] /\ in2 = work.inputs[2]
  OBVIOUS
<1>1. PICK tables \in Outputs(work.kept) :
        /\ files' = [files EXCEPT ![v] = @ \ in1, ![v + 1] = (@ \ in2) \cup tables]
        /\ overlaid' = (overlaid \/ ~Disjoint(files'[v + 1]))
  BY <1>w DEF FinishWork
<1>2. /\ v \in Level /\ v + 1 \in Level /\ v + 1 # v /\ v \in Nat /\ v + 1 # 0
      /\ work.kept \subseteq InputEntries /\ InputEntries \subseteq 1 .. LastSequence
  BY <1>0, <1>w, CompactionAssumption DEF CInv, WorkTypeOK, Level
<1> SUFFICES ASSUME LevelInv, Disjoint(files'[v + 1]) PROVE LevelInv'
  BY <1>0, <1>1 DEF Whole
<1>3. /\ in1 \subseteq files[v] /\ in2 \subseteq files[v + 1]
      /\ \A f \in files[v] \ in1 : \A e \in f, d \in UNION in1 : key(e) = key(d) => d < e
      /\ \A f \in files[v + 1] \ in2 : \A e \in f, d \in InputEntries : key(e) # key(d)
      /\ DropsSound
  BY <1>0, <1>w DEF LevelInv, InputsApart
<1>4. UNION tables = work.kept /\ tables \subseteq Tables
  <2>1. LastSequence \in Nat
    BY EntryTypes
  <2>2. IsFiniteSet(1 .. LastSequence)
    BY <2>1, FS_Interval
  <2>3. work.kept \in SUBSET (1 .. LastSequence)
    BY <1>2
  <2>4. IsFiniteSet(work.kept)
    BY <2>2, <2>3, FS_Subset
  <2> QED BY <2>3, <2>4, OutputsHold, OutputsAreTables
<1>5. /\ files'[v] = files[v] \ in1 /\ files'[v + 1] = (files[v + 1] \ in2) \cup tables
      /\ \A l \in Level \ {v, v + 1} : files'[l] = files[l]
  BY <1>1, <1>2 DEF CInv, FilesTypeOK
<1>6. /\ \A e : e \in Entries(v)' <=> \E f \in files[v] \ in1 : e \in f
      /\ \A e : e \in Entries(v + 1)' <=> e \in work.kept \/ \E f \in files[v + 1] \ in2 : e \in f
      /\ \A l \in Level \ {v, v + 1} : Entries(l)' = Entries(l)
  <2>1. \A e : e \in Entries(v)' <=> \E f \in files[v] \ in1 : e \in f
    BY <1>5 DEF Entries
  <2>2. \A e : e \in UNION tables <=> \E f \in tables : e \in f
    BY Zenon
  <2>3. \A e : e \in Entries(v + 1)' <=> \E f \in (files[v + 1] \ in2) \cup tables : e \in f
    BY <1>5 DEF Entries
  <2>4. \A e : e \in Entries(v + 1)' <=> e \in UNION tables \/ \E f \in files[v + 1] \ in2 : e \in f
    BY <2>2, <2>3, Zenon
  <2>5. \A l \in Level \ {v, v + 1} : Entries(l)' = Entries(l)
    BY <1>5 DEF Entries
  <2> QED BY <1>4, <2>1, <2>4, <2>5
<1>7. /\ \A e \in UNION in1 : e \in Entries(v) /\ e \in InputEntries
      /\ \A e \in UNION in2 : e \in Entries(v + 1) /\ e \in InputEntries
      /\ \A e \in InputEntries : e \in UNION in1 \/ e \in UNION in2
      /\ \A e \in Entries(v) : e \in Entries(v)' \/ e \in InputEntries
      /\ \A e \in Entries(v + 1) : e \in Entries(v + 1)' \/ e \in InputEntries
  <2>1. \A e \in UNION in1 : e \in Entries(v) /\ e \in InputEntries
    BY <1>3, <1>w DEF Entries, InputEntries
  <2>2. \A e \in UNION in2 : e \in Entries(v + 1) /\ e \in InputEntries
    BY <1>3, <1>w DEF Entries, InputEntries
  <2>3. \A e \in InputEntries : e \in UNION in1 \/ e \in UNION in2
    <3>1. \A e \in UNION (in1 \cup in2) : e \in UNION in1 \/ e \in UNION in2
      BY Zenon
    <3> QED BY <1>w, <3>1 DEF InputEntries
  <2>4. ASSUME NEW e \in Entries(v) PROVE e \in Entries(v)' \/ e \in InputEntries
    <3>1. PICK f \in files[v] : e \in f
      BY DEF Entries
    <3>2. f \in in1 => e \in UNION in1
      BY <3>1, Zenon
    <3> QED BY <1>6, <2>1, <3>1, <3>2
  <2>5. ASSUME NEW e \in Entries(v + 1) PROVE e \in Entries(v + 1)' \/ e \in InputEntries
    <3>1. PICK f \in files[v + 1] : e \in f
      BY DEF Entries
    <3>2. f \in in2 => e \in UNION in2
      BY <3>1, Zenon
    <3> QED BY <1>6, <2>2, <3>1, <3>2
  <2> QED BY <2>1, <2>2, <2>3, <2>4, <2>5
<1>8. ASSUME NEW l \in Level, NEW e \in Entries(l)'
      PROVE  e \in Entries(l) \/ (l = v + 1 /\ e \in UNION in1 /\ e \in Entries(v))
  <2>1. CASE l = v + 1
    <3>1. CASE e \in work.kept
      BY <1>2, <1>7, <2>1, <3>1
    <3>2. CASE \E f \in files[v + 1] \ in2 : e \in f
      BY <2>1, <3>2 DEF Entries
    <3> QED BY <1>6, <1>8, <2>1, <3>1, <3>2
  <2>2. CASE l = v
    <3>1. \E f \in files[v] : e \in f
      BY <1>6, <1>8, <2>2
    <3> QED BY <2>2, <3>1 DEF Entries
  <2>3. CASE l \in Level \ {v, v + 1}
    BY <1>6, <1>8, <2>3
  <2> QED BY <2>1, <2>2, <2>3
<1>9. /\ LastSequence' = LastSequence /\ ReadPoints' = ReadPoints
      /\ \A e : key(e)' = key(e) /\ (Deletion(e)' <=> Deletion(e))
  BY <1>0 DEF LastSequence, ReadPoints, key, Deletion
<1> DEFINE gone == InputEntries \ work.kept
<1>10. InFiles' \subseteq InFiles /\ \A e \in InFiles \ InFiles' : e \in gone
  <2>1. \A e \in InFiles' : \E l \in Level : e \in Entries(l)'
    BY DEF InFiles
  <2>2. \A e \in InFiles : \E l \in Level : e \in Entries(l)
    BY DEF InFiles
  <2>3. \A e \in InFiles' : \E l \in Level : e \in Entries(l)
    BY <1>2, <1>8, <2>1
  <2>4. \A e \in InFiles : e \in gone \/ \E l \in Level : e \in Entries(l)'
    <3> SUFFICES ASSUME NEW l \in Level, NEW e \in Entries(l), e \notin gone
                 PROVE  \E m \in Level : e \in Entries(m)'
      BY <2>2
    <3>1. CASE e \in InputEntries
      <4>1. e \in work.kept
        BY <3>1
      <4> QED BY <1>2, <1>6, <4>1
    <3>2. CASE e \notin InputEntries
      BY <1>6, <1>7, <3>2
    <3> QED BY <3>1, <3>2
  <2> QED BY <2>3, <2>4 DEF InFiles
<1>11. MemNewest'
  BY <1>0, <1>10 DEF LevelInv, MemNewest
<1>12. LevelsOrdered'
  <2> SUFFICES ASSUME NEW l \in Level, NEW m \in Level, l < m,
                      NEW e \in Entries(l)', NEW d \in Entries(m)', key(e) = key(d)
               PROVE  d < e
    BY <1>9 DEF LevelsOrdered
  <2>0. l \in Nat /\ m \in Nat /\ v \in Nat
    BY <1>2, CompactionAssumption DEF Level
  <2>1. CASE e \in Entries(l) /\ d \in Entries(m)
    BY <2>1 DEF LevelInv, LevelsOrdered
  <2>2. CASE l = v + 1 /\ e \in Entries(v) /\ d \in Entries(m)
    BY <1>2, <2>0, <2>2 DEF LevelInv, LevelsOrdered
  <2>3. CASE m = v + 1 /\ d \in UNION in1 /\ d \in Entries(v) /\ e \in Entries(l)
    <3>1. CASE l = v
      <4>1. \E f \in files[v] \ in1 : e \in f
        BY <1>6, <3>1
      <4> QED BY <1>w, <1>3, <2>3, <4>1
    <3>2. CASE l # v
      BY <1>2, <2>0, <2>3, <3>2 DEF LevelInv, LevelsOrdered
    <3> QED BY <3>1, <3>2
  <2> QED BY <1>8, <2>0, <2>1, <2>2, <2>3
<1>13. LevelsSorted'
  <2>1. ASSUME NEW l \in Level \ {0} PROVE Sorted(files'[l])
    <3>1. CASE l = v + 1
      <4>1. files'[l] \in SUBSET Tables
        BY <1>2, <1>4, <1>5, <3>1 DEF CInv, FilesTypeOK
      <4> QED BY <3>1, <4>1, DisjointSorted
    <3>2. CASE l # v + 1
      <4>1. files'[l] \subseteq files[l] /\ Sorted(files[l])
        BY <1>5, <3>2 DEF LevelInv, LevelsSorted
      <4> QED BY <4>1 DEF Sorted
    <3> QED BY <3>1, <3>2
  <2>2. \A T : Sorted(T)' <=> Sorted(T)
    BY <1>9 DEF Sorted, Before
  <2> QED BY <2>1, <2>2 DEF LevelsSorted
<1>14. NothingLost'
  <2> SUFFICES ASSUME NEW s \in ReadPoints, NEW e \in 1 .. LastSequence, IsNewest(e, s),
                      e \notin Present'
               PROVE  Deletion(e) /\ \A d \in Present' : key(d) = key(e) => s < d
    BY <1>9 DEF NothingLost, IsNewest
  <2>0. Present' \subseteq Present
    BY <1>0, <1>10 DEF Present
  <2>1. CASE e \notin Present
    BY <2>0, <2>1 DEF LevelInv, NothingLost
  <2>2. CASE e \in Present
    <3>1. e \in gone
      BY <1>0, <1>10, <2>2 DEF Present
    <3>2. PICK ss \in 0 .. LastSequence :
            /\ ss <= s
            /\ \A d \in work.kept : ~Covered(d, ss)
            /\ Covered(e, ss) \/ (Deletion(e) /\ e <= ss /\ Deepest(e))
      BY <1>3, <3>1 DEF DropsSound
    <3>3. /\ LastSequence \in Nat /\ s \in Nat /\ e \in Nat /\ ss \in Nat
          /\ \A d \in 1 .. LastSequence : d \in Nat
      BY EntryTypes DEF ReadPoints, CInv, DataTypeOK
    <3>4. \A d \in 1 .. LastSequence : key(d) = key(e) /\ d <= s => d <= e
      BY DEF IsNewest
    <3>5. ~Covered(e, ss)
      BY <1>2, <3>2, <3>3, <3>4 DEF Covered
    <3>6. Deletion(e) /\ e <= ss /\ Deepest(e)
      BY <3>2, <3>5
    <3>7. ASSUME NEW d \in Present', key(d) = key(e), ~(s < d) PROVE FALSE
      <4>1. d \in Present /\ d \in 1 .. LastSequence
        BY <2>0, PresentTypes
      <4>2. d <= s /\ d <= e
        BY <3>3, <3>4, <3>7, <4>1
      <4>3. d # e /\ d < e
        BY <3>3, <3>7, <4>1, <4>2
      <4>4. e \in InFiles /\ e \in InputEntries /\ (e \in Entries(v) \/ e \in Entries(v + 1))
        BY <1>7, <1>w, <1>2, <3>1, PresentTypes
      <4>5. d \notin mem /\ d \notin imm
        BY <3>3, <4>1, <4>3, <4>4 DEF LevelInv, MemNewest
      <4>6. PICK l \in Level : d \in Entries(l)'
        BY <1>0, <3>7, <4>5 DEF Present, InFiles
      <4>7. l \in Nat /\ v \in Nat
        BY <1>2, CompactionAssumption DEF Level
      <4>8. d \notin work.kept
        <5>1. d \in work.kept => Covered(d, ss)
          BY <3>6, <3>7, <4>3, <4>4 DEF Covered
        <5> QED BY <3>2, <5>1
      <4>9. CASE l >= v + 2
        BY <1>w, <1>6, <3>6, <3>7, <4>6, <4>7, <4>9 DEF Deepest
      <4>10. CASE l = v + 1
        <5>1. \E f \in files[v + 1] \ in2 : d \in f
          BY <1>6, <4>6, <4>8, <4>10
        <5> QED BY <1>w, <1>3, <3>7, <4>4, <5>1
      <4>11. CASE l = v
        <5>1. PICK f \in files[v] \ in1 : d \in f
          BY <1>6, <4>6, <4>11
        <5>2. CASE e \in UNION in1
          <6>1. e < d
            BY <1>w, <1>3, <3>7, <5>1, <5>2
          <6> QED BY <3>3, <4>1, <4>3, <6>1
        <5>3. CASE e \in Entries(v + 1)
          <6>1. d \in Entries(v)
            BY <5>1 DEF Entries
          <6>2. v < v + 1
            BY <4>7
          <6>3. e < d
            BY <1>2, <3>7, <5>3, <6>1, <6>2 DEF LevelInv, LevelsOrdered
          <6> QED BY <3>3, <4>1, <4>3, <6>3
        <5> QED BY <1>7, <4>4, <5>2, <5>3
      <4>12. CASE l < v
        <5>1. d \in Entries(l) /\ \E m \in Level : l < m /\ e \in Entries(m)
          BY <1>w, <1>2, <1>6, <4>4, <4>6, <4>7, <4>12
        <5>2. e < d
          BY <3>7, <5>1 DEF LevelInv, LevelsOrdered
        <5> QED BY <3>3, <4>1, <4>3, <5>2
      <4> QED BY <4>7, <4>9, <4>10, <4>11, <4>12
    <3> QED BY <3>6, <3>7
  <2> QED BY <2>1, <2>2
<1>15. work' = Idle'
  BY <1>0 DEF Idle
<1> QED BY <1>11, <1>12, <1>13, <1>14, <1>15 DEF LevelInv

LEMMA WholeNext == CInv /\ Whole /\ [Next]_vars => Whole'
<1> SUFFICES ASSUME CInv, Whole, [Next]_vars PROVE Whole'
  OBVIOUS
<1>1. CASE GetSnapshot \/ \E i \in DOMAIN snapshots : ReleaseSnapshot(i)
  <2>1. ReadPoints' \subseteq ReadPoints
    BY <1>1, SnapshotReads
  <2>2. UNCHANGED <<updates, mem, imm, files, work, parted, overlaid>>
    BY <1>1 DEF GetSnapshot, ReleaseSnapshot
  <2> QED BY <2>1, <2>2, FewerReads
<1>2. CASE UNCHANGED vars
  <2>1. ReadPoints' \subseteq ReadPoints
    BY <1>2 DEF vars, ReadPoints, LastSequence
  <2>2. UNCHANGED <<updates, mem, imm, files, work, parted, overlaid>>
    BY <1>2 DEF vars
  <2> QED BY <2>1, <2>2, FewerReads
<1>3. CASE Next /\ ~(GetSnapshot \/ \E i \in DOMAIN snapshots : ReleaseSnapshot(i))
  BY <1>3, WriteWhole, SwitchMemWhole, CompactMemTableWhole, FinishWorkWhole, CompactWhole,
     MoveWhole DEF Next, BackgroundStep
<1> QED BY <1>1, <1>2, <1>3

(* Version::Get stops at the first level with an entry of the key. For     *)
(* every key, the present and every snapshot that is the entry a search of *)
(* everything ever written would find, in every database, with any number  *)
(* of levels: dropping entries, moving tables, flushing while a compaction *)
(* runs and releasing snapshots change nothing that is read - while no     *)
(* compaction has parted two tables that share a user key or put its       *)
(* output over another table.                                              *)
THEOREM ReadsSurvive == Spec => []ReadsSurviveCompaction
<1>1. CInv /\ Whole => ReadsSurviveCompaction
  BY SortedLevels, ReadsRight DEF Whole, LevelInv, ReadsSurviveCompaction
<1> QED BY <1>1, CInvAlways, WholeInit, WholeNext, PTL DEF Spec
=============================================================================
