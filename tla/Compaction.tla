----------------------------- MODULE Compaction -----------------------------
(***************************************************************************)
(* The tables of a leveldb database: how memtables become files of a       *)
(* level, how files are merged into the next level, which entries are      *)
(* dropped on the way, and how Get finds the right one among those left,   *)
(* for the present and for every snapshot somebody holds.  DBImpl models   *)
(* the threads, the logs and the manifest around it.                       *)
(*                                                                         *)
(* An entry is its sequence number; updates[e] says which user key it is   *)
(* of and whether it is a deletion.  A table is a set of entries.  Sizes   *)
(* in bytes are left out: a test against one may go either way.            *)
(***************************************************************************)
EXTENDS Integers, Sequences, FiniteSets, FiniteSetsExt

CONSTANTS Key,                \* user keys, numbers in the comparator's order
          NumLevels,          \* config::kNumLevels
          MaxMemCompactLevel, \* config::kMaxMemCompactLevel
          MaxUpdates,         \* bound on the updates of a behaviour
          MaxSnapshots        \* bound on the snapshots held at a time

ASSUME CompactionAssumption ==
    /\ Key \subseteq Nat /\ IsFiniteSet(Key) /\ Key # {}
    /\ NumLevels \in Nat /\ MaxMemCompactLevel \in 0 .. NumLevels - 1
    /\ MaxUpdates \in Nat /\ MaxSnapshots \in Nat

VARIABLES
    updates,    \* history: all updates, by sequence number
    mem, imm,   \* the entries of the two memtables; imm = {} when imm_ is NULL
    files,      \* current_->files_: the tables of every level
    snapshots,  \* the numbers in the list snapshots_, first the one taken first
    work,       \* the compaction that runs without the mutex, or Idle
    parted,     \* history: a compaction took one of two tables of a level that share a key
    overlaid    \* history: an output was installed over a table of its level

vars == <<updates, mem, imm, files, snapshots, work, parted, overlaid>>

Level == 0 .. NumLevels - 1

LastSequence == Len(updates)

key(e) == updates[e].key

Deletion(e) == updates[e].type = "deletion"

Idle == [level |-> 0, inputs |-> <<{}, {}>>, kept |-> {}]

-----------------------------------------------------------------------------
(* Keys and ranges *)

(* InternalKeyComparator: ascending user keys, newer entries first. *)
Before(d, e) == key(d) < key(e) \/ (key(d) = key(e) /\ d > e)

largest(table) == CHOOSE e \in table : \A d \in table \ {e} : Before(d, e)

smallest(table) == CHOOSE e \in table : \A d \in table \ {e} : Before(e, d)

UserKeys(table) == {key(e) : e \in table}

(* GetRange, as user keys *)
Lower(tables) == Min(UserKeys(UNION tables))

Upper(tables) == Max(UserKeys(UNION tables))

(* A table has a user key of lo .. hi between its smallest and largest. *)
Overlaps(table, lo, hi) == Upper({table}) >= lo /\ Lower({table}) <= hi

OverlapInLevel(level, lo, hi) == \E f \in files[level] : Overlaps(f, lo, hi)

(* Version::GetOverlappingInputs.  In level 0 a table that overlaps widens *)
(* the range, until no table is added.                                     *)
GetOverlappingInputs(level, lo, hi) ==
    LET InRange(l, h) == {f \in files[level] : Overlaps(f, l, h)}
        Widened(S) == IF S = {} THEN InRange(lo, hi)
                      ELSE InRange(Min({lo, Lower(S)}), Max({hi, Upper(S)}))
    IN  IF level > 0 THEN InRange(lo, hi)
        ELSE {f \in files[0] : \A S \in SUBSET files[0] : Widened(S) \subseteq S => f \in S}

-----------------------------------------------------------------------------
(* Reading *)

(* The newest of the entries for k that are not newer than s, or 0:        *)
(* MemTable::Get, and Table::InternalGet with SaveValue.                   *)
Newest(entries, k, s) == Max({e \in entries : key(e) = k /\ e <= s} \cup {0})

(* FindFile: the first table whose largest key is not before <<k, s>>. *)
FindFile(level, k, s) ==
    LET Reaches(f) == key(largest(f)) > k \/ (key(largest(f)) = k /\ largest(f) <= s)
        reaching == {f \in files[level] : Reaches(f)}
    IN  {f \in reaching : \A g \in reaching \ {f} : Before(smallest(f), smallest(g))}

(* Version::Get of one level: the entry it stops at, or 0.  Level 0 is     *)
(* searched from the newest table; tables are numbered in the order of     *)
(* their entries.                                                          *)
GetFromLevel(level, k, s) ==
    IF level = 0
    THEN Max({Newest(f, k, s) : f \in files[0]} \cup {0})
    ELSE Max({Newest(f, k, s) : f \in FindFile(level, k, s)} \cup {0})

(* DBImpl::Get at sequence number s: the memtables, then level by level;   *)
(* the entry it stops at, 0 if there is none or it is a deletion.          *)
Get(k, s) ==
    LET hits == {l \in Level : GetFromLevel(l, k, s) > 0}
        found == CASE Newest(mem, k, s) > 0 -> Newest(mem, k, s)
                   [] Newest(mem, k, s) = 0 /\ Newest(imm, k, s) > 0 -> Newest(imm, k, s)
                   [] OTHER -> IF hits = {} THEN 0 ELSE GetFromLevel(Min(hits), k, s)
    IN  IF found # 0 /\ Deletion(found) THEN 0 ELSE found

-----------------------------------------------------------------------------
(* Writing *)

Init ==
    /\ updates = <<>> /\ mem = {} /\ imm = {}
    /\ files = [l \in Level |-> {}]
    /\ snapshots = <<>> /\ work = Idle
    /\ parted = FALSE /\ overlaid = FALSE

(* A Put or a Delete, numbered and added to the memtable *)
Write(k, type) ==
    /\ LastSequence < MaxUpdates
    /\ updates' = Append(updates, [key |-> k, type |-> type])
    /\ mem' = mem \cup {LastSequence + 1}
    /\ UNCHANGED <<imm, files, snapshots, work, parted, overlaid>>

(* MakeRoomForWrite: the memtable is full and the last one is written out. *)
SwitchMem ==
    /\ imm = {} /\ mem # {}
    /\ imm' = mem /\ mem' = {}
    /\ UNCHANGED <<updates, files, snapshots, work, parted, overlaid>>

GetSnapshot ==
    /\ Len(snapshots) < MaxSnapshots
    /\ snapshots' = Append(snapshots, LastSequence)
    /\ UNCHANGED <<updates, mem, imm, files, work, parted, overlaid>>

ReleaseSnapshot(i) ==
    /\ snapshots' = [j \in 1 .. Len(snapshots) - 1 |->
                       IF j < i THEN snapshots[j] ELSE snapshots[j + 1]]
    /\ UNCHANGED <<updates, mem, imm, files, work, parted, overlaid>>

(* Version::PickLevelForMemTableOutput: down to the first level with an    *)
(* overlap in the next one, or, depending on sizes, in the one after.      *)
PickLevelForMemTableOutput(lo, hi) ==
    {level \in 0 .. MaxMemCompactLevel :
        /\ level > 0 => \A l \in 0 .. level : ~OverlapInLevel(l, lo, hi)
        /\ level < MaxMemCompactLevel =>
             \/ OverlapInLevel(0, lo, hi)
             \/ OverlapInLevel(level + 1, lo, hi)
             \/ level + 2 \in Level /\ OverlapInLevel(level + 2, lo, hi)}

(* CompactMemTable, on its own or inside of DoCompactionWork *)
CompactMemTable ==
    /\ imm # {}
    /\ \E level \in PickLevelForMemTableOutput(Lower({imm}), Upper({imm})) :
         files' = [files EXCEPT ![level] = @ \cup {imm}]
    /\ imm' = {}
    /\ UNCHANGED <<updates, mem, snapshots, work, parted, overlaid>>

-----------------------------------------------------------------------------
(* Compactions *)

(* VersionSet::SetupOtherInputs: the tables of the next level, and, if it  *)
(* adds none of these and sizes allow, more tables of this one.            *)
SetupOtherInputs(level, inputs0) ==
    LET inputs1 == GetOverlappingInputs(level + 1, Lower(inputs0), Upper(inputs0))
        all == inputs0 \cup inputs1
        expanded0 == GetOverlappingInputs(level, Lower(all), Upper(all))
        expanded1 == GetOverlappingInputs(level + 1, Lower(expanded0), Upper(expanded0))
        Expands == /\ inputs1 # {}
                   /\ Cardinality(expanded0) > Cardinality(inputs0)
                   /\ Cardinality(expanded1) = Cardinality(inputs1)
    IN  {<<inputs0, inputs1>>} \cup (IF Expands THEN {<<expanded0, expanded1>>} ELSE {})

(* VersionSet::PickCompaction: one table, chosen by the size of its level  *)
(* or by the seeks it has cost, in level 0 with the tables it overlaps.    *)
PickCompaction(level) ==
    UNION {SetupOtherInputs(level, IF level = 0
                                   THEN GetOverlappingInputs(0, Lower({f}), Upper({f}))
                                   ELSE {f}) : f \in files[level]}

(* VersionSet::CompactRange: the tables of a range, above level 0 as many  *)
(* of the first ones as sizes allow.                                       *)
CompactRange(level, lo, hi) ==
    LET inputs == GetOverlappingInputs(level, lo, hi)
        First(S) == \A f \in S, g \in inputs \ S : Before(smallest(f), smallest(g))
    IN  UNION {SetupOtherInputs(level, S) :
                 S \in {S \in SUBSET inputs : S # {} /\ (IF level = 0 THEN S = inputs ELSE First(S))}}

(* Compaction::grandparents_ *)
Grandparents(level, tables) ==
    IF level + 2 \in Level
    THEN GetOverlappingInputs(level + 2, Lower(tables), Upper(tables)) ELSE {}

(* Compaction::IsTrivialMove, as far as sizes are not asked *)
SingleTable(inputs) == Cardinality(inputs[1]) = 1 /\ inputs[2] = {}

(* Mutant: the level the outputs go to is taken for the one below it. *)
IsBaseLevelForKey_below(level, k) ==
    \A l \in level + 3 .. NumLevels - 1 : ~OverlapInLevel(l, k, k)

(* Compaction::IsBaseLevelForKey: no deeper level can have the key. *)
IsBaseLevelForKey(level, k) ==
    \A l \in level + 2 .. NumLevels - 1 : ~OverlapInLevel(l, k, k)

(* Mutant: nobody is asked. *)
smallest_snapshot_last == LastSequence

(* The list's oldest snapshot, or the present *)
smallest_snapshot == IF snapshots = <<>> THEN LastSequence ELSE snapshots[1]

(* DoCompactionWork: the entries of the inputs that are not dropped.  The  *)
(* loop sees the entries of a key from the newest to the oldest, so        *)
(* last_sequence_for_key is the smallest of the newer ones.                *)
Kept(level, entries) ==
    LET Hidden(e) == \E d \in entries : key(d) = key(e) /\ d > e /\ d <= smallest_snapshot
        Obsolete(e) == /\ Deletion(e) /\ e <= smallest_snapshot
                       /\ IsBaseLevelForKey(level, key(e))
    IN  {e \in entries : ~Hidden(e) /\ ~Obsolete(e)}

(* Two tables of a level have entries of the same key, and only one of     *)
(* them is among the inputs.                                               *)
Parts(level, tables) ==
    \E f \in tables, g \in files[level] \ tables : UserKeys(f) \cap UserKeys(g) # {}

(* The inputs are chosen and the mutex is released.  What the loop will    *)
(* drop is settled: it asks the inputs, the version they were chosen from, *)
(* and smallest_snapshot.                                                  *)
StartWork(level, inputs) ==
    /\ work' = [level |-> level, inputs |-> inputs,
                kept |-> Kept(level, UNION (inputs[1] \cup inputs[2]))]
    /\ parted' = (parted \/ Parts(level, inputs[1]) \/ Parts(level + 1, inputs[2]))
    /\ UNCHANGED <<updates, mem, imm, files, snapshots, overlaid>>

(* BackgroundCompaction, when there is no memtable to write *)
Compact(level) ==
    /\ work = Idle /\ imm = {}
    /\ \E inputs \in PickCompaction(level) :
         /\ SingleTable(inputs) => Grandparents(level, inputs[1]) # {}
         /\ StartWork(level, inputs)

CompactManually(level, lo, hi) ==
    /\ work = Idle /\ imm = {}
    /\ \E inputs \in CompactRange(level, lo, hi) : StartWork(level, inputs)

Move(level) ==
    /\ work = Idle /\ imm = {}
    /\ \E inputs \in PickCompaction(level) :
         /\ SingleTable(inputs)
         /\ files' = [files EXCEPT ![level] = @ \ inputs[1], ![level + 1] = @ \cup inputs[1]]
         /\ parted' = (parted \/ Parts(level, inputs[1]))
    /\ UNCHANGED <<updates, mem, imm, snapshots, work, overlaid>>

(* Mutant: the last table is made before it is known to be needed. *)
Outputs_eager(entries) == {{entries}}

(* A table is closed when it is big enough, or overlaps enough of the      *)
(* grandparents (ShouldStopBefore), so the outputs are cut anywhere.       *)
Outputs(entries) ==
    LET Starts(cut, e) == Cardinality({c \in cut : c = e \/ Before(c, e)})
    IN  {{{e \in entries : Starts(cut, e) = n} : n \in 0 .. Cardinality(cut)} \ {{}} :
            cut \in SUBSET entries}

(* The tables lie one behind the other, as in every level but 0. *)
Disjoint(tables) ==
    \A f, g \in tables : f # g => Before(largest(f), smallest(g)) \/ Before(largest(g), smallest(f))

(* InstallCompactionResults *)
FinishWork ==
    /\ work # Idle
    /\ \E tables \in Outputs(work.kept) :
         LET l == work.level
         IN  /\ files' = [files EXCEPT ![l] = @ \ work.inputs[1],
                                       ![l + 1] = (@ \ work.inputs[2]) \cup tables]
             /\ overlaid' = (overlaid \/ ~Disjoint(files'[l + 1]))
    /\ work' = Idle
    /\ UNCHANGED <<updates, mem, imm, snapshots, parted>>

BackgroundStep ==
    \/ CompactMemTable \/ FinishWork
    \/ \E level \in 0 .. NumLevels - 2 :
         Compact(level) \/ Move(level) \/ \E lo, hi \in Key : CompactManually(level, lo, hi)

Next ==
    \/ \E k \in Key, type \in {"value", "deletion"} : Write(k, type)
    \/ SwitchMem \/ GetSnapshot \/ \E i \in DOMAIN snapshots : ReleaseSnapshot(i)
    \/ BackgroundStep

Spec == Init /\ [][Next]_vars

-----------------------------------------------------------------------------
(* Properties *)

(* The entries the running compaction reads *)
InputEntries == UNION (work.inputs[1] \cup work.inputs[2])

(* Every variable has a value of its type; in particular no table is       *)
(* empty.                                                                  *)
CompactionTypeOK ==
    /\ updates \in Seq([key : Key, type : {"value", "deletion"}])
    /\ mem \cup imm \subseteq 1 .. LastSequence
    /\ files \in [Level -> SUBSET ((SUBSET (1 .. LastSequence)) \ {{}})]
    /\ snapshots \in Seq(0 .. LastSequence)
    /\ work.level \in Level /\ work.kept \subseteq InputEntries
    /\ InputEntries \subseteq 1 .. LastSequence

(* What a read at sequence number s has to find *)
Expected(k, s) ==
    LET e == Newest(1 .. LastSequence, k, s)
    IN  IF e # 0 /\ Deletion(e) THEN 0 ELSE e

(* The sequence numbers that are read at *)
ReadPoints == {snapshots[i] : i \in DOMAIN snapshots} \cup {LastSequence}

(* A read at s that looks into the tables the compaction reads stops at e. *)
StopsAt(e, s) ==
    /\ e \in InputEntries /\ e <= s
    /\ \A d \in InputEntries : key(d) = key(e) /\ d <= s => d <= e

(* smallest_snapshot is read once and the mutex released; snapshots are    *)
(* taken and released and updates made before the result is installed.     *)
(* Still, what any of them finds in the inputs is in the outputs, unless   *)
(* it is a deletion.                                                       *)
KeepsVisible ==
    \A s \in ReadPoints : \A e \in InputEntries :
        StopsAt(e, s) => e \in work.kept \/ Deletion(e)

(* For every key, the present and every snapshot: compactions that drop    *)
(* entries, flushes during a compaction, snapshots taken and released      *)
(* while one runs do not change what Get finds - as long as no compaction  *)
(* has separated two tables that share a user key and none has put its     *)
(* output over another table.                                              *)
ReadsSurviveCompaction ==
    ~parted /\ ~overlaid =>
        \A k \in Key : \A s \in ReadPoints : Get(k, s) = Expected(k, s)

(* "We can search level-by-level since entries never hop across levels"    *)
(* (Version::Get, 348): the first level with an entry has the right one.   *)
NeverHop == \A k \in Key : \A s \in ReadPoints : Get(k, s) = Expected(k, s)

(* "Must not overlap" (Builder::MaybeAddFile) *)
MustNotOverlap == \A l \in Level \ {0} : Disjoint(files[l])
=============================================================================
