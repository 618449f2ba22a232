------------------------------- MODULE DBImpl -------------------------------
(* The leveldb database Firestore keeps its local data in, the pending       *)
(* writes of this app included (Pods/leveldb-library, db/db_impl.cc with     *)
(* db/version_set.cc): the queue of writers, the write-ahead log, the two    *)
(* memtables, the background thread that turns them into tables and merges   *)
(* tables, the manifest, the deletion of files, closing, crashes and         *)
(* recovery.                                                                 *)
(*                                                                           *)
(* A step of a thread is one critical section of mutex_; file operations the *)
(* code performs with the mutex released are steps of their own, and a crash *)
(* may fall into the middle of them.  A batch is the writer that brings it.  *)
(* Keys are not modelled, so the files a compaction takes are any of the     *)
(* level, and two levels stand for the seven.  Options have their defaults   *)
(* (paranoid_checks and reuse_logs are false, create_if_missing is true).    *)
EXTENDS Naturals, FiniteSets, Sequences

CONSTANTS Writer,     \* the calls of DB::Write, one batch each
          Sync,       \* those with WriteOptions::sync
          Forcing,    \* those with a NULL batch, from TEST_CompactMemTable
          Reader,     \* the threads that call DB::Get
          MemLimit,   \* batches in a memtable of write_buffer_size
          MaxGroup,   \* batches in a group of max_size
          Trigger, Slowdown, Stop,   \* kL0_...Trigger
          Faults,     \* the file operations that may fail
          MaxFaults,  \* bound: how many of them do
          MaxOpens,   \* bound: how often the database is opened
          Crashes     \* a subset of {"process", "power"}

ASSUME DBAssumption == /\ IsFiniteSet(Writer)
                       /\ Sync \subseteq Writer /\ Forcing \subseteq Writer
                       /\ Sync \cap Forcing = {}
                       /\ MaxGroup \in Nat \ {0} /\ MemLimit \in Nat
                       /\ Trigger \in Nat \ {0} /\ Trigger <= Stop
                       /\ Slowdown <= Stop

VARIABLES pc,        \* where each writer is in Write
          ret,       \* what its call returned
          status,    \* Writer::status once Writer::done
          queue,     \* writers_
          lead,      \* force and allow_delay of MakeRoomForWrite, the group
          seq,       \* the sequence number in each batch
          mem, imm,  \* mem_ and imm_
          logfile,   \* logfile_number_
          vs,        \* VersionSet: next_file_number_, last_sequence_, ...
          up,        \* what the process does with the database
          bgerr,     \* bg_error_
          scheduled, \* bg_compaction_scheduled_
          bg,        \* where the background thread is
          comp,      \* its CompactionState
          pending,   \* pending_outputs_
          rec,       \* the logs still to replay and the edit of DB::Open
          pinned,    \* the version each reader refers to
          disk,      \* the files
          excused,   \* history: batches a crash was allowed to take
          opens, faults

writerVars == <<pc, ret, status, queue, lead, seq>>
memVars == <<mem, imm, logfile>>
callerVars == <<up, bg, comp, pending, rec, pinned, opens>>   \* what no writer changes
vars == <<pc, ret, status, queue, lead, seq, mem, imm, logfile, vs, up, bgerr,
          scheduled, bg, comp, pending, rec, pinned, disk, excused, opens, faults>>

NoMem == {}                       \* imm_ == NULL; otherwise imm is {memtable}
TornRecord == {}                  \* a log record that broke off
Batches == Writer \ Forcing

(***************************************************************************)
(* Files.  A log is a sequence of groups of batches, of which the first    *)
(* synced ones survive a crash of the machine; a manifest is a sequence of *)
(* version edits; a table is the set of its batches.                       *)
(***************************************************************************)
Extend(f, k, v) == [x \in DOMAIN f \union {k} |-> IF x = k THEN v ELSE f[x]]

Keep(f, S) == [x \in DOMAIN f \cap S |-> f[x]]

NoFiles == [n \in {} |-> {}]

Edit(add, del, v) == [add |-> add, del |-> del, log |-> v.log, next |-> v.next, last |-> v.last]

TornEdit == [add |-> {}, del |-> {}, log |-> 0, next |-> 0, last |-> 0]

\* The batches that replaying a log finds: the reader gives up at a torn record.
\* (log::Reader drops the rest of the block and may find records of later
\* blocks; blocks are not modelled here, and none of these batches counts as found.)
InLog(recs) == UNION {recs[i] : i \in {j \in DOMAIN recs : \A k \in 1..j : recs[k] # TornRecord}}

\* The batches that replaying misses.
BehindTorn(recs) == (UNION {recs[i] : i \in DOMAIN recs}) \ InLog(recs)

\* The edits of a manifest; a record that broke off at the end does not count.
Edits(recs) == IF recs # <<>> /\ recs[Len(recs)] = TornEdit
               THEN SubSeq(recs, 1, Len(recs) - 1) ELSE recs

\* log::Reader reports a torn record that others follow, and
\* VersionSet::Recover misses the counters in an empty manifest.
Corrupt(recs) == Edits(recs) = <<>> \/ \E i \in DOMAIN Edits(recs) : Edits(recs)[i] = TornEdit

\* VersionSet::Builder and the counters of VersionSet::Recover.
Replayed(recs) ==
  LET e == Edits(recs)
      newest == e[Len(e)]
  IN  [tables |-> {f \in UNION {e[i].add : i \in DOMAIN e} :
                     \E i \in DOMAIN e : f \in e[i].add /\ \A j \in i + 1 .. Len(e) : f \notin e[j].del},
       log |-> newest.log, next |-> newest.next, last |-> newest.last]

Numbers(tables) == {f[2] : f \in tables}

NumLevelFiles(tables, level) == Cardinality({f \in tables : f[1] = level})

\* The batches a recovery from disk d would find, with the manifest recs.
Recoverable(d, recs) ==
  LET v == Replayed(recs)
  IN  (UNION {d.tables[n] : n \in Numbers(v.tables) \cap DOMAIN d.tables})
        \union (UNION {InLog(d.logs[n].recs) : n \in {m \in DOMAIN d.logs : m >= v.log}})

NoBg == [pc |-> "idle", num |-> 0, edit |-> TornEdit]
NoComp == [on |-> FALSE, inputs |-> {}, base |-> {}, out |-> {}]
NoVersion == {}                   \* a reader outside of Get; otherwise {version}
NoLead == [force |-> FALSE, delay |-> FALSE, group |-> 0]

Init ==
  /\ pc = [w \in Writer |-> "idle"] /\ ret = [w \in Writer |-> "none"]
  /\ status = [w \in Writer |-> "none"] /\ seq = [w \in Writer |-> 0]
  /\ queue = <<>> /\ lead = NoLead
  /\ mem = {} /\ imm = NoMem /\ logfile = 0
  /\ vs = [next |-> 0, last |-> 0, log |-> 0, manifest |-> 0, tables |-> {}]
  /\ up = "closed" /\ bgerr = FALSE
  /\ scheduled = FALSE /\ bg = NoBg /\ comp = NoComp /\ pending = {}
  /\ rec = [logs |-> {}, add |-> {}]
  /\ pinned = [r \in Reader |-> NoVersion]
  /\ disk = [logs |-> NoFiles, tables |-> NoFiles, manifests |-> NoFiles, current |-> 0]
  /\ excused = {} /\ opens = 0 /\ faults = 0

Fails(op) == op \in Faults /\ faults < MaxFaults /\ faults' = faults + 1

(***************************************************************************)
(* Condition variables and the background error.                           *)
(***************************************************************************)
\* bg_cv_.SignalAll() wakes the leader, TEST_CompactMemTable and ~DBImpl.
SignalAll(p) == [w \in Writer |-> CASE p[w] = "bgwait" -> "room"
                                    [] p[w] = "flushwait" -> "flush"
                                    [] OTHER -> p[w]]

SignalClose == IF up = "closewait" THEN "closing" ELSE up

ShuttingDown == up \in {"closing", "closewait"}

\* Only the score of level 0 counts, on which writers wait.  Work that is begun
\* for the size of a deeper level, for seeks or for CompactRange is left out:
\* Compaction leaves open which tables are taken.
NeedsCompaction(tables) == NumLevelFiles(tables, 0) >= Trigger

\* Whether background work is scheduled after MaybeScheduleCompaction.
MaybeScheduleCompaction(sch, im, tables, err) ==
  \/ sch
  \/ ~ShuttingDown /\ ~err /\ (im # NoMem \/ NeedsCompaction(tables))

(***************************************************************************)
(* Write, MakeRoomForWrite and BuildBatchGroup.                            *)
(***************************************************************************)
IsBatch(w) == w \notin Forcing

\* The number of writers at the front of the queue that the first one takes along.
BuildBatchGroup(q) ==
  LET Joins(i) == /\ q[i] \in Sync => q[1] \in Sync
                  /\ IsBatch(q[i]) => Cardinality({j \in 1..i : IsBatch(q[j])}) <= MaxGroup
  IN  CHOOSE n \in 1..Len(q) : /\ \A i \in 2..n : Joins(i)
                               /\ n < Len(q) => ~Joins(n + 1)

Leader == queue[1]

Group == {queue[i] : i \in {j \in 1..lead.group : IsBatch(queue[j])}}

\* Where TEST_CompactMemTable goes on when its Write has succeeded.
Returned(w, s) == IF w \in Forcing /\ s = "ok" THEN "flush" ELSE "done"

\* Mutant: the next leader finds the group of the last one.
Finish_group(n, s, p) ==
  LET rest == SubSeq(queue, n + 1, Len(queue))
      followers == {queue[i] : i \in 2..n}
      next == IF rest = <<>> THEN {} ELSE {rest[1]}
  IN  /\ queue' = rest
      /\ status' = [w \in Writer |-> IF w \in followers THEN s ELSE status[w]]
      /\ pc' = [w \in Writer |->
                  CASE w = Leader -> Returned(w, s)
                    [] w \in followers \union next /\ p[w] = "wait" -> "signalled"
                    [] OTHER -> p[w]]
      /\ ret' = IF Returned(Leader, s) = "done" THEN [ret EXCEPT ![Leader] = s] ELSE ret
      /\ lead' = [NoLead EXCEPT !.group = n]

\* Pop the first n writers, give them status s, wake them and the next one;
\* p is pc after what was signalled before.
Finish(n, s, p) ==
  LET rest == SubSeq(queue, n + 1, Len(queue))
      followers == {queue[i] : i \in 2..n}
      next == IF rest = <<>> THEN {} ELSE {rest[1]}
  IN  /\ queue' = rest
      /\ status' = [w \in Writer |-> IF w \in followers THEN s ELSE status[w]]
      /\ pc' = [w \in Writer |->
                  CASE w = Leader -> Returned(w, s)
                    [] w \in followers \union next /\ p[w] = "wait" -> "signalled"
                    [] OTHER -> p[w]]
      /\ ret' = IF Returned(Leader, s) = "done" THEN [ret EXCEPT ![Leader] = s] ELSE ret
      /\ lead' = NoLead

\* The first loop variables of MakeRoomForWrite.
TakeLead(w) == [NoLead EXCEPT !.force = ~IsBatch(w), !.delay = IsBatch(w)]

\* The call begins: the writer joins the queue.
Enter(w) ==
  /\ up = "open" /\ pc[w] = "idle"
  /\ queue' = Append(queue, w)
  /\ pc' = [pc EXCEPT ![w] = IF queue = <<>> THEN "room" ELSE "wait"]
  /\ lead' = IF queue = <<>> THEN TakeLead(w) ELSE lead
  /\ UNCHANGED <<ret, status, seq, memVars, vs, bgerr, scheduled, disk, excused, faults, callerVars>>

\* w.cv.Wait() returned: another writer did the work, or it is this one's turn.
Woken(w) ==
  /\ pc[w] = "signalled"
  /\ IF status[w] # "none"
     THEN /\ pc' = [pc EXCEPT ![w] = Returned(w, status[w])]
          /\ ret' = IF pc'[w] = "done" THEN [ret EXCEPT ![w] = status[w]] ELSE ret
          /\ UNCHANGED lead
     ELSE /\ pc' = [pc EXCEPT ![w] = IF w = Leader THEN "room" ELSE "wait"]
          /\ lead' = IF w = Leader THEN TakeLead(w) ELSE lead
          /\ UNCHANGED ret
  /\ UNCHANGED <<status, queue, seq, memVars, vs, bgerr, scheduled, disk, excused, faults, callerVars>>

\* The batches of the first n writers get the numbers after last_sequence_.
SetSequence(n) == [w \in Writer |->
                     IF \E k \in 1..n : queue[k] = w /\ IsBatch(w)
                     THEN vs.last + Cardinality({i \in 1..n :
                            IsBatch(queue[i]) /\ \E j \in i..n : queue[j] = w})
                     ELSE seq[w]]

\* There is room: a batch is grouped and logged, a NULL batch is through.
Proceed ==
  IF IsBatch(Leader)
  THEN /\ pc' = [pc EXCEPT ![Leader] = "log"]
       /\ lead' = [lead EXCEPT !.group = BuildBatchGroup(queue)]
       /\ seq' = SetSequence(BuildBatchGroup(queue))
       /\ UNCHANGED <<queue, status, ret>>
  ELSE Finish(1, "ok", pc) /\ UNCHANGED seq

\* The conditions of MakeRoomForWrite, in the order the code tries them.
MustDelay == lead.delay /\ NumLevelFiles(vs.tables, 0) >= Slowdown
HasRoom == ~lead.force /\ Cardinality(mem) <= MemLimit

\* Mutant: the memtable is replaced although the last one is still being written.
MustWait_files == NumLevelFiles(vs.tables, 0) >= Stop

MustWait == imm # NoMem \/ NumLevelFiles(vs.tables, 0) >= Stop
MustSwitch == ~bgerr /\ ~MustDelay /\ ~HasRoom /\ ~MustWait

\* bg_error_ is handed to the writer.
RoomError(w) ==
  /\ pc[w] = "room" /\ bgerr
  /\ Finish(1, "error", pc)
  /\ UNCHANGED <<seq, memVars, vs, bgerr, scheduled, disk, excused, faults, callerVars>>

\* Sleep one millisecond, once.
RoomDelay(w) ==
  /\ pc[w] = "room" /\ ~bgerr /\ MustDelay
  /\ pc' = [pc EXCEPT ![w] = "sleep"]
  /\ UNCHANGED <<ret, status, queue, lead, seq, memVars, vs, bgerr, scheduled, disk, excused, faults, callerVars>>

Slept(w) ==
  /\ pc[w] = "sleep"
  /\ pc' = [pc EXCEPT ![w] = "room"] /\ lead' = [lead EXCEPT !.delay = FALSE]
  /\ UNCHANGED <<ret, status, queue, seq, memVars, vs, bgerr, scheduled, disk, excused, faults, callerVars>>

RoomFound(w) ==
  /\ pc[w] = "room" /\ ~bgerr /\ ~MustDelay /\ HasRoom
  /\ Proceed
  /\ UNCHANGED <<memVars, vs, bgerr, scheduled, disk, excused, faults, callerVars>>

RoomWait(w) ==
  /\ pc[w] = "room" /\ ~bgerr /\ ~MustDelay /\ ~HasRoom /\ MustWait
  /\ pc' = [pc EXCEPT ![w] = "bgwait"]
  /\ UNCHANGED <<ret, status, queue, lead, seq, memVars, vs, bgerr, scheduled, disk, excused, faults, callerVars>>

\* A new log and a new memtable; the full one is left to the background
\* thread.  The loop then finds room in the empty memtable.
SwitchMem(w) ==
  /\ pc[w] = "room" /\ MustSwitch
  /\ logfile' = vs.next
  /\ vs' = [vs EXCEPT !.next = @ + 1]
  /\ disk' = [disk EXCEPT !.logs = Extend(@, vs.next, [recs |-> <<>>, synced |-> 0])]
  /\ imm' = {mem} /\ mem' = {}
  /\ scheduled' = MaybeScheduleCompaction(scheduled, imm', vs.tables, bgerr)
  /\ Proceed
  /\ UNCHANGED <<bgerr, excused, faults, callerVars>>

\* The new log cannot be created: the write fails, the number is reused.
SwitchFails(w) ==
  /\ pc[w] = "room" /\ MustSwitch
  /\ Fails("create")
  /\ Finish(1, "error", pc)
  /\ UNCHANGED <<seq, memVars, vs, bgerr, scheduled, disk, excused, callerVars>>

Logged(r) == [disk EXCEPT !.logs[logfile].recs = Append(@, r)]

\* The group is in the memtable (on success) and its numbers are used up.
EndGroup(s, p) ==
  /\ mem' = IF s = "ok" THEN mem \union Group ELSE mem
  /\ vs' = [vs EXCEPT !.last = @ + Cardinality(Group)]
  /\ Finish(lead.group, s, p)

\* log_->AddRecord succeeds; without WriteOptions::sync the group is done.
AddRecord(w) ==
  /\ pc[w] = "log"
  /\ disk' = Logged(Group)
  /\ excused' = excused \union BehindTorn(disk'.logs[logfile].recs)
  /\ IF w \in Sync
     THEN pc' = [pc EXCEPT ![w] = "sync"] /\ UNCHANGED <<ret, status, queue, lead, mem, vs>>
     ELSE EndGroup("ok", pc)
  /\ UNCHANGED <<seq, imm, logfile, bgerr, scheduled, faults, callerVars>>

\* It fails, with none of the record in the file, part of it, or all of it:
\* EmitPhysicalRecord returns the status of Flush.
AddRecordFails(w) ==
  /\ pc[w] = "log" /\ Fails("append")
  /\ disk' \in {disk, Logged(TornRecord), Logged(Group)}
  /\ EndGroup("error", pc)
  /\ UNCHANGED <<seq, imm, logfile, bgerr, scheduled, excused, callerVars>>

\* logfile_->Sync().
SyncLog(w) ==
  /\ pc[w] = "sync"
  /\ disk' = [disk EXCEPT !.logs[logfile].synced = Len(disk.logs[logfile].recs)]
  /\ EndGroup("ok", pc)
  /\ UNCHANGED <<seq, imm, logfile, bgerr, scheduled, excused, faults, callerVars>>

\* It fails: RecordBackgroundError, which signals bg_cv_ with the first error.
SyncFails(w) ==
  /\ pc[w] = "sync" /\ Fails("sync")
  /\ bgerr' = TRUE
  /\ EndGroup("error", IF bgerr THEN pc ELSE SignalAll(pc))
  /\ UNCHANGED <<seq, imm, logfile, scheduled, disk, excused, callerVars>>

\* TEST_CompactMemTable waits until the memtable is written.
Flush(w) ==
  /\ pc[w] = "flush"
  /\ IF imm # NoMem /\ ~bgerr
     THEN pc' = [pc EXCEPT ![w] = "flushwait"] /\ UNCHANGED ret
     ELSE /\ pc' = [pc EXCEPT ![w] = "done"]
          /\ ret' = [ret EXCEPT ![w] = IF imm # NoMem THEN "error" ELSE "ok"]
  /\ UNCHANGED <<status, queue, lead, seq, memVars, vs, bgerr, scheduled, disk, excused, faults, callerVars>>

(***************************************************************************)
(* The background thread: BackgroundCall, BackgroundCompaction,            *)
(* CompactMemTable, DoCompactionWork, LogAndApply, DeleteObsoleteFiles.    *)
(***************************************************************************)
bgRest == <<ret, status, queue, lead, seq, mem, logfile, rec, pinned, excused, opens>>

\* Mutant: only the current version counts.
AddLiveFiles_current(v, c) == Numbers(v.tables)

\* The files of every version that is still referred to.
AddLiveFiles(v, c) == Numbers(v.tables \union c.base \union UNION (UNION {pinned[r] : r \in Reader}))

\* Mutant: the logs before the one in use are deleted.
DeleteObsoleteFiles_log(d, v, c, pend, err) ==
  IF err THEN d
  ELSE [d EXCEPT !.logs = Keep(@, {n \in DOMAIN @ : n >= logfile}),
                 !.manifests = Keep(@, {n \in DOMAIN @ : n >= v.manifest}),
                 !.tables = Keep(@, pend \union AddLiveFiles(v, c))]

DeleteObsoleteFiles(d, v, c, pend, err) ==
  IF err THEN d
  ELSE [d EXCEPT !.logs = Keep(@, {n \in DOMAIN @ : n >= v.log}),
                 !.manifests = Keep(@, {n \in DOMAIN @ : n >= v.manifest}),
                 !.tables = Keep(@, pend \union AddLiveFiles(v, c))]

\* Mutant: no further compaction is scheduled.
EndCall_once ==
  bg' = NoBg /\ scheduled' = FALSE /\ pc' = SignalAll(pc) /\ up' = SignalClose

\* Mutant: the destructor is not signalled.
EndCall_silent ==
  /\ bg' = NoBg
  /\ scheduled' = MaybeScheduleCompaction(FALSE, imm', vs'.tables, bgerr')
  /\ pc' = SignalAll(pc) /\ up' = up

\* The end of BackgroundCall, with the mutex still held.
EndCall ==
  /\ bg' = NoBg
  /\ scheduled' = MaybeScheduleCompaction(FALSE, imm', vs'.tables, bgerr')
  /\ pc' = SignalAll(pc) /\ up' = SignalClose

\* CompactMemTable returns to DoCompactionWork or to BackgroundCompaction.
EndFlush ==
  IF comp.on
  THEN /\ bg' = [NoBg EXCEPT !.pc = "compact"] /\ UNCHANGED scheduled
       /\ pc' = SignalAll(pc) /\ up' = SignalClose
  ELSE EndCall

NewFileNumber == vs' = [vs EXCEPT !.next = @ + 1] /\ pending' = pending \union {vs.next}

\* The first half of WriteLevel0Table.
StartFlush == NewFileNumber /\ bg' = [NoBg EXCEPT !.pc = "flush", !.num = vs.next]

\* Nothing is begun after an error or while the database is being closed.
CallIdle ==
  /\ scheduled /\ bg.pc = "idle" /\ (ShuttingDown \/ bgerr)
  /\ UNCHANGED <<imm, vs, bgerr>> /\ EndCall
  /\ UNCHANGED <<bgRest, comp, pending, disk, faults>>

CallFlush ==
  /\ scheduled /\ bg.pc = "idle" /\ ~ShuttingDown /\ ~bgerr /\ imm # NoMem
  /\ StartFlush
  /\ UNCHANGED <<bgRest, pc, up, imm, bgerr, scheduled, comp, disk, faults>>

\* PickCompaction: some files of level 0, with files of level 1 they overlap.
Pick(inputs) ==
  /\ scheduled /\ bg.pc = "idle" /\ ~ShuttingDown /\ ~bgerr /\ imm = NoMem
  /\ \E f \in inputs : f[1] = 0

\* A single file that overlaps none is moved by an edit of the manifest.
CallMove ==
  /\ \E f \in vs.tables :
       /\ Pick({f})
       /\ bg' = [NoBg EXCEPT !.pc = "move", !.edit = Edit({<<1, f[2]>>}, {f}, vs)]
  /\ UNCHANGED <<bgRest, pc, up, imm, vs, bgerr, scheduled, comp, pending, disk, faults>>

CallCompact ==
  /\ \E inputs \in SUBSET vs.tables :
       /\ Pick(inputs)
       /\ comp' = [NoComp EXCEPT !.on = TRUE, !.inputs = inputs, !.base = vs.tables]
  /\ bg' = [NoBg EXCEPT !.pc = "compact"]
  /\ UNCHANGED <<bgRest, pc, up, imm, vs, bgerr, scheduled, pending, disk, faults>>

\* BuildTable succeeds; a table with nothing in it is not kept.
FlushBuilt ==
  /\ bg.pc = "flush"
  /\ LET batches == UNION imm
         Added(level) == IF batches = {} THEN {} ELSE {<<level, bg.num>>}
     IN  /\ disk' = IF batches = {} THEN disk
                    ELSE [disk EXCEPT !.tables = Extend(@, bg.num, batches)]
         /\ UNCHANGED <<imm, vs>>
         /\ IF ShuttingDown
            THEN bgerr' = TRUE /\ EndFlush
            ELSE /\ \E level \in {0, 1} :
                      bg' = [bg EXCEPT !.pc = "flushlog",
                                       !.edit = Edit(Added(level), {}, [vs EXCEPT !.log = logfile])]
                 /\ UNCHANGED <<bgerr, scheduled, pc, up>>
  /\ pending' = pending \ {bg.num}
  /\ UNCHANGED <<bgRest, comp, faults>>

\* Mutant: CompactMemTable goes on as if the table were there.
FlushBuildFails_ignored ==
  /\ bg.pc = "flush" /\ Fails("build") /\ pending' = pending \ {bg.num}
  /\ bg' = [bg EXCEPT !.pc = "flushlog", !.edit = Edit({}, {}, [vs EXCEPT !.log = logfile])]
  /\ UNCHANGED <<bgRest, pc, up, imm, vs, bgerr, scheduled, comp, disk>>

FlushBuildFails ==
  /\ bg.pc = "flush" /\ Fails("build")
  /\ bgerr' = TRUE /\ pending' = pending \ {bg.num}
  /\ UNCHANGED <<imm, vs>> /\ EndFlush
  /\ UNCHANGED <<bgRest, comp, disk>>

\* LogAndApply appends a record to the manifest and syncs it ...
ManifestWith(d, records, synced) ==
  [d EXCEPT !.manifests[vs.manifest] =
     [recs |-> @.recs \o records,
      synced |-> IF synced THEN Len(@.recs) + Len(records) ELSE @.synced]]

\* ... and then installs the version.
LogAndApply(e) == [vs EXCEPT !.tables = (@ \ e.del) \union e.add, !.log = e.log]

\* A failed write leaves nothing, a torn record or one that is not synced.
FailedWrites(d, e) == {ManifestWith(d, r, FALSE) : r \in {<<>>, <<TornEdit>>, <<e>>}}

FlushLogged ==
  /\ bg.pc = "flushlog"
  /\ vs' = LogAndApply(bg.edit)
  /\ imm' = NoMem /\ UNCHANGED bgerr
  /\ disk' = DeleteObsoleteFiles(ManifestWith(disk, <<bg.edit>>, TRUE), vs', comp, pending, bgerr)
  /\ EndFlush
  /\ UNCHANGED <<bgRest, comp, pending, faults>>

FlushLogFails ==
  /\ bg.pc = "flushlog" /\ Fails("manifest")
  /\ disk' \in FailedWrites(disk, bg.edit)
  /\ bgerr' = TRUE /\ UNCHANGED <<imm, vs>> /\ EndFlush
  /\ UNCHANGED <<bgRest, comp, pending>>

Moved ==
  /\ bg.pc = "move"
  /\ vs' = LogAndApply(bg.edit) /\ disk' = ManifestWith(disk, <<bg.edit>>, TRUE)
  /\ UNCHANGED <<imm, bgerr>> /\ EndCall
  /\ UNCHANGED <<bgRest, comp, pending, faults>>

MoveFails ==
  /\ bg.pc = "move" /\ Fails("manifest")
  /\ disk' \in FailedWrites(disk, bg.edit)
  /\ bgerr' = TRUE /\ UNCHANGED <<imm, vs>> /\ EndCall
  /\ UNCHANGED <<bgRest, comp, pending>>

\* DoCompactionWork gives way to a memtable that waits.
CompactImm ==
  /\ bg.pc = "compact" /\ ~ShuttingDown /\ imm # NoMem
  /\ StartFlush
  /\ UNCHANGED <<bgRest, pc, up, imm, bgerr, scheduled, comp, disk, faults>>

OpenCompactionOutputFile ==
  /\ bg.pc = "compact" /\ ~ShuttingDown /\ comp.out = {}
  /\ NewFileNumber
  /\ comp' = [comp EXCEPT !.out = {vs.next}]
  /\ UNCHANGED <<bgRest, pc, up, imm, bgerr, scheduled, bg, disk, faults>>

\* The output is complete; InstallCompactionResults begins.
FinishCompactionOutputFile ==
  /\ bg.pc = "compact" /\ ~ShuttingDown
  /\ \E n \in comp.out :
       /\ disk' = [disk EXCEPT !.tables = Extend(@, n, UNION {disk.tables[m] : m \in Numbers(comp.inputs)})]
       /\ bg' = [NoBg EXCEPT !.pc = "install", !.edit = Edit({<<1, n>>}, comp.inputs, vs)]
  /\ UNCHANGED <<bgRest, pc, up, imm, vs, bgerr, scheduled, comp, pending, faults>>

\* CleanupCompaction, ReleaseInputs and DeleteObsoleteFiles.
EndCompact(d) ==
  /\ comp' = NoComp /\ pending' = pending \ comp.out
  /\ disk' = DeleteObsoleteFiles(d, vs', NoComp, pending', bgerr')
  /\ EndCall

\* The database is being closed, or an output cannot be written.
CompactStops ==
  /\ bg.pc = "compact"
  /\ \/ ShuttingDown /\ UNCHANGED faults
     \/ ~ShuttingDown /\ Fails("build")
  /\ bgerr' = TRUE /\ UNCHANGED <<imm, vs>>
  /\ EndCompact(disk)
  /\ UNCHANGED bgRest

Installed ==
  /\ bg.pc = "install"
  /\ vs' = LogAndApply(bg.edit) /\ UNCHANGED <<imm, bgerr, faults>>
  /\ EndCompact(ManifestWith(disk, <<bg.edit>>, TRUE))
  /\ UNCHANGED bgRest

InstallFails ==
  /\ bg.pc = "install" /\ Fails("manifest")
  /\ bgerr' = TRUE /\ UNCHANGED <<imm, vs>>
  /\ \E d \in FailedWrites(disk, bg.edit) : EndCompact(d)
  /\ UNCHANGED bgRest

(***************************************************************************)
(* Readers, closing, crashes.                                              *)
(***************************************************************************)
\* Get refers to the current version while it reads without the mutex.
GetBegins(r) ==
  /\ up = "open" /\ pinned[r] = NoVersion
  /\ pinned' = [pinned EXCEPT ![r] = {vs.tables}]
  /\ UNCHANGED <<writerVars, memVars, vs, up, bgerr, scheduled, bg, comp, pending, rec, disk, excused, opens, faults>>

GetEnds(r) ==
  /\ pinned[r] # NoVersion
  /\ pinned' = [pinned EXCEPT ![r] = NoVersion]
  /\ UNCHANGED <<writerVars, memVars, vs, up, bgerr, scheduled, bg, comp, pending, rec, disk, excused, opens, faults>>

\* What the process keeps in memory is gone.
Reset ==
  /\ pc' = [w \in Writer |-> IF pc[w] = "idle" \/ ret[w] = "ok" THEN pc[w] ELSE "dead"]
  /\ status' = [w \in Writer |-> "none"] /\ queue' = <<>> /\ lead' = NoLead
  /\ mem' = {} /\ imm' = NoMem /\ logfile' = 0
  /\ vs' = [next |-> 0, last |-> 0, log |-> 0, manifest |-> 0, tables |-> {}]
  /\ bgerr' = FALSE
  /\ scheduled' = FALSE /\ bg' = NoBg /\ comp' = NoComp /\ pending' = {}
  /\ rec' = [logs |-> {}, add |-> {}]
  /\ pinned' = [r \in Reader |-> NoVersion]
  /\ UNCHANGED <<ret, seq>>

\* ~DBImpl, which the caller runs when its other calls have returned.
Close ==
  /\ up = "open"
  /\ \A w \in Writer : pc[w] \in {"idle", "done", "dead"}
  /\ \A r \in Reader : pinned[r] = NoVersion
  /\ up' = "closing"
  /\ UNCHANGED <<writerVars, memVars, vs, bgerr, scheduled, bg, comp, pending, rec, pinned, disk, excused, opens, faults>>

Closing ==
  /\ up = "closing"
  /\ IF scheduled
     THEN /\ up' = "closewait"
          /\ UNCHANGED <<writerVars, memVars, vs, bgerr, scheduled, bg, comp, pending, rec, pinned>>
     ELSE Reset /\ up' = "closed"
  /\ UNCHANGED <<disk, excused, opens, faults>>

\* The file operation under way may have happened in part, in full or not at all.
Interrupted ==
  LET logs == IF \E w \in Writer : pc[w] = "log"
              THEN {disk, Logged(TornRecord), Logged(Group)} ELSE {disk}
  IN  UNION {CASE bg.pc \in {"flushlog", "move", "install"} -> {d} \union FailedWrites(d, bg.edit)
               [] up = "newcurrent" -> {d, [d EXCEPT !.current = 1]}
               [] up = "current" -> {d, [d EXCEPT !.current = vs.manifest]}
               [] OTHER -> {d} : d \in logs}

\* With the machine, the records that were not synced may go.
Cut(files) ==
  LET Parts(f) == {[files[f] EXCEPT !.recs = SubSeq(@, 1, n)] : n \in files[f].synced .. Len(files[f].recs)}
  IN  {g \in [DOMAIN files -> UNION {Parts(f) : f \in DOMAIN files}] : \A f \in DOMAIN files : g[f] \in Parts(f)}

PowerLosses(d) == {[d EXCEPT !.logs = p[1], !.manifests = p[2]] : p \in Cut(d.logs) \X Cut(d.manifests)}

Survivors(kind) == IF kind = "process" THEN Interrupted
                   ELSE UNION {PowerLosses(d) : d \in Interrupted}

\* What a recovery from these files would find.
Contents(d) == IF d.current = 0 \/ Corrupt(d.manifests[d.current].recs) THEN {}
               ELSE Recoverable(d, d.manifests[d.current].recs)

Crash(kind) ==
  /\ up \notin {"closed", "unusable"} /\ opens < MaxOpens
  /\ disk' \in Survivors(kind)
  /\ excused' = IF kind = "process" THEN excused
                ELSE excused \union {w \in Batches \ (Sync \union Contents(disk')) : ret[w] = "ok"}
  /\ up' = "closed" /\ Reset
  /\ UNCHANGED <<opens, faults>>

(***************************************************************************)
(* DB::Open.                                                               *)
(***************************************************************************)
openRest == <<pc, ret, status, queue, lead, seq, mem, imm, bgerr, bg, comp, pending, pinned, excused>>

Open ==
  /\ up = "closed" /\ opens < MaxOpens /\ opens' = opens + 1
  /\ up' = IF disk.current = 0 THEN "create" ELSE "recover"
  /\ UNCHANGED <<openRest, logfile, vs, scheduled, rec, disk, faults>>

\* The first manifest, which is closed without being synced.
NewDB ==
  /\ up = "create" /\ up' = "newcurrent"
  /\ disk' = [disk EXCEPT !.manifests =
                Extend(@, 1, [recs |-> <<Edit({}, {}, [log |-> 0, next |-> 2, last |-> 0])>>, synced |-> 0])]
  /\ UNCHANGED <<openRest, logfile, vs, scheduled, rec, opens, faults>>

SetCurrentFile ==
  /\ up = "newcurrent" /\ up' = "recover"
  /\ disk' = [disk EXCEPT !.current = 1]
  /\ UNCHANGED <<openRest, logfile, vs, scheduled, rec, opens, faults>>

\* Recover looks for the numbers of the tables among those of all files.
MissingFiles(d, tables) ==
  Numbers(tables) \ (DOMAIN d.tables \union DOMAIN d.logs \union DOMAIN d.manifests)

\* Mutant: the log that the manifest names is taken for saved.
LogsToReplay_newer(d, v) == {n \in DOMAIN d.logs : n > v.log}

\* The logs that are not older than the one the manifest names.
LogsToReplay(d, v) == {n \in DOMAIN d.logs : n >= v.log}

\* VersionSet::Recover, and the logs to replay.
Recover ==
  /\ up = "recover"
  /\ LET recs == disk.manifests[disk.current].recs
         v == Replayed(recs)
     IN  IF Corrupt(recs) \/ MissingFiles(disk, v.tables) # {}
         THEN up' = "unusable" /\ UNCHANGED <<vs, rec>>
         ELSE /\ vs' = [tables |-> v.tables, log |-> v.log, last |-> v.last,
                        manifest |-> v.next, next |-> v.next + 1]
              /\ rec' = [rec EXCEPT !.logs = LogsToReplay(disk, v)]
              /\ up' = "replay"
  /\ UNCHANGED <<openRest, logfile, scheduled, disk, opens, faults>>

\* The larger of the numbers.
Highest(S) == CHOOSE n \in S : \A m \in S : m <= n

\* Mutant: the manifest's number is taken.
MaxSequence_saved(last, found) == last

\* last_sequence_ after the batches found in a log.
MaxSequence(last, found) == Highest({last} \union {seq[w] : w \in found})

\* The oldest log becomes a table; MarkFileNumberUsed comes after that.
RecoverLogFile ==
  /\ up = "replay" /\ rec.logs # {}
  /\ LET n == CHOOSE k \in rec.logs : \A m \in rec.logs : k <= m
         found == InLog(disk.logs[n].recs)
         used == IF found = {} THEN vs.next ELSE vs.next + 1
     IN  /\ rec' = [logs |-> rec.logs \ {n},
                    add |-> IF found = {} THEN rec.add ELSE rec.add \union {<<0, vs.next>>}]
         /\ disk' = IF found = {} THEN disk ELSE [disk EXCEPT !.tables = Extend(@, vs.next, found)]
         /\ vs' = [vs EXCEPT !.next = Highest({used, n + 1}),
                             !.last = MaxSequence(@, found)]
  /\ UNCHANGED <<openRest, logfile, up, scheduled, opens, faults>>

\* The new log.
OpenLog ==
  /\ up = "replay" /\ rec.logs = {} /\ up' = "manifest"
  /\ logfile' = vs.next /\ vs' = [vs EXCEPT !.next = @ + 1]
  /\ disk' = [disk EXCEPT !.logs = Extend(@, vs.next, [recs |-> <<>>, synced |-> 0])]
  /\ UNCHANGED <<openRest, scheduled, rec, opens, faults>>

\* LogAndApply starts a new manifest with WriteSnapshot and the edit.
OpenManifest ==
  /\ up = "manifest" /\ up' = "current"
  /\ disk' = [disk EXCEPT !.manifests =
                Extend(@, vs.manifest, [recs |-> <<Edit(vs.tables \union rec.add, {}, [vs EXCEPT !.log = logfile])>>,
                                        synced |-> 1])]
  /\ UNCHANGED <<openRest, logfile, vs, scheduled, rec, opens, faults>>

\* CURRENT names it; the version is installed and the database is open.
OpenCurrent ==
  /\ up = "current" /\ up' = "open"
  /\ vs' = [vs EXCEPT !.tables = @ \union rec.add, !.log = logfile]
  /\ disk' = DeleteObsoleteFiles([disk EXCEPT !.current = vs.manifest], vs', NoComp, {}, FALSE)
  /\ scheduled' = MaybeScheduleCompaction(FALSE, NoMem, vs'.tables, FALSE)
  /\ rec' = [logs |-> {}, add |-> {}]
  /\ UNCHANGED <<openRest, logfile, opens, faults>>

\* DB::Open returns an error and deletes what it has begun.
OpenFails ==
  /\ up \in {"create", "newcurrent", "replay", "manifest", "current"} /\ Fails("open")
  /\ disk' = IF up = "current"
             THEN [disk EXCEPT !.manifests = Keep(@, DOMAIN @ \ {vs.manifest})] ELSE disk
  /\ up' = "closed" /\ Reset
  /\ UNCHANGED <<excused, opens>>

WriterStep(w) == \/ Woken(w) \/ RoomError(w) \/ RoomDelay(w) \/ Slept(w) \/ RoomFound(w) \/ RoomWait(w)
                 \/ SwitchMem(w) \/ SwitchFails(w) \/ AddRecord(w) \/ AddRecordFails(w)
                 \/ SyncLog(w) \/ SyncFails(w) \/ Flush(w)

BackgroundStep == \/ CallIdle \/ CallFlush \/ CallMove \/ CallCompact
                  \/ FlushBuilt \/ FlushBuildFails \/ FlushLogged \/ FlushLogFails
                  \/ Moved \/ MoveFails \/ CompactImm \/ OpenCompactionOutputFile
                  \/ FinishCompactionOutputFile \/ CompactStops \/ Installed \/ InstallFails

OpenStep == \/ NewDB \/ SetCurrentFile \/ Recover \/ RecoverLogFile \/ OpenLog
            \/ OpenManifest \/ OpenCurrent \/ OpenFails

Next == \/ \E w \in Writer : Enter(w) \/ WriterStep(w)
        \/ \E r \in Reader : GetBegins(r) \/ GetEnds(r)
        \/ BackgroundStep
        \/ Open \/ OpenStep \/ Close \/ Closing
        \/ \E kind \in Crashes : Crash(kind)

Spec == Init /\ [][Next]_vars

\* The scheduler runs every thread that can go on; nobody has to call Write,
\* Open or the destructor, and nothing has to fail.
Fairness == /\ \A w \in Writer : WF_vars(WriterStep(w))
            /\ WF_vars(BackgroundStep) /\ WF_vars(OpenStep) /\ WF_vars(Closing)

FairSpec == Spec /\ Fairness

(***************************************************************************)
(* Properties.                                                             *)
(***************************************************************************)
\* The batches whose writes have been reported as done, apart from those a
\* crash of the machine or a torn log record was allowed to take.
Acked == {w \in Batches : ret[w] = "ok"} \ excused

\* What a read finds.
Visible == mem \union (UNION imm) \union (UNION {disk.tables[n] : n \in Numbers(vs.tables)})

\* The variables of a database have their types; a group is no longer than
\* the queue, there is at most one imm_, the background thread runs only when
\* it is scheduled, and no more of a log is synced than was written.
DBTypeOK ==
  /\ pc \in [Writer -> {"idle", "wait", "signalled", "room", "sleep", "bgwait", "log", "sync",
                        "flush", "flushwait", "done", "dead"}]
  /\ ret \in [Writer -> {"none", "ok", "error"}] /\ status \in [Writer -> {"none", "ok", "error"}]
  /\ queue \in Seq(Writer) /\ lead.group \in 0..Len(queue)
  /\ mem \subseteq Batches /\ imm \in SUBSET SUBSET Batches /\ Cardinality(imm) <= 1
  /\ scheduled \in BOOLEAN /\ bgerr \in BOOLEAN /\ (bg.pc # "idle" => scheduled)
  /\ DOMAIN disk.logs \union DOMAIN disk.tables \union DOMAIN disk.manifests \union {disk.current} \subseteq Nat
  /\ \A n \in DOMAIN disk.logs : disk.logs[n].synced <= Len(disk.logs[n].recs)

\* Once Write has returned OK, reads find the batch, whatever is being
\* compacted, moved or deleted at the time (Write, CompactMemTable,
\* DoCompactionWork).
AckedVisible == up = "open" => Acked \subseteq Visible

\* A write that returned an error does not show up in this opening of the
\* database (Write: InsertInto only after AddRecord and Sync succeeded).
FailedInvisible == \A w \in Batches : pc[w] = "done" /\ ret[w] = "error" => w \notin Visible

\* What a read meets is settled: every write that was reported as done, and
\* none that was reported as failed.
ReadsSettled == AckedVisible /\ FailedInvisible

\* If the process dies now, inside any file operation, recovery finds every
\* batch whose write was reported as done (Recover, RecoverLogFile).
ProcessCrashSafe ==
  \A d \in Survivors("process") :
    d.current # 0 /\ ~Corrupt(d.manifests[d.current].recs) => Acked \subseteq Contents(d)

\* If the machine stops now, recovery finds every synchronous write that was
\* reported as done (WriteOptions::sync), also when it shared a group with
\* others or the memtable was switched behind it.
SyncDurable ==
  \A d \in Survivors("power") :
    d.current # 0 /\ ~Corrupt(d.manifests[d.current].recs) => Acked \cap Sync \subseteq Contents(d)

\* Both: a crash at any point keeps what was promised for its kind.
CrashSafe == ProcessCrashSafe /\ SyncDurable

\* No file that a reader, a compaction, the current version or a later
\* recovery needs is deleted (DeleteObsoleteFiles, pending_outputs_).
FilesKept ==
  /\ up = "open" => Numbers(vs.tables \union comp.inputs) \subseteq DOMAIN disk.tables
  /\ \A r \in Reader : \A version \in pinned[r] : Numbers(version) \subseteq DOMAIN disk.tables
  /\ \A d \in Survivors("process") :
       d.current # 0 /\ d.current \in DOMAIN d.manifests /\ ~Corrupt(d.manifests[d.current].recs) =>
         Numbers(Replayed(d.manifests[d.current].recs).tables) \subseteq DOMAIN d.tables
  /\ disk.current # 0 => disk.current \in DOMAIN disk.manifests

\* No two batches that a read can meet have the same sequence number, also
\* after numbers were used by writes that a crash interrupted
\* (VersionSet::LastSequence, Recover).
SequencesDistinct ==
  up = "open" => \A v, w \in Visible : v # w => seq[v] # seq[w]

\* Every Write and every TEST_CompactMemTable returns or dies with the
\* process: no wakeup of the queue or of bg_cv_ is lost.
WritesReturn == \A w \in Writer : (pc[w] \notin {"idle", "done", "dead"}) ~> (pc[w] \in {"done", "dead"})

\* The destructor returns.
CloseReturns == ShuttingDown ~> up = "closed"

\* leveldb is a Store: what recovery would find grows with the writes and
\* stays the same in every other step; only a crash of the machine shrinks it.
AsStore == INSTANCE Store WITH Batch <- Batches, Durable <- Sync,
                               stored <- Contents(disk), told <- [w \in Batches |-> ret[w]]

IsStore == AsStore!StoreSpec

\* db_impl.h of TEST_CompactMemTable: "Force current memtable contents to be
\* compacted".  When it returns, no write that was reported before it is left
\* in the memtable.
ForcesMemtable ==
  [][\A w \in Forcing : ret[w] # "ok" /\ ret'[w] = "ok" =>
       {v \in Batches : ret[v] = "ok"} \cap mem = {}]_vars

\* BackgroundCall: "No more background work after a background error."  The
\* manifest then ends with the record that could not be written, and a later
\* Open can read it.
ErrorEndsManifest == up = "open" /\ bgerr => ~Corrupt(disk.manifests[vs.manifest].recs)

\* Recover: "the creation of the DB is committed only when the descriptor is
\* created", and may have been attempted before: a crash leaves a database that
\* can be opened.
CreationRepeatable == up # "unusable"

=============================================================================
