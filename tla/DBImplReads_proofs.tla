------------------------ MODULE DBImplReads_proofs ------------------------
(***************************************************************************)
(* Theorems about what reads and recovery find in the leveldb database:    *)
(* what was promised is kept.  Recovery finds a batch in a table that the  *)
(* manifest names or in a log that is not older than the one it names; a   *)
(* crash of the process leaves all records, one of the machine only those  *)
(* that were synced.  The types, the files and the sequence numbers are    *)
(* taken from DBImpl_proofs.                                               *)
(***************************************************************************)
EXTENDS DBImpl_proofs

\* The batches whose writers return OK, or already have.
Succeeded(w) == ret[w] = "ok" \/ status[w] = "ok"
Due == {w \in Batches : Succeeded(w)} \ excused

Kinds == {"process", "power"}
Reach(kind, f) == IF kind = "process" THEN Len(f.recs) ELSE f.synced
Promised(kind, w) == w \notin excused /\ (kind = "power" => w \in Sync)

\* Replaying the first k records finds w.
InRecs(recs, k, w) == \E i \in 1 .. k : w \in recs[i] /\ \A j \in 1 .. i : recs[j] # TornRecord

InTables(files, tables, w) == \E x \in tables : x[2] \in DOMAIN files /\ w \in files[x[2]]
InLogs(kind, logs, n, w) == \E m \in DOMAIN logs : m >= n /\ InRecs(logs[m].recs, Reach(kind, logs[m]), w)

\* The manifest may end after its record k.
Point(f, k) == k \in f.synced .. Len(f.recs) /\ k > 0 /\ NoTorn(f.recs, k)
LastPoint(f, k) == k = Len(f.recs) \/ (k + 1 = Len(f.recs) /\ f.recs[k + 1] = TornEdit)

Found(kind, d, f, k, w) ==
  InTables(d.tables, TablesOf(f.recs, k), w) \/ InLogs(kind, d.logs, f.recs[k].log, w)

Kept(kind, batches, d, f) ==
  \A k \in 1 .. Len(f.recs) : Point(f, k) /\ (kind = "process" => LastPoint(f, k)) =>
    \A w \in batches : Found(kind, d, f, k, w)

Safe(d, f) == Kept("process", Due, d, f) /\ Kept("power", Due \cap Sync, d, f)

\* While the database is open: the manifest has what the version has, wherever
\* it ends, and what the memtables have is in it or in the logs.
PointKept(k) ==
  LET recs == Current(disk).recs
  IN  /\ vs.log <= recs[k].log /\ recs[k].log <= logfile
      /\ \A w \in Batches : InTables(disk.tables, vs.tables, w) => InTables(disk.tables, TablesOf(recs, k), w)
      /\ \A kind \in Kinds : \A m \in imm : \A w \in m : Promised(kind, w) =>
           Found(kind, disk, Current(disk), k, w)

LogKept ==
  /\ logfile \in DOMAIN disk.logs /\ logfile < vs.next /\ vs.log <= logfile
  /\ \A kind \in Kinds : \A w \in mem : Promised(kind, w) =>
       InRecs(disk.logs[logfile].recs, Reach(kind, disk.logs[logfile]), w)
  /\ InSync(pc) => \A w \in Group : w \notin excused => InRecs(disk.logs[logfile].recs, Len(disk.logs[logfile].recs), w)
  /\ \A v \in Writer : pc[v] \in {"log", "sync"} /\ v \notin Sync => Group \cap Sync = {}

VersionKept ==
  /\ Len(Current(disk).recs) > 0
  /\ \A w \in Due : Held(w) \/ InTables(disk.tables, vs.tables, w)
  /\ \A x \in vs.tables : ~NotTaken(Current(disk), x[2])
  /\ \A k \in 1 .. Len(Current(disk).recs) : Point(Current(disk), k) => PointKept(k)

\* The edit that the thread in the background writes loses nothing.
EditKept ==
  /\ bg.pc \in {"flush", "flushlog"} => imm # NoMem
  /\ bg.pc = "flushlog" => /\ bg.edit.del = {} /\ bg.edit.log = logfile
                           /\ \A m \in imm : \A w \in m : InTables(disk.tables, bg.edit.add, w)
  /\ bg.pc \in {"move", "install"} =>
       /\ bg.edit.log = vs.log
       /\ \A w \in Batches : InTables(disk.tables, bg.edit.del, w) => InTables(disk.tables, bg.edit.add, w)

ReplayKept ==
  /\ \A w \in Due : \/ InTables(disk.tables, vs.tables \union rec.add, w)
                    \/ \E n \in rec.logs : InRecs(disk.logs[n].recs, Len(disk.logs[n].recs), w)
  /\ up \in {"manifest", "current"} => logfile \in DOMAIN disk.logs /\ logfile < vs.next
  /\ up = "current" => \A i \in 1 .. Len(disk.manifests[vs.manifest].recs) :
                         disk.manifests[vs.manifest].recs[i].log = logfile

KeepInv ==
  /\ disk.current = 0 => Due = {}
  /\ up \notin Opened /\ disk.current # 0 => Safe(disk, Current(disk))
  /\ up \in Replaying => ReplayKept
  /\ up \in Opened => LogKept /\ VersionKept /\ EditKept

\* A write that failed is nowhere but in a log.
Failed(w) == (pc[w] = "done" /\ ret[w] = "error") \/ status[w] = "error"

FailInv ==
  /\ \A w \in Batches : Failed(w) => ~Tabulated(disk, w) /\ ~Held(w)
  /\ \A w \in Batches : pc[w] \notin {"flush", "flushwait"}
  /\ up \notin Opened => \A w \in Batches : ~Failed(w)

(***************************************************************************)
(* What the writers are told.                                              *)
(***************************************************************************)
\* Nobody who was not among the first n of the queue is told anything.
LEMMA FinishGives ==
  ASSUME WriterInv, NEW w \in Writer, pc[w] \in Leading, NEW n \in 1 .. Len(queue), NEW s,
         NEW p \in {pc, SignalAll(pc)}, Finish(n, s, p), NEW v \in Writer
  PROVE  /\ \/ status'[v] = status[v] /\ ret'[v] = ret[v] /\ (pc'[v] = "done" => pc[v] = "done")
            \/ (\E i \in 1 .. n : queue[i] = v) /\ status'[v] \in {"none", s} /\ ret'[v] \in {"none", s}
         /\ pc'[v] \in {"flush", "flushwait"} => pc[v] \in {"flush", "flushwait"} \/ v \in Forcing
<1> DEFINE followers == {queue[i] : i \in 2 .. n}
           next == IF SubSeq(queue, n + 1, Len(queue)) = <<>> THEN {} ELSE {SubSeq(queue, n + 1, Len(queue))[1]}
<1>1. /\ status' = [u \in Writer |-> IF u \in followers THEN s ELSE status[u]]
      /\ pc' = [u \in Writer |-> CASE u = Leader -> Returned(u, s)
                                   [] u \in followers \union next /\ p[u] = "wait" -> "signalled"
                                   [] OTHER -> p[u]]
      /\ ret' = IF Returned(Leader, s) = "done" THEN [ret EXCEPT ![Leader] = s] ELSE ret
  BY DEF Finish
<1>2. /\ w = Leader /\ status[w] = "none" /\ ret[w] = "none" /\ 1 \in 1 .. Len(queue)
      /\ \A u \in Writer : pc[u] \in Leading => u = w
  BY LeaderFacts
<1>3. /\ ret \in [Writer -> Results] /\ queue \in Seq(Writer) /\ Len(queue) \in Nat
      /\ \A i \in 1 .. Len(queue) : pc[queue[i]] \in InQueue /\ status[queue[i]] = "none"
      /\ \A i, j \in 1 .. Len(queue) : queue[i] = queue[j] => i = j
      /\ \A u \in Writer : ret[u] # "none" => pc[u] \in {"done", "dead"}
  BY LeadType DEF WriterInv, WritersSound
<1>4. p[v] = pc[v] \/ (p[v] \in {"room", "flush"} /\ pc[v] \in {"bgwait", "flushwait"})
  BY DEF SignalAll
<1>5. CASE v = Leader
  <2>1. v \notin followers
    <3>1. \A i \in 2 .. n : i \in 1 .. Len(queue) /\ i # 1
      BY <1>3
    <3> QED BY <1>2, <1>3, <1>5, <3>1 DEF Leader
  <2> HIDE DEF followers, next
  <2>2. status'[v] = "none" /\ ret'[v] \in {"none", s} /\ pc'[v] = Returned(v, s)
    <3>1. status'[v] = "none"
      BY <1>1, <1>2, <1>5, <2>1
    <3>2. pc'[v] = CASE v = Leader -> Returned(v, s)
                     [] v \in followers \union next /\ p[v] = "wait" -> "signalled"
                     [] OTHER -> p[v]
      BY <1>1
    <3>3. pc'[v] = Returned(v, s)
      BY <1>2, <1>4, <1>5, <3>2 DEF Leading
    <3>4. ret'[v] \in {"none", s}
      BY <1>1, <1>2, <1>3, <1>5
    <3> QED BY <3>1, <3>3, <3>4
  <2>3. 1 \in 1 .. n /\ queue[1] = v
    BY <1>3, <1>5 DEF Leader
  <2>4. pc'[v] \in {"flush", "flushwait"} => v \in Forcing
    BY <2>2 DEF Returned
  <2> QED BY <2>2, <2>3, <2>4
<1>6. CASE v # Leader /\ v \in followers
  <2>1. PICK i \in 2 .. n : queue[i] = v
    BY <1>6
  <2>2. i \in 1 .. n /\ i \in 1 .. Len(queue)
    BY <1>3, <2>1
  <2>3. pc[v] \in InQueue /\ ret[v] = "none"
    BY <1>3, <2>1, <2>2 DEF InQueue, Leading
  <2> HIDE DEF followers, next
  <2>4. status'[v] = s /\ ret'[v] = ret[v] /\ pc'[v] \in {p[v], "signalled"}
    BY <1>1, <1>3, <1>6
  <2>5. pc[v] \notin {"bgwait", "flushwait"}
    BY <1>2, <1>6, <2>3 DEF InQueue, Leading
  <2> QED BY <1>4, <2>1, <2>2, <2>3, <2>4, <2>5 DEF InQueue, Leading
<1>7. CASE v # Leader /\ v \notin followers
  <2> HIDE DEF followers, next
  <2>1. status'[v] = status[v] /\ ret'[v] = ret[v] /\ pc'[v] \in {p[v], "signalled"}
    BY <1>1, <1>3, <1>7
  <2>2. pc[v] # "bgwait"
    BY <1>2, <1>7 DEF Leading
  <2> QED BY <1>4, <2>1, <2>2
<1> QED BY <1>5, <1>6, <1>7

\* A batch is reported as failed only from the queue, and as done only when it
\* is in the memtable.
LEMMA WriterResults ==
  ASSUME BaseInv, FailInv, NEW w \in Writer, Enter(w) \/ WriterStep(w), NEW v \in Batches
  PROVE  /\ Failed(v)' => Failed(v) \/ (Queued(v) /\ UNCHANGED <<mem, imm>>)
         /\ Succeeded(v)' => Succeeded(v) \/ (v \in Group /\ v \in mem')
         /\ pc'[v] \notin {"flush", "flushwait"}
<1>1. /\ WriterInv /\ v \in Writer /\ v \notin Forcing /\ pc[v] \notin {"flush", "flushwait"}
      /\ pc \in [Writer -> Places] /\ ret \in [Writer -> Results]
  BY DEF BaseInv, Batches, FailInv, WriterInv, WritersSound
<1>2. ASSUME NEW place, place \notin {"flush", "flushwait", "done"}, pc' = [pc EXCEPT ![w] = place], UNCHANGED <<ret, status>>
      PROVE  /\ Failed(v)' => Failed(v)
             /\ Succeeded(v)' => Succeeded(v)
             /\ pc'[v] \notin {"flush", "flushwait"}
  BY <1>1, <1>2 DEF Failed, Succeeded
<1>3. ASSUME pc[w] \in Leading, NEW n \in 1 .. Len(queue), NEW s \in {"ok", "error"}, NEW p \in {pc, SignalAll(pc)}, Finish(n, s, p)
      PROVE  /\ Failed(v)' => Failed(v) \/ (s = "error" /\ Queued(v))
             /\ Succeeded(v)' => Succeeded(v) \/ (s = "ok" /\ \E i \in 1 .. n : queue[i] = v)
             /\ pc'[v] \notin {"flush", "flushwait"}
  <2>1. /\ \/ status'[v] = status[v] /\ ret'[v] = ret[v] /\ (pc'[v] = "done" => pc[v] = "done")
           \/ (\E i \in 1 .. n : queue[i] = v) /\ status'[v] \in {"none", s} /\ ret'[v] \in {"none", s}
        /\ pc'[v] \in {"flush", "flushwait"} => pc[v] \in {"flush", "flushwait"} \/ v \in Forcing
    BY <1>1, <1>3, FinishGives
  <2>2. (\E i \in 1 .. n : queue[i] = v) => Queued(v)
    BY <1>1, <1>3, LeadType DEF Queued
  <2> QED BY <1>1, <2>1, <2>2 DEF Failed, Succeeded
<1>4. CASE Enter(w)
  BY <1>2, <1>4 DEF Enter
<1>5. CASE Woken(w)
  <2>1. CASE status[w] = "none"
    <3>1. UNCHANGED <<ret, status>> /\ \E place \in {"room", "wait"} : pc' = [pc EXCEPT ![w] = place]
      BY <1>5, <2>1 DEF Woken
    <3> QED BY <1>2, <3>1
  <2>2. CASE status[w] # "none"
    <3>1. /\ pc' = [pc EXCEPT ![w] = Returned(w, status[w])] /\ status' = status
          /\ ret' \in {ret, [ret EXCEPT ![w] = status[w]]}
      BY <1>5, <2>2 DEF Woken
    <3>2. CASE v = w
      <4>1. pc'[v] = "done" /\ ret'[v] \in {ret[v], status[v]} /\ status'[v] = status[v]
        BY <1>1, <3>1, <3>2 DEF Returned
      <4>2. ret[v] = "none"
        BY <1>1, <1>5, <3>2 DEF Woken, WriterInv, WritersSound
      <4> QED BY <4>1, <4>2 DEF Failed, Succeeded
    <3>3. CASE v # w
      BY <1>1, <3>1, <3>3 DEF Failed, Succeeded
    <3> QED BY <3>2, <3>3
  <2> QED BY <2>1, <2>2
<1>6. CASE RoomDelay(w) \/ Slept(w) \/ RoomWait(w)
  BY <1>2, <1>6 DEF RoomDelay, Slept, RoomWait
<1>7. CASE RoomError(w) \/ SwitchFails(w)
  <2>1. pc[w] = "room" /\ Finish(1, "error", pc) /\ UNCHANGED <<mem, imm>>
    BY <1>7 DEF RoomError, SwitchFails, memVars
  <2>2. pc[w] \in Leading /\ 1 \in 1 .. Len(queue)
    BY <1>1, <2>1, LeaderFacts DEF Leading
  <2> QED BY <1>3, <2>1, <2>2
<1>8. CASE RoomFound(w) \/ SwitchMem(w)
  <2>1. pc[w] = "room" /\ Proceed
    BY <1>8 DEF RoomFound, SwitchMem
  <2>2. pc[w] \in Leading /\ 1 \in 1 .. Len(queue) /\ w = Leader
    BY <1>1, <2>1, LeaderFacts DEF Leading
  <2>3. CASE IsBatch(Leader)
    <3>1. pc' = [pc EXCEPT ![w] = "log"] /\ UNCHANGED <<ret, status>>
      BY <2>1, <2>2, <2>3 DEF Proceed
    <3> QED BY <1>2, <3>1
  <2>4. CASE ~IsBatch(Leader)
    <3>1. Finish(1, "ok", pc)
      BY <2>1, <2>4 DEF Proceed
    <3>2. \A i \in 1 .. 1 : queue[i] # v
      BY <1>1, <2>4 DEF Leader, IsBatch
    <3> QED BY <1>3, <2>2, <3>1, <3>2
  <2> QED BY <2>3, <2>4
<1>9. CASE AddRecord(w) /\ w \in Sync
  <2>1. pc' = [pc EXCEPT ![w] = "sync"] /\ UNCHANGED <<ret, status>>
    BY <1>9 DEF AddRecord
  <2> QED BY <1>2, <2>1
<1>10. CASE (AddRecord(w) /\ w \notin Sync) \/ AddRecordFails(w) \/ SyncLog(w) \/ SyncFails(w)
  <2>1. pc[w] \in {"log", "sync"} /\ \E s \in {"ok", "error"}, p \in {pc, SignalAll(pc)} : EndGroup(s, p) /\ imm' = imm
    BY <1>10 DEF AddRecord, AddRecordFails, SyncLog, SyncFails
  <2>2. PICK s \in {"ok", "error"}, p \in {pc, SignalAll(pc)} : EndGroup(s, p) /\ imm' = imm
    BY <2>1
  <2>3. Finish(lead.group, s, p) /\ (s = "ok" => mem' = mem \union Group) /\ (s = "error" => mem' = mem)
    BY <2>2 DEF EndGroup
  <2>4. pc[w] \in Leading /\ lead.group \in 1 .. Len(queue)
    BY <1>1, <2>1, LeadType DEF Leading, WriterInv, WritersSound
  <2>5. (\E i \in 1 .. lead.group : queue[i] = v) => v \in Group
    BY <1>1 DEF Group, IsBatch
  <2> QED BY <1>3, <2>2, <2>3, <2>4, <2>5
<1>11. CASE Flush(w)
  <2>1. v # w /\ pc[w] = "flush"
    BY <1>1, <1>11 DEF Flush
  <2>2. pc'[v] = pc[v] /\ ret'[v] = ret[v] /\ status'[v] = status[v]
    BY <1>1, <1>11, <2>1 DEF Flush
  <2> QED BY <1>1, <2>2 DEF Failed, Succeeded
<1> QED BY <1>4, <1>5, <1>6, <1>7, <1>8, <1>9, <1>10, <1>11 DEF WriterStep

LEMMA WriterHeld ==
  ASSUME BaseInv, NEW w \in Writer, Enter(w) \/ WriterStep(w)
  PROVE  /\ disk'.tables = disk.tables
         /\ \A v : Held(v)' => Held(v) \/ v \in Group
<1>1. WriterFrame
  BY WriterStepFrame DEF BaseInv
<1>2. CASE SwitchMem(w)
  <2>1. mem' = {} /\ imm' = {mem}
    BY <1>2 DEF SwitchMem
  <2>2. \A v : Held(v)' => Held(v)
    BY <2>1 DEF Held
  <2> QED BY <1>1, <2>2 DEF WriterFrame, SameTables
<1>3. CASE ~SwitchMem(w)
  <2>1. imm' = imm /\ mem' \in {mem, mem \union Group}
    BY <1>3 DEF WriterStep, Enter, Woken, RoomError, RoomDelay, Slept, RoomFound, RoomWait, SwitchFails,
                AddRecord, AddRecordFails, SyncLog, SyncFails, EndGroup, Flush, memVars
  <2>2. \A v : Held(v)' => Held(v) \/ v \in Group
    BY <2>1 DEF Held
  <2> QED BY <1>1, <2>2 DEF WriterFrame, SameTables
<1> QED BY <1>2, <1>3

LEMMA WriterFail ==
  ASSUME BaseInv, StampInv, FailInv, NEW w \in Writer, Enter(w) \/ WriterStep(w)
  PROVE  FailInv'
<1>1. disk'.tables = disk.tables /\ \A v : (Held(v)' => Held(v) \/ v \in Group) /\ (Tabulated(disk', v) <=> Tabulated(disk, v))
  BY WriterHeld DEF Tabulated
<1>2. up' = up
  BY WriterStepFrame DEF BaseInv, WriterFrame, callerVars
<1>3. ASSUME NEW v \in Batches, Failed(v)'
      PROVE  ~Tabulated(disk', v) /\ ~Held(v)' /\ up \in Opened
  <2>1. CASE Failed(v)
    <3>1. ~Queued(v)
      BY <2>1, ElementOfSeq DEF Queued, Failed, BaseInv, WriterInv, WritersSound, InQueue, Leading
    <3>2. v \notin Group
      BY <3>1, GroupQueued DEF BaseInv
    <3> QED BY <1>1, <2>1, <3>2 DEF FailInv
  <2>2. CASE ~Failed(v)
    <3>1. Queued(v) /\ UNCHANGED <<mem, imm>>
      BY <1>3, <2>2, WriterResults
    <3>2. ~Tabulated(disk, v) /\ ~Held(v)
      BY <3>1 DEF StampInv
    <3>3. up \in Opened
      <4>1. queue # <<>>
        BY <3>1, EmptySeq DEF Queued
      <4> QED BY <4>1, NotOpened
    <3> QED BY <1>1, <3>1, <3>2, <3>3 DEF Held
  <2> QED BY <2>1, <2>2
<1>4. \A v \in Batches : pc'[v] \notin {"flush", "flushwait"}
  BY WriterResults
<1> QED BY <1>2, <1>3, <1>4 DEF FailInv

LEMMA BackgroundFail ==
  ASSUME BaseInv, FilesInv, StampInv, FailInv, BackgroundStep
  PROVE  FailInv'
<1>1. ret' = ret /\ status' = status /\ pc' \in {pc, SignalAll(pc)}
  BY BackgroundSignals
<1>2. up' \in Opened /\ Shrinks
  BY BackgroundStays, BackgroundShrinks
<1>3. \A v \in Writer : /\ pc'[v] = "done" => pc[v] = "done"
                        /\ pc'[v] \in {"flush", "flushwait"} => pc[v] \in {"flush", "flushwait"}
  BY <1>1 DEF SignalAll
<1>4. \A v \in Batches : v \in Writer /\ (Failed(v)' => Failed(v))
  BY <1>1, <1>3 DEF Failed, Batches
<1> QED BY <1>2, <1>3, <1>4 DEF FailInv, Shrinks

LEMMA ResetFail ==
  ASSUME BaseInv, FailInv, Reset
  PROVE  FailInv'
<1>1. /\ pc' = [w \in Writer |-> IF pc[w] = "idle" \/ ret[w] = "ok" THEN pc[w] ELSE "dead"]
      /\ status' = [w \in Writer |-> "none"] /\ ret' = ret
  BY DEF Reset
<1>2. \A v \in Batches : v \in Writer
  BY DEF Batches
<1>3. \A v \in Batches : ~Failed(v)' /\ pc'[v] \notin {"flush", "flushwait"}
  BY <1>1, <1>2 DEF Failed, FailInv
<1> QED BY <1>3 DEF FailInv

LEMMA FailInit ==
  ASSUME Init
  PROVE  FailInv
  BY DEF Init, FailInv, Failed, Batches

LEMMA FailNext ==
  ASSUME BaseInv, FilesInv, StampInv, FailInv, [Next]_vars
  PROVE  FailInv'
<1>1. CASE \E w \in Writer : Enter(w) \/ WriterStep(w)
  BY <1>1, WriterFail
<1>2. CASE (\E r \in Reader : GetBegins(r) \/ GetEnds(r)) \/ Close \/ UNCHANGED vars \/ (Closing /\ scheduled)
  <2>1. UNCHANGED <<pc, ret, status, mem, imm, disk>> /\ (up \in Opened <=> up' \in Opened)
    BY <1>2 DEF GetBegins, GetEnds, Close, Closing, vars, writerVars, memVars, Opened
  <2> QED BY <2>1 DEF FailInv, Failed, Held
<1>3. CASE BackgroundStep
  BY <1>3, BackgroundFail
<1>4. CASE OpenFails \/ (Closing /\ ~scheduled) \/ \E kind \in Crashes : Crash(kind)
  <2>1. Reset
    BY <1>4 DEF OpenFails, Closing, Crash
  <2> QED BY <2>1, ResetFail
<1>5. CASE Open \/ (OpenStep /\ ~OpenFails)
  <2>1. UNCHANGED <<pc, ret, status>> /\ up \notin Opened
    BY <1>5 DEF Open, OpenStep, NewDB, SetCurrentFile, Recover, RecoverLogFile, OpenLog, OpenManifest, OpenCurrent, openRest, Opened
  <2> QED BY <2>1 DEF FailInv, Failed
<1> QED BY <1>1, <1>2, <1>3, <1>4, <1>5 DEF Next

-----------------------------------------------------------------------------
(***************************************************************************)
(* What a log and the tables have.                                         *)
(***************************************************************************)
LEMMA RecsMore ==
  ASSUME NEW recs, NEW k \in Nat, NEW n \in Nat, k <= n, NEW w, InRecs(recs, k, w)
  PROVE  InRecs(recs, n, w)
  BY DEF InRecs

LEMMA RecsPrefix ==
  ASSUME NEW r, NEW q, NEW k \in Nat, \A i \in 1 .. k : q[i] = r[i], NEW w, InRecs(r, k, w)
  PROVE  InRecs(q, k, w)
<1>1. PICK i \in 1 .. k : w \in r[i] /\ \A j \in 1 .. i : r[j] # TornRecord
  BY DEF InRecs
<1>2. \A j \in 1 .. i : j \in 1 .. k
  OBVIOUS
<1> QED BY <1>1, <1>2 DEF InRecs

LEMMA InLogIs ==
  ASSUME NEW recs \in Seq(SUBSET Batches), NEW w
  PROVE  w \in InLog(recs) <=> InRecs(recs, Len(recs), w)
<1>1. DOMAIN recs = 1 .. Len(recs)
  BY LenProperties
<1> QED BY <1>1 DEF InLog, InRecs

\* A record more: what is in it is found, or it is behind a torn one.
LEMMA RecsAppend ==
  ASSUME NEW recs \in Seq(SUBSET Batches), NEW r \in SUBSET Batches
  PROVE  LET q == Append(recs, r)
         IN  /\ q \in Seq(SUBSET Batches) /\ Len(recs) \in Nat /\ Len(q) = Len(recs) + 1
             /\ \A k \in Nat : k <= Len(recs) => \A w : InRecs(recs, k, w) => InRecs(q, k, w)
             /\ \A w : InRecs(recs, Len(recs), w) => InRecs(q, Len(q), w)
             /\ \A w \in r : InRecs(q, Len(q), w) \/ w \in BehindTorn(q)
<1> DEFINE q == Append(recs, r)
<1>1. /\ q \in Seq(SUBSET Batches) /\ Len(recs) \in Nat /\ Len(q) = Len(recs) + 1
      /\ q[Len(q)] = r /\ \A i \in 1 .. Len(recs) : q[i] = recs[i]
  BY AppendProperties, LenProperties
<1> HIDE DEF q
<1>2. ASSUME NEW k \in Nat, k <= Len(recs), NEW w, InRecs(recs, k, w)
      PROVE  InRecs(q, k, w)
  <2>1. \A i \in 1 .. k : q[i] = recs[i]
    BY <1>1, <1>2
  <2> QED BY <1>2, <2>1, RecsPrefix
<1>3. ASSUME NEW w, InRecs(recs, Len(recs), w)
      PROVE  InRecs(q, Len(q), w)
  <2>1. InRecs(q, Len(recs), w)
    BY <1>1, <1>2, <1>3
  <2> QED BY <1>1, <2>1, RecsMore
<1>4. ASSUME NEW w \in r
      PROVE  InRecs(q, Len(q), w) \/ w \in BehindTorn(q)
  <2>1. DOMAIN q = 1 .. Len(q) /\ Len(q) \in 1 .. Len(q)
    BY <1>1, LenProperties
  <2>2. w \in UNION {q[i] : i \in DOMAIN q}
    BY <1>1, <2>1
  <2> QED BY <1>1, <2>2, InLogIs DEF BehindTorn
<1>5. /\ q \in Seq(SUBSET Batches) /\ Len(recs) \in Nat /\ Len(q) = Len(recs) + 1
      /\ \A k \in Nat : k <= Len(recs) => \A w : InRecs(recs, k, w) => InRecs(q, k, w)
      /\ \A w : InRecs(recs, Len(recs), w) => InRecs(q, Len(q), w)
      /\ \A w \in r : InRecs(q, Len(q), w) \/ w \in BehindTorn(q)
  BY <1>1, <1>2, <1>3, <1>4
<1> QED BY <1>5 DEF q

\* One log is at least as good as another.
Covers(g, f) == \A kind \in Kinds : \A w : InRecs(f.recs, Reach(kind, f), w) => InRecs(g.recs, Reach(kind, g), w)

LEMMA LogsMore ==
  ASSUME NEW logs, NEW more, NEW kind \in Kinds, NEW n, NEW w, InLogs(kind, logs, n, w),
         \A m \in DOMAIN logs : m >= n => m \in DOMAIN more /\ Covers(more[m], logs[m])
  PROVE  InLogs(kind, more, n, w)
  BY DEF InLogs, Covers

LEMMA LogsOlder ==
  ASSUME NEW logs, NEW kind, NEW n \in Nat, NEW m \in Nat, m <= n, NEW w, InLogs(kind, logs, n, w),
         DOMAIN logs \subseteq Nat
  PROVE  InLogs(kind, logs, m, w)
  BY DEF InLogs

\* A log with a record more, as AddRecord or a crash inside of it leaves it.
LEMMA LogAppended ==
  ASSUME NEW f \in Records(SUBSET Batches), NEW r \in SUBSET Batches, NEW g, g.recs = Append(f.recs, r), g.synced = f.synced
  PROVE  Covers(g, f)
<1>1. f.recs \in Seq(SUBSET Batches) /\ f.synced \in Nat /\ f.synced <= Len(f.recs)
  BY DEF Records
<1>2. /\ \A k \in Nat : k <= Len(f.recs) => \A w : InRecs(f.recs, k, w) => InRecs(g.recs, k, w)
      /\ \A w : InRecs(f.recs, Len(f.recs), w) => InRecs(g.recs, Len(g.recs), w)
  BY <1>1, RecsAppend
<1> QED BY <1>1, <1>2 DEF Covers, Reach, Kinds

LEMMA LogSynced ==
  ASSUME NEW f \in Records(SUBSET Batches), NEW g, g.recs = f.recs, g.synced = Len(f.recs)
  PROVE  Covers(g, f) /\ \A kind \in Kinds : Reach(kind, g) = Len(f.recs)
<1>1. f.recs \in Seq(SUBSET Batches) /\ f.synced \in Nat /\ f.synced <= Len(f.recs) /\ Len(f.recs) \in Nat
  BY LenProperties DEF Records
<1>2. \A kind \in Kinds : Reach(kind, g) = Len(f.recs) /\ Reach(kind, f) \in Nat /\ Reach(kind, f) <= Len(f.recs)
  BY <1>1 DEF Reach, Kinds
<1> QED BY <1>1, <1>2, RecsMore DEF Covers

\* The tables are there with what they had.
Same(files, more, tables) ==
  \A x \in tables : x[2] \in DOMAIN files => x[2] \in DOMAIN more /\ files[x[2]] \subseteq more[x[2]]

LEMMA TablesMore ==
  ASSUME NEW files, NEW more, NEW tables, NEW w, InTables(files, tables, w), Same(files, more, tables)
  PROVE  InTables(more, tables, w)
  BY DEF InTables, Same

-----------------------------------------------------------------------------
(***************************************************************************)
(* The writers keep what was promised.                                     *)
(***************************************************************************)
\* Only a leader that has found room goes to the log.
LEMMA QuietStays ==
  ASSUME BaseInv, NEW w \in Writer,
         \/ Enter(w) \/ Woken(w) \/ RoomError(w) \/ RoomDelay(w) \/ Slept(w) \/ RoomWait(w)
         \/ SwitchFails(w) \/ Flush(w),
         NEW v \in Writer, pc'[v] \in {"log", "sync"}
  PROVE  pc'[v] = pc[v]
<1>1. WriterInv /\ pc \in [Writer -> Places]
  BY DEF BaseInv, WriterInv, WritersSound
<1>2. CASE RoomError(w) \/ SwitchFails(w)
  <2>1. pc[w] = "room" /\ Finish(1, "error", pc)
    BY <1>2 DEF RoomError, SwitchFails
  <2>2. pc[w] \in Leading /\ 1 \in 1 .. Len(queue)
    BY <1>1, <2>1, LeaderFacts DEF Leading
  <2>3. ~Busy(pc')
    BY <1>1, <2>1, <2>2, FinishLeaves
  <2> QED BY <2>3 DEF Busy
<1>3. CASE ~(RoomError(w) \/ SwitchFails(w))
  <2>1. PICK place \in {"room", "wait", "flush", "done", "sleep", "bgwait", "flushwait"} : pc' = [pc EXCEPT ![w] = place]
    BY <1>3, ReturnedPlace DEF Enter, Woken, RoomDelay, Slept, RoomWait, Flush
  <2> QED BY <1>1, <2>1
<1> QED BY <1>2, <1>3

\* The part of the invariant that nobody but the thread in the background can disturb.
LEMMA WriterVersion ==
  ASSUME BaseInv, FailInv, NumberInv, KeepInv, up \in Opened, NEW w \in Writer, Enter(w) \/ WriterStep(w),
         excused \subseteq excused', logfile' \in Nat,
         \A v \in Batches : Held(v) => Held(v)',
         \A kind \in Kinds : \A m \in imm' : \A v \in m : Promised(kind, v)' =>
           \A k \in 1 .. Len(Current(disk).recs) : Point(Current(disk), k) => Found(kind, disk', Current(disk), k, v),
         logfile <= logfile'
  PROVE  VersionKept'
<1>1. WriterFrame
  BY WriterStepFrame DEF BaseInv
<1>2. disk'.tables = disk.tables /\ Current(disk') = Current(disk) /\ vs'.tables = vs.tables /\ vs'.log = vs.log
  BY <1>1 DEF WriterFrame, SameTables, SameVersion, Current
<1>3. VersionKept
  BY DEF KeepInv
<1>4. \A v \in Due' : Held(v)' \/ InTables(disk'.tables, vs'.tables, v)
  <2> SUFFICES ASSUME NEW v \in Due'
               PROVE  Held(v)' \/ InTables(disk'.tables, vs'.tables, v)
    OBVIOUS
  <2>1. v \in Batches /\ Succeeded(v)' /\ v \notin excused
    BY DEF Due
  <2>2. Succeeded(v) \/ v \in mem'
    BY <2>1, WriterResults
  <2>3. CASE v \in mem'
    BY <2>3 DEF Held
  <2>4. CASE Succeeded(v)
    <3>1. v \in Due
      BY <2>1, <2>4 DEF Due
    <3> QED BY <1>2, <1>3, <2>1, <3>1 DEF VersionKept
  <2> QED BY <2>2, <2>3, <2>4
<1>5. ASSUME NEW k \in 1 .. Len(Current(disk).recs), Point(Current(disk), k)
      PROVE  PointKept(k)'
  <2>1. PointKept(k)
    BY <1>3, <1>5 DEF VersionKept
  <2>2. vs.log <= Current(disk).recs[k].log /\ Current(disk).recs[k].log <= logfile
    BY <2>1 DEF PointKept
  <2>3. Current(disk).recs[k].log \in Nat /\ logfile \in Nat
    <3>1. Current(disk) \in Records(EditRecords)
      BY OpenCurrentThere DEF IsSound, IsDisk, IsFiles, Current
    <3>2. Current(disk).recs[k] \in EditRecords
      BY <3>1, ElementOfSeq DEF Records
    <3> QED BY <3>2 DEF EditRecords, BaseInv, TypesInv, MemTypes
  <2>4. Current(disk).recs[k].log <= logfile'
    BY <2>2, <2>3
  <2>5. \A v \in Batches : InTables(disk.tables, vs.tables, v) => InTables(disk.tables, TablesOf(Current(disk).recs, k), v)
    BY <2>1 DEF PointKept
  <2>6. \A kind \in Kinds : \A m \in imm' : \A v \in m : Promised(kind, v)' => Found(kind, disk', Current(disk), k, v)
    BY <1>5
  <2> QED BY <1>2, <2>2, <2>4, <2>5, <2>6 DEF PointKept
<1> QED BY <1>2, <1>3, <1>4, <1>5 DEF VersionKept

\* A log that covers what it had keeps it all.
LEMMA CoveredVersion ==
  ASSUME BaseInv, FailInv, NumberInv, KeepInv, up \in Opened, NEW w \in Writer, Enter(w) \/ WriterStep(w),
         excused \subseteq excused', logfile' = logfile, imm' = imm, mem \subseteq mem',
         \A m \in DOMAIN disk.logs : m \in DOMAIN disk'.logs /\ Covers(disk'.logs[m], disk.logs[m])
  PROVE  VersionKept' /\ EditKept'
<1>1. WriterFrame
  BY WriterStepFrame DEF BaseInv
<1>2. /\ disk'.tables = disk.tables /\ Current(disk') = Current(disk) /\ vs'.tables = vs.tables /\ vs'.log = vs.log
      /\ bg' = bg /\ logfile' \in Nat /\ logfile <= logfile'
  BY <1>1 DEF WriterFrame, SameTables, SameVersion, Current, callerVars, BaseInv, TypesInv, MemTypes
<1>3. VersionKept /\ EditKept
  BY DEF KeepInv
<1>4. \A v \in Batches : Held(v) => Held(v)'
  BY DEF Held
<1>5. ASSUME NEW kind \in Kinds, NEW m \in imm', NEW v \in m, Promised(kind, v)',
             NEW k \in 1 .. Len(Current(disk).recs), Point(Current(disk), k)
      PROVE  Found(kind, disk', Current(disk), k, v)
  <2>1. Promised(kind, v) /\ PointKept(k)
    BY <1>3, <1>5 DEF Promised, VersionKept
  <2>2. Found(kind, disk, Current(disk), k, v)
    BY <2>1 DEF PointKept
  <2> QED BY <1>2, <2>2, LogsMore DEF Found
<1>6. VersionKept'
  BY <1>2, <1>4, <1>5, WriterVersion
<1>7. EditKept'
  BY <1>2, <1>3 DEF EditKept
<1> QED BY <1>6, <1>7

\* The log in use, before and after a record is appended or synced.
LEMMA LoggedCovers ==
  ASSUME IsDisk(disk), NEW r \in SUBSET Batches
  PROVE  /\ DOMAIN Logged(r).logs = DOMAIN disk.logs
         /\ \A m \in DOMAIN disk.logs : Covers(Logged(r).logs[m], disk.logs[m])
         /\ logfile \in DOMAIN disk.logs =>
              /\ Logged(r).logs[logfile].recs = Append(disk.logs[logfile].recs, r)
              /\ \A v \in r : \/ InRecs(Logged(r).logs[logfile].recs, Len(Logged(r).logs[logfile].recs), v)
                              \/ v \in BehindTorn(Logged(r).logs[logfile].recs)
<1> DEFINE e == Logged(r)
<1>1. /\ DOMAIN e.logs = DOMAIN disk.logs
      /\ \A n \in DOMAIN disk.logs \ {logfile} : e.logs[n] = disk.logs[n]
      /\ logfile \in DOMAIN disk.logs => e.logs[logfile] = [disk.logs[logfile] EXCEPT !.recs = Append(@, r)]
  BY LoggedDisk
<1> HIDE DEF e
<1>2. ASSUME logfile \in DOMAIN disk.logs
      PROVE  /\ e.logs[logfile].recs = Append(disk.logs[logfile].recs, r)
             /\ e.logs[logfile].synced = disk.logs[logfile].synced
             /\ disk.logs[logfile] \in Records(SUBSET Batches) /\ disk.logs[logfile].recs \in Seq(SUBSET Batches)
  <2>1. disk.logs[logfile] \in Records(SUBSET Batches)
    BY <1>2 DEF IsDisk, IsFiles
  <2>2. disk.logs[logfile] \in [recs : Seq(SUBSET Batches), synced : Nat]
    BY <2>1 DEF Records
  <2> QED BY <1>1, <1>2, <2>1, <2>2
<1>3. \A m \in DOMAIN disk.logs : Covers(e.logs[m], disk.logs[m])
  <2> SUFFICES ASSUME NEW m \in DOMAIN disk.logs
               PROVE  Covers(e.logs[m], disk.logs[m])
    OBVIOUS
  <2>1. CASE m = logfile
    BY <1>2, <2>1, LogAppended
  <2>2. CASE m # logfile
    BY <1>1, <2>2 DEF Covers
  <2> QED BY <2>1, <2>2
<1>4. ASSUME logfile \in DOMAIN disk.logs, NEW v \in r
      PROVE  InRecs(e.logs[logfile].recs, Len(e.logs[logfile].recs), v) \/ v \in BehindTorn(e.logs[logfile].recs)
  BY <1>2, <1>4, RecsAppend
<1>5. /\ DOMAIN e.logs = DOMAIN disk.logs
      /\ \A m \in DOMAIN disk.logs : Covers(e.logs[m], disk.logs[m])
      /\ logfile \in DOMAIN disk.logs =>
           /\ e.logs[logfile].recs = Append(disk.logs[logfile].recs, r)
           /\ \A v \in r : \/ InRecs(e.logs[logfile].recs, Len(e.logs[logfile].recs), v)
                           \/ v \in BehindTorn(e.logs[logfile].recs)
  BY <1>1, <1>2, <1>3, <1>4
<1> QED BY <1>5 DEF e

LEMMA SyncedCovers ==
  ASSUME IsDisk(disk), NEW e, e = [disk EXCEPT !.logs[logfile].synced = Len(disk.logs[logfile].recs)]
  PROVE  /\ DOMAIN e.logs = DOMAIN disk.logs
         /\ \A m \in DOMAIN disk.logs : Covers(e.logs[m], disk.logs[m])
         /\ logfile \in DOMAIN disk.logs =>
              /\ e.logs[logfile].recs = disk.logs[logfile].recs
              /\ \A kind \in Kinds : Reach(kind, e.logs[logfile]) = Len(disk.logs[logfile].recs)
<1> DEFINE f == [disk.logs[logfile] EXCEPT !.synced = Len(disk.logs[logfile].recs)]
           l == [disk.logs EXCEPT ![logfile] = f]
<1>1. e = [disk EXCEPT !.logs = l]
  OBVIOUS
<1>2. IsFiles(disk.logs, Records(SUBSET Batches)) /\ e.logs = l
  BY <1>1 DEF IsDisk
<1>3. DOMAIN l = DOMAIN disk.logs /\ \A n \in DOMAIN disk.logs : l[n] = IF n = logfile THEN f ELSE disk.logs[n]
  BY <1>2 DEF IsFiles, Filenames
<1>4. ASSUME logfile \in DOMAIN disk.logs
      PROVE  /\ f.recs = disk.logs[logfile].recs /\ f.synced = Len(disk.logs[logfile].recs)
             /\ disk.logs[logfile] \in Records(SUBSET Batches)
  BY <1>2, <1>4 DEF IsFiles, Records
<1> HIDE DEF f, l
<1>5. \A m \in DOMAIN disk.logs : Covers(e.logs[m], disk.logs[m])
  <2> SUFFICES ASSUME NEW m \in DOMAIN disk.logs
               PROVE  Covers(e.logs[m], disk.logs[m])
    OBVIOUS
  <2>1. CASE m = logfile
    BY <1>2, <1>3, <1>4, <2>1, LogSynced
  <2>2. CASE m # logfile
    BY <1>2, <1>3, <2>2 DEF Covers
  <2> QED BY <2>1, <2>2
<1>6. logfile \in DOMAIN disk.logs => \A kind \in Kinds : Reach(kind, f) = Len(disk.logs[logfile].recs)
  BY <1>4, LogSynced
<1> QED BY <1>2, <1>3, <1>4, <1>5, <1>6

\* Steps that leave the files and the memtables alone.
LEMMA StillLog ==
  ASSUME BaseInv, KeepInv, up \in Opened, UNCHANGED <<mem, logfile, disk, excused>>, vs' = vs,
         InSync(pc') => InSync(pc) /\ Group' = Group,
         \A v \in Writer : pc'[v] \in {"log", "sync"} /\ v \notin Sync => Group' \cap Sync = {}
  PROVE  LogKept'
<1>1. LogKept
  BY DEF KeepInv
<1> QED BY <1>1 DEF LogKept, Promised

LEMMA QuietLog ==
  ASSUME BaseInv, StampInv, KeepInv, up \in Opened, NEW w \in Writer,
         \/ Enter(w) \/ Woken(w) \/ RoomError(w) \/ RoomDelay(w) \/ Slept(w) \/ RoomWait(w)
         \/ SwitchFails(w) \/ Flush(w)
  PROVE  LogKept' /\ UNCHANGED <<mem, imm, logfile, disk, excused>>
<1>1. UNCHANGED <<mem, imm, logfile, disk, excused>> /\ vs' = vs
  BY DEF Enter, Woken, RoomError, RoomDelay, Slept, RoomWait, SwitchFails, Flush, memVars
<1>2. Undisturbed
  BY QuietUndisturbed
<1>3. \A v \in Writer : pc'[v] \in {"log", "sync"} => pc'[v] = pc[v]
  BY QuietStays
<1>4. InSync(pc') => InSync(pc) /\ Group' = Group
  BY <1>2, <1>3 DEF Undisturbed, InSync
<1>5. \A v \in Writer : pc'[v] \in {"log", "sync"} => Group' = Group /\ pc'[v] = pc[v]
  BY <1>2, <1>3 DEF Undisturbed, Busy
<1>6. \A v \in Writer : pc'[v] \in {"log", "sync"} /\ v \notin Sync => Group' \cap Sync = {}
  BY <1>5 DEF KeepInv, LogKept
<1> QED BY <1>1, <1>4, <1>6, StillLog

\* A group with a synchronous write has a leader that syncs.
LEMMA ProceedGroup ==
  ASSUME BaseInv, NEW w \in Writer, pc[w] = "room", Proceed
  PROVE  /\ ~InSync(pc')
         /\ \A v \in Writer : pc'[v] \in {"log", "sync"} /\ v \notin Sync => Group' \cap Sync = {}
<1>1. WriterInv /\ pc \in [Writer -> Places]
  BY DEF BaseInv, WriterInv, WritersSound
<1>2. w = Leader /\ queue # <<>> /\ 1 \in 1 .. Len(queue) /\ ~Busy(pc) /\ ~InSync(pc) /\ pc[w] \in Leading
  BY <1>1, LeaderFacts, LeaderAlone DEF Leading
<1>3. CASE ~IsBatch(Leader)
  <2>1. Finish(1, "ok", pc)
    BY <1>3 DEF Proceed
  <2>2. ~Busy(pc')
    BY <1>1, <1>2, <2>1, FinishLeaves
  <2> QED BY <2>2 DEF Busy, InSync
<1>4. CASE IsBatch(Leader)
  <2> DEFINE n == BuildBatchGroup(queue)
  <2>1. pc' = [pc EXCEPT ![w] = "log"] /\ lead' = [lead EXCEPT !.group = n] /\ queue' = queue
    BY <1>2, <1>4 DEF Proceed
  <2>2. n \in 1 .. Len(queue) /\ \A i \in 2 .. n : queue[i] \in Sync => queue[1] \in Sync
    BY <1>1, <1>2, LeadType, GroupChosen
  <2> HIDE DEF n
  <2>3. lead'.group = n
    BY <1>1, <2>1, LeadType
  <2>4. \A v \in Writer : pc'[v] \in {"log", "sync"} => v = w /\ pc'[v] = "log"
    BY <1>1, <1>2, <2>1 DEF Busy
  <2>5. ASSUME w \notin Sync, NEW u \in Group', u \in Sync
        PROVE  FALSE
    <3>1. PICK i \in 1 .. n : queue[i] = u
      BY <2>1, <2>3, <2>5 DEF Group
    <3>2. i = 1 \/ i \in 2 .. n
      BY <1>1, <2>2, <3>1, LeadType
    <3> QED BY <1>2, <2>2, <2>5, <3>1, <3>2 DEF Leader
  <2> QED BY <2>4, <2>5 DEF InSync
<1> QED BY <1>3, <1>4


\* The steps of a leader with its group: the log that is in use has what goes
\* to the memtable.
LEMMA GroupEnds ==
  ASSUME BaseInv, NEW w \in Writer, pc[w] \in {"log", "sync"}, NEW s, NEW p \in {pc, SignalAll(pc)}, EndGroup(s, p)
  PROVE  /\ ~Busy(pc') /\ mem' = (IF s = "ok" THEN mem \union Group ELSE mem)
         /\ vs'.next = vs.next /\ vs'.log = vs.log
<1>1. WriterInv /\ IsVersionSet(vs)
  BY DEF BaseInv, TypesInv
<1>2. pc[w] \in Leading /\ lead.group \in 1 .. Len(queue)
  BY <1>1, LeadType DEF Leading, WriterInv, WritersSound
<1>3. Finish(lead.group, s, p) /\ mem' = (IF s = "ok" THEN mem \union Group ELSE mem) /\ vs' = [vs EXCEPT !.last = @ + Cardinality(Group)]
  BY DEF EndGroup
<1>4. ~Busy(pc')
  BY <1>1, <1>2, <1>3, FinishLeaves
<1> QED BY <1>1, <1>3, <1>4 DEF IsVersionSet

LEMMA CoversItself == \A f : Covers(f, f)
  BY DEF Covers

\* What LogKept says of the log and the memtable, when the log covers the old one.
LEMMA CoveredLog ==
  ASSUME LogKept, UNCHANGED logfile, DOMAIN disk'.logs = DOMAIN disk.logs,
         \A m \in DOMAIN disk.logs : Covers(disk'.logs[m], disk.logs[m]),
         vs'.next = vs.next, vs'.log = vs.log, excused \subseteq excused',
         \A kind \in Kinds : \A v \in mem' \ mem : Promised(kind, v)' =>
           InRecs(disk'.logs[logfile].recs, Reach(kind, disk'.logs[logfile]), v)
  PROVE  /\ logfile' \in DOMAIN disk'.logs /\ logfile' < vs'.next /\ vs'.log <= logfile'
         /\ \A kind \in Kinds : \A v \in mem' : Promised(kind, v)' =>
              InRecs(disk'.logs[logfile'].recs, Reach(kind, disk'.logs[logfile']), v)
<1>1. ASSUME NEW kind \in Kinds, NEW v \in mem, Promised(kind, v)'
      PROVE  InRecs(disk'.logs[logfile].recs, Reach(kind, disk'.logs[logfile]), v)
  <2>1. Promised(kind, v)
    BY <1>1 DEF Promised
  <2>2. InRecs(disk.logs[logfile].recs, Reach(kind, disk.logs[logfile]), v)
    BY <1>1, <2>1 DEF LogKept
  <2> QED BY <1>1, <2>2 DEF LogKept, Covers
<1> QED BY <1>1 DEF LogKept

LEMMA NotBusyLog ==
  ASSUME ~Busy(pc')
  PROVE  /\ ~InSync(pc')
         /\ \A v \in Writer : pc'[v] \in {"log", "sync"} /\ v \notin Sync => Group' \cap Sync = {}
  BY DEF Busy, InSync

GroupKept == /\ LogKept' /\ UNCHANGED <<logfile, imm>> /\ excused \subseteq excused' /\ mem \subseteq mem'
             /\ DOMAIN disk'.logs = DOMAIN disk.logs
             /\ \A m \in DOMAIN disk.logs : Covers(disk'.logs[m], disk.logs[m])

LEMMA AddRecordLog ==
  ASSUME BaseInv, KeepInv, up \in Opened, NEW w \in Writer, AddRecord(w)
  PROVE  GroupKept
<1>1. LogKept /\ WriterInv /\ IsDisk(disk) /\ Group \in SUBSET Batches /\ pc \in [Writer -> Places]
  BY GroupBatches DEF KeepInv, BaseInv, TypesInv, WriterInv, WritersSound
<1>2. pc[w] = "log" /\ disk' = Logged(Group) /\ UNCHANGED <<logfile, imm>>
  BY DEF AddRecord
<1>3. excused' = excused \union BehindTorn(disk'.logs[logfile].recs)
  BY DEF AddRecord
<1>4. /\ DOMAIN disk'.logs = DOMAIN disk.logs
      /\ \A m \in DOMAIN disk.logs : Covers(disk'.logs[m], disk.logs[m])
      /\ \A v \in Group : InRecs(disk'.logs[logfile].recs, Len(disk'.logs[logfile].recs), v) \/ v \in excused'
  <2>1. logfile \in DOMAIN disk.logs
    BY <1>1 DEF LogKept
  <2>2. \A v \in Group : InRecs(disk'.logs[logfile].recs, Len(disk'.logs[logfile].recs), v) \/ v \in BehindTorn(disk'.logs[logfile].recs)
    BY <1>1, <1>2, <2>1, LoggedCovers
  <2> QED BY <1>1, <1>2, <1>3, <2>2, LoggedCovers
<1>5. \A v \in Writer : pc[v] \in {"log", "sync"} => v = w
  <2>1. pc[w] \in Leading
    BY <1>2 DEF Leading
  <2> QED BY <1>1, <2>1, LeaderFacts DEF Leading
<1>6. CASE w \in Sync
  <2>1. pc' = [pc EXCEPT ![w] = "sync"] /\ UNCHANGED <<queue, lead, mem, vs>>
    BY <1>6 DEF AddRecord
  <2>2. Group' = Group
    BY <2>1 DEF Group
  <2>3. /\ logfile' \in DOMAIN disk'.logs /\ logfile' < vs'.next /\ vs'.log <= logfile'
        /\ \A kind \in Kinds : \A v \in mem' : Promised(kind, v)' =>
             InRecs(disk'.logs[logfile'].recs, Reach(kind, disk'.logs[logfile']), v)
    BY <1>1, <1>2, <1>3, <1>4, <2>1, CoveredLog
  <2>4. \A v \in Writer : pc'[v] \in {"log", "sync"} => v = w
    BY <1>1, <1>5, <2>1
  <2> QED BY <1>2, <1>3, <1>4, <1>6, <2>1, <2>2, <2>3, <2>4 DEF GroupKept, LogKept
<1>7. CASE w \notin Sync
  <2>1. EndGroup("ok", pc)
    BY <1>7 DEF AddRecord
  <2>2. ~Busy(pc') /\ mem' = mem \union Group /\ vs'.next = vs.next /\ vs'.log = vs.log
    BY <1>2, <2>1, GroupEnds
  <2>3. Group \cap Sync = {}
    BY <1>1, <1>2, <1>7 DEF LogKept
  <2>4. \A kind \in Kinds : \A v \in mem' \ mem : Promised(kind, v)' =>
          InRecs(disk'.logs[logfile].recs, Reach(kind, disk'.logs[logfile]), v)
    <3> SUFFICES ASSUME NEW kind \in Kinds, NEW v \in Group, Promised(kind, v)'
                 PROVE  InRecs(disk'.logs[logfile].recs, Reach(kind, disk'.logs[logfile]), v)
      BY <2>2
    <3>1. kind = "process" /\ v \notin excused'
      BY <2>3 DEF Promised, Kinds
    <3> QED BY <1>4, <3>1 DEF Reach
  <2>5. /\ logfile' \in DOMAIN disk'.logs /\ logfile' < vs'.next /\ vs'.log <= logfile'
        /\ \A kind \in Kinds : \A v \in mem' : Promised(kind, v)' =>
             InRecs(disk'.logs[logfile'].recs, Reach(kind, disk'.logs[logfile']), v)
    BY <1>1, <1>2, <1>3, <1>4, <2>2, <2>4, CoveredLog
  <2> QED BY <1>2, <1>3, <1>4, <2>2, <2>5, NotBusyLog DEF GroupKept, LogKept
<1> QED BY <1>6, <1>7

LEMMA GroupLog ==
  ASSUME BaseInv, KeepInv, up \in Opened, NEW w \in Writer,
         AddRecord(w) \/ AddRecordFails(w) \/ SyncLog(w) \/ SyncFails(w)
  PROVE  GroupKept
<1>1. LogKept /\ WriterInv /\ IsDisk(disk)
  BY DEF KeepInv, BaseInv, TypesInv
<1>2. CASE AddRecord(w)
  BY <1>2, AddRecordLog
<1>3. CASE AddRecordFails(w) \/ SyncFails(w)
  <2>1. /\ pc[w] \in {"log", "sync"} /\ disk' \in {disk, Logged(TornRecord), Logged(Group)}
        /\ UNCHANGED <<logfile, imm, excused>>
        /\ \E p \in {pc, SignalAll(pc)} : EndGroup("error", p)
    BY <1>3 DEF AddRecordFails, SyncFails
  <2>2. ~Busy(pc') /\ mem' = mem /\ vs'.next = vs.next /\ vs'.log = vs.log
    BY <2>1, GroupEnds
  <2>3. DOMAIN disk'.logs = DOMAIN disk.logs /\ \A m \in DOMAIN disk.logs : Covers(disk'.logs[m], disk.logs[m])
    <3>1. TornRecord \in SUBSET Batches /\ Group \in SUBSET Batches
      BY GroupBatches DEF TornRecord, BaseInv, TypesInv, WriterInv, WritersSound
    <3> QED BY <1>1, <2>1, <3>1, CoversItself, LoggedCovers
  <2>4. /\ logfile' \in DOMAIN disk'.logs /\ logfile' < vs'.next /\ vs'.log <= logfile'
        /\ \A kind \in Kinds : \A v \in mem' : Promised(kind, v)' =>
             InRecs(disk'.logs[logfile'].recs, Reach(kind, disk'.logs[logfile']), v)
    BY <1>1, <2>1, <2>2, <2>3, CoveredLog
  <2> QED BY <2>1, <2>2, <2>3, <2>4, NotBusyLog DEF GroupKept, LogKept
<1>4. CASE SyncLog(w)
  <2>1. /\ pc[w] = "sync" /\ disk' = [disk EXCEPT !.logs[logfile].synced = Len(disk.logs[logfile].recs)]
        /\ UNCHANGED <<logfile, imm, excused>> /\ EndGroup("ok", pc)
    BY <1>4 DEF SyncLog
  <2>2. ~Busy(pc') /\ mem' = mem \union Group /\ vs'.next = vs.next /\ vs'.log = vs.log
    BY <2>1, GroupEnds
  <2>3. /\ DOMAIN disk'.logs = DOMAIN disk.logs /\ \A m \in DOMAIN disk.logs : Covers(disk'.logs[m], disk.logs[m])
        /\ logfile \in DOMAIN disk.logs =>
             /\ disk'.logs[logfile].recs = disk.logs[logfile].recs
             /\ \A kind \in Kinds : Reach(kind, disk'.logs[logfile]) = Len(disk.logs[logfile].recs)
    BY <1>1, <2>1, SyncedCovers
  <2>4. \A kind \in Kinds : \A v \in mem' \ mem : Promised(kind, v)' =>
          InRecs(disk'.logs[logfile].recs, Reach(kind, disk'.logs[logfile]), v)
    <3>1. \A v \in Group : v \notin excused => InRecs(disk.logs[logfile].recs, Len(disk.logs[logfile].recs), v)
      BY <1>1, <2>1 DEF LogKept, InSync
    <3> QED BY <1>1, <2>1, <2>2, <2>3, <3>1 DEF LogKept, Promised
  <2>5. /\ logfile' \in DOMAIN disk'.logs /\ logfile' < vs'.next /\ vs'.log <= logfile'
        /\ \A kind \in Kinds : \A v \in mem' : Promised(kind, v)' =>
             InRecs(disk'.logs[logfile'].recs, Reach(kind, disk'.logs[logfile']), v)
    BY <1>1, <2>1, <2>2, <2>3, <2>4, CoveredLog
  <2> QED BY <2>1, <2>2, <2>3, <2>5, NotBusyLog DEF GroupKept, LogKept
<1> QED BY <1>2, <1>3, <1>4

\* A new log; the batches of the full memtable stay in the old one.
LEMMA SwitchKept ==
  ASSUME BaseInv, FailInv, NumberInv, KeepInv, up \in Opened, NEW w \in Writer, SwitchMem(w)
  PROVE  LogKept' /\ VersionKept' /\ EditKept'
<1>1. LogKept /\ VersionKept /\ EditKept /\ OpenNumbers /\ IsDisk(disk) /\ IsVersionSet(vs) /\ logfile \in Nat
  BY DEF KeepInv, NumberInv, BaseInv, TypesInv, MemTypes
<1>2. /\ pc[w] = "room" /\ Proceed /\ imm = NoMem /\ logfile' = vs.next /\ vs' = [vs EXCEPT !.next = @ + 1]
      /\ disk' = WithLog(disk, vs.next) /\ imm' = {mem} /\ mem' = {} /\ excused' = excused
  BY DEF SwitchMem, MustSwitch, MustWait, WithLog
<1>3. vs.next \in Nat /\ vs'.next = vs.next + 1 /\ vs'.log = vs.log /\ vs.log \in Nat /\ vs'.tables = vs.tables
  BY <1>1, <1>2 DEF IsVersionSet
<1>4. /\ disk'.tables = disk.tables /\ Current(disk') = Current(disk)
      /\ DOMAIN disk'.logs = DOMAIN disk.logs \union {vs.next}
      /\ \A m \in DOMAIN disk.logs \ {vs.next} : disk'.logs[m] = disk.logs[m]
  BY <1>1, <1>2, <1>3, NewLogDisk DEF Current
<1>5. bg' = bg
  BY DEF SwitchMem, callerVars
<1>6. LogKept'
  <2>1. ~InSync(pc') /\ \A v \in Writer : pc'[v] \in {"log", "sync"} /\ v \notin Sync => Group' \cap Sync = {}
    BY <1>2, ProceedGroup
  <2>2. vs'.log <= logfile' /\ logfile' < vs'.next /\ logfile' \in DOMAIN disk'.logs
    BY <1>1, <1>2, <1>3, <1>4 DEF OpenNumbers
  <2> QED BY <1>2, <2>1, <2>2 DEF LogKept
<1>7. VersionKept'
  <2>1. \A v \in Batches : Held(v) => Held(v)'
    BY <1>2 DEF Held, NoMem
  <2>2. ASSUME NEW kind \in Kinds, NEW m \in imm', NEW v \in m, Promised(kind, v)',
               NEW k \in 1 .. Len(Current(disk).recs), Point(Current(disk), k)
        PROVE  Found(kind, disk', Current(disk), k, v)
    <3>1. Promised(kind, v) /\ v \in mem /\ PointKept(k)
      BY <1>1, <1>2, <2>2 DEF Promised, VersionKept
    <3>2. /\ logfile \in DOMAIN disk.logs /\ logfile # vs.next /\ Current(disk).recs[k].log <= logfile
          /\ InRecs(disk.logs[logfile].recs, Reach(kind, disk.logs[logfile]), v)
      BY <1>1, <1>3, <3>1 DEF LogKept, PointKept
    <3>3. Current(disk).recs[k].log \in Nat
      <4>1. Current(disk) \in Records(EditRecords)
        BY OpenCurrentThere DEF IsSound, IsDisk, IsFiles, Current
      <4>2. Current(disk).recs[k] \in EditRecords
        BY <2>2, <4>1, ElementOfSeq DEF Records
      <4> QED BY <4>2 DEF EditRecords
    <3>4. logfile >= Current(disk).recs[k].log
      BY <1>1, <3>2, <3>3
    <3>5. InLogs(kind, disk'.logs, Current(disk).recs[k].log, v)
      BY <1>4, <3>2, <3>4 DEF InLogs
    <3> QED BY <3>5 DEF Found
  <2>3. logfile' \in Nat /\ logfile <= logfile' /\ excused \subseteq excused'
    BY <1>1, <1>2, <1>3 DEF LogKept
  <2>4. WriterStep(w)
    BY DEF WriterStep
  <2> QED BY <2>1, <2>2, <2>3, <2>4, WriterVersion
<1>8. EditKept'
  <2>1. bg.pc \notin {"flush", "flushlog"}
    BY <1>1, <1>2 DEF EditKept
  <2> QED BY <1>1, <1>3, <1>4, <1>5, <2>1 DEF EditKept
<1> QED BY <1>6, <1>7, <1>8

\* Fewer batches are promised, and nothing else changes.
LEMMA LessKept ==
  ASSUME KeepInv, up \notin Opened, up' \notin Opened, up' \in Replaying => up' = up,
         UNCHANGED <<disk, rec, vs, logfile>>, Due' \subseteq Due
  PROVE  KeepInv'
<1>1. disk.current # 0 => Safe(disk, Current(disk))'
  <2> SUFFICES ASSUME disk.current # 0
               PROVE  Safe(disk, Current(disk))'
    OBVIOUS
  <2>1. Safe(disk, Current(disk))
    BY DEF KeepInv
  <2>2. Kept("process", Due', disk, Current(disk)) /\ Kept("power", Due' \cap Sync, disk, Current(disk))
    BY <2>1 DEF Safe, Kept
  <2> QED BY <2>2 DEF Safe
<1>2. up' \in Replaying => ReplayKept'
  BY DEF KeepInv, ReplayKept
<1> QED BY <1>1, <1>2 DEF KeepInv

LEMMA WriterKept ==
  ASSUME BaseInv, StampInv, FailInv, NumberInv, KeepInv, NEW w \in Writer, Enter(w) \/ WriterStep(w)
  PROVE  KeepInv'
<1>1. WriterFrame
  BY WriterStepFrame DEF BaseInv
<1>2. up' = up /\ rec' = rec /\ disk'.current = disk.current
  BY <1>1 DEF WriterFrame, callerVars, SameTables
<1>3. CASE up \in Opened
  <2>1. LogKept' /\ VersionKept' /\ EditKept'
    <3>1. CASE \/ Enter(w) \/ Woken(w) \/ RoomError(w) \/ RoomDelay(w) \/ Slept(w) \/ RoomWait(w)
               \/ SwitchFails(w) \/ Flush(w)
      <4>1. LogKept' /\ UNCHANGED <<mem, imm, logfile, disk, excused>>
        BY <1>3, <3>1, QuietLog
      <4> QED BY <1>3, <4>1, CoveredVersion, CoversItself
    <3>2. CASE RoomFound(w)
      <4>1. pc[w] = "room" /\ Proceed /\ UNCHANGED <<mem, imm, logfile, disk, excused>> /\ vs' = vs
        BY <3>2 DEF RoomFound, memVars
      <4>2. LogKept'
        BY <1>3, <4>1, ProceedGroup, StillLog
      <4> QED BY <1>3, <4>1, <4>2, CoveredVersion, CoversItself
    <3>3. CASE SwitchMem(w)
      BY <1>3, <3>3, SwitchKept
    <3>4. CASE AddRecord(w) \/ AddRecordFails(w) \/ SyncLog(w) \/ SyncFails(w)
      <4>1. GroupKept
        BY <1>3, <3>4, GroupLog
      <4> QED BY <1>3, <4>1, CoveredVersion DEF GroupKept
    <3> QED BY <3>1, <3>2, <3>3, <3>4 DEF WriterStep
  <2>2. disk'.current # 0
    BY <1>2, <1>3 DEF NumberInv, OpenNumbers
  <2> QED BY <1>2, <1>3, <2>1, <2>2 DEF KeepInv, Opened, Replaying
<1>4. CASE up \notin Opened
  <2>1. queue = <<>> /\ WriterInv
    BY <1>4, NotOpened DEF BaseInv
  <2>2. pc[w] \notin Leading
    BY <2>1 DEF WriterInv, WritersSound
  <2>3. Woken(w) \/ Flush(w)
    <3>1. ~Enter(w)
      BY <1>4 DEF Enter, Opened
    <3>2. pc[w] \notin {"room", "sleep", "log", "sync"}
      BY <2>2 DEF Leading
    <3> QED BY <3>1, <3>2 DEF WriterStep, RoomError, RoomDelay, Slept, RoomFound, RoomWait, SwitchMem, SwitchFails,
                              AddRecord, AddRecordFails, SyncLog, SyncFails
  <2>4. UNCHANGED <<disk, vs, logfile, excused>>
    BY <2>3 DEF Woken, Flush, memVars
  <2>5. ASSUME NEW v \in Due'
        PROVE  v \in Due
    <3>1. v \in Batches /\ Succeeded(v)' /\ v \notin excused
      BY <2>4, <2>5 DEF Due
    <3>2. v \notin Group
      BY <2>1, GroupQueued, EmptySeq DEF Queued
    <3> QED BY <3>1, <3>2, WriterResults DEF Due
  <2> QED BY <1>2, <1>4, <2>4, <2>5, LessKept
<1> QED BY <1>3, <1>4

-----------------------------------------------------------------------------
(***************************************************************************)
(* The background thread keeps what was promised.                          *)
(***************************************************************************)
LEMMA SignalledLog ==
  ASSUME BaseInv, KeepInv, BackgroundStep, logfile \in DOMAIN disk'.logs, disk'.logs[logfile] = disk.logs[logfile],
         vs'.log <= logfile
  PROVE  LogKept' /\ Due' = Due /\ \A kind, v : Promised(kind, v)' <=> Promised(kind, v)
<1>1. /\ WriterInv /\ up \in Opened /\ vs'.next >= vs.next /\ vs.next \in Nat /\ vs'.next \in Nat /\ logfile \in Nat
      /\ pc \in [Writer -> Places]
  BY BackgroundStays, BackgroundFrame DEF Versioned, BaseInv, TypesInv, IsVersionSet, MemTypes, WriterInv, WritersSound
<1>2. /\ ret' = ret /\ status' = status /\ queue' = queue /\ lead' = lead /\ mem' = mem /\ logfile' = logfile /\ excused' = excused
      /\ pc' \in {pc, SignalAll(pc)}
  BY BackgroundSignals
<1>3. LogKept
  BY <1>1 DEF KeepInv
<1>4. Group' = Group
  BY <1>2 DEF Group
<1>5. InSync(pc') <=> InSync(pc)
  BY <1>1, <1>2, SignalMoves
<1>6. \A v \in Writer : pc'[v] \in {"log", "sync"} => pc[v] \in {"log", "sync"}
  BY <1>1, <1>2 DEF SignalAll
<1>7. logfile < vs'.next
  BY <1>1, <1>3 DEF LogKept
<1>8. \A kind, v : Promised(kind, v)' <=> Promised(kind, v)
  BY <1>2 DEF Promised
<1>9. Due' = Due
  BY <1>2 DEF Due, Succeeded
<1>10. LogKept'
  BY <1>2, <1>3, <1>4, <1>5, <1>6, <1>7, <1>8 DEF LogKept
<1> QED BY <1>8, <1>9, <1>10

\* The manifest and the version stay; the tables they name have what they had.
LEMMA GrownVersion ==
  ASSUME BaseInv, KeepInv, BackgroundStep, disk'.logs = disk.logs, Current(disk') = Current(disk),
         vs'.tables = vs.tables, vs'.log = vs.log, imm' = imm,
         \A m : m \in DOMAIN disk.tables /\ ~NotTaken(Current(disk), m) => m \in DOMAIN disk'.tables /\ disk'.tables[m] = disk.tables[m],
         \A m \in DOMAIN disk'.tables : m \in DOMAIN disk.tables \/ NotTaken(Current(disk), m)
  PROVE  LogKept' /\ VersionKept'
<1>1. up \in Opened
  BY BackgroundStays
<1>2. LogKept /\ VersionKept
  BY <1>1 DEF KeepInv
<1>3. LogKept' /\ Due' = Due /\ \A kind, v : Promised(kind, v)' <=> Promised(kind, v)
  BY <1>2, SignalledLog DEF LogKept
<1>4. mem' = mem /\ logfile' = logfile
  BY BackgroundSignals
<1>5. ASSUME NEW tables, \A x \in tables : ~NotTaken(Current(disk), x[2]), NEW w
      PROVE  InTables(disk'.tables, tables, w) <=> InTables(disk.tables, tables, w)
  BY <1>5 DEF InTables
<1>6. \A w : InTables(disk'.tables, vs'.tables, w) <=> InTables(disk.tables, vs.tables, w)
  BY <1>2, <1>5 DEF VersionKept
<1>7. \A w \in Due' : Held(w)' \/ InTables(disk'.tables, vs'.tables, w)
  BY <1>2, <1>3, <1>4, <1>6 DEF VersionKept, Held
<1>8. ASSUME NEW k \in 1 .. Len(Current(disk).recs), Point(Current(disk), k)
      PROVE  PointKept(k)'
  <2>1. PointKept(k)
    BY <1>2, <1>8 DEF VersionKept
  <2>2. \A x \in TablesOf(Current(disk).recs, k) : ~NotTaken(Current(disk), x[2])
    <3> SUFFICES ASSUME NEW x \in TablesOf(Current(disk).recs, k)
                 PROVE  ~NotTaken(Current(disk), x[2])
      OBVIOUS
    <3>1. PICK i \in 1 .. k : x \in Current(disk).recs[i].add
      BY DEF TablesOf
    <3>2. i \in 1 .. Len(Current(disk).recs)
      BY <1>8, <3>1
    <3> QED BY <3>1, <3>2 DEF NotTaken
  <2>3. \A w : InTables(disk'.tables, TablesOf(Current(disk).recs, k), w) <=> InTables(disk.tables, TablesOf(Current(disk).recs, k), w)
    BY <1>5, <2>2
  <2>4. \A kind, w : Found(kind, disk', Current(disk), k, w) <=> Found(kind, disk, Current(disk), k, w)
    BY <2>3 DEF Found
  <2> QED BY <1>3, <1>4, <1>6, <2>1, <2>3, <2>4 DEF PointKept
<1> QED BY <1>2, <1>3, <1>7, <1>8 DEF VersionKept

\* Steps that leave the files alone.
LEMMA StillVersion ==
  ASSUME BaseInv, KeepInv, BackgroundStep,
         \/ CallIdle \/ CallFlush \/ CallMove \/ CallCompact \/ CompactImm \/ OpenCompactionOutputFile
         \/ FlushBuildFails \/ CompactStops
  PROVE  LogKept' /\ VersionKept' /\ EditKept'
<1>1. IsVersionSet(vs) /\ up \in Opened
  BY BackgroundStays DEF BaseInv, TypesInv
<1>2. disk' = disk /\ imm' = imm
  <2>1. CASE CompactStops
    BY <2>1, EndCompactKeeps DEF CompactStops
  <2> QED BY <2>1 DEF CallIdle, CallFlush, CallMove, CallCompact, CompactImm, OpenCompactionOutputFile, FlushBuildFails
<1>3. vs'.tables = vs.tables /\ vs'.log = vs.log
  BY <1>1 DEF CallIdle, CallFlush, CallMove, CallCompact, CompactImm, OpenCompactionOutputFile, FlushBuildFails, CompactStops,
              StartFlush, NewFileNumber, IsVersionSet
<1>4. LogKept' /\ VersionKept'
  BY <1>2, <1>3, GrownVersion
<1>5. EditKept'
  <2>1. CASE CallIdle \/ FlushBuildFails \/ CompactStops
    <3>1. bg'.pc \in {"idle", "compact"}
      BY <2>1, EndPlace DEF CallIdle, FlushBuildFails, CompactStops, EndCompact
    <3> QED BY <3>1 DEF EditKept
  <2>2. CASE CallFlush \/ CompactImm
    <3>1. bg'.pc = "flush" /\ imm # NoMem
      BY <2>2 DEF CallFlush, CompactImm, StartFlush, NoBg
    <3> QED BY <1>2, <3>1 DEF EditKept
  <2>3. CASE CallCompact \/ OpenCompactionOutputFile
    <3>1. bg'.pc = "compact"
      BY <2>3 DEF CallCompact, OpenCompactionOutputFile, NoBg
    <3> QED BY <3>1 DEF EditKept
  <2>4. CASE CallMove
    <3>1. PICK x \in vs.tables : bg' = [NoBg EXCEPT !.pc = "move", !.edit = Edit({<<1, x[2]>>}, {x}, vs)]
      BY <2>4 DEF CallMove
    <3>2. bg'.pc = "move" /\ bg'.edit.add = {<<1, x[2]>>} /\ bg'.edit.del = {x} /\ bg'.edit.log = vs.log
      BY <3>1 DEF NoBg, Edit
    <3>3. \A w : InTables(disk'.tables, {x}, w) => InTables(disk'.tables, {<<1, x[2]>>}, w)
      BY DEF InTables
    <3> QED BY <1>3, <3>2, <3>3 DEF EditKept
  <2> QED BY <2>1, <2>2, <2>3, <2>4
<1> QED BY <1>4, <1>5

\* A table with a number that the manifest has not taken.
LEMMA TabledVersion ==
  ASSUME BaseInv, KeepInv, BackgroundStep, NEW n \in Nat, NEW STATE b, disk' = Tabled(disk, n, b),
         NotTaken(Current(disk), n), UNCHANGED <<vs, imm>>
  PROVE  /\ LogKept' /\ VersionKept'
         /\ n \in DOMAIN disk'.tables /\ disk'.tables[n] = b
         /\ \A m \in DOMAIN disk.tables \ {n} : m \in DOMAIN disk'.tables /\ disk'.tables[m] = disk.tables[m]
         /\ \A m \in DOMAIN disk'.tables \ {n} : m \in DOMAIN disk.tables
<1>1. IsSound(disk)
  BY DEF BaseInv, ManifestInv
<1>2. /\ disk'.logs = disk.logs /\ Current(disk') = Current(disk)
      /\ DOMAIN disk'.tables = DOMAIN disk.tables \union {n} /\ disk'.tables[n] = b
      /\ \A m \in DOMAIN disk.tables \ {n} : disk'.tables[m] = disk.tables[m]
  BY <1>1, NewTableDisk DEF Current
<1>3. \A m : m \in DOMAIN disk.tables /\ ~NotTaken(Current(disk), m) => m \in DOMAIN disk'.tables /\ disk'.tables[m] = disk.tables[m]
  BY <1>2
<1>4. \A m \in DOMAIN disk'.tables : m \in DOMAIN disk.tables \/ NotTaken(Current(disk), m)
  BY <1>2
<1>5. LogKept' /\ VersionKept'
  BY <1>2, <1>3, <1>4, GrownVersion
<1> QED BY <1>2, <1>5

LEMMA BuiltVersion ==
  ASSUME BaseInv, NumberInv, KeepInv, BackgroundStep, FlushBuilt
  PROVE  LogKept' /\ VersionKept' /\ EditKept'
<1> DEFINE batches == UNION imm
           Added(level) == IF batches = {} THEN {} ELSE {<<level, bg.num>>}
<1>1. /\ up \in Opened /\ OpenNumbers /\ EditKept /\ IsBg(bg) /\ IsImm(imm) /\ IsVersionSet(vs)
  BY BackgroundStays DEF NumberInv, KeepInv, BaseInv, TypesInv, MemTypes, BgTypes
<1>2. /\ disk' = (IF batches = {} THEN disk ELSE [disk EXCEPT !.tables = Extend(@, bg.num, batches)])
      /\ UNCHANGED <<vs, imm>> /\ bg.pc = "flush" /\ logfile' = logfile
      /\ IF ShuttingDown THEN EndFlush
         ELSE \E level \in {0, 1} : bg' = [bg EXCEPT !.pc = "flushlog", !.edit = Edit(Added(level), {}, [vs EXCEPT !.log = logfile])]
  BY DEF FlushBuilt, bgRest
<1>3. bg.num \in Nat /\ NotTaken(Current(disk), bg.num) /\ imm # NoMem
  BY <1>1, <1>2 DEF IsBg, OpenNumbers, EditKept
<1>4. PICK m \in imm : imm = {m} /\ batches = m
  BY <1>1, <1>3 DEF IsImm
<1> HIDE DEF batches
<1>5. /\ LogKept' /\ VersionKept'
      /\ batches # {} => bg.num \in DOMAIN disk'.tables /\ disk'.tables[bg.num] = batches
  <2>1. CASE batches = {}
    <3>1. disk' = disk /\ vs' = vs /\ imm' = imm
      BY <1>2, <2>1
    <3> QED BY <2>1, <3>1, GrownVersion
  <2>2. CASE batches # {}
    <3>1. disk' = Tabled(disk, bg.num, batches)
      BY <1>2, <2>2 DEF Tabled
    <3> QED BY <1>2, <1>3, <3>1, TabledVersion DEF batches
  <2> QED BY <2>1, <2>2
<1>6. EditKept'
  <2>1. CASE ShuttingDown
    <3>1. bg'.pc \in {"idle", "compact"}
      BY <1>2, <2>1, EndPlace
    <3> QED BY <3>1 DEF EditKept
  <2>2. CASE ~ShuttingDown
    <3>1. PICK level \in {0, 1} : bg' = [bg EXCEPT !.pc = "flushlog", !.edit = Edit(Added(level), {}, [vs EXCEPT !.log = logfile])]
      BY <1>2, <2>2
    <3>2. bg'.pc = "flushlog" /\ bg'.edit = Edit(Added(level), {}, [vs EXCEPT !.log = logfile])
      BY <1>1, <3>1 DEF IsBg
    <3>3. bg'.edit.add = Added(level) /\ bg'.edit.del = {} /\ bg'.edit.log = logfile
      BY <1>1, <3>2 DEF Edit, IsVersionSet
    <3>4. ASSUME NEW w \in m
          PROVE  InTables(disk'.tables, bg'.edit.add, w)
      <4>1. batches # {} /\ w \in batches
        BY <1>4, <3>4
      <4>2. <<level, bg.num>> \in bg'.edit.add /\ <<level, bg.num>>[2] = bg.num
        BY <3>3, <4>1
      <4> QED BY <1>5, <4>1, <4>2 DEF InTables
    <3> QED BY <1>2, <1>3, <1>4, <3>2, <3>3, <3>4 DEF EditKept
  <2> QED BY <2>1, <2>2
<1> QED BY <1>5, <1>6

LEMMA OutputVersion ==
  ASSUME BaseInv, FilesInv, NumberInv, KeepInv, BackgroundStep, FinishCompactionOutputFile
  PROVE  LogKept' /\ VersionKept' /\ EditKept'
<1> DEFINE merged == UNION {disk.tables[m] : m \in Numbers(comp.inputs)}
<1>1. up \in Opened /\ OpenNumbers /\ IsComp(comp) /\ UNCHANGED <<vs, imm>> /\ OpenedInv
  BY BackgroundStays DEF NumberInv, BaseInv, TypesInv, BgTypes, FilesInv, FinishCompactionOutputFile
<1>2. PICK n \in comp.out : /\ disk' = [disk EXCEPT !.tables = Extend(@, n, merged)]
                            /\ bg' = [NoBg EXCEPT !.pc = "install", !.edit = Edit({<<1, n>>}, comp.inputs, vs)]
  BY DEF FinishCompactionOutputFile
<1>3. bg'.pc = "install" /\ bg'.edit.add = {<<1, n>>} /\ bg'.edit.del = comp.inputs /\ bg'.edit.log = vs.log
  BY <1>2 DEF NoBg, Edit
<1>4. \A x \in comp.inputs : x[2] \in DOMAIN disk.tables /\ disk.tables[x[2]] \subseteq merged
  BY <1>1 DEF OpenedInv, There, Numbers
<1> HIDE DEF merged
<1>5. disk' = Tabled(disk, n, merged) /\ n \in Nat /\ NotTaken(Current(disk), n)
  BY <1>1, <1>2 DEF Tabled, IsComp, OpenNumbers
<1>6. /\ LogKept' /\ VersionKept'
      /\ n \in DOMAIN disk'.tables /\ disk'.tables[n] = merged
      /\ \A m \in DOMAIN disk.tables \ {n} : m \in DOMAIN disk'.tables /\ disk'.tables[m] = disk.tables[m]
  BY <1>1, <1>5, TabledVersion DEF merged
<1>7. ASSUME NEW w, InTables(disk'.tables, comp.inputs, w)
      PROVE  InTables(disk'.tables, {<<1, n>>}, w)
  <2>1. PICK x \in comp.inputs : x[2] \in DOMAIN disk'.tables /\ w \in disk'.tables[x[2]]
    BY <1>7 DEF InTables
  <2>2. w \in merged
    BY <1>4, <1>6, <2>1
  <2> QED BY <1>6, <2>2 DEF InTables
<1>8. EditKept'
  BY <1>1, <1>3, <1>7 DEF EditKept
<1> QED BY <1>6, <1>8

\* What a write to the manifest that failed, or was interrupted, leaves.
LEMMA FailedManifest ==
  ASSUME BaseInv, up \in Opened, NEW d, IsSound(d), SameTables(d), NEW ed \in EditRecords, NEW e \in FailedWrites(d, ed)
  PROVE  /\ e.tables = d.tables /\ e.logs = d.logs /\ e.current = d.current
         /\ Current(e).synced = Current(disk).synced
         /\ Current(e).recs \in {Current(disk).recs, Current(disk).recs \o <<TornEdit>>, Current(disk).recs \o <<ed>>}
<1>1. IsDisk(d) /\ disk.current = vs.manifest /\ d.current = vs.manifest /\ vs.manifest \in DOMAIN d.manifests /\ Current(disk) = d.manifests[vs.manifest]
  BY OpenCurrentThere DEF IsSound, SameTables, Current
<1>2. PICK r \in {<<>>, <<TornEdit>>, <<ed>>} : e = ManifestWith(d, r, FALSE)
  BY DEF FailedWrites
<1>3. r \in Seq(EditRecords) /\ FALSE \in BOOLEAN
  <2>1. TornEdit \in EditRecords
    BY DEF TornEdit, EditRecords
  <2>2. <<>> \in Seq(EditRecords) /\ <<TornEdit>> \in Seq(EditRecords) /\ <<ed>> \in Seq(EditRecords)
    BY <2>1
  <2> QED BY <1>2, <2>2, Zenon
<1>4. /\ e.tables = d.tables /\ e.logs = d.logs /\ e.current = d.current
      /\ e.manifests[vs.manifest] = [recs |-> Current(disk).recs \o r, synced |-> Current(disk).synced]
  <2> DEFINE g == ManifestWith(d, r, FALSE)
             f == d.manifests[vs.manifest]
  <2>1. /\ g.tables = d.tables /\ g.logs = d.logs /\ g.current = d.current
        /\ vs.manifest \in DOMAIN d.manifests =>
             g.manifests[vs.manifest] = [recs |-> f.recs \o r, synced |-> IF FALSE THEN Len(f.recs) + Len(r) ELSE f.synced]
    BY <1>1, <1>3, ManifestDisk, Zenon
  <2> HIDE DEF g
  <2>2. g.manifests[vs.manifest] = [recs |-> f.recs \o r, synced |-> f.synced]
    BY <1>1, <2>1
  <2> QED BY <1>1, <1>2, <2>1, <2>2 DEF g
<1>5. Current(disk).recs \in Seq(EditRecords)
  <2>1. Current(disk) \in Records(EditRecords)
    BY <1>1 DEF IsDisk, IsFiles
  <2> QED BY <2>1 DEF Records
<1>6. Current(disk).recs \o <<>> = Current(disk).recs
  BY <1>5, ConcatEmptySeq
<1>7. Current(e) = [recs |-> Current(disk).recs \o r, synced |-> Current(disk).synced]
  BY <1>1, <1>4 DEF Current
<1>8. Current(e).recs = Current(disk).recs \o r /\ Current(e).synced = Current(disk).synced
  BY <1>7
<1>9. Current(e).recs \in {Current(disk).recs, Current(disk).recs \o <<TornEdit>>, Current(disk).recs \o <<ed>>}
  <2>1. CASE r = <<>>
    BY <1>6, <1>8, <2>1
  <2>2. CASE r # <<>>
    BY <1>2, <1>8, <2>2
  <2> QED BY <2>1, <2>2
<1> QED BY <1>4, <1>8, <1>9

\* The manifest g is f with a record more, torn or whole, or as it was.
Longer(g, f, ed) == /\ g.recs \in {f.recs, f.recs \o <<TornEdit>>, f.recs \o <<ed>>}
                    /\ g.synced \in Nat /\ f.synced <= g.synced
SamePoint(g, f, k) == /\ k \in 1 .. Len(f.recs) /\ Point(f, k)
                      /\ TablesOf(g.recs, k) = TablesOf(f.recs, k) /\ g.recs[k] = f.recs[k]
EditedPoint(g, f, ed, k) ==
  /\ g.recs = f.recs \o <<ed>> /\ k = Len(f.recs) + 1 /\ NoTorn(f.recs, Len(f.recs))
  /\ TablesOf(g.recs, k) = (TablesOf(f.recs, Len(f.recs)) \ ed.del) \union ed.add
  /\ g.recs[k] = ed

LEMMA PointAppended ==
  ASSUME NEW f \in Records(EditRecords), NEW ed \in EditRecords, NEW g, Longer(g, f, ed),
         NEW k \in 1 .. Len(g.recs), Point(g, k)
  PROVE  SamePoint(g, f, k) \/ EditedPoint(g, f, ed, k)
<1>0. /\ g.recs \in {f.recs, f.recs \o <<TornEdit>>, f.recs \o <<ed>>}
      /\ g.synced \in Nat /\ f.synced <= g.synced
  BY DEF Longer
<1>1. f.recs \in Seq(EditRecords) /\ f.synced \in Nat /\ f.synced <= Len(f.recs) /\ Len(f.recs) \in Nat /\ TornEdit \in EditRecords
  BY LenProperties DEF Records, TornEdit, EditRecords
<1>2. /\ Len(g.recs) \in {Len(f.recs), Len(f.recs) + 1} /\ \A i \in 1 .. Len(f.recs) : g.recs[i] = f.recs[i]
      /\ g.recs = f.recs \o <<TornEdit>> => ~NoTorn(g.recs, Len(f.recs) + 1)
      /\ g.recs = f.recs \o <<ed>> => /\ NoTorn(g.recs, Len(f.recs) + 1) => NoTorn(f.recs, Len(f.recs))
                                      /\ TablesOf(g.recs, Len(f.recs) + 1) = (TablesOf(f.recs, Len(f.recs)) \ ed.del) \union ed.add
                                      /\ g.recs[Len(f.recs) + 1] = ed
  <2>1. ASSUME NEW x \in EditRecords
        PROVE  /\ Len(f.recs \o <<x>>) = Len(f.recs) + 1 /\ (f.recs \o <<x>>)[Len(f.recs) + 1] = x
               /\ \A i \in 1 .. Len(f.recs) : (f.recs \o <<x>>)[i] = f.recs[i]
               /\ TablesOf(f.recs \o <<x>>, Len(f.recs) + 1) = (TablesOf(f.recs, Len(f.recs)) \ x.del) \union x.add
               /\ NoTorn(f.recs \o <<x>>, Len(f.recs) + 1) <=> NoTorn(f.recs, Len(f.recs)) /\ x # TornEdit
    BY <1>1, TablesNext, Zenon
  <2>2. CASE g.recs = f.recs
    <3>1. f.recs # f.recs \o <<TornEdit>> /\ f.recs # f.recs \o <<ed>>
      BY <1>1, <2>1
    <3> QED BY <2>2, <3>1
  <2>3. CASE g.recs = f.recs \o <<TornEdit>>
    <3>1. ed = TornEdit \/ g.recs # f.recs \o <<ed>>
      BY <1>1, <2>1, <2>3
    <3> QED BY <1>1, <2>1, <2>3, <3>1
  <2>4. CASE g.recs = f.recs \o <<ed>>
    <3>1. ed = TornEdit \/ g.recs # f.recs \o <<TornEdit>>
      BY <1>1, <2>1, <2>4
    <3> QED BY <1>1, <2>1, <2>4, <3>1
  <2> QED BY <1>0, <2>2, <2>3, <2>4
<1>3. NoTorn(g.recs, k) /\ k \in Nat /\ k > 0 /\ g.synced <= k
  BY DEF Point
<1>4. CASE k <= Len(f.recs)
  <2>1. k \in 1 .. Len(f.recs) /\ \A i \in 1 .. k : g.recs[i] = f.recs[i]
    BY <1>1, <1>2, <1>3, <1>4
  <2>2. TablesOf(g.recs, k) = TablesOf(f.recs, k) /\ NoTorn(f.recs, k)
    BY <1>3, <2>1, TablesPrefix
  <2>3. Point(f, k)
    BY <1>0, <1>1, <1>3, <2>1, <2>2 DEF Point
  <2> QED BY <1>2, <2>1, <2>2, <2>3 DEF SamePoint
<1>5. CASE k > Len(f.recs)
  <2>1. k = Len(f.recs) + 1 /\ Len(g.recs) = Len(f.recs) + 1
    BY <1>1, <1>2, <1>3, <1>5
  <2>2. g.recs = f.recs \o <<ed>>
    <3>1. g.recs # f.recs
      BY <1>1, <2>1
    <3>2. g.recs # f.recs \o <<TornEdit>>
      BY <1>2, <1>3, <2>1
    <3> QED BY <1>0, <3>1, <3>2
  <2> QED BY <1>2, <1>3, <2>1, <2>2 DEF EditedPoint
<1> QED BY <1>1, <1>3, <1>4, <1>5

\* Behind the edit, wherever the manifest ended before it, nothing is missing.
EditFinds(tables, log) ==
  /\ vs.log <= log /\ log <= logfile
  /\ \A w \in Batches : InTables(disk.tables, vs.tables \union bg.edit.add, w) => InTables(disk.tables, tables, w)
  /\ \A kind \in Kinds : \A m \in imm : \A w \in m : Promised(kind, w) =>
       InTables(disk.tables, tables, w) \/ InLogs(kind, disk.logs, log, w)

LEMMA EditPoint ==
  ASSUME BaseInv, KeepInv, up \in Opened, bg.pc \in Committing, NoTorn(Current(disk).recs, Len(Current(disk).recs)),
         NEW tables, tables = (TablesOf(Current(disk).recs, Len(Current(disk).recs)) \ bg.edit.del) \union bg.edit.add
  PROVE  EditFinds(tables, bg.edit.log)
<1> DEFINE f == Current(disk)
           n == Len(f.recs)
<1>1. LogKept /\ VersionKept /\ EditKept /\ IsDisk(disk) /\ IsBg(bg) /\ IsVersionSet(vs) /\ logfile \in Nat /\ IsImm(imm)
  BY DEF KeepInv, BaseInv, TypesInv, MemTypes, BgTypes
<1>2. f \in Records(EditRecords) /\ f.recs \in Seq(EditRecords) /\ n \in Nat /\ f.synced \in Nat /\ f.synced <= n
  <2>1. f \in Records(EditRecords)
    BY OpenCurrentThere DEF IsSound, IsDisk, IsFiles, Current
  <2> QED BY <2>1, LenProperties DEF Records
<1>3. n > 0 /\ n \in 1 .. n /\ Point(f, n)
  BY <1>1, <1>2 DEF VersionKept, Point
<1>4. PointKept(n) /\ f.recs[n].log \in Nat /\ vs.log \in Nat
  <2>1. f.recs[n] \in EditRecords
    BY <1>2, <1>3, ElementOfSeq
  <2> QED BY <1>1, <1>3, <2>1 DEF VersionKept, EditRecords, IsVersionSet
<1> HIDE DEF f, n
<1>5. tables = (TablesOf(f.recs, n) \ bg.edit.del) \union bg.edit.add
  BY DEF f, n
<1>6. /\ vs.log <= f.recs[n].log /\ f.recs[n].log <= logfile
      /\ \A w \in Batches : InTables(disk.tables, vs.tables, w) => InTables(disk.tables, TablesOf(f.recs, n), w)
      /\ \A kind \in Kinds : \A m \in imm : \A w \in m : Promised(kind, w) =>
           InTables(disk.tables, TablesOf(f.recs, n), w) \/ InLogs(kind, disk.logs, f.recs[n].log, w)
  BY <1>4 DEF PointKept, Found, f
<1>7. bg.edit.log \in {vs.log, logfile} /\ vs.log <= bg.edit.log /\ bg.edit.log <= logfile
  BY <1>1, <1>4 DEF LogKept, EditKept, Committing
<1>8. ASSUME NEW w \in Batches, InTables(disk.tables, TablesOf(f.recs, n), w)
      PROVE  InTables(disk.tables, tables, w)
  <2>1. PICK x \in TablesOf(f.recs, n) : x[2] \in DOMAIN disk.tables /\ w \in disk.tables[x[2]]
    BY <1>8 DEF InTables
  <2>2. CASE x \notin bg.edit.del
    BY <1>5, <2>1, <2>2 DEF InTables
  <2>3. CASE x \in bg.edit.del
    <3>1. InTables(disk.tables, bg.edit.del, w) /\ bg.pc # "flushlog"
      BY <1>1, <2>1, <2>3 DEF InTables, EditKept
    <3>2. InTables(disk.tables, bg.edit.add, w)
      BY <1>1, <3>1 DEF EditKept, Committing
    <3> QED BY <1>5, <3>2 DEF InTables
  <2> QED BY <2>2, <2>3
<1>9. \A w \in Batches : InTables(disk.tables, vs.tables \union bg.edit.add, w) => InTables(disk.tables, tables, w)
  <2> SUFFICES ASSUME NEW w \in Batches, InTables(disk.tables, vs.tables \union bg.edit.add, w)
               PROVE  InTables(disk.tables, tables, w)
    OBVIOUS
  <2>1. InTables(disk.tables, vs.tables, w) \/ InTables(disk.tables, bg.edit.add, w)
    BY DEF InTables
  <2>2. InTables(disk.tables, bg.edit.add, w) => InTables(disk.tables, tables, w)
    BY <1>5 DEF InTables
  <2> QED BY <1>6, <1>8, <2>1, <2>2
<1>10. ASSUME NEW kind \in Kinds, NEW m \in imm, NEW w \in m, Promised(kind, w)
       PROVE  InTables(disk.tables, tables, w) \/ InLogs(kind, disk.logs, bg.edit.log, w)
  <2>0. w \in Batches
    BY <1>1, <1>10 DEF IsImm
  <2>1. CASE bg.pc = "flushlog"
    <3>1. InTables(disk.tables, bg.edit.add, w)
      BY <1>1, <1>10, <2>1 DEF EditKept
    <3> QED BY <1>5, <3>1 DEF InTables
  <2>2. CASE bg.pc # "flushlog"
    <3>1. bg.edit.log = vs.log
      BY <1>1, <2>2 DEF EditKept, Committing
    <3>2. DOMAIN disk.logs \subseteq Nat
      BY <1>1 DEF IsDisk, IsFiles, Filenames
    <3>3. InLogs(kind, disk.logs, f.recs[n].log, w) => InLogs(kind, disk.logs, vs.log, w)
      BY <1>4, <1>6, <3>2, LogsOlder
    <3> QED BY <1>6, <1>8, <1>10, <2>0, <3>1, <3>3
  <2> QED BY <2>1, <2>2
<1> QED BY <1>7, <1>9, <1>10 DEF EditFinds

\* The record could not be written: the version stays, and the manifest may
\* already have the new one.
LEMMA FailedVersion ==
  ASSUME BaseInv, KeepInv, BackgroundStep, bg.pc \in Committing, disk' \in FailedWrites(disk, bg.edit),
         UNCHANGED <<vs, imm>>, bg'.pc \in {"idle", "compact"}
  PROVE  LogKept' /\ VersionKept' /\ EditKept'
<1> DEFINE f == Current(disk)
           g == Current(disk')
<1>1. /\ up \in Opened /\ IsSound(disk) /\ bg.edit \in EditRecords /\ IsVersionSet(vs)
      /\ mem' = mem /\ logfile' = logfile
  BY BackgroundStays, BackgroundOpen, BackgroundSignals DEF BaseInv, TypesInv, BgTypes, IsBg
<1>2. LogKept /\ VersionKept
  BY <1>1 DEF KeepInv
<1>3. /\ disk'.tables = disk.tables /\ disk'.logs = disk.logs /\ g.synced = f.synced
      /\ g.recs \in {f.recs, f.recs \o <<TornEdit>>, f.recs \o <<bg.edit>>}
  BY <1>1, FailedManifest DEF SameTables
<1>4. f \in Records(EditRecords) /\ f.recs \in Seq(EditRecords) /\ f.synced \in Nat /\ Len(f.recs) \in Nat
  <2>1. f \in Records(EditRecords)
    BY <1>1, OpenCurrentThere DEF IsSound, IsDisk, IsFiles, Current
  <2> QED BY <2>1, LenProperties DEF Records
<1>5. LogKept' /\ Due' = Due /\ \A kind, v : Promised(kind, v)' <=> Promised(kind, v)
  BY <1>2, <1>3, SignalledLog DEF LogKept
<1> HIDE DEF f, g
<1>6. Len(g.recs) > 0 /\ Len(g.recs) \in Nat /\ Len(f.recs) <= Len(g.recs) /\ \A i \in 1 .. Len(f.recs) : g.recs[i] = f.recs[i]
  <2>1. TornEdit \in EditRecords
    BY DEF TornEdit, EditRecords
  <2>2. ASSUME NEW x \in EditRecords, g.recs = f.recs \o <<x>>
        PROVE  Len(g.recs) = Len(f.recs) + 1 /\ \A i \in 1 .. Len(f.recs) : g.recs[i] = f.recs[i]
    BY <1>4, <2>2, Appended
  <2>3. Len(f.recs) > 0
    BY <1>2 DEF VersionKept, f
  <2>4. CASE g.recs = f.recs
    BY <1>4, <2>3, <2>4
  <2>5. CASE g.recs # f.recs
    <3>1. PICK x \in EditRecords : g.recs = f.recs \o <<x>>
      BY <1>1, <1>3, <2>1, <2>5
    <3> QED BY <1>4, <2>2, <3>1
  <2> QED BY <2>4, <2>5
<1>7. \A w \in Due' : Held(w)' \/ InTables(disk'.tables, vs'.tables, w)
  BY <1>1, <1>2, <1>3, <1>5 DEF VersionKept, Held
<1>8. \A x \in vs'.tables : ~NotTaken(g, x[2])
  <2> SUFFICES ASSUME NEW x \in vs.tables
               PROVE  ~NotTaken(g, x[2])
    OBVIOUS
  <2>1. PICK i \in 1 .. Len(f.recs) : \E y \in f.recs[i].add : y[2] = x[2]
    BY <1>2 DEF VersionKept, NotTaken, f
  <2>2. i \in 1 .. Len(g.recs) /\ g.recs[i] = f.recs[i]
    BY <1>4, <1>6, <2>1
  <2> QED BY <2>1, <2>2 DEF NotTaken
<1>9. ASSUME NEW k \in 1 .. Len(g.recs), Point(g, k)
      PROVE  PointKept(k)'
  <2>1. CASE SamePoint(g, f, k)
    <3>1. PointKept(k)
      BY <1>2, <2>1 DEF SamePoint, VersionKept, f
    <3>2. \A kind, w : Found(kind, disk, f, k, w) => Found(kind, disk', g, k, w)
      BY <1>3, <2>1 DEF SamePoint, Found
    <3> QED BY <1>1, <1>3, <1>5, <2>1, <3>1, <3>2 DEF SamePoint, PointKept, f, g
  <2>2. CASE EditedPoint(g, f, bg.edit, k)
    <3>1. EditFinds(TablesOf(g.recs, k), bg.edit.log)
      BY <1>1, <2>2, EditPoint DEF EditedPoint, f
    <3>2. \A w \in Batches : InTables(disk.tables, vs.tables, w) => InTables(disk.tables, TablesOf(g.recs, k), w)
      <4>1. \A w : InTables(disk.tables, vs.tables, w) => InTables(disk.tables, vs.tables \union bg.edit.add, w)
        BY DEF InTables
      <4> QED BY <3>1, <4>1 DEF EditFinds
    <3>3. \A kind \in Kinds : \A m \in imm : \A w \in m : Promised(kind, w) => Found(kind, disk', g, k, w)
      BY <1>3, <2>2, <3>1 DEF EditedPoint, EditFinds, Found
    <3> QED BY <1>1, <1>3, <1>5, <2>2, <3>1, <3>2, <3>3 DEF EditedPoint, EditFinds, PointKept, g
  <2>3. Longer(g, f, bg.edit)
    BY <1>3, <1>4 DEF Longer
  <2> QED BY <1>1, <1>4, <1>9, <2>1, <2>2, <2>3, PointAppended
<1>10. VersionKept'
  BY <1>6, <1>7, <1>8, <1>9 DEF VersionKept, g
<1>11. EditKept'
  BY DEF EditKept
<1> QED BY <1>5, <1>10, <1>11

\* The record is in the manifest, and the version follows it.
LEMMA CommitFiles ==
  ASSUME BaseInv, FilesInv', BackgroundStep, bg.pc \in Committing, NEW d, NEW c, NEW pend, Commit(d, c, pend)
  PROVE  LET f == Current(disk)
             g == Current(disk')
         IN  /\ g.recs = f.recs \o <<bg.edit>> /\ g.synced = Len(f.recs) + 1
             /\ \A m \in DOMAIN disk.logs : m >= bg.edit.log => m \in DOMAIN disk'.logs /\ disk'.logs[m] = disk.logs[m]
             /\ \A m \in DOMAIN disk'.tables : m \in DOMAIN disk.tables /\ disk'.tables[m] = disk.tables[m]
             /\ There(vs'.tables, DOMAIN disk'.tables)
             /\ disk'.tables = disk.tables \/ TablesOf(g.recs, Len(f.recs) + 1) = vs'.tables
             /\ vs'.tables = (vs.tables \ bg.edit.del) \union bg.edit.add /\ vs'.log = bg.edit.log
<1> DEFINE f == Current(disk)
           g == Current(disk')
<1>1. /\ up \in Opened /\ up' \in Opened /\ IsDisk(disk) /\ bg.edit \in EditRecords /\ IsVersionSet(vs) /\ bgerr \in BOOLEAN
      /\ disk.current = vs.manifest /\ vs.manifest \in DOMAIN disk.manifests
  BY BackgroundStays, BackgroundOpen DEF BaseInv, TypesInv, BgTypes, IsBg
<1>2. /\ d = ManifestWith(disk, <<bg.edit>>, TRUE)
      /\ disk' = d \/ disk' = DeleteObsoleteFiles(d, vs', c, pend, bgerr)
      /\ bgerr' = bgerr /\ vs' = LogAndApply(bg.edit)
  BY DEF Commit
<1>3. vs'.tables = (vs.tables \ bg.edit.del) \union bg.edit.add /\ vs'.log = bg.edit.log /\ vs'.manifest = vs.manifest
  BY <1>1, <1>2 DEF LogAndApply, IsVersionSet
<1>4. f \in Records(EditRecords) /\ f.recs \in Seq(EditRecords) /\ Len(f.recs) \in Nat
  <2>1. f \in Records(EditRecords)
    BY <1>1 DEF IsDisk, IsFiles, Current
  <2> QED BY <2>1, LenProperties DEF Records
<1>5. /\ IsDisk(d) /\ d.tables = disk.tables /\ d.logs = disk.logs /\ d.current = disk.current
      /\ DOMAIN d.manifests = DOMAIN disk.manifests
      /\ d.manifests[vs.manifest] = [recs |-> f.recs \o <<bg.edit>>, synced |-> Len(f.recs) + 1]
  <2> DEFINE e == ManifestWith(disk, <<bg.edit>>, TRUE)
             h == disk.manifests[vs.manifest]
  <2>1. <<bg.edit>> \in Seq(EditRecords) /\ Len(<<bg.edit>>) = 1 /\ TRUE \in BOOLEAN
    BY <1>1
  <2>2. /\ IsDisk(e) /\ e.tables = disk.tables /\ e.logs = disk.logs /\ e.current = disk.current
        /\ DOMAIN e.manifests = DOMAIN disk.manifests
        /\ vs.manifest \in DOMAIN disk.manifests =>
             e.manifests[vs.manifest] =
               [recs |-> h.recs \o <<bg.edit>>, synced |-> IF TRUE THEN Len(h.recs) + Len(<<bg.edit>>) ELSE h.synced]
    BY <1>1, <2>1, ManifestDisk, Zenon
  <2>3. h = f
    BY <1>1 DEF Current
  <2>5. d = e
    BY <1>2
  <2> HIDE DEF e
  <2>4. e.manifests[vs.manifest] = [recs |-> f.recs \o <<bg.edit>>, synced |-> Len(f.recs) + 1]
    BY <1>1, <2>1, <2>2, <2>3
  <2> QED BY <2>2, <2>4, <2>5
<1>6. There(vs'.tables, DOMAIN disk'.tables) /\ (~bgerr => Settled(disk'.manifests[vs'.manifest], vs'.tables))
  BY <1>1, <1>2 DEF FilesInv, OpenedInv, There
<1>7. /\ g = [recs |-> f.recs \o <<bg.edit>>, synced |-> Len(f.recs) + 1]
      /\ \A m \in DOMAIN disk.logs : m >= bg.edit.log => m \in DOMAIN disk'.logs /\ disk'.logs[m] = disk.logs[m]
      /\ \A m \in DOMAIN disk'.tables : m \in DOMAIN disk.tables /\ disk'.tables[m] = disk.tables[m]
      /\ disk' = d \/ ~bgerr
  <2>1. CASE disk' = d
    BY <1>1, <1>5, <2>1 DEF Current
  <2>2. CASE disk' # d
    <3> DEFINE e == DeleteObsoleteFiles(d, vs', c, pend, bgerr)
    <3>1. /\ e.current = d.current /\ (bgerr => e = d)
          /\ ~bgerr => /\ DOMAIN e.logs = {n \in DOMAIN d.logs : n >= vs'.log}
                       /\ DOMAIN e.manifests = {n \in DOMAIN d.manifests : n >= vs'.manifest}
          /\ \A n \in DOMAIN e.logs : n \in DOMAIN d.logs /\ e.logs[n] = d.logs[n]
          /\ \A n \in DOMAIN e.manifests : n \in DOMAIN d.manifests /\ e.manifests[n] = d.manifests[n]
          /\ \A n \in DOMAIN e.tables : n \in DOMAIN d.tables /\ e.tables[n] = d.tables[n]
      BY <1>5, DeletedDisk
    <3>2. disk' = e
      BY <1>2, <2>2
    <3> HIDE DEF e
    <3>3. ~bgerr /\ vs.manifest \in DOMAIN disk'.manifests
      <4>1. vs.manifest >= vs'.manifest
        BY <1>1, <1>3 DEF IsVersionSet
      <4> QED BY <1>1, <1>3, <1>5, <2>2, <3>1, <3>2, <4>1
    <3>4. g = [recs |-> f.recs \o <<bg.edit>>, synced |-> Len(f.recs) + 1]
      BY <1>1, <1>5, <3>1, <3>2, <3>3 DEF Current
    <3> QED BY <1>3, <1>5, <3>1, <3>2, <3>3, <3>4
  <2> QED BY <2>1, <2>2
<1>8. g.recs = f.recs \o <<bg.edit>> /\ g.synced = Len(f.recs) + 1 /\ Len(g.recs) = Len(f.recs) + 1
  BY <1>1, <1>4, <1>7, Appended
<1>9. disk'.tables = disk.tables \/ TablesOf(g.recs, Len(f.recs) + 1) = vs'.tables
  <2>1. CASE disk' = d
    BY <1>5, <2>1
  <2>2. CASE ~bgerr
    <3>1. g = disk'.manifests[vs'.manifest]
      BY <1>1, <1>2, <1>3, BackgroundFrame DEF Filed, Current
    <3> QED BY <1>6, <1>8, <2>2, <3>1 DEF Settled
  <2> QED BY <1>7, <2>1, <2>2
<1> QED BY <1>3, <1>6, <1>7, <1>8, <1>9

LEMMA CommittedVersion ==
  ASSUME BaseInv, FilesInv', KeepInv, BackgroundStep, bg.pc \in Committing, NEW d, NEW c, NEW pend, Commit(d, c, pend),
         imm' = (IF bg.pc = "flushlog" THEN NoMem ELSE imm), bg'.pc \in {"idle", "compact"}
  PROVE  LogKept' /\ VersionKept' /\ EditKept'
<1> DEFINE f == Current(disk)
           g == Current(disk')
           n == Len(f.recs) + 1
<1>1. /\ up \in Opened /\ IsSound(disk) /\ bg.edit \in EditRecords /\ IsVersionSet(vs) /\ logfile \in Nat
      /\ mem' = mem /\ logfile' = logfile /\ IsImm(imm)
  BY BackgroundStays, BackgroundOpen, BackgroundSignals DEF BaseInv, TypesInv, BgTypes, IsBg, MemTypes
<1>2. LogKept /\ VersionKept /\ EditKept
  BY <1>1 DEF KeepInv
<1>3. /\ g.recs = f.recs \o <<bg.edit>> /\ g.synced = n
      /\ \A m \in DOMAIN disk.logs : m >= bg.edit.log => m \in DOMAIN disk'.logs /\ disk'.logs[m] = disk.logs[m]
      /\ \A m \in DOMAIN disk'.tables : m \in DOMAIN disk.tables /\ disk'.tables[m] = disk.tables[m]
      /\ There(vs'.tables, DOMAIN disk'.tables)
      /\ disk'.tables = disk.tables \/ TablesOf(g.recs, n) = vs'.tables
      /\ vs'.tables = (vs.tables \ bg.edit.del) \union bg.edit.add /\ vs'.log = bg.edit.log
  BY CommitFiles
<1>4. f \in Records(EditRecords) /\ f.recs \in Seq(EditRecords) /\ f.synced \in Nat /\ Len(f.recs) \in Nat /\ f.synced <= Len(f.recs)
  <2>1. f \in Records(EditRecords)
    BY <1>1, OpenCurrentThere DEF IsSound, IsDisk, IsFiles, Current
  <2> QED BY <2>1, LenProperties DEF Records
<1>5. bg.edit.log <= logfile /\ bg.edit.log \in Nat
  BY <1>1, <1>2 DEF EditKept, LogKept, Committing, EditRecords
<1>6. LogKept' /\ Due' = Due /\ \A kind, v : Promised(kind, v)' <=> Promised(kind, v)
  <2>1. logfile >= bg.edit.log /\ logfile \in DOMAIN disk.logs
    BY <1>1, <1>2, <1>5 DEF LogKept
  <2>2. logfile \in DOMAIN disk'.logs /\ disk'.logs[logfile] = disk.logs[logfile] /\ vs'.log <= logfile
    BY <1>3, <1>5, <2>1
  <2> QED BY <2>2, SignalledLog
<1> HIDE DEF f, g, n
<1>7. Len(g.recs) = n /\ n \in Nat /\ n > 0 /\ Len(f.recs) < n /\ g.recs[n] = bg.edit /\ \A i \in 1 .. Len(f.recs) : g.recs[i] = f.recs[i]
  BY <1>1, <1>3, <1>4, Appended DEF n
<1>8. \A w : InTables(disk.tables, vs'.tables, w) <=> InTables(disk'.tables, vs'.tables, w)
  BY <1>3 DEF There, InTables
<1>9. ASSUME NEW w \in Batches, InTables(disk.tables, vs.tables, w)
      PROVE  InTables(disk'.tables, vs'.tables, w)
  <2>1. PICK x \in vs.tables : x[2] \in DOMAIN disk.tables /\ w \in disk.tables[x[2]]
    BY <1>9 DEF InTables
  <2>2. CASE x \notin bg.edit.del
    <3>1. InTables(disk.tables, vs'.tables, w)
      BY <1>3, <2>1, <2>2 DEF InTables
    <3> QED BY <1>8, <3>1
  <2>3. CASE x \in bg.edit.del
    <3>1. InTables(disk.tables, bg.edit.del, w) /\ bg.pc # "flushlog"
      BY <1>2, <2>1, <2>3 DEF InTables, EditKept
    <3>2. InTables(disk.tables, bg.edit.add, w)
      BY <1>2, <3>1 DEF EditKept, Committing
    <3>3. InTables(disk.tables, vs'.tables, w)
      BY <1>3, <3>2 DEF InTables
    <3> QED BY <1>8, <3>3
  <2> QED BY <2>2, <2>3
<1>10. ASSUME NEW w \in Due'
       PROVE  Held(w)' \/ InTables(disk'.tables, vs'.tables, w)
  <2>0. w \in Due /\ w \in Batches
    BY <1>6, <1>10 DEF Due
  <2>1. CASE w \in mem
    BY <1>1, <2>1 DEF Held
  <2>2. CASE \E m \in imm : w \in m
    <3>1. CASE bg.pc = "flushlog"
      <4>1. InTables(disk.tables, bg.edit.add, w)
        BY <1>2, <2>2, <3>1 DEF EditKept
      <4>2. InTables(disk.tables, vs'.tables, w)
        BY <1>3, <4>1 DEF InTables
      <4> QED BY <1>8, <4>2
    <3>2. CASE bg.pc # "flushlog"
      BY <2>2, <3>2 DEF Held
    <3> QED BY <3>1, <3>2
  <2>3. CASE InTables(disk.tables, vs.tables, w)
    BY <1>9, <2>0, <2>3
  <2> QED BY <1>2, <2>0, <2>1, <2>2, <2>3 DEF VersionKept, Held
<1>11. \A x \in vs'.tables : ~NotTaken(g, x[2])
  <2> SUFFICES ASSUME NEW x \in vs'.tables
               PROVE  ~NotTaken(g, x[2])
    OBVIOUS
  <2>1. CASE x \in bg.edit.add
    <3>1. n \in 1 .. Len(g.recs) /\ x \in g.recs[n].add
      BY <1>7, <2>1
    <3> QED BY <3>1 DEF NotTaken
  <2>2. CASE x \in vs.tables
    <3>1. PICK i \in 1 .. Len(f.recs) : \E y \in f.recs[i].add : y[2] = x[2]
      BY <1>2, <2>2 DEF VersionKept, NotTaken, f
    <3>2. i \in 1 .. Len(g.recs) /\ g.recs[i] = f.recs[i]
      BY <1>4, <1>7, <3>1
    <3> QED BY <3>1, <3>2 DEF NotTaken
  <2> QED BY <1>3, <2>1, <2>2
<1>12. ASSUME NEW k \in 1 .. Len(g.recs), Point(g, k)
       PROVE  PointKept(k)'
  <2>1. k = n /\ Longer(g, f, bg.edit)
    BY <1>3, <1>4, <1>7, <1>12 DEF Point, Longer
  <2>2. EditedPoint(g, f, bg.edit, k)
    <3>1. ~SamePoint(g, f, k)
      BY <1>4, <1>7, <2>1 DEF SamePoint
    <3> QED BY <1>1, <1>4, <1>12, <2>1, <3>1, PointAppended
  <2> DEFINE tables == TablesOf(g.recs, k)
  <2>3. EditFinds(tables, bg.edit.log)
    BY <1>1, <2>2, EditPoint DEF EditedPoint, f
  <2>4. disk'.tables = disk.tables \/ tables = vs'.tables
    BY <1>3, <2>1
  <2> HIDE DEF tables
  <2>5. ASSUME NEW w, InTables(disk.tables, tables, w)
        PROVE  InTables(disk'.tables, tables, w)
    BY <1>8, <2>4, <2>5
  <2>6. ASSUME NEW w \in Batches, InTables(disk'.tables, vs'.tables, w)
        PROVE  InTables(disk'.tables, tables, w)
    <3>1. InTables(disk.tables, vs.tables \union bg.edit.add, w)
      BY <1>3, <2>6 DEF InTables
    <3> QED BY <2>3, <2>5, <3>1 DEF EditFinds
  <2>7. ASSUME NEW kind \in Kinds, NEW m \in imm', NEW w \in m, Promised(kind, w)'
        PROVE  Found(kind, disk', g, k, w)
    <3>1. m \in imm /\ Promised(kind, w)
      BY <1>6, <2>7 DEF NoMem
    <3>2. InTables(disk.tables, tables, w) \/ InLogs(kind, disk.logs, bg.edit.log, w)
      BY <2>3, <2>7, <3>1 DEF EditFinds
    <3>3. InLogs(kind, disk.logs, bg.edit.log, w) => InLogs(kind, disk'.logs, bg.edit.log, w)
      BY <1>3 DEF InLogs
    <3> QED BY <1>7, <2>1, <2>5, <3>2, <3>3 DEF Found, tables
  <2>8. vs'.log <= g.recs[k].log /\ g.recs[k].log <= logfile'
    BY <1>1, <1>3, <1>5, <1>7, <2>1
  <2> QED BY <2>6, <2>7, <2>8 DEF PointKept, g, tables
<1>13. VersionKept'
  BY <1>7, <1>10, <1>11, <1>12 DEF VersionKept, g
<1>14. EditKept'
  BY DEF EditKept
<1> QED BY <1>6, <1>13, <1>14

LEMMA BackgroundKept ==
  ASSUME BaseInv, FilesInv, NumberInv, KeepInv, BackgroundStep
  PROVE  KeepInv'
<1>1. FilesInv' /\ up \in Opened /\ up' \in Opened /\ disk'.current = disk.current
  BY BackgroundFiles, BackgroundStays, BackgroundFrame DEF Filed
<1>2. disk'.current # 0
  BY <1>1 DEF NumberInv, OpenNumbers
<1>3. CASE \/ CallIdle \/ CallFlush \/ CallMove \/ CallCompact \/ CompactImm \/ OpenCompactionOutputFile
           \/ FlushBuildFails \/ CompactStops
  BY <1>1, <1>2, <1>3, StillVersion DEF KeepInv, Opened, Replaying
<1>4. CASE FlushBuilt
  BY <1>1, <1>2, <1>4, BuiltVersion DEF KeepInv, Opened, Replaying
<1>5. CASE FinishCompactionOutputFile
  BY <1>1, <1>2, <1>5, OutputVersion DEF KeepInv, Opened, Replaying
<1>6. CASE FlushLogged \/ Moved \/ Installed
  <2> DEFINE d == ManifestWith(disk, <<bg.edit>>, TRUE)
  <2>1. /\ bg.pc \in Committing /\ imm' = (IF bg.pc = "flushlog" THEN NoMem ELSE imm)
        /\ EndCall \/ EndFlush
    BY <1>6 DEF FlushLogged, Moved, Installed, EndCompact, Committing
  <2>2. \E c, pend : Commit(d, c, pend)
    <3>1. CASE FlushLogged
      <4>1. Commit(d, comp, pending)
        BY <3>1 DEF FlushLogged, Commit
      <4> QED BY <4>1
    <3>2. CASE Moved
      <4>1. Commit(d, comp, pending)
        BY <3>2 DEF Moved, Commit
      <4> QED BY <4>1
    <3>3. CASE Installed
      <4>1. EndCompact(d) /\ UNCHANGED bgerr /\ vs' = LogAndApply(bg.edit)
        BY <3>3 DEF Installed
      <4>2. comp' = NoComp /\ disk' = DeleteObsoleteFiles(d, vs', NoComp, pending', bgerr)
        BY <4>1 DEF EndCompact
      <4>3. Commit(d, NoComp, pending')
        BY <4>1, <4>2 DEF Commit
      <4> QED BY <4>3
    <3> QED BY <1>6, <3>1, <3>2, <3>3
  <2>3. bg'.pc \in {"idle", "compact"}
    BY <2>1, EndPlace
  <2> HIDE DEF d
  <2>4. LogKept' /\ VersionKept' /\ EditKept'
    BY <1>1, <2>1, <2>2, <2>3, CommittedVersion
  <2> QED BY <1>1, <1>2, <2>4 DEF KeepInv, Opened, Replaying
<1>7. CASE FlushLogFails \/ MoveFails \/ InstallFails
  <2>1. bg.pc \in Committing /\ UNCHANGED <<vs, imm>> /\ (EndCall \/ EndFlush) /\ bgerr' = TRUE
    BY <1>7 DEF FlushLogFails, MoveFails, InstallFails, EndCompact, Committing
  <2>2. disk' \in FailedWrites(disk, bg.edit)
    <3>1. CASE InstallFails
      <4>1. PICK d \in FailedWrites(disk, bg.edit) : EndCompact(d)
        BY <3>1 DEF InstallFails
      <4> QED BY <2>1, <4>1, EndCompactKeeps
    <3> QED BY <1>7, <3>1 DEF FlushLogFails, MoveFails
  <2>3. bg'.pc \in {"idle", "compact"}
    BY <2>1, EndPlace
  <2>4. LogKept' /\ VersionKept' /\ EditKept'
    BY <2>1, <2>2, <2>3, FailedVersion
  <2> QED BY <1>1, <1>2, <2>4 DEF KeepInv, Opened, Replaying
<1> QED BY <1>3, <1>4, <1>5, <1>6, <1>7 DEF BackgroundStep

-----------------------------------------------------------------------------
(***************************************************************************)
(* Crashes.  Whatever the file operation under way has left, recovery      *)
(* finds what was promised.                                                *)
(***************************************************************************)
\* Wherever the manifest of an open database ends, nothing is missing.
LEMMA OpenFound ==
  ASSUME BaseInv, KeepInv, up \in Opened, NEW e, e.tables = disk.tables,
         \A m \in DOMAIN disk.logs : m \in DOMAIN e.logs /\ Covers(e.logs[m], disk.logs[m]),
         NEW g, NEW k, SamePoint(g, Current(disk), k) \/ (bg.pc \in Committing /\ EditedPoint(g, Current(disk), bg.edit, k)),
         NEW kind \in Kinds, NEW w \in Due, Promised(kind, w)
  PROVE  Found(kind, e, g, k, w)
<1>1. /\ LogKept /\ VersionKept /\ EditKept /\ w \in Batches /\ logfile \in Nat /\ IsBg(bg)
      /\ Current(disk) \in Records(EditRecords)
  <2>1. Current(disk) \in Records(EditRecords)
    BY OpenCurrentThere DEF IsSound, IsDisk, IsFiles, Current
  <2> QED BY <2>1 DEF KeepInv, BaseInv, TypesInv, MemTypes, BgTypes, Due
<1>2. /\ g.recs[k].log \in Nat /\ g.recs[k].log <= logfile
      /\ InTables(disk.tables, vs.tables, w) => InTables(disk.tables, TablesOf(g.recs, k), w)
      /\ \A m \in imm : w \in m => Found(kind, disk, g, k, w)
  <2>1. CASE SamePoint(g, Current(disk), k)
    <3>1. PointKept(k)
      BY <1>1, <2>1 DEF VersionKept, SamePoint
    <3>2. Current(disk).recs[k] \in EditRecords
      BY <1>1, <2>1, ElementOfSeq DEF Records, SamePoint
    <3>3. Found(kind, disk, Current(disk), k, w) => Found(kind, disk, g, k, w)
      BY <2>1 DEF Found, SamePoint
    <3> QED BY <1>1, <2>1, <3>1, <3>2, <3>3 DEF PointKept, SamePoint, EditRecords
  <2>2. CASE bg.pc \in Committing /\ EditedPoint(g, Current(disk), bg.edit, k)
    <3>1. EditFinds(TablesOf(g.recs, k), g.recs[k].log)
      BY <2>2, EditPoint DEF EditedPoint
    <3>2. g.recs[k].log \in Nat
      BY <1>1, <2>2 DEF EditedPoint, IsBg, EditRecords
    <3>3. InTables(disk.tables, vs.tables, w) => InTables(disk.tables, vs.tables \union bg.edit.add, w)
      BY DEF InTables
    <3> QED BY <1>1, <3>1, <3>2, <3>3 DEF EditFinds, Found
  <2> QED BY <2>1, <2>2
<1>3. Found(kind, disk, g, k, w) => Found(kind, e, g, k, w)
  <2>1. InLogs(kind, disk.logs, g.recs[k].log, w) => InLogs(kind, e.logs, g.recs[k].log, w)
    BY LogsMore
  <2> QED BY <2>1 DEF Found
<1>4. CASE w \in mem
  <2>1. logfile \in DOMAIN disk.logs /\ InRecs(disk.logs[logfile].recs, Reach(kind, disk.logs[logfile]), w)
    BY <1>1, <1>4 DEF LogKept
  <2>2. InLogs(kind, disk.logs, g.recs[k].log, w)
    BY <1>1, <1>2, <2>1 DEF InLogs
  <2> QED BY <1>3, <2>2 DEF Found
<1>5. CASE \E m \in imm : w \in m
  BY <1>2, <1>3, <1>5
<1>6. CASE InTables(disk.tables, vs.tables, w)
  BY <1>2, <1>6 DEF Found
<1> QED BY <1>1, <1>4, <1>5, <1>6 DEF VersionKept, Held

\* Files that recovery finds everything in.
Recovers(d) == IF d.current = 0 THEN Due = {} ELSE Safe(d, Current(d))

LEMMA OpenRecovers ==
  ASSUME BaseInv, KeepInv, up \in Opened, NEW e, e.tables = disk.tables, e.current # 0,
         \A m \in DOMAIN disk.logs : m \in DOMAIN e.logs /\ Covers(e.logs[m], disk.logs[m]),
         \A k \in 1 .. Len(Current(e).recs) : Point(Current(e), k) =>
           \/ SamePoint(Current(e), Current(disk), k)
           \/ bg.pc \in Committing /\ EditedPoint(Current(e), Current(disk), bg.edit, k)
  PROVE  Recovers(e)
<1>1. ASSUME NEW k \in 1 .. Len(Current(e).recs), Point(Current(e), k), NEW w \in Due, NEW kind \in Kinds, Promised(kind, w)
      PROVE  Found(kind, e, Current(e), k, w)
  BY <1>1, OpenFound
<1>2. \A w \in Due : Promised("process", w)
  BY DEF Due, Promised
<1>3. \A w \in Due \cap Sync : Promised("power", w)
  BY DEF Due, Promised
<1>4. Kept("process", Due, e, Current(e))
  BY <1>1, <1>2 DEF Kept, Kinds
<1>5. Kept("power", Due \cap Sync, e, Current(e))
  BY <1>1, <1>3 DEF Kept, Kinds
<1> QED BY <1>4, <1>5 DEF Recovers, Safe

LEMMA SamePoints ==
  ASSUME NEW f \in Records(EditRecords), NEW k \in 1 .. Len(f.recs), Point(f, k)
  PROVE  SamePoint(f, f, k)
  BY DEF SamePoint

LEMMA LogWritesCover ==
  ASSUME BaseInv, NEW d \in LogWrites
  PROVE  /\ IsSound(d) /\ SameTables(d)
         /\ \A m \in DOMAIN disk.logs : m \in DOMAIN d.logs /\ Covers(d.logs[m], disk.logs[m])
         /\ up \notin Opened => d = disk
<1>1. IsSound(d) /\ SameTables(d) /\ IsDisk(disk) /\ WriterInv
  BY LogWritesSound DEF BaseInv, TypesInv
<1>2. CASE d = disk
  BY <1>1, <1>2, CoversItself
<1>3. CASE d # disk
  <2>1. PICK w \in Writer : pc[w] = "log" /\ d \in {Logged(TornRecord), Logged(Group)}
    BY <1>3 DEF LogWrites
  <2>2. TornRecord \in SUBSET Batches /\ Group \in SUBSET Batches
    BY <1>1, GroupBatches DEF TornRecord
  <2>3. queue # <<>> /\ up \in Opened
    <3>1. queue # <<>>
      BY <1>1, <2>1 DEF WriterInv, WritersSound, Leading
    <3> QED BY <3>1, NotOpened
  <2> QED BY <1>1, <2>1, <2>2, <2>3, LoggedCovers
<1> QED BY <1>2, <1>3

\* The new manifest of DB::Open, which CURRENT may already name, has it all.
LEMMA NewManifestFinds ==
  ASSUME BaseInv, FilesInv, NumberInv, KeepInv, up = "current"
  PROVE  LET g == disk.manifests[vs.manifest]
         IN  \A k \in 1 .. Len(g.recs) : Point(g, k) =>
               /\ k = Len(g.recs) /\ g.synced = Len(g.recs) /\ TablesOf(g.recs, k) = vs.tables \union rec.add
               /\ \A w \in Due : InTables(disk.tables, TablesOf(g.recs, k), w)
<1> DEFINE g == disk.manifests[vs.manifest]
<1>1. Settled(g, vs.tables \union rec.add)
  BY DEF FilesInv
<1>2. vs.manifest \in DOMAIN disk.manifests /\ IsDisk(disk)
  BY DEF BaseInv, ManifestInv, TypesInv
<1>3. g.recs \in Seq(EditRecords) /\ Len(g.recs) \in Nat
  <2>1. g \in Records(EditRecords)
    BY <1>2 DEF IsDisk, IsFiles
  <2> QED BY <2>1, LenProperties DEF Records
<1> HIDE DEF g
<1>4. \A w \in Due : InTables(disk.tables, vs.tables \union rec.add, w)
  <2>1. up \in Replaying
    BY DEF Replaying
  <2>2. rec.logs = {}
    BY <2>1 DEF NumberInv, ReplayNumbers
  <2> QED BY <2>1, <2>2 DEF KeepInv, ReplayKept
<1>5. ASSUME NEW k \in 1 .. Len(g.recs), Point(g, k)
      PROVE  /\ k = Len(g.recs) /\ g.synced = Len(g.recs) /\ TablesOf(g.recs, k) = vs.tables \union rec.add
             /\ \A w \in Due : InTables(disk.tables, TablesOf(g.recs, k), w)
  <2>1. k = Len(g.recs)
    BY <1>1, <1>3, <1>5 DEF Settled, Point
  <2> QED BY <1>1, <1>4, <2>1 DEF Settled
<1> QED BY <1>5 DEF g

LEMMA PointedRecovers ==
  ASSUME BaseInv, FilesInv, NumberInv, KeepInv, up = "current"
  PROVE  Recovers(Pointed(disk, vs.manifest))
<1> DEFINE e == Pointed(disk, vs.manifest)
           g == disk.manifests[vs.manifest]
<1>1. IsSound(disk) /\ vs.manifest \in DOMAIN disk.manifests
  BY DEF BaseInv, ManifestInv
<1>2. e.current # 0 /\ e.tables = disk.tables /\ Current(e) = g
  <2>1. vs.manifest # 0
    BY DEF BaseInv, ManifestInv, Replaying, IsSound, IsDisk
  <2> QED BY <1>1, <2>1, PointedSound DEF Current
<1> HIDE DEF e, g
<1>3. \A k \in 1 .. Len(g.recs) : Point(g, k) => \A w \in Due : InTables(disk.tables, TablesOf(g.recs, k), w)
  BY NewManifestFinds DEF g
<1>4. Kept("process", Due, e, g) /\ Kept("power", Due \cap Sync, e, g)
  BY <1>2, <1>3 DEF Kept, Found
<1>5. Recovers(e)
  BY <1>2, <1>4 DEF Recovers, Safe
<1> QED BY <1>5 DEF e

LEMMA DiskRecovers ==
  ASSUME BaseInv, NumberInv, KeepInv
  PROVE  Recovers(disk)
<1>1. CASE disk.current = 0
  BY <1>1 DEF Recovers, KeepInv
<1>2. CASE disk.current # 0 /\ up \notin Opened
  BY <1>2 DEF Recovers, KeepInv
<1>3. CASE disk.current # 0 /\ up \in Opened
  <2>1. Current(disk) \in Records(EditRecords)
    BY <1>3, CurrentRecords DEF BaseInv, ManifestInv
  <2>2. \A k \in 1 .. Len(Current(disk).recs) : Point(Current(disk), k) => SamePoint(Current(disk), Current(disk), k)
    BY <2>1, SamePoints
  <2> QED BY <1>3, <2>2, CoversItself, OpenRecovers
<1> QED BY <1>1, <1>2, <1>3

LEMMA InterruptedRecovers ==
  ASSUME BaseInv, FilesInv, NumberInv, KeepInv, NEW e \in Interrupted
  PROVE  Recovers(e)
<1>1. PICK d \in LogWrites : \/ e = d
                             \/ bg.pc \in Committing /\ e \in FailedWrites(d, bg.edit)
                             \/ up = "newcurrent" /\ e = Pointed(d, 1)
                             \/ up = "current" /\ e = Pointed(d, vs.manifest)
  BY InterruptedCases
<1>2. /\ IsSound(d) /\ d.tables = disk.tables /\ d.manifests = disk.manifests /\ d.current = disk.current /\ SameTables(d)
      /\ \A m \in DOMAIN disk.logs : m \in DOMAIN d.logs /\ Covers(d.logs[m], disk.logs[m])
      /\ up \notin Opened => d = disk
  BY LogWritesCover DEF SameTables
<1>3. bg.pc \in Committing => up \in Opened
  BY DEF BaseInv, BgInv, Committing
<1>4. CASE up \in Opened
  <2> DEFINE f == Current(disk)
             g == Current(e)
  <2>0. f \in Records(EditRecords) /\ f.synced \in Nat /\ disk.current # 0 /\ bg.edit \in EditRecords
    <3>1. disk.current # 0
      BY <1>4 DEF NumberInv, OpenNumbers
    <3>2. f \in Records(EditRecords)
      BY <3>1, CurrentRecords DEF BaseInv, ManifestInv
    <3> QED BY <3>1, <3>2 DEF Records, BaseInv, TypesInv, BgTypes, IsBg
  <2>1. CASE e = d
    <3>1. g = f
      BY <1>2, <2>1 DEF Current
    <3> HIDE DEF g, f
    <3>2. \A k \in 1 .. Len(g.recs) : Point(g, k) => SamePoint(g, f, k)
      BY <2>0, <3>1, SamePoints
    <3> QED BY <1>2, <1>4, <2>0, <2>1, <3>2, OpenRecovers DEF f, g
  <2>2. CASE bg.pc \in Committing /\ e \in FailedWrites(d, bg.edit)
    <3>1. /\ e.tables = d.tables /\ e.logs = d.logs /\ e.current = d.current
          /\ g.synced = f.synced /\ g.recs \in {f.recs, f.recs \o <<TornEdit>>, f.recs \o <<bg.edit>>}
      BY <1>2, <1>4, <2>0, <2>2, FailedManifest
    <3> HIDE DEF g, f
    <3>2. Longer(g, f, bg.edit)
      BY <2>0, <3>1 DEF Longer
    <3>3. \A k \in 1 .. Len(g.recs) : Point(g, k) => SamePoint(g, f, k) \/ EditedPoint(g, f, bg.edit, k)
      BY <2>0, <3>2, PointAppended
    <3> QED BY <1>2, <1>4, <2>0, <2>2, <3>1, <3>3, OpenRecovers DEF f, g
  <2> QED BY <1>1, <1>4, <2>1, <2>2 DEF Opened
<1>5. CASE up \notin Opened
  <2>1. CASE e = d
    BY <1>2, <1>5, <2>1, DiskRecovers
  <2>2. CASE up = "newcurrent" /\ e = Pointed(d, 1)
    <3>1. disk.current = 0 /\ 1 \in DOMAIN disk.manifests
      BY <2>2 DEF BaseInv, ManifestInv
    <3>2. Due = {} /\ e.current = 1
      BY <1>2, <2>2, <3>1, PointedSound DEF KeepInv
    <3>3. Safe(e, Current(e))
      BY <3>2 DEF Safe, Kept
    <3> QED BY <3>2, <3>3 DEF Recovers
  <2>3. CASE up = "current" /\ e = Pointed(d, vs.manifest)
    BY <1>2, <1>5, <2>3, PointedRecovers
  <2> QED BY <1>1, <1>3, <1>5, <2>1, <2>2, <2>3
<1> QED BY <1>4, <1>5

-----------------------------------------------------------------------------
(***************************************************************************)
(* What a replay of the manifest finds, record for record.                 *)
(***************************************************************************)
LEMMA EditsPoint ==
  ASSUME NEW f \in Records(EditRecords), NEW k \in 1 .. Len(f.recs), Point(f, k), LastPoint(f, k)
  PROVE  Len(Edits(f.recs)) = k /\ ~Corrupt(f.recs)
<1> DEFINE recs == f.recs
           e == Edits(recs)
<1>1. recs \in Seq(EditRecords) /\ Len(recs) \in Nat /\ k \in Nat /\ k > 0 /\ NoTorn(recs, k)
  BY LenProperties DEF Records, Point
<1>2. /\ DOMAIN e = 1 .. Len(e) /\ Len(e) \in Nat /\ Len(e) \in {Len(recs), Len(recs) - 1}
      /\ \A i \in 1 .. Len(e) : e[i] = recs[i]
  BY <1>1, EditsOf
<1>3. recs # <<>>
  BY <1>1, EmptySeq
<1>4. Len(e) = k
  <2>1. CASE k = Len(recs)
    <3>1. recs[Len(recs)] # TornEdit
      BY <1>1, <2>1 DEF NoTorn
    <3>2. e = recs
      BY <3>1 DEF Edits
    <3> QED BY <2>1, <3>2
  <2>2. CASE k + 1 = Len(recs) /\ recs[k + 1] = TornEdit
    <3>1. e = SubSeq(recs, 1, Len(recs) - 1)
      BY <1>3, <2>2 DEF Edits
    <3>2. Len(recs) - 1 = k /\ k <= Len(recs)
      BY <1>1, <2>2
    <3>3. e = SubSeq(recs, 1, k)
      BY <3>1, <3>2
    <3> HIDE DEF e
    <3> QED BY <1>1, <3>2, <3>3, SubSeqProperties
  <2> QED BY <2>1, <2>2 DEF LastPoint
<1> HIDE DEF e
<1>5. \A i \in DOMAIN e : e[i] # TornEdit
  BY <1>1, <1>2, <1>4 DEF NoTorn
<1>6. e # <<>>
  BY <1>1, <1>4, EmptySeq
<1> QED BY <1>4, <1>5, <1>6 DEF Corrupt, e

LEMMA ReplayedPoint ==
  ASSUME NEW f \in Records(EditRecords), NEW names, FileSound(f, names), ~Corrupt(f.recs)
  PROVE  /\ Len(Edits(f.recs)) \in 1 .. Len(f.recs)
         /\ Point(f, Len(Edits(f.recs))) /\ LastPoint(f, Len(Edits(f.recs)))
<1> DEFINE recs == f.recs
           e == Edits(recs)
           n == Len(e)
<1>1. recs \in Seq(EditRecords) /\ Len(recs) \in Nat /\ f.synced \in Nat /\ f.synced <= Len(recs)
  BY LenProperties DEF Records
<1>2. /\ e \in Seq(EditRecords) /\ DOMAIN e = 1 .. n /\ n \in Nat /\ n \in {Len(recs), Len(recs) - 1}
      /\ \A i \in 1 .. n : i \in 1 .. Len(recs) /\ e[i] = recs[i]
      /\ e # <<>> => n > 0
  BY <1>1, EditsOf
<1>3. NoTorn(recs, n) /\ n > 0
  BY <1>2 DEF Corrupt, NoTorn
<1>4. CASE n = Len(recs)
  BY <1>1, <1>2, <1>3, <1>4 DEF Point, LastPoint
<1>5. CASE n # Len(recs)
  <2>1. recs # <<>> /\ recs[Len(recs)] = TornEdit
    BY <1>5 DEF Edits
  <2>2. Len(recs) > 0
    BY <1>1, <2>1, EmptySeq
  <2>3. f.synced # Len(recs)
    BY <2>1, <2>2 DEF FileSound
  <2> HIDE DEF e
  <2>4. n + 1 = Len(recs) /\ n \in f.synced .. Len(recs)
    BY <1>1, <1>2, <1>5, <2>3
  <2>5. n \in 1 .. Len(recs) /\ Point(f, n) /\ LastPoint(f, n)
    BY <1>1, <1>2, <1>3, <2>1, <2>4 DEF Point, LastPoint
  <2> QED BY <2>5 DEF e
<1> QED BY <1>4, <1>5

LEMMA ReplayedTables ==
  ASSUME NEW recs \in Seq(EditRecords), ~Corrupt(recs)
  PROVE  /\ Replayed(recs).tables = TablesOf(recs, Len(Edits(recs)))
         /\ Replayed(recs).log = recs[Len(Edits(recs))].log
<1> DEFINE e == Edits(recs)
           n == Len(e)
<1>1. /\ e \in Seq(EditRecords) /\ DOMAIN e = 1 .. n /\ n \in Nat
      /\ \A i \in 1 .. n : e[i] = recs[i]
      /\ n > 0
  BY EditsOf DEF Corrupt
<1>2. Replayed(recs).log = e[n].log
  BY DEF Replayed
<1>3. Replayed(recs).tables = {x \in UNION {e[i].add : i \in DOMAIN e} :
                                 \E i \in DOMAIN e : x \in e[i].add /\ \A j \in i + 1 .. Len(e) : x \notin e[j].del}
  BY DEF Replayed
<1> HIDE DEF e
<1>4. \A i \in 1 .. n : e[i].add \subseteq Tables
  <2>1. \A i \in 1 .. n : e[i] \in EditRecords
    BY <1>1, ElementOfSeq
  <2> QED BY <2>1 DEF EditRecords
<1>5. \A x : x \in Replayed(recs).tables <=>
               x \in Tables /\ \E i \in 1 .. n : x \in e[i].add /\ \A j \in i + 1 .. n : x \notin e[j].del
  BY <1>1, <1>3, <1>4
<1>6. \A x : \A i \in 1 .. n : (\A j \in i + 1 .. n : x \notin e[j].del) <=> (\A j \in i + 1 .. n : x \notin recs[j].del)
  BY <1>1
<1>7. \A x : x \in Replayed(recs).tables <=> x \in TablesOf(recs, n)
  BY <1>1, <1>5, <1>6 DEF TablesOf
<1>8. Replayed(recs).tables = TablesOf(recs, n)
  BY <1>7, Zenon
<1> QED BY <1>1, <1>2, <1>8 DEF e

\* What recovery finds is what is found at the end of the manifest.
LEMMA ContentsFound ==
  ASSUME NEW d, IsSound(d), d.current # 0, ~Corrupt(Current(d).recs), NEW w
  PROVE  w \in Contents(d) <=> Found("process", d, Current(d), Len(Edits(Current(d).recs)), w)
<1> DEFINE f == Current(d)
           recs == f.recs
           k == Len(Edits(recs))
           v == Replayed(recs)
<1>1. recs \in Seq(EditRecords) /\ IsDisk(d)
  BY CurrentRecords DEF Records, IsSound
<1>2. v.tables = TablesOf(recs, k) /\ v.log = recs[k].log
  BY <1>1, ReplayedTables
<1>3. Contents(d) = Recoverable(d, recs)
  BY DEF Contents, Current
<1>4. Recoverable(d, recs) = (UNION {d.tables[n] : n \in Numbers(v.tables) \cap DOMAIN d.tables})
        \union (UNION {InLog(d.logs[n].recs) : n \in {m \in DOMAIN d.logs : m >= v.log}})
  BY DEF Recoverable
<1> HIDE DEF v, k, recs, f
<1>5. w \in Contents(d) <=> \/ \E n \in Numbers(v.tables) \cap DOMAIN d.tables : w \in d.tables[n]
                            \/ \E n \in DOMAIN d.logs : n >= v.log /\ w \in InLog(d.logs[n].recs)
  BY <1>3, <1>4
<1>6. (\E n \in Numbers(v.tables) \cap DOMAIN d.tables : w \in d.tables[n]) <=> InTables(d.tables, v.tables, w)
  BY DEF Numbers, InTables
<1>7. \A n \in DOMAIN d.logs : w \in InLog(d.logs[n].recs) <=> InRecs(d.logs[n].recs, Len(d.logs[n].recs), w)
  <2>1. \A n \in DOMAIN d.logs : d.logs[n].recs \in Seq(SUBSET Batches)
    BY <1>1 DEF IsDisk, IsFiles, Records
  <2> QED BY <2>1, InLogIs
<1>8. (\E n \in DOMAIN d.logs : n >= v.log /\ w \in InLog(d.logs[n].recs)) <=> InLogs("process", d.logs, v.log, w)
  BY <1>7 DEF InLogs, Reach
<1>9. w \in Contents(d) <=> Found("process", d, f, k, w)
  BY <1>2, <1>5, <1>6, <1>8 DEF Found, recs
<1> QED BY <1>9 DEF f, k, recs

-----------------------------------------------------------------------------
(***************************************************************************)
(* A crash of the machine keeps the synced records, and they are enough    *)
(* for the writes with WriteOptions::sync.                                 *)
(***************************************************************************)
LEMMA CutFinds ==
  ASSUME NEW d, IsSound(d), d.current # 0, NEW e \in PowerLosses(d),
         NEW k \in 1 .. Len(Current(e).recs), Point(Current(e), k)
  PROVE  /\ k \in 1 .. Len(Current(d).recs) /\ Point(Current(d), k)
         /\ \A w : Found("power", d, Current(d), k, w) => Found("power", e, Current(e), k, w)
<1> DEFINE f == Current(d)
           g == Current(e)
<1>1. /\ IsDisk(d) /\ e.tables = d.tables /\ e.current = d.current
      /\ IsCut(e.manifests, d.manifests) /\ IsCut(e.logs, d.logs)
  BY PowerLossDisk DEF IsSound
<1>2. d.current \in DOMAIN d.manifests /\ f \in Records(EditRecords)
  BY CurrentRecords DEF IsSound, CurrentThere
<1>3. PICK j \in f.synced .. Len(f.recs) : g = [recs |-> SubSeq(f.recs, 1, j), synced |-> f.synced]
  BY <1>1, <1>2 DEF IsCut, Current
<1>4. /\ g.synced = f.synced /\ Len(g.recs) = j /\ \A i \in 1 .. j : g.recs[i] = f.recs[i]
      /\ j \in Nat /\ Len(f.recs) \in Nat /\ f.synced \in Nat
  <2>1. f.synced \in Nat /\ Len(f.recs) \in Nat
    BY <1>2, LenProperties DEF Records
  <2> QED BY <1>2, <1>3, <2>1, CutRecords
<1> HIDE DEF f, g
<1>5. k \in 1 .. j /\ k \in g.synced .. Len(g.recs) /\ k > 0 /\ NoTorn(g.recs, k)
  BY <1>4 DEF Point, g
<1>6. k \in Nat /\ k \in 1 .. Len(f.recs) /\ k \in f.synced .. Len(f.recs) /\ \A i \in 1 .. k : g.recs[i] = f.recs[i]
  BY <1>3, <1>4, <1>5
<1>7. TablesOf(g.recs, k) = TablesOf(f.recs, k) /\ NoTorn(f.recs, k) /\ g.recs[k] = f.recs[k]
  <2>1. TablesOf(g.recs, k) = TablesOf(f.recs, k) /\ (NoTorn(g.recs, k) <=> NoTorn(f.recs, k))
    BY <1>6, TablesPrefix
  <2> QED BY <1>5, <1>6, <2>1
<1>8. Point(f, k)
  BY <1>5, <1>6, <1>7 DEF Point
<1>9. ASSUME NEW m \in DOMAIN d.logs, NEW w, InRecs(d.logs[m].recs, Reach("power", d.logs[m]), w)
      PROVE  m \in DOMAIN e.logs /\ InRecs(e.logs[m].recs, Reach("power", e.logs[m]), w)
  <2> DEFINE l == d.logs[m]
  <2>1. l \in Records(SUBSET Batches)
    BY <1>1 DEF IsDisk, IsFiles
  <2>2. PICK i \in l.synced .. Len(l.recs) : e.logs[m] = [recs |-> SubSeq(l.recs, 1, i), synced |-> l.synced]
    BY <1>1 DEF IsCut
  <2>3. l.synced \in Nat /\ l.synced <= i /\ i \in Nat
    <3>1. l.synced \in Nat /\ Len(l.recs) \in Nat
      BY <2>1, LenProperties DEF Records
    <3> QED BY <2>2, <3>1
  <2>4. e.logs[m].synced = l.synced /\ \A n \in 1 .. l.synced : e.logs[m].recs[n] = l.recs[n]
    BY <2>1, <2>2, <2>3, CutRecords
  <2>5. InRecs(l.recs, l.synced, w)
    BY <1>9 DEF Reach
  <2> HIDE DEF l
  <2>6. InRecs(e.logs[m].recs, l.synced, w)
    BY <2>3, <2>4, <2>5, RecsPrefix
  <2>7. m \in DOMAIN e.logs
    BY <1>1 DEF IsCut
  <2> QED BY <2>4, <2>6, <2>7 DEF Reach
<1>10. ASSUME NEW w, Found("power", d, f, k, w)
       PROVE  Found("power", e, g, k, w)
  <2>1. CASE InTables(d.tables, TablesOf(f.recs, k), w)
    BY <1>1, <1>7, <2>1 DEF Found
  <2>2. CASE InLogs("power", d.logs, f.recs[k].log, w)
    <3>1. InLogs("power", e.logs, f.recs[k].log, w)
      BY <1>9, <2>2 DEF InLogs
    <3> QED BY <1>7, <3>1 DEF Found
  <2> QED BY <1>10, <2>1, <2>2 DEF Found
<1> QED BY <1>6, <1>8, <1>10 DEF f, g

LEMMA SyncedFound ==
  ASSUME NEW d, IsDisk(d), NEW f, NEW k, NEW w, Found("power", d, f, k, w)
  PROVE  Found("process", d, f, k, w)
<1>1. ASSUME NEW m \in DOMAIN d.logs, InRecs(d.logs[m].recs, Reach("power", d.logs[m]), w)
      PROVE  InRecs(d.logs[m].recs, Reach("process", d.logs[m]), w)
  <2>1. d.logs[m] \in Records(SUBSET Batches)
    BY DEF IsDisk, IsFiles
  <2>2. d.logs[m].synced \in Nat /\ Len(d.logs[m].recs) \in Nat /\ d.logs[m].synced <= Len(d.logs[m].recs)
    BY <2>1, LenProperties DEF Records
  <2> QED BY <1>1, <2>2, RecsMore DEF Reach
<1> QED BY <1>1 DEF Found, InLogs

LEMMA CutRecovers ==
  ASSUME NEW d, IsSound(d), Recovers(d), NEW e \in PowerLosses(d)
  PROVE  /\ e.current = 0 => Due = {}
         /\ e.current # 0 => /\ Kept("power", Due \cap Sync, e, Current(e))
                             /\ Kept("process", Due \cap Sync, e, Current(e))
<1>1. e.current = d.current /\ IsDisk(e)
  BY PowerLossDisk DEF IsSound
<1>2. CASE d.current = 0
  BY <1>1, <1>2 DEF Recovers
<1>3. CASE d.current # 0
  <2>1. Kept("power", Due \cap Sync, d, Current(d))
    BY <1>3 DEF Recovers, Safe
  <2>2. ASSUME NEW k \in 1 .. Len(Current(e).recs), Point(Current(e), k), NEW w \in Due \cap Sync
        PROVE  Found("power", e, Current(e), k, w)
    <3>1. /\ k \in 1 .. Len(Current(d).recs) /\ Point(Current(d), k)
          /\ Found("power", d, Current(d), k, w) => Found("power", e, Current(e), k, w)
      BY <1>3, <2>2, CutFinds
    <3> QED BY <2>1, <2>2, <3>1 DEF Kept
  <2>3. Kept("power", Due \cap Sync, e, Current(e))
    BY <2>2 DEF Kept
  <2>4. Kept("process", Due \cap Sync, e, Current(e))
    BY <1>1, <2>2, SyncedFound DEF Kept
  <2> QED BY <1>1, <1>3, <2>3, <2>4
<1> QED BY <1>2, <1>3

\* What memory held is not counted any more.
LEMMA ResetDue ==
  ASSUME Reset, excused \subseteq excused'
  PROVE  Due' \subseteq Due /\ \A w \in Due' : ret[w] = "ok" /\ w \in Batches /\ w \notin excused'
<1>1. ASSUME NEW w \in Batches, Succeeded(w)'
      PROVE  ret[w] = "ok"
  <2>1. status' = [v \in Writer |-> "none"] /\ ret' = ret
    BY DEF Reset
  <2> QED BY <1>1, <2>1 DEF Succeeded, Batches
<1> QED BY <1>1 DEF Due, Succeeded

LEMMA ResetKept ==
  ASSUME Reset, up' = "closed", excused \subseteq excused',
         disk'.current = 0 => Due = {},
         disk'.current # 0 => Kept("process", Due', disk', Current(disk')) /\ Kept("power", Due' \cap Sync, disk', Current(disk'))
  PROVE  KeepInv'
<1>1. disk'.current = 0 => Due' = {}
  BY ResetDue
<1>2. disk'.current # 0 => Safe(disk, Current(disk))'
  BY DEF Safe
<1> QED BY <1>1, <1>2 DEF KeepInv, Opened, Replaying

LEMMA FewerKept ==
  ASSUME NEW kind, NEW more, NEW batches \in SUBSET more, NEW d, NEW f, Kept(kind, more, d, f)
  PROVE  Kept(kind, batches, d, f)
  BY DEF Kept

LEMMA RecoversReset ==
  ASSUME Reset, up' = "closed", excused' = excused, Recovers(disk')
  PROVE  KeepInv'
<1>1. Due' \subseteq Due
  BY ResetDue
<1>2. disk'.current # 0 => Kept("process", Due, disk', Current(disk')) /\ Kept("power", Due \cap Sync, disk', Current(disk'))
  BY DEF Recovers, Safe
<1>3. disk'.current # 0 => Kept("process", Due', disk', Current(disk')) /\ Kept("power", Due' \cap Sync, disk', Current(disk'))
  BY <1>1, <1>2, FewerKept
<1>4. disk'.current = 0 => Due = {}
  BY DEF Recovers
<1> QED BY <1>3, <1>4, ResetKept

LEMMA CutReset ==
  ASSUME Reset, up' = "closed", excused' = excused \union {w \in Batches \ (Sync \union Contents(disk')) : ret[w] = "ok"},
         NEW d, IsSound(d), Recovers(d), disk' \in PowerLosses(d)
  PROVE  KeepInv'
<1> DEFINE e == disk'
           f == Current(disk')
<1>1. IsSound(e)
  BY CutSound
<1>2. /\ Due' \subseteq Due
      /\ \A w \in Due' : w \in Sync \/ w \in Contents(e)
  BY ResetDue
<1>3. /\ e.current = 0 => Due = {}
      /\ e.current # 0 => Kept("power", Due \cap Sync, e, f) /\ Kept("process", Due \cap Sync, e, f)
  BY CutRecovers
<1>4. ASSUME e.current # 0
      PROVE  Kept("power", Due' \cap Sync, e, f)
  BY <1>2, <1>3, <1>4, FewerKept
<1>5. ASSUME e.current # 0, NEW k \in 1 .. Len(f.recs), Point(f, k), LastPoint(f, k), NEW w \in Due'
      PROVE  Found("process", e, f, k, w)
  <2>1. CASE w \in Sync
    BY <1>2, <1>3, <1>5, <2>1 DEF Kept
  <2>2. CASE w \in Contents(e)
    <3>1. f \in Records(EditRecords)
      BY <1>1, <1>5, CurrentRecords
    <3>2. Len(Edits(f.recs)) = k /\ ~Corrupt(f.recs)
      BY <1>5, <3>1, EditsPoint
    <3>3. w \in Contents(e) <=> Found("process", e, f, Len(Edits(f.recs)), w)
      BY <1>1, <1>5, <3>2, ContentsFound
    <3> QED BY <2>2, <3>2, <3>3
  <2> QED BY <1>2, <1>5, <2>1, <2>2
<1>6. e.current # 0 => Kept("process", Due', e, f)
  BY <1>5 DEF Kept
<1> QED BY <1>3, <1>4, <1>6, ResetKept

LEMMA CrashKept ==
  ASSUME BaseInv, FilesInv, NumberInv, KeepInv, NEW kind \in Crashes, Crash(kind)
  PROVE  KeepInv'
<1>1. /\ disk' \in Survivors(kind) /\ Reset /\ up' = "closed"
      /\ excused' = IF kind = "process" THEN excused
                    ELSE excused \union {w \in Batches \ (Sync \union Contents(disk')) : ret[w] = "ok"}
  BY DEF Crash
<1>2. CASE kind = "process"
  <2>1. disk' \in Interrupted /\ excused' = excused
    BY <1>1, <1>2 DEF Survivors
  <2>2. Recovers(disk')
    BY <2>1, InterruptedRecovers
  <2> QED BY <1>1, <2>1, <2>2, RecoversReset
<1>3. CASE kind # "process"
  <2>1. PICK d \in Interrupted : disk' \in PowerLosses(d)
    BY <1>1, <1>3 DEF Survivors
  <2>2. IsSound(d) /\ Recovers(d)
    BY InterruptedSound, InterruptedRecovers
  <2> QED BY <1>1, <1>3, <2>1, <2>2, CutReset
<1> QED BY <1>2, <1>3

LEMMA StillKept ==
  ASSUME KeepInv, UNCHANGED <<pc, ret, status, queue, lead, mem, imm, logfile, vs, bg, rec, disk, excused>>,
         up' = up \/ (up \in Opened /\ up' \in Opened)
  PROVE  KeepInv'
<1>1. Due' = Due /\ Group' = Group
  BY DEF Due, Succeeded, Group
<1>2. up \notin Opened => up' = up
  OBVIOUS
<1>3. CASE up \in Opened
  <2>1. LogKept /\ VersionKept /\ EditKept /\ up' \in Opened /\ up' \notin Replaying
    BY <1>3 DEF KeepInv, Opened, Replaying
  <2>2. LogKept'
    BY <1>1, <2>1 DEF LogKept, Promised, InSync
  <2>3. VersionKept'
    BY <1>1, <2>1 DEF VersionKept, PointKept, Held, Promised
  <2>4. EditKept'
    BY <2>1 DEF EditKept
  <2> QED BY <1>1, <2>1, <2>2, <2>3, <2>4 DEF KeepInv
<1>4. CASE up \notin Opened
  BY <1>1, <1>2, <1>4 DEF KeepInv, Safe, ReplayKept
<1> QED BY <1>3, <1>4

LEMMA CallerKept ==
  ASSUME BaseInv, NumberInv, KeepInv, (\E r \in Reader : GetBegins(r) \/ GetEnds(r)) \/ Close \/ Closing \/ UNCHANGED vars
  PROVE  KeepInv'
<1>1. CASE (\E r \in Reader : GetBegins(r) \/ GetEnds(r)) \/ Close \/ UNCHANGED vars
  <2>1. /\ UNCHANGED <<pc, ret, status, queue, lead, mem, imm, logfile, vs, bg, rec, disk, excused>>
        /\ up' = up \/ (up \in Opened /\ up' \in Opened)
    BY <1>1 DEF GetBegins, GetEnds, Close, vars, writerVars, memVars, Opened
  <2> QED BY <2>1, StillKept
<1>2. CASE Closing /\ scheduled
  <2>1. /\ UNCHANGED <<pc, ret, status, queue, lead, mem, imm, logfile, vs, bg, rec, disk, excused>>
        /\ up \in Opened /\ up' \in Opened
    BY <1>2 DEF Closing, writerVars, memVars, Opened
  <2> QED BY <2>1, StillKept
<1>3. CASE Closing /\ ~scheduled
  <2>1. Reset /\ up' = "closed" /\ excused' = excused /\ disk' = disk
    BY <1>3 DEF Closing
  <2> QED BY <2>1, DiskRecovers, RecoversReset
<1> QED BY <1>1, <1>2, <1>3

LEMMA OpenFailsKept ==
  ASSUME BaseInv, NumberInv, KeepInv, OpenFails
  PROVE  KeepInv'
<1>1. /\ Reset /\ up' = "closed" /\ excused' = excused
      /\ disk' = IF up = "current" THEN Dropped(disk, vs.manifest) ELSE disk
  BY DEF OpenFails, Dropped
<1>2. CASE up # "current"
  BY <1>1, <1>2, DiskRecovers, RecoversReset
<1>3. CASE up = "current"
  <2>1. IsSound(disk) /\ disk.current < vs.manifest /\ disk.current \in Nat /\ vs.manifest \in Nat
    BY <1>3 DEF BaseInv, ManifestInv, Replaying, TypesInv, IsVersionSet, IsDisk
  <2>2. vs.manifest # disk.current
    BY <2>1
  <2>3. /\ disk'.current = disk.current /\ disk'.tables = disk.tables /\ disk'.logs = disk.logs
        /\ DOMAIN disk'.manifests = DOMAIN disk.manifests \ {vs.manifest}
        /\ \A m \in DOMAIN disk'.manifests : disk'.manifests[m] = disk.manifests[m]
    BY <1>1, <1>3, <2>1, <2>2, DroppedDisk, Zenon
  <2>4. disk.current # 0 => Current(disk') = Current(disk)
    BY <2>1, <2>2, <2>3 DEF Current, IsSound, CurrentThere
  <2>5. Recovers(disk)
    BY DiskRecovers
  <2>6. Recovers(disk')
    BY <2>3, <2>4, <2>5 DEF Recovers, Safe, Kept, Found
  <2> QED BY <1>1, <2>6, RecoversReset
<1> QED BY <1>2, <1>3

-----------------------------------------------------------------------------
(***************************************************************************)
(* DB::Open.  The logs become tables before the new manifest names them,   *)
(* and the old manifest with its logs stays until CURRENT names the new.   *)
(***************************************************************************)
LEMMA OpenDue ==
  ASSUME UNCHANGED openRest
  PROVE  Due' = Due
  BY DEF openRest, Due, Succeeded

LEMMA CreateKept ==
  ASSUME BaseInv, KeepInv, Open \/ NewDB \/ SetCurrentFile
  PROVE  KeepInv'
<1>1. Due' = Due
  BY OpenDue DEF Open, NewDB, SetCurrentFile
<1>2. CASE Open
  <2>1. /\ up \notin Opened /\ up' \notin Opened /\ up' \notin Replaying
        /\ UNCHANGED <<disk, rec, vs, logfile>>
    BY <1>2 DEF Open, Opened, Replaying
  <2> QED BY <1>1, <2>1, LessKept
<1>3. CASE NewDB \/ SetCurrentFile
  <2>1. disk.current = 0 /\ up' \notin Opened /\ up' \notin Replaying
    BY <1>3 DEF BaseInv, ManifestInv, NewDB, SetCurrentFile, Opened, Replaying
  <2>2. Due' = {}
    BY <1>1, <2>1 DEF KeepInv
  <2>3. Safe(disk, Current(disk))'
    BY <2>2 DEF Safe, Kept
  <2> QED BY <2>1, <2>2, <2>3 DEF KeepInv
<1> QED BY <1>2, <1>3

LEMMA SafeStays ==
  ASSUME BaseInv, KeepInv, up \notin Opened, disk.current # 0, Due' = Due, Current(disk') = Current(disk),
         \A m \in DOMAIN disk.logs : m \in DOMAIN disk'.logs /\ Covers(disk'.logs[m], disk.logs[m]),
         \A m \in DOMAIN disk.tables : \/ NotTaken(Current(disk), m)
                                       \/ m \in DOMAIN disk'.tables /\ disk'.tables[m] = disk.tables[m]
  PROVE  Safe(disk, Current(disk))'
<1> DEFINE f == Current(disk)
<1>1. f \in Records(EditRecords) /\ Len(f.recs) \in Nat
  BY CurrentRecords DEF BaseInv, ManifestInv
<1>2. Safe(disk, f)
  BY DEF KeepInv
<1> HIDE DEF f
<1>3. ASSUME NEW k \in 1 .. Len(f.recs), NEW w, NEW kind \in Kinds, Found(kind, disk, f, k, w)
      PROVE  Found(kind, disk', f, k, w)
  <2>1. CASE InTables(disk.tables, TablesOf(f.recs, k), w)
    <3>1. \A x \in TablesOf(f.recs, k) : ~NotTaken(f, x[2])
      BY <1>1 DEF TablesOf, NotTaken
    <3>2. Same(disk.tables, disk'.tables, TablesOf(f.recs, k))
      BY <3>1 DEF Same, f
    <3> QED BY <2>1, <3>2, TablesMore DEF Found
  <2>2. CASE InLogs(kind, disk.logs, f.recs[k].log, w)
    <3>1. InLogs(kind, disk'.logs, f.recs[k].log, w)
      BY <2>2, LogsMore
    <3> QED BY <3>1 DEF Found
  <2> QED BY <1>3, <2>1, <2>2 DEF Found
<1>4. Kept("process", Due, disk', f) /\ Kept("power", Due \cap Sync, disk', f)
  BY <1>2, <1>3 DEF Safe, Kept, Kinds
<1>5. Current(disk)' = f
  BY DEF f, Current
<1> QED BY <1>4, <1>5 DEF Safe

LEMMA RecoverKept ==
  ASSUME BaseInv, FilesInv, KeepInv, Recover
  PROVE  KeepInv'
<1> DEFINE f == Current(disk)
           recs == f.recs
           v == Replayed(recs)
           k == Len(Edits(recs))
<1>1. up = "recover" /\ disk.current # 0 /\ IsSound(disk) /\ rec.add = {}
  BY DEF Recover, BaseInv, ManifestInv, FilesInv, Replaying
<1>2. Due' = Due /\ UNCHANGED <<disk, logfile>>
  BY OpenDue DEF Recover
<1>3. f \in Records(EditRecords) /\ recs \in Seq(EditRecords) /\ FileSound(f, DOMAIN disk.tables)
  BY <1>1, CurrentRecords DEF Records, FilesInv, Durable, Current
<1>4. CASE Corrupt(recs) \/ MissingFiles(disk, v.tables) # {}
  <2>1. up' = "unusable" /\ UNCHANGED <<vs, rec>>
    BY <1>4 DEF Recover, Current
  <2> QED BY <1>1, <1>2, <2>1, LessKept DEF Opened, Replaying
<1>5. CASE ~(Corrupt(recs) \/ MissingFiles(disk, v.tables) # {})
  <2>1. /\ vs'.tables = v.tables /\ rec' = [rec EXCEPT !.logs = LogsToReplay(disk, v)] /\ up' = "replay"
    BY <1>5 DEF Recover, Current
  <2>2. rec'.logs = {n \in DOMAIN disk.logs : n >= v.log} /\ rec'.add = {}
    BY <1>1, <2>1 DEF LogsToReplay, BaseInv, TypesInv, OpenTypes
  <2>3. k \in 1 .. Len(recs) /\ Point(f, k) /\ LastPoint(f, k)
    BY <1>3, <1>5, ReplayedPoint
  <2>4. v.tables = TablesOf(recs, k) /\ v.log = recs[k].log
    BY <1>3, <1>5, ReplayedTables
  <2>5. Safe(disk, f) /\ Safe(disk, f)'
    BY <1>1, <1>2 DEF KeepInv, Opened, Safe, Current
  <2> HIDE DEF f, recs, v, k
  <2>6. \A w \in Due : Found("process", disk, f, k, w)
    BY <2>3, <2>5 DEF Safe, Kept, recs
  <2>7. ASSUME NEW w \in Due'
        PROVE  \/ InTables(disk'.tables, vs'.tables \union rec'.add, w)
               \/ \E n \in rec'.logs : InRecs(disk'.logs[n].recs, Len(disk'.logs[n].recs), w)
    <3>1. InTables(disk.tables, v.tables, w) \/ InLogs("process", disk.logs, v.log, w)
      BY <1>2, <2>4, <2>6 DEF Found, recs
    <3>2. vs'.tables \union rec'.add = v.tables
      BY <2>1, <2>2
    <3>3. InLogs("process", disk.logs, v.log, w) => \E n \in rec'.logs : InRecs(disk.logs[n].recs, Len(disk.logs[n].recs), w)
      BY <2>2 DEF InLogs, Reach
    <3> QED BY <1>2, <3>1, <3>2, <3>3
  <2>8. ReplayKept'
    BY <2>1, <2>7 DEF ReplayKept
  <2> QED BY <1>1, <1>2, <2>1, <2>5, <2>8 DEF KeepInv, Opened, f, Current
<1> QED BY <1>4, <1>5

LEMMA ReplayKeeps ==
  ASSUME BaseInv, StampInv, NumberInv, KeepInv, RecoverLogFile
  PROVE  KeepInv'
<1> DEFINE n == CHOOSE k \in rec.logs : \A m \in rec.logs : k <= m
           found == InLog(disk.logs[n].recs)
<1>1. /\ up = "replay" /\ up' = "replay" /\ rec.logs # {} /\ rec.logs \subseteq DOMAIN disk.logs
      /\ rec.logs \subseteq Nat /\ IsSound(disk) /\ IsDisk(disk) /\ IsVersionSet(vs) /\ ReplayNumbers
  BY DEF RecoverLogFile, BaseInv, ManifestInv, Replaying, TypesInv, OpenTypes, NumberInv, IsSound
<1>2. Due' = Due
  BY OpenDue DEF RecoverLogFile
<1>3. n \in rec.logs
  BY <1>1, LeastNatural
<1>4. /\ rec' = [logs |-> rec.logs \ {n}, add |-> IF found = {} THEN rec.add ELSE rec.add \union {<<0, vs.next>>}]
      /\ disk' = IF found = {} THEN disk ELSE Tabled(disk, vs.next, found)
      /\ vs'.tables = vs.tables
  BY <1>1 DEF RecoverLogFile, Tabled, IsVersionSet
<1>5. \A w : w \in found <=> InRecs(disk.logs[n].recs, Len(disk.logs[n].recs), w)
  <2>1. disk.logs[n].recs \in Seq(SUBSET Batches)
    BY <1>1, <1>3 DEF IsDisk, IsFiles, Records
  <2> QED BY <2>1, InLogIs
<1> HIDE DEF found, n
<1>6. vs.next \in Nat /\ disk.current # 0 /\ NotTaken(Current(disk), vs.next)
  <2>1. vs.next \in Nat /\ disk.current # 0
    BY <1>1 DEF IsVersionSet, ReplayNumbers
  <2> QED BY <1>1, <2>1, CurrentRecords, FreshTaken DEF ReplayNumbers
<1>7. /\ disk'.logs = disk.logs /\ disk'.current = disk.current /\ Current(disk') = Current(disk)
      /\ \A m \in DOMAIN disk.tables : m # vs.next => m \in DOMAIN disk'.tables /\ disk'.tables[m] = disk.tables[m]
      /\ found # {} => vs.next \in DOMAIN disk'.tables /\ disk'.tables[vs.next] = found
  <2>1. CASE found = {}
    BY <1>4, <2>1
  <2>2. CASE found # {}
    <3>1. disk' = Tabled(disk, vs.next, found)
      BY <1>4, <2>2
    <3>2. /\ disk'.logs = disk.logs /\ disk'.manifests = disk.manifests /\ disk'.current = disk.current
          /\ DOMAIN disk'.tables = DOMAIN disk.tables \union {vs.next} /\ disk'.tables[vs.next] = found
          /\ \A m \in DOMAIN disk.tables \ {vs.next} : disk'.tables[m] = disk.tables[m]
      BY <1>1, <1>6, <3>1, NewTableDisk
    <3> QED BY <3>2 DEF Current
  <2> QED BY <2>1, <2>2
<1>8. Safe(disk, Current(disk))'
  <2>1. \A m \in DOMAIN disk.tables : \/ NotTaken(Current(disk), m)
                                      \/ m \in DOMAIN disk'.tables /\ disk'.tables[m] = disk.tables[m]
    BY <1>6, <1>7
  <2> QED BY <1>1, <1>2, <1>6, <1>7, <2>1, SafeStays, CoversItself DEF Opened
<1>9. ASSUME NEW w \in Due'
      PROVE  \/ InTables(disk'.tables, vs'.tables \union rec'.add, w)
             \/ \E m \in rec'.logs : InRecs(disk'.logs[m].recs, Len(disk'.logs[m].recs), w)
  <2>1. \/ InTables(disk.tables, vs.tables \union rec.add, w)
        \/ \E m \in rec.logs : InRecs(disk.logs[m].recs, Len(disk.logs[m].recs), w)
    BY <1>1, <1>2, <1>9 DEF KeepInv, ReplayKept, Replaying
  <2>2. CASE InTables(disk.tables, vs.tables \union rec.add, w)
    <3>1. PICK x \in vs.tables \union rec.add : x[2] \in DOMAIN disk.tables /\ w \in disk.tables[x[2]]
      BY <2>2 DEF InTables
    <3>2. x[2] # vs.next
      <4>1. x \in Tables
        BY <1>1, <3>1 DEF IsVersionSet, Versions, BaseInv, TypesInv, OpenTypes
      <4>2. x[2] < vs.next /\ x[2] \in Nat
        BY <1>1, <3>1, <4>1 DEF ReplayNumbers, Below, Tables
      <4> QED BY <1>6, <4>2
    <3>3. x \in vs'.tables \union rec'.add
      BY <1>4, <3>1
    <3> QED BY <1>7, <3>1, <3>2, <3>3 DEF InTables
  <2>3. CASE InRecs(disk.logs[n].recs, Len(disk.logs[n].recs), w)
    <3>1. w \in found /\ found # {}
      BY <1>5, <2>3
    <3>2. <<0, vs.next>> \in vs'.tables \union rec'.add /\ <<0, vs.next>>[2] = vs.next
      BY <1>4, <3>1
    <3> QED BY <1>7, <3>1, <3>2 DEF InTables
  <2>4. CASE \E m \in rec.logs \ {n} : InRecs(disk.logs[m].recs, Len(disk.logs[m].recs), w)
    BY <1>4, <1>7, <2>4
  <2> QED BY <2>1, <2>2, <2>3, <2>4
<1>10. ReplayKept'
  BY <1>1, <1>9 DEF ReplayKept
<1> QED BY <1>1, <1>6, <1>7, <1>8, <1>10 DEF KeepInv, Opened

LEMMA OpenLogKept ==
  ASSUME BaseInv, NumberInv, KeepInv, OpenLog
  PROVE  KeepInv'
<1>1. /\ UNCHANGED openRest /\ up = "replay" /\ up' = "manifest" /\ rec.logs = {} /\ rec' = rec
      /\ logfile' = vs.next /\ vs' = [vs EXCEPT !.next = @ + 1] /\ disk' = WithLog(disk, vs.next)
  BY DEF OpenLog, WithLog
<1>2. IsDisk(disk) /\ IsVersionSet(vs) /\ vs.next \in Nat
  BY DEF BaseInv, TypesInv, IsVersionSet
<1>3. /\ disk'.tables = disk.tables /\ disk'.manifests = disk.manifests /\ disk'.current = disk.current
      /\ DOMAIN disk'.logs = DOMAIN disk.logs \union {vs.next}
      /\ \A m \in DOMAIN disk.logs \ {vs.next} : disk'.logs[m] = disk.logs[m]
  BY <1>1, <1>2, NewLogDisk
<1>4. vs'.next = vs.next + 1 /\ vs'.tables = vs.tables /\ Due' = Due
  BY <1>1, <1>2, OpenDue DEF IsVersionSet
<1>5. disk.current # 0 /\ Current(disk') = Current(disk) /\ \A m \in DOMAIN disk.logs : m < vs.next
  BY <1>1, <1>3 DEF NumberInv, ReplayNumbers, Replaying, Current
<1>6. \A m \in DOMAIN disk.logs : m \in DOMAIN disk'.logs /\ Covers(disk'.logs[m], disk.logs[m])
  <2>1. \A m \in DOMAIN disk.logs : m \in Nat /\ m < vs.next
    BY <1>2, <1>5 DEF IsDisk, IsFiles, Filenames
  <2>2. \A m \in DOMAIN disk.logs : m # vs.next
    BY <1>2, <2>1
  <2> QED BY <1>3, <2>2, CoversItself
<1>7. Safe(disk, Current(disk))'
  BY <1>1, <1>3, <1>4, <1>5, <1>6, SafeStays DEF Opened
<1>8. ReplayKept'
  <2>1. \A w \in Due : InTables(disk.tables, vs.tables \union rec.add, w)
    BY <1>1 DEF KeepInv, ReplayKept, Replaying
  <2>2. logfile' \in DOMAIN disk'.logs /\ logfile' < vs'.next
    BY <1>1, <1>2, <1>3, <1>4
  <2> QED BY <1>1, <1>3, <1>4, <2>1, <2>2 DEF ReplayKept
<1> QED BY <1>1, <1>3, <1>5, <1>7, <1>8 DEF KeepInv, Opened

LEMMA OpenManifestKept ==
  ASSUME BaseInv, NumberInv, KeepInv, OpenManifest
  PROVE  KeepInv'
<1> DEFINE ed == Edit(vs.tables \union rec.add, {}, [vs EXCEPT !.log = logfile])
<1>1. /\ UNCHANGED openRest /\ up = "manifest" /\ up' = "current" /\ UNCHANGED <<logfile, vs, rec>>
      /\ disk' = Manifested(disk, vs.manifest, ed, 1)
  BY DEF OpenManifest, Manifested
<1>2. IsSound(disk) /\ IsVersionSet(vs) /\ vs.next \in Nat /\ rec \in [logs : SUBSET Nat, add : Versions] /\ logfile \in Nat
  BY DEF BaseInv, TypesInv, ManifestInv, IsVersionSet, OpenTypes, MemTypes
<1>3. disk.current < vs.manifest /\ vs.manifest < vs.next /\ disk.current \in Nat /\ vs.manifest \in Nat
  BY <1>1, <1>2 DEF BaseInv, ManifestInv, Replaying, IsSound, IsDisk, IsVersionSet
<1>4. vs.tables \union rec.add \in Versions /\ {} \in Versions
  BY <1>2 DEF IsVersionSet, Versions
<1>5. ed \in EditRecords /\ ed.next = vs.next /\ ed.log = logfile
  BY <1>2, <1>4 DEF Edit, EditRecords, IsVersionSet, Versions
<1> HIDE DEF ed
<1>6. /\ disk'.logs = disk.logs /\ disk'.tables = disk.tables /\ disk'.current = disk.current
      /\ disk'.manifests[vs.manifest].recs = <<ed>>
      /\ \A m \in DOMAIN disk.manifests \ {vs.manifest} : disk'.manifests[m] = disk.manifests[m]
  <2>1. ed.next > vs.manifest
    BY <1>3, <1>5
  <2> QED BY <1>1, <1>2, <1>3, <1>5, <2>1, NewManifestDisk
<1>7. disk.current # 0 /\ Current(disk') = Current(disk) /\ Due' = Due
  <2>1. disk.current # 0
    BY <1>1 DEF NumberInv, ReplayNumbers, Replaying
  <2>2. disk.current \in DOMAIN disk.manifests /\ disk.current # vs.manifest
    BY <1>2, <1>3, <2>1 DEF IsSound, CurrentThere
  <2> QED BY <1>1, <1>6, <2>1, <2>2, OpenDue DEF Current
<1>8. Safe(disk, Current(disk))'
  BY <1>1, <1>6, <1>7, CoversItself, SafeStays DEF Opened
<1>9. ReplayKept'
  <2>1. ReplayKept
    BY <1>1 DEF KeepInv, Replaying
  <2>2. \A i \in 1 .. Len(<<ed>>) : <<ed>>[i].log = logfile
    BY <1>5
  <2> QED BY <1>1, <1>6, <1>7, <2>1, <2>2 DEF ReplayKept
<1> QED BY <1>1, <1>6, <1>7, <1>8, <1>9 DEF KeepInv, Opened

LEMMA OpenCurrentDisk ==
  ASSUME BaseInv, OpenCurrent
  PROVE  /\ disk'.current = vs.manifest /\ Current(disk') = disk.manifests[vs.manifest] /\ vs.manifest # 0
         /\ \A m \in DOMAIN disk.logs : m >= logfile => m \in DOMAIN disk'.logs
         /\ \A m \in DOMAIN disk'.logs : m \in DOMAIN disk.logs /\ disk'.logs[m] = disk.logs[m]
         /\ \A m \in DOMAIN disk'.tables : m \in DOMAIN disk.tables /\ disk'.tables[m] = disk.tables[m]
         /\ vs'.tables = vs.tables \union rec.add /\ vs'.log = logfile /\ vs'.next = vs.next
<1> DEFINE d == Pointed(disk, vs.manifest)
           err == FALSE
           c == NoComp
           pend == {}
<1>1. /\ up = "current" /\ vs' = [vs EXCEPT !.tables = @ \union rec.add, !.log = logfile]
      /\ disk' = DeleteObsoleteFiles(d, vs', c, pend, err)
  BY DEF OpenCurrent, Pointed
<1>2. /\ IsSound(disk) /\ IsVersionSet(vs) /\ vs.manifest \in DOMAIN disk.manifests /\ disk.current < vs.manifest
      /\ disk.current \in Nat /\ vs.manifest \in Nat
  BY <1>1 DEF BaseInv, TypesInv, ManifestInv, Replaying, IsSound, IsDisk, IsVersionSet
<1>3. /\ vs'.tables = vs.tables \union rec.add /\ vs'.log = logfile /\ vs'.next = vs.next /\ vs'.manifest = vs.manifest
      /\ vs.manifest # 0
  BY <1>1, <1>2 DEF IsVersionSet
<1>4. /\ IsDisk(d) /\ d.current = vs.manifest /\ d.manifests = disk.manifests /\ d.tables = disk.tables /\ d.logs = disk.logs
  BY <1>2, PointedSound DEF IsSound
<1>5. ~err
  OBVIOUS
<1> HIDE DEF d, err, c, pend
<1> DEFINE v == vs'
<1>6. disk' = DeleteObsoleteFiles(d, v, c, pend, err)
  BY <1>1
<1>7. v.log = logfile /\ v.manifest = vs.manifest
  BY <1>3
<1> HIDE DEF v
<1> DEFINE e == DeleteObsoleteFiles(d, v, c, pend, err)
<1>8. /\ e.current = d.current
      /\ ~err => /\ DOMAIN e.logs = {n \in DOMAIN d.logs : n >= v.log}
                 /\ DOMAIN e.manifests = {n \in DOMAIN d.manifests : n >= v.manifest}
      /\ \A n \in DOMAIN e.logs : n \in DOMAIN d.logs /\ e.logs[n] = d.logs[n]
      /\ \A n \in DOMAIN e.manifests : n \in DOMAIN d.manifests /\ e.manifests[n] = d.manifests[n]
      /\ \A n \in DOMAIN e.tables : n \in DOMAIN d.tables /\ e.tables[n] = d.tables[n]
  BY <1>4, DeletedDisk
<1>9. disk' = e
  BY <1>6
<1> HIDE DEF e
<1>10. vs.manifest >= vs.manifest /\ vs.manifest \in DOMAIN e.manifests
  BY <1>2, <1>4, <1>5, <1>7, <1>8
<1> QED BY <1>3, <1>4, <1>5, <1>7, <1>8, <1>9, <1>10 DEF Current

LEMMA OpenCurrentKept ==
  ASSUME BaseInv, FilesInv, FilesInv', StampInv, NumberInv, KeepInv, OpenCurrent
  PROVE  KeepInv'
<1> DEFINE g == disk.manifests[vs.manifest]
           t == vs.tables \union rec.add
<1>1. up = "current" /\ up' = "open" /\ UNCHANGED openRest /\ logfile' = logfile
  BY DEF OpenCurrent
<1>2. /\ disk'.current = vs.manifest /\ Current(disk') = g /\ vs.manifest # 0
      /\ \A m \in DOMAIN disk.logs : m >= logfile => m \in DOMAIN disk'.logs
      /\ \A m \in DOMAIN disk'.tables : m \in DOMAIN disk.tables /\ disk'.tables[m] = disk.tables[m]
      /\ vs'.tables = t /\ vs'.log = logfile /\ vs'.next = vs.next
  BY OpenCurrentDisk
<1>3. ReplayKept /\ logfile \in Nat /\ Settled(g, t)
  BY <1>1 DEF KeepInv, Replaying, BaseInv, TypesInv, MemTypes, FilesInv
<1>4. /\ mem' = {} /\ imm' = NoMem /\ bg'.pc = "idle" /\ queue = <<>> /\ pc' = pc /\ Due' = Due
  BY <1>1, NotOpened, OpenDue DEF openRest, StampInv, Opened
<1>5. \A v \in Writer : pc'[v] \notin {"log", "sync"}
  BY <1>4 DEF BaseInv, WriterInv, WritersSound, Leading
<1>6. LogKept'
  <2>1. logfile \in DOMAIN disk.logs /\ logfile < vs.next
    BY <1>1, <1>3 DEF ReplayKept
  <2>2. logfile' \in DOMAIN disk'.logs /\ logfile' < vs'.next /\ vs'.log <= logfile'
    BY <1>1, <1>2, <1>3, <2>1
  <2>3. ~InSync(pc')
    BY <1>5 DEF InSync
  <2> QED BY <1>4, <1>5, <2>2, <2>3 DEF LogKept
<1>7. g.recs \in Seq(EditRecords) /\ Len(g.recs) \in Nat
  <2>1. g \in Records(EditRecords)
    BY <1>1 DEF BaseInv, ManifestInv, TypesInv, IsDisk, IsFiles
  <2> QED BY <2>1, LenProperties DEF Records
<1>8. \A k \in 1 .. Len(g.recs) : Point(g, k) =>
        k = Len(g.recs) /\ TablesOf(g.recs, k) = t /\ \A w \in Due : InTables(disk.tables, TablesOf(g.recs, k), w)
  BY <1>1, NewManifestFinds
<1>9. Len(g.recs) \in 1 .. Len(g.recs) /\ Point(g, Len(g.recs)) /\ TablesOf(g.recs, Len(g.recs)) = t
  BY <1>3, <1>7 DEF Settled, Point
<1> HIDE DEF g, t
<1>10. \A x \in t : x[2] \in DOMAIN disk'.tables
  BY <1>1, <1>2 DEF FilesInv, OpenedInv, There, Opened
<1>11. \A w \in Due : InTables(disk'.tables, t, w)
  BY <1>2, <1>8, <1>9, <1>10 DEF InTables
<1>12. \A i \in 1 .. Len(g.recs) : g.recs[i].log = logfile
  BY <1>1, <1>3 DEF ReplayKept, g
<1>13. VersionKept'
  <2>1. Current(disk)' = g
    BY <1>2 DEF Current
  <2>2. \A x \in t : ~NotTaken(g, x[2])
    BY <1>7, <1>9 DEF TablesOf, NotTaken
  <2>3. ASSUME NEW k \in 1 .. Len(g.recs), Point(g, k)
        PROVE  PointKept(k)'
    <3>1. TablesOf(g.recs, k) = vs'.tables /\ g.recs[k].log = logfile
      BY <1>2, <1>8, <1>12, <2>3
    <3> QED BY <1>1, <1>2, <1>3, <1>4, <2>1, <3>1 DEF PointKept, NoMem
  <2>4. Len(g.recs) > 0
    BY <1>3 DEF Settled
  <2>5. \A w \in Due' : InTables(disk'.tables, vs'.tables, w)
    BY <1>2, <1>4, <1>11
  <2> QED BY <1>2, <2>1, <2>2, <2>3, <2>4, <2>5 DEF VersionKept
<1>14. EditKept'
  BY <1>4 DEF EditKept
<1> QED BY <1>1, <1>2, <1>6, <1>13, <1>14 DEF KeepInv, Opened, Replaying

-----------------------------------------------------------------------------
(***************************************************************************)
(* Reads and crashes.                                                      *)
(***************************************************************************)
LEMMA KeepInit ==
  ASSUME Init
  PROVE  KeepInv
<1>1. up = "closed" /\ Due = {} /\ disk.current = 0
  BY DEF Init, Due, Succeeded, Batches
<1> QED BY <1>1 DEF KeepInv, Opened, Replaying

LEMMA KeepNext ==
  ASSUME BaseInv, FilesInv, StampInv, NumberInv, FailInv, KeepInv, [Next]_vars
  PROVE  KeepInv'
<1>1. CASE \E w \in Writer : Enter(w) \/ WriterStep(w)
  BY <1>1, WriterKept
<1>2. CASE (\E r \in Reader : GetBegins(r) \/ GetEnds(r)) \/ Close \/ Closing \/ UNCHANGED vars
  BY <1>2, CallerKept
<1>3. CASE BackgroundStep
  BY <1>3, BackgroundKept
<1>4. CASE Open \/ NewDB \/ SetCurrentFile
  BY <1>4, CreateKept
<1>5. CASE Recover \/ RecoverLogFile \/ OpenLog \/ OpenManifest
  BY <1>5, RecoverKept, ReplayKeeps, OpenLogKept, OpenManifestKept
<1>6. CASE OpenCurrent
  BY <1>6, OpenCurrentFiles, OpenCurrentKept
<1>7. CASE OpenFails
  BY <1>7, OpenFailsKept
<1>8. CASE \E kind \in Crashes : Crash(kind)
  BY <1>8, CrashKept
<1> QED BY <1>1, <1>2, <1>3, <1>4, <1>5, <1>6, <1>7, <1>8 DEF Next, OpenStep

LEMMA KeepAlways == Spec => [](BaseInv /\ FilesInv /\ StampInv /\ NumberInv /\ FailInv /\ KeepInv)
<1>1. Init => StampInv /\ NumberInv /\ FailInv /\ KeepInv
  BY StampInit, FailInit, KeepInit
<1>2. BaseInv /\ FilesInv /\ StampInv /\ NumberInv /\ FailInv /\ KeepInv /\ [Next]_vars =>
        StampInv' /\ NumberInv' /\ FailInv' /\ KeepInv'
  BY StampNext, FailNext, KeepNext
<1> QED BY <1>1, <1>2, FilesAlways, PTL DEF Spec

LEMMA VisibleIs ==
  ASSUME NEW w
  PROVE  w \in Visible <=> Held(w) \/ \E n \in Numbers(vs.tables) : w \in disk.tables[n]
<1> DEFINE held == UNION imm
           tabled == UNION {disk.tables[n] : n \in Numbers(vs.tables)}
<1>1. (w \in held <=> \E m \in imm : w \in m) /\ (w \in tabled <=> \E n \in Numbers(vs.tables) : w \in disk.tables[n])
  OBVIOUS
<1>2. Visible = mem \union held \union tabled
  BY DEF Visible
<1> HIDE DEF held, tabled
<1> QED BY <1>1, <1>2 DEF Held

LEMMA AckedDue == Acked \subseteq Due
  BY DEF Acked, Due, Succeeded

LEMMA VisibleSettled ==
  ASSUME FilesInv, FailInv, KeepInv
  PROVE  ReadsSettled
<1>1. ASSUME up = "open", NEW w \in Acked
      PROVE  w \in Visible
  <2>1. w \in Due /\ VersionKept
    BY <1>1, AckedDue DEF KeepInv, Opened
  <2>2. Held(w) \/ InTables(disk.tables, vs.tables, w)
    BY <2>1 DEF VersionKept
  <2>3. InTables(disk.tables, vs.tables, w) => \E n \in Numbers(vs.tables) : w \in disk.tables[n]
    BY DEF InTables, Numbers
  <2> QED BY <2>2, <2>3, VisibleIs
<1>2. ASSUME NEW w \in Batches, pc[w] = "done", ret[w] = "error"
      PROVE  w \notin Visible
  <2>1. Failed(w) /\ up \in Opened
    BY <1>2 DEF FailInv, Failed
  <2>2. ~Tabulated(disk, w) /\ ~Held(w)
    BY <2>1 DEF FailInv
  <2>3. Numbers(vs.tables) \subseteq DOMAIN disk.tables
    BY <2>1 DEF FilesInv, OpenedInv, There, Numbers
  <2> QED BY <2>2, <2>3, VisibleIs DEF Tabulated
<1> QED BY <1>1, <1>2 DEF ReadsSettled, AckedVisible, FailedInvisible

LEMMA KeptContents ==
  ASSUME NEW d, IsSound(d), Durable(d), d.current # 0, ~Corrupt(d.manifests[d.current].recs),
         NEW batches, Kept("process", batches, d, Current(d))
  PROVE  batches \subseteq Contents(d)
<1> DEFINE f == Current(d)
           k == Len(Edits(f.recs))
<1>1. f \in Records(EditRecords) /\ ~Corrupt(f.recs) /\ FileSound(f, DOMAIN d.tables)
  BY CurrentRecords DEF Durable, Current
<1>2. k \in 1 .. Len(f.recs) /\ Point(f, k) /\ LastPoint(f, k)
  BY <1>1, ReplayedPoint
<1>3. \A w : w \in Contents(d) <=> Found("process", d, f, k, w)
  BY <1>1, ContentsFound
<1> HIDE DEF k, f
<1>4. \A w \in batches : Found("process", d, f, k, w)
  BY <1>2 DEF Kept, f
<1> QED BY <1>3, <1>4

LEMMA CrashesSafe ==
  ASSUME BaseInv, FilesInv, NumberInv, KeepInv
  PROVE  CrashSafe
<1>1. ASSUME NEW d \in Survivors("process"), d.current # 0, ~Corrupt(d.manifests[d.current].recs)
      PROVE  Acked \subseteq Contents(d)
  <2>1. d \in Interrupted
    BY DEF Survivors
  <2>2. IsSound(d) /\ Durable(d) /\ Kept("process", Due, d, Current(d))
    BY <1>1, <2>1, InterruptedSound, InterruptedDurable, InterruptedRecovers DEF Recovers, Safe
  <2> QED BY <1>1, <2>2, KeptContents, AckedDue
<1>2. ASSUME NEW e \in Survivors("power"), e.current # 0, ~Corrupt(e.manifests[e.current].recs)
      PROVE  Acked \cap Sync \subseteq Contents(e)
  <2>1. PICK d \in Interrupted : e \in PowerLosses(d)
    BY DEF Survivors
  <2>2. IsSound(d) /\ Recovers(d)
    BY InterruptedSound, InterruptedRecovers
  <2>3. IsSound(e) /\ Durable(e) /\ Kept("process", Due \cap Sync, e, Current(e))
    BY <1>2, <2>1, <2>2, SurvivorSound, SurvivorDurable, CutRecovers
  <2>4. Due \cap Sync \subseteq Contents(e)
    BY <1>2, <2>3, KeptContents
  <2> QED BY <2>4, AckedDue
<1> QED BY <1>1, <1>2 DEF CrashSafe, ProcessCrashSafe, SyncDurable

\* Once Write has returned OK, every read of the open database finds the batch,
\* and a Write that returned an error is never found, whatever CompactMemTable,
\* DoCompactionWork, DeleteObsoleteFiles, failing files and earlier crashes did;
\* excused are batches that a crash of the machine or a torn log record took.
THEOREM ReadsSettledHolds == Spec => []ReadsSettled
<1>1. BaseInv /\ FilesInv /\ StampInv /\ NumberInv /\ FailInv /\ KeepInv => ReadsSettled
  BY VisibleSettled
<1> QED BY <1>1, KeepAlways, PTL

\* A crash at any point, inside of any write to a log, a manifest or CURRENT,
\* leaves files from which DB::Open (VersionSet::Recover, RecoverLogFile) gets
\* back every batch that was acknowledged and not logged behind a torn record,
\* and after a crash of the machine every such one with WriteOptions::sync.
THEOREM CrashSafeHolds == Spec => []CrashSafe
<1>1. BaseInv /\ FilesInv /\ StampInv /\ NumberInv /\ FailInv /\ KeepInv => CrashSafe
  BY CrashesSafe
<1> QED BY <1>1, KeepAlways, PTL

-----------------------------------------------------------------------------
(***************************************************************************)
(* DBImpl implements Store as long as no append to a file fails.  What     *)
(* recovery would find is then known exactly: as long as the database is   *)
(* open it is what the tables of the version and the logs not older than   *)
(* the one it names have, and the logs have what the memtables have.       *)
(***************************************************************************)
\* Nothing is in the logs; no edit names a table.
Blank(d) == \A n \in DOMAIN d.logs : d.logs[n].recs = <<>>
Bare(f) == \A i \in 1 .. Len(f.recs) : f.recs[i].add = {}

InFile(f, w) == InRecs(f.recs, Len(f.recs), w)
InImm(w) == \E m \in imm : w \in m

\* Where the manifest ends later, recovery finds no less.
Grown(d, f) ==
  \A j, k \in 1 .. Len(f.recs) : Point(f, j) /\ Point(f, k) /\ j <= k =>
    /\ \A w : InTables(d.tables, TablesOf(f.recs, j), w) => InTables(d.tables, TablesOf(f.recs, k), w)
    /\ \A m \in DOMAIN d.logs : \A w : m >= f.recs[j].log /\ InFile(d.logs[m], w) =>
         m >= f.recs[k].log \/ InTables(d.tables, TablesOf(f.recs, k), w)

\* The files of a database that is not open.  Only the first manifest is not
\* synced, and then there is nothing in the database.
Restores(d) ==
  /\ d.current = 0 \/ Current(d).synced = 0 => Blank(d)
  /\ d.current # 0 /\ Current(d).synced = 0 => Bare(Current(d))
  /\ d.current # 0 /\ Current(d).synced > 0 =>
       NoTorn(Current(d).recs, Len(Current(d).recs) - 1) /\ Grown(d, Current(d))

\* What recovery would find is in the tables so far or in the logs to come.
ReplayExact ==
  \A w : w \in Contents(disk) <=> \/ InTables(disk.tables, vs.tables \union rec.add, w)
                                  \/ \E n \in rec.logs : InFile(disk.logs[n], w)

\* The logs hold what the memtables do, and no more but for a failed Sync.
LogsExact ==
  /\ \A i \in 1 .. Len(disk.logs[logfile].recs) : disk.logs[logfile].recs[i] # TornRecord
  /\ \A m \in DOMAIN disk.logs : /\ m <= logfile
                                 /\ \A w : vs.log <= m /\ m < logfile /\ InFile(disk.logs[m], w) =>
                                      InImm(w) \/ InTables(disk.tables, vs.tables, w)
  /\ ~bgerr => \A w : InFile(disk.logs[logfile], w) => w \in mem \/ (InSync(pc) /\ w \in Group)

\* The edit that is being written adds nothing new.
EditExact ==
  /\ comp.inputs \subseteq vs.tables /\ (bg.pc \in {"idle", "move"} \/ ~comp.on => comp.inputs = {})
  /\ bg.pc = "flushlog" => \A w : InTables(disk.tables, bg.edit.add, w) => InImm(w)
  /\ bg.pc \in {"move", "install"} =>
       \A w : InTables(disk.tables, bg.edit.add, w) => InTables(disk.tables, vs.tables, w)

VersionExact == /\ Settled(Current(disk), vs.tables)
                /\ Current(disk).recs[Len(Current(disk).recs)].log = vs.log

ExactInv ==
  /\ \A w \in excused : w \in Batches \ Sync /\ ret[w] = "ok" /\ ~Held(w)
  /\ up \notin Opened => Restores(disk)
  /\ up = "newcurrent" => Bare(disk.manifests[1]) /\ disk.manifests[1].synced = 0
  /\ up \in Replaying => ReplayExact
  /\ up \in Opened => VersionExact /\ LogsExact /\ EditExact


\* What recovery finds where the manifest ends.
LEMMA PointContents ==
  ASSUME NEW d, IsSound(d), d.current # 0, NEW k \in 1 .. Len(Current(d).recs),
         Point(Current(d), k), LastPoint(Current(d), k), NEW w
  PROVE  /\ ~Corrupt(Current(d).recs)
         /\ w \in Contents(d) <=> Found("process", d, Current(d), k, w)
<1>1. Current(d) \in Records(EditRecords)
  BY CurrentRecords
<1>2. Len(Edits(Current(d).recs)) = k /\ ~Corrupt(Current(d).recs)
  BY <1>1, EditsPoint
<1> QED BY <1>2, ContentsFound

LEMMA SettledPoint ==
  ASSUME NEW f \in Records(EditRecords), NEW tables, Settled(f, tables)
  PROVE  /\ Len(f.recs) \in 1 .. Len(f.recs) /\ Point(f, Len(f.recs)) /\ LastPoint(f, Len(f.recs))
         /\ \A k \in 1 .. Len(f.recs) : Point(f, k) => k = Len(f.recs)
<1>1. Len(f.recs) \in Nat /\ f.synced \in Nat
  BY LenProperties DEF Records
<1> QED BY <1>1 DEF Settled, Point, LastPoint

LEMMA SettledContents ==
  ASSUME NEW d, IsSound(d), d.current # 0, NEW tables, Settled(Current(d), tables), NEW w
  PROVE  /\ ~Corrupt(Current(d).recs)
         /\ w \in Contents(d) <=> \/ InTables(d.tables, tables, w)
                                  \/ InLogs("process", d.logs, Current(d).recs[Len(Current(d).recs)].log, w)
<1>1. Current(d) \in Records(EditRecords)
  BY CurrentRecords
<1>2. TablesOf(Current(d).recs, Len(Current(d).recs)) = tables
  BY DEF Settled
<1> QED BY <1>1, <1>2, SettledPoint, PointContents DEF Found

LEMMA SettledRestores ==
  ASSUME NEW d, IsSound(d), d.current # 0, NEW tables, Settled(Current(d), tables)
  PROVE  Restores(d) /\ Current(d).synced > 0
<1>1. Current(d) \in Records(EditRecords) /\ Len(Current(d).recs) \in Nat
  BY CurrentRecords
<1>2. Current(d).synced = Len(Current(d).recs) /\ Len(Current(d).recs) > 0
  BY DEF Settled
<1>3. NoTorn(Current(d).recs, Len(Current(d).recs) - 1)
  BY <1>1, <1>2 DEF Settled, NoTorn
<1>4. Grown(d, Current(d))
  <2>1. \A k \in 1 .. Len(Current(d).recs) : Point(Current(d), k) => k = Len(Current(d).recs)
    BY <1>1, SettledPoint
  <2> QED BY <2>1 DEF Grown
<1> QED BY <1>1, <1>2, <1>3, <1>4 DEF Restores

\* A manifest that only its last record can break ends somewhere.
LEMMA CleanFile ==
  ASSUME NEW f \in Records(EditRecords), NEW names, FileSound(f, names), f.synced > 0, NoTorn(f.recs, Len(f.recs) - 1)
  PROVE  \E k \in 1 .. Len(f.recs) : Point(f, k) /\ LastPoint(f, k)
<1>1. f.synced \in Nat /\ Len(f.recs) \in Nat /\ f.synced <= Len(f.recs) /\ f.recs[f.synced] # TornEdit
  BY LenProperties DEF Records, FileSound
<1>2. CASE f.recs[Len(f.recs)] = TornEdit
  <2>1. Len(f.recs) - 1 \in 1 .. Len(f.recs) /\ Len(f.recs) - 1 \in f.synced .. Len(f.recs)
    BY <1>1, <1>2
  <2>2. (Len(f.recs) - 1) + 1 = Len(f.recs)
    BY <1>1
  <2>3. Point(f, Len(f.recs) - 1) /\ LastPoint(f, Len(f.recs) - 1)
    BY <1>1, <1>2, <2>1, <2>2 DEF Point, LastPoint
  <2> QED BY <2>1, <2>3
<1>3. CASE f.recs[Len(f.recs)] # TornEdit
  <2>1. Len(f.recs) \in 1 .. Len(f.recs) /\ Len(f.recs) \in f.synced .. Len(f.recs)
    BY <1>1
  <2>2. NoTorn(f.recs, Len(f.recs))
    BY <1>1, <1>3 DEF NoTorn
  <2>3. Point(f, Len(f.recs)) /\ LastPoint(f, Len(f.recs))
    BY <1>1, <2>1, <2>2 DEF Point, LastPoint
  <2> QED BY <2>1, <2>3
<1> QED BY <1>2, <1>3

\* Nothing is found where nothing is.
LEMMA NothingThere ==
  ASSUME NEW d, IsSound(d), d.current = 0 \/ Bare(Current(d)), Blank(d)
  PROVE  Contents(d) = {}
<1>1. CASE d.current = 0 \/ Corrupt(Current(d).recs)
  BY <1>1 DEF Contents, Current
<1>2. CASE d.current # 0 /\ ~Corrupt(Current(d).recs)
  <2> DEFINE f == Current(d)
             k == Len(Edits(f.recs))
  <2>1. f \in Records(EditRecords) /\ f.recs \in Seq(EditRecords) /\ Len(f.recs) \in Nat
    BY <1>2, CurrentRecords DEF Records
  <2>2. k \in Nat /\ k <= Len(f.recs)
    <3>1. k \in Nat /\ k \in {Len(f.recs), Len(f.recs) - 1}
      BY <2>1, EditsOf
    <3> QED BY <2>1, <3>1
  <2>3. \A w : w \in Contents(d) <=> Found("process", d, f, k, w)
    BY <1>2, ContentsFound
  <2> HIDE DEF k, f
  <2>4. \A w : ~InTables(d.tables, TablesOf(f.recs, k), w)
    <3>1. \A i \in 1 .. k : f.recs[i].add = {}
      BY <1>2, <2>1, <2>2 DEF Bare, f
    <3> QED BY <3>1 DEF TablesOf, InTables
  <2>5. \A w, n : ~InLogs("process", d.logs, n, w)
    <3>1. \A m \in DOMAIN d.logs : Len(d.logs[m].recs) = 0
      BY DEF Blank
    <3> QED BY <3>1 DEF InLogs, InRecs, Reach
  <2>6. \A w : w \notin Contents(d)
    BY <2>3, <2>4, <2>5 DEF Found
  <2> QED BY <2>6
<1> QED BY <1>1, <1>2

-----------------------------------------------------------------------------
(***************************************************************************)
(* A crash of the machine takes records away and brings none.              *)
(***************************************************************************)
LEMMA CutLogs ==
  ASSUME NEW d, IsDisk(d), NEW e \in PowerLosses(d), NEW m \in DOMAIN e.logs
  PROVE  m \in DOMAIN d.logs /\ \A w : InFile(e.logs[m], w) => InFile(d.logs[m], w)
<1>1. IsCut(e.logs, d.logs)
  BY PowerLossDisk
<1>2. m \in DOMAIN d.logs
  BY <1>1 DEF IsCut
<1> DEFINE l == d.logs[m]
<1>3. l \in Records(SUBSET Batches)
  BY <1>2 DEF IsDisk, IsFiles
<1>4. PICK i \in l.synced .. Len(l.recs) : e.logs[m] = [recs |-> SubSeq(l.recs, 1, i), synced |-> l.synced]
  BY <1>1, <1>2 DEF IsCut
<1>5. l.synced \in Nat /\ Len(l.recs) \in Nat
  BY <1>3, LenProperties DEF Records
<1>6. i \in Nat /\ i <= Len(l.recs) /\ Len(e.logs[m].recs) = i /\ \A n \in 1 .. i : l.recs[n] = e.logs[m].recs[n]
  BY <1>3, <1>4, <1>5, CutRecords
<1> HIDE DEF l
<1>7. ASSUME NEW w, InFile(e.logs[m], w) PROVE InFile(l, w)
  <2>1. InRecs(e.logs[m].recs, i, w)
    BY <1>6, <1>7 DEF InFile
  <2>2. InRecs(l.recs, i, w)
    BY <1>6, <2>1, RecsPrefix
  <2> QED BY <1>5, <1>6, <2>2, RecsMore DEF InFile
<1> QED BY <1>2, <1>7 DEF l

\* The manifest that is left, and where it may end.
LEMMA CutManifest ==
  ASSUME NEW d, IsSound(d), d.current # 0, NEW e \in PowerLosses(d)
  PROVE  LET f == Current(d)
             g == Current(e)
         IN  /\ e.current = d.current /\ g.synced = f.synced
             /\ Len(g.recs) \in Nat /\ Len(g.recs) <= Len(f.recs) /\ \A i \in 1 .. Len(g.recs) : g.recs[i] = f.recs[i]
             /\ \A k \in 1 .. Len(g.recs) : Point(g, k) =>
                  /\ k \in 1 .. Len(f.recs) /\ Point(f, k)
                  /\ TablesOf(g.recs, k) = TablesOf(f.recs, k) /\ g.recs[k] = f.recs[k]
<1> DEFINE f == Current(d)
           g == Current(e)
<1>1. IsDisk(d) /\ e.current = d.current /\ IsCut(e.manifests, d.manifests)
  BY PowerLossDisk DEF IsSound
<1>2. d.current \in DOMAIN d.manifests /\ f \in Records(EditRecords)
  BY CurrentRecords DEF IsSound, CurrentThere
<1>3. PICK j \in f.synced .. Len(f.recs) : g = [recs |-> SubSeq(f.recs, 1, j), synced |-> f.synced]
  BY <1>1, <1>2 DEF IsCut, Current
<1>4. f.synced \in Nat /\ Len(f.recs) \in Nat
  BY <1>2, LenProperties DEF Records
<1>5. g.synced = f.synced /\ Len(g.recs) = j /\ j \in Nat /\ j <= Len(f.recs) /\ \A i \in 1 .. j : g.recs[i] = f.recs[i]
  BY <1>2, <1>3, <1>4, CutRecords
<1> HIDE DEF f, g
<1>6. ASSUME NEW k \in 1 .. Len(g.recs), Point(g, k)
      PROVE  /\ k \in 1 .. Len(f.recs) /\ Point(f, k)
             /\ TablesOf(g.recs, k) = TablesOf(f.recs, k) /\ g.recs[k] = f.recs[k]
  <2>1. k \in Nat /\ k \in 1 .. Len(f.recs) /\ \A i \in 1 .. k : g.recs[i] = f.recs[i]
    BY <1>4, <1>5, <1>6
  <2>2. Point(f, k)
    <3>1. k \in 1 .. Len(f.recs) /\ Point(f, k)
      BY <1>6, CutFinds DEF f, g
    <3> QED BY <3>1
  <2>3. TablesOf(g.recs, k) = TablesOf(f.recs, k) /\ g.recs[k] = f.recs[k]
    BY <2>1, TablesPrefix
  <2> QED BY <2>1, <2>2, <2>3
<1> QED BY <1>1, <1>5, <1>6 DEF f, g

\* An earlier end of the manifest with no more in the logs: no more is found.
LEMMA EarlierPoint ==
  ASSUME NEW d, NEW f, Grown(d, f), NEW j \in 1 .. Len(f.recs), NEW k \in 1 .. Len(f.recs), Point(f, j), Point(f, k), j <= k,
         NEW logs, \A m \in DOMAIN logs : m \in DOMAIN d.logs /\ \A w : InFile(logs[m], w) => InFile(d.logs[m], w),
         NEW w, InTables(d.tables, TablesOf(f.recs, j), w) \/ InLogs("process", logs, f.recs[j].log, w)
  PROVE  Found("process", d, f, k, w)
<1>1. CASE InTables(d.tables, TablesOf(f.recs, j), w)
  BY <1>1 DEF Grown, Found
<1>2. CASE InLogs("process", logs, f.recs[j].log, w)
  <2>1. PICK m \in DOMAIN logs : m >= f.recs[j].log /\ InFile(logs[m], w)
    BY <1>2 DEF InLogs, InFile, Reach
  <2>2. m \in DOMAIN d.logs /\ InFile(d.logs[m], w)
    BY <2>1
  <2>3. m >= f.recs[k].log \/ InTables(d.tables, TablesOf(f.recs, k), w)
    BY <2>1, <2>2 DEF Grown
  <2> QED BY <2>2, <2>3 DEF Found, InLogs, InFile, Reach
<1> QED BY <1>1, <1>2

LEMMA CutRestores ==
  ASSUME NEW d, IsSound(d), Durable(d), Restores(d), NEW e \in PowerLosses(d)
  PROVE  Restores(e) /\ Contents(e) \subseteq Contents(d)
<1> DEFINE f == Current(d)
           g == Current(e)
<1>1. IsSound(e) /\ Durable(e) /\ IsDisk(d) /\ IsDisk(e) /\ e.current = d.current /\ e.tables = d.tables
  BY CutSound, CutDurable, PowerLossDisk DEF IsSound
<1>2. \A m \in DOMAIN e.logs : m \in DOMAIN d.logs /\ \A w : InFile(e.logs[m], w) => InFile(d.logs[m], w)
  BY <1>1, CutLogs
<1>3. Blank(d) => Blank(e)
  <2> SUFFICES ASSUME Blank(d), NEW m \in DOMAIN e.logs PROVE e.logs[m].recs = <<>>
    BY DEF Blank
  <2>1. m \in DOMAIN d.logs /\ IsCut(e.logs, d.logs)
    BY <1>1, <1>2, PowerLossDisk
  <2>2. d.logs[m].recs = <<>> /\ d.logs[m] \in Records(SUBSET Batches)
    BY <1>1, <2>1 DEF Blank, IsDisk, IsFiles
  <2>3. PICK i \in d.logs[m].synced .. Len(d.logs[m].recs) :
          e.logs[m] = [recs |-> SubSeq(d.logs[m].recs, 1, i), synced |-> d.logs[m].synced]
    BY <2>1 DEF IsCut
  <2>4. d.logs[m].synced \in Nat /\ Len(d.logs[m].recs) = 0
    BY <2>2 DEF Records
  <2>5. i = 0 /\ e.logs[m].recs \in Seq(SUBSET Batches) /\ Len(e.logs[m].recs) = i
    BY <2>2, <2>3, <2>4, CutRecords DEF Records
  <2> QED BY <2>5, EmptySeq
<1>4. CASE d.current = 0
  <2>1. Contents(d) = {} /\ Contents(e) = {} /\ Blank(e)
    BY <1>1, <1>3, <1>4, NothingThere DEF Restores
  <2> QED BY <1>1, <1>4, <2>1 DEF Restores
<1>5. ASSUME d.current # 0
      PROVE  /\ g.synced = f.synced /\ Len(g.recs) \in Nat /\ Len(g.recs) <= Len(f.recs)
             /\ \A i \in 1 .. Len(g.recs) : g.recs[i] = f.recs[i]
             /\ \A k \in 1 .. Len(g.recs) : Point(g, k) =>
                  /\ k \in 1 .. Len(f.recs) /\ Point(f, k)
                  /\ TablesOf(g.recs, k) = TablesOf(f.recs, k) /\ g.recs[k] = f.recs[k]
             /\ f \in Records(EditRecords) /\ g \in Records(EditRecords) /\ Len(f.recs) \in Nat /\ f.synced \in Nat
  <2>1. f \in Records(EditRecords) /\ g \in Records(EditRecords) /\ Len(f.recs) \in Nat
    BY <1>1, <1>5, CurrentRecords
  <2> QED BY <1>5, <2>1, CutManifest DEF Records
<1>6. CASE d.current # 0 /\ f.synced = 0
  <2>1. Blank(d) /\ Bare(f) /\ Blank(e)
    BY <1>3, <1>6 DEF Restores
  <2> HIDE DEF f, g
  <2>2. Bare(g)
    BY <1>5, <1>6, <2>1 DEF Bare
  <2> USE DEF f, g
  <2>3. Contents(d) = {} /\ Contents(e) = {}
    BY <1>1, <2>1, <2>2, NothingThere
  <2> QED BY <1>1, <1>5, <1>6, <2>1, <2>2, <2>3 DEF Restores
<1>7. CASE d.current # 0 /\ f.synced # 0
  <2>1. f.synced > 0 /\ NoTorn(f.recs, Len(f.recs) - 1) /\ Grown(d, f)
    <3>1. f.synced > 0
      BY <1>5, <1>7
    <3> QED BY <1>7, <3>1 DEF Restores
  <2> HIDE DEF f, g
  <2>2. NoTorn(g.recs, Len(g.recs) - 1)
    <3>1. \A i \in 1 .. Len(g.recs) - 1 : i \in 1 .. Len(f.recs) - 1 /\ i \in 1 .. Len(g.recs)
      BY <1>5, <1>7
    <3> QED BY <1>5, <1>7, <2>1, <3>1 DEF NoTorn
  <2>3. Grown(e, g)
    <3> SUFFICES ASSUME NEW j \in 1 .. Len(g.recs), NEW k \in 1 .. Len(g.recs), Point(g, j), Point(g, k), j <= k
                 PROVE  /\ \A w : InTables(e.tables, TablesOf(g.recs, j), w) => InTables(e.tables, TablesOf(g.recs, k), w)
                        /\ \A m \in DOMAIN e.logs : \A w : m >= g.recs[j].log /\ InFile(e.logs[m], w) =>
                             m >= g.recs[k].log \/ InTables(e.tables, TablesOf(g.recs, k), w)
      BY DEF Grown
    <3>1. /\ j \in 1 .. Len(f.recs) /\ Point(f, j) /\ TablesOf(g.recs, j) = TablesOf(f.recs, j) /\ g.recs[j] = f.recs[j]
          /\ k \in 1 .. Len(f.recs) /\ Point(f, k) /\ TablesOf(g.recs, k) = TablesOf(f.recs, k) /\ g.recs[k] = f.recs[k]
      BY <1>5, <1>7
    <3>2. /\ \A w : InTables(d.tables, TablesOf(f.recs, j), w) => InTables(d.tables, TablesOf(f.recs, k), w)
          /\ \A m \in DOMAIN d.logs : \A w : m >= f.recs[j].log /\ InFile(d.logs[m], w) =>
               m >= f.recs[k].log \/ InTables(d.tables, TablesOf(f.recs, k), w)
      BY <2>1, <3>1 DEF Grown
    <3> QED BY <1>1, <1>2, <3>1, <3>2
  <2>4. PICK n \in 1 .. Len(f.recs) : Point(f, n) /\ LastPoint(f, n)
    BY <1>1, <1>5, <1>7, <2>1, CleanFile DEF Durable, f, Current
  <2>5. PICK k \in 1 .. Len(g.recs) : Point(g, k) /\ LastPoint(g, k)
    BY <1>1, <1>5, <1>7, <2>1, <2>2, CleanFile DEF Durable, g, Current
  <2>6. /\ k \in 1 .. Len(f.recs) /\ Point(f, k)
        /\ TablesOf(g.recs, k) = TablesOf(f.recs, k) /\ g.recs[k] = f.recs[k]
    BY <1>5, <1>7, <2>5
  <2>7. k <= n
    <3>1. f.recs[k] # TornEdit
      BY <2>6 DEF Point, NoTorn
    <3>2. n = Len(f.recs) \/ (n + 1 = Len(f.recs) /\ k # Len(f.recs))
      BY <2>4, <3>1 DEF LastPoint
    <3> QED BY <1>5, <1>7, <2>6, <3>2
  <2>8. ASSUME NEW w \in Contents(e) PROVE w \in Contents(d)
    <3>1. Found("process", e, g, k, w)
      BY <1>1, <1>7, <2>5, <2>8, PointContents DEF g
    <3>2. InTables(d.tables, TablesOf(f.recs, k), w) \/ InLogs("process", e.logs, f.recs[k].log, w)
      BY <1>1, <2>6, <3>1 DEF Found
    <3>3. Found("process", d, f, n, w)
      BY <1>2, <2>1, <2>4, <2>6, <2>7, <3>2, EarlierPoint
    <3> QED BY <1>7, <2>4, <3>3, PointContents DEF f
  <2> USE DEF f, g
  <2>9. Restores(e)
    BY <1>1, <1>5, <1>7, <2>1, <2>2, <2>3 DEF Restores
  <2> QED BY <2>8, <2>9
<1> QED BY <1>4, <1>6, <1>7


-----------------------------------------------------------------------------
(***************************************************************************)
(* What a crash inside of a file operation leaves.                         *)
(***************************************************************************)
\* A record more brings what is in it, and nothing else.
LEMMA RecsOnly ==
  ASSUME NEW recs \in Seq(SUBSET Batches), NEW r \in SUBSET Batches, NEW w, InRecs(Append(recs, r), Len(Append(recs, r)), w)
  PROVE  InRecs(recs, Len(recs), w) \/ w \in r
<1> DEFINE q == Append(recs, r)
<1>1. /\ Len(recs) \in Nat /\ Len(q) = Len(recs) + 1
      /\ q[Len(q)] = r /\ \A i \in 1 .. Len(recs) : q[i] = recs[i]
  BY AppendProperties, LenProperties
<1> HIDE DEF q
<1>2. PICK i \in 1 .. Len(q) : w \in q[i] /\ \A j \in 1 .. i : q[j] # TornRecord
  BY DEF InRecs, q
<1>3. CASE i = Len(q)
  BY <1>1, <1>2, <1>3
<1>4. CASE i # Len(q)
  <2>1. i \in 1 .. Len(recs) /\ \A j \in 1 .. i : j \in 1 .. Len(recs)
    BY <1>1, <1>2, <1>4
  <2> QED BY <1>1, <1>2, <2>1 DEF InRecs
<1> QED BY <1>3, <1>4

LEMMA LogWritesOnly ==
  ASSUME BaseInv, NEW d \in LogWrites, NEW m \in DOMAIN d.logs
  PROVE  /\ m \in DOMAIN disk.logs /\ (m # logfile => d.logs[m] = disk.logs[m])
         /\ \A w : InFile(d.logs[m], w) => InFile(disk.logs[m], w) \/ (Busy(pc) /\ w \in Group)
<1>1. IsDisk(disk) /\ WriterInv /\ DOMAIN d.logs = DOMAIN disk.logs
  BY LogWritesSound DEF BaseInv, TypesInv
<1>2. CASE d = disk
  BY <1>1, <1>2
<1>3. CASE d # disk
  <2>1. PICK w \in Writer : pc[w] = "log" /\ d \in {Logged(TornRecord), Logged(Group)}
    BY <1>3 DEF LogWrites
  <2>2. Busy(pc)
    BY <2>1 DEF Busy
  <2>3. PICK r \in {TornRecord, Group} : d = Logged(r)
    BY <2>1
  <2>4. r \in SUBSET Batches /\ r \subseteq Group
    BY <1>1, GroupBatches DEF TornRecord
  <2>5. /\ \A n \in DOMAIN disk.logs \ {logfile} : Logged(r).logs[n] = disk.logs[n]
        /\ logfile \in DOMAIN disk.logs => Logged(r).logs[logfile].recs = Append(disk.logs[logfile].recs, r)
    BY <1>1, <2>4, LoggedDisk, LoggedCovers
  <2>6. CASE m # logfile
    BY <1>1, <2>3, <2>5, <2>6
  <2>7. CASE m = logfile
    <3>1. disk.logs[m].recs \in Seq(SUBSET Batches) /\ m \in DOMAIN disk.logs
      BY <1>1 DEF IsDisk, IsFiles, Records
    <3>2. d.logs[m].recs = Append(disk.logs[m].recs, r)
      BY <2>3, <2>5, <2>7, <3>1
    <3>3. ASSUME NEW v, InFile(d.logs[m], v) PROVE InFile(disk.logs[m], v) \/ v \in r
      <4>1. InRecs(Append(disk.logs[m].recs, r), Len(Append(disk.logs[m].recs, r)), v)
        BY <3>2, <3>3 DEF InFile
      <4> QED BY <2>4, <3>1, <4>1, RecsOnly DEF InFile
    <3> QED BY <2>2, <2>4, <2>7, <3>1, <3>3
  <2> QED BY <2>6, <2>7
<1> QED BY <1>2, <1>3

\* While the database is open, CURRENT names a manifest that is synced.
LEMMA OpenedThere ==
  ASSUME BaseInv, NumberInv, up \in Opened
  PROVE  /\ IsSound(disk) /\ IsDisk(disk) /\ IsVersionSet(vs) /\ disk.current = vs.manifest /\ disk.current # 0
         /\ Current(disk) \in Records(EditRecords) /\ Len(Current(disk).recs) \in Nat
<1>1. IsSound(disk) /\ disk.current = vs.manifest /\ IsVersionSet(vs)
  BY OpenCurrentThere
<1>2. disk.current # 0
  BY DEF NumberInv, OpenNumbers
<1> QED BY <1>1, <1>2, CurrentRecords DEF IsSound

LEMMA OpenContents ==
  ASSUME BaseInv, NumberInv, up \in Opened, VersionExact, NEW w
  PROVE  w \in Contents(disk) <=> InTables(disk.tables, vs.tables, w) \/ InLogs("process", disk.logs, vs.log, w)
  BY OpenedThere, SettledContents DEF VersionExact

\* What waits to be written to a table is in the logs.
LEMMA ImmContents ==
  ASSUME BaseInv, NumberInv, KeepInv, ExactInv, up \in Opened, NEW w, InImm(w)
  PROVE  w \in Contents(disk)
<1> DEFINE f == Current(disk)
<1>1. Settled(f, vs.tables) /\ f \in Records(EditRecords) /\ IsSound(disk) /\ disk.current # 0
  BY OpenedThere DEF ExactInv, VersionExact
<1>2. Len(f.recs) \in 1 .. Len(f.recs) /\ Point(f, Len(f.recs)) /\ LastPoint(f, Len(f.recs))
  BY <1>1, SettledPoint
<1>3. PICK m \in imm : w \in m
  BY DEF InImm
<1>4. w \notin excused
  BY <1>3 DEF ExactInv, Held
<1>5. Promised("process", w) /\ "process" \in Kinds
  BY <1>4 DEF Promised, Kinds
<1>6. PointKept(Len(f.recs))
  BY <1>2 DEF KeepInv, VersionKept
<1>7. Found("process", disk, f, Len(f.recs), w)
  BY <1>3, <1>5, <1>6 DEF PointKept
<1> QED BY <1>1, <1>2, <1>7, PointContents

\* The edit under way: the version with it has the same batches.
LEMMA EditSame ==
  ASSUME BaseInv, StampInv, NumberInv, KeepInv, ExactInv, up \in Opened, bg.pc \in Committing, NEW w
  PROVE  LET tables == (vs.tables \ bg.edit.del) \union bg.edit.add
         IN  /\ vs.log <= bg.edit.log /\ bg.edit.log <= logfile
             /\ InTables(disk.tables, vs.tables, w) => InTables(disk.tables, tables, w)
             /\ InTables(disk.tables, tables, w) => w \in Contents(disk)
             /\ \A m \in DOMAIN disk.logs : vs.log <= m /\ m < bg.edit.log /\ InFile(disk.logs[m], w) =>
                  InTables(disk.tables, tables, w)
<1> DEFINE tables == (vs.tables \ bg.edit.del) \union bg.edit.add
<1>1. /\ EditKept /\ LogKept /\ VersionExact /\ LogsExact /\ EditExact
      /\ bg.pc \in {"flushlog", "move", "install"} /\ vs.log \in Nat /\ logfile \in Nat /\ DOMAIN disk.logs \subseteq Nat
  BY DEF KeepInv, ExactInv, Committing, BaseInv, TypesInv, MemTypes, IsVersionSet, IsDisk, IsFiles, Filenames
<1>2. InTables(disk.tables, vs.tables, w) => w \in Contents(disk)
  BY <1>1, OpenContents
<1>3. CASE bg.pc = "flushlog"
  <2>1. bg.edit.del = {} /\ bg.edit.log = logfile /\ (InImm(w) => InTables(disk.tables, bg.edit.add, w))
    BY <1>1, <1>3 DEF EditKept, InImm
  <2>2. InTables(disk.tables, bg.edit.add, w) => InImm(w)
    BY <1>1, <1>3 DEF EditExact
  <2>3. InImm(w) => w \in Contents(disk)
    BY ImmContents
  <2>4. InTables(disk.tables, tables, w) <=> InTables(disk.tables, vs.tables, w) \/ InTables(disk.tables, bg.edit.add, w)
    BY <2>1 DEF InTables
  <2>5. vs.log <= logfile
    BY <1>1 DEF LogKept
  <2>6. \A m \in DOMAIN disk.logs : vs.log <= m /\ m < logfile /\ InFile(disk.logs[m], w) =>
          InImm(w) \/ InTables(disk.tables, vs.tables, w)
    BY <1>1 DEF LogsExact
  <2> HIDE DEF tables
  <2>7. /\ vs.log <= bg.edit.log /\ bg.edit.log <= logfile
        /\ \A m \in DOMAIN disk.logs : vs.log <= m /\ m < bg.edit.log /\ InFile(disk.logs[m], w) =>
             InTables(disk.tables, tables, w)
    BY <1>1, <2>1, <2>4, <2>5, <2>6
  <2> QED BY <1>2, <2>1, <2>2, <2>3, <2>4, <2>7 DEF tables
<1>4. CASE bg.pc \in {"move", "install"}
  <2>1. bg.edit.log = vs.log /\ vs.log <= logfile
    BY <1>1, <1>4 DEF EditKept, LogKept
  <2>2. InTables(disk.tables, bg.edit.add, w) => InTables(disk.tables, vs.tables, w)
    BY <1>1, <1>4 DEF EditExact
  <2>3. InTables(disk.tables, tables, w) => InTables(disk.tables, vs.tables, w) \/ InTables(disk.tables, bg.edit.add, w)
    BY DEF InTables
  <2>4. InTables(disk.tables, bg.edit.del, w) => InTables(disk.tables, bg.edit.add, w)
    <3>1. InTables(disk.tables, bg.edit.del, w) => w \in Batches
      BY DEF InTables, StampInv, TablesTyped
    <3> QED BY <1>1, <1>4, <3>1 DEF EditKept
  <2>5. InTables(disk.tables, vs.tables, w) => InTables(disk.tables, tables, w) \/ InTables(disk.tables, bg.edit.del, w)
    BY DEF InTables
  <2>6. InTables(disk.tables, bg.edit.add, w) => InTables(disk.tables, tables, w)
    BY DEF InTables
  <2> HIDE DEF tables
  <2>7. /\ vs.log <= bg.edit.log /\ bg.edit.log <= logfile
        /\ \A m \in DOMAIN disk.logs : ~(vs.log <= m /\ m < bg.edit.log)
    BY <1>1, <2>1
  <2> QED BY <1>2, <2>2, <2>3, <2>4, <2>5, <2>6, <2>7 DEF tables
<1> QED BY <1>1, <1>3, <1>4


\* Where the manifest may end after a crash inside of LogAndApply: without the
\* edit or behind it.
LEMMA OpenedInterrupted ==
  ASSUME BaseInv, StampInv, NumberInv, KeepInv, ExactInv, up \in Opened, NEW e \in Interrupted
  PROVE  /\ Restores(e) /\ e.current # 0 /\ Current(e).synced > 0
         /\ \A w \in Contents(e) : w \in Contents(disk) \/ (Busy(pc) /\ w \in Group)
<1> DEFINE f == Current(disk)
           g == Current(e)
           n == Len(f.recs)
<1>1. PICK d \in LogWrites : e = d \/ (bg.pc \in Committing /\ e \in FailedWrites(d, bg.edit))
  BY InterruptedCases DEF Opened
<1>2. /\ IsSound(d) /\ SameTables(d) /\ d.tables = disk.tables /\ d.manifests = disk.manifests /\ d.current = disk.current
      /\ \A m \in DOMAIN d.logs : /\ m \in DOMAIN disk.logs /\ (m # logfile => d.logs[m] = disk.logs[m])
                                  /\ \A w : InFile(d.logs[m], w) => InFile(disk.logs[m], w) \/ (Busy(pc) /\ w \in Group)
  BY LogWritesSound, LogWritesOnly DEF SameTables
<1>3. /\ IsSound(disk) /\ disk.current # 0 /\ f \in Records(EditRecords) /\ n \in Nat /\ IsSound(e)
      /\ DOMAIN disk.logs \subseteq Nat /\ vs.log \in Nat /\ logfile \in Nat /\ bg.edit \in EditRecords /\ bg.edit.log \in Nat
  <2>1. IsSound(disk) /\ disk.current # 0 /\ f \in Records(EditRecords) /\ n \in Nat /\ IsSound(e)
    BY OpenedThere, InterruptedSound
  <2>2. DOMAIN disk.logs \subseteq Nat /\ vs.log \in Nat /\ logfile \in Nat
    BY DEF BaseInv, TypesInv, MemTypes, IsVersionSet, IsDisk, IsFiles, Filenames
  <2>3. bg.edit \in EditRecords
    BY DEF BaseInv, TypesInv, BgTypes, IsBg
  <2> QED BY <2>1, <2>2, <2>3 DEF EditRecords
<1>4. /\ Settled(f, vs.tables) /\ f.synced = n /\ n > 0 /\ NoTorn(f.recs, n) /\ TablesOf(f.recs, n) = vs.tables
      /\ f.recs[n].log = vs.log
  BY DEF ExactInv, VersionExact, Settled
<1>5. /\ e.tables = disk.tables /\ e.logs = d.logs /\ e.current # 0
      /\ g.synced = f.synced /\ g.recs \in {f.recs, f.recs \o <<TornEdit>>, f.recs \o <<bg.edit>>}
      /\ g.recs = f.recs \/ bg.pc \in Committing
  <2>1. CASE e = d
    <3>1. g = f
      BY <1>2, <2>1 DEF Current
    <3> HIDE DEF f, g
    <3> QED BY <1>2, <1>3, <2>1, <3>1
  <2>2. CASE bg.pc \in Committing /\ e \in FailedWrites(d, bg.edit)
    <3>1. /\ e.tables = d.tables /\ e.logs = d.logs /\ e.current = d.current
          /\ g.synced = f.synced /\ g.recs \in {f.recs, f.recs \o <<TornEdit>>, f.recs \o <<bg.edit>>}
      BY <1>2, <1>3, <2>2, FailedManifest
    <3> HIDE DEF f, g
    <3> QED BY <1>2, <1>3, <2>2, <3>1
  <2> HIDE DEF f, g
  <2> QED BY <1>1, <2>1, <2>2
<1>6. g \in Records(EditRecords) /\ Len(g.recs) \in Nat
  BY <1>3, <1>5, CurrentRecords
<1> HIDE DEF f, g
<1>7. NoTorn(g.recs, Len(g.recs) - 1)
  <2>1. f.recs \in Seq(EditRecords) /\ TornEdit \in EditRecords
    BY <1>3 DEF Records, TornEdit, EditRecords
  <2>2. ASSUME NEW x \in EditRecords
        PROVE  Len(f.recs \o <<x>>) = n + 1 /\ \A i \in 1 .. n : (f.recs \o <<x>>)[i] = f.recs[i]
    BY <1>3, <2>1
  <2>3. Len(g.recs) - 1 <= n /\ \A i \in 1 .. n : g.recs[i] = f.recs[i]
    BY <1>3, <1>5, <2>1, <2>2
  <2> HIDE DEF n
  <2> QED BY <1>3, <1>4, <1>6, <2>3 DEF NoTorn
<1>8. ASSUME NEW k \in 1 .. Len(g.recs), Point(g, k)
      PROVE  \/ k = n /\ TablesOf(g.recs, k) = vs.tables /\ g.recs[k].log = vs.log
             \/ /\ bg.pc \in Committing /\ k = n + 1 /\ g.recs[k].log = bg.edit.log
                /\ TablesOf(g.recs, k) = (vs.tables \ bg.edit.del) \union bg.edit.add
  <2>1. f.synced \in Nat
    BY <1>3, <1>4
  <2>2. Longer(g, f, bg.edit)
    <3>1. g.synced \in Nat /\ f.synced <= g.synced
      BY <1>5, <2>1
    <3> QED BY <1>5, <3>1 DEF Longer
  <2>3. SamePoint(g, f, k) \/ EditedPoint(g, f, bg.edit, k)
    BY <1>3, <1>8, <2>2, PointAppended
  <2>4. CASE SamePoint(g, f, k)
    <3>1. k \in 1 .. n /\ Point(f, k) /\ TablesOf(g.recs, k) = TablesOf(f.recs, k) /\ g.recs[k] = f.recs[k]
      BY <2>4 DEF SamePoint
    <3>2. k = n
      BY <1>3, <1>4, <3>1 DEF Point
    <3> QED BY <1>4, <3>1, <3>2
  <2>5. CASE EditedPoint(g, f, bg.edit, k)
    <3>1. /\ g.recs = f.recs \o <<bg.edit>> /\ k = n + 1
          /\ TablesOf(g.recs, k) = (TablesOf(f.recs, n) \ bg.edit.del) \union bg.edit.add /\ g.recs[k] = bg.edit
      BY <2>5 DEF EditedPoint
    <3>2. g.recs # f.recs
      <4>1. Len(g.recs) # n
        BY <1>3, <1>6, <3>1
      <4> QED BY <4>1
    <3> QED BY <1>4, <1>5, <3>1, <3>2
  <2> QED BY <2>3, <2>4, <2>5
<1>9. ASSUME bg.pc \in Committing, NEW w
      PROVE  /\ vs.log <= bg.edit.log /\ bg.edit.log <= logfile
             /\ LET tables == (vs.tables \ bg.edit.del) \union bg.edit.add
                IN  /\ InTables(disk.tables, vs.tables, w) => InTables(disk.tables, tables, w)
                    /\ InTables(disk.tables, tables, w) => w \in Contents(disk)
                    /\ \A m \in DOMAIN disk.logs : vs.log <= m /\ m < bg.edit.log /\ InFile(disk.logs[m], w) =>
                         InTables(disk.tables, tables, w)
  BY <1>9, EditSame
<1>10. Grown(e, g)
  <2> SUFFICES ASSUME NEW j \in 1 .. Len(g.recs), NEW k \in 1 .. Len(g.recs), Point(g, j), Point(g, k), j <= k, j # k
               PROVE  /\ \A w : InTables(e.tables, TablesOf(g.recs, j), w) => InTables(e.tables, TablesOf(g.recs, k), w)
                      /\ \A m \in DOMAIN e.logs : \A w : m >= g.recs[j].log /\ InFile(e.logs[m], w) =>
                           m >= g.recs[k].log \/ InTables(e.tables, TablesOf(g.recs, k), w)
    BY DEF Grown
  <2>1. /\ bg.pc \in Committing /\ TablesOf(g.recs, j) = vs.tables /\ g.recs[j].log = vs.log
        /\ g.recs[k].log = bg.edit.log /\ TablesOf(g.recs, k) = (vs.tables \ bg.edit.del) \union bg.edit.add
    <3>1. j = n \/ j = n + 1
      BY <1>8
    <3>2. k = n \/ k = n + 1
      BY <1>8
    <3> HIDE DEF n
    <3>3. j = n /\ k = n + 1 /\ n # n + 1
      BY <1>3, <3>1, <3>2
    <3> QED BY <1>8, <3>3
  <2>2. ASSUME NEW m \in DOMAIN e.logs, NEW w, m >= vs.log, InFile(e.logs[m], w)
        PROVE  m >= bg.edit.log \/ InTables(disk.tables, TablesOf(g.recs, k), w)
    <3>1. m \in DOMAIN disk.logs /\ m \in Nat /\ vs.log <= m /\ bg.edit.log <= logfile
      BY <1>2, <1>3, <1>5, <1>9, <2>1, <2>2
    <3>2. CASE m < bg.edit.log
      <4>1. m # logfile
        BY <1>3, <3>1, <3>2
      <4>2. InFile(disk.logs[m], w)
        BY <1>2, <1>5, <2>2, <4>1
      <4> QED BY <1>9, <2>1, <3>1, <3>2, <4>2
    <3>3. CASE ~(m < bg.edit.log)
      BY <1>3, <3>1, <3>3
    <3> QED BY <3>2, <3>3
  <2> QED BY <1>5, <1>9, <2>1, <2>2
<1>11. Restores(e)
  BY <1>4, <1>3, <1>5, <1>7, <1>10 DEF Restores, g
<1>12. ASSUME NEW w \in Contents(e) PROVE w \in Contents(disk) \/ (Busy(pc) /\ w \in Group)
  <2>1. ~Corrupt(g.recs)
    BY <1>5, <1>12 DEF Contents, g, Current
  <2>2. PICK k \in 1 .. Len(g.recs) : Point(g, k) /\ LastPoint(g, k)
    <3>1. ~(NoTorn(g.recs, Len(g.recs)) /\ Len(g.recs) > 0) => Len(g.recs) = n + 1 /\ g.recs[n + 1] = TornEdit
      <4>1. CASE g.recs = f.recs
        BY <1>4, <4>1
      <4>2. ASSUME NEW x \in {TornEdit, bg.edit}, g.recs = f.recs \o <<x>>
            PROVE  Len(g.recs) = n + 1 /\ g.recs[n + 1] = x /\ \A i \in 1 .. n : g.recs[i] = f.recs[i]
        <5>1. f.recs \in Seq(EditRecords) /\ x \in EditRecords
          BY <1>3 DEF Records, TornEdit, EditRecords
        <5> QED BY <4>2, <5>1
      <4>3. CASE \E x \in {TornEdit, bg.edit} : g.recs = f.recs \o <<x>>
        <5>1. PICK x \in {TornEdit, bg.edit} : g.recs = f.recs \o <<x>>
          BY <4>3
        <5>2. Len(g.recs) = n + 1 /\ g.recs[n + 1] = x /\ \A i \in 1 .. n : g.recs[i] = f.recs[i]
          BY <4>2, <5>1
        <5> HIDE DEF n
        <5>3. x # TornEdit => NoTorn(g.recs, n + 1) /\ n + 1 > 0
          BY <1>3, <1>4, <5>2 DEF NoTorn
        <5> QED BY <5>2, <5>3
      <4> QED BY <1>5, <4>1, <4>3
    <3>2. CASE NoTorn(g.recs, Len(g.recs)) /\ Len(g.recs) > 0
      <4>1. g.synced \in Nat /\ g.synced <= Len(g.recs)
        BY <1>6 DEF Records
      <4>2. Len(g.recs) \in 1 .. Len(g.recs) /\ Len(g.recs) \in g.synced .. Len(g.recs)
        BY <1>6, <3>2, <4>1
      <4> QED BY <3>2, <4>2 DEF Point, LastPoint
    <3>3. CASE Len(g.recs) = n + 1 /\ g.recs[n + 1] = TornEdit
      <4> HIDE DEF n
      <4>1. Len(g.recs) - 1 = n
        BY <1>3, <3>3
      <4>2. n \in 1 .. Len(g.recs) /\ n \in g.synced .. Len(g.recs) /\ NoTorn(g.recs, n)
        BY <1>3, <1>4, <1>5, <1>7, <3>3, <4>1
      <4> QED BY <1>4, <3>3, <4>2 DEF Point, LastPoint
    <3> QED BY <3>1, <3>2, <3>3
  <2>3. Found("process", e, g, k, w)
    BY <1>3, <1>5, <1>12, <2>2, PointContents DEF g
  <2>4. InTables(disk.tables, TablesOf(g.recs, k), w) \/ InLogs("process", d.logs, g.recs[k].log, w)
    BY <1>5, <2>3 DEF Found
  <2>5. g.recs[k].log \in Nat /\ vs.log <= g.recs[k].log
    <3>1. g.recs[k].log = vs.log \/ (bg.pc \in Committing /\ g.recs[k].log = bg.edit.log)
      BY <1>8, <2>2
    <3>2. bg.pc \in Committing => vs.log <= bg.edit.log
      BY <1>9
    <3>3. vs.log \in Nat /\ bg.edit.log \in Nat
      BY <1>3
    <3> QED BY <3>1, <3>2, <3>3
  <2>6. InTables(disk.tables, TablesOf(g.recs, k), w) => w \in Contents(disk)
    <3>1. InTables(disk.tables, vs.tables, w) => w \in Contents(disk)
      BY OpenContents DEF ExactInv
    <3> QED BY <1>8, <1>9, <2>2, <3>1
  <2>7. InLogs("process", d.logs, g.recs[k].log, w) => w \in Contents(disk) \/ (Busy(pc) /\ w \in Group)
    <3> SUFFICES ASSUME NEW m \in DOMAIN d.logs, m >= g.recs[k].log, InFile(d.logs[m], w)
                 PROVE  w \in Contents(disk) \/ (Busy(pc) /\ w \in Group)
      BY DEF InLogs, InFile, Reach
    <3>1. m \in DOMAIN disk.logs /\ (InFile(disk.logs[m], w) \/ (Busy(pc) /\ w \in Group))
      BY <1>2
    <3>2. m >= vs.log
      BY <1>3, <2>5, <3>1
    <3>3. InFile(disk.logs[m], w) => InLogs("process", disk.logs, vs.log, w)
      BY <3>1, <3>2 DEF InLogs, InFile, Reach
    <3> QED BY <3>1, <3>3, OpenContents DEF ExactInv
  <2> QED BY <2>4, <2>6, <2>7
<1> QED BY <1>4, <1>5, <1>11, <1>12 DEF g


\* In a database that is not open, only CURRENT can be about to change.
LEMMA ClosedInterrupted ==
  ASSUME BaseInv, FilesInv, NumberInv, KeepInv, ExactInv, up \notin Opened, NEW e \in Interrupted
  PROVE  /\ Restores(e) /\ Contents(e) \subseteq Contents(disk)
         /\ e.current # 0 /\ Current(e).synced = 0 => Contents(disk) = {}
<1>1. PICK d \in LogWrites : \/ e = d
                             \/ bg.pc \in Committing /\ e \in FailedWrites(d, bg.edit)
                             \/ up = "newcurrent" /\ e = Pointed(d, 1)
                             \/ up = "current" /\ e = Pointed(d, vs.manifest)
  BY InterruptedCases
<1>2. d = disk /\ bg.pc \notin Committing /\ IsSound(disk) /\ Restores(disk)
  BY LogWritesCover, NotOpened DEF Committing, BaseInv, ManifestInv, ExactInv
<1>3. CASE e = disk
  <2>1. disk.current # 0 /\ Current(disk).synced = 0 => Contents(disk) = {}
    BY <1>2, NothingThere DEF Restores
  <2> QED BY <1>2, <1>3, <2>1
<1>4. CASE up = "newcurrent" /\ e = Pointed(disk, 1)
  <2>1. disk.current = 0 /\ 1 \in DOMAIN disk.manifests
    BY <1>4 DEF BaseInv, ManifestInv
  <2>2. /\ IsSound(e) /\ e.current = 1 /\ e.logs = disk.logs /\ e.manifests = disk.manifests
        /\ Current(e) = disk.manifests[1]
    BY <1>2, <1>4, <2>1, PointedSound DEF Current
  <2>3. Blank(e) /\ Bare(Current(e)) /\ Current(e).synced = 0
    BY <1>2, <1>4, <2>1, <2>2 DEF Restores, ExactInv, Blank
  <2>4. Contents(e) = {} /\ Contents(disk) = {}
    <3>1. Contents(disk) = {}
      BY <2>1 DEF Contents
    <3> QED BY <2>2, <2>3, <3>1, NothingThere
  <2> QED BY <2>2, <2>3, <2>4 DEF Restores
<1>5. CASE up = "current" /\ e = Pointed(disk, vs.manifest)
  <2>1. vs.manifest \in DOMAIN disk.manifests /\ vs.manifest # 0
    BY <1>5 DEF BaseInv, ManifestInv, Replaying, IsSound, IsDisk
  <2>2. /\ IsSound(e) /\ e.current = vs.manifest /\ e.logs = disk.logs /\ e.tables = disk.tables
        /\ Current(e) = disk.manifests[vs.manifest]
    BY <1>2, <1>5, <2>1, PointedSound DEF Current
  <2>3. Settled(Current(e), vs.tables \union rec.add)
    BY <1>5, <2>2 DEF FilesInv
  <2>4. Restores(e) /\ Current(e).synced > 0
    BY <2>1, <2>2, <2>3, SettledRestores
  <2>5. ASSUME NEW w \in Contents(e) PROVE w \in Contents(disk)
    <3> DEFINE log == Current(e).recs[Len(Current(e).recs)].log
    <3>1. up \in Replaying
      BY <1>5 DEF Replaying
    <3>2. InTables(disk.tables, vs.tables \union rec.add, w) \/ InLogs("process", disk.logs, log, w)
      BY <2>1, <2>2, <2>3, <2>5, SettledContents
    <3>3. ReplayExact
      BY <3>1 DEF ExactInv
    <3>4. ~InLogs("process", disk.logs, log, w)
      <4>1. log = logfile
        <5>1. \A i \in 1 .. Len(Current(e).recs) : Current(e).recs[i].log = logfile
          BY <1>5, <2>2, <3>1 DEF KeepInv, ReplayKept
        <5>2. Len(Current(e).recs) \in 1 .. Len(Current(e).recs)
          BY <2>1, <2>2, <2>3, CurrentRecords, SettledPoint
        <5> QED BY <5>1, <5>2
      <4>2. \A n \in DOMAIN disk.logs : n < logfile \/ disk.logs[n].recs = <<>>
        BY <1>5, <3>1 DEF NumberInv, ReplayNumbers
      <4>3. DOMAIN disk.logs \subseteq Nat /\ logfile \in Nat
        BY DEF BaseInv, TypesInv, MemTypes, IsDisk, IsFiles, Filenames
      <4>4. \A n \in DOMAIN disk.logs : n >= logfile => Len(disk.logs[n].recs) = 0
        BY <4>2, <4>3
      <4> HIDE DEF log
      <4> QED BY <4>1, <4>4 DEF InLogs, InRecs, Reach
    <3> QED BY <3>2, <3>3, <3>4 DEF ReplayExact
  <2> QED BY <2>4, <2>5
<1> QED BY <1>1, <1>2, <1>3, <1>4, <1>5

\* Those whose writes are under way have not been told anything.
LEMMA GroupInCall ==
  ASSUME BaseInv, NEW w \in Group
  PROVE  w \in Batches /\ w \in Writer /\ ret[w] = "none"
<1>1. WriterInv
  BY DEF BaseInv
<1>2. w \in Batches /\ w \in Writer
  BY <1>1, GroupBatches DEF Batches
<1>3. PICK i \in 1 .. lead.group : queue[i] = w
  BY DEF Group
<1>4. lead.group \in Nat /\ lead.group <= Len(queue) /\ Len(queue) \in Nat
  BY <1>1, LenProperties DEF WriterInv, WritersSound
<1>5. i \in 1 .. Len(queue)
  BY <1>4
<1>6. pc[w] \in InQueue
  BY <1>1, <1>3, <1>5 DEF WriterInv, WritersSound
<1>7. pc[w] \notin {"done", "dead"}
  BY <1>6 DEF InQueue, Leading
<1> QED BY <1>1, <1>2, <1>7 DEF WriterInv, WritersSound

LEMMA CrashExact ==
  ASSUME BaseInv, FilesInv, StampInv, NumberInv, KeepInv, ExactInv, NEW kind \in Crashes, Crash(kind)
  PROVE  /\ ExactInv'
         /\ \A w \in Contents(disk') : w \in Contents(disk) \/ (w \in Batches /\ ret[w] = "none")
         /\ \A w \in Contents(disk) \cap Sync : w \in Batches /\ ret[w] = "ok" => w \in Contents(disk')
         /\ ret' = ret
<1>1. /\ disk' \in Survivors(kind) /\ Reset /\ up' = "closed" /\ ret' = ret
      /\ mem' = {} /\ imm' = NoMem
      /\ excused' = IF kind = "process" THEN excused
                    ELSE excused \union {w \in Batches \ (Sync \union Contents(disk')) : ret[w] = "ok"}
  BY DEF Crash, Reset
<1>2. ASSUME NEW e \in Interrupted
      PROVE  /\ Restores(e) /\ IsSound(e) /\ Durable(e)
             /\ \A w \in Contents(e) : w \in Contents(disk) \/ (w \in Batches /\ ret[w] = "none")
             /\ e.current # 0 /\ Current(e).synced = 0 => Contents(disk) = {}
  <2>1. IsSound(e) /\ Durable(e)
    BY InterruptedSound, InterruptedDurable
  <2>2. CASE up \in Opened
    <3>1. Restores(e) /\ Current(e).synced > 0 /\ \A w \in Contents(e) : w \in Contents(disk) \/ w \in Group
      BY <2>2, OpenedInterrupted
    <3> QED BY <2>1, <3>1, GroupInCall
  <2>3. CASE up \notin Opened
    BY <2>1, <2>3, ClosedInterrupted
  <2> QED BY <2>2, <2>3
<1>3. PICK e \in Interrupted : IF kind = "process" THEN disk' = e ELSE disk' \in PowerLosses(e)
  BY <1>1 DEF Survivors
<1>4. Restores(disk') /\ Contents(disk') \subseteq Contents(e)
  BY <1>2, <1>3, CutRestores
<1>5. \A w \in excused' : w \in Batches \ Sync /\ ret'[w] = "ok" /\ ~Held(w)'
  BY <1>1 DEF ExactInv, Held, NoMem
<1>6. ExactInv'
  BY <1>1, <1>4, <1>5 DEF ExactInv, Opened, Replaying
<1>7. ASSUME NEW w \in Contents(disk) \cap Sync, w \in Batches, ret[w] = "ok"
      PROVE  w \in Contents(disk')
  <2>1. w \in Acked /\ w \in Due
    BY <1>7, AckedDue DEF Acked, ExactInv
  <2>2. CrashSafe
    BY CrashesSafe
  <2>3. CASE disk'.current # 0 /\ ~Corrupt(disk'.manifests[disk'.current].recs)
    <3>1. CASE kind = "process"
      BY <1>1, <2>1, <2>2, <2>3, <3>1 DEF CrashSafe, ProcessCrashSafe
    <3>2. CASE kind # "process"
      <4>1. disk' \in Survivors("power")
        BY <1>1, <3>2 DEF Survivors
      <4> QED BY <1>7, <2>1, <2>2, <2>3, <4>1 DEF CrashSafe, SyncDurable
    <3> QED BY <3>1, <3>2
  <2>4. disk'.current # 0
    <3>1. Recovers(e) /\ (disk'.current = e.current)
      <4>1. kind # "process" => disk'.current = e.current
        BY <1>2, <1>3, PowerLossDisk DEF IsSound
      <4> QED BY <1>3, <4>1, InterruptedRecovers
    <3> QED BY <2>1, <3>1 DEF Recovers
  <2>5. ~Corrupt(Current(disk').recs)
    <3> SUFFICES ASSUME Corrupt(Current(disk').recs) PROVE FALSE
      OBVIOUS
    <3>1. Current(disk').synced = 0
      <4>1. IsSound(disk') /\ Durable(disk') /\ Current(disk') \in Records(EditRecords)
        BY <1>2, <1>3, <2>4, CutSound, CutDurable, CurrentRecords
      <4>2. Current(disk').synced \in Nat /\ FileSound(Current(disk'), DOMAIN disk'.tables)
        BY <2>4, <4>1 DEF Records, Durable, Current
      <4>3. CASE Current(disk').synced # 0
        <5>1. Current(disk').synced > 0
          BY <4>2, <4>3
        <5>2. NoTorn(Current(disk').recs, Len(Current(disk').recs) - 1)
          BY <1>4, <2>4, <5>1 DEF Restores
        <5>3. PICK k \in 1 .. Len(Current(disk').recs) : Point(Current(disk'), k) /\ LastPoint(Current(disk'), k)
          BY <4>1, <4>2, <5>1, <5>2, CleanFile
        <5> QED BY <4>1, <5>3, EditsPoint
      <4> QED BY <4>3
    <3>2. e.current # 0 /\ Current(e).synced = 0
      <4>1. CASE kind = "process"
        BY <1>3, <2>4, <3>1, <4>1
      <4>2. CASE kind # "process"
        <5>1. disk' \in PowerLosses(e) /\ IsSound(e)
          BY <1>2, <1>3, <4>2
        <5>2. e.current # 0
          BY <2>4, <5>1, PowerLossDisk DEF IsSound
        <5> QED BY <3>1, <5>1, <5>2, CutManifest
      <4> QED BY <4>1, <4>2
    <3> QED BY <1>2, <1>7, <3>2
  <2> QED BY <2>3, <2>4, <2>5 DEF Current
<1> QED BY <1>1, <1>2, <1>3, <1>4, <1>6, <1>7


-----------------------------------------------------------------------------
(***************************************************************************)
(* The writers: nobody is inside of Write unless the database is open, and *)
(* nobody is told twice.                                                   *)
(***************************************************************************)
Out == {"idle", "done", "dead"}
OutInv == up # "open" => \A w \in Writer : pc[w] \in Out

LEMMA ResetOut ==
  ASSUME WriterInv, Reset
  PROVE  OutInv'
<1>1. \A w \in Writer : pc'[w] = IF pc[w] = "idle" \/ ret[w] = "ok" THEN pc[w] ELSE "dead"
  BY DEF Reset
<1>2. \A w \in Writer : ret[w] = "ok" => pc[w] \in {"done", "dead"}
  BY DEF WriterInv, WritersSound
<1> QED BY <1>1, <1>2 DEF OutInv, Out

\* A writer that makes a step is inside of Write.
LEMMA WriterInside ==
  ASSUME NEW w \in Writer, WriterStep(w)
  PROVE  pc[w] \notin Out
  BY DEF WriterStep, Woken, RoomError, RoomDelay, Slept, RoomFound, RoomWait, SwitchMem, SwitchFails, AddRecord, AddRecordFails,
         SyncLog, SyncFails, Flush, Out

LEMMA OutNext ==
  ASSUME BaseInv, OutInv, [Next]_vars
  PROVE  OutInv'
<1>1. WriterInv
  BY DEF BaseInv
<1>2. CASE \E w \in Writer : Enter(w) \/ WriterStep(w)
  <2>1. PICK w \in Writer : Enter(w) \/ WriterStep(w)
    BY <1>2
  <2>2. up = "open"
    BY <2>1, WriterInside DEF OutInv, Enter
  <2>3. up' = up
    BY <2>1, WriterStepFrame DEF BaseInv, WriterFrame, callerVars
  <2> QED BY <2>2, <2>3 DEF OutInv
<1>3. CASE BackgroundStep
  <2>1. pc' = pc \/ pc' = SignalAll(pc)
    BY <1>3, BackgroundSignals
  <2>2. \A w \in Writer : pc[w] \in Out => pc'[w] = pc[w]
    <3>1. \A w \in Writer : SignalAll(pc)[w] = pc[w] \/ pc[w] \in {"bgwait", "flushwait"}
      BY DEF SignalAll
    <3> QED BY <2>1, <3>1 DEF Out
  <2>3. up' = up \/ up' = SignalClose
    BY <1>3 DEF BackgroundStep, CallIdle, CallFlush, CallMove, CallCompact, FlushBuilt, FlushBuildFails, FlushLogged,
                FlushLogFails, Moved, MoveFails, CompactImm, OpenCompactionOutputFile, FinishCompactionOutputFile,
                CompactStops, Installed, InstallFails, EndCompact, EndFlush, EndCall
  <2>4. up = "open" => up' = "open"
    BY <2>3 DEF SignalClose
  <2> QED BY <2>2, <2>4 DEF OutInv
<1>4. CASE (\E r \in Reader : GetBegins(r) \/ GetEnds(r)) \/ UNCHANGED vars
  BY <1>4 DEF GetBegins, GetEnds, vars, writerVars, OutInv
<1>5. CASE Close \/ (Closing /\ scheduled)
  BY <1>5 DEF Close, Closing, writerVars, OutInv, Out
<1>6. CASE (Closing /\ ~scheduled) \/ OpenFails \/ \E kind \in Crashes : Crash(kind)
  BY <1>1, <1>6, ResetOut DEF Closing, OpenFails, Crash
<1>7. CASE Open \/ NewDB \/ SetCurrentFile \/ Recover \/ RecoverLogFile \/ OpenLog \/ OpenManifest \/ OpenCurrent
  <2>1. up # "open" /\ pc' = pc
    BY <1>7 DEF Open, NewDB, SetCurrentFile, Recover, RecoverLogFile, OpenLog, OpenManifest, OpenCurrent, openRest
  <2> QED BY <2>1, Zenon DEF OutInv
<1> QED BY <1>2, <1>3, <1>4, <1>5, <1>6, <1>7 DEF Next, OpenStep

LEMMA ToldOnce ==
  ASSUME WriterInv, NEW w \in Writer, Enter(w) \/ WriterStep(w), NEW v \in Writer, ret'[v] # ret[v]
  PROVE  ret[v] = "none"
<1>1. pc[w] \in Leading => Leader = w
  BY DEF WriterInv, WritersSound, Leader
<1>2. ret \in [Writer -> Results]
  BY DEF WriterInv, WritersSound
<1>3. \A u \in Writer : pc[u] \notin {"done", "dead"} => ret[u] = "none"
  BY DEF WriterInv, WritersSound
<1>4. CASE Enter(w) \/ RoomDelay(w) \/ Slept(w) \/ RoomWait(w)
  BY <1>4 DEF Enter, RoomDelay, Slept, RoomWait
<1>5. CASE Woken(w) \/ Flush(w)
  <2>1. pc[w] \notin {"done", "dead"} /\ \E s : ret' = ret \/ ret' = [ret EXCEPT ![w] = s]
    BY <1>5 DEF Woken, Flush
  <2> QED BY <1>2, <1>3, <2>1
<1>6. CASE \/ RoomError(w) \/ RoomFound(w) \/ SwitchMem(w) \/ SwitchFails(w) \/ AddRecord(w) \/ AddRecordFails(w)
           \/ SyncLog(w) \/ SyncFails(w)
  <2>1. pc[w] \in Leading /\ (ret' = ret \/ \E n, s, p : Finish(n, s, p))
    BY <1>6 DEF RoomError, RoomFound, SwitchMem, SwitchFails, AddRecord, AddRecordFails, SyncLog, SyncFails, Proceed,
                EndGroup, Leading
  <2>2. \E s : ret' = ret \/ ret' = [ret EXCEPT ![w] = s]
    BY <1>1, <2>1 DEF Finish
  <2>3. pc[w] \notin {"done", "dead"}
    BY <2>1 DEF Leading
  <2> QED BY <1>2, <1>3, <2>2, <2>3
<1> QED BY <1>4, <1>5, <1>6 DEF WriterStep


-----------------------------------------------------------------------------
(***************************************************************************)
(* Steps that recovery does not see: the manifest is the same, the records *)
(* of the logs are the same, and the tables that the manifest names are.   *)
(***************************************************************************)
AsBefore(d, e) ==
  /\ e.current = d.current /\ (d.current # 0 => Current(e) = Current(d))
  /\ \A m \in DOMAIN d.logs : m \in DOMAIN e.logs /\ e.logs[m].recs = d.logs[m].recs
  /\ \A m \in DOMAIN e.logs : m \in DOMAIN d.logs \/ e.logs[m].recs = <<>>
  /\ d.current # 0 => \A m : \/ NotTaken(Current(d), m)
                             \/ m \notin DOMAIN d.tables /\ m \notin DOMAIN e.tables
                             \/ m \in DOMAIN d.tables /\ m \in DOMAIN e.tables /\ e.tables[m] = d.tables[m]

LEMMA BeforeTables ==
  ASSUME NEW d, NEW e, AsBefore(d, e), d.current # 0, NEW tables, \A x \in tables : ~NotTaken(Current(d), x[2]), NEW w
  PROVE  InTables(e.tables, tables, w) <=> InTables(d.tables, tables, w)
  BY DEF AsBefore, InTables

LEMMA BeforeLogs ==
  ASSUME NEW d, NEW e, AsBefore(d, e), NEW w
  PROVE  /\ \A m \in DOMAIN d.logs : m \in DOMAIN e.logs /\ (InFile(e.logs[m], w) <=> InFile(d.logs[m], w))
         /\ \A m \in DOMAIN e.logs : InFile(e.logs[m], w) => m \in DOMAIN d.logs /\ InFile(d.logs[m], w)
<1>1. \A m \in DOMAIN d.logs : m \in DOMAIN e.logs /\ (InFile(e.logs[m], w) <=> InFile(d.logs[m], w))
  BY DEF AsBefore, InFile
<1>2. \A m \in DOMAIN e.logs : e.logs[m].recs = <<>> => ~InFile(e.logs[m], w)
  BY DEF InFile, InRecs
<1> QED BY <1>1, <1>2 DEF AsBefore

LEMMA NamedTaken ==
  ASSUME NEW f \in Records(EditRecords), NEW k \in Nat, k <= Len(f.recs), NEW x \in TablesOf(f.recs, k)
  PROVE  ~NotTaken(f, x[2])
<1>1. PICK i \in 1 .. k : x \in f.recs[i].add
  BY DEF TablesOf
<1>2. i \in 1 .. Len(f.recs)
  BY LenProperties DEF Records
<1> QED BY <1>1, <1>2 DEF NotTaken

LEMMA FoundBefore ==
  ASSUME NEW d, NEW e, AsBefore(d, e), IsSound(d), d.current # 0, NEW k \in Nat, k <= Len(Current(d).recs), NEW w
  PROVE  Found("process", e, Current(d), k, w) <=> Found("process", d, Current(d), k, w)
<1>1. InTables(e.tables, TablesOf(Current(d).recs, k), w) <=> InTables(d.tables, TablesOf(Current(d).recs, k), w)
  BY CurrentRecords, NamedTaken, BeforeTables
<1>2. InLogs("process", e.logs, Current(d).recs[k].log, w) <=> InLogs("process", d.logs, Current(d).recs[k].log, w)
  BY BeforeLogs DEF InLogs, InFile, Reach
<1> QED BY <1>1, <1>2 DEF Found

LEMMA ContentsBefore ==
  ASSUME NEW d, NEW e, AsBefore(d, e), IsSound(d), IsSound(e)
  PROVE  Contents(e) = Contents(d)
<1>1. CASE d.current = 0 \/ Corrupt(Current(d).recs)
  BY <1>1 DEF AsBefore, Contents, Current
<1>2. CASE d.current # 0 /\ ~Corrupt(Current(d).recs)
  <2> DEFINE f == Current(d)
             k == Len(Edits(f.recs))
  <2>1. f \in Records(EditRecords) /\ f.recs \in Seq(EditRecords) /\ Len(f.recs) \in Nat /\ Current(e) = f /\ e.current # 0
    BY <1>2, CurrentRecords DEF Records, AsBefore
  <2>2. k \in Nat /\ k <= Len(f.recs)
    <3>1. k \in Nat /\ k \in {Len(f.recs), Len(f.recs) - 1}
      BY <2>1, EditsOf
    <3> QED BY <2>1, <3>1
  <2>3. \A w : w \in Contents(d) <=> Found("process", d, f, k, w)
    BY <1>2, ContentsFound
  <2>4. \A w : w \in Contents(e) <=> Found("process", e, f, k, w)
    BY <1>2, <2>1, ContentsFound
  <2>5. \A w : Found("process", e, f, k, w) <=> Found("process", d, f, k, w)
    BY <1>2, <2>2, FoundBefore
  <2>6. \A w : w \in Contents(e) <=> w \in Contents(d)
    BY <2>3, <2>4, <2>5
  <2> QED BY <2>6
<1> QED BY <1>1, <1>2

LEMMA RestoresBefore ==
  ASSUME NEW d, NEW e, AsBefore(d, e), IsSound(d), Restores(d)
  PROVE  Restores(e)
<1>1. Blank(d) => Blank(e)
  BY DEF AsBefore, Blank
<1>2. d.current # 0 /\ Grown(d, Current(d)) => Grown(e, Current(d))
  <2> SUFFICES ASSUME d.current # 0, Grown(d, Current(d))
               PROVE  Grown(e, Current(d))
    OBVIOUS
  <2> DEFINE f == Current(d)
  <2> SUFFICES ASSUME NEW j \in 1 .. Len(f.recs), NEW k \in 1 .. Len(f.recs), Point(f, j), Point(f, k), j <= k
               PROVE  /\ \A w : InTables(e.tables, TablesOf(f.recs, j), w) => InTables(e.tables, TablesOf(f.recs, k), w)
                      /\ \A m \in DOMAIN e.logs : \A w : m >= f.recs[j].log /\ InFile(e.logs[m], w) =>
                           m >= f.recs[k].log \/ InTables(e.tables, TablesOf(f.recs, k), w)
    BY DEF Grown
  <2>1. f \in Records(EditRecords) /\ Len(f.recs) \in Nat
    BY CurrentRecords
  <2>2. j \in Nat /\ k \in Nat /\ j <= Len(f.recs) /\ k <= Len(f.recs)
    BY <2>1
  <2>3. ASSUME NEW i \in {j, k}, NEW w
        PROVE  InTables(e.tables, TablesOf(f.recs, i), w) <=> InTables(d.tables, TablesOf(f.recs, i), w)
    BY <2>1, <2>2, NamedTaken, BeforeTables
  <2>4. /\ \A w : InTables(d.tables, TablesOf(f.recs, j), w) => InTables(d.tables, TablesOf(f.recs, k), w)
        /\ \A m \in DOMAIN d.logs : \A w : m >= f.recs[j].log /\ InFile(d.logs[m], w) =>
             m >= f.recs[k].log \/ InTables(d.tables, TablesOf(f.recs, k), w)
    BY DEF Grown
  <2>5. \A m \in DOMAIN e.logs : \A w : InFile(e.logs[m], w) => m \in DOMAIN d.logs /\ InFile(d.logs[m], w)
    BY BeforeLogs
  <2> HIDE DEF f
  <2> QED BY <2>3, <2>4, <2>5
<1>3. e.current = d.current /\ (d.current # 0 => Current(e) = Current(d))
  BY DEF AsBefore
<1> QED BY <1>1, <1>2, <1>3 DEF Restores

LEMMA ItselfBefore == \A d : AsBefore(d, d)
  BY DEF AsBefore


-----------------------------------------------------------------------------
(***************************************************************************)
(* DB::Open leaves what recovery would find as it is.                      *)
(***************************************************************************)
ExcusedExact == \A w \in excused : w \in Batches \ Sync /\ ret[w] = "ok" /\ ~Held(w)

LEMMA SameExcused ==
  ASSUME ExactInv, UNCHANGED <<ret, mem, imm, excused>>
  PROVE  ExcusedExact'
  BY DEF ExactInv, ExcusedExact, Held

LEMMA ResetExcused ==
  ASSUME ExactInv, Reset, excused' = excused
  PROVE  ExcusedExact' /\ ret' = ret
  BY DEF ExactInv, ExcusedExact, Held, Reset, NoMem

LEMMA ClosedExact ==
  ASSUME ExcusedExact', up' \notin Opened, up' # "newcurrent", up' \notin Replaying, Restores(disk)'
  PROVE  ExactInv'
  BY DEF ExactInv, ExcusedExact

LEMMA OpenExact ==
  ASSUME BaseInv, ExactInv, Open
  PROVE  ExactInv' /\ Contents(disk') = Contents(disk) /\ ret' = ret
<1>1. /\ up = "closed" /\ up' \in {"create", "recover"} /\ disk' = disk /\ ret' = ret
      /\ UNCHANGED <<ret, mem, imm, excused>>
  BY DEF Open, openRest
<1>2. Restores(disk)'
  BY <1>1 DEF ExactInv, Opened, Restores
<1> QED BY <1>1, <1>2, SameExcused, ClosedExact DEF Opened, Replaying

LEMMA NewDBExact ==
  ASSUME BaseInv, ExactInv, NewDB
  PROVE  ExactInv' /\ Contents(disk') = Contents(disk) /\ ret' = ret
<1> DEFINE ed == Edit({}, {}, [log |-> 0, next |-> 2, last |-> 0])
<1>1. /\ up = "create" /\ up' = "newcurrent" /\ disk' = Manifested(disk, 1, ed, 0) /\ ret' = ret
      /\ UNCHANGED <<ret, mem, imm, excused>>
  BY DEF NewDB, openRest, Manifested
<1>2. ed \in EditRecords /\ ed.next > 1 /\ ed.add = {}
  BY DEF Edit, EditRecords
<1> HIDE DEF ed
<1>3. IsSound(disk) /\ disk.current = 0 /\ Blank(disk)
  BY <1>1 DEF BaseInv, ManifestInv, ExactInv, Opened, Restores
<1>4. /\ disk'.logs = disk.logs /\ disk'.current = 0
      /\ disk'.manifests[1].recs = <<ed>> /\ disk'.manifests[1].synced = 0
  BY <1>1, <1>2, <1>3, NewManifestDisk
<1>5. Bare(disk'.manifests[1])
  <2>1. \A i \in 1 .. Len(<<ed>>) : <<ed>>[i].add = {}
    BY <1>2
  <2> QED BY <1>4, <2>1 DEF Bare
<1>6. Restores(disk')
  BY <1>3, <1>4 DEF Restores, Blank
<1>7. Contents(disk') = Contents(disk)
  BY <1>3, <1>4 DEF Contents
<1>8. ExactInv'
  <2>1. ExcusedExact'
    BY <1>1, SameExcused
  <2> QED BY <1>1, <1>4, <1>5, <1>6, <2>1 DEF ExactInv, ExcusedExact, Opened, Replaying
<1> QED BY <1>1, <1>7, <1>8

LEMMA SetCurrentExact ==
  ASSUME BaseInv, FilesInv, NumberInv, KeepInv, ExactInv, SetCurrentFile
  PROVE  ExactInv' /\ Contents(disk') = Contents(disk) /\ ret' = ret
<1>1. /\ up = "newcurrent" /\ up' = "recover" /\ disk' = Pointed(disk, 1) /\ ret' = ret
      /\ UNCHANGED <<ret, mem, imm, excused>>
  BY DEF SetCurrentFile, openRest, Pointed
<1>2. /\ IsSound(disk) /\ disk.current = 0 /\ Blank(disk) /\ 1 \in DOMAIN disk.manifests
      /\ Bare(disk.manifests[1]) /\ disk.manifests[1].synced = 0
  BY <1>1 DEF BaseInv, ManifestInv, ExactInv, Opened, Restores
<1>3. /\ IsSound(disk') /\ disk'.current = 1 /\ disk'.logs = disk.logs /\ Current(disk') = disk.manifests[1]
  BY <1>1, <1>2, PointedSound DEF Current
<1>4. Blank(disk') /\ Bare(Current(disk')) /\ Current(disk').synced = 0
  BY <1>2, <1>3 DEF Blank
<1>5. Contents(disk') = {} /\ Contents(disk) = {}
  BY <1>2, <1>3, <1>4, NothingThere
<1>6. Restores(disk)'
  <2>1. Restores(disk')
    BY <1>3, <1>4 DEF Restores
  <2> QED BY <2>1 DEF Restores
<1> QED BY <1>1, <1>5, <1>6, SameExcused, ClosedExact DEF Opened, Replaying

\* While the logs are replayed.
LEMMA ReplayingExact ==
  ASSUME BaseInv, ExactInv, up \notin Opened, up' \in Replaying, UNCHANGED openRest, IsSound(disk'), AsBefore(disk, disk'),
         \A w : w \in Contents(disk) <=> \/ InTables(disk'.tables, vs'.tables \union rec'.add, w)
                                         \/ \E n \in rec'.logs : InFile(disk'.logs[n], w)
  PROVE  ExactInv' /\ Contents(disk') = Contents(disk) /\ ret' = ret
<1>1. IsSound(disk) /\ Restores(disk)
  BY DEF BaseInv, ManifestInv, ExactInv
<1>2. Contents(disk') = Contents(disk) /\ Restores(disk')
  BY <1>1, ContentsBefore, RestoresBefore
<1>3. ReplayExact'
  BY <1>2 DEF ReplayExact
<1>4. ExcusedExact' /\ ret' = ret
  BY SameExcused DEF openRest
<1>5. up' \notin Opened /\ up' # "newcurrent"
  BY DEF Opened, Replaying
<1>6. ExactInv'
  BY <1>2, <1>3, <1>4, <1>5 DEF ExactInv, ExcusedExact
<1> QED BY <1>2, <1>4, <1>6

LEMMA RecoverExact ==
  ASSUME BaseInv, FilesInv, ExactInv, Recover
  PROVE  ExactInv' /\ Contents(disk') = Contents(disk) /\ ret' = ret
<1> DEFINE f == Current(disk)
           v == Replayed(f.recs)
           k == Len(Edits(f.recs))
<1>1. up = "recover" /\ disk.current # 0 /\ IsSound(disk) /\ rec.add = {} /\ Restores(disk)
  BY DEF Recover, BaseInv, ManifestInv, FilesInv, Replaying, ExactInv, Opened
<1>2. UNCHANGED openRest /\ disk' = disk /\ UNCHANGED <<ret, mem, imm, excused>>
  BY DEF Recover, openRest
<1>3. f \in Records(EditRecords) /\ f.recs \in Seq(EditRecords)
  BY <1>1, CurrentRecords DEF Records
<1>4. CASE Corrupt(f.recs) \/ MissingFiles(disk, v.tables) # {}
  <2>1. up' = "unusable"
    BY <1>4 DEF Recover, Current
  <2>2. Restores(disk)'
    BY <1>1, <1>2 DEF Restores
  <2> QED BY <1>2, <2>1, <2>2, SameExcused, ClosedExact DEF Opened, Replaying
<1>5. CASE ~(Corrupt(f.recs) \/ MissingFiles(disk, v.tables) # {})
  <2>1. /\ vs'.tables = v.tables /\ rec' = [rec EXCEPT !.logs = LogsToReplay(disk, v)] /\ up' = "replay"
    BY <1>5 DEF Recover, Current
  <2>2. rec'.logs = {n \in DOMAIN disk.logs : n >= v.log} /\ rec'.add = {}
    BY <1>1, <2>1 DEF LogsToReplay, BaseInv, TypesInv, OpenTypes
  <2>3. v.tables = TablesOf(f.recs, k) /\ v.log = f.recs[k].log
    BY <1>3, <1>5, ReplayedTables
  <2>4. \A w : w \in Contents(disk) <=> Found("process", disk, f, k, w)
    BY <1>1, <1>5, ContentsFound
  <2> HIDE DEF f, v, k
  <2>5. ASSUME NEW w
        PROVE  w \in Contents(disk) <=> \/ InTables(disk'.tables, vs'.tables \union rec'.add, w)
                                        \/ \E n \in rec'.logs : InFile(disk'.logs[n], w)
    <3>1. vs'.tables \union rec'.add = TablesOf(f.recs, k)
      BY <2>1, <2>2, <2>3
    <3>2. InLogs("process", disk.logs, v.log, w) <=> \E n \in rec'.logs : InFile(disk.logs[n], w)
      BY <2>2 DEF InLogs, Reach, InFile
    <3> QED BY <1>2, <2>3, <2>4, <3>1, <3>2 DEF Found
  <2> QED BY <1>1, <1>2, <2>1, <2>5, ItselfBefore, ReplayingExact DEF Opened, Replaying
<1> QED BY <1>4, <1>5


LEMMA ReplayLogExact ==
  ASSUME BaseInv, BaseInv', NumberInv, ExactInv, RecoverLogFile
  PROVE  ExactInv' /\ Contents(disk') = Contents(disk) /\ ret' = ret
<1> DEFINE n == CHOOSE k \in rec.logs : \A m \in rec.logs : k <= m
           found == InLog(disk.logs[n].recs)
<1>1. /\ up = "replay" /\ up' = "replay" /\ rec.logs # {} /\ rec.logs \subseteq DOMAIN disk.logs
      /\ rec.logs \subseteq Nat /\ IsSound(disk) /\ IsDisk(disk) /\ IsVersionSet(vs) /\ ReplayNumbers /\ UNCHANGED openRest
      /\ ReplayExact /\ IsSound(disk')
  BY DEF RecoverLogFile, BaseInv, ManifestInv, Replaying, TypesInv, OpenTypes, NumberInv, IsSound, ExactInv
<1>2. n \in rec.logs
  BY <1>1, LeastNatural
<1>3. /\ rec' = [logs |-> rec.logs \ {n}, add |-> IF found = {} THEN rec.add ELSE rec.add \union {<<0, vs.next>>}]
      /\ disk' = IF found = {} THEN disk ELSE Tabled(disk, vs.next, found)
      /\ vs'.tables = vs.tables
  BY <1>1 DEF RecoverLogFile, Tabled, IsVersionSet
<1>4. \A w : w \in found <=> InFile(disk.logs[n], w)
  <2>1. disk.logs[n].recs \in Seq(SUBSET Batches)
    BY <1>1, <1>2 DEF IsDisk, IsFiles, Records
  <2> QED BY <2>1, InLogIs DEF InFile
<1> HIDE DEF found, n
<1>5. vs.next \in Nat /\ disk.current # 0 /\ NotTaken(Current(disk), vs.next)
  <2>1. vs.next \in Nat /\ disk.current # 0
    BY <1>1 DEF IsVersionSet, ReplayNumbers
  <2> QED BY <1>1, <2>1, CurrentRecords, FreshTaken DEF ReplayNumbers
<1>6. /\ disk'.logs = disk.logs /\ disk'.current = disk.current /\ Current(disk') = Current(disk)
      /\ \A m : m # vs.next => /\ m \in DOMAIN disk'.tables <=> m \in DOMAIN disk.tables
                               /\ m \in DOMAIN disk.tables => disk'.tables[m] = disk.tables[m]
      /\ found # {} => vs.next \in DOMAIN disk'.tables /\ disk'.tables[vs.next] = found
  <2>1. CASE found = {}
    BY <1>3, <2>1
  <2>2. CASE found # {}
    <3>1. disk' = Tabled(disk, vs.next, found)
      BY <1>3, <2>2
    <3>2. /\ disk'.logs = disk.logs /\ disk'.manifests = disk.manifests /\ disk'.current = disk.current
          /\ DOMAIN disk'.tables = DOMAIN disk.tables \union {vs.next} /\ disk'.tables[vs.next] = found
          /\ \A m \in DOMAIN disk.tables \ {vs.next} : disk'.tables[m] = disk.tables[m]
      BY <1>1, <1>5, <3>1, NewTableDisk
    <3> QED BY <3>2 DEF Current
  <2> QED BY <2>1, <2>2
<1>7. AsBefore(disk, disk')
  BY <1>5, <1>6 DEF AsBefore
<1>8. \A x \in vs.tables \union rec.add : x[2] # vs.next
  <2> SUFFICES ASSUME NEW x \in vs.tables \union rec.add PROVE x[2] # vs.next
    OBVIOUS
  <2>1. x \in Tables
    BY <1>1 DEF IsVersionSet, Versions, BaseInv, TypesInv, OpenTypes
  <2>2. x[2] < vs.next /\ x[2] \in Nat
    BY <1>1, <2>1 DEF ReplayNumbers, Below, Tables
  <2> QED BY <1>5, <2>2
<1>9. \A w : InTables(disk'.tables, vs.tables \union rec.add, w) <=> InTables(disk.tables, vs.tables \union rec.add, w)
  BY <1>6, <1>8 DEF InTables
<1>10. ASSUME NEW w
       PROVE  InTables(disk'.tables, vs'.tables \union rec'.add, w) <=>
                InTables(disk.tables, vs.tables \union rec.add, w) \/ InFile(disk.logs[n], w)
  <2>1. CASE found = {}
    <3>1. vs'.tables \union rec'.add = vs.tables \union rec.add /\ ~InFile(disk.logs[n], w)
      BY <1>3, <1>4, <2>1
    <3> QED BY <1>9, <3>1
  <2>2. CASE found # {}
    <3>1. rec'.add = rec.add \union {<<0, vs.next>>} /\ <<0, vs.next>>[2] = vs.next
      BY <1>3, <2>2
    <3>2. InTables(disk'.tables, vs'.tables \union rec'.add, w) <=>
            InTables(disk'.tables, vs.tables \union rec.add, w) \/ InTables(disk'.tables, {<<0, vs.next>>}, w)
      BY <1>3, <3>1 DEF InTables
    <3>3. InTables(disk'.tables, {<<0, vs.next>>}, w) <=> w \in found
      BY <1>6, <2>2, <3>1 DEF InTables
    <3> QED BY <1>4, <1>9, <3>2, <3>3
  <2> QED BY <2>1, <2>2
<1>11. ASSUME NEW w
       PROVE  w \in Contents(disk) <=> \/ InTables(disk'.tables, vs'.tables \union rec'.add, w)
                                       \/ \E m \in rec'.logs : InFile(disk'.logs[m], w)
  <2>1. (\E m \in rec.logs : InFile(disk.logs[m], w)) <=>
          InFile(disk.logs[n], w) \/ \E m \in rec'.logs : InFile(disk'.logs[m], w)
    BY <1>2, <1>3, <1>6
  <2> QED BY <1>1, <1>10, <2>1 DEF ReplayExact
<1>12. up \notin Opened /\ up' \in Replaying
  BY <1>1 DEF Opened, Replaying
<1>13. \A w : w \in Contents(disk) <=> \/ InTables(disk'.tables, vs'.tables \union rec'.add, w)
                                       \/ \E m \in rec'.logs : InFile(disk'.logs[m], w)
  BY <1>11
<1> QED BY <1>1, <1>7, <1>12, <1>13, ReplayingExact

LEMMA OpenLogExact ==
  ASSUME BaseInv, BaseInv', NumberInv, ExactInv, OpenLog
  PROVE  ExactInv' /\ Contents(disk') = Contents(disk) /\ ret' = ret
<1>1. /\ UNCHANGED openRest /\ up = "replay" /\ up' = "manifest" /\ rec.logs = {} /\ rec' = rec
      /\ logfile' = vs.next /\ vs' = [vs EXCEPT !.next = @ + 1] /\ disk' = WithLog(disk, vs.next)
  BY DEF OpenLog, WithLog
<1>2. IsDisk(disk) /\ IsVersionSet(vs) /\ vs.next \in Nat /\ IsSound(disk')
  BY DEF BaseInv, TypesInv, IsVersionSet, ManifestInv
<1>3. /\ disk'.tables = disk.tables /\ disk'.manifests = disk.manifests /\ disk'.current = disk.current
      /\ DOMAIN disk'.logs = DOMAIN disk.logs \union {vs.next} /\ disk'.logs[vs.next].recs = <<>>
      /\ \A m \in DOMAIN disk.logs \ {vs.next} : disk'.logs[m] = disk.logs[m]
  BY <1>1, <1>2, NewLogDisk
<1>4. vs'.tables = vs.tables
  BY <1>1, <1>2 DEF IsVersionSet
<1>5. \A m \in DOMAIN disk.logs : m # vs.next
  <2>1. \A m \in DOMAIN disk.logs : m < vs.next
    BY <1>1 DEF NumberInv, ReplayNumbers, Replaying
  <2>2. DOMAIN disk.logs \subseteq Nat
    BY <1>2 DEF IsDisk, IsFiles, Filenames
  <2> QED BY <1>2, <2>1, <2>2
<1>6. AsBefore(disk, disk')
  BY <1>3, <1>5 DEF AsBefore, Current
<1>7. ReplayExact
  BY <1>1 DEF ExactInv, Replaying
<1>8. \A w : w \in Contents(disk) <=> \/ InTables(disk'.tables, vs'.tables \union rec'.add, w)
                                      \/ \E m \in rec'.logs : InFile(disk'.logs[m], w)
  BY <1>1, <1>3, <1>4, <1>7 DEF ReplayExact
<1> QED BY <1>1, <1>2, <1>6, <1>8, ReplayingExact DEF Opened, Replaying

LEMMA OpenManifestExact ==
  ASSUME BaseInv, BaseInv', NumberInv, ExactInv, OpenManifest
  PROVE  ExactInv' /\ Contents(disk') = Contents(disk) /\ ret' = ret
<1> DEFINE ed == Edit(vs.tables \union rec.add, {}, [vs EXCEPT !.log = logfile])
<1>1. /\ UNCHANGED openRest /\ up = "manifest" /\ up' = "current" /\ UNCHANGED <<logfile, vs, rec>>
      /\ disk' = Manifested(disk, vs.manifest, ed, 1)
  BY DEF OpenManifest, Manifested
<1>2. IsSound(disk) /\ IsVersionSet(vs) /\ vs.next \in Nat /\ rec \in [logs : SUBSET Nat, add : Versions] /\ logfile \in Nat
  BY DEF BaseInv, TypesInv, ManifestInv, IsVersionSet, OpenTypes, MemTypes
<1>3. disk.current < vs.manifest /\ vs.manifest < vs.next /\ disk.current \in Nat /\ vs.manifest \in Nat
  BY <1>1, <1>2 DEF BaseInv, ManifestInv, Replaying, IsSound, IsDisk, IsVersionSet
<1>4. vs.tables \union rec.add \in Versions /\ {} \in Versions
  BY <1>2 DEF IsVersionSet, Versions
<1>5. ed \in EditRecords /\ ed.next = vs.next
  BY <1>2, <1>4 DEF Edit, EditRecords, IsVersionSet, Versions
<1> HIDE DEF ed
<1>6. /\ disk'.logs = disk.logs /\ disk'.tables = disk.tables /\ disk'.current = disk.current
      /\ \A m \in DOMAIN disk.manifests \ {vs.manifest} : disk'.manifests[m] = disk.manifests[m]
  <2>1. ed.next > vs.manifest
    BY <1>3, <1>5
  <2> QED BY <1>1, <1>2, <1>3, <1>5, <2>1, NewManifestDisk
<1>7. disk.current # 0 => Current(disk') = Current(disk)
  <2>1. disk.current # vs.manifest
    BY <1>3
  <2> QED BY <1>2, <1>6, <2>1 DEF Current, IsSound, CurrentThere
<1>8. AsBefore(disk, disk') /\ IsSound(disk')
  BY <1>6, <1>7 DEF AsBefore, BaseInv, ManifestInv
<1>9. ReplayExact
  BY <1>1 DEF ExactInv, Replaying
<1>10. \A w : w \in Contents(disk) <=> \/ InTables(disk'.tables, vs'.tables \union rec'.add, w)
                                       \/ \E m \in rec'.logs : InFile(disk'.logs[m], w)
  BY <1>1, <1>6, <1>9 DEF ReplayExact
<1> QED BY <1>1, <1>8, <1>10, ReplayingExact DEF Opened, Replaying

LEMMA OpenFailsExact ==
  ASSUME BaseInv, NumberInv, ExactInv, OpenFails
  PROVE  ExactInv' /\ Contents(disk') = Contents(disk) /\ ret' = ret
<1>1. /\ Reset /\ up' = "closed" /\ excused' = excused /\ up \notin Opened
      /\ disk' = IF up = "current" THEN Dropped(disk, vs.manifest) ELSE disk
  BY DEF OpenFails, Dropped, Opened
<1>2. IsSound(disk) /\ Restores(disk)
  BY <1>1 DEF BaseInv, ManifestInv, ExactInv
<1>3. IsSound(disk') /\ AsBefore(disk, disk')
  <2>1. CASE up # "current"
    BY <1>1, <1>2, <2>1, ItselfBefore
  <2>2. CASE up = "current"
    <3>1. disk.current < vs.manifest /\ disk.current \in Nat /\ vs.manifest \in Nat
      BY <2>2 DEF BaseInv, ManifestInv, Replaying, TypesInv, IsVersionSet, IsDisk
    <3>2. vs.manifest # disk.current
      BY <3>1
    <3>3. /\ IsSound(disk') /\ disk'.current = disk.current /\ disk'.tables = disk.tables /\ disk'.logs = disk.logs
          /\ DOMAIN disk'.manifests = DOMAIN disk.manifests \ {vs.manifest}
          /\ \A m \in DOMAIN disk'.manifests : disk'.manifests[m] = disk.manifests[m]
      BY <1>1, <1>2, <2>2, <3>2, DroppedDisk, Zenon
    <3>4. disk.current # 0 => Current(disk') = Current(disk)
      BY <1>2, <3>2, <3>3 DEF Current, IsSound, CurrentThere
    <3> QED BY <3>3, <3>4 DEF AsBefore
  <2> QED BY <2>1, <2>2
<1>4. Contents(disk') = Contents(disk) /\ Restores(disk')
  BY <1>2, <1>3, ContentsBefore, RestoresBefore
<1>5. ExcusedExact' /\ ret' = ret
  BY <1>1, ResetExcused
<1>6. ExactInv'
  BY <1>1, <1>4, <1>5, ClosedExact DEF Opened, Replaying
<1> QED BY <1>4, <1>5, <1>6

LEMMA OpenCurrentExact ==
  ASSUME BaseInv, BaseInv', FilesInv, FilesInv', StampInv, NumberInv, KeepInv, ExactInv, OpenCurrent
  PROVE  ExactInv' /\ Contents(disk') = Contents(disk) /\ ret' = ret
<1> DEFINE g == disk.manifests[vs.manifest]
           t == vs.tables \union rec.add
<1>1. up = "current" /\ up' = "open" /\ UNCHANGED openRest /\ logfile' = logfile
  BY DEF OpenCurrent
<1>2. /\ disk'.current = vs.manifest /\ Current(disk') = g /\ vs.manifest # 0
      /\ \A m \in DOMAIN disk.logs : m >= logfile => m \in DOMAIN disk'.logs
      /\ \A m \in DOMAIN disk'.logs : m \in DOMAIN disk.logs /\ disk'.logs[m] = disk.logs[m]
      /\ \A m \in DOMAIN disk'.tables : m \in DOMAIN disk.tables /\ disk'.tables[m] = disk.tables[m]
      /\ vs'.tables = t /\ vs'.log = logfile
  BY OpenCurrentDisk
<1>3. ReplayKept /\ ReplayNumbers /\ ReplayExact /\ logfile \in Nat /\ Settled(g, t) /\ IsSound(disk') /\ DOMAIN disk.logs \subseteq Nat
  BY <1>1 DEF KeepInv, Replaying, NumberInv, ExactInv, BaseInv, TypesInv, MemTypes, FilesInv, ManifestInv, IsDisk, IsFiles, Filenames
<1>4. g.recs[Len(g.recs)].log = logfile
  <2>1. Len(g.recs) \in 1 .. Len(g.recs)
    BY <1>2, <1>3, CurrentRecords, SettledPoint
  <2> QED BY <1>1, <1>3, <2>1 DEF ReplayKept
<1> HIDE DEF g, t
<1>5. /\ \A m \in DOMAIN disk'.logs : m >= logfile => m = logfile /\ disk'.logs[m].recs = <<>>
      /\ \A m \in DOMAIN disk'.logs : m <= logfile
      /\ logfile \in DOMAIN disk'.logs
  <2>1. \A m \in DOMAIN disk.logs : m < logfile \/ (m = logfile /\ disk.logs[m].recs = <<>>)
    BY <1>1, <1>3 DEF ReplayNumbers
  <2>2. logfile \in DOMAIN disk'.logs
    BY <1>1, <1>2, <1>3 DEF ReplayKept
  <2>3. \A m \in DOMAIN disk'.logs : /\ m \in Nat /\ disk'.logs[m] = disk.logs[m]
                                     /\ m < logfile \/ (m = logfile /\ disk.logs[m].recs = <<>>)
    BY <1>2, <1>3, <2>1
  <2> QED BY <1>3, <2>2, <2>3
<1>6. \A w : ~InFile(disk'.logs[logfile], w)
  <2>1. Len(disk'.logs[logfile].recs) = 0
    BY <1>3, <1>5
  <2> QED BY <2>1 DEF InFile, InRecs
<1>7. ASSUME NEW w PROVE InTables(disk'.tables, t, w) <=> InTables(disk.tables, t, w)
  <2>1. \A x \in t : x[2] \in DOMAIN disk'.tables
    BY <1>1, <1>2 DEF FilesInv, OpenedInv, There, Opened
  <2> QED BY <1>2, <2>1 DEF InTables
<1>8. ASSUME NEW w PROVE w \in Contents(disk') <=> w \in Contents(disk)
  <2>1. w \in Contents(disk') <=> InTables(disk'.tables, t, w) \/ InLogs("process", disk'.logs, logfile, w)
    BY <1>2, <1>3, <1>4, SettledContents
  <2>2. ~InLogs("process", disk'.logs, logfile, w)
    BY <1>5, <1>6 DEF InLogs, InFile, Reach
  <2>3. w \in Contents(disk) <=> InTables(disk.tables, t, w)
    BY <1>1, <1>3 DEF ReplayExact, ReplayNumbers, t
  <2> QED BY <1>7, <2>1, <2>2, <2>3
<1>9. VersionExact'
  BY <1>2, <1>3, <1>4 DEF VersionExact, Current
<1>10. LogsExact'
  <2>1. Len(disk'.logs[logfile].recs) = 0
    BY <1>3, <1>5
  <2>2. \A m \in DOMAIN disk'.logs : m <= logfile' /\ ~(vs'.log <= m /\ m < logfile')
    <3>1. \A m \in DOMAIN disk'.logs : m \in Nat /\ m <= logfile /\ (m >= logfile => m = logfile)
      BY <1>2, <1>3, <1>5
    <3> QED BY <1>1, <1>2, <1>3, <3>1
  <2>3. \A i \in 1 .. Len(disk'.logs[logfile'].recs) : disk'.logs[logfile'].recs[i] # TornRecord
    BY <1>1, <2>1
  <2> QED BY <1>1, <1>6, <2>2, <2>3 DEF LogsExact
<1>11. EditExact'
  <2>1. comp' = NoComp /\ bg'.pc = "idle"
    BY <1>1, NotOpened DEF FilesInv, openRest, Opened
  <2> QED BY <2>1 DEF EditExact, NoComp
<1>12. ExcusedExact' /\ ret' = ret
  BY <1>1, SameExcused DEF openRest
<1>13. ExactInv'
  BY <1>1, <1>9, <1>10, <1>11, <1>12 DEF ExactInv, ExcusedExact, Opened, Replaying
<1> QED BY <1>8, <1>12, <1>13


-----------------------------------------------------------------------------
(***************************************************************************)
(* Reading and closing.                                                    *)
(***************************************************************************)
LEMMA StillExact ==
  ASSUME ExactInv, UNCHANGED <<pc, ret, queue, lead, mem, imm, logfile, vs, bgerr, bg, comp, rec, disk, excused>>,
         up' = up \/ (up \in Opened /\ up' \in Opened)
  PROVE  ExactInv'
<1>1. Group' = Group /\ (\A w : InImm(w)' <=> InImm(w)) /\ ExcusedExact'
  BY SameExcused DEF Group, InImm
<1>2. CASE up \in Opened
  <2>1. VersionExact /\ LogsExact /\ EditExact /\ up' \in Opened /\ up' # "newcurrent" /\ up' \notin Replaying
    BY <1>2 DEF ExactInv, Opened, Replaying
  <2>2. VersionExact'
    BY <2>1 DEF VersionExact
  <2>3. LogsExact'
    BY <1>1, <2>1 DEF LogsExact
  <2>4. EditExact'
    BY <1>1, <2>1 DEF EditExact
  <2> QED BY <1>1, <2>1, <2>2, <2>3, <2>4 DEF ExactInv, ExcusedExact
<1>3. CASE up \notin Opened
  <2>1. up' = up /\ Restores(disk)' /\ (up \in Replaying => ReplayExact')
    BY <1>3 DEF ExactInv, Restores, ReplayExact
  <2> QED BY <1>1, <1>3, <2>1 DEF ExactInv, ExcusedExact
<1> QED BY <1>2, <1>3

LEMMA CallerExact ==
  ASSUME BaseInv, NumberInv, ExactInv, (\E r \in Reader : GetBegins(r) \/ GetEnds(r)) \/ Close \/ Closing \/ UNCHANGED vars
  PROVE  ExactInv' /\ Contents(disk') = Contents(disk) /\ ret' = ret
<1>1. CASE (\E r \in Reader : GetBegins(r) \/ GetEnds(r)) \/ Close \/ UNCHANGED vars \/ (Closing /\ scheduled)
  <2>1. /\ UNCHANGED <<pc, ret, queue, lead, mem, imm, logfile, vs, bgerr, bg, comp, rec, disk, excused>>
        /\ up' = up \/ (up \in Opened /\ up' \in Opened)
    BY <1>1 DEF GetBegins, GetEnds, Close, Closing, vars, writerVars, memVars, Opened
  <2>2. disk' = disk /\ ret' = ret
    BY <2>1
  <2> QED BY <2>1, <2>2, StillExact
<1>2. CASE Closing /\ ~scheduled
  <2>1. Reset /\ up = "closing" /\ up' = "closed" /\ excused' = excused /\ disk' = disk
    BY <1>2 DEF Closing
  <2>2. ExcusedExact' /\ ret' = ret
    BY <2>1, ResetExcused
  <2>3. up \in Opened /\ VersionExact
    BY <2>1 DEF ExactInv, Opened
  <2>4. Restores(disk)
    BY <2>3, OpenedThere, SettledRestores DEF VersionExact
  <2>5. Restores(disk)'
    BY <2>1, <2>4 DEF Restores
  <2> QED BY <2>1, <2>2, <2>5, ClosedExact DEF Opened, Replaying
<1> QED BY <1>1, <1>2

-----------------------------------------------------------------------------
(***************************************************************************)
(* The writers.  What recovery would find grows with AddRecord and stays   *)
(* the same in every other step.                                           *)
(***************************************************************************)
\* Those a crash took have returned, and none of them comes back.
LEMMA WriterExcused ==
  ASSUME BaseInv, ExactInv, NEW w \in Writer, Enter(w) \/ WriterStep(w), excused' = excused
  PROVE  ExcusedExact'
<1> SUFFICES ASSUME NEW v \in excused PROVE v \in Batches \ Sync /\ ret'[v] = "ok" /\ ~Held(v)'
  BY DEF ExcusedExact
<1>1. v \in Batches \ Sync /\ v \in Writer /\ ret[v] = "ok" /\ ~Held(v)
  BY DEF ExactInv, Batches
<1>2. ret'[v] = "ok"
  BY <1>1, ToldOnce DEF BaseInv
<1>3. v \notin Group
  BY <1>1, GroupInCall
<1>4. ~Held(v)'
  BY <1>1, <1>3, WriterHeld
<1> QED BY <1>1, <1>2, <1>4

\* The version and the edit under way are not the writers'.
LEMMA WriterEdit ==
  ASSUME BaseInv, KeepInv, ExactInv, up = "open", NEW w \in Writer, Enter(w) \/ WriterStep(w), imm' = imm \/ imm = NoMem
  PROVE  VersionExact' /\ EditExact' /\ up' = "open" /\ disk'.tables = disk.tables /\ vs'.tables = vs.tables /\ vs'.log = vs.log
<1>1. WriterFrame
  BY WriterStepFrame DEF BaseInv
<1>2. /\ up' = up /\ bg' = bg /\ comp' = comp /\ disk'.tables = disk.tables /\ Current(disk') = Current(disk)
      /\ vs'.tables = vs.tables /\ vs'.log = vs.log
  BY <1>1 DEF WriterFrame, callerVars, SameTables, SameVersion, Current
<1>3. VersionExact /\ EditExact /\ EditKept
  BY DEF ExactInv, KeepInv, Opened
<1>4. VersionExact'
  BY <1>2, <1>3 DEF VersionExact
<1>5. EditExact'
  <2>1. CASE imm' = imm
    <3>1. \A v : InImm(v)' <=> InImm(v)
      BY <2>1 DEF InImm
    <3> QED BY <1>2, <1>3, <3>1 DEF EditExact
  <2>2. CASE imm = NoMem
    <3>1. bg.pc # "flushlog"
      BY <1>3, <2>2 DEF EditKept
    <3> QED BY <1>2, <1>3, <3>1 DEF EditExact
  <2> QED BY <2>1, <2>2
<1> QED BY <1>2, <1>4, <1>5

LEMMA OpenedExact ==
  ASSUME ExcusedExact', up' \in Opened, VersionExact', LogsExact', EditExact'
  PROVE  ExactInv'
  BY DEF ExactInv, ExcusedExact, Opened, Replaying

\* Steps that leave the files and the memtables alone.
LEMMA QuietExact ==
  ASSUME BaseInv, KeepInv, ExactInv, up = "open", NEW w \in Writer, Enter(w) \/ WriterStep(w),
         UNCHANGED <<mem, imm, logfile, disk, excused, bgerr>>,
         InSync(pc) => InSync(pc') /\ Group' = Group
  PROVE  ExactInv' /\ Contents(disk') = Contents(disk)
<1>1. VersionExact' /\ EditExact' /\ up' = "open" /\ vs'.tables = vs.tables /\ vs'.log = vs.log
  BY WriterEdit
<1>2. LogsExact
  BY DEF ExactInv, Opened
<1>3. \A v : InImm(v)' <=> InImm(v)
  BY DEF InImm
<1>4. LogsExact'
  BY <1>1, <1>2, <1>3 DEF LogsExact
<1>5. ExcusedExact'
  BY WriterExcused
<1> QED BY <1>1, <1>4, <1>5, OpenedExact DEF Opened

LEMMA SwitchExact ==
  ASSUME BaseInv, NumberInv, KeepInv, ExactInv, up = "open", NEW w \in Writer, SwitchMem(w)
  PROVE  ExactInv' /\ Contents(disk') = Contents(disk)
<1>1. /\ WriterInv /\ IsDisk(disk) /\ IsSound(disk) /\ IsVersionSet(vs) /\ logfile \in Nat /\ LogKept /\ LogsExact
      /\ vs.next \in Nat /\ vs.log \in Nat /\ DOMAIN disk.logs \subseteq Nat
  BY DEF KeepInv, ExactInv, Opened, BaseInv, TypesInv, ManifestInv, MemTypes, IsVersionSet, IsDisk, IsFiles, Filenames
<1>2. /\ pc[w] = "room" /\ ~bgerr /\ imm = NoMem /\ logfile' = vs.next
      /\ disk' = WithLog(disk, vs.next) /\ imm' = {mem} /\ mem' = {} /\ excused' = excused
  BY DEF SwitchMem, MustSwitch, MustWait, WithLog
<1>0. WriterStep(w)
  BY DEF WriterStep
<1>3. VersionExact' /\ EditExact' /\ up' = "open" /\ vs'.tables = vs.tables /\ vs'.log = vs.log
  BY <1>0, <1>2, WriterEdit
<1>4. /\ disk'.tables = disk.tables /\ disk'.manifests = disk.manifests /\ disk'.current = disk.current
      /\ DOMAIN disk'.logs = DOMAIN disk.logs \union {vs.next} /\ disk'.logs[vs.next].recs = <<>>
      /\ \A m \in DOMAIN disk.logs \ {vs.next} : disk'.logs[m] = disk.logs[m]
  <2>1. IsDisk(disk) /\ vs.next \in Nat /\ disk' = WithLog(disk, vs.next)
    BY <1>1, <1>2
  <2> QED BY <2>1, NewLogDisk
<1>5. logfile < vs.next /\ \A m \in DOMAIN disk.logs : m <= logfile /\ m # vs.next /\ m <= vs.next
  <2>1. logfile < vs.next /\ \A m \in DOMAIN disk.logs : m <= logfile
    BY <1>1 DEF LogKept, LogsExact
  <2> QED BY <1>1, <2>1
<1>6. IsSound(disk') /\ AsBefore(disk, disk')
  <2>1. IsSound(disk')
    BY <1>1, <1>2, <1>4, NewLogDisk DEF IsSound, CurrentThere
  <2> QED BY <1>4, <1>5, <2>1 DEF AsBefore, Current
<1>7. Contents(disk') = Contents(disk)
  BY <1>1, <1>6, ContentsBefore
<1>8. \A v : ~InFile(disk'.logs[vs.next], v)
  BY <1>4 DEF InFile, InRecs
<1>9. LogsExact'
  <2>1. \A i \in 1 .. Len(disk'.logs[vs.next].recs) : disk'.logs[vs.next].recs[i] # TornRecord
    BY <1>4
  <2>2. \A m \in DOMAIN disk'.logs : m <= vs.next
    BY <1>1, <1>4, <1>5
  <2>3. ASSUME NEW m \in DOMAIN disk'.logs, NEW v, vs.log <= m, m < vs.next, InFile(disk'.logs[m], v)
        PROVE  InImm(v)' \/ InTables(disk.tables, vs.tables, v)
    <3>1. m \in DOMAIN disk.logs /\ InFile(disk.logs[m], v)
      BY <1>4, <1>8, <2>3
    <3>2. CASE m = logfile
      <4>1. ~InSync(pc)
        BY <1>1, <1>2, LeaderAlone DEF Leading
      <4>2. v \in mem
        BY <1>1, <1>2, <3>1, <3>2, <4>1 DEF LogsExact
      <4> QED BY <1>2, <4>2 DEF InImm
    <3>3. CASE m # logfile
      <4>1. m < logfile
        BY <1>1, <1>5, <3>1, <3>3
      <4>2. InImm(v) \/ InTables(disk.tables, vs.tables, v)
        BY <1>1, <2>3, <3>1, <4>1 DEF LogsExact
      <4> QED BY <1>2, <4>2 DEF InImm, NoMem
    <3> QED BY <3>2, <3>3
  <2> QED BY <1>2, <1>3, <1>4, <1>8, <2>1, <2>2, <2>3 DEF LogsExact
<1>10. ExcusedExact'
  BY <1>0, <1>2, WriterExcused
<1> QED BY <1>3, <1>7, <1>9, <1>10, OpenedExact DEF Opened


\* In a log without a torn record everything is found.
LEMMA CleanLog ==
  ASSUME NEW recs \in Seq(SUBSET Batches), \A i \in 1 .. Len(recs) : recs[i] # TornRecord,
         NEW r \in SUBSET Batches, r # {}
  PROVE  LET q == Append(recs, r)
         IN  /\ \A i \in 1 .. Len(q) : q[i] # TornRecord
             /\ BehindTorn(q) = {}
<1> DEFINE q == Append(recs, r)
<1>1. /\ q \in Seq(SUBSET Batches) /\ Len(recs) \in Nat /\ Len(q) = Len(recs) + 1
      /\ q[Len(q)] = r /\ \A i \in 1 .. Len(recs) : q[i] = recs[i]
  BY AppendProperties, LenProperties
<1>2. DOMAIN q = 1 .. Len(q)
  BY <1>1, LenProperties
<1> HIDE DEF q
<1>3. \A i \in 1 .. Len(q) : i \in 1 .. Len(recs) \/ i = Len(q)
  BY <1>1
<1>4. \A i \in 1 .. Len(q) : q[i] # TornRecord
  BY <1>1, <1>3 DEF TornRecord
<1>5. \A i \in DOMAIN q : \A k \in 1 .. i : q[k] # TornRecord
  <2>1. \A i \in 1 .. Len(q) : \A k \in 1 .. i : k \in 1 .. Len(q)
    BY <1>1
  <2> QED BY <1>2, <1>4, <2>1
<1>6. BehindTorn(q) = {}
  BY <1>5 DEF BehindTorn, InLog
<1> QED BY <1>4, <1>6 DEF q

\* The leader's batch is in its group.
LEMMA GroupThere ==
  ASSUME WriterInv, NEW w \in Writer, pc[w] \in {"log", "sync"}
  PROVE  w \in Group
<1>1. queue[1] = w /\ lead.group > 0 /\ IsBatch(w) /\ lead.group \in Nat
  BY LeadType DEF WriterInv, WritersSound, Leading
<1>2. 1 \in 1 .. lead.group
  BY <1>1
<1> QED BY <1>1, <1>2 DEF Group

\* While the database is open, in terms of the next state.
LEMMA NextContents ==
  ASSUME BaseInv', VersionExact', disk'.current # 0, NEW v
  PROVE  v \in Contents(disk') <=> InTables(disk'.tables, vs'.tables, v) \/ InLogs("process", disk'.logs, vs'.log, v)
<1>1. IsSound(disk') /\ Settled(Current(disk'), vs'.tables) /\ Current(disk').recs[Len(Current(disk').recs)].log = vs'.log
  BY DEF BaseInv, ManifestInv, VersionExact, Current
<1> QED BY <1>1, SettledContents

LEMMA AddRecordExact ==
  ASSUME BaseInv, BaseInv', NumberInv, KeepInv, ExactInv, up = "open", NEW w \in Writer, AddRecord(w)
  PROVE  /\ ExactInv' /\ excused' = excused
         /\ \A v : v \in Contents(disk') <=> v \in Contents(disk) \/ v \in Group
<1> DEFINE old == disk.logs[logfile]
           new == disk'.logs[logfile]
<1>1. /\ WriterInv /\ IsDisk(disk) /\ LogKept /\ LogsExact /\ VersionExact /\ Group \in SUBSET Batches /\ pc \in [Writer -> Places]
      /\ disk.current # 0 /\ up \in Opened
  BY GroupBatches, OpenedThere DEF KeepInv, ExactInv, Opened, BaseInv, TypesInv, WriterInv, WritersSound
<1>2. /\ pc[w] = "log" /\ disk' = Logged(Group) /\ UNCHANGED <<logfile, imm>> /\ WriterStep(w)
      /\ excused' = excused \union BehindTorn(new.recs)
  BY DEF AddRecord, WriterStep
<1>3. VersionExact' /\ EditExact' /\ up' = "open" /\ disk'.tables = disk.tables /\ vs'.tables = vs.tables /\ vs'.log = vs.log
  BY <1>2, WriterEdit
<1>4. /\ disk'.current = disk.current /\ DOMAIN disk'.logs = DOMAIN disk.logs
      /\ \A m \in DOMAIN disk.logs \ {logfile} : disk'.logs[m] = disk.logs[m]
      /\ logfile \in DOMAIN disk.logs /\ new.recs = Append(old.recs, Group) /\ old.recs \in Seq(SUBSET Batches)
      /\ \A m \in DOMAIN disk.logs : Covers(disk'.logs[m], disk.logs[m])
      /\ \A v \in Group : InFile(new, v) \/ v \in BehindTorn(new.recs)
  <2>1. logfile \in DOMAIN disk.logs
    BY <1>1 DEF LogKept
  <2>2. old.recs \in Seq(SUBSET Batches)
    BY <1>1, <2>1 DEF IsDisk, IsFiles, Records
  <2> QED BY <1>1, <1>2, <2>1, <2>2, LoggedDisk, LoggedCovers DEF InFile
<1>5. w \in Group
  BY <1>1, <1>2, GroupThere
<1>6. BehindTorn(new.recs) = {} /\ \A i \in 1 .. Len(new.recs) : new.recs[i] # TornRecord
  <2>1. Group # {} /\ \A i \in 1 .. Len(old.recs) : old.recs[i] # TornRecord
    BY <1>1, <1>5 DEF LogsExact
  <2> QED BY <1>1, <1>4, <2>1, CleanLog
<1>7. excused' = excused
  BY <1>2, <1>6
<1>8. \A v : InFile(new, v) <=> InFile(old, v) \/ v \in Group
  <2>1. \A v : InFile(new, v) => InFile(old, v) \/ v \in Group
    <3> SUFFICES ASSUME NEW v, InFile(new, v) PROVE InFile(old, v) \/ v \in Group
      OBVIOUS
    <3>1. InRecs(Append(old.recs, Group), Len(Append(old.recs, Group)), v)
      BY <1>4 DEF InFile
    <3>2. old.recs \in Seq(SUBSET Batches) /\ Group \in SUBSET Batches
      BY <1>1, <1>4
    <3> HIDE DEF old
    <3> QED BY <3>1, <3>2, RecsOnly DEF InFile
  <2>2. \A v \in Group : InFile(new, v)
    BY <1>4, <1>6
  <2>3. \A v : InFile(old, v) => InFile(new, v)
    BY <1>4 DEF Covers, Kinds, Reach, InFile
  <2> QED BY <2>1, <2>2, <2>3
<1> HIDE DEF old, new
<1>9. ~InSync(pc) /\ \A v \in Writer : pc[v] \in {"log", "sync"} => v = w
  <2>1. pc[w] \in Leading
    BY <1>2 DEF Leading
  <2>2. \A v \in Writer : pc[v] \in {"log", "sync"} => v = w
    BY <1>1, <2>1, LeaderFacts DEF Leading
  <2> QED BY <1>2, <2>2 DEF InSync
<1>10. ~bgerr => \A v : InFile(old, v) => v \in mem
  BY <1>1, <1>9 DEF LogsExact, old
<1>11. bgerr' = bgerr /\ \A v \in Group \union mem : v \in mem' \/ (InSync(pc') /\ v \in Group')
  <2>1. bgerr' = bgerr
    BY DEF AddRecord
  <2>2. CASE w \in Sync
    <3>1. pc' = [pc EXCEPT ![w] = "sync"] /\ UNCHANGED <<queue, lead, mem>>
      BY <2>2 DEF AddRecord
    <3>2. InSync(pc') /\ Group' = Group
      BY <1>1, <3>1 DEF InSync, Group
    <3> QED BY <2>1, <3>1, <3>2
  <2>3. CASE w \notin Sync
    <3>1. EndGroup("ok", pc)
      BY <2>3 DEF AddRecord
    <3>2. mem' = mem \union Group
      BY <3>1 DEF EndGroup
    <3> QED BY <2>1, <3>2
  <2> QED BY <2>2, <2>3
<1>12. LogsExact'
  <2>1. ~bgerr' => \A v : InFile(new, v) => v \in mem' \/ (InSync(pc') /\ v \in Group')
    BY <1>8, <1>10, <1>11
  <2>2. \A m \in DOMAIN disk'.logs : /\ m <= logfile
                                     /\ \A v : vs'.log <= m /\ m < logfile /\ InFile(disk'.logs[m], v) =>
                                          InImm(v)' \/ InTables(disk'.tables, vs'.tables, v)
    <3> SUFFICES ASSUME NEW m \in DOMAIN disk'.logs
                 PROVE  /\ m <= logfile
                        /\ \A v : vs'.log <= m /\ m < logfile /\ InFile(disk'.logs[m], v) =>
                             InImm(v)' \/ InTables(disk'.tables, vs'.tables, v)
      OBVIOUS
    <3>1. /\ m \in DOMAIN disk.logs /\ m <= logfile
          /\ \A v : vs.log <= m /\ m < logfile /\ InFile(disk.logs[m], v) => InImm(v) \/ InTables(disk.tables, vs.tables, v)
      BY <1>1, <1>4 DEF LogsExact
    <3>2. logfile \in Nat /\ m \in Nat
      BY <1>1, <3>1 DEF BaseInv, TypesInv, MemTypes, IsDisk, IsFiles, Filenames
    <3>3. m < logfile => disk'.logs[m] = disk.logs[m]
      BY <1>4, <3>1, <3>2
    <3>4. \A v : InImm(v)' <=> InImm(v)
      BY <1>2 DEF InImm
    <3> QED BY <1>3, <3>1, <3>3, <3>4
  <2> QED BY <1>2, <1>6, <2>1, <2>2 DEF LogsExact, new
<1>13. ExcusedExact'
  BY <1>2, <1>7, WriterExcused
<1>14. ASSUME NEW v PROVE v \in Contents(disk') <=> v \in Contents(disk) \/ v \in Group
  <2>1. v \in Contents(disk') <=> InTables(disk'.tables, vs'.tables, v) \/ InLogs("process", disk'.logs, vs'.log, v)
    BY <1>1, <1>3, <1>4, NextContents
  <2>2. v \in Contents(disk) <=> InTables(disk.tables, vs.tables, v) \/ InLogs("process", disk.logs, vs.log, v)
    BY <1>1, OpenContents
  <2>3. logfile >= vs.log
    BY <1>1 DEF LogKept, BaseInv, TypesInv, MemTypes, IsVersionSet
  <2>4. InLogs("process", disk'.logs, vs.log, v) <=> InLogs("process", disk.logs, vs.log, v) \/ v \in Group
    <3>1. ASSUME NEW m \in DOMAIN disk.logs PROVE InFile(disk'.logs[m], v) <=> InFile(disk.logs[m], v) \/ (m = logfile /\ v \in Group)
      BY <1>4, <1>8 DEF old, new
    <3> QED BY <1>4, <2>3, <3>1 DEF InLogs, InFile, Reach
  <2> QED BY <1>3, <2>1, <2>2, <2>4
<1> QED BY <1>3, <1>7, <1>12, <1>13, <1>14, OpenedExact DEF Opened

LEMMA SyncExact ==
  ASSUME BaseInv, BaseInv', NumberInv, KeepInv, ExactInv, up = "open", NEW w \in Writer, SyncLog(w) \/ SyncFails(w)
  PROVE  ExactInv' /\ Contents(disk') = Contents(disk)
<1>1. /\ WriterInv /\ IsDisk(disk) /\ IsSound(disk) /\ IsSound(disk') /\ LogsExact /\ logfile \in DOMAIN disk.logs
  BY DEF KeepInv, ExactInv, Opened, BaseInv, TypesInv, ManifestInv, LogKept
<1>2. UNCHANGED <<logfile, imm, excused>> /\ WriterStep(w)
  BY DEF SyncLog, SyncFails, WriterStep
<1>3. VersionExact' /\ EditExact' /\ up' = "open" /\ vs'.tables = vs.tables /\ vs'.log = vs.log
  BY <1>2, WriterEdit
<1>4. /\ SameTables(disk') /\ DOMAIN disk'.logs = DOMAIN disk.logs
      /\ \A m \in DOMAIN disk.logs : disk'.logs[m].recs = disk.logs[m].recs
  <2>1. CASE SyncLog(w)
    <3>1. disk' = [disk EXCEPT !.logs[logfile].synced = Len(disk.logs[logfile].recs)]
      BY <2>1 DEF SyncLog
    <3> QED BY <1>1, <3>1, SyncedDisk
  <2>2. CASE SyncFails(w)
    BY <2>2 DEF SyncFails, SameTables
  <2> QED BY <2>1, <2>2
<1>5. Contents(disk') = Contents(disk)
  <2>1. AsBefore(disk, disk')
    BY <1>4 DEF AsBefore, SameTables, Current
  <2> QED BY <1>1, <2>1, ContentsBefore
<1>6. ~bgerr' => ~bgerr /\ \A v \in mem \union Group : v \in mem'
  <2>1. CASE SyncLog(w)
    <3>1. bgerr' = bgerr /\ EndGroup("ok", pc)
      BY <2>1 DEF SyncLog
    <3>2. mem' = mem \union Group
      BY <3>1 DEF EndGroup
    <3> QED BY <3>1, <3>2
  <2>2. CASE SyncFails(w)
    BY <2>2 DEF SyncFails
  <2> QED BY <2>1, <2>2
<1>7. LogsExact'
  <2>1. \A v : InImm(v)' <=> InImm(v)
    BY <1>2 DEF InImm
  <2>2. \A m \in DOMAIN disk.logs : \A v : InFile(disk'.logs[m], v) <=> InFile(disk.logs[m], v)
    BY <1>4 DEF InFile
  <2>3. disk'.tables = disk.tables
    BY <1>4 DEF SameTables
  <2>4. \A i \in 1 .. Len(disk'.logs[logfile'].recs) : disk'.logs[logfile'].recs[i] # TornRecord
    BY <1>1, <1>2, <1>4 DEF LogsExact
  <2>5. \A m \in DOMAIN disk'.logs : /\ m <= logfile'
                                     /\ \A v : vs'.log <= m /\ m < logfile' /\ InFile(disk'.logs[m], v) =>
                                          InImm(v)' \/ InTables(disk'.tables, vs'.tables, v)
    BY <1>1, <1>2, <1>3, <1>4, <2>1, <2>2, <2>3 DEF LogsExact
  <2>6. ~bgerr => \A v : InFile(disk.logs[logfile], v) => v \in mem \union Group
    BY <1>1 DEF LogsExact
  <2>7. ~bgerr' => \A v : InFile(disk'.logs[logfile'], v) => v \in mem'
    BY <1>1, <1>2, <1>6, <2>2, <2>6
  <2> QED BY <2>4, <2>5, <2>7 DEF LogsExact
<1>8. ExcusedExact'
  BY <1>2, WriterExcused
<1> QED BY <1>3, <1>5, <1>7, <1>8, OpenedExact DEF Opened

LEMMA WriterExact ==
  ASSUME "append" \notin Faults, BaseInv, BaseInv', StampInv, NumberInv, KeepInv, OutInv, ExactInv,
         NEW w \in Writer, Enter(w) \/ WriterStep(w)
  PROVE  /\ ExactInv' /\ up \in Opened /\ up' \in Opened /\ excused' = excused
         /\ \E T \in SUBSET Batches : (\A v \in T : ret[v] = "none") /\ Contents(disk') = Contents(disk) \union T
<1>1. up = "open" /\ up' = "open" /\ up \in Opened /\ up' \in Opened
  <2>1. up' = up
    BY WriterStepFrame DEF BaseInv, WriterFrame, callerVars
  <2> QED BY <2>1, WriterInside DEF OutInv, Enter, Opened
<1>2. ASSUME ExactInv', Contents(disk') = Contents(disk)
      PROVE  ExactInv' /\ \E T \in SUBSET Batches : (\A v \in T : ret[v] = "none") /\ Contents(disk') = Contents(disk) \union T
  <2>1. Contents(disk') = Contents(disk) \union {} /\ {} \in SUBSET Batches
    BY <1>2
  <2> QED BY <1>2, <2>1
<1>3. CASE \/ Enter(w) \/ Woken(w) \/ RoomError(w) \/ RoomDelay(w) \/ Slept(w) \/ RoomWait(w)
           \/ SwitchFails(w) \/ Flush(w)
  <2>1. UNCHANGED <<mem, imm, logfile, disk, excused, bgerr>>
    BY <1>3 DEF Enter, Woken, RoomError, RoomDelay, Slept, RoomWait, SwitchFails, Flush, memVars
  <2>2. InSync(pc) => InSync(pc') /\ Group' = Group
    BY <1>3, QuietUndisturbed DEF Undisturbed
  <2>3. ExactInv' /\ Contents(disk') = Contents(disk)
    BY <1>1, <2>1, <2>2, QuietExact
  <2> QED BY <1>1, <1>2, <2>1, <2>3
<1>4. CASE RoomFound(w)
  <2>1. UNCHANGED <<mem, imm, logfile, disk, excused, bgerr>> /\ pc[w] = "room"
    BY <1>4 DEF RoomFound, memVars
  <2>2. ~InSync(pc)
    BY <2>1, LeaderAlone DEF BaseInv, Leading
  <2>3. ExactInv' /\ Contents(disk') = Contents(disk)
    BY <1>1, <2>1, <2>2, QuietExact
  <2> QED BY <1>1, <1>2, <2>1, <2>3
<1>5. CASE SwitchMem(w)
  <2>1. ExactInv' /\ Contents(disk') = Contents(disk)
    BY <1>1, <1>5, SwitchExact
  <2>2. excused' = excused
    BY <1>5 DEF SwitchMem
  <2> QED BY <1>1, <1>2, <2>1, <2>2
<1>6. CASE AddRecord(w)
  <2>1. ExactInv' /\ excused' = excused /\ \A v : v \in Contents(disk') <=> v \in Contents(disk) \/ v \in Group
    BY <1>1, <1>6, AddRecordExact
  <2>2. Group \in SUBSET Batches /\ \A v \in Group : ret[v] = "none"
    BY GroupInCall
  <2>3. Contents(disk') = Contents(disk) \union Group
    BY <2>1
  <2> QED BY <1>1, <2>1, <2>2, <2>3
<1>7. CASE SyncLog(w) \/ SyncFails(w)
  <2>1. ExactInv' /\ Contents(disk') = Contents(disk)
    BY <1>1, <1>7, SyncExact
  <2>2. excused' = excused
    BY <1>7 DEF SyncLog, SyncFails
  <2> QED BY <1>1, <1>2, <2>1, <2>2
<1>8. ~AddRecordFails(w)
  BY DEF AddRecordFails, Fails
<1> QED BY <1>3, <1>4, <1>5, <1>6, <1>7, <1>8 DEF WriterStep


-----------------------------------------------------------------------------
(***************************************************************************)
(* The background thread: recovery would find the same after every step.   *)
(***************************************************************************)
LEMMA BackgroundAside ==
  ASSUME BaseInv, ExactInv, BackgroundStep
  PROVE  /\ ExcusedExact' /\ ret' = ret /\ Group' = Group /\ mem' = mem /\ logfile' = logfile
         /\ InSync(pc') <=> InSync(pc)
         /\ ~bgerr' => ~bgerr
<1>1. ret' = ret /\ queue' = queue /\ lead' = lead /\ mem' = mem /\ logfile' = logfile /\ excused' = excused /\ pc' \in {pc, SignalAll(pc)}
  BY BackgroundSignals
<1>2. InSync(pc') <=> InSync(pc)
  BY <1>1, SignalMoves DEF BaseInv
<1>3. Group' = Group
  <2>1. queue' = queue /\ lead' = lead
    BY <1>1
  <2> QED BY <2>1 DEF Group
<1>4. (imm' = imm \/ imm' = NoMem) /\ (bgerr' = bgerr \/ bgerr' = TRUE)
  BY DEF BackgroundStep, CallIdle, CallFlush, CallMove, CallCompact, FlushBuilt, FlushBuildFails, FlushLogged,
         FlushLogFails, Moved, MoveFails, CompactImm, OpenCompactionOutputFile, FinishCompactionOutputFile,
         CompactStops, Installed, InstallFails
<1>5. \A w : Held(w)' => Held(w)
  BY <1>1, <1>4 DEF Held, NoMem
<1>6. ExcusedExact'
  BY <1>1, <1>5 DEF ExactInv, ExcusedExact
<1>7. ~bgerr' => ~bgerr
  BY <1>4, Zenon
<1> QED BY <1>1, <1>2, <1>3, <1>6, <1>7

LEMMA BackgroundLogs ==
  ASSUME BaseInv, ExactInv, BackgroundStep, logfile \in DOMAIN disk'.logs,
         \A m \in DOMAIN disk'.logs : m \in DOMAIN disk.logs /\ disk'.logs[m] = disk.logs[m],
         \A m \in DOMAIN disk'.logs : \A v : vs'.log <= m /\ m < logfile /\ InFile(disk.logs[m], v) =>
           InImm(v)' \/ InTables(disk'.tables, vs'.tables, v)
  PROVE  LogsExact'
<1>1. LogsExact
  BY BackgroundStays DEF ExactInv
<1>2. /\ Group' = Group /\ mem' = mem /\ logfile' = logfile /\ (InSync(pc') <=> InSync(pc))
  BY BackgroundAside
<1>3. ~bgerr' => ~bgerr
  BY BackgroundAside
<1>4. \A i \in 1 .. Len(disk'.logs[logfile'].recs) : disk'.logs[logfile'].recs[i] # TornRecord
  BY <1>1, <1>2 DEF LogsExact
<1>5. \A m \in DOMAIN disk'.logs : /\ m <= logfile'
                                   /\ \A v : vs'.log <= m /\ m < logfile' /\ InFile(disk'.logs[m], v) =>
                                        InImm(v)' \/ InTables(disk'.tables, vs'.tables, v)
  BY <1>1, <1>2 DEF LogsExact
<1>6. ~bgerr => \A v : InFile(disk'.logs[logfile'], v) => v \in mem' \/ (InSync(pc') /\ v \in Group')
  BY <1>1, <1>2 DEF LogsExact
<1> QED BY <1>3, <1>4, <1>5, <1>6 DEF LogsExact

\* The manifest and the version stay.
LEMMA BackgroundSame ==
  ASSUME BaseInv, BaseInv', NumberInv, KeepInv, ExactInv, BackgroundStep, disk'.logs = disk.logs, AsBefore(disk, disk'),
         vs'.tables = vs.tables, vs'.log = vs.log, imm' = imm
  PROVE  /\ VersionExact' /\ LogsExact' /\ Contents(disk') = Contents(disk)
         /\ \A v : InTables(disk'.tables, vs'.tables, v) <=> InTables(disk.tables, vs.tables, v)
<1>1. /\ up \in Opened /\ IsSound(disk) /\ IsSound(disk') /\ disk.current # 0 /\ VersionExact /\ LogsExact
      /\ LogKept /\ VersionKept
  BY BackgroundStays, OpenedThere DEF ExactInv, KeepInv, BaseInv, ManifestInv
<1>2. Current(disk') = Current(disk)
  BY <1>1 DEF AsBefore
<1>3. VersionExact'
  BY <1>1, <1>2 DEF VersionExact
<1>4. \A v : InTables(disk'.tables, vs'.tables, v) <=> InTables(disk.tables, vs.tables, v)
  BY <1>1, BeforeTables DEF VersionKept
<1>5. LogsExact'
  <2>1. \A v : InImm(v)' <=> InImm(v)
    BY DEF InImm
  <2>2. logfile \in DOMAIN disk'.logs
    BY <1>1 DEF LogKept
  <2>3. \A m \in DOMAIN disk'.logs : \A v : vs'.log <= m /\ m < logfile /\ InFile(disk.logs[m], v) =>
          InImm(v)' \/ InTables(disk'.tables, vs'.tables, v)
    BY <1>1, <1>4, <2>1 DEF LogsExact
  <2> QED BY <2>2, <2>3, BackgroundLogs
<1>6. Contents(disk') = Contents(disk)
  BY <1>1, ContentsBefore
<1> QED BY <1>3, <1>4, <1>5, <1>6

LEMMA StillEdit ==
  ASSUME BaseInv, BaseInv', NumberInv, KeepInv, ExactInv, BackgroundStep,
         \/ CallIdle \/ CallFlush \/ CallMove \/ CallCompact \/ CompactImm \/ OpenCompactionOutputFile
         \/ FlushBuildFails \/ CompactStops
  PROVE  ExactInv' /\ Contents(disk') = Contents(disk)
<1>1. IsVersionSet(vs) /\ up \in Opened /\ up' \in Opened /\ EditExact /\ IsComp(comp) /\ OpenNumbers
  BY BackgroundStays DEF BaseInv, TypesInv, BgTypes, ExactInv, NumberInv
<1>2. disk' = disk /\ imm' = imm
  <2>1. CASE CompactStops
    BY <2>1, EndCompactKeeps DEF CompactStops
  <2> QED BY <2>1 DEF CallIdle, CallFlush, CallMove, CallCompact, CompactImm, OpenCompactionOutputFile, FlushBuildFails
<1>3. vs'.tables = vs.tables /\ vs'.log = vs.log
  BY <1>1 DEF CallIdle, CallFlush, CallMove, CallCompact, CompactImm, OpenCompactionOutputFile, FlushBuildFails, CompactStops,
              StartFlush, NewFileNumber, IsVersionSet
<1>4. VersionExact' /\ LogsExact' /\ Contents(disk') = Contents(disk)
  <2>1. AsBefore(disk, disk')
    BY <1>2, ItselfBefore
  <2> QED BY <1>2, <1>3, <2>1, BackgroundSame
<1>5. EditExact'
  <2>1. CASE CallIdle \/ FlushBuildFails
    <3>1. /\ EndCall \/ EndFlush
          /\ comp' = comp /\ (CallIdle => bg.pc = "idle" /\ EndCall) /\ (FlushBuildFails => EndFlush)
      BY <2>1 DEF CallIdle, FlushBuildFails
    <3>2. bg'.pc \in {"idle", "compact"} /\ (bg'.pc = "idle" => bg.pc = "idle" \/ ~comp.on)
      <4>1. EndFlush /\ comp.on => bg'.pc = "compact"
        BY DEF EndFlush, NoBg
      <4> QED BY <2>1, <3>1, <4>1, EndPlace
    <3>3. comp'.inputs \subseteq vs'.tables /\ (bg'.pc \in {"idle", "move"} \/ ~comp'.on => comp'.inputs = {})
      BY <1>1, <1>3, <3>1, <3>2 DEF EditExact
    <3> QED BY <3>2, <3>3 DEF EditExact
  <2>2. CASE CompactStops
    <3>1. EndCompact(disk) /\ bgerr' = TRUE
      BY <2>2 DEF CompactStops
    <3>2. comp' = NoComp /\ bg'.pc \notin Committing
      BY <3>1, EndCompactKeeps
    <3>3. comp'.inputs = {}
      BY <3>2 DEF NoComp
    <3> QED BY <3>2, <3>3 DEF EditExact, Committing
  <2>3. CASE CallFlush \/ CompactImm
    <3>1. bg'.pc = "flush" /\ comp' = comp /\ bg.pc \in {"idle", "compact"}
      BY <2>3 DEF CallFlush, CompactImm, StartFlush, NoBg
    <3> QED BY <1>1, <1>3, <3>1 DEF EditExact
  <2>4. CASE CallCompact
    <3>1. PICK inputs \in SUBSET vs.tables : comp' = [NoComp EXCEPT !.on = TRUE, !.inputs = inputs, !.base = vs.tables]
      BY <2>4 DEF CallCompact
    <3>2. bg'.pc = "compact" /\ comp'.inputs = inputs /\ comp'.on = TRUE
      BY <2>4, <3>1 DEF CallCompact, NoBg, NoComp
    <3> QED BY <1>3, <3>2 DEF EditExact
  <2>5. CASE OpenCompactionOutputFile
    <3>1. bg'.pc = "compact" /\ comp'.inputs = comp.inputs /\ comp'.on = comp.on
      BY <1>1, <2>5 DEF OpenCompactionOutputFile, IsComp
    <3> QED BY <1>1, <1>3, <3>1 DEF EditExact
  <2>6. CASE CallMove
    <3>1. PICK x \in vs.tables : Pick({x}) /\ bg' = [NoBg EXCEPT !.pc = "move", !.edit = Edit({<<1, x[2]>>}, {x}, vs)]
      BY <2>6 DEF CallMove
    <3>2. bg'.pc = "move" /\ bg'.edit.add = {<<1, x[2]>>} /\ comp' = comp /\ bg.pc = "idle"
      BY <2>6, <3>1 DEF NoBg, Edit, CallMove, Pick
    <3>3. \A w : InTables(disk'.tables, {<<1, x[2]>>}, w) => InTables(disk'.tables, vs'.tables, w)
      BY <1>3, <3>1 DEF InTables
    <3> QED BY <1>1, <1>3, <3>2, <3>3 DEF EditExact
  <2> QED BY <2>1, <2>2, <2>3, <2>4, <2>5, <2>6
<1>6. ExcusedExact'
  BY BackgroundAside
<1> QED BY <1>1, <1>4, <1>5, <1>6, OpenedExact


\* A table with a number that the manifest has not taken.
LEMMA TabledBefore ==
  ASSUME IsSound(disk), NEW n \in Nat, NEW STATE b, disk' = Tabled(disk, n, b), disk.current # 0, NotTaken(Current(disk), n)
  PROVE  AsBefore(disk, disk') /\ disk'.logs = disk.logs /\ disk'.tables[n] = b /\ n \in DOMAIN disk'.tables
<1>1. /\ disk'.logs = disk.logs /\ disk'.manifests = disk.manifests /\ disk'.current = disk.current
      /\ DOMAIN disk'.tables = DOMAIN disk.tables \union {n} /\ disk'.tables[n] = b
      /\ \A m \in DOMAIN disk.tables \ {n} : disk'.tables[m] = disk.tables[m]
  <2> DEFINE e == Tabled(disk, n, b)
  <2>1. /\ e.logs = disk.logs /\ e.manifests = disk.manifests /\ e.current = disk.current
        /\ DOMAIN e.tables = DOMAIN disk.tables \union {n} /\ e.tables[n] = b
        /\ \A m \in DOMAIN disk.tables \ {n} : e.tables[m] = disk.tables[m]
    BY NewTableDisk
  <2>2. disk' = e
    OBVIOUS
  <2> HIDE DEF e
  <2> QED BY <2>1, <2>2
<1>2. ASSUME NEW m PROVE \/ NotTaken(Current(disk), m)
                         \/ m \notin DOMAIN disk.tables /\ m \notin DOMAIN disk'.tables
                         \/ m \in DOMAIN disk.tables /\ m \in DOMAIN disk'.tables /\ disk'.tables[m] = disk.tables[m]
  BY <1>1
<1> QED BY <1>1, <1>2 DEF AsBefore, Current

LEMMA BuiltExact ==
  ASSUME BaseInv, BaseInv', NumberInv, KeepInv, ExactInv, BackgroundStep, FlushBuilt
  PROVE  ExactInv' /\ Contents(disk') = Contents(disk)
<1> DEFINE batches == UNION imm
           Added(level) == IF batches = {} THEN {} ELSE {<<level, bg.num>>}
<1>1. /\ up \in Opened /\ up' \in Opened /\ OpenNumbers /\ IsBg(bg) /\ IsVersionSet(vs) /\ EditExact
      /\ IsSound(disk) /\ disk.current # 0
  BY BackgroundStays, OpenedThere DEF NumberInv, ExactInv, BaseInv, TypesInv, BgTypes
<1>2. /\ disk' = (IF batches = {} THEN disk ELSE [disk EXCEPT !.tables = Extend(@, bg.num, batches)])
      /\ UNCHANGED <<vs, imm>> /\ bg.pc = "flush" /\ comp' = comp
      /\ IF ShuttingDown THEN EndFlush
         ELSE \E level \in {0, 1} : bg' = [bg EXCEPT !.pc = "flushlog", !.edit = Edit(Added(level), {}, [vs EXCEPT !.log = logfile])]
  BY DEF FlushBuilt
<1>3. bg.num \in Nat /\ NotTaken(Current(disk), bg.num)
  BY <1>1, <1>2 DEF IsBg, OpenNumbers
<1>4. \A v : v \in batches <=> InImm(v)
  BY DEF InImm
<1> HIDE DEF batches
<1>5. AsBefore(disk, disk') /\ disk'.logs = disk.logs /\ (batches # {} => disk'.tables[bg.num] = batches)
  <2>1. CASE batches = {}
    BY <1>2, <2>1, ItselfBefore
  <2>2. CASE batches # {}
    <3>1. disk' = Tabled(disk, bg.num, batches)
      BY <1>2, <2>2 DEF Tabled
    <3> QED BY <1>1, <1>3, <3>1, TabledBefore
  <2> QED BY <2>1, <2>2
<1>6. VersionExact' /\ LogsExact' /\ Contents(disk') = Contents(disk)
  <2>1. vs'.tables = vs.tables /\ vs'.log = vs.log /\ imm' = imm
    BY <1>2
  <2> QED BY <1>5, <2>1, BackgroundSame
<1>7. EditExact'
  <2>1. CASE ShuttingDown
    <3>1. bg'.pc \in {"idle", "compact"} /\ (bg'.pc = "idle" => ~comp.on)
      <4>1. EndFlush /\ comp.on => bg'.pc = "compact"
        BY DEF EndFlush, NoBg
      <4> QED BY <1>2, <2>1, <4>1, EndPlace
    <3> QED BY <1>1, <1>2, <3>1 DEF EditExact
  <2>2. CASE ~ShuttingDown
    <3>1. PICK level \in {0, 1} : bg' = [bg EXCEPT !.pc = "flushlog", !.edit = Edit(Added(level), {}, [vs EXCEPT !.log = logfile])]
      BY <1>2, <2>2
    <3>2. bg'.pc = "flushlog" /\ bg'.edit = Edit(Added(level), {}, [vs EXCEPT !.log = logfile])
      BY <1>1, <3>1 DEF IsBg
    <3>3. bg'.edit.add = Added(level)
      BY <1>1, <3>2 DEF Edit
    <3>4. ASSUME NEW w, InTables(disk'.tables, bg'.edit.add, w)
          PROVE  InImm(w)'
      <4>1. PICK x \in bg'.edit.add : w \in disk'.tables[x[2]]
        BY <3>4 DEF InTables
      <4>2. batches # {} /\ x = <<level, bg.num>>
        BY <3>3, <4>1
      <4>3. x[2] = bg.num
        BY <4>2
      <4>4. InImm(w)
        BY <1>4, <1>5, <4>1, <4>2, <4>3
      <4> QED BY <1>2, <4>4 DEF InImm
    <3> QED BY <1>1, <1>2, <3>2, <3>4 DEF EditExact
  <2> QED BY <2>1, <2>2
<1>8. ExcusedExact'
  BY BackgroundAside
<1> QED BY <1>1, <1>6, <1>7, <1>8, OpenedExact

LEMMA OutputExact ==
  ASSUME BaseInv, BaseInv', FilesInv, NumberInv, KeepInv, ExactInv, BackgroundStep, FinishCompactionOutputFile
  PROVE  ExactInv' /\ Contents(disk') = Contents(disk)
<1> DEFINE merged == UNION {disk.tables[m] : m \in Numbers(comp.inputs)}
<1>1. /\ up \in Opened /\ up' \in Opened /\ OpenNumbers /\ IsComp(comp) /\ UNCHANGED <<vs, imm, comp>> /\ OpenedInv /\ EditExact
      /\ IsSound(disk) /\ disk.current # 0 /\ bg.pc = "compact"
  BY BackgroundStays, OpenedThere DEF NumberInv, BaseInv, TypesInv, BgTypes, FilesInv, ExactInv, FinishCompactionOutputFile
<1>2. PICK n \in comp.out : /\ disk' = [disk EXCEPT !.tables = Extend(@, n, merged)]
                            /\ bg' = [NoBg EXCEPT !.pc = "install", !.edit = Edit({<<1, n>>}, comp.inputs, vs)]
  BY DEF FinishCompactionOutputFile
<1>3. bg'.pc = "install" /\ bg'.edit.add = {<<1, n>>}
  BY <1>2 DEF NoBg, Edit
<1>4. \A w \in merged : InTables(disk.tables, vs.tables, w)
  <2> SUFFICES ASSUME NEW w \in merged
               PROVE  InTables(disk.tables, vs.tables, w)
    OBVIOUS
  <2>1. PICK x \in comp.inputs : w \in disk.tables[x[2]]
    BY DEF Numbers
  <2>2. x \in vs.tables /\ x[2] \in DOMAIN disk.tables
    BY <1>1 DEF EditExact, OpenedInv, There
  <2> QED BY <2>1, <2>2 DEF InTables
<1> HIDE DEF merged
<1>5. disk' = Tabled(disk, n, merged) /\ n \in Nat /\ NotTaken(Current(disk), n)
  BY <1>1, <1>2 DEF Tabled, IsComp, OpenNumbers
<1>6. AsBefore(disk, disk') /\ disk'.logs = disk.logs /\ disk'.tables[n] = merged
  BY <1>1, <1>5, TabledBefore
<1>7. /\ VersionExact' /\ LogsExact' /\ Contents(disk') = Contents(disk)
      /\ \A v : InTables(disk'.tables, vs'.tables, v) <=> InTables(disk.tables, vs.tables, v)
  <2>1. vs'.tables = vs.tables /\ vs'.log = vs.log /\ imm' = imm
    BY <1>1
  <2> QED BY <1>6, <2>1, BackgroundSame
<1>8. EditExact'
  <2>1. ASSUME NEW w, InTables(disk'.tables, bg'.edit.add, w)
        PROVE  InTables(disk'.tables, vs'.tables, w)
    <3>1. PICK x \in bg'.edit.add : w \in disk'.tables[x[2]]
      BY <2>1 DEF InTables
    <3>2. x[2] = n
      BY <1>3, <3>1
    <3> QED BY <1>4, <1>6, <1>7, <3>1, <3>2
  <2>2. comp'.inputs \subseteq vs'.tables /\ comp'.on
    BY <1>1 DEF EditExact, OpenNumbers
  <2> QED BY <1>3, <2>1, <2>2 DEF EditExact
<1>9. ExcusedExact'
  BY BackgroundAside
<1> QED BY <1>1, <1>7, <1>8, <1>9, OpenedExact

\* The edit is in the manifest and the version is installed.
LEMMA CommitExact ==
  ASSUME BaseInv, BaseInv', FilesInv', StampInv, NumberInv, KeepInv, ExactInv, BackgroundStep, bg.pc \in Committing,
         NEW d, NEW c, NEW pend, Commit(d, c, pend),
         imm' = (IF bg.pc = "flushlog" THEN NoMem ELSE imm), EditExact'
  PROVE  ExactInv' /\ Contents(disk') = Contents(disk)
<1> DEFINE f == Current(disk)
           g == Current(disk')
<1>1. /\ up \in Opened /\ up' \in Opened /\ disk'.current = disk.current /\ disk.current # 0 /\ bg.edit \in EditRecords
      /\ VersionExact /\ LogsExact /\ LogKept /\ EditKept /\ f \in Records(EditRecords) /\ Len(f.recs) \in Nat
      /\ logfile \in Nat /\ DOMAIN disk.logs \subseteq Nat /\ vs.log \in Nat
  BY BackgroundStays, BackgroundFrame, OpenedThere
     DEF Filed, ExactInv, KeepInv, BaseInv, TypesInv, BgTypes, IsBg, MemTypes, IsVersionSet, IsDisk, IsFiles, Filenames
<1>2. /\ g.recs = f.recs \o <<bg.edit>> /\ g.synced = Len(f.recs) + 1
      /\ \A m \in DOMAIN disk.logs : m >= bg.edit.log => m \in DOMAIN disk'.logs /\ disk'.logs[m] = disk.logs[m]
      /\ \A m \in DOMAIN disk'.tables : m \in DOMAIN disk.tables /\ disk'.tables[m] = disk.tables[m]
      /\ There(vs'.tables, DOMAIN disk'.tables)
      /\ vs'.tables = (vs.tables \ bg.edit.del) \union bg.edit.add /\ vs'.log = bg.edit.log
  BY CommitFiles
<1>3. \A m \in DOMAIN disk'.logs : m \in DOMAIN disk.logs /\ disk'.logs[m] = disk.logs[m]
  <2>1. ManifestWith(disk, <<bg.edit>>, TRUE) \in Commits(disk, bg.edit)
    BY DEF Commits
  <2>2. d \in Commits(disk, bg.edit) /\ (disk' = d \/ disk' = DeleteObsoleteFiles(d, vs', c, pend, bgerr))
    BY <2>1 DEF Commit
  <2>3. Committed
    BY <2>2, CommitTrims
  <2> QED BY <2>3 DEF Committed, Trimmed
<1>4. bg.edit # TornEdit
  <2>1. bg.edit.next > vs.manifest /\ vs.manifest \in Nat
    BY DEF BaseInv, ManifestInv, TypesInv, IsVersionSet
  <2> QED BY <2>1 DEF TornEdit
<1>5. VersionExact'
  <2>1. Settled(g, vs'.tables)
    BY <1>1, <1>2, <1>4, SettledNext DEF VersionExact
  <2>2. g.recs[Len(g.recs)] = bg.edit
    <3>1. f.recs \in Seq(EditRecords)
      BY <1>1 DEF Records
    <3>2. Len(g.recs) = Len(f.recs) + 1 /\ g.recs[Len(f.recs) + 1] = bg.edit
      BY <1>1, <1>2, <3>1, Appended
    <3> QED BY <3>2
  <2> QED BY <1>2, <2>1, <2>2 DEF VersionExact
<1> HIDE DEF f, g
<1>6. \A v : InTables(disk'.tables, vs'.tables, v) <=> InTables(disk.tables, vs'.tables, v)
  BY <1>2 DEF There, InTables
<1>7. ASSUME NEW v
      PROVE  /\ vs.log <= bg.edit.log /\ bg.edit.log <= logfile
             /\ InTables(disk.tables, vs.tables, v) => InTables(disk'.tables, vs'.tables, v)
             /\ InTables(disk'.tables, vs'.tables, v) => v \in Contents(disk)
             /\ \A m \in DOMAIN disk.logs : vs.log <= m /\ m < bg.edit.log /\ InFile(disk.logs[m], v) =>
                  InTables(disk'.tables, vs'.tables, v)
  <2>1. /\ vs.log <= bg.edit.log /\ bg.edit.log <= logfile
        /\ InTables(disk.tables, vs.tables, v) => InTables(disk.tables, vs'.tables, v)
        /\ InTables(disk.tables, vs'.tables, v) => v \in Contents(disk)
        /\ \A m \in DOMAIN disk.logs : vs.log <= m /\ m < bg.edit.log /\ InFile(disk.logs[m], v) =>
             InTables(disk.tables, vs'.tables, v)
    BY <1>1, <1>2, EditSame
  <2> QED BY <1>6, <2>1
<1>8. bg.edit.log \in Nat /\ vs.log <= bg.edit.log /\ bg.edit.log <= logfile
  BY <1>1, <1>7 DEF EditRecords
<1>9. LogsExact'
  <2>1. logfile \in DOMAIN disk'.logs
    BY <1>1, <1>2, <1>8 DEF LogKept
  <2>2. ASSUME NEW m \in DOMAIN disk'.logs, NEW v, vs'.log <= m, m < logfile, InFile(disk.logs[m], v)
        PROVE  InImm(v)' \/ InTables(disk'.tables, vs'.tables, v)
    <3>1. m \in DOMAIN disk.logs /\ m \in Nat /\ vs.log <= m
      BY <1>1, <1>2, <1>3, <1>8, <2>2
    <3>2. CASE bg.pc = "flushlog"
      <4>1. bg.edit.log = logfile
        BY <1>1, <3>2 DEF EditKept
      <4> QED BY <1>1, <1>2, <2>2, <3>1, <4>1
    <3>3. CASE bg.pc # "flushlog"
      <4>1. InImm(v)' <=> InImm(v)
        BY <3>3 DEF InImm
      <4>2. InImm(v) \/ InTables(disk.tables, vs.tables, v)
        BY <1>1, <2>2, <3>1 DEF LogsExact
      <4> QED BY <1>7, <4>1, <4>2
    <3> QED BY <3>2, <3>3
  <2> QED BY <1>3, <2>1, <2>2, BackgroundLogs
<1>10. ASSUME NEW v PROVE v \in Contents(disk') <=> v \in Contents(disk)
  <2>1. v \in Contents(disk') <=> InTables(disk'.tables, vs'.tables, v) \/ InLogs("process", disk'.logs, vs'.log, v)
    BY <1>1, <1>5, NextContents
  <2>2. v \in Contents(disk) <=> InTables(disk.tables, vs.tables, v) \/ InLogs("process", disk.logs, vs.log, v)
    BY <1>1, OpenContents
  <2>3. InLogs("process", disk'.logs, vs'.log, v) => InLogs("process", disk.logs, vs.log, v)
    <3>1. \A m \in DOMAIN disk'.logs : m >= vs'.log => m \in DOMAIN disk.logs /\ disk'.logs[m] = disk.logs[m] /\ m >= vs.log
      BY <1>1, <1>2, <1>3, <1>8
    <3> QED BY <3>1 DEF InLogs
  <2>4. InLogs("process", disk.logs, vs.log, v) =>
          InTables(disk'.tables, vs'.tables, v) \/ InLogs("process", disk'.logs, vs'.log, v)
    <3> SUFFICES ASSUME NEW m \in DOMAIN disk.logs, m >= vs.log, InFile(disk.logs[m], v)
                 PROVE  InTables(disk'.tables, vs'.tables, v) \/ InLogs("process", disk'.logs, vs'.log, v)
      BY DEF InLogs, InFile, Reach
    <3>1. m \in Nat
      BY <1>1
    <3>2. CASE m < bg.edit.log
      BY <1>1, <1>7, <3>1, <3>2
    <3>3. CASE m >= bg.edit.log
      <4>1. m \in DOMAIN disk'.logs /\ disk'.logs[m] = disk.logs[m] /\ m >= vs'.log
        BY <1>2, <3>3
      <4> QED BY <4>1 DEF InLogs, InFile, Reach
    <3> QED BY <1>8, <3>1, <3>2, <3>3
  <2> QED BY <1>7, <2>1, <2>2, <2>3, <2>4
<1>11. ExcusedExact'
  BY BackgroundAside
<1>12. Contents(disk') = Contents(disk)
  <2>1. \A v : v \in Contents(disk') <=> v \in Contents(disk)
    BY <1>10
  <2> QED BY <2>1
<1> QED BY <1>1, <1>5, <1>9, <1>11, <1>12, OpenedExact


LEMMA BackgroundExact ==
  ASSUME "manifest" \notin Faults, BaseInv, BaseInv', FilesInv, FilesInv', StampInv, NumberInv, KeepInv, ExactInv, BackgroundStep
  PROVE  ExactInv' /\ Contents(disk') = Contents(disk) /\ ret' = ret
<1>1. ret' = ret
  BY BackgroundSignals
<1>2. CASE \/ CallIdle \/ CallFlush \/ CallMove \/ CallCompact \/ CompactImm \/ OpenCompactionOutputFile
           \/ FlushBuildFails \/ CompactStops
  BY <1>1, <1>2, StillEdit
<1>3. CASE FlushBuilt
  BY <1>1, <1>3, BuiltExact
<1>4. CASE FinishCompactionOutputFile
  BY <1>1, <1>4, OutputExact
<1>5. CASE FlushLogged \/ Moved \/ Installed
  <2> DEFINE d == ManifestWith(disk, <<bg.edit>>, TRUE)
  <2>1. bg.pc \in Committing /\ imm' = (IF bg.pc = "flushlog" THEN NoMem ELSE imm) /\ (EndCall \/ EndFlush)
    BY <1>5 DEF FlushLogged, Moved, Installed, EndCompact, Committing
  <2>2. \E c, pend : Commit(d, c, pend)
    <3>1. CASE FlushLogged \/ Moved
      <4>1. Commit(d, comp, pending)
        BY <3>1 DEF FlushLogged, Moved, Commit
      <4> QED BY <4>1
    <3>2. CASE Installed
      <4>1. EndCompact(d) /\ UNCHANGED bgerr /\ vs' = LogAndApply(bg.edit)
        BY <3>2 DEF Installed
      <4>2. comp' = NoComp /\ disk' = DeleteObsoleteFiles(d, vs', NoComp, pending', bgerr)
        BY <4>1 DEF EndCompact
      <4>3. Commit(d, NoComp, pending')
        BY <4>1, <4>2 DEF Commit
      <4> QED BY <4>3
    <3> QED BY <1>5, <3>1, <3>2
  <2> HIDE DEF d
  <2>3. bg'.pc \in {"idle", "compact"}
    BY <2>1, EndPlace
  <2>4. EditExact /\ EditKept /\ IsVersionSet(vs)
    BY BackgroundStays DEF ExactInv, KeepInv, BaseInv, TypesInv
  <2>5. vs'.tables = (vs.tables \ bg.edit.del) \union bg.edit.add
    BY <1>5, <2>4 DEF FlushLogged, Moved, Installed, LogAndApply, IsVersionSet
  <2>6. comp'.inputs \subseteq vs'.tables /\ (bg'.pc = "idle" \/ ~comp'.on => comp'.inputs = {})
    <3>1. CASE FlushLogged
      <4>1. comp' = comp /\ EndFlush /\ bg.pc = "flushlog"
        BY <3>1 DEF FlushLogged
      <4>2. bg.edit.del = {}
        BY <2>4, <4>1 DEF EditKept
      <4>3. comp.on => bg'.pc = "compact"
        BY <4>1 DEF EndFlush, NoBg
      <4> QED BY <2>4, <2>5, <4>1, <4>2, <4>3 DEF EditExact
    <3>2. CASE Moved
      <4>1. comp' = comp /\ bg.pc = "move"
        BY <3>2 DEF Moved
      <4> QED BY <2>4, <4>1 DEF EditExact
    <3>3. CASE Installed
      BY <3>3 DEF Installed, EndCompact, NoComp
    <3> QED BY <1>5, <3>1, <3>2, <3>3
  <2>7. EditExact'
    BY <2>3, <2>6 DEF EditExact
  <2>8. ExactInv' /\ Contents(disk') = Contents(disk)
    BY <2>1, <2>2, <2>7, CommitExact
  <2> QED BY <1>1, <2>8
<1>6. ~FlushLogFails /\ ~MoveFails /\ ~InstallFails
  BY DEF FlushLogFails, MoveFails, InstallFails, Fails
<1> QED BY <1>2, <1>3, <1>4, <1>5, <1>6 DEF BackgroundStep

-----------------------------------------------------------------------------
(***************************************************************************)
(* The refinement.                                                         *)
(***************************************************************************)
\* What was reported as done is found.
LEMMA DueContents == BaseInv /\ FilesInv /\ NumberInv /\ KeepInv /\ ExactInv /\ up \in Opened => Due \subseteq Contents(disk)
<1> SUFFICES ASSUME BaseInv, FilesInv, NumberInv, KeepInv, ExactInv, up \in Opened
             PROVE  Due \subseteq Contents(disk)
  OBVIOUS
<1>1. IsSound(disk) /\ disk.current # 0 /\ Durable(disk) /\ VersionExact
  BY OpenedThere DEF FilesInv, ExactInv
<1>2. ~Corrupt(Current(disk).recs)
  BY <1>1, SettledContents DEF VersionExact
<1>3. Kept("process", Due, disk, Current(disk))
  BY <1>1, DiskRecovers DEF Recovers, Safe
<1> QED BY <1>1, <1>2, <1>3, KeptContents DEF Current

\* What a step does to the store: it adds batches T of calls under way, and
\* those it tells that they are done are in.
Stores(T) ==
  /\ T \in SUBSET Batches /\ (\A v \in T : ret[v] = "none") /\ Contents(disk') = Contents(disk) \union T
  /\ \A v \in Batches : ret'[v] # ret[v] => /\ ret[v] = "none" /\ ret'[v] \in {"ok", "error"}
                                            /\ ret'[v] = "ok" => v \in Contents(disk')

LEMMA SameStored ==
  ASSUME Contents(disk') = Contents(disk), ret' = ret
  PROVE  Stores({})
  BY DEF Stores

LEMMA WriterStores ==
  ASSUME "append" \notin Faults, BaseInv, BaseInv', FilesInv', StampInv, NumberInv, NumberInv', KeepInv, KeepInv', OutInv, ExactInv,
         NEW w \in Writer, Enter(w) \/ WriterStep(w)
  PROVE  ExactInv' /\ \E T \in SUBSET Batches : Stores(T)
<1>1. /\ ExactInv' /\ up' \in Opened /\ excused' = excused
      /\ \E T \in SUBSET Batches : (\A v \in T : ret[v] = "none") /\ Contents(disk') = Contents(disk) \union T
  BY WriterExact
<1>2. Due' \subseteq Contents(disk')
  <2>1. (BaseInv /\ FilesInv /\ NumberInv /\ KeepInv /\ ExactInv /\ up \in Opened => Due \subseteq Contents(disk))'
    BY DueContents, PTL
  <2> QED BY <1>1, <2>1
<1>3. ASSUME NEW v \in Batches, ret'[v] # ret[v]
      PROVE  ret[v] = "none" /\ ret'[v] \in {"ok", "error"} /\ (ret'[v] = "ok" => v \in Contents(disk'))
  <2>1. v \in Writer /\ WriterInv /\ WriterInv'
    BY DEF Batches, BaseInv
  <2>2. ret[v] = "none"
    BY <1>3, <2>1, ToldOnce
  <2>3. ret'[v] \in Results
    BY <2>1 DEF WriterInv, WritersSound
  <2>4. v \notin excused'
    BY <1>1, <2>2 DEF ExactInv
  <2>5. ret'[v] = "ok" => v \in Due'
    BY <2>4 DEF Due, Succeeded
  <2> QED BY <1>2, <1>3, <2>2, <2>3, <2>5 DEF Results
<1> QED BY <1>1, <1>3 DEF Stores

\* A crash of the machine takes what was not reported as synced, and what was
\* being written may be there.
Loses ==
  /\ \A w \in Contents(disk') : w \in Contents(disk) \/ (w \in Batches /\ ret[w] = "none")
  /\ \A w \in Contents(disk) \cap Sync : w \in Batches /\ ret[w] = "ok" => w \in Contents(disk')
  /\ ret' = ret

LEMMA ExactStep ==
  ASSUME "append" \notin Faults, "manifest" \notin Faults,
         BaseInv, FilesInv, StampInv, NumberInv, FailInv, KeepInv, OutInv, ExactInv, [Next]_vars
  PROVE  ExactInv' /\ (Loses \/ \E T \in SUBSET Batches : Stores(T))
<1>1. BaseInv' /\ FilesInv' /\ NumberInv' /\ KeepInv'
  BY BaseNext, FilesNext, StampNext, KeepNext
<1>2. CASE \E w \in Writer : Enter(w) \/ WriterStep(w)
  BY <1>1, <1>2, WriterStores
<1>3. CASE \E kind \in Crashes : Crash(kind)
  BY <1>3, CrashExact DEF Loses
<1>4. ASSUME ExactInv' /\ Contents(disk') = Contents(disk) /\ ret' = ret
      PROVE  ExactInv' /\ \E T \in SUBSET Batches : Stores(T)
  <2>1. Stores({}) /\ {} \in SUBSET Batches
    BY <1>4, SameStored
  <2> QED BY <1>4, <2>1
<1>5. CASE (\E r \in Reader : GetBegins(r) \/ GetEnds(r)) \/ Close \/ Closing \/ UNCHANGED vars
  BY <1>4, <1>5, CallerExact
<1>6. CASE BackgroundStep
  BY <1>1, <1>4, <1>6, BackgroundExact
<1>7. CASE Open \/ NewDB \/ SetCurrentFile \/ Recover
  BY <1>4, <1>7, OpenExact, NewDBExact, SetCurrentExact, RecoverExact
<1>8. CASE RecoverLogFile \/ OpenLog \/ OpenManifest \/ OpenFails
  BY <1>1, <1>4, <1>8, ReplayLogExact, OpenLogExact, OpenManifestExact, OpenFailsExact
<1>9. CASE OpenCurrent
  BY <1>1, <1>4, <1>9, OpenCurrentExact
<1> QED BY <1>2, <1>3, <1>5, <1>6, <1>7, <1>8, <1>9 DEF Next, OpenStep


\* Adding batches is the Write of the store, a crash its PowerLoss.
LEMMA StoreStep ==
  ASSUME Loses \/ \E T \in SUBSET Batches : Stores(T)
  PROVE  AsStore!StoreNext
<1> DEFINE told == [b \in Batches |-> ret[b]]
           toldNext == [b \in Batches |-> ret'[b]]
<1>1. AsStore!InCall = {b \in Batches : ret[b] = "none"}
  BY DEF AsStore!InCall
<1>2. CASE Loses
  <2>1. Contents(disk') \in SUBSET (Contents(disk) \union AsStore!InCall)
    BY <1>1, <1>2 DEF Loses
  <2>2. {b \in Contents(disk) \cap Sync : told[b] = "ok"} \subseteq Contents(disk')
    <3>1. Sync \subseteq Batches
      BY DBAssumption DEF Batches
    <3> QED BY <1>2, <3>1 DEF Loses
  <2>3. toldNext = told
    BY <1>2 DEF Loses
  <2>4. AsStore!PowerLoss
    BY <2>1, <2>2, <2>3 DEF AsStore!PowerLoss
  <2> QED BY <2>4 DEF AsStore!StoreNext
<1>3. CASE \E T \in SUBSET Batches : Stores(T)
  <2>1. PICK T \in SUBSET Batches : Stores(T)
    BY <1>3
  <2> DEFINE S == {v \in Batches : ret'[v] # ret[v]}
  <2>2. T \subseteq AsStore!InCall /\ Contents(disk') = Contents(disk) \union T
    BY <1>1, <2>1 DEF Stores
  <2>3. \A b \in S : /\ b \in AsStore!InCall /\ toldNext[b] \in {"ok", "error"}
                     /\ toldNext[b] = "ok" => b \in Contents(disk')
    BY <1>1, <2>1 DEF Stores
  <2>4. toldNext = [b \in Batches |-> IF b \in S THEN toldNext[b] ELSE told[b]]
    OBVIOUS
  <2>5. AsStore!Write(S, T)
    BY <2>2, <2>3, <2>4 DEF AsStore!Write
  <2>6. S \in SUBSET Batches /\ T \in SUBSET Batches
    OBVIOUS
  <2> HIDE DEF S
  <2> QED BY <2>5, <2>6 DEF AsStore!StoreNext
<1> QED BY <1>2, <1>3

LEMMA ExactInit ==
  ASSUME Init
  PROVE  OutInv /\ ExactInv /\ AsStore!StoreInit
<1>1. /\ up = "closed" /\ excused = {} /\ disk.current = 0 /\ disk.logs = NoFiles
      /\ pc = [w \in Writer |-> "idle"] /\ ret = [w \in Writer |-> "none"]
  BY DEF Init
<1>2. Restores(disk)
  BY <1>1 DEF Restores, Blank, NoFiles
<1>3. OutInv /\ ExactInv
  BY <1>1, <1>2 DEF OutInv, Out, ExactInv, Opened, Replaying
<1>4. Contents(disk) = {}
  BY <1>1 DEF Contents
<1>5. [w \in Batches |-> ret[w]] = [w \in Batches |-> "none"]
  BY <1>1 DEF Batches
<1> QED BY <1>3, <1>4, <1>5 DEF AsStore!StoreInit

\* As long as no append to a log or to a manifest fails, leveldb is a Store,
\* whatever other operations fail and wherever a crash falls: Write puts the
\* batches of calls under way into what recovery would find, a call returns OK
\* only then, and the switch of memtables, CompactMemTable, DoCompactionWork,
\* DeleteObsoleteFiles, closing, a crash of the process and DB::Open change
\* nothing; a crash of the machine takes no completed synchronous write.
THEOREM StoreImplemented ==
  ASSUME "append" \notin Faults, "manifest" \notin Faults
  PROVE  Spec => IsStore
<1>1. Init => OutInv /\ ExactInv /\ AsStore!StoreInit
  BY ExactInit
<1>2. BaseInv /\ FilesInv /\ StampInv /\ NumberInv /\ FailInv /\ KeepInv /\ OutInv /\ ExactInv /\ [Next]_vars =>
        OutInv' /\ ExactInv' /\ [AsStore!StoreNext]_(AsStore!storeVars)
  BY OutNext, ExactStep, StoreStep
<1> QED BY <1>1, <1>2, KeepAlways, PTL DEF Spec, IsStore, AsStore!StoreSpec
=============================================================================
