--------------------------- MODULE DBImpl_proofs ---------------------------
(***************************************************************************)
(* Theorems about the leveldb database, for any number of writers and      *)
(* readers, sizes of memtables and groups, failures, crashes and openings. *)
(***************************************************************************)
EXTENDS DBImpl, FiniteSetTheorems, SequenceTheorems, WellFoundedInduction, TLAPS

(***************************************************************************)
(* The writers.  The first one in the queue may lead, the others wait;     *)
(* whoever is not in the queue has a status or is not inside of Write.     *)
(***************************************************************************)
Results == {"none", "ok", "error"}

Leading == {"room", "sleep", "bgwait", "log", "sync"}
InQueue == Leading \union {"wait", "signalled"}
Places == InQueue \union {"idle", "flush", "flushwait", "done", "dead"}

WritersSound(p, r, st, q, ld) ==
  /\ p \in [Writer -> Places] /\ r \in [Writer -> Results] /\ st \in [Writer -> Results]
  /\ q \in Seq(Writer) /\ ld \in [force : BOOLEAN, delay : BOOLEAN, group : Nat]
  /\ ld.group <= Len(q)
  /\ \A i, j \in 1 .. Len(q) : q[i] = q[j] => i = j
  /\ \A i \in 1 .. Len(q) : p[q[i]] \in InQueue /\ st[q[i]] = "none"
  /\ \A w \in Writer :
       /\ p[w] \in Leading => q # <<>> /\ q[1] = w
       /\ p[w] \in {"wait", "signalled"} /\ st[w] = "none" => \E i \in 1 .. Len(q) : q[i] = w
       /\ p[w] \in {"idle", "wait"} => st[w] = "none"
       /\ p[w] \in {"log", "sync"} => ld.group > 0 /\ IsBatch(w)
       /\ r[w] # "none" => p[w] \in {"done", "dead"}

WriterInv == WritersSound(pc, ret, status, queue, lead) /\ seq \in [Writer -> Nat]

\* The least of some numbers, which Replay and BuildBatchGroup look for.
LEMMA LeastNatural ==
  ASSUME NEW S \in SUBSET Nat, S # {}
  PROVE  \E n \in S : \A m \in S : n <= m
<1>1. \E x \in S : \A y \in S : ~(<<y, x>> \in OpToRel(<, Nat))
  BY NatLessThanWellFounded, WFMin
<1>2. \A x, y \in Nat : y < x => <<y, x>> \in OpToRel(<, Nat)
  BY Zenon DEF OpToRel
<1>3. PICK n \in S : \A m \in S : ~(m < n)
  BY <1>1, <1>2, Zenon
<1> QED BY <1>3

\* A group holds the first writer and at most all of them.
LEMMA GroupChosen ==
  ASSUME NEW q \in Seq(Writer), q # <<>>
  PROVE  /\ BuildBatchGroup(q) \in 1 .. Len(q)
         /\ \A i \in 2 .. BuildBatchGroup(q) : q[i] \in Sync => q[1] \in Sync
<1> DEFINE Joins(i) == /\ q[i] \in Sync => q[1] \in Sync
                       /\ IsBatch(q[i]) => Cardinality({j \in 1..i : IsBatch(q[j])}) <= MaxGroup
           Ends == {n \in 1 .. Len(q) : n < Len(q) => ~Joins(n + 1)}
<1>1. Len(q) \in Ends
  BY EmptySeq
<1>2. PICK n \in Ends : \A m \in Ends : n <= m
  <2>1. Ends \in SUBSET Nat /\ Ends # {}
    BY <1>1
  <2> HIDE DEF Ends
  <2> QED BY <2>1, LeastNatural
<1>3. \A i \in 2 .. n : Joins(i)
  <2> SUFFICES ASSUME NEW i \in 2 .. n PROVE Joins(i)
    OBVIOUS
  <2>1. i - 1 \in 1 .. Len(q) /\ i - 1 < n /\ n <= Len(q) /\ i - 1 + 1 = i
    OBVIOUS
  <2>2. n \in Int /\ i - 1 \in Int
    OBVIOUS
  <2> HIDE DEF Joins, Ends
  <2>3. i - 1 \in Ends => n <= i - 1
    BY <1>2
  <2>4. i - 1 \notin Ends
    BY <2>1, <2>2, <2>3
  <2> QED BY <2>1, <2>4 DEF Ends
<1>4. n \in 1 .. Len(q) /\ (n < Len(q) => ~Joins(n + 1))
  OBVIOUS
<1>5. BuildBatchGroup(q) = CHOOSE k \in 1 .. Len(q) : /\ \A i \in 2 .. k : Joins(i)
                                                      /\ k < Len(q) => ~Joins(k + 1)
  BY DEF BuildBatchGroup
<1>6. \A i : Joins(i) => (q[i] \in Sync => q[1] \in Sync)
  OBVIOUS
<1> HIDE DEF Joins, Ends
<1>7. BuildBatchGroup(q) \in 1 .. Len(q) /\ \A i \in 2 .. BuildBatchGroup(q) : Joins(i)
  BY <1>3, <1>4, <1>5
<1> QED BY <1>6, <1>7

LEMMA GroupSize ==
  ASSUME NEW q \in Seq(Writer), q # <<>>
  PROVE  BuildBatchGroup(q) \in 1 .. Len(q)
  BY GroupChosen

-----------------------------------------------------------------------------
\* A signal on bg_cv_ wakes the leader and the callers of TEST_CompactMemTable.
LEMMA SignalAllSound ==
  ASSUME NEW p, NEW r, NEW st, NEW q, NEW ld, WritersSound(p, r, st, q, ld)
  PROVE  WritersSound(SignalAll(p), r, st, q, ld)
<1>1. \A w \in Writer : /\ p[w] \in Places
                        /\ SignalAll(p)[w] = CASE p[w] = "bgwait" -> "room"
                                               [] p[w] = "flushwait" -> "flush"
                                               [] OTHER -> p[w]
  BY DEF WritersSound, SignalAll
<1>2. \A w \in Writer : /\ SignalAll(p)[w] \in Places
                        /\ SignalAll(p)[w] \in InQueue <=> p[w] \in InQueue
                        /\ SignalAll(p)[w] \in Leading <=> p[w] \in Leading
                        /\ SignalAll(p)[w] \in {"log", "sync", "idle", "wait", "signalled"} =>
                             SignalAll(p)[w] = p[w]
                        /\ p[w] \in {"done", "dead"} => SignalAll(p)[w] = p[w]
  BY <1>1 DEF Places, InQueue, Leading
<1>3. SignalAll(p) \in [Writer -> Places]
  BY <1>2 DEF SignalAll
<1>4. \A i \in 1 .. Len(q) : q[i] \in Writer
  BY ElementOfSeq DEF WritersSound
<1> QED BY <1>2, <1>3, <1>4 DEF WritersSound

LEMMA ReturnedPlace == \A w, s : Returned(w, s) \in {"flush", "done"}
  BY DEF Returned

\* The leader leaves with the first n writers of the queue.
LEMMA FinishSound ==
  ASSUME NEW p, WritersSound(p, ret, status, queue, lead),
         NEW STATE n, n \in 1 .. Len(queue), NEW s \in {"ok", "error"},
         p[Leader] \in Leading, Finish(n, s, p)
  PROVE  WritersSound(pc', ret', status', queue', lead')
<1> DEFINE rest == SubSeq(queue, n + 1, Len(queue))
           followers == {queue[i] : i \in 2 .. n}
           next == IF rest = <<>> THEN {} ELSE {rest[1]}
<1>1. /\ queue' = rest
      /\ status' = [w \in Writer |-> IF w \in followers THEN s ELSE status[w]]
      /\ pc' = [w \in Writer |-> CASE w = Leader -> Returned(w, s)
                                   [] w \in followers \union next /\ p[w] = "wait" -> "signalled"
                                   [] OTHER -> p[w]]
      /\ ret' = IF Returned(Leader, s) = "done" THEN [ret EXCEPT ![Leader] = s] ELSE ret
      /\ lead' = NoLead
  BY DEF Finish
<1>2. /\ queue \in Seq(Writer) /\ Len(queue) \in Nat /\ n \in Nat /\ 1 <= n /\ n <= Len(queue)
      /\ \A i \in 1 .. Len(queue) : queue[i] \in Writer
  BY ElementOfSeq, LenProperties DEF WritersSound
<1>3. /\ rest \in Seq(Writer) /\ Len(rest) = Len(queue) - n
      /\ \A i \in 1 .. Len(rest) : rest[i] = queue[n + i]
  BY <1>2, SubSeqProperties
<1>4. Leader = queue[1] /\ Leader \in Writer
  BY <1>2 DEF Leader
<1>5. /\ p \in [Writer -> Places] /\ ret \in [Writer -> Results] /\ status \in [Writer -> Results]
      /\ \A i, j \in 1 .. Len(queue) : queue[i] = queue[j] => i = j
      /\ \A i \in 1 .. Len(queue) : p[queue[i]] \in InQueue /\ status[queue[i]] = "none"
      /\ \A w \in Writer :
           /\ p[w] \in Leading => queue # <<>> /\ queue[1] = w
           /\ p[w] \in {"wait", "signalled"} /\ status[w] = "none" => \E i \in 1 .. Len(queue) : queue[i] = w
           /\ p[w] \in {"idle", "wait"} => status[w] = "none"
           /\ ret[w] # "none" => p[w] \in {"done", "dead"}
  BY DEF WritersSound
<1>6. \A i \in 1 .. Len(rest) : rest[i] \notin followers /\ rest[i] # Leader
  BY <1>2, <1>3, <1>4, <1>5
<1>7. \A w \in Writer \ {Leader} : w \notin followers =>
        /\ status'[w] = status[w]
        /\ pc'[w] = p[w] \/ (p[w] = "wait" /\ pc'[w] = "signalled")
  BY <1>1
<1>8. \A w \in followers : /\ status'[w] = s
                           /\ w # Leader => pc'[w] = IF p[w] = "wait" THEN "signalled" ELSE p[w]
  BY <1>1, <1>2
<1>9. pc'[Leader] \in {"flush", "done"} /\ pc'[Leader] = Returned(Leader, s)
  <2>1. p[Leader] # "wait"
    BY DEF Leading
  <2>2. pc'[Leader] = Returned(Leader, s)
    BY <1>1, <1>4, <2>1
  <2> QED BY <2>2, ReturnedPlace
<1>10. pc' \in [Writer -> Places] /\ ret' \in [Writer -> Results] /\ status' \in [Writer -> Results]
  <2>1. \A w \in Writer : pc'[w] \in Places
    BY <1>5, <1>7, <1>8, <1>9 DEF Places, InQueue
  <2>2. pc' = [w \in Writer |-> pc'[w]]
    BY <1>1
  <2>3. ret' \in [Writer -> Results] /\ status' \in [Writer -> Results]
    BY <1>1, <1>4, <1>5 DEF Results
  <2> QED BY <2>1, <2>2, <2>3
<1>11. lead' \in [force : BOOLEAN, delay : BOOLEAN, group : Nat] /\ lead'.group = 0
  BY <1>1 DEF NoLead
<1> HIDE DEF rest, followers, next
<1>12. \A i \in 1 .. Len(rest) : pc'[rest[i]] \in InQueue /\ status'[rest[i]] = "none"
  <2> SUFFICES ASSUME NEW i \in 1 .. Len(rest)
               PROVE  pc'[rest[i]] \in InQueue /\ status'[rest[i]] = "none"
    OBVIOUS
  <2>1. n + i \in 1 .. Len(queue) /\ rest[i] = queue[n + i]
    BY <1>2, <1>3
  <2>2. p[rest[i]] \in InQueue /\ status[rest[i]] = "none" /\ rest[i] \in Writer
    BY <1>2, <1>5, <2>1
  <2> QED BY <1>6, <1>7, <2>2 DEF InQueue
<1>13. \A i, j \in 1 .. Len(rest) : rest[i] = rest[j] => i = j
  BY <1>2, <1>3, <1>5
<1>14. ASSUME NEW w \in Writer
       PROVE  /\ pc'[w] \notin Leading
              /\ pc'[w] \in {"wait", "signalled"} /\ status'[w] = "none" => \E i \in 1 .. Len(rest) : rest[i] = w
              /\ pc'[w] \in {"idle", "wait"} => status'[w] = "none"
              /\ ret'[w] # "none" => pc'[w] \in {"done", "dead"}
  <2>1. CASE w = Leader
    <3>1. ret[w] = "none"
      BY <1>5, <2>1 DEF Leading
    <3>2. ret'[w] # "none" => pc'[w] = "done"
      BY <1>1, <1>4, <1>5, <1>9, <2>1, <3>1
    <3> QED BY <1>9, <2>1, <3>2 DEF Leading
  <2>0. w # Leader => ret'[w] = ret[w]
    BY <1>1, <1>4, <1>5
  <2>2. CASE w # Leader /\ w \in followers
    <3>1. p[w] \in InQueue /\ p[w] \notin Leading
      BY <1>2, <1>4, <1>5, <2>2 DEF followers
    <3>2. p[w] \in {"wait", "signalled"}
      BY <3>1 DEF InQueue
    <3>3. pc'[w] = "signalled" /\ status'[w] = s
      BY <1>8, <2>2, <3>2
    <3>4. ret'[w] = "none"
      BY <1>5, <2>0, <2>2, <3>2
    <3> QED BY <3>3, <3>4 DEF Leading
  <2>3. CASE w # Leader /\ w \notin followers
    <3>1. /\ status'[w] = status[w]
          /\ pc'[w] = p[w] \/ (p[w] = "wait" /\ pc'[w] = "signalled")
      BY <1>7, <2>3
    <3>2. p[w] \notin Leading
      BY <1>4, <1>5, <2>3
    <3>3. ASSUME p[w] \in {"wait", "signalled"}, status[w] = "none"
          PROVE  \E i \in 1 .. Len(rest) : rest[i] = w
      <4>1. PICK i \in 1 .. Len(queue) : queue[i] = w
        BY <1>5, <3>3
      <4>2. i > n
        BY <1>2, <1>4, <2>3, <4>1 DEF followers
      <4>3. i - n \in 1 .. Len(rest) /\ n + (i - n) = i
        BY <1>2, <1>3, <4>1, <4>2
      <4> QED BY <1>3, <4>1, <4>3
    <3> QED BY <1>5, <2>0, <2>3, <3>1, <3>2, <3>3 DEF Leading
  <2> QED BY <2>1, <2>2, <2>3
<1>15. lead'.group <= Len(rest)
  BY <1>2, <1>3, <1>11
<1>16. Leading = {"room", "sleep", "bgwait", "log", "sync"}
  BY DEF Leading
<1>17. \A w \in Writer :
         /\ pc'[w] \in Leading => rest # <<>> /\ rest[1] = w
         /\ pc'[w] \in {"wait", "signalled"} /\ status'[w] = "none" => \E i \in 1 .. Len(rest) : rest[i] = w
         /\ pc'[w] \in {"idle", "wait"} => status'[w] = "none"
         /\ pc'[w] \in {"log", "sync"} => lead'.group > 0 /\ IsBatch(w)
         /\ ret'[w] # "none" => pc'[w] \in {"done", "dead"}
  BY <1>14, <1>16
<1>18. WritersSound(pc', ret', status', rest, lead')
  BY <1>3, <1>10, <1>11, <1>12, <1>13, <1>15, <1>17, Zenon DEF WritersSound
<1> QED BY <1>1, <1>18

\* Who leads is the first of the queue, and no other writer leads.
LEMMA LeaderFacts ==
  ASSUME WriterInv, NEW w \in Writer, pc[w] \in Leading
  PROVE  /\ w = Leader /\ queue # <<>> /\ 1 \in 1 .. Len(queue)
         /\ \A v \in Writer : pc[v] \in Leading => v = w
         /\ status[w] = "none" /\ ret[w] = "none"
  BY EmptySeq DEF WriterInv, WritersSound, Leader, Leading

\* A writer that goes on inside of MakeRoomForWrite or Write keeps its place.
LEMMA LeaderMoves ==
  ASSUME WriterInv, NEW w \in Writer, NEW place \in Leading, NEW STATE ld, pc[w] \in Leading,
         ld \in [force : BOOLEAN, delay : BOOLEAN, group : Nat], ld.group <= Len(queue),
         place \in {"log", "sync"} => ld.group > 0 /\ IsBatch(w)
  PROVE  WritersSound([pc EXCEPT ![w] = place], ret, status, queue, ld)
<1>1. /\ w = Leader /\ queue # <<>> /\ 1 \in 1 .. Len(queue)
      /\ \A v \in Writer : pc[v] \in Leading => v = w
      /\ status[w] = "none" /\ ret[w] = "none"
  BY LeaderFacts
<1>2. /\ [pc EXCEPT ![w] = place] \in [Writer -> Places]
      /\ [pc EXCEPT ![w] = place][w] = place
      /\ \A v \in Writer \ {w} : [pc EXCEPT ![w] = place][v] = pc[v]
  BY DEF WriterInv, WritersSound, Places, InQueue
<1> DEFINE p == [pc EXCEPT ![w] = place]
<1>3. p \in [Writer -> Places] /\ p[w] \in Leading /\ \A v \in Writer \ {w} : p[v] = pc[v]
  BY <1>2
<1>4. p[w] \in {"log", "sync"} => ld.group > 0 /\ IsBatch(w)
  BY <1>2
<1> HIDE DEF p
<1>5. \A v \in Writer : p[v] \in {"log", "sync"} => ld.group > 0 /\ IsBatch(v)
  BY <1>1, <1>3, <1>4 DEF Leading
<1>6. \A i \in 1 .. Len(queue) : queue[i] \in Writer /\ p[queue[i]] \in InQueue /\ status[queue[i]] = "none"
  BY <1>3, ElementOfSeq DEF WriterInv, WritersSound, InQueue
<1>7. \A v \in Writer :
       /\ p[v] \in Leading => queue # <<>> /\ queue[1] = v
       /\ p[v] \in {"wait", "signalled"} /\ status[v] = "none" => \E i \in 1 .. Len(queue) : queue[i] = v
       /\ p[v] \in {"idle", "wait"} => status[v] = "none"
       /\ ret[v] # "none" => p[v] \in {"done", "dead"}
  BY <1>1, <1>3 DEF WriterInv, WritersSound, Leading, Leader
<1>8. WritersSound(p, ret, status, queue, ld)
  BY <1>3, <1>5, <1>6, <1>7 DEF WriterInv, WritersSound
<1> QED BY <1>8 DEF p

LEMMA NoLeadType == NoLead \in [force : BOOLEAN, delay : BOOLEAN, group : Nat] /\ NoLead.group = 0
  BY DEF NoLead

LEMMA TakeLeadType ==
  ASSUME NEW w \in Writer
  PROVE  TakeLead(w) \in [force : BOOLEAN, delay : BOOLEAN, group : Nat] /\ TakeLead(w).group = 0
<1>1. IsBatch(w) \in BOOLEAN /\ (~IsBatch(w)) \in BOOLEAN
  BY DEF IsBatch
<1> HIDE DEF IsBatch
<1> QED BY <1>1, Zenon DEF TakeLead, NoLead

LEMMA EnterSound ==
  ASSUME WriterInv, NEW w \in Writer, Enter(w)
  PROVE  WriterInv'
<1>1. /\ pc[w] = "idle" /\ queue' = Append(queue, w)
      /\ pc' = [pc EXCEPT ![w] = IF queue = <<>> THEN "room" ELSE "wait"]
      /\ lead' = IF queue = <<>> THEN TakeLead(w) ELSE lead
      /\ ret' = ret /\ status' = status /\ seq' = seq
  BY DEF Enter
<1>2. queue \in Seq(Writer) /\ Len(queue) \in Nat /\ \A i \in 1 .. Len(queue) : queue[i] \in Writer
  BY ElementOfSeq, LenProperties DEF WriterInv, WritersSound
<1>3. /\ queue' \in Seq(Writer) /\ Len(queue') = Len(queue) + 1 /\ queue' # <<>>
      /\ \A i \in 1 .. Len(queue) : queue'[i] = queue[i]
      /\ queue'[Len(queue) + 1] = w
  BY <1>1, <1>2, AppendProperties
<1>4. /\ pc' \in [Writer -> Places] /\ pc'[w] \in {"room", "wait"}
      /\ pc'[w] = "room" <=> queue = <<>>
      /\ \A v \in Writer \ {w} : pc'[v] = pc[v]
  BY <1>1 DEF WriterInv, WritersSound, Places, InQueue, Leading
<1>5. lead' \in [force : BOOLEAN, delay : BOOLEAN, group : Nat] /\ lead'.group <= Len(queue')
  <2>1. CASE queue = <<>>
    BY <1>1, <1>2, <1>3, <2>1, TakeLeadType
  <2>2. CASE queue # <<>>
    BY <1>1, <1>2, <1>3, <2>2 DEF WriterInv, WritersSound
  <2> QED BY <2>1, <2>2
<1>6. \A i \in 1 .. Len(queue) : queue[i] # w
  BY <1>1, <1>2 DEF WriterInv, WritersSound, InQueue, Leading
<1>7. \A i, j \in 1 .. Len(queue') : queue'[i] = queue'[j] => i = j
  <2>1. \A i, j \in 1 .. Len(queue) : queue[i] = queue[j] => i = j
    BY DEF WriterInv, WritersSound
  <2>2. \A i \in 1 .. Len(queue') : i = Len(queue) + 1 \/ i \in 1 .. Len(queue)
    BY <1>2, <1>3
  <2> QED BY <1>3, <1>6, <2>1, <2>2
<1>8. \A i \in 1 .. Len(queue') : pc'[queue'[i]] \in InQueue /\ status[queue'[i]] = "none"
  <2>1. pc'[w] \in InQueue /\ status[w] = "none"
    BY <1>1, <1>4 DEF WriterInv, WritersSound, InQueue, Leading
  <2>2. \A i \in 1 .. Len(queue) : pc'[queue[i]] \in InQueue /\ status[queue[i]] = "none"
    BY <1>2, <1>4, <1>6 DEF WriterInv, WritersSound
  <2> QED BY <1>2, <1>3, <2>1, <2>2
<1>9. ASSUME NEW v \in Writer
      PROVE  /\ pc'[v] \in Leading => queue' # <<>> /\ queue'[1] = v
             /\ pc'[v] \in {"wait", "signalled"} /\ status[v] = "none" => \E i \in 1 .. Len(queue') : queue'[i] = v
             /\ pc'[v] \in {"idle", "wait"} => status[v] = "none"
             /\ pc'[v] \in {"log", "sync"} => lead'.group > 0 /\ IsBatch(v)
             /\ ret[v] # "none" => pc'[v] \in {"done", "dead"}
  <2>1. CASE v = w
    <3>1. queue = <<>> => queue'[1] = w
      BY <1>2, <1>3
    <3>2. status[w] = "none" /\ ret[w] = "none"
      BY <1>1 DEF WriterInv, WritersSound
    <3>3. Len(queue) + 1 \in 1 .. Len(queue')
      BY <1>2, <1>3
    <3> QED BY <1>3, <1>4, <2>1, <3>1, <3>2, <3>3 DEF Leading
  <2>2. CASE v # w
    <3>1. pc'[v] = pc[v]
      BY <1>4, <2>2
    <3>2. /\ pc[v] \in Leading => queue # <<>> /\ queue[1] = v
          /\ pc[v] \in {"wait", "signalled"} /\ status[v] = "none" => \E i \in 1 .. Len(queue) : queue[i] = v
          /\ pc[v] \in {"idle", "wait"} => status[v] = "none"
          /\ pc[v] \in {"log", "sync"} => lead.group > 0 /\ IsBatch(v)
          /\ ret[v] # "none" => pc[v] \in {"done", "dead"}
      BY DEF WriterInv, WritersSound
    <3>3. queue # <<>> => 1 \in 1 .. Len(queue) /\ queue'[1] = queue[1]
      BY <1>2, <1>3, EmptySeq
    <3>4. queue # <<>> => lead' = lead
      BY <1>1
    <3>5. (\E i \in 1 .. Len(queue) : queue[i] = v) => \E i \in 1 .. Len(queue') : queue'[i] = v
      BY <1>2, <1>3
    <3> QED BY <1>3, <3>1, <3>2, <3>3, <3>4, <3>5 DEF Leading
  <2> QED BY <2>1, <2>2
<1>10. WritersSound(pc', ret', status', queue', lead')
  BY <1>1, <1>3, <1>4, <1>5, <1>7, <1>8, <1>9 DEF WriterInv, WritersSound
<1> QED BY <1>1, <1>10 DEF WriterInv

\* The writer returns from Write, or goes on in TEST_CompactMemTable.
LEMMA WriterLeaves ==
  ASSUME WriterInv, NEW w \in Writer, NEW place \in {"flush", "flushwait", "done"}, NEW r \in Results,
         \A i \in 1 .. Len(queue) : queue[i] # w, pc[w] \notin Leading,
         r = ret[w] \/ place = "done", ret[w] = "none"
  PROVE  WritersSound([pc EXCEPT ![w] = place], [ret EXCEPT ![w] = r], status, queue, lead)
<1> DEFINE p == [pc EXCEPT ![w] = place]
           rr == [ret EXCEPT ![w] = r]
<1>1. /\ p \in [Writer -> Places] /\ p[w] = place /\ \A v \in Writer \ {w} : p[v] = pc[v]
      /\ rr \in [Writer -> Results] /\ rr[w] = r /\ \A v \in Writer \ {w} : rr[v] = ret[v]
  BY DEF WriterInv, WritersSound, Places
<1> HIDE DEF p, rr
<1>2. \A i \in 1 .. Len(queue) : queue[i] \in Writer /\ p[queue[i]] \in InQueue /\ status[queue[i]] = "none"
  BY <1>1, ElementOfSeq DEF WriterInv, WritersSound
<1>3. ASSUME NEW v \in Writer
      PROVE  /\ p[v] \in Leading => queue # <<>> /\ queue[1] = v
             /\ p[v] \in {"wait", "signalled"} /\ status[v] = "none" => \E i \in 1 .. Len(queue) : queue[i] = v
             /\ p[v] \in {"idle", "wait"} => status[v] = "none"
             /\ p[v] \in {"log", "sync"} => lead.group > 0 /\ IsBatch(v)
             /\ rr[v] # "none" => p[v] \in {"done", "dead"}
  <2>1. CASE v = w
    BY <1>1, <2>1 DEF Leading
  <2>2. CASE v # w
    BY <1>1, <2>2 DEF WriterInv, WritersSound
  <2> QED BY <2>1, <2>2
<1>4. WritersSound(p, rr, status, queue, lead)
  BY <1>1, <1>2, <1>3 DEF WriterInv, WritersSound
<1> QED BY <1>4 DEF p, rr

LEMMA WokenSound ==
  ASSUME WriterInv, NEW w \in Writer, Woken(w)
  PROVE  WriterInv'
<1>1. /\ pc[w] = "signalled" /\ status' = status /\ queue' = queue /\ seq' = seq
  BY DEF Woken
<1>2. ret[w] = "none" /\ status[w] \in Results
  BY <1>1 DEF WriterInv, WritersSound
<1>3. CASE status[w] # "none"
  <2>1. \A i \in 1 .. Len(queue) : queue[i] # w
    BY <1>3 DEF WriterInv, WritersSound
  <2>2. pc' = [pc EXCEPT ![w] = Returned(w, status[w])] /\ lead' = lead
        /\ ret' = IF pc'[w] = "done" THEN [ret EXCEPT ![w] = status[w]] ELSE ret
    BY <1>3 DEF Woken
  <2>3. pc'[w] = Returned(w, status[w])
    BY <2>2 DEF WriterInv, WritersSound
  <2>4. PICK r \in Results : ret' = [ret EXCEPT ![w] = r] /\ (r = ret[w] \/ Returned(w, status[w]) = "done")
    <3>1. CASE pc'[w] = "done"
      BY <1>2, <2>2, <2>3, <3>1
    <3>2. CASE pc'[w] # "done"
      <4>1. ret' = [ret EXCEPT ![w] = ret[w]] /\ ret[w] \in Results
        BY <2>2, <3>2 DEF WriterInv, WritersSound
      <4> QED BY <4>1
    <3> QED BY <3>1, <3>2
  <2>5. WritersSound([pc EXCEPT ![w] = Returned(w, status[w])], [ret EXCEPT ![w] = r], status, queue, lead)
    BY <1>1, <1>2, <2>1, <2>4, ReturnedPlace, WriterLeaves DEF Leading
  <2> QED BY <1>1, <2>2, <2>4, <2>5 DEF WriterInv
<1>4. CASE status[w] = "none"
  <2>1. PICK i \in 1 .. Len(queue) : queue[i] = w
    BY <1>1, <1>4 DEF WriterInv, WritersSound
  <2>2. /\ pc' = [pc EXCEPT ![w] = IF w = Leader THEN "room" ELSE "wait"]
        /\ lead' = IF w = Leader THEN TakeLead(w) ELSE lead
        /\ ret' = ret
    BY <1>4 DEF Woken
  <2>3. /\ pc' \in [Writer -> Places] /\ pc'[w] \in {"room", "wait"} /\ (pc'[w] = "room" => w = Leader)
        /\ \A v \in Writer \ {w} : pc'[v] = pc[v]
    BY <2>2 DEF WriterInv, WritersSound, Places, InQueue, Leading
  <2>4. queue \in Seq(Writer) /\ Len(queue) \in Nat /\ queue # <<>>
    BY <2>1, LenProperties DEF WriterInv, WritersSound
  <2>5. \A v \in Writer : pc'[v] \in {"log", "sync"} => v # w /\ pc[v] \in Leading
    BY <2>3 DEF Leading
  <2>6. lead' \in [force : BOOLEAN, delay : BOOLEAN, group : Nat] /\ lead'.group <= Len(queue)
    <3>1. CASE w = Leader
      BY <2>2, <2>4, <3>1, TakeLeadType
    <3>2. CASE w # Leader
      BY <2>2, <3>2 DEF WriterInv, WritersSound
    <3> QED BY <3>1, <3>2
  <2>7. \A j \in 1 .. Len(queue) : queue[j] \in Writer /\ pc'[queue[j]] \in InQueue /\ status[queue[j]] = "none"
    <3>1. pc'[w] \in InQueue
      BY <2>3 DEF InQueue, Leading
    <3> QED BY <2>3, <3>1, ElementOfSeq DEF WriterInv, WritersSound
  <2>8. ASSUME NEW v \in Writer
        PROVE  /\ pc'[v] \in Leading => queue # <<>> /\ queue[1] = v
               /\ pc'[v] \in {"wait", "signalled"} /\ status[v] = "none" => \E j \in 1 .. Len(queue) : queue[j] = v
               /\ pc'[v] \in {"idle", "wait"} => status[v] = "none"
               /\ pc'[v] \in {"log", "sync"} => lead'.group > 0 /\ IsBatch(v)
               /\ ret[v] # "none" => pc'[v] \in {"done", "dead"}
    <3>1. CASE v = w
      BY <1>2, <1>4, <2>1, <2>3, <2>4, <3>1 DEF Leader, Leading
    <3>2. CASE v # w
      <4>1. pc[v] \in {"log", "sync"} => Leader = v /\ lead' = lead
        BY <2>2, <3>2 DEF Leader, Leading, WriterInv, WritersSound
      <4> QED BY <2>3, <3>2, <4>1 DEF WriterInv, WritersSound
    <3> QED BY <3>1, <3>2
  <2>9. WritersSound(pc', ret', status', queue', lead')
    BY <1>1, <2>2, <2>3, <2>4, <2>6, <2>7, <2>8 DEF WriterInv, WritersSound
  <2> QED BY <1>1, <2>9 DEF WriterInv
<1> QED BY <1>3, <1>4

\* The numbers given to a group are numbers.
LEMMA SequenceType ==
  ASSUME WriterInv, vs.last \in Nat, NEW n \in Nat
  PROVE  SetSequence(n) \in [Writer -> Nat]
<1>1. ASSUME NEW w \in Writer
      PROVE  Cardinality({i \in 1 .. n : IsBatch(queue[i]) /\ \E j \in i .. n : queue[j] = w}) \in Nat
  <2>1. IsFiniteSet(1 .. n)
    BY FS_Interval
  <2> QED BY <2>1, FS_Subset, FS_CardinalityType
<1>2. \A w \in Writer : seq[w] \in Nat
  BY DEF WriterInv
<1> QED BY <1>1, <1>2 DEF SetSequence

LEMMA LeadType ==
  ASSUME WriterInv
  PROVE  /\ lead \in [force : BOOLEAN, delay : BOOLEAN, group : Nat] /\ lead.group <= Len(queue)
         /\ queue \in Seq(Writer) /\ Len(queue) \in Nat
  BY LenProperties DEF WriterInv, WritersSound

LEMMA ProceedSound ==
  ASSUME WriterInv, vs.last \in Nat, NEW w \in Writer, pc[w] = "room", Proceed
  PROVE  WriterInv'
<1>1. /\ w = Leader /\ queue # <<>> /\ 1 \in 1 .. Len(queue)
  BY LeaderFacts DEF Leading
<1>2. CASE IsBatch(Leader)
  <2> DEFINE n == BuildBatchGroup(queue)
  <2>1. n \in 1 .. Len(queue)
    BY <1>1, LeadType, GroupSize
  <2>2. /\ pc' = [pc EXCEPT ![w] = "log"] /\ lead' = [lead EXCEPT !.group = n]
        /\ seq' = SetSequence(n) /\ queue' = queue /\ status' = status /\ ret' = ret
    BY <1>1, <1>2 DEF Proceed
  <2> HIDE DEF n
  <2>3. n \in Nat /\ n > 0 /\ n <= Len(queue)
    BY <2>1, LeadType
  <2>4. lead' \in [force : BOOLEAN, delay : BOOLEAN, group : Nat] /\ lead'.group = n
    BY <2>2, <2>3, LeadType
  <2>5. WritersSound([pc EXCEPT ![w] = "log"], ret, status, queue, lead')
    <3> DEFINE ld == [lead EXCEPT !.group = n]
    <3>1. ld \in [force : BOOLEAN, delay : BOOLEAN, group : Nat] /\ ld.group = n
      BY <2>2, <2>4
    <3> HIDE DEF ld
    <3>2. WritersSound([pc EXCEPT ![w] = "log"], ret, status, queue, ld)
      <4>1. "log" \in Leading /\ pc[w] \in Leading
        BY DEF Leading
      <4>2. IsBatch(w) /\ ld.group > 0 /\ ld.group <= Len(queue)
        BY <1>1, <1>2, <2>3, <3>1
      <4> QED BY <3>1, <4>1, <4>2, LeaderMoves
    <3> QED BY <2>2, <3>2 DEF ld
  <2> QED BY <2>2, <2>3, <2>5, SequenceType DEF WriterInv
<1>3. CASE ~IsBatch(Leader)
  <2>1. Finish(1, "ok", pc) /\ seq' = seq
    BY <1>3 DEF Proceed
  <2> QED BY <1>1, <2>1, FinishSound DEF WriterInv, Leading
<1> QED BY <1>2, <1>3

\* A group or a single writer is through.
LEMMA EndSound ==
  ASSUME WriterInv, NEW w \in Writer, pc[w] \in Leading, seq' = seq, NEW s \in {"ok", "error"},
         \/ Finish(1, s, pc)
         \/ pc[w] \in {"log", "sync"} /\ (EndGroup(s, pc) \/ EndGroup(s, SignalAll(pc)))
  PROVE  WriterInv'
<1>1. /\ w = Leader /\ queue # <<>> /\ 1 \in 1 .. Len(queue)
  BY LeaderFacts
<1>2. CASE Finish(1, s, pc)
  BY <1>1, <1>2, FinishSound DEF WriterInv
<1>3. ASSUME pc[w] \in {"log", "sync"}, NEW p \in {pc, SignalAll(pc)}, EndGroup(s, p)
      PROVE  WriterInv'
  <2>1. lead.group \in 1 .. Len(queue)
    BY <1>3, LeadType DEF WriterInv, WritersSound
  <2>2. Finish(lead.group, s, p)
    BY <1>3 DEF EndGroup
  <2>3. WritersSound(p, ret, status, queue, lead)
    BY SignalAllSound DEF WriterInv
  <2>4. p[Leader] \in Leading
    BY <1>1, <1>3 DEF SignalAll, WriterInv, WritersSound, Leading
  <2> QED BY <2>1, <2>2, <2>3, <2>4, FinishSound DEF WriterInv
<1> QED BY <1>2, <1>3

LEMMA WriterStepSound ==
  ASSUME WriterInv, vs.last \in Nat, NEW w \in Writer, WriterStep(w)
  PROVE  WriterInv'
<1>0. \A place \in {"room", "sleep", "bgwait", "log", "sync"} : place \in Leading
  BY DEF Leading
<1>1. CASE Woken(w)
  BY <1>1, WokenSound
<1>2. CASE RoomError(w) \/ SwitchFails(w)
  <2>1. pc[w] = "room" /\ seq' = seq /\ Finish(1, "error", pc)
    BY <1>2 DEF RoomError, SwitchFails
  <2> QED BY <1>0, <2>1, EndSound
<1>3. CASE RoomDelay(w) \/ RoomWait(w)
  <2>1. PICK place \in {"sleep", "bgwait"} :
          /\ pc[w] = "room" /\ pc' = [pc EXCEPT ![w] = place]
          /\ ret' = ret /\ status' = status /\ queue' = queue /\ lead' = lead /\ seq' = seq
    BY <1>3 DEF RoomDelay, RoomWait
  <2>2. WritersSound([pc EXCEPT ![w] = place], ret, status, queue, lead)
    <3>1. place \in Leading /\ pc[w] \in Leading /\ place \notin {"log", "sync"}
      BY <1>0, <2>1
    <3> QED BY <3>1, LeadType, LeaderMoves
  <2> QED BY <2>1, <2>2 DEF WriterInv
<1>4. CASE Slept(w)
  <2> DEFINE ld == [lead EXCEPT !.delay = FALSE]
  <2>1. /\ pc[w] = "sleep" /\ pc' = [pc EXCEPT ![w] = "room"] /\ lead' = ld
        /\ ret' = ret /\ status' = status /\ queue' = queue /\ seq' = seq
    BY <1>4 DEF Slept
  <2>2. ld \in [force : BOOLEAN, delay : BOOLEAN, group : Nat] /\ ld.group = lead.group
    BY LeadType
  <2>3. WritersSound([pc EXCEPT ![w] = "room"], ret, status, queue, ld)
    <3> HIDE DEF ld
    <3>1. ld.group <= Len(queue)
      BY <2>2, LeadType
    <3>2. "room" \in Leading /\ pc[w] \in Leading /\ "room" \notin {"log", "sync"}
      BY <1>0, <2>1
    <3> QED BY <2>2, <3>1, <3>2, LeaderMoves
  <2> QED BY <2>1, <2>3 DEF WriterInv
<1>5. CASE RoomFound(w) \/ SwitchMem(w)
  <2>1. pc[w] = "room" /\ Proceed
    BY <1>5 DEF RoomFound, SwitchMem
  <2> QED BY <2>1, ProceedSound
<1>6. CASE AddRecord(w)
  <2>1. CASE w \in Sync
    <3>1. /\ pc[w] = "log" /\ pc' = [pc EXCEPT ![w] = "sync"]
          /\ ret' = ret /\ status' = status /\ queue' = queue /\ lead' = lead /\ seq' = seq
      BY <1>6, <2>1 DEF AddRecord
    <3>2. lead.group > 0 /\ IsBatch(w)
      BY <3>1 DEF WriterInv, WritersSound
    <3>3. WritersSound([pc EXCEPT ![w] = "sync"], ret, status, queue, lead)
      <4>1. "sync" \in Leading /\ pc[w] \in Leading
        BY <1>0, <3>1
      <4> QED BY <3>2, <4>1, LeadType, LeaderMoves
    <3> QED BY <3>1, <3>3 DEF WriterInv
  <2>2. CASE w \notin Sync
    <3>1. pc[w] = "log" /\ EndGroup("ok", pc) /\ seq' = seq
      BY <1>6, <2>2 DEF AddRecord
    <3> QED BY <1>0, <3>1, EndSound
  <2> QED BY <2>1, <2>2
<1>7. CASE AddRecordFails(w)
  <2>1. pc[w] = "log" /\ EndGroup("error", pc) /\ seq' = seq
    BY <1>7 DEF AddRecordFails
  <2> QED BY <1>0, <2>1, EndSound
<1>8. CASE SyncLog(w)
  <2>1. pc[w] = "sync" /\ EndGroup("ok", pc) /\ seq' = seq
    BY <1>8 DEF SyncLog
  <2> QED BY <1>0, <2>1, EndSound
<1>9. CASE SyncFails(w)
  <2>1. pc[w] = "sync" /\ EndGroup("error", IF bgerr THEN pc ELSE SignalAll(pc)) /\ seq' = seq
    BY <1>9 DEF SyncFails
  <2>2. EndGroup("error", pc) \/ EndGroup("error", SignalAll(pc))
    BY <2>1
  <2> QED BY <1>0, <2>1, <2>2, EndSound
<1>10. CASE Flush(w)
  <2>1. /\ pc[w] = "flush" /\ status' = status /\ queue' = queue /\ lead' = lead /\ seq' = seq
        /\ \/ pc' = [pc EXCEPT ![w] = "flushwait"] /\ ret' = ret
           \/ \E r \in {"ok", "error"} : pc' = [pc EXCEPT ![w] = "done"] /\ ret' = [ret EXCEPT ![w] = r]
    BY <1>10 DEF Flush
  <2>2. ret[w] = "none" /\ ret = [ret EXCEPT ![w] = "none"] /\ \A i \in 1 .. Len(queue) : queue[i] # w
    <3>1. ret \in [Writer -> Results] /\ ret[w] = "none"
      BY <2>1 DEF WriterInv, WritersSound
    <3>2. \A i \in 1 .. Len(queue) : queue[i] # w
      BY <2>1 DEF WriterInv, WritersSound, InQueue, Leading
    <3> QED BY <3>1, <3>2
  <2>3. PICK place \in {"flushwait", "done"}, r \in Results :
          /\ pc' = [pc EXCEPT ![w] = place] /\ ret' = [ret EXCEPT ![w] = r]
          /\ r = ret[w] \/ place = "done"
    BY <2>1, <2>2 DEF Results
  <2>4. WritersSound([pc EXCEPT ![w] = place], [ret EXCEPT ![w] = r], status, queue, lead)
    <3>1. pc[w] \notin Leading
      BY <2>1 DEF Leading
    <3> QED BY <2>2, <2>3, <3>1, WriterLeaves
  <2> QED BY <2>1, <2>3, <2>4 DEF WriterInv
<1> QED BY <1>1, <1>2, <1>3, <1>4, <1>5, <1>6, <1>7, <1>8, <1>9, <1>10 DEF WriterStep

\* A crash, a failed opening and the end of closing leave no writer in Write.
LEMMA ResetSound ==
  ASSUME WriterInv, Reset
  PROVE  WriterInv'
<1>1. /\ pc' = [w \in Writer |-> IF pc[w] = "idle" \/ ret[w] = "ok" THEN pc[w] ELSE "dead"]
      /\ status' = [w \in Writer |-> "none"] /\ queue' = <<>> /\ lead' = NoLead
      /\ ret' = ret /\ seq' = seq
  BY DEF Reset
<1>2. \A w \in Writer : pc'[w] \in {"idle", "done", "dead"} /\ (ret[w] # "none" => pc'[w] \in {"done", "dead"})
  BY <1>1 DEF WriterInv, WritersSound
<1>3. pc' \in [Writer -> Places] /\ status' \in [Writer -> Results]
  BY <1>1, <1>2 DEF Places, InQueue, Leading, Results
<1>4. queue' \in Seq(Writer) /\ Len(queue') = 0
  BY <1>1, EmptySeq
<1>5. lead' \in [force : BOOLEAN, delay : BOOLEAN, group : Nat] /\ lead'.group = 0
  BY <1>1, NoLeadType
<1>6. \A w \in Writer : status'[w] = "none"
  BY <1>1
<1>7. WritersSound(pc', ret', status', queue', lead')
  BY <1>1, <1>2, <1>3, <1>4, <1>5, <1>6 DEF WriterInv, WritersSound, Leading
<1> QED BY <1>1, <1>7 DEF WriterInv

\* The other steps touch the writers only by signals.
LEMMA BackgroundSignals ==
  ASSUME BackgroundStep
  PROVE  /\ ret' = ret /\ status' = status /\ queue' = queue /\ lead' = lead /\ seq' = seq
         /\ pc' = pc \/ pc' = SignalAll(pc)
         /\ mem' = mem /\ logfile' = logfile /\ rec' = rec /\ pinned' = pinned
         /\ excused' = excused /\ opens' = opens
<1> USE DEF bgRest
<1>1. CASE CallIdle \/ Moved \/ MoveFails
  BY <1>1 DEF CallIdle, Moved, MoveFails, EndCall
<1>2. CASE CallFlush \/ CallMove \/ CallCompact \/ CompactImm
  BY <1>2 DEF CallFlush, CallMove, CallCompact, CompactImm
<1>3. CASE OpenCompactionOutputFile \/ FinishCompactionOutputFile
  BY <1>3 DEF OpenCompactionOutputFile, FinishCompactionOutputFile
<1>4. CASE FlushBuilt
  <2>1. UNCHANGED bgRest /\ ((UNCHANGED pc) \/ EndFlush)
    BY <1>4 DEF FlushBuilt
  <2> QED BY <2>1 DEF EndFlush, EndCall
<1>5. CASE FlushBuildFails \/ FlushLogged \/ FlushLogFails
  BY <1>5 DEF FlushBuildFails, FlushLogged, FlushLogFails, EndFlush, EndCall
<1>6. CASE CompactStops \/ Installed \/ InstallFails
  <2>1. UNCHANGED bgRest /\ EndCall
    BY <1>6 DEF CompactStops, Installed, InstallFails, EndCompact
  <2> QED BY <2>1 DEF EndCall
<1> QED BY <1>1, <1>2, <1>3, <1>4, <1>5, <1>6 DEF BackgroundStep

LEMMA WriterNext ==
  ASSUME WriterInv, vs.last \in Nat, [Next]_vars
  PROVE  WriterInv'
<1>1. ASSUME NEW w \in Writer, Enter(w) \/ WriterStep(w)
      PROVE  WriterInv'
  BY <1>1, EnterSound, WriterStepSound
<1>2. CASE BackgroundStep
  BY <1>2, BackgroundSignals, SignalAllSound DEF WriterInv
<1>3. CASE Reset
  BY <1>3, ResetSound
<1>4. CASE UNCHANGED writerVars
  BY <1>4 DEF WriterInv, writerVars
<1>5. CASE Open \/ OpenStep
  <2>1. Reset \/ UNCHANGED openRest
    BY <1>5 DEF Open, OpenStep, NewDB, SetCurrentFile, Recover, RecoverLogFile, OpenLog, OpenManifest,
                OpenCurrent, OpenFails
  <2>2. UNCHANGED openRest => UNCHANGED writerVars
    BY DEF openRest, writerVars
  <2> QED BY <1>3, <1>4, <2>1, <2>2
<1>6. ASSUME NEW r \in Reader, GetBegins(r) \/ GetEnds(r)
      PROVE  UNCHANGED writerVars
  BY <1>6 DEF GetBegins, GetEnds
<1>7. CASE Close \/ Closing
  <2>1. Reset \/ UNCHANGED writerVars
    BY <1>7 DEF Close, Closing
  <2> QED BY <1>3, <1>4, <2>1
<1>8. ASSUME NEW kind \in Crashes, Crash(kind)
      PROVE  Reset
  BY <1>8 DEF Crash
<1>9. CASE UNCHANGED vars
  BY <1>9 DEF vars, WriterInv
<1> QED BY <1>1, <1>2, <1>3, <1>4, <1>5, <1>6, <1>7, <1>8, <1>9 DEF Next

-----------------------------------------------------------------------------
(***************************************************************************)
(* The files.                                                              *)
(***************************************************************************)
Tables == {0, 1} \X Nat

EditRecords == [add : SUBSET Tables, del : SUBSET Tables, log : Nat, next : Nat, last : Nat]

\* Records, the first of them synced.
Records(S) == {f \in [recs : Seq(S), synced : Nat] : f.synced <= Len(f.recs)}

\* Files of one kind, by their numbers.
Filenames(f) == f = [n \in DOMAIN f |-> f[n]] /\ DOMAIN f \subseteq Nat

IsFiles(f, S) == Filenames(f) /\ \A n \in DOMAIN f : f[n] \in S

IsDisk(d) ==
  /\ d = [logs |-> d.logs, tables |-> d.tables, manifests |-> d.manifests, current |-> d.current]
  /\ IsFiles(d.logs, Records(SUBSET Batches)) /\ Filenames(d.tables)
  /\ IsFiles(d.manifests, Records(EditRecords)) /\ d.current \in Nat

LEMMA UpdateFiles ==
  ASSUME NEW S, NEW f, IsFiles(f, S), NEW k, NEW v, k \in DOMAIN f => v \in S
  PROVE  /\ IsFiles([f EXCEPT ![k] = v], S) /\ DOMAIN [f EXCEPT ![k] = v] = DOMAIN f
         /\ k \in DOMAIN f => [f EXCEPT ![k] = v][k] = v
         /\ \A n \in DOMAIN f \ {k} : [f EXCEPT ![k] = v][n] = f[n]
  BY DEF IsFiles, Filenames

\* A file with one or more records appended.
LEMMA AppendRecords ==
  ASSUME NEW S, NEW f \in Records(S), NEW r \in Seq(S), NEW n \in {f.synced, Len(f.recs) + Len(r)}
  PROVE  [recs |-> f.recs \o r, synced |-> n] \in Records(S)
<1>1. f.recs \in Seq(S) /\ f.synced \in Nat /\ f.synced <= Len(f.recs) /\ Len(f.recs) \in Nat /\ Len(r) \in Nat
  BY LenProperties DEF Records
<1>2. f.recs \o r \in Seq(S) /\ Len(f.recs \o r) = Len(f.recs) + Len(r)
  BY <1>1, ConcatProperties
<1> QED BY <1>1, <1>2 DEF Records

\* The log in use with one more record.
LEMMA LoggedDisk ==
  ASSUME IsDisk(disk), NEW r \in SUBSET Batches
  PROVE  /\ IsDisk(Logged(r)) /\ Logged(r).tables = disk.tables /\ Logged(r).manifests = disk.manifests
         /\ Logged(r).current = disk.current /\ DOMAIN Logged(r).logs = DOMAIN disk.logs
         /\ \A n \in DOMAIN disk.logs \ {logfile} : Logged(r).logs[n] = disk.logs[n]
         /\ logfile \in DOMAIN disk.logs =>
              Logged(r).logs[logfile] = [disk.logs[logfile] EXCEPT !.recs = Append(@, r)]
<1> DEFINE f == [disk.logs[logfile] EXCEPT !.recs = Append(@, r)]
           l == [disk.logs EXCEPT ![logfile] = f]
<1>1. Logged(r) = [disk EXCEPT !.logs = l]
  BY DEF Logged
<1>2. IsFiles(disk.logs, Records(SUBSET Batches))
  BY DEF IsDisk
<1>3. ASSUME logfile \in DOMAIN disk.logs
      PROVE  f \in Records(SUBSET Batches)
  <2>1. disk.logs[logfile] \in Records(SUBSET Batches)
    BY <1>2, <1>3 DEF IsFiles, Filenames
  <2>2. /\ disk.logs[logfile].recs \in Seq(SUBSET Batches) /\ disk.logs[logfile].synced \in Nat
        /\ disk.logs[logfile] \in [recs : Seq(SUBSET Batches), synced : Nat]
        /\ disk.logs[logfile].synced <= Len(disk.logs[logfile].recs) /\ Len(disk.logs[logfile].recs) \in Nat
    BY <2>1, LenProperties DEF Records
  <2>3. /\ Append(disk.logs[logfile].recs, r) \in Seq(SUBSET Batches)
        /\ Len(Append(disk.logs[logfile].recs, r)) = Len(disk.logs[logfile].recs) + 1
    BY <2>2, AppendProperties
  <2>4. f \in [recs : Seq(SUBSET Batches), synced : Nat] /\ f.recs = Append(disk.logs[logfile].recs, r)
        /\ f.synced = disk.logs[logfile].synced
    BY <2>2, <2>3
  <2> QED BY <2>2, <2>3, <2>4 DEF Records
<1> HIDE DEF f
<1>4. /\ IsFiles(l, Records(SUBSET Batches)) /\ DOMAIN l = DOMAIN disk.logs
      /\ logfile \in DOMAIN disk.logs => l[logfile] = f
      /\ \A n \in DOMAIN disk.logs \ {logfile} : l[n] = disk.logs[n]
  BY <1>2, <1>3, UpdateFiles
<1> HIDE DEF l
<1>5. Logged(r) = [logs |-> l, tables |-> disk.tables, manifests |-> disk.manifests, current |-> disk.current]
  BY <1>1 DEF IsDisk
<1>6. IsDisk(Logged(r)) /\ Logged(r).logs = l
  BY <1>4, <1>5 DEF IsDisk
<1> QED BY <1>4, <1>5, <1>6 DEF f

\* The manifest in use with more records.
LEMMA ManifestDisk ==
  ASSUME NEW d, IsDisk(d), NEW r \in Seq(EditRecords), NEW b \in BOOLEAN
  PROVE  LET e == ManifestWith(d, r, b)
         IN  /\ IsDisk(e) /\ e.tables = d.tables /\ e.logs = d.logs /\ e.current = d.current
             /\ DOMAIN e.manifests = DOMAIN d.manifests
             /\ \A n \in DOMAIN d.manifests \ {vs.manifest} : e.manifests[n] = d.manifests[n]
             /\ vs.manifest \in DOMAIN d.manifests =>
                  LET f == d.manifests[vs.manifest]
                  IN  e.manifests[vs.manifest] =
                        [recs |-> f.recs \o r, synced |-> IF b THEN Len(f.recs) + Len(r) ELSE f.synced]
<1> DEFINE f == d.manifests[vs.manifest]
           g == [recs |-> f.recs \o r, synced |-> IF b THEN Len(f.recs) + Len(r) ELSE f.synced]
           m == [d.manifests EXCEPT ![vs.manifest] = g]
           e == ManifestWith(d, r, b)
<1>1. e = [d EXCEPT !.manifests = m]
  BY DEF ManifestWith
<1>2. IsFiles(d.manifests, Records(EditRecords))
  BY DEF IsDisk
<1>3. vs.manifest \in DOMAIN d.manifests => g \in Records(EditRecords)
  BY <1>2, AppendRecords DEF IsFiles, Filenames
<1> HIDE DEF g
<1>4. /\ IsFiles(m, Records(EditRecords)) /\ DOMAIN m = DOMAIN d.manifests
      /\ vs.manifest \in DOMAIN d.manifests => m[vs.manifest] = g
      /\ \A n \in DOMAIN d.manifests \ {vs.manifest} : m[n] = d.manifests[n]
  BY <1>2, <1>3, UpdateFiles
<1> HIDE DEF m, e
<1>5. e = [logs |-> d.logs, tables |-> d.tables, manifests |-> m, current |-> d.current]
  BY <1>1 DEF IsDisk
<1>6. IsDisk(e) /\ e.manifests = m
  BY <1>4, <1>5 DEF IsDisk
<1>7. /\ IsDisk(e) /\ e.tables = d.tables /\ e.logs = d.logs /\ e.current = d.current
      /\ DOMAIN e.manifests = DOMAIN d.manifests
      /\ \A n \in DOMAIN d.manifests \ {vs.manifest} : e.manifests[n] = d.manifests[n]
      /\ vs.manifest \in DOMAIN d.manifests => e.manifests[vs.manifest] = g
  BY <1>4, <1>5, <1>6
<1> QED BY <1>7 DEF e, g

\* What DeleteObsoleteFiles leaves.
LEMMA DeletedDisk ==
  ASSUME NEW d, IsDisk(d), NEW v, NEW c, NEW pend, NEW err
  PROVE  LET e == DeleteObsoleteFiles(d, v, c, pend, err)
         IN  /\ IsDisk(e) /\ e.current = d.current
             /\ err => e = d
             /\ ~err => /\ DOMAIN e.logs = {n \in DOMAIN d.logs : n >= v.log}
                        /\ DOMAIN e.manifests = {n \in DOMAIN d.manifests : n >= v.manifest}
                        /\ DOMAIN e.tables = DOMAIN d.tables \cap (pend \union AddLiveFiles(v, c))
             /\ \A n \in DOMAIN e.logs : n \in DOMAIN d.logs /\ e.logs[n] = d.logs[n]
             /\ \A n \in DOMAIN e.manifests : n \in DOMAIN d.manifests /\ e.manifests[n] = d.manifests[n]
             /\ \A n \in DOMAIN e.tables : n \in DOMAIN d.tables /\ e.tables[n] = d.tables[n]
<1> DEFINE e == DeleteObsoleteFiles(d, v, c, pend, err)
           live == pend \union AddLiveFiles(v, c)
           L == {n \in DOMAIN d.logs : n >= v.log}
           M == {n \in DOMAIN d.manifests : n >= v.manifest}
           l == Keep(d.logs, L)
           m == Keep(d.manifests, M)
           t == Keep(d.tables, live)
<1>1. CASE err
  <2>1. e = d
    BY <1>1 DEF DeleteObsoleteFiles
  <2> QED BY <1>1, <2>1
<1>2. CASE ~err
  <2>1. e = [d EXCEPT !.logs = l, !.manifests = m, !.tables = t]
    BY <1>2 DEF DeleteObsoleteFiles
  <2>2. /\ IsFiles(d.logs, Records(SUBSET Batches)) /\ Filenames(d.tables)
        /\ IsFiles(d.manifests, Records(EditRecords))
    BY DEF IsDisk
  <2>0. DOMAIN d.logs \cap L = L /\ DOMAIN d.manifests \cap M = M
    OBVIOUS
  <2> HIDE DEF L, M, live
  <2>3. /\ IsFiles(l, Records(SUBSET Batches)) /\ DOMAIN l = L
        /\ \A n \in DOMAIN l : n \in DOMAIN d.logs /\ l[n] = d.logs[n]
    <3>1. /\ IsFiles(l, Records(SUBSET Batches)) /\ DOMAIN l = DOMAIN d.logs \cap L
          /\ \A n \in DOMAIN d.logs \cap L : l[n] = d.logs[n]
      BY <2>2 DEF Keep, IsFiles, Filenames
    <3> QED BY <2>0, <3>1
  <2>4. /\ IsFiles(m, Records(EditRecords)) /\ DOMAIN m = M
        /\ \A n \in DOMAIN m : n \in DOMAIN d.manifests /\ m[n] = d.manifests[n]
    <3>1. /\ IsFiles(m, Records(EditRecords)) /\ DOMAIN m = DOMAIN d.manifests \cap M
          /\ \A n \in DOMAIN d.manifests \cap M : m[n] = d.manifests[n]
      BY <2>2 DEF Keep, IsFiles, Filenames
    <3> QED BY <2>0, <3>1
  <2>5. /\ Filenames(t) /\ DOMAIN t = DOMAIN d.tables \cap live
        /\ \A n \in DOMAIN t : n \in DOMAIN d.tables /\ t[n] = d.tables[n]
    <3>1. /\ Filenames(t) /\ DOMAIN t = DOMAIN d.tables \cap live
          /\ \A n \in DOMAIN d.tables \cap live : t[n] = d.tables[n]
      BY <2>2 DEF Keep, IsFiles, Filenames
    <3> QED BY <3>1
  <2> HIDE DEF l, m, t
  <2>6. e = [logs |-> l, tables |-> t, manifests |-> m, current |-> d.current]
    BY <2>1 DEF IsDisk
  <2> HIDE DEF e
  <2>7. e.logs = l /\ e.tables = t /\ e.manifests = m /\ e.current = d.current
    BY <2>6
  <2>8. IsDisk(e)
    BY <2>3, <2>4, <2>5, <2>6, <2>7 DEF IsDisk
  <2>9. /\ IsDisk(e) /\ e.current = d.current
        /\ DOMAIN e.logs = L /\ DOMAIN e.manifests = M
        /\ DOMAIN e.tables = DOMAIN d.tables \cap live
        /\ \A n \in DOMAIN e.logs : n \in DOMAIN d.logs /\ e.logs[n] = d.logs[n]
        /\ \A n \in DOMAIN e.manifests : n \in DOMAIN d.manifests /\ e.manifests[n] = d.manifests[n]
        /\ \A n \in DOMAIN e.tables : n \in DOMAIN d.tables /\ e.tables[n] = d.tables[n]
    BY <2>3, <2>4, <2>5, <2>7, <2>8
  <2> QED BY <1>2, <2>9 DEF e, L, M, live
<1> QED BY <1>1, <1>2

\* The files after a power failure: their synced records and perhaps more.
IsCut(g, f) == /\ DOMAIN g = DOMAIN f
               /\ \A n \in DOMAIN f : \E k \in f[n].synced .. Len(f[n].recs) :
                    g[n] = [recs |-> SubSeq(f[n].recs, 1, k), synced |-> f[n].synced]

LEMMA CutRecords ==
  ASSUME NEW S, NEW f \in Records(S), NEW k \in f.synced .. Len(f.recs)
  PROVE  /\ [recs |-> SubSeq(f.recs, 1, k), synced |-> f.synced] \in Records(S)
         /\ Len(SubSeq(f.recs, 1, k)) = k
         /\ \A i \in 1 .. k : SubSeq(f.recs, 1, k)[i] = f.recs[i]
<1>1. f.recs \in Seq(S) /\ f.synced \in Nat /\ f.synced <= Len(f.recs) /\ Len(f.recs) \in Nat /\ k \in Nat
  BY LenProperties DEF Records
<1>2. \A i \in 1 .. k : f.recs[i] \in S
  BY <1>1, ElementOfSeq
<1>3. SubSeq(f.recs, 1, k) \in Seq(S) /\ Len(SubSeq(f.recs, 1, k)) = k
      /\ \A i \in 1 .. k : SubSeq(f.recs, 1, k)[i] = f.recs[i]
  BY <1>1, <1>2, SubSeqProperties
<1> QED BY <1>1, <1>3 DEF Records

LEMMA CutFiles ==
  ASSUME NEW S, NEW f, IsFiles(f, Records(S)), NEW g \in Cut(f)
  PROVE  IsFiles(g, Records(S)) /\ IsCut(g, f)
<1>1. ASSUME NEW n \in DOMAIN f
      PROVE  \E k \in f[n].synced .. Len(f[n].recs) :
               g[n] = [recs |-> SubSeq(f[n].recs, 1, k), synced |-> f[n].synced]
  <2>1. f[n] \in [recs : Seq(S), synced : Nat]
    BY DEF IsFiles, Filenames, Records
  <2>2. g[n] \in {[f[n] EXCEPT !.recs = SubSeq(@, 1, k)] : k \in f[n].synced .. Len(f[n].recs)}
    BY DEF Cut
  <2>3. PICK k \in f[n].synced .. Len(f[n].recs) : g[n] = [f[n] EXCEPT !.recs = SubSeq(@, 1, k)]
    BY <2>2
  <2>4. g[n] = [recs |-> SubSeq(f[n].recs, 1, k), synced |-> f[n].synced]
    BY <2>1, <2>3
  <2> QED BY <2>4
<1>0. DOMAIN g = DOMAIN f /\ g = [n \in DOMAIN g |-> g[n]]
  BY DEF Cut
<1>2. IsCut(g, f)
  BY <1>0, <1>1 DEF IsCut
<1>3. \A n \in DOMAIN g : g[n] \in Records(S)
  BY <1>0, <1>1, CutRecords DEF IsFiles, Filenames
<1> QED BY <1>0, <1>2, <1>3 DEF IsFiles, Filenames

LEMMA PowerLossDisk ==
  ASSUME NEW d, IsDisk(d), NEW e \in PowerLosses(d)
  PROVE  /\ IsDisk(e) /\ e.tables = d.tables /\ e.current = d.current
         /\ IsCut(e.logs, d.logs) /\ IsCut(e.manifests, d.manifests)
<1>1. PICK p \in Cut(d.logs) \X Cut(d.manifests) : e = [d EXCEPT !.logs = p[1], !.manifests = p[2]]
  BY DEF PowerLosses
<1> DEFINE l == p[1]
           m == p[2]
<1>0. l \in Cut(d.logs) /\ m \in Cut(d.manifests) /\ e = [d EXCEPT !.logs = l, !.manifests = m]
  BY <1>1
<1> HIDE DEF l, m
<1>2. IsFiles(l, Records(SUBSET Batches)) /\ IsCut(l, d.logs)
  BY <1>0, CutFiles DEF IsDisk
<1>3. IsFiles(m, Records(EditRecords)) /\ IsCut(m, d.manifests)
  BY <1>0, CutFiles DEF IsDisk
<1>4. e = [logs |-> l, tables |-> d.tables, manifests |-> m, current |-> d.current]
  BY <1>0 DEF IsDisk
<1> QED BY <1>2, <1>3, <1>4 DEF IsDisk

-----------------------------------------------------------------------------
(***************************************************************************)
(* The types of the other variables.                                       *)
(***************************************************************************)
Versions == SUBSET Tables
Opening == {"create", "newcurrent", "recover", "replay", "manifest", "current"}
Opened == {"open", "closing", "closewait"}
Replaying == {"replay", "manifest", "current"}
Committing == {"flushlog", "move", "install"}

IsVersionSet(v) == v \in [next : Nat, last : Nat, log : Nat, manifest : Nat, tables : Versions]

IsImm(i) == i \in SUBSET SUBSET Batches /\ (i = NoMem \/ \E m \in i : i = {m})

MemTypes == mem \subseteq Batches /\ IsImm(imm) /\ logfile \in Nat

IsBg(b) == b \in [pc : Committing \union {"idle", "flush", "compact"}, num : Nat, edit : EditRecords]

IsComp(c) == c \in [on : BOOLEAN, inputs : Versions, base : Versions, out : SUBSET Nat]

BgTypes == /\ bgerr \in BOOLEAN /\ scheduled \in BOOLEAN
           /\ IsBg(bg) /\ IsComp(comp) /\ pending \subseteq Nat

OpenTypes == /\ up \in Opening \union Opened \union {"closed", "unusable"}
             /\ rec \in [logs : SUBSET Nat, add : Versions]
             /\ pinned \in [Reader -> SUBSET Versions]

TypesInv == MemTypes /\ IsVersionSet(vs) /\ BgTypes /\ OpenTypes /\ IsDisk(disk)

\* The background thread, and writers, are in an open database only.
BgInv == /\ bg.pc # "idle" => scheduled
         /\ scheduled => up \in Opened
         /\ queue # <<>> => up \in Opened

(***************************************************************************)
(* The manifests: the file numbers that their edits save are above their   *)
(* own, so that the next manifest gets a name of its own.                  *)
(***************************************************************************)
Numbered(files) == \A m \in DOMAIN files : \A i \in 1 .. Len(files[m].recs) :
                     files[m].recs[i] # TornEdit => files[m].recs[i].next > m

CurrentThere(d) == d.current # 0 => d.current \in DOMAIN d.manifests

IsSound(d) == IsDisk(d) /\ Numbered(d.manifests) /\ CurrentThere(d)

ManifestInv ==
  /\ IsSound(disk)
  /\ up \in {"create", "newcurrent"} => disk.current = 0
  /\ up = "newcurrent" => 1 \in DOMAIN disk.manifests
  /\ up = "recover" => disk.current # 0
  /\ up \in Replaying => disk.current < vs.manifest /\ rec.logs \subseteq DOMAIN disk.logs
  /\ up \in Replaying \union Opened => vs.manifest < vs.next
  /\ up \in {"current"} \union Opened => vs.manifest \in DOMAIN disk.manifests
  /\ up \in Opened => disk.current = vs.manifest
  /\ bg.pc \in Committing => bg.edit.next > vs.manifest

BaseInv == WriterInv /\ TypesInv /\ BgInv /\ ManifestInv

LEMMA BaseInit ==
  ASSUME Init
  PROVE  BaseInv
<1>1. WriterInv
  <2>1. <<>> \in Seq(Writer) /\ Len(<<>>) = 0
    BY EmptySeq
  <2>2. lead \in [force : BOOLEAN, delay : BOOLEAN, group : Nat] /\ lead.group = 0
    BY DEF Init, NoLead
  <2>3. pc \in [Writer -> Places] /\ ret \in [Writer -> Results] /\ status \in [Writer -> Results]
        /\ seq \in [Writer -> Nat]
    BY DEF Init, Places, Results
  <2> QED BY <2>1, <2>2, <2>3 DEF Init, WriterInv, WritersSound, Leading
<1>2. IsDisk(disk) /\ DOMAIN disk.manifests = {} /\ disk.current = 0
  BY DEF Init, IsDisk, IsFiles, Filenames, NoFiles
<1>3. TornEdit \in EditRecords
  BY DEF TornEdit, EditRecords
<1>4. MemTypes /\ IsVersionSet(vs)
  BY DEF Init, MemTypes, IsVersionSet, IsImm, NoMem, Versions
<1>5. IsBg(NoBg) /\ IsComp(NoComp)
  BY <1>3 DEF IsBg, IsComp, NoBg, NoComp, Versions
<1>6. BgTypes
  BY <1>5 DEF Init, BgTypes
<1>7. OpenTypes
  BY DEF Init, OpenTypes, NoVersion, Versions
<1>8. bg.pc = "idle" /\ up = "closed" /\ queue = <<>> /\ scheduled = FALSE
  BY DEF Init, NoBg
<1>9. BgInv /\ ManifestInv
  BY <1>2, <1>8 DEF BgInv, ManifestInv, IsSound, CurrentThere, Numbered, Opened, Replaying, Committing
<1> QED BY <1>1, <1>2, <1>4, <1>6, <1>7, <1>9 DEF BaseInv, TypesInv

\* The memtable and the queue tell which batches a group holds.
LEMMA GroupBatches ==
  ASSUME WriterInv
  PROVE  Group \subseteq Batches
<1> SUFFICES ASSUME NEW i \in 1 .. lead.group, IsBatch(queue[i])
             PROVE  queue[i] \in Batches
  BY DEF Group
<1>1. i \in 1 .. Len(queue) /\ queue \in Seq(Writer)
  BY LenProperties DEF WriterInv, WritersSound
<1>2. queue[i] \in Writer
  BY <1>1, ElementOfSeq
<1> QED BY <1>2 DEF Batches, IsBatch

\* The queue is finite, so a group is.
LEMMA GroupFinite ==
  ASSUME WriterInv
  PROVE  IsFiniteSet(Group) /\ Cardinality(Group) \in Nat
<1>1. IsFiniteSet(Batches)
  BY DBAssumption, FS_Subset DEF Batches
<1> QED BY <1>1, GroupBatches, FS_Subset, FS_CardinalityType

\* What replaying a log finds are batches.
LEMMA InLogBatches ==
  ASSUME NEW recs \in Seq(SUBSET Batches)
  PROVE  InLog(recs) \subseteq Batches /\ BehindTorn(recs) \subseteq Batches
<1>1. \A i \in DOMAIN recs : recs[i] \subseteq Batches
  BY ElementOfSeq, LenProperties
<1> QED BY <1>1 DEF InLog, BehindTorn

-----------------------------------------------------------------------------
(***************************************************************************)
(* What a writer's step leaves alone.                                      *)
(***************************************************************************)
SameTables(d) == d.tables = disk.tables /\ d.manifests = disk.manifests /\ d.current = disk.current

SameVersion(v) == v.tables = vs.tables /\ v.log = vs.log /\ v.manifest = vs.manifest

WriterFrame ==
  /\ UNCHANGED callerVars
  /\ MemTypes' /\ bgerr' \in BOOLEAN /\ scheduled' \in BOOLEAN
  /\ IsDisk(disk') /\ SameTables(disk') /\ DOMAIN disk.logs \subseteq DOMAIN disk'.logs
  /\ IsVersionSet(vs') /\ SameVersion(vs') /\ vs'.next >= vs.next /\ vs'.last >= vs.last
  /\ scheduled => scheduled'
  /\ bgerr => bgerr'
  /\ scheduled' => scheduled \/ queue # <<>>

\* Most steps change nothing but the queue.
LEMMA QuietFrame ==
  ASSUME TypesInv, UNCHANGED <<memVars, vs, bgerr, scheduled, disk, callerVars>>
  PROVE  WriterFrame
<1>1. UNCHANGED <<memVars, vs, bgerr>> /\ UNCHANGED <<scheduled, disk>> /\ UNCHANGED callerVars
  OBVIOUS
<1>2. MemTypes'
  BY <1>1 DEF TypesInv, MemTypes, memVars
<1>3. IsDisk(disk') /\ SameTables(disk') /\ DOMAIN disk.logs \subseteq DOMAIN disk'.logs
  BY <1>1 DEF TypesInv, SameTables
<1>4. IsVersionSet(vs') /\ SameVersion(vs') /\ vs'.next >= vs.next /\ vs'.last >= vs.last
  BY <1>1 DEF TypesInv, SameVersion, IsVersionSet
<1>5. bgerr' \in BOOLEAN /\ scheduled' \in BOOLEAN /\ scheduled' = scheduled
  BY <1>1 DEF TypesInv, BgTypes
<1> QED BY <1>1, <1>2, <1>3, <1>4, <1>5 DEF WriterFrame

\* A new log.
WithLog(d, n) == [d EXCEPT !.logs = Extend(@, n, [recs |-> <<>>, synced |-> 0])]

LEMMA NewLogDisk ==
  ASSUME NEW d, IsDisk(d), NEW n \in Nat
  PROVE  LET e == WithLog(d, n)
         IN  /\ IsDisk(e) /\ e.tables = d.tables /\ e.manifests = d.manifests /\ e.current = d.current
             /\ DOMAIN e.logs = DOMAIN d.logs \union {n} /\ e.logs[n] = [recs |-> <<>>, synced |-> 0]
             /\ \A m \in DOMAIN d.logs \ {n} : e.logs[m] = d.logs[m]
<1> DEFINE f == [recs |-> <<>>, synced |-> 0]
           l == Extend(d.logs, n, f)
           e == WithLog(d, n)
<1>0. e = [d EXCEPT !.logs = l]
  BY DEF WithLog
<1>1. f \in Records(SUBSET Batches)
  BY EmptySeq DEF Records
<1> HIDE DEF f
<1>2. /\ IsFiles(l, Records(SUBSET Batches)) /\ DOMAIN l = DOMAIN d.logs \union {n}
      /\ l[n] = f /\ \A m \in DOMAIN d.logs \ {n} : l[m] = d.logs[m]
  BY <1>1 DEF IsDisk, Extend, IsFiles, Filenames
<1> HIDE DEF l
<1>3. e = [logs |-> l, tables |-> d.tables, manifests |-> d.manifests, current |-> d.current]
  BY <1>0 DEF IsDisk
<1> HIDE DEF e
<1>4. IsDisk(e) /\ e.tables = d.tables /\ e.manifests = d.manifests /\ e.current = d.current /\ e.logs = l
  BY <1>2, <1>3 DEF IsDisk
<1>5. /\ IsDisk(e) /\ e.tables = d.tables /\ e.manifests = d.manifests /\ e.current = d.current
      /\ DOMAIN e.logs = DOMAIN d.logs \union {n} /\ e.logs[n] = f
      /\ \A m \in DOMAIN d.logs \ {n} : e.logs[m] = d.logs[m]
  BY <1>2, <1>4
<1> QED BY <1>5 DEF e, l, f

LEMMA SwitchFrame ==
  ASSUME WriterInv, TypesInv, NEW w \in Writer, SwitchMem(w)
  PROVE  WriterFrame
<1>1. UNCHANGED callerVars /\ UNCHANGED bgerr
  BY DEF SwitchMem
<1>2. imm' = {mem} /\ mem' = {} /\ logfile' = vs.next /\ vs' = [vs EXCEPT !.next = @ + 1]
  BY DEF SwitchMem
<1>3. MemTypes'
  BY <1>2 DEF TypesInv, MemTypes, IsVersionSet, IsImm
<1>4. vs.next \in Nat /\ IsDisk(disk)
  BY DEF TypesInv, IsVersionSet
<1>5. disk' = WithLog(disk, vs.next)
  BY DEF SwitchMem, WithLog
<1>6. IsDisk(disk') /\ SameTables(disk') /\ DOMAIN disk.logs \subseteq DOMAIN disk'.logs
  BY <1>4, <1>5, NewLogDisk DEF SameTables
<1>7. IsVersionSet(vs') /\ SameVersion(vs') /\ vs'.next >= vs.next /\ vs'.last >= vs.last
  BY <1>2 DEF TypesInv, SameVersion, IsVersionSet
<1>8. scheduled' \in BOOLEAN /\ (scheduled => scheduled')
  BY DEF SwitchMem, MaybeScheduleCompaction
<1>9. queue # <<>>
  BY DEF SwitchMem, WriterInv, WritersSound, Leading
<1> QED BY <1>1, <1>3, <1>6, <1>7, <1>8, <1>9 DEF WriterFrame, TypesInv, BgTypes

\* The log in use with its records synced.
LEMMA SyncedDisk ==
  ASSUME IsDisk(disk)
  PROVE  LET e == [disk EXCEPT !.logs[logfile].synced = Len(disk.logs[logfile].recs)]
         IN  /\ IsDisk(e) /\ SameTables(e) /\ DOMAIN e.logs = DOMAIN disk.logs
             /\ \A n \in DOMAIN disk.logs : e.logs[n].recs = disk.logs[n].recs
<1> DEFINE f == [disk.logs[logfile] EXCEPT !.synced = Len(disk.logs[logfile].recs)]
           l == [disk.logs EXCEPT ![logfile] = f]
           e == [disk EXCEPT !.logs = l]
<1>1. IsFiles(disk.logs, Records(SUBSET Batches))
  BY DEF IsDisk
<1>2. ASSUME logfile \in DOMAIN disk.logs
      PROVE  f \in Records(SUBSET Batches) /\ f.recs = disk.logs[logfile].recs
  <2>1. /\ disk.logs[logfile].recs \in Seq(SUBSET Batches)
        /\ disk.logs[logfile] \in [recs : Seq(SUBSET Batches), synced : Nat]
    BY <1>1, <1>2 DEF IsFiles, Filenames, Records
  <2>2. Len(disk.logs[logfile].recs) \in Nat
    BY <2>1, LenProperties
  <2> QED BY <2>1, <2>2 DEF Records
<1> HIDE DEF f
<1>3. /\ IsFiles(l, Records(SUBSET Batches)) /\ DOMAIN l = DOMAIN disk.logs
      /\ logfile \in DOMAIN disk.logs => l[logfile] = f
      /\ \A n \in DOMAIN disk.logs \ {logfile} : l[n] = disk.logs[n]
  BY <1>1, <1>2, UpdateFiles
<1> HIDE DEF l
<1>4. e = [logs |-> l, tables |-> disk.tables, manifests |-> disk.manifests, current |-> disk.current]
  BY DEF IsDisk
<1> HIDE DEF e
<1>5. IsDisk(e) /\ SameTables(e) /\ e.logs = l
  BY <1>3, <1>4 DEF IsDisk, SameTables
<1>6. \A n \in DOMAIN disk.logs : e.logs[n].recs = disk.logs[n].recs
  BY <1>2, <1>3, <1>5
<1>7. IsDisk(e) /\ SameTables(e) /\ DOMAIN e.logs = DOMAIN disk.logs
      /\ \A n \in DOMAIN disk.logs : e.logs[n].recs = disk.logs[n].recs
  BY <1>3, <1>5, <1>6
<1> QED BY <1>7 DEF e, l, f

LEMMA GroupFrame ==
  ASSUME WriterInv, TypesInv, NEW w \in Writer,
         AddRecord(w) \/ AddRecordFails(w) \/ SyncLog(w) \/ SyncFails(w)
  PROVE  WriterFrame
<1>1. UNCHANGED callerVars /\ UNCHANGED <<imm, logfile, scheduled>> /\ bgerr' \in BOOLEAN /\ (bgerr => bgerr')
  BY DEF AddRecord, AddRecordFails, SyncLog, SyncFails, TypesInv, BgTypes
<1>2. Group \in SUBSET Batches /\ TornRecord \in SUBSET Batches /\ Cardinality(Group) \in Nat
  BY GroupBatches, GroupFinite DEF TornRecord
<1>3. \/ UNCHANGED <<mem, vs>>
      \/ mem' \in {mem, mem \union Group} /\ vs' = [vs EXCEPT !.last = @ + Cardinality(Group)]
  BY DEF AddRecord, AddRecordFails, SyncLog, SyncFails, EndGroup
<1>4. MemTypes'
  BY <1>1, <1>2, <1>3 DEF TypesInv, MemTypes
<1>5. IsVersionSet(vs') /\ SameVersion(vs') /\ vs'.next >= vs.next /\ vs'.last >= vs.last
  BY <1>2, <1>3 DEF TypesInv, SameVersion, IsVersionSet
<1>6. IsDisk(disk') /\ SameTables(disk') /\ DOMAIN disk.logs \subseteq DOMAIN disk'.logs
  <2>0. IsDisk(disk) /\ SameTables(disk)
    BY DEF TypesInv, SameTables
  <2>1. CASE AddRecord(w)
    BY <1>2, <2>0, <2>1, LoggedDisk DEF AddRecord, SameTables
  <2>2. CASE AddRecordFails(w)
    BY <1>2, <2>0, <2>2, LoggedDisk DEF AddRecordFails, SameTables
  <2>3. CASE SyncLog(w)
    BY <2>0, <2>3, SyncedDisk DEF SyncLog
  <2>4. CASE SyncFails(w)
    BY <2>0, <2>4 DEF SyncFails
  <2> QED BY <2>1, <2>2, <2>3, <2>4
<1> QED BY <1>1, <1>4, <1>5, <1>6 DEF WriterFrame, TypesInv, BgTypes

LEMMA WriterStepFrame ==
  ASSUME WriterInv, TypesInv, NEW w \in Writer, Enter(w) \/ WriterStep(w)
  PROVE  WriterFrame
<1> DEFINE quiet == <<memVars, vs, bgerr, scheduled, disk, callerVars>>
<1>1. Enter(w) => UNCHANGED quiet
  BY DEF Enter
<1>2. Woken(w) => UNCHANGED quiet
  BY DEF Woken
<1>3. RoomError(w) \/ RoomDelay(w) \/ Slept(w) => UNCHANGED quiet
  BY DEF RoomError, RoomDelay, Slept
<1>4. RoomFound(w) \/ RoomWait(w) \/ SwitchFails(w) => UNCHANGED quiet
  BY DEF RoomFound, RoomWait, SwitchFails
<1>5. Flush(w) => UNCHANGED quiet
  BY DEF Flush
<1> QED BY <1>1, <1>2, <1>3, <1>4, <1>5, QuietFrame, SwitchFrame, GroupFrame DEF WriterStep

LEMMA WriterBase ==
  ASSUME BaseInv, NEW w \in Writer, Enter(w) \/ WriterStep(w)
  PROVE  TypesInv' /\ BgInv' /\ ManifestInv'
<1>1. WriterFrame
  BY WriterStepFrame DEF BaseInv
<1>2. UNCHANGED <<up, bg, comp, pending, rec, pinned>>
  BY <1>1 DEF WriterFrame, callerVars
<1>3. TypesInv'
  BY <1>1, <1>2 DEF BaseInv, TypesInv, WriterFrame, BgTypes, OpenTypes
<1>4. queue' # <<>> => up \in Opened
  <2>1. CASE Enter(w)
    BY <2>1 DEF Enter, Opened
  <2>2. CASE WriterStep(w)
    <3>1. pc[w] \in Leading => queue # <<>>
      BY DEF BaseInv, WriterInv, WritersSound
    <3>2. UNCHANGED queue \/ pc[w] \in {"room", "log", "sync"}
      BY <2>2 DEF WriterStep, Woken, RoomError, RoomDelay, Slept, RoomFound, RoomWait, SwitchMem, SwitchFails,
                  AddRecord, AddRecordFails, SyncLog, SyncFails, Flush
    <3> QED BY <3>1, <3>2 DEF BaseInv, BgInv, Leading
  <2> QED BY <2>1, <2>2
<1>5. BgInv'
  BY <1>1, <1>2, <1>4 DEF BaseInv, BgInv, WriterFrame
<1>6. ManifestInv'
  BY <1>1, <1>2 DEF BaseInv, ManifestInv, WriterFrame, SameTables, SameVersion, IsSound, Numbered,
                    CurrentThere, TypesInv, IsVersionSet
<1> QED BY <1>3, <1>5, <1>6

-----------------------------------------------------------------------------
(***************************************************************************)
(* The background thread and the files.                                    *)
(***************************************************************************)
\* Records whose edits save numbers above the manifest's.
LEMMA CommittedDisk ==
  ASSUME NEW d, IsSound(d), vs.manifest \in Nat, NEW r \in Seq(EditRecords), NEW b \in BOOLEAN,
         \A i \in 1 .. Len(r) : r[i] # TornEdit => r[i].next > vs.manifest
  PROVE  LET e == ManifestWith(d, r, b)
         IN  /\ IsSound(e) /\ e.tables = d.tables /\ e.logs = d.logs /\ e.current = d.current
             /\ DOMAIN e.manifests = DOMAIN d.manifests
<1> DEFINE e == ManifestWith(d, r, b)
           f == d.manifests[vs.manifest]
<1>1. /\ IsDisk(e) /\ e.tables = d.tables /\ e.logs = d.logs /\ e.current = d.current
      /\ DOMAIN e.manifests = DOMAIN d.manifests
      /\ \A n \in DOMAIN d.manifests \ {vs.manifest} : e.manifests[n] = d.manifests[n]
      /\ vs.manifest \in DOMAIN d.manifests =>
           e.manifests[vs.manifest] =
             [recs |-> f.recs \o r, synced |-> IF b THEN Len(f.recs) + Len(r) ELSE f.synced]
  BY ManifestDisk DEF IsSound
<1> HIDE DEF e
<1>2. ASSUME NEW m \in DOMAIN e.manifests, NEW i \in 1 .. Len(e.manifests[m].recs),
             e.manifests[m].recs[i] # TornEdit
      PROVE  e.manifests[m].recs[i].next > m
  <2>1. CASE m # vs.manifest
    BY <1>1, <1>2, <2>1 DEF IsSound, Numbered
  <2>2. CASE m = vs.manifest
    <3>1. f.recs \in Seq(EditRecords) /\ e.manifests[m].recs = f.recs \o r
      <4>1. d.manifests[m] \in Records(EditRecords)
        BY <1>1, <1>2 DEF IsSound, IsDisk, IsFiles
      <4>2. f \in Records(EditRecords) /\ vs.manifest \in DOMAIN d.manifests
        BY <1>1, <1>2, <2>2, <4>1
      <4> HIDE DEF f
      <4>3. e.manifests[m].recs = f.recs \o r
        BY <1>1, <2>2, <4>2
      <4>4. f.recs \in Seq(EditRecords)
        BY <4>2 DEF Records
      <4> QED BY <4>3, <4>4
    <3>2. /\ Len(f.recs \o r) = Len(f.recs) + Len(r) /\ Len(f.recs) \in Nat /\ Len(r) \in Nat
          /\ \A k \in 1 .. Len(f.recs) + Len(r) :
               (f.recs \o r)[k] = IF k <= Len(f.recs) THEN f.recs[k] ELSE r[k - Len(f.recs)]
      BY <3>1, ConcatProperties, LenProperties
    <3>3. CASE i <= Len(f.recs)
      <4>1. e.manifests[m].recs[i] = f.recs[i] /\ i \in 1 .. Len(f.recs)
        BY <1>2, <3>1, <3>2, <3>3
      <4> QED BY <1>1, <1>2, <2>2, <4>1 DEF IsSound, Numbered
    <3>4. CASE ~(i <= Len(f.recs))
      <4>1. e.manifests[m].recs[i] = r[i - Len(f.recs)] /\ i - Len(f.recs) \in 1 .. Len(r)
        BY <1>2, <3>1, <3>2, <3>4
      <4> QED BY <1>2, <2>2, <4>1
    <3> QED BY <3>3, <3>4
  <2> QED BY <2>1, <2>2
<1>3. Numbered(e.manifests)
  BY <1>2 DEF Numbered
<1>4. IsSound(e)
  BY <1>1, <1>3 DEF IsSound, CurrentThere
<1>5. /\ IsSound(e) /\ e.tables = d.tables /\ e.logs = d.logs /\ e.current = d.current
      /\ DOMAIN e.manifests = DOMAIN d.manifests
  BY <1>1, <1>4
<1> QED BY <1>5 DEF e

\* What a commit may leave in the manifest, whether it succeeds or not.
Commits(d, e) == {ManifestWith(d, <<e>>, TRUE)} \union FailedWrites(d, e)

LEMMA CommitSound ==
  ASSUME NEW d, IsSound(d), vs.manifest \in Nat, NEW ed \in EditRecords, ed.next > vs.manifest,
         NEW e \in Commits(d, ed)
  PROVE  /\ IsSound(e) /\ e.tables = d.tables /\ e.logs = d.logs /\ e.current = d.current
         /\ DOMAIN e.manifests = DOMAIN d.manifests
<1>1. PICK r \in {<<>>, <<TornEdit>>, <<ed>>}, b \in BOOLEAN : e = ManifestWith(d, r, b)
  BY DEF Commits, FailedWrites
<1>2. TornEdit \in EditRecords
  BY DEF TornEdit, EditRecords
<1>3. r \in Seq(EditRecords) /\ \A i \in 1 .. Len(r) : r[i] # TornEdit => r[i].next > vs.manifest
  <2>1. CASE r = <<>>
    BY <2>1
  <2>2. CASE r = <<TornEdit>>
    BY <1>2, <2>2
  <2>3. CASE r = <<ed>>
    BY <2>3
  <2> QED BY <2>1, <2>2, <2>3
<1> QED BY <1>1, <1>3, CommittedDisk

LEMMA DeletedSound ==
  ASSUME NEW d, IsSound(d), NEW v, NEW c, NEW pend, NEW err, v.manifest = d.current
  PROVE  LET e == DeleteObsoleteFiles(d, v, c, pend, err)
         IN  /\ IsSound(e) /\ e.current = d.current
             /\ d.current \in DOMAIN d.manifests => d.current \in DOMAIN e.manifests
<1> DEFINE e == DeleteObsoleteFiles(d, v, c, pend, err)
<1>1. /\ IsDisk(e) /\ e.current = d.current
      /\ err => e = d
      /\ ~err => DOMAIN e.manifests = {n \in DOMAIN d.manifests : n >= v.manifest}
      /\ \A n \in DOMAIN e.manifests : n \in DOMAIN d.manifests /\ e.manifests[n] = d.manifests[n]
  BY DeletedDisk DEF IsSound
<1> HIDE DEF e
<1>2. d.current \in Nat
  BY DEF IsSound, IsDisk
<1>3. d.current \in DOMAIN d.manifests => d.current \in DOMAIN e.manifests
  BY <1>1, <1>2
<1>4. Numbered(e.manifests)
  BY <1>1 DEF IsSound, Numbered
<1>5. /\ IsSound(e) /\ e.current = d.current
      /\ d.current \in DOMAIN d.manifests => d.current \in DOMAIN e.manifests
  BY <1>1, <1>3, <1>4 DEF IsSound, CurrentThere
<1> QED BY <1>5 DEF e

\* A new table.
Tabled(d, n, b) == [d EXCEPT !.tables = Extend(@, n, b)]

LEMMA NewTableDisk ==
  ASSUME NEW d, IsSound(d), NEW n \in Nat, NEW b
  PROVE  LET e == Tabled(d, n, b)
         IN  /\ IsSound(e) /\ e.logs = d.logs /\ e.manifests = d.manifests /\ e.current = d.current
             /\ DOMAIN e.tables = DOMAIN d.tables \union {n} /\ e.tables[n] = b
             /\ \A m \in DOMAIN d.tables \ {n} : e.tables[m] = d.tables[m]
<1> DEFINE t == Extend(d.tables, n, b)
           e == Tabled(d, n, b)
<1>1. IsDisk(d) /\ Filenames(d.tables)
  BY DEF IsSound, IsDisk
<1>2. /\ Filenames(t) /\ DOMAIN t = DOMAIN d.tables \union {n}
      /\ t[n] = b /\ \A m \in DOMAIN d.tables \ {n} : t[m] = d.tables[m]
  BY <1>1 DEF Extend, IsFiles, Filenames
<1>0. e = [d EXCEPT !.tables = t]
  BY DEF Tabled
<1> HIDE DEF t
<1>3. e = [logs |-> d.logs, tables |-> t, manifests |-> d.manifests, current |-> d.current]
  BY <1>0, <1>1 DEF IsDisk
<1> HIDE DEF e
<1>4. IsDisk(e) /\ e.logs = d.logs /\ e.manifests = d.manifests /\ e.current = d.current /\ e.tables = t
  BY <1>1, <1>2, <1>3 DEF IsDisk
<1>5. /\ IsSound(e) /\ e.logs = d.logs /\ e.manifests = d.manifests /\ e.current = d.current
      /\ DOMAIN e.tables = DOMAIN d.tables \union {n} /\ e.tables[n] = b
      /\ \A m \in DOMAIN d.tables \ {n} : e.tables[m] = d.tables[m]
  BY <1>2, <1>4 DEF IsSound, CurrentThere, Numbered
<1> QED BY <1>5 DEF e, t

(***************************************************************************)
(* What a step of the background thread leaves.                            *)
(***************************************************************************)
\* The thread after the step.
Placed == /\ IsBg(bg') /\ scheduled' \in BOOLEAN /\ up' \in Opened
          /\ bg'.pc # "idle" => scheduled'
          /\ bg'.pc \in Committing => bg'.edit.next > vs.manifest

\* The versions after the step.
Versioned == /\ IsVersionSet(vs') /\ vs'.manifest = vs.manifest /\ vs'.last = vs.last /\ vs'.next >= vs.next
             /\ IsImm(imm') /\ bgerr' \in BOOLEAN /\ IsComp(comp') /\ pending' \subseteq Nat

\* The files after the step.
Filed == IsSound(disk') /\ disk'.current = disk.current /\ vs.manifest \in DOMAIN disk'.manifests

LEMMA EditType ==
  ASSUME NEW a \in Versions, NEW d \in Versions, NEW v, v.log \in Nat, v.next \in Nat, v.last \in Nat
  PROVE  Edit(a, d, v) \in EditRecords /\ Edit(a, d, v).next = v.next
  BY DEF Edit, EditRecords, Versions

LEMMA NoBgType ==
  IsBg(NoBg) /\ NoBg.pc = "idle" /\ IsComp(NoComp) /\ NoBg.edit \in EditRecords
<1>1. TornEdit \in EditRecords
  BY DEF TornEdit, EditRecords
<1> QED BY <1>1 DEF IsBg, IsComp, NoBg, NoComp, Versions

LEMMA EndCallPlaced ==
  ASSUME up \in Opened, EndCall
  PROVE  Placed
<1>1. bg' = NoBg /\ up' = SignalClose
  BY DEF EndCall
<1>2. scheduled' \in BOOLEAN
  BY DEF EndCall, MaybeScheduleCompaction
<1>3. up' \in Opened
  BY <1>1 DEF SignalClose, Opened
<1>4. IsBg(bg') /\ bg'.pc = "idle"
  BY <1>1, NoBgType
<1> QED BY <1>2, <1>3, <1>4 DEF Placed, Committing

LEMMA EndFlushPlaced ==
  ASSUME up \in Opened, scheduled = TRUE, EndFlush
  PROVE  Placed
<1>1. CASE ~comp.on
  BY <1>1, EndCallPlaced DEF EndFlush
<1>2. CASE comp.on
  <2>1. bg' = [NoBg EXCEPT !.pc = "compact"] /\ scheduled' = TRUE /\ up' = SignalClose
    BY <1>2 DEF EndFlush
  <2>2. IsBg(bg') /\ bg'.pc = "compact"
    BY <2>1, NoBgType DEF IsBg
  <2>3. up' \in Opened
    BY <2>1 DEF SignalClose, Opened
  <2> QED BY <2>1, <2>2, <2>3 DEF Placed, Committing
<1> QED BY <1>1, <1>2

\* The background thread runs in an open database, whose manifest is there.
LEMMA BackgroundOpen ==
  ASSUME BaseInv, BackgroundStep
  PROVE  /\ up \in Opened /\ scheduled = TRUE /\ IsSound(disk) /\ IsVersionSet(vs)
         /\ disk.current = vs.manifest /\ vs.manifest \in DOMAIN disk.manifests /\ vs.manifest < vs.next
<1>1. scheduled \/ bg.pc # "idle"
  <2>1. CallIdle \/ CallFlush \/ CallMove \/ CallCompact => scheduled
    BY DEF CallIdle, CallFlush, CallMove, CallCompact, Pick
  <2>2. ~(CallIdle \/ CallFlush \/ CallMove \/ CallCompact) => bg.pc # "idle"
    BY DEF BackgroundStep, FlushBuilt, FlushBuildFails, FlushLogged, FlushLogFails, Moved, MoveFails, CompactImm,
           OpenCompactionOutputFile, FinishCompactionOutputFile, CompactStops, Installed, InstallFails
  <2> QED BY <2>1, <2>2
<1>2. scheduled = TRUE
  BY <1>1 DEF BaseInv, BgInv, TypesInv, BgTypes
<1> QED BY <1>2 DEF BaseInv, BgInv, ManifestInv, TypesInv

\* Nothing changes on the disk.
LEMMA SameFiled ==
  ASSUME BaseInv, BackgroundStep, UNCHANGED disk
  PROVE  Filed
  BY BackgroundOpen DEF Filed

LEMMA SameVersioned ==
  ASSUME BaseInv, UNCHANGED <<imm, vs, comp>>, bgerr' \in BOOLEAN, pending' \subseteq Nat
  PROVE  Versioned
  BY DEF BaseInv, TypesInv, IsVersionSet, MemTypes, BgTypes, Versioned

LEMMA NumberVersioned ==
  ASSUME BaseInv, NewFileNumber, UNCHANGED <<imm, bgerr>>, IsComp(comp')
  PROVE  Versioned
<1>1. IsVersionSet(vs') /\ vs'.manifest = vs.manifest /\ vs'.last = vs.last /\ vs'.next >= vs.next
  BY DEF NewFileNumber, BaseInv, TypesInv, IsVersionSet
<1>2. pending' \subseteq Nat
  BY DEF NewFileNumber, BaseInv, TypesInv, IsVersionSet, BgTypes
<1> QED BY <1>1, <1>2 DEF BaseInv, TypesInv, MemTypes, BgTypes, Versioned

\* LogAndApply gives a version of typed edits.
LEMMA AppliedVersioned ==
  ASSUME BaseInv, vs' = LogAndApply(bg.edit), imm' \in {imm, NoMem}, bgerr' \in BOOLEAN, IsComp(comp'),
         pending' \subseteq Nat
  PROVE  Versioned
<1>1. bg.edit \in EditRecords /\ IsVersionSet(vs)
  BY DEF BaseInv, TypesInv, BgTypes, IsBg
<1> DEFINE t == (vs.tables \ bg.edit.del) \union bg.edit.add
<1>2. vs' = [vs EXCEPT !.tables = t, !.log = bg.edit.log]
  BY DEF LogAndApply
<1>5. t \in Versions /\ bg.edit.log \in Nat
  BY <1>1 DEF EditRecords, IsVersionSet, Versions
<1> HIDE DEF t
<1>3. IsVersionSet(vs') /\ vs'.manifest = vs.manifest /\ vs'.last = vs.last /\ vs'.next >= vs.next
  <2>1. vs' = [next |-> vs.next, last |-> vs.last, log |-> bg.edit.log, manifest |-> vs.manifest, tables |-> t]
    BY <1>1, <1>2 DEF IsVersionSet
  <2> QED BY <1>1, <1>5, <2>1 DEF IsVersionSet
<1>4. IsImm(imm')
  BY DEF BaseInv, TypesInv, MemTypes, IsImm, NoMem
<1> QED BY <1>3, <1>4 DEF Versioned

\* The first steps of BackgroundCall.
LEMMA CallFrame ==
  ASSUME BaseInv, BackgroundStep, CallIdle \/ CallFlush \/ CallMove \/ CallCompact
  PROVE  Placed /\ Versioned /\ Filed
<1>1. /\ up \in Opened /\ scheduled = TRUE /\ IsSound(disk) /\ IsVersionSet(vs)
      /\ disk.current = vs.manifest /\ vs.manifest \in DOMAIN disk.manifests /\ vs.manifest < vs.next
  BY BackgroundOpen
<1>2. UNCHANGED disk
  BY DEF CallIdle, CallFlush, CallMove, CallCompact
<1>3. Filed
  BY <1>2, SameFiled
<1>4. bgerr \in BOOLEAN /\ pending \subseteq Nat /\ IsComp(comp)
  BY DEF BaseInv, TypesInv, BgTypes
<1>5. CASE CallIdle
  <2>1. EndCall /\ UNCHANGED <<imm, vs, comp>> /\ bgerr' \in BOOLEAN /\ pending' \subseteq Nat
    BY <1>4, <1>5 DEF CallIdle
  <2> QED BY <1>1, <1>3, <2>1, EndCallPlaced, SameVersioned
<1>6. CASE CallFlush
  <2>1. /\ NewFileNumber /\ UNCHANGED <<imm, bgerr>> /\ UNCHANGED <<up, scheduled>> /\ comp' = comp
        /\ bg' = [NoBg EXCEPT !.pc = "flush", !.num = vs.next]
    BY <1>6 DEF CallFlush, StartFlush
  <2>2. IsBg(bg') /\ bg'.pc = "flush"
    BY <1>1, <2>1, NoBgType DEF IsBg, IsVersionSet
  <2>3. Placed
    BY <1>1, <2>1, <2>2 DEF Placed, Committing
  <2> QED BY <1>3, <1>4, <2>1, <2>3, NumberVersioned
<1>7. CASE CallMove
  <2>1. PICK f \in vs.tables : bg' = [NoBg EXCEPT !.pc = "move", !.edit = Edit({<<1, f[2]>>}, {f}, vs)]
    BY <1>7 DEF CallMove
  <2>2. UNCHANGED <<imm, vs, comp>> /\ UNCHANGED <<up, scheduled>> /\ UNCHANGED <<bgerr, pending>>
    BY <1>7 DEF CallMove
  <2>3. {<<1, f[2]>>} \in Versions /\ {f} \in Versions
    BY <1>1 DEF IsVersionSet, Versions, Tables
  <2>4. Edit({<<1, f[2]>>}, {f}, vs) \in EditRecords /\ Edit({<<1, f[2]>>}, {f}, vs).next = vs.next
    BY <1>1, <2>3, EditType DEF IsVersionSet
  <2>5. IsBg(bg') /\ bg'.pc = "move" /\ bg'.edit.next = vs.next
    BY <2>1, <2>4, NoBgType DEF IsBg, Committing
  <2>6. Placed
    BY <1>1, <2>2, <2>5 DEF Placed
  <2> QED BY <1>3, <1>4, <2>2, <2>6, SameVersioned
<1>8. CASE CallCompact
  <2>1. PICK inputs \in SUBSET vs.tables : comp' = [NoComp EXCEPT !.on = TRUE, !.inputs = inputs, !.base = vs.tables]
    BY <1>8 DEF CallCompact
  <2>2. /\ UNCHANGED <<imm, vs, bgerr>> /\ UNCHANGED <<up, scheduled>> /\ UNCHANGED pending
        /\ bg' = [NoBg EXCEPT !.pc = "compact"]
    BY <1>8 DEF CallCompact
  <2>3. IsComp(comp')
    BY <1>1, <2>1, NoBgType DEF IsComp, IsVersionSet, Versions
  <2>4. IsBg(bg') /\ bg'.pc = "compact"
    BY <2>2, NoBgType DEF IsBg
  <2>5. Placed
    BY <1>1, <2>2, <2>4 DEF Placed, Committing
  <2>6. Versioned
    BY <1>1, <1>4, <2>2, <2>3 DEF Versioned, BaseInv, TypesInv, MemTypes, IsVersionSet
  <2> QED BY <1>3, <2>5, <2>6
<1> QED BY <1>5, <1>6, <1>7, <1>8

LEMMA CommitBase ==
  ASSUME BaseInv, BackgroundStep, bg.pc \in Committing, NEW d \in Commits(disk, bg.edit)
  PROVE  /\ IsSound(d) /\ d.current = disk.current /\ vs.manifest \in DOMAIN d.manifests
         /\ d.tables = disk.tables /\ d.logs = disk.logs
<1>1. bg.edit \in EditRecords /\ bg.edit.next > vs.manifest /\ vs.manifest \in Nat
  BY DEF IsBg, BaseInv, ManifestInv, TypesInv, BgTypes, IsVersionSet
<1> QED BY <1>1, BackgroundOpen, CommitSound

\* CompactMemTable.
LEMMA FlushFrame ==
  ASSUME BaseInv, BackgroundStep, FlushBuilt \/ FlushBuildFails \/ FlushLogged \/ FlushLogFails
  PROVE  Placed /\ Versioned /\ Filed
<1>1. /\ up \in Opened /\ scheduled = TRUE /\ IsSound(disk) /\ IsVersionSet(vs)
      /\ disk.current = vs.manifest /\ vs.manifest \in DOMAIN disk.manifests /\ vs.manifest < vs.next
  BY BackgroundOpen
<1>2. bgerr \in BOOLEAN /\ pending \subseteq Nat /\ IsComp(comp) /\ IsBg(bg) /\ IsImm(imm) /\ logfile \in Nat
  BY DEF BaseInv, TypesInv, BgTypes, MemTypes
<1>4. CASE FlushBuilt
  <2> DEFINE batches == UNION imm
             Added(level) == IF batches = {} THEN {} ELSE {<<level, bg.num>>}
             v == [vs EXCEPT !.log = logfile]
  <2>1. /\ disk' = IF batches = {} THEN disk ELSE [disk EXCEPT !.tables = Extend(@, bg.num, batches)]
        /\ UNCHANGED <<imm, vs>> /\ pending' = pending \ {bg.num} /\ comp' = comp
    BY <1>4 DEF FlushBuilt
  <2>2. \/ bgerr' = TRUE /\ EndFlush
        \/ /\ UNCHANGED <<bgerr, scheduled, up>>
           /\ \E level \in {0, 1} : bg' = [bg EXCEPT !.pc = "flushlog", !.edit = Edit(Added(level), {}, v)]
    BY <1>4 DEF FlushBuilt
  <2> HIDE DEF batches
  <2>3. Filed
    <3>1. CASE batches = {}
      BY <1>1, <2>1, <3>1 DEF Filed
    <3>2. CASE batches # {}
      <4>1. disk' = Tabled(disk, bg.num, batches)
        BY <2>1, <3>2 DEF Tabled
      <4>2. bg.num \in Nat
        BY <1>2 DEF IsBg
      <4>3. IsSound(disk') /\ disk'.manifests = disk.manifests /\ disk'.current = disk.current
        BY <1>1, <4>1, <4>2, NewTableDisk
      <4> QED BY <1>1, <4>3 DEF Filed
    <3> QED BY <3>1, <3>2
  <2>4. Versioned
    <3>1. bgerr' \in BOOLEAN /\ pending' \subseteq Nat
      BY <1>2, <2>1, <2>2
    <3> QED BY <2>1, <3>1, SameVersioned
  <2>5. CASE EndFlush
    BY <1>1, <2>3, <2>4, <2>5, EndFlushPlaced
  <2>6. ASSUME NEW level \in {0, 1}, UNCHANGED <<bgerr, scheduled, up>>,
               bg' = [bg EXCEPT !.pc = "flushlog", !.edit = Edit(Added(level), {}, v)]
        PROVE  Placed
    <3>1. Added(level) \in Versions /\ {} \in Versions
      BY <1>2 DEF IsBg, Versions, Tables
    <3>2. v.log \in Nat /\ v.next = vs.next /\ v.next \in Nat /\ v.last \in Nat
      BY <1>1, <1>2 DEF IsVersionSet
    <3> HIDE DEF Added, v
    <3>3. Edit(Added(level), {}, v) \in EditRecords /\ Edit(Added(level), {}, v).next = vs.next
      BY <3>1, <3>2, EditType
    <3>4. IsBg(bg') /\ bg'.pc = "flushlog" /\ bg'.edit.next = vs.next
      BY <1>2, <2>6, <3>3 DEF IsBg, Committing
    <3> QED BY <1>1, <2>6, <3>4 DEF Placed
  <2> QED BY <2>2, <2>3, <2>4, <2>5, <2>6
<1>5. CASE FlushBuildFails
  <2>1. EndFlush /\ UNCHANGED <<imm, vs, comp>> /\ bgerr' = TRUE /\ pending' = pending \ {bg.num} /\ UNCHANGED disk
    BY <1>5 DEF FlushBuildFails
  <2>2. bgerr' \in BOOLEAN /\ pending' \subseteq Nat
    BY <1>2, <2>1
  <2> QED BY <1>1, <2>1, <2>2, EndFlushPlaced, SameVersioned, SameFiled
<1>7. CASE FlushLogged
  <2> DEFINE d == ManifestWith(disk, <<bg.edit>>, TRUE)
  <2>1. bg.pc \in Committing /\ d \in Commits(disk, bg.edit)
    BY <1>7 DEF FlushLogged, Committing, Commits
  <2>2. IsSound(d) /\ d.current = disk.current /\ vs.manifest \in DOMAIN d.manifests
    BY <1>1, <2>1, CommitBase
  <2>3. /\ vs' = LogAndApply(bg.edit) /\ imm' = NoMem /\ UNCHANGED <<bgerr, comp, pending>> /\ EndFlush
        /\ disk' = DeleteObsoleteFiles(d, vs', comp, pending, bgerr)
    BY <1>7 DEF FlushLogged
  <2> HIDE DEF d
  <2>4. Versioned
    BY <1>2, <2>3, AppliedVersioned
  <2>5. vs'.manifest = d.current
    BY <1>1, <2>2, <2>4 DEF Versioned
  <2>6. Filed
    <3>1. /\ IsSound(disk') /\ disk'.current = d.current
          /\ d.current \in DOMAIN d.manifests => d.current \in DOMAIN disk'.manifests
      BY <2>2, <2>3, <2>5, DeletedSound
    <3> QED BY <1>1, <2>2, <3>1 DEF Filed
  <2> QED BY <1>1, <2>3, <2>4, <2>6, EndFlushPlaced
<1>8. CASE FlushLogFails
  <2>1. bg.pc \in Committing /\ disk' \in Commits(disk, bg.edit)
    BY <1>8 DEF FlushLogFails, Committing, Commits
  <2>2. EndFlush /\ UNCHANGED <<imm, vs, comp>> /\ bgerr' = TRUE /\ pending' = pending
    BY <1>8 DEF FlushLogFails
  <2>3. Filed
    BY <1>1, <2>1, CommitBase DEF Filed
  <2> QED BY <1>1, <1>2, <2>2, <2>3, EndFlushPlaced, SameVersioned
<1> QED BY <1>4, <1>5, <1>7, <1>8

\* A move, and a compaction.
LEMMA MoveFrame ==
  ASSUME BaseInv, BackgroundStep, Moved \/ MoveFails
  PROVE  Placed /\ Versioned /\ Filed
<1>1. up \in Opened /\ bgerr \in BOOLEAN /\ pending \subseteq Nat /\ IsComp(comp)
  BY BackgroundOpen DEF BaseInv, TypesInv, BgTypes
<1>2. bg.pc \in Committing /\ disk' \in Commits(disk, bg.edit)
  BY DEF Moved, MoveFails, Committing, Commits
<1>3. EndCall /\ UNCHANGED <<imm, comp, pending>>
  BY DEF Moved, MoveFails
<1>4. Filed
  BY <1>2, CommitBase DEF Filed
<1>5. CASE Moved
  <2>1. vs' = LogAndApply(bg.edit) /\ UNCHANGED bgerr
    BY <1>5 DEF Moved
  <2> QED BY <1>1, <1>3, <1>4, <2>1, EndCallPlaced, AppliedVersioned
<1>6. CASE MoveFails
  <2>1. UNCHANGED vs /\ bgerr' = TRUE
    BY <1>6 DEF MoveFails
  <2>2. UNCHANGED <<imm, vs, comp>> /\ bgerr' \in BOOLEAN /\ pending' \subseteq Nat
    BY <1>1, <1>3, <2>1
  <2> QED BY <1>1, <1>3, <1>4, <2>2, EndCallPlaced, SameVersioned
<1> QED BY <1>5, <1>6

LEMMA EndCompactFrame ==
  ASSUME BaseInv, BackgroundStep, NEW d, IsSound(d), d.current = disk.current, vs.manifest \in DOMAIN d.manifests,
         EndCompact(d), UNCHANGED imm, bgerr' \in BOOLEAN, UNCHANGED vs \/ vs' = LogAndApply(bg.edit)
  PROVE  Placed /\ Versioned /\ Filed
<1>1. /\ up \in Opened /\ pending \subseteq Nat /\ IsComp(comp) /\ disk.current = vs.manifest
  BY BackgroundOpen DEF BaseInv, TypesInv, BgTypes
<1>2. /\ comp' = NoComp /\ pending' = pending \ comp.out /\ EndCall
      /\ disk' = DeleteObsoleteFiles(d, vs', NoComp, pending', bgerr')
  BY DEF EndCompact
<1>3. IsComp(comp') /\ pending' \subseteq Nat
  BY <1>1, <1>2, NoBgType
<1>4. Versioned
  <2>1. CASE UNCHANGED vs
    BY <1>3, <2>1 DEF BaseInv, TypesInv, IsVersionSet, MemTypes, BgTypes, Versioned
  <2>2. CASE vs' = LogAndApply(bg.edit)
    BY <1>3, <2>2, AppliedVersioned
  <2> QED BY <2>1, <2>2
<1>5. vs'.manifest = d.current
  BY <1>1, <1>4 DEF Versioned
<1>6. /\ IsSound(disk') /\ disk'.current = d.current
      /\ d.current \in DOMAIN d.manifests => d.current \in DOMAIN disk'.manifests
  BY <1>2, <1>5, DeletedSound
<1>7. Filed
  BY <1>1, <1>6 DEF Filed
<1> QED BY <1>1, <1>2, <1>4, <1>7, EndCallPlaced

LEMMA CompactFrame ==
  ASSUME BaseInv, BackgroundStep, CompactImm \/ OpenCompactionOutputFile \/ FinishCompactionOutputFile
  PROVE  Placed /\ Versioned /\ Filed
<1>1. /\ up \in Opened /\ scheduled = TRUE /\ IsSound(disk) /\ IsVersionSet(vs)
      /\ disk.current = vs.manifest /\ vs.manifest \in DOMAIN disk.manifests /\ vs.manifest < vs.next
  BY BackgroundOpen
<1>2. bgerr \in BOOLEAN /\ pending \subseteq Nat /\ IsComp(comp) /\ IsBg(bg)
  BY DEF BaseInv, TypesInv, BgTypes
<1>3. UNCHANGED <<up, scheduled, imm, bgerr>>
  BY DEF CompactImm, OpenCompactionOutputFile, FinishCompactionOutputFile
<1>4. CASE CompactImm
  <2>1. /\ NewFileNumber /\ comp' = comp /\ UNCHANGED disk
        /\ bg' = [NoBg EXCEPT !.pc = "flush", !.num = vs.next]
    BY <1>4 DEF CompactImm, StartFlush
  <2>2. IsBg(bg') /\ bg'.pc = "flush"
    BY <1>1, <2>1, NoBgType DEF IsBg, IsVersionSet
  <2>3. Placed
    BY <1>1, <1>3, <2>2 DEF Placed, Committing
  <2> QED BY <1>2, <1>3, <2>1, <2>3, NumberVersioned, SameFiled
<1>5. CASE OpenCompactionOutputFile
  <2>1. NewFileNumber /\ comp' = [comp EXCEPT !.out = {vs.next}] /\ UNCHANGED <<bg, disk>> /\ bg.pc = "compact"
    BY <1>5 DEF OpenCompactionOutputFile
  <2>2. IsComp(comp')
    BY <1>1, <1>2, <2>1 DEF IsComp, IsVersionSet
  <2>3. Placed
    BY <1>1, <1>2, <1>3, <2>1 DEF Placed, Committing
  <2> QED BY <1>3, <2>1, <2>2, <2>3, NumberVersioned, SameFiled
<1>6. CASE FinishCompactionOutputFile
  <2>1. PICK n \in comp.out :
          /\ disk' = [disk EXCEPT !.tables = Extend(@, n, UNION {disk.tables[m] : m \in Numbers(comp.inputs)})]
          /\ bg' = [NoBg EXCEPT !.pc = "install", !.edit = Edit({<<1, n>>}, comp.inputs, vs)]
    BY <1>6 DEF FinishCompactionOutputFile
  <2>2. UNCHANGED <<vs, comp, pending>>
    BY <1>6 DEF FinishCompactionOutputFile
  <2>3. n \in Nat /\ {<<1, n>>} \in Versions /\ comp.inputs \in Versions
    BY <1>2 DEF IsComp, Versions, Tables
  <2>4. Edit({<<1, n>>}, comp.inputs, vs) \in EditRecords /\ Edit({<<1, n>>}, comp.inputs, vs).next = vs.next
    BY <1>1, <2>3, EditType DEF IsVersionSet
  <2>5. IsBg(bg') /\ bg'.pc = "install" /\ bg'.edit.next = vs.next
    BY <2>1, <2>4, NoBgType DEF IsBg, Committing
  <2>6. Placed
    BY <1>1, <1>3, <2>5 DEF Placed
  <2> DEFINE merged == UNION {disk.tables[m] : m \in Numbers(comp.inputs)}
  <2>8. disk' = Tabled(disk, n, merged)
    BY <2>1 DEF Tabled
  <2> HIDE DEF merged
  <2>9. IsSound(disk') /\ disk'.manifests = disk.manifests /\ disk'.current = disk.current
    BY <1>1, <2>3, <2>8, NewTableDisk
  <2> QED BY <1>1, <1>2, <1>3, <2>2, <2>6, <2>9, SameVersioned DEF Filed
<1> QED BY <1>4, <1>5, <1>6

LEMMA InstallFrame ==
  ASSUME BaseInv, BackgroundStep, CompactStops \/ Installed \/ InstallFails
  PROVE  Placed /\ Versioned /\ Filed
<1>1. /\ IsSound(disk) /\ vs.manifest \in DOMAIN disk.manifests /\ bgerr \in BOOLEAN
  BY BackgroundOpen DEF BaseInv, TypesInv, BgTypes
<1>2. CASE CompactStops
  <2>1. EndCompact(disk) /\ UNCHANGED <<imm, vs>> /\ bgerr' = TRUE
    BY <1>2 DEF CompactStops
  <2> QED BY <1>1, <2>1, EndCompactFrame
<1>3. CASE Installed
  <2>1. /\ EndCompact(ManifestWith(disk, <<bg.edit>>, TRUE)) /\ UNCHANGED <<imm, bgerr>>
        /\ vs' = LogAndApply(bg.edit)
    BY <1>3 DEF Installed
  <2>2. bg.pc \in Committing /\ ManifestWith(disk, <<bg.edit>>, TRUE) \in Commits(disk, bg.edit)
    BY <1>3 DEF Installed, Committing, Commits
  <2> QED BY <1>1, <2>1, <2>2, CommitBase, EndCompactFrame
<1>4. CASE InstallFails
  <2>1. PICK d \in FailedWrites(disk, bg.edit) : EndCompact(d)
    BY <1>4 DEF InstallFails
  <2>2. UNCHANGED <<imm, vs>> /\ bgerr' = TRUE
    BY <1>4 DEF InstallFails
  <2>3. bg.pc \in Committing /\ d \in Commits(disk, bg.edit)
    BY <1>4 DEF InstallFails, Committing, Commits
  <2> QED BY <1>1, <2>1, <2>2, <2>3, CommitBase, EndCompactFrame
<1> QED BY <1>2, <1>3, <1>4

LEMMA BackgroundBase ==
  ASSUME BaseInv, BackgroundStep
  PROVE  TypesInv' /\ BgInv' /\ ManifestInv'
<1>1. Placed /\ Versioned /\ Filed
  BY CallFrame, FlushFrame, MoveFrame, CompactFrame, InstallFrame DEF BackgroundStep
<1>2. UNCHANGED <<mem, logfile, rec, pinned>> /\ UNCHANGED queue
  <2>1. UNCHANGED bgRest
    BY DEF BackgroundStep, CallIdle, CallFlush, CallMove, CallCompact, FlushBuilt, FlushBuildFails, FlushLogged,
           FlushLogFails, Moved, MoveFails, CompactImm, OpenCompactionOutputFile, FinishCompactionOutputFile,
           CompactStops, Installed, InstallFails
  <2> QED BY <2>1 DEF bgRest
<1>3. TypesInv'
  BY <1>1, <1>2 DEF BaseInv, TypesInv, Placed, Versioned, Filed, MemTypes, BgTypes, OpenTypes, IsSound, Opened
<1>4. BgInv'
  BY <1>1 DEF Placed, BgInv
<1>5. up' \in Opened /\ up' \notin Opening
  BY <1>1 DEF Placed, Opened, Opening
<1>6. vs.manifest \in Nat /\ vs.manifest < vs.next /\ vs.next \in Nat /\ disk.current = vs.manifest
  BY BackgroundOpen DEF IsVersionSet
<1>7. ManifestInv'
  BY <1>1, <1>5, <1>6 DEF Placed, Versioned, Filed, ManifestInv, IsVersionSet, Opening, Opened, Replaying
<1> QED BY <1>3, <1>4, <1>7

-----------------------------------------------------------------------------
(***************************************************************************)
(* Crashes.                                                                *)
(***************************************************************************)
LogWrites == {disk} \union (IF \E w \in Writer : pc[w] = "log" THEN {Logged(TornRecord), Logged(Group)} ELSE {})

Pointed(d, n) == [d EXCEPT !.current = n]

\* The file operation under way: a log record, a manifest record or CURRENT.
LEMMA InterruptedCases ==
  ASSUME BaseInv, NEW e \in Interrupted
  PROVE  \E d \in LogWrites : \/ e = d
                              \/ bg.pc \in Committing /\ e \in FailedWrites(d, bg.edit)
                              \/ up = "newcurrent" /\ e = Pointed(d, 1)
                              \/ up = "current" /\ e = Pointed(d, vs.manifest)
<1>1. /\ bg.pc \in Committing => up \notin {"newcurrent", "current"}
      /\ up = "newcurrent" => up # "current"
  BY DEF BaseInv, BgInv, Committing, Opened
<1> DEFINE Arm(d) == CASE bg.pc \in {"flushlog", "move", "install"} -> {d} \union FailedWrites(d, bg.edit)
                       [] up = "newcurrent" -> {d, [d EXCEPT !.current = 1]}
                       [] up = "current" -> {d, [d EXCEPT !.current = vs.manifest]}
                       [] OTHER -> {d}
           logs == IF \E w \in Writer : pc[w] = "log"
                   THEN {disk, Logged(TornRecord), Logged(Group)} ELSE {disk}
<1>2. e \in UNION {Arm(d) : d \in logs}
  BY DEF Interrupted
<1>3. logs = LogWrites
  BY DEF LogWrites
<1> HIDE DEF logs, Arm
<1>4. PICK d \in LogWrites : e \in Arm(d)
  BY <1>2, <1>3
<1>5. CASE bg.pc \in Committing
  <2>1. Arm(d) = {d} \union FailedWrites(d, bg.edit)
    BY <1>1, <1>5 DEF Arm, Committing
  <2> QED BY <1>4, <1>5, <2>1
<1>6. CASE up = "newcurrent"
  <2>1. Arm(d) = {d, Pointed(d, 1)}
    BY <1>1, <1>6 DEF Arm, Committing, Pointed
  <2> QED BY <1>4, <1>6, <2>1
<1>7. CASE up = "current"
  <2>1. Arm(d) = {d, Pointed(d, vs.manifest)}
    BY <1>1, <1>7 DEF Arm, Committing, Pointed
  <2> QED BY <1>4, <1>7, <2>1
<1>8. CASE bg.pc \notin Committing /\ up # "newcurrent" /\ up # "current"
  <2>1. Arm(d) = {d}
    BY <1>8 DEF Arm, Committing
  <2> QED BY <1>4, <2>1
<1> QED BY <1>5, <1>6, <1>7, <1>8

LEMMA LogWritesSound ==
  ASSUME BaseInv, NEW d \in LogWrites
  PROVE  IsSound(d) /\ SameTables(d) /\ DOMAIN d.logs = DOMAIN disk.logs
<1>1. IsSound(disk) /\ IsDisk(disk) /\ Group \in SUBSET Batches /\ TornRecord \in SUBSET Batches
  BY GroupBatches DEF BaseInv, ManifestInv, TypesInv, TornRecord
<1>2. CASE d = disk
  BY <1>1, <1>2 DEF SameTables
<1>3. ASSUME NEW r \in SUBSET Batches, d = Logged(r)
      PROVE  IsSound(d) /\ SameTables(d) /\ DOMAIN d.logs = DOMAIN disk.logs
  <2>1. IsDisk(d) /\ SameTables(d) /\ DOMAIN d.logs = DOMAIN disk.logs
    BY <1>1, <1>3, LoggedDisk DEF SameTables
  <2> QED BY <1>1, <2>1 DEF IsSound, SameTables, CurrentThere
<1> QED BY <1>1, <1>2, <1>3 DEF LogWrites

LEMMA PointedSound ==
  ASSUME NEW d, IsSound(d), NEW n \in DOMAIN d.manifests
  PROVE  /\ IsSound(Pointed(d, n)) /\ Pointed(d, n).current = n
         /\ Pointed(d, n).tables = d.tables /\ Pointed(d, n).logs = d.logs /\ Pointed(d, n).manifests = d.manifests
<1>1. IsDisk(d) /\ n \in Nat
  BY DEF IsSound, IsDisk, IsFiles, Filenames
<1>2. Pointed(d, n) = [logs |-> d.logs, tables |-> d.tables, manifests |-> d.manifests, current |-> n]
  BY <1>1 DEF Pointed, IsDisk
<1>3. IsDisk(Pointed(d, n))
  BY <1>1, <1>2 DEF IsDisk
<1> QED BY <1>2, <1>3 DEF IsSound, CurrentThere

LEMMA InterruptedSound ==
  ASSUME BaseInv, NEW e \in Interrupted
  PROVE  /\ IsSound(e) /\ e.tables = disk.tables /\ DOMAIN e.logs = DOMAIN disk.logs
         /\ DOMAIN e.manifests = DOMAIN disk.manifests
<1>1. PICK d \in LogWrites : \/ e = d
                             \/ bg.pc \in Committing /\ e \in FailedWrites(d, bg.edit)
                             \/ up = "newcurrent" /\ e = Pointed(d, 1)
                             \/ up = "current" /\ e = Pointed(d, vs.manifest)
  BY InterruptedCases
<1>2. IsSound(d) /\ d.tables = disk.tables /\ d.manifests = disk.manifests /\ DOMAIN d.logs = DOMAIN disk.logs
  BY LogWritesSound DEF SameTables
<1>3. CASE e = d
  BY <1>2, <1>3
<1>4. CASE bg.pc \in Committing /\ e \in FailedWrites(d, bg.edit)
  <2>1. bg.edit \in EditRecords /\ bg.edit.next > vs.manifest /\ vs.manifest \in Nat /\ e \in Commits(d, bg.edit)
    BY <1>4 DEF BaseInv, ManifestInv, TypesInv, BgTypes, IsBg, IsVersionSet, Commits
  <2> QED BY <1>2, <2>1, CommitSound
<1>5. CASE up = "newcurrent" /\ e = Pointed(d, 1)
  <2>1. 1 \in DOMAIN d.manifests
    BY <1>2, <1>5 DEF BaseInv, ManifestInv
  <2> QED BY <1>2, <1>5, <2>1, PointedSound
<1>6. CASE up = "current" /\ e = Pointed(d, vs.manifest)
  <2>1. vs.manifest \in DOMAIN d.manifests
    BY <1>2, <1>6 DEF BaseInv, ManifestInv
  <2> QED BY <1>2, <1>6, <2>1, PointedSound
<1> QED BY <1>1, <1>3, <1>4, <1>5, <1>6

LEMMA CutSound ==
  ASSUME NEW d, IsSound(d), NEW e \in PowerLosses(d)
  PROVE  IsSound(e)
<1>1. /\ IsDisk(e) /\ e.current = d.current /\ IsCut(e.manifests, d.manifests) /\ IsDisk(d)
  BY PowerLossDisk DEF IsSound
<1>2. ASSUME NEW m \in DOMAIN e.manifests, NEW i \in 1 .. Len(e.manifests[m].recs),
             e.manifests[m].recs[i] # TornEdit
      PROVE  e.manifests[m].recs[i].next > m
  <2> DEFINE f == d.manifests[m]
  <2>1. m \in DOMAIN d.manifests /\ f \in Records(EditRecords)
    BY <1>1 DEF IsCut, IsDisk, IsFiles
  <2>2. PICK k \in f.synced .. Len(f.recs) : e.manifests[m] = [recs |-> SubSeq(f.recs, 1, k), synced |-> f.synced]
    BY <1>1, <2>1 DEF IsCut
  <2>3. f.recs \in Seq(EditRecords) /\ f.synced \in Nat /\ Len(f.recs) \in Nat
    BY <2>1, LenProperties DEF Records
  <2> HIDE DEF f
  <2>4. Len(SubSeq(f.recs, 1, k)) = k /\ \A j \in 1 .. k : SubSeq(f.recs, 1, k)[j] = f.recs[j]
    BY <2>1, CutRecords
  <2>5. i \in 1 .. k /\ i \in 1 .. Len(f.recs) /\ e.manifests[m].recs[i] = f.recs[i]
    BY <1>2, <2>2, <2>3, <2>4
  <2> QED BY <1>2, <2>1, <2>5 DEF IsSound, Numbered, f
<1>3. Numbered(e.manifests)
  BY <1>2 DEF Numbered
<1> QED BY <1>1, <1>3 DEF IsSound, CurrentThere, IsCut

LEMMA SurvivorSound ==
  ASSUME BaseInv, NEW kind, NEW e \in Survivors(kind)
  PROVE  IsSound(e)
  BY InterruptedSound, CutSound DEF Survivors

LEMMA ResetBase ==
  ASSUME BaseInv, Reset, up' = "closed", IsSound(disk')
  PROVE  TypesInv' /\ BgInv' /\ ManifestInv'
<1>1. /\ mem' = {} /\ imm' = NoMem /\ logfile' = 0 /\ bgerr' = FALSE /\ scheduled' = FALSE
      /\ vs' = [next |-> 0, last |-> 0, log |-> 0, manifest |-> 0, tables |-> {}]
      /\ bg' = NoBg /\ comp' = NoComp /\ pending' = {}
      /\ rec' = [logs |-> {}, add |-> {}] /\ pinned' = [r \in Reader |-> NoVersion] /\ queue' = <<>>
  BY DEF Reset
<1>2. MemTypes' /\ IsVersionSet(vs')
  BY <1>1 DEF MemTypes, IsVersionSet, IsImm, NoMem, Versions
<1>3. BgTypes'
  BY <1>1, NoBgType DEF BgTypes
<1>4. OpenTypes'
  BY <1>1 DEF OpenTypes, Versions, NoVersion
<1>5. TypesInv'
  BY <1>2, <1>3, <1>4 DEF TypesInv, IsSound
<1>6. BgInv' /\ ManifestInv'
  BY <1>1, NoBgType DEF BgInv, ManifestInv, Opened, Replaying, Committing
<1> QED BY <1>5, <1>6

LEMMA CrashBase ==
  ASSUME BaseInv, NEW kind \in Crashes, Crash(kind)
  PROVE  TypesInv' /\ BgInv' /\ ManifestInv'
  BY ResetBase, SurvivorSound DEF Crash

-----------------------------------------------------------------------------
(***************************************************************************)
(* Recovery.                                                               *)
(***************************************************************************)
\* A function on finitely many arguments takes its largest value.
LEMMA LargestValue ==
  ASSUME NEW S, IsFiniteSet(S), S # {}, NEW g, \A x \in S : g[x] \in Nat
  PROVE  \E x \in S : \A y \in S : g[y] <= g[x]
<1> DEFINE Has(X) == \E x \in X : \A y \in X : g[y] <= g[x]
           Without == {n \in Nat : \E X \in SUBSET S : X # {} /\ ~Has(X) /\ Cardinality(X) = n}
<1> SUFFICES ASSUME ~Has(S) PROVE FALSE
  OBVIOUS
<1>1. \A X \in SUBSET S : IsFiniteSet(X) /\ Cardinality(X) \in Nat
  BY FS_Subset, FS_CardinalityType
<1>2. Cardinality(S) \in Without
  BY <1>1
<1>3. PICK n \in Without : \A m \in Without : n <= m
  <2>1. Without \in SUBSET Nat /\ Without # {}
    BY <1>2
  <2> HIDE DEF Without
  <2> QED BY <2>1, LeastNatural
<1>4. PICK X \in SUBSET S : X # {} /\ ~Has(X) /\ Cardinality(X) = n
  BY <1>3
<1>5. PICK x \in X : TRUE
  BY <1>4
<1>6. Cardinality(X \ {x}) = n - 1 /\ X \ {x} \in SUBSET S
  BY <1>1, <1>4, FS_RemoveElement
<1>7. X \ {x} = {} \/ Has(X \ {x})
  <2>1. n \in Nat /\ n - 1 \in Nat /\ ~(n <= n - 1)
    BY <1>1, <1>6
  <2>2. n - 1 \notin Without
    BY <1>3, <2>1
  <2> HIDE DEF Has
  <2> QED BY <1>6, <2>1, <2>2
<1>8. CASE X \ {x} = {}
  <2>1. X = {x} /\ g[x] \in Nat
    BY <1>8
  <2> QED BY <1>4, <2>1
<1>9. CASE Has(X \ {x})
  <2>1. PICK z \in X \ {x} : \A y \in X \ {x} : g[y] <= g[z]
    BY <1>9
  <2>2. g[x] \in Nat /\ \A y \in X : g[y] \in Nat
    OBVIOUS
  <2>3. CASE g[x] <= g[z]
    BY <1>4, <2>1, <2>2, <2>3
  <2>4. CASE ~(g[x] <= g[z])
    <3>1. \A y \in X : g[y] <= g[x]
      BY <2>1, <2>2, <2>4
    <3> QED BY <1>4, <3>1
  <2> QED BY <2>3, <2>4
<1> QED BY <1>7, <1>8, <1>9

LEMMA HighestIs ==
  ASSUME NEW S \in SUBSET Nat, NEW h \in S, \A m \in S : m <= h
  PROVE  Highest(S) = h
<1>1. Highest(S) \in S /\ \A m \in S : m <= Highest(S)
  BY DEF Highest
<1>2. Highest(S) \in Nat /\ h \in Nat /\ Highest(S) <= h /\ h <= Highest(S)
  BY <1>1
<1> QED BY <1>2

\* last_sequence_ is the largest number met so far.
LEMMA MaxSequenceIs ==
  ASSUME seq \in [Writer -> Nat], NEW last \in Nat, NEW found \in SUBSET Batches
  PROVE  /\ MaxSequence(last, found) \in Nat /\ last <= MaxSequence(last, found)
         /\ \A w \in found : seq[w] <= MaxSequence(last, found)
<1> DEFINE S == {last} \union {seq[w] : w \in found}
<1>1. \A w \in found : seq[w] \in Nat
  BY DEF Batches
<1>2. S \in SUBSET Nat
  BY <1>1
<1>3. \E h \in S : \A m \in S : m <= h
  <2>1. CASE found = {}
    BY <2>1
  <2>2. CASE found # {}
    <3>1. IsFiniteSet(found)
      BY DBAssumption, FS_Subset DEF Batches
    <3>2. PICK x \in found : \A y \in found : seq[y] <= seq[x]
      BY <1>1, <2>2, <3>1, LargestValue
    <3>3. CASE last <= seq[x]
      BY <1>1, <3>2, <3>3
    <3>4. CASE ~(last <= seq[x])
      <4>1. \A m \in S : m <= last
        BY <1>1, <3>2, <3>4
      <4> QED BY <4>1
    <3> QED BY <3>3, <3>4
  <2> QED BY <2>1, <2>2
<1>4. PICK h \in S : \A m \in S : m <= h
  BY <1>3
<1>5. MaxSequence(last, found) = Highest(S)
  BY DEF MaxSequence
<1>6. last \in S /\ \A w \in found : seq[w] \in S
  OBVIOUS
<1> HIDE DEF S
<1>7. Highest(S) = h
  BY <1>2, <1>4, HighestIs
<1> QED BY <1>2, <1>4, <1>5, <1>6, <1>7

LEMMA EditsOf ==
  ASSUME NEW recs \in Seq(EditRecords)
  PROVE  /\ Edits(recs) \in Seq(EditRecords) /\ Len(Edits(recs)) \in {Len(recs), Len(recs) - 1}
         /\ DOMAIN Edits(recs) = 1 .. Len(Edits(recs)) /\ Len(Edits(recs)) \in Nat
         /\ \A i \in 1 .. Len(Edits(recs)) : i \in 1 .. Len(recs) /\ Edits(recs)[i] = recs[i]
         /\ Edits(recs) # <<>> => Len(Edits(recs)) > 0
<1>1. Len(recs) \in Nat /\ DOMAIN recs = 1 .. Len(recs) /\ (recs # <<>> => Len(recs) > 0)
  BY LenProperties, EmptySeq
<1>2. CASE recs # <<>> /\ recs[Len(recs)] = TornEdit
  <2> DEFINE n == Len(recs) - 1
             s == SubSeq(recs, 1, n)
  <2>1. n \in Nat /\ n <= Len(recs) /\ Edits(recs) = s
    BY <1>1, <1>2 DEF Edits
  <2>2. \A i \in 1 .. n : recs[i] \in EditRecords
    BY <1>1, ElementOfSeq
  <2>3. s \in Seq(EditRecords) /\ Len(s) = n /\ \A i \in 1 .. n : s[i] = recs[i]
    BY <1>1, <2>1, <2>2, SubSeqProperties
  <2> HIDE DEF s
  <2>4. DOMAIN s = 1 .. Len(s) /\ (s # <<>> => Len(s) > 0)
    BY <2>3, LenProperties, EmptySeq
  <2> QED BY <1>1, <2>1, <2>3, <2>4
<1>3. CASE ~(recs # <<>> /\ recs[Len(recs)] = TornEdit)
  <2>1. Edits(recs) = recs
    BY <1>3 DEF Edits
  <2> QED BY <1>1, <2>1
<1> QED BY <1>2, <1>3

\* A manifest that can be read ends with an edit that is whole.
LEMMA ReplayedType ==
  ASSUME NEW recs \in Seq(EditRecords), ~Corrupt(recs)
  PROVE  /\ Replayed(recs).tables \in Versions /\ Replayed(recs).log \in Nat
         /\ Replayed(recs).next \in Nat /\ Replayed(recs).last \in Nat
         /\ \E i \in 1 .. Len(recs) : /\ recs[i] # TornEdit /\ Replayed(recs).next = recs[i].next
                                      /\ Replayed(recs).log = recs[i].log /\ Replayed(recs).last = recs[i].last
<1> DEFINE e == Edits(recs)
           n == Len(e)
           T == {f \in UNION {e[i].add : i \in DOMAIN e} :
                   \E i \in DOMAIN e : f \in e[i].add /\ \A j \in i + 1 .. Len(e) : f \notin e[j].del}
<1>1. /\ e \in Seq(EditRecords) /\ DOMAIN e = 1 .. n /\ n \in Nat
      /\ \A i \in 1 .. n : i \in 1 .. Len(recs) /\ e[i] = recs[i]
      /\ e # <<>> => n > 0
  BY EditsOf
<1>2. e # <<>> /\ \A i \in DOMAIN e : e[i] # TornEdit
  BY DEF Corrupt
<1>3. Replayed(recs) = [tables |-> T, log |-> e[n].log, next |-> e[n].next, last |-> e[n].last]
  BY DEF Replayed
<1> HIDE DEF e
<1>4. \A i \in 1 .. n : e[i] \in EditRecords
  BY <1>1, ElementOfSeq
<1>5. T \in Versions
  BY <1>1, <1>4 DEF EditRecords, Versions
<1> HIDE DEF T
<1>6. n \in 1 .. n
  BY <1>1, <1>2
<1>7. e[n] \in EditRecords /\ e[n] # TornEdit /\ n \in 1 .. Len(recs) /\ e[n] = recs[n]
  BY <1>1, <1>2, <1>4, <1>6
<1> QED BY <1>3, <1>5, <1>7 DEF EditRecords

(***************************************************************************)
(* DB::Open.                                                               *)
(***************************************************************************)
\* A new manifest whose edits save numbers above its own.
Manifested(d, n, ed, k) == [d EXCEPT !.manifests = Extend(@, n, [recs |-> <<ed>>, synced |-> k])]

LEMMA NewManifestRecords ==
  ASSUME NEW d, IsSound(d), NEW n \in Nat, NEW ed \in EditRecords, NEW k \in Nat, k <= 1
  PROVE  /\ IsDisk(Manifested(d, n, ed, k))
         /\ Manifested(d, n, ed, k).manifests = Extend(d.manifests, n, [recs |-> <<ed>>, synced |-> k])
         /\ Manifested(d, n, ed, k).logs = d.logs /\ Manifested(d, n, ed, k).tables = d.tables
         /\ Manifested(d, n, ed, k).current = d.current
<1> DEFINE f == [recs |-> <<ed>>, synced |-> k]
           g == Extend(d.manifests, n, f)
           e == Manifested(d, n, ed, k)
<1>1. IsDisk(d) /\ IsFiles(d.manifests, Records(EditRecords))
  BY DEF IsSound, IsDisk
<1>2. f \in Records(EditRecords)
  <2>1. <<ed>> \in Seq(EditRecords) /\ Len(<<ed>>) = 1
    OBVIOUS
  <2> QED BY <2>1 DEF Records
<1>3. e = [d EXCEPT !.manifests = g]
  BY DEF Manifested
<1> HIDE DEF f
<1>4. IsFiles(g, Records(EditRecords))
  BY <1>1, <1>2 DEF Extend, IsFiles, Filenames
<1> HIDE DEF g
<1>5. e = [logs |-> d.logs, tables |-> d.tables, manifests |-> g, current |-> d.current]
  BY <1>1, <1>3 DEF IsDisk
<1> HIDE DEF e
<1>6. IsDisk(e) /\ e.logs = d.logs /\ e.tables = d.tables /\ e.current = d.current /\ e.manifests = g
  BY <1>1, <1>4, <1>5 DEF IsDisk
<1> QED BY <1>6 DEF e, g, f

LEMMA NewManifestDisk ==
  ASSUME NEW d, IsSound(d), NEW n \in Nat, NEW ed \in EditRecords, ed.next > n, NEW k \in Nat, k <= 1
  PROVE  LET e == Manifested(d, n, ed, k)
         IN  /\ IsSound(e) /\ e.logs = d.logs /\ e.tables = d.tables /\ e.current = d.current
             /\ DOMAIN e.manifests = DOMAIN d.manifests \union {n}
             /\ e.manifests[n].recs = <<ed>> /\ e.manifests[n].synced = k
             /\ \A m \in DOMAIN d.manifests \ {n} : e.manifests[m] = d.manifests[m]
<1> DEFINE e == Manifested(d, n, ed, k)
<1>1. /\ IsDisk(e) /\ e.manifests = Extend(d.manifests, n, [recs |-> <<ed>>, synced |-> k])
      /\ e.logs = d.logs /\ e.tables = d.tables /\ e.current = d.current
  BY NewManifestRecords
<1> HIDE DEF e
<1>2. /\ DOMAIN e.manifests = DOMAIN d.manifests \union {n}
      /\ e.manifests[n].recs = <<ed>> /\ e.manifests[n].synced = k
      /\ \A m \in DOMAIN d.manifests \ {n} : e.manifests[m] = d.manifests[m]
  BY <1>1 DEF Extend
<1>3. Numbered(e.manifests)
  <2> SUFFICES ASSUME NEW m \in DOMAIN e.manifests, NEW i \in 1 .. Len(e.manifests[m].recs),
                      e.manifests[m].recs[i] # TornEdit
               PROVE  e.manifests[m].recs[i].next > m
    BY DEF Numbered
  <2>1. CASE m = n
    BY <1>2, <2>1
  <2>2. CASE m # n
    BY <1>2, <2>2 DEF IsSound, Numbered
  <2> QED BY <2>1, <2>2
<1>4. IsSound(e)
  BY <1>1, <1>2, <1>3 DEF IsSound, CurrentThere
<1>5. /\ IsSound(e) /\ e.logs = d.logs /\ e.tables = d.tables /\ e.current = d.current
      /\ DOMAIN e.manifests = DOMAIN d.manifests \union {n}
      /\ e.manifests[n].recs = <<ed>> /\ e.manifests[n].synced = k
      /\ \A m \in DOMAIN d.manifests \ {n} : e.manifests[m] = d.manifests[m]
  BY <1>1, <1>2, <1>4
<1> QED BY <1>5 DEF e

\* What is unchanged while the database is being opened.
LEMMA OpenRest ==
  ASSUME BaseInv, UNCHANGED openRest
  PROVE  /\ mem' \subseteq Batches /\ IsImm(imm') /\ bgerr' \in BOOLEAN /\ IsBg(bg') /\ IsComp(comp')
         /\ pending' \subseteq Nat /\ pinned' \in [Reader -> SUBSET Versions]
         /\ bg' = bg /\ queue' = queue
<1>1. UNCHANGED <<mem, imm, bgerr>> /\ UNCHANGED <<bg, comp, pending>> /\ UNCHANGED <<pinned, queue>>
  BY DEF openRest
<1> QED BY <1>1 DEF BaseInv, TypesInv, MemTypes, BgTypes, OpenTypes

\* The steps before the database is open have neither writers nor background work.
LEMMA NotOpened ==
  ASSUME BaseInv, up \notin Opened
  PROVE  queue = <<>> /\ scheduled = FALSE /\ bg.pc = "idle"
  BY DEF BaseInv, BgInv, TypesInv, BgTypes

LEMMA CreateBase ==
  ASSUME BaseInv, Open \/ NewDB \/ SetCurrentFile
  PROVE  TypesInv' /\ BgInv' /\ ManifestInv'
<1>1. UNCHANGED openRest /\ UNCHANGED <<logfile, vs, scheduled, rec>>
  BY DEF Open, NewDB, SetCurrentFile
<1>2. /\ mem' \subseteq Batches /\ IsImm(imm') /\ bgerr' \in BOOLEAN /\ IsBg(bg') /\ IsComp(comp')
      /\ pending' \subseteq Nat /\ pinned' \in [Reader -> SUBSET Versions]
      /\ bg' = bg /\ queue' = queue
  BY <1>1, OpenRest
<1>3. up \notin Opened
  BY DEF Open, NewDB, SetCurrentFile, Opened
<1>4. queue = <<>> /\ scheduled = FALSE /\ bg.pc = "idle"
  BY <1>3, NotOpened
<1>5. BgInv'
  BY <1>1, <1>2, <1>4 DEF BgInv
<1>6. IsSound(disk)
  BY DEF BaseInv, ManifestInv
<1>7. ManifestInv' /\ up' \in Opening
  <2>1. CASE Open
    <3>1. UNCHANGED disk /\ up' = IF disk.current = 0 THEN "create" ELSE "recover"
      BY <2>1 DEF Open
    <3> QED BY <1>2, <1>4, <1>6, <3>1 DEF ManifestInv, Replaying, Opened, Committing, Opening
  <2>2. CASE NewDB
    <3> DEFINE first == Edit({}, {}, [log |-> 0, next |-> 2, last |-> 0])
    <3>1. first \in EditRecords /\ first.next > 1
      BY DEF Edit, EditRecords
    <3>2. up = "create" /\ up' = "newcurrent" /\ disk' = Manifested(disk, 1, first, 0)
      BY <2>2 DEF NewDB, Manifested
    <3> HIDE DEF first
    <3>3. IsSound(disk') /\ disk'.current = disk.current /\ 1 \in DOMAIN disk'.manifests
      <4> DEFINE num == 1
                 sy == 0
      <4>1. num \in Nat /\ sy \in Nat /\ sy <= 1 /\ first.next > num /\ disk' = Manifested(disk, num, first, sy)
        BY <3>1, <3>2
      <4> HIDE DEF num, sy
      <4>2. IsSound(disk') /\ disk'.current = disk.current /\ DOMAIN disk'.manifests = DOMAIN disk.manifests \union {num}
        BY <1>6, <3>1, <4>1, NewManifestDisk
      <4> QED BY <4>2 DEF num
    <3>4. disk.current = 0
      BY <3>2 DEF BaseInv, ManifestInv
    <3> QED BY <1>2, <1>4, <3>2, <3>3, <3>4 DEF ManifestInv, Replaying, Opened, Committing, Opening
  <2>3. CASE SetCurrentFile
    <3>1. up = "newcurrent" /\ up' = "recover" /\ disk' = Pointed(disk, 1)
      BY <2>3 DEF SetCurrentFile, Pointed
    <3>2. 1 \in DOMAIN disk.manifests
      BY <3>1 DEF BaseInv, ManifestInv
    <3>3. IsSound(disk') /\ disk'.current = 1
      BY <1>6, <3>1, <3>2, PointedSound
    <3> QED BY <1>2, <1>4, <3>1, <3>3 DEF ManifestInv, Replaying, Opened, Committing, Opening
  <2> QED BY <2>1, <2>2, <2>3
<1>8. TypesInv'
  <2>1. MemTypes' /\ IsVersionSet(vs') /\ rec' \in [logs : SUBSET Nat, add : Versions]
    BY <1>1, <1>2 DEF BaseInv, TypesInv, MemTypes, OpenTypes
  <2>2. BgTypes' /\ OpenTypes' /\ IsDisk(disk')
    BY <1>1, <1>2, <1>4, <1>7, <2>1 DEF BgTypes, OpenTypes, ManifestInv, IsSound
  <2> QED BY <2>1, <2>2 DEF TypesInv
<1> QED BY <1>5, <1>7, <1>8

\* While the database is being opened, it is enough to look at what Open changes.
LEMMA OpeningTypes ==
  ASSUME BaseInv, UNCHANGED openRest, logfile' \in Nat, IsVersionSet(vs'), scheduled' \in BOOLEAN,
         up' \in Opening \union Opened \union {"unusable"}, rec' \in [logs : SUBSET Nat, add : Versions],
         IsDisk(disk')
  PROVE  TypesInv'
<1>1. /\ mem' \subseteq Batches /\ IsImm(imm') /\ bgerr' \in BOOLEAN /\ IsBg(bg') /\ IsComp(comp')
      /\ pending' \subseteq Nat /\ pinned' \in [Reader -> SUBSET Versions]
  BY OpenRest
<1> QED BY <1>1 DEF TypesInv, MemTypes, BgTypes, OpenTypes

LEMMA RecoverBase ==
  ASSUME BaseInv, Recover
  PROVE  TypesInv' /\ BgInv' /\ ManifestInv'
<1> DEFINE recs == disk.manifests[disk.current].recs
           v == Replayed(recs)
<1>1. UNCHANGED openRest /\ UNCHANGED <<logfile, scheduled, disk>> /\ up = "recover"
  BY DEF Recover
<1>2. bg' = bg /\ queue' = queue /\ queue = <<>> /\ scheduled = FALSE /\ bg.pc = "idle"
  BY <1>1, OpenRest, NotOpened DEF Opened
<1>3. BgInv'
  BY <1>1, <1>2 DEF BgInv
<1>4. IsSound(disk) /\ disk.current \in Nat /\ disk.current \in DOMAIN disk.manifests
  BY <1>1 DEF BaseInv, ManifestInv, IsSound, CurrentThere, IsDisk
<1>5. recs \in Seq(EditRecords)
  <2>1. disk.manifests[disk.current] \in Records(EditRecords)
    BY <1>4 DEF IsSound, IsDisk, IsFiles
  <2> QED BY <2>1 DEF Records
<1>6. IsVersionSet(vs) /\ rec \in [logs : SUBSET Nat, add : Versions] /\ logfile \in Nat /\ IsDisk(disk)
  BY DEF BaseInv, TypesInv, OpenTypes, MemTypes
<1>7. CASE up' = "unusable" /\ UNCHANGED <<vs, rec>>
  <2>1. TypesInv'
    BY <1>1, <1>2, <1>6, <1>7, OpeningTypes
  <2>2. ManifestInv'
    BY <1>1, <1>2, <1>4, <1>7 DEF ManifestInv, Replaying, Opened, Committing
  <2> QED BY <1>3, <2>1, <2>2
<1>8. CASE /\ ~Corrupt(recs)
           /\ vs' = [tables |-> v.tables, log |-> v.log, last |-> v.last, manifest |-> v.next, next |-> v.next + 1]
           /\ rec' = [rec EXCEPT !.logs = LogsToReplay(disk, v)]
           /\ up' = "replay"
  <2>1. /\ v.tables \in Versions /\ v.log \in Nat /\ v.next \in Nat /\ v.last \in Nat
        /\ \E i \in 1 .. Len(recs) : recs[i] # TornEdit /\ v.next = recs[i].next
    BY <1>5, <1>8, ReplayedType
  <2>2. v.next > disk.current
    BY <1>4, <2>1 DEF IsSound, Numbered
  <2> HIDE DEF v, recs
  <2>3. IsVersionSet(vs') /\ vs'.manifest = v.next /\ vs'.next = v.next + 1
    BY <1>8, <2>1 DEF IsVersionSet
  <2>4. LogsToReplay(disk, v) \subseteq DOMAIN disk.logs /\ DOMAIN disk.logs \subseteq Nat
    BY <1>6 DEF LogsToReplay, IsDisk, IsFiles, Filenames
  <2>5. rec' \in [logs : SUBSET Nat, add : Versions] /\ rec'.logs = LogsToReplay(disk, v)
    BY <1>6, <1>8, <2>4
  <2>6. up' = "replay" /\ up' \in Opening
    BY <1>8 DEF Opening
  <2>7. TypesInv'
    BY <1>1, <1>2, <1>6, <2>3, <2>5, <2>6, OpeningTypes
  <2>8. ManifestInv'
    BY <1>1, <1>2, <1>4, <2>1, <2>2, <2>3, <2>4, <2>5, <2>6 DEF ManifestInv, Replaying, Opened, Committing
  <2> QED BY <1>3, <2>7, <2>8
<1> QED BY <1>7, <1>8 DEF Recover

LEMMA ReplayBase ==
  ASSUME BaseInv, RecoverLogFile
  PROVE  TypesInv' /\ BgInv' /\ ManifestInv'
<1> DEFINE n == CHOOSE k \in rec.logs : \A m \in rec.logs : k <= m
           found == InLog(disk.logs[n].recs)
           used == IF found = {} THEN vs.next ELSE vs.next + 1
           h == Highest({used, n + 1})
           s == MaxSequence(vs.last, found)
<1>1. /\ UNCHANGED openRest /\ UNCHANGED <<logfile, scheduled, up>> /\ up = "replay" /\ rec.logs # {}
      /\ rec' = [logs |-> rec.logs \ {n},
                 add |-> IF found = {} THEN rec.add ELSE rec.add \union {<<0, vs.next>>}]
      /\ disk' = IF found = {} THEN disk ELSE [disk EXCEPT !.tables = Extend(@, vs.next, found)]
      /\ vs' = [vs EXCEPT !.next = h, !.last = s]
  BY DEF RecoverLogFile
<1>2. bg' = bg /\ queue' = queue /\ queue = <<>> /\ scheduled = FALSE /\ bg.pc = "idle"
  BY <1>1, OpenRest, NotOpened DEF Opened
<1>3. BgInv'
  BY <1>1, <1>2 DEF BgInv
<1>4. /\ IsSound(disk) /\ IsDisk(disk) /\ IsVersionSet(vs) /\ rec \in [logs : SUBSET Nat, add : Versions]
      /\ logfile \in Nat /\ seq \in [Writer -> Nat]
  BY DEF BaseInv, TypesInv, ManifestInv, OpenTypes, MemTypes, WriterInv
<1>5. disk.current < vs.manifest /\ rec.logs \subseteq DOMAIN disk.logs /\ vs.manifest < vs.next
  BY <1>1 DEF BaseInv, ManifestInv, Replaying
<1>6. n \in rec.logs /\ n \in Nat /\ n \in DOMAIN disk.logs
  <2>1. \E k \in rec.logs : \A m \in rec.logs : k <= m
    BY <1>1, <1>4, LeastNatural
  <2> QED BY <1>4, <1>5, <2>1
<1> HIDE DEF n
<1>7. found \in SUBSET Batches
  <2>1. disk.logs[n] \in Records(SUBSET Batches)
    BY <1>4, <1>6 DEF IsDisk, IsFiles
  <2>2. disk.logs[n].recs \in Seq(SUBSET Batches)
    BY <2>1 DEF Records
  <2> QED BY <2>2, InLogBatches
<1> HIDE DEF found
<1>8. s \in Nat /\ vs.last <= s
  BY <1>4, <1>7, MaxSequenceIs DEF IsVersionSet
<1> HIDE DEF s
<1>9. used \in Nat /\ vs.next <= used
  BY <1>4 DEF IsVersionSet
<1> HIDE DEF used
<1>10. h \in Nat /\ used <= h
  <2>1. CASE used <= n + 1
    <3>1. h = n + 1
      BY <1>6, <1>9, <2>1, HighestIs
    <3> QED BY <1>6, <2>1, <3>1
  <2>2. CASE ~(used <= n + 1)
    <3>1. h = used
      BY <1>6, <1>9, <2>2, HighestIs
    <3> QED BY <1>9, <3>1
  <2> QED BY <2>1, <2>2
<1> HIDE DEF h
<1>11. IsVersionSet(vs') /\ vs'.manifest = vs.manifest /\ vs'.next = h
  BY <1>1, <1>4, <1>8, <1>10 DEF IsVersionSet
<1>12. rec' \in [logs : SUBSET Nat, add : Versions] /\ rec'.logs \subseteq rec.logs
  <2>1. {<<0, vs.next>>} \in Versions
    BY <1>4 DEF IsVersionSet, Versions, Tables
  <2>2. (IF found = {} THEN rec.add ELSE rec.add \union {<<0, vs.next>>}) \in Versions
    BY <1>4, <2>1 DEF Versions
  <2> QED BY <1>1, <1>4, <2>2
<1>13. IsSound(disk') /\ disk'.logs = disk.logs /\ disk'.manifests = disk.manifests /\ disk'.current = disk.current
  <2>1. CASE found = {}
    BY <1>1, <1>4, <2>1
  <2>2. CASE found # {}
    <3>1. disk' = Tabled(disk, vs.next, found) /\ vs.next \in Nat
      BY <1>1, <1>4, <2>2 DEF Tabled, IsVersionSet
    <3> QED BY <1>4, <3>1, NewTableDisk
  <2> QED BY <2>1, <2>2
<1>14. TypesInv'
  BY <1>1, <1>2, <1>4, <1>11, <1>12, <1>13, OpeningTypes DEF Opening, IsSound
<1>15. vs.manifest \in Nat /\ vs.next \in Nat
  BY <1>4 DEF IsVersionSet
<1>16. vs.manifest < h
  BY <1>5, <1>9, <1>10, <1>15
<1>17. up' = "replay"
  BY <1>1
<1>18. ManifestInv'
  BY <1>2, <1>5, <1>11, <1>12, <1>13, <1>16, <1>17 DEF ManifestInv, Replaying, Opened, Committing
<1> QED BY <1>3, <1>14, <1>18

LEMMA OpenLogBase ==
  ASSUME BaseInv, OpenLog \/ OpenManifest
  PROVE  TypesInv' /\ BgInv' /\ ManifestInv'
<1>1. UNCHANGED openRest /\ UNCHANGED <<scheduled, rec>> /\ up \in Replaying
  BY DEF OpenLog, OpenManifest, Replaying
<1>2. bg' = bg /\ queue' = queue /\ queue = <<>> /\ scheduled = FALSE /\ bg.pc = "idle"
  BY <1>1, OpenRest, NotOpened DEF Opened, Replaying
<1>3. BgInv'
  BY <1>1, <1>2 DEF BgInv
<1>4. /\ IsSound(disk) /\ IsDisk(disk) /\ IsVersionSet(vs) /\ rec \in [logs : SUBSET Nat, add : Versions]
      /\ logfile \in Nat
  BY DEF BaseInv, TypesInv, ManifestInv, OpenTypes, MemTypes
<1>5. disk.current < vs.manifest /\ rec.logs \subseteq DOMAIN disk.logs /\ vs.manifest < vs.next
  BY <1>1 DEF BaseInv, ManifestInv
<1>6. vs.next \in Nat /\ vs.manifest \in Nat
  BY <1>4 DEF IsVersionSet
<1>7. CASE OpenLog
  <2>1. /\ logfile' = vs.next /\ vs' = [vs EXCEPT !.next = @ + 1] /\ up' = "manifest"
        /\ disk' = WithLog(disk, vs.next)
    BY <1>7 DEF OpenLog, WithLog
  <2>2. IsVersionSet(vs') /\ vs'.manifest = vs.manifest /\ vs'.next = vs.next + 1
    BY <1>4, <2>1 DEF IsVersionSet
  <2>3. /\ IsDisk(disk') /\ disk'.tables = disk.tables /\ disk'.manifests = disk.manifests
        /\ disk'.current = disk.current /\ DOMAIN disk'.logs = DOMAIN disk.logs \union {vs.next}
    BY <1>4, <1>6, <2>1, NewLogDisk
  <2>4. IsSound(disk')
    BY <1>4, <2>3 DEF IsSound, CurrentThere
  <2>5. TypesInv'
    BY <1>1, <1>2, <1>4, <1>6, <2>1, <2>2, <2>3, OpeningTypes DEF Opening
  <2>6. ManifestInv'
    BY <1>1, <1>2, <1>5, <1>6, <2>1, <2>2, <2>3, <2>4 DEF ManifestInv, Replaying, Opened, Committing
  <2> QED BY <1>3, <2>5, <2>6
<1>8. CASE OpenManifest
  <2> DEFINE v == [vs EXCEPT !.log = logfile]
             first == Edit(vs.tables \union rec.add, {}, v)
             sy == 1
  <2>1. /\ UNCHANGED <<logfile, vs>> /\ up' = "current"
        /\ disk' = Manifested(disk, vs.manifest, first, sy) /\ sy \in Nat /\ sy <= 1
    BY <1>8 DEF OpenManifest, Manifested
  <2>2. v.log \in Nat /\ v.next = vs.next /\ v.next \in Nat /\ v.last \in Nat
    BY <1>4 DEF IsVersionSet
  <2> HIDE DEF v
  <2>3. vs.tables \union rec.add \in Versions /\ {} \in Versions
    BY <1>4 DEF IsVersionSet, Versions
  <2>4. first \in EditRecords /\ first.next = vs.next
    BY <2>2, <2>3, EditType
  <2> HIDE DEF first, sy
  <2>5. first.next > vs.manifest
    BY <1>5, <1>6, <2>4
  <2>6. /\ IsSound(disk') /\ disk'.current = disk.current /\ disk'.logs = disk.logs
        /\ DOMAIN disk'.manifests = DOMAIN disk.manifests \union {vs.manifest}
    BY <1>4, <1>6, <2>1, <2>4, <2>5, NewManifestDisk
  <2>7. TypesInv'
    BY <1>1, <1>2, <1>4, <2>1, <2>6, OpeningTypes DEF Opening, IsSound
  <2>8. ManifestInv'
    BY <1>1, <1>2, <1>5, <2>1, <2>6 DEF ManifestInv, Replaying, Opened, Committing
  <2> QED BY <1>3, <2>7, <2>8
<1> QED BY <1>7, <1>8

LEMMA OpenCurrentBase ==
  ASSUME BaseInv, OpenCurrent
  PROVE  TypesInv' /\ BgInv' /\ ManifestInv'
<1> DEFINE t == vs.tables \union rec.add
           d == Pointed(disk, vs.manifest)
           del == DeleteObsoleteFiles(d, vs', NoComp, {}, FALSE)
<1>1. /\ UNCHANGED openRest /\ UNCHANGED logfile /\ up = "current" /\ up' = "open"
      /\ vs' = [vs EXCEPT !.tables = t, !.log = logfile]
      /\ disk' = del /\ rec' = [logs |-> {}, add |-> {}]
  BY DEF OpenCurrent, Pointed
<1>2. bg' = bg /\ queue' = queue /\ queue = <<>> /\ bg.pc = "idle"
  BY <1>1, OpenRest, NotOpened DEF Opened
<1>3. scheduled' \in BOOLEAN
  BY DEF OpenCurrent, MaybeScheduleCompaction
<1>4. BgInv'
  BY <1>1, <1>2 DEF BgInv, Opened
<1>5. /\ IsSound(disk) /\ IsVersionSet(vs) /\ rec \in [logs : SUBSET Nat, add : Versions] /\ logfile \in Nat
      /\ vs.manifest < vs.next /\ vs.manifest \in DOMAIN disk.manifests
  BY <1>1 DEF BaseInv, TypesInv, ManifestInv, OpenTypes, MemTypes, Replaying
<1>6. t \in Versions
  BY <1>5 DEF IsVersionSet, Versions
<1> HIDE DEF t
<1>7. IsVersionSet(vs') /\ vs'.manifest = vs.manifest /\ vs'.next = vs.next
  BY <1>1, <1>5, <1>6 DEF IsVersionSet
<1>8. IsSound(d) /\ d.current = vs.manifest /\ d.manifests = disk.manifests
  BY <1>5, PointedSound
<1> HIDE DEF d
<1>9. /\ IsSound(del) /\ del.current = d.current
      /\ d.current \in DOMAIN d.manifests => d.current \in DOMAIN del.manifests
  BY <1>7, <1>8, DeletedSound
<1> HIDE DEF del
<1>10. IsSound(disk') /\ disk'.current = vs.manifest /\ vs.manifest \in DOMAIN disk'.manifests
  BY <1>1, <1>5, <1>8, <1>9
<1>11. rec' \in [logs : SUBSET Nat, add : Versions]
  BY <1>1 DEF Versions
<1>12. TypesInv'
  BY <1>1, <1>3, <1>5, <1>7, <1>10, <1>11, OpeningTypes DEF Opened, IsSound
<1>13. ManifestInv'
  BY <1>1, <1>2, <1>5, <1>7, <1>10 DEF ManifestInv, Replaying, Opened, Committing
<1> QED BY <1>4, <1>12, <1>13

\* A manifest that CURRENT does not name is deleted.
Dropped(d, n) == [d EXCEPT !.manifests = Keep(@, DOMAIN @ \ {n})]

LEMMA DroppedDisk ==
  ASSUME NEW d, IsSound(d), NEW n, n # d.current
  PROVE  LET e == Dropped(d, n)
         IN  /\ IsSound(e) /\ e.current = d.current /\ e.tables = d.tables /\ e.logs = d.logs
             /\ DOMAIN e.manifests = DOMAIN d.manifests \ {n}
             /\ \A m \in DOMAIN e.manifests : e.manifests[m] = d.manifests[m]
<1> DEFINE f == Keep(d.manifests, DOMAIN d.manifests \ {n})
           e == Dropped(d, n)
<1>0. e = [d EXCEPT !.manifests = f]
  BY DEF Dropped
<1>1. IsDisk(d) /\ IsFiles(d.manifests, Records(EditRecords))
  BY DEF IsSound, IsDisk
<1>2. /\ IsFiles(f, Records(EditRecords)) /\ DOMAIN f = DOMAIN d.manifests \ {n}
      /\ \A m \in DOMAIN f : f[m] = d.manifests[m]
  BY <1>1 DEF Keep, IsFiles, Filenames
<1> HIDE DEF f
<1>3. e = [logs |-> d.logs, tables |-> d.tables, manifests |-> f, current |-> d.current]
  BY <1>0, <1>1 DEF IsDisk
<1> HIDE DEF e
<1>4. IsDisk(e) /\ e.current = d.current /\ e.tables = d.tables /\ e.logs = d.logs /\ e.manifests = f
  BY <1>1, <1>2, <1>3 DEF IsDisk
<1>5. Numbered(f)
  BY <1>2 DEF IsSound, Numbered
<1>6. /\ IsSound(e) /\ e.current = d.current /\ e.tables = d.tables /\ e.logs = d.logs
      /\ DOMAIN e.manifests = DOMAIN d.manifests \ {n}
      /\ \A m \in DOMAIN e.manifests : e.manifests[m] = d.manifests[m]
  BY <1>2, <1>4, <1>5 DEF IsSound, CurrentThere
<1> QED BY <1>6 DEF e, f

LEMMA OpenFailsBase ==
  ASSUME BaseInv, OpenFails
  PROVE  TypesInv' /\ BgInv' /\ ManifestInv'
<1>1. IsSound(disk) /\ (up = "current" => vs.manifest # disk.current)
  BY DEF BaseInv, ManifestInv, Replaying, TypesInv, IsVersionSet, IsDisk
<1>2. IsSound(disk')
  <2>1. CASE up = "current"
    <3>1. disk' = Dropped(disk, vs.manifest)
      BY <2>1 DEF OpenFails, Dropped
    <3> QED BY <1>1, <2>1, <3>1, DroppedDisk
  <2>2. CASE up # "current"
    BY <1>1, <2>2 DEF OpenFails
  <2> QED BY <2>1, <2>2
<1> QED BY <1>2, ResetBase DEF OpenFails

LEMMA ReaderBase ==
  ASSUME BaseInv, NEW r \in Reader, GetBegins(r) \/ GetEnds(r)
  PROVE  TypesInv' /\ BgInv' /\ ManifestInv'
<1>1. UNCHANGED <<memVars, vs, up>> /\ UNCHANGED <<bgerr, scheduled, bg, comp, pending>>
      /\ UNCHANGED <<rec, disk>> /\ UNCHANGED writerVars
  BY DEF GetBegins, GetEnds
<1>2. pinned' \in [Reader -> SUBSET Versions]
  BY DEF GetBegins, GetEnds, BaseInv, TypesInv, OpenTypes, IsVersionSet, NoVersion
<1>3. TypesInv'
  BY <1>1, <1>2 DEF BaseInv, TypesInv, MemTypes, BgTypes, OpenTypes, memVars
<1>4. BgInv' /\ ManifestInv'
  BY <1>1 DEF BaseInv, BgInv, ManifestInv, writerVars
<1> QED BY <1>3, <1>4

LEMMA CloseBase ==
  ASSUME BaseInv, Close \/ Closing
  PROVE  TypesInv' /\ BgInv' /\ ManifestInv'
<1>2. CASE /\ UNCHANGED writerVars /\ UNCHANGED <<memVars, vs>> /\ UNCHANGED <<bgerr, scheduled, bg, comp, pending>>
           /\ UNCHANGED <<rec, pinned, disk>> /\ up \in Opened /\ up' \in Opened
  <2>1. TypesInv'
    BY <1>2 DEF BaseInv, TypesInv, MemTypes, BgTypes, OpenTypes, memVars
  <2>2. BgInv' /\ ManifestInv'
    BY <1>2 DEF BaseInv, BgInv, ManifestInv, writerVars, Opened, Replaying
  <2> QED BY <2>1, <2>2
<1>3. CASE Reset /\ up' = "closed" /\ UNCHANGED disk
  BY <1>3, ResetBase DEF BaseInv, ManifestInv
<1> QED BY <1>2, <1>3 DEF Close, Closing, Opened

(***************************************************************************)
(* Together.                                                               *)
(***************************************************************************)
LEMMA BaseNext ==
  ASSUME BaseInv, [Next]_vars
  PROVE  BaseInv'
<1>1. WriterInv'
  BY WriterNext DEF BaseInv, TypesInv, IsVersionSet
<1> SUFFICES TypesInv' /\ BgInv' /\ ManifestInv'
  BY <1>1 DEF BaseInv
<1>2. ASSUME NEW w \in Writer, Enter(w) \/ WriterStep(w)
      PROVE  TypesInv' /\ BgInv' /\ ManifestInv'
  BY <1>2, WriterBase
<1>3. CASE Open \/ OpenStep
  BY <1>3, CreateBase, RecoverBase, ReplayBase, OpenLogBase, OpenCurrentBase, OpenFailsBase DEF OpenStep
<1>4. CASE UNCHANGED vars
  <2>1. UNCHANGED writerVars /\ UNCHANGED memVars /\ UNCHANGED callerVars
        /\ UNCHANGED <<vs, bgerr, scheduled, disk>>
    BY <1>4 DEF vars, writerVars, memVars, callerVars
  <2>2. UNCHANGED <<mem, imm, logfile, vs>> /\ UNCHANGED <<bgerr, scheduled, bg, comp, pending>>
        /\ UNCHANGED <<up, rec, pinned, disk, queue>>
    BY <2>1 DEF writerVars, memVars, callerVars
  <2>3. TypesInv'
    BY <2>2 DEF BaseInv, TypesInv, MemTypes, BgTypes, OpenTypes
  <2>4. BgInv' /\ ManifestInv'
    BY <2>2 DEF BaseInv, BgInv, ManifestInv
  <2> QED BY <2>3, <2>4
<1> QED BY <1>2, <1>3, <1>4, BackgroundBase, ReaderBase, CloseBase, CrashBase DEF Next

LEMMA BaseAlways == Spec => []BaseInv
<1>1. Init => BaseInv
  BY BaseInit
<1>2. BaseInv /\ [Next]_vars => BaseInv'
  BY BaseNext
<1> QED BY <1>1, <1>2, PTL DEF Spec

LEMMA BaseTypes ==
  ASSUME BaseInv
  PROVE  DBTypeOK
<1>1. /\ pc \in [Writer -> Places] /\ ret \in [Writer -> Results] /\ status \in [Writer -> Results]
      /\ queue \in Seq(Writer) /\ lead.group \in Nat /\ lead.group <= Len(queue)
  BY DEF BaseInv, WriterInv, WritersSound
<1>2. pc \in [Writer -> {"idle", "wait", "signalled", "room", "sleep", "bgwait", "log", "sync",
                         "flush", "flushwait", "done", "dead"}]
  BY <1>1 DEF Places, InQueue, Leading
<1>3. lead.group \in 0 .. Len(queue)
  BY <1>1, LenProperties
<1>4. mem \subseteq Batches /\ imm \in SUBSET SUBSET Batches /\ Cardinality(imm) <= 1
  <2>1. mem \subseteq Batches /\ imm \in SUBSET SUBSET Batches /\ (imm = {} \/ \E m \in imm : imm = {m})
    BY DEF BaseInv, TypesInv, MemTypes, IsImm, NoMem
  <2>2. Cardinality({}) = 0 /\ \A m : Cardinality({m}) = 1
    BY FS_EmptySet, FS_Singleton
  <2> QED BY <2>1, <2>2
<1>5. scheduled \in BOOLEAN /\ bgerr \in BOOLEAN /\ (bg.pc # "idle" => scheduled)
  BY DEF BaseInv, TypesInv, BgTypes, BgInv
<1>6. IsDisk(disk)
  BY DEF BaseInv, TypesInv
<1>7. DOMAIN disk.logs \union DOMAIN disk.tables \union DOMAIN disk.manifests \union {disk.current} \subseteq Nat
  BY <1>6 DEF IsDisk, IsFiles, Filenames
<1>8. \A n \in DOMAIN disk.logs : disk.logs[n].synced <= Len(disk.logs[n].recs)
  <2>1. \A n \in DOMAIN disk.logs : disk.logs[n] \in Records(SUBSET Batches)
    BY <1>6 DEF IsDisk, IsFiles
  <2> QED BY <2>1 DEF Records
<1> QED BY <1>1, <1>2, <1>3, <1>4, <1>5, <1>7, <1>8 DEF DBTypeOK, Results

\* The queue, the counters and the files agree with where the threads are, for
\* any number of writers, in every step of Write, the background thread, DB::Open
\* and after every crash: a lead is held for writers that are in the queue, the
\* background thread runs only when it is scheduled, and no file has more records
\* synced than written.
THEOREM DBTypeCorrect == Spec => []DBTypeOK
<1>1. BaseInv => DBTypeOK
  BY BaseTypes
<1> QED BY <1>1, BaseAlways, PTL

-----------------------------------------------------------------------------
(***************************************************************************)
(* The tables that are needed.  A manifest can be cut by a crash anywhere  *)
(* behind the records that are synced; whatever is left of it, recovery    *)
(* has to find the tables it names.                                        *)
(***************************************************************************)
NoTorn(recs, k) == \A i \in 1 .. k : recs[i] # TornEdit

\* The tables after the first k edits.
TablesOf(recs, k) == {f \in Tables : \E i \in 1 .. k : f \in recs[i].add /\ \A j \in i + 1 .. k : f \notin recs[j].del}

There(tables, names) == \A f \in tables : f[2] \in names

\* A manifest whose tables are among these names, wherever it is cut.
FileSound(f, names) ==
  /\ f.synced > 0 => f.recs[f.synced] # TornEdit
  /\ \A k \in f.synced .. Len(f.recs) : NoTorn(f.recs, k) => There(TablesOf(f.recs, k), names)

\* A manifest that is synced and names just these tables.
Settled(f, tables) == /\ f.synced = Len(f.recs) /\ Len(f.recs) > 0 /\ NoTorn(f.recs, Len(f.recs))
                      /\ TablesOf(f.recs, Len(f.recs)) = tables

LEMMA TablesPrefix ==
  ASSUME NEW r, NEW q, NEW k \in Nat, \A i \in 1 .. k : q[i] = r[i]
  PROVE  TablesOf(q, k) = TablesOf(r, k) /\ (NoTorn(q, k) <=> NoTorn(r, k))
<1>1. NoTorn(q, k) <=> NoTorn(r, k)
  BY DEF NoTorn
<1>2. ASSUME NEW f \in Tables
      PROVE  (\E i \in 1 .. k : f \in q[i].add /\ \A j \in i + 1 .. k : f \notin q[j].del)
               <=> (\E i \in 1 .. k : f \in r[i].add /\ \A j \in i + 1 .. k : f \notin r[j].del)
  OBVIOUS
<1> QED BY <1>1, <1>2 DEF TablesOf

\* One more edit.
LEMMA TablesNext ==
  ASSUME NEW r \in Seq(EditRecords), NEW ed \in EditRecords
  PROVE  LET q == r \o <<ed>>
         IN  /\ q \in Seq(EditRecords) /\ Len(q) = Len(r) + 1 /\ q[Len(r) + 1] = ed
             /\ \A i \in 1 .. Len(r) : q[i] = r[i]
             /\ TablesOf(q, Len(r) + 1) = (TablesOf(r, Len(r)) \ ed.del) \union ed.add
             /\ NoTorn(q, Len(r) + 1) <=> NoTorn(r, Len(r)) /\ ed # TornEdit
<1> DEFINE q == r \o <<ed>>
           n == Len(r)
<1>1. n \in Nat
  BY LenProperties
<1>2. q \in Seq(EditRecords) /\ Len(q) = n + 1 /\ q[n + 1] = ed /\ \A i \in 1 .. n : q[i] = r[i]
  OBVIOUS
<1> HIDE DEF q, n
<1>3. NoTorn(q, n + 1) <=> NoTorn(r, n) /\ ed # TornEdit
  <2>1. 1 .. n + 1 = 1 .. n \union {n + 1}
    BY <1>1
  <2> QED BY <1>1, <1>2, <2>1 DEF NoTorn
<1>4. ed.add \subseteq Tables
  BY DEF EditRecords
<1>5. ASSUME NEW f \in TablesOf(q, n + 1)
      PROVE  f \in (TablesOf(r, n) \ ed.del) \union ed.add
  <2>1. PICK i \in 1 .. n + 1 : f \in q[i].add /\ \A j \in i + 1 .. n + 1 : f \notin q[j].del
    BY <1>5 DEF TablesOf
  <2>2. CASE i = n + 1
    BY <1>2, <2>1, <2>2
  <2>3. CASE i # n + 1
    <3>1. i \in 1 .. n /\ n + 1 \in i + 1 .. n + 1 /\ \A j \in i + 1 .. n : j \in i + 1 .. n + 1 /\ j \in 1 .. n
      BY <1>1, <2>1, <2>3
    <3>2. f \notin ed.del /\ f \in r[i].add /\ \A j \in i + 1 .. n : f \notin r[j].del
      BY <1>2, <2>1, <3>1
    <3> QED BY <1>5, <3>1, <3>2 DEF TablesOf
  <2> QED BY <2>2, <2>3
<1>6. ASSUME NEW f \in (TablesOf(r, n) \ ed.del) \union ed.add
      PROVE  f \in TablesOf(q, n + 1)
  <2>1. CASE f \in ed.add
    <3>1. n + 1 \in 1 .. n + 1 /\ f \in q[n + 1].add /\ \A j \in n + 1 + 1 .. n + 1 : f \notin q[j].del
      BY <1>1, <1>2, <2>1
    <3> QED BY <1>4, <2>1, <3>1 DEF TablesOf
  <2>2. CASE f \in TablesOf(r, n) \ ed.del
    <3>1. PICK i \in 1 .. n : f \in r[i].add /\ \A j \in i + 1 .. n : f \notin r[j].del
      BY <2>2 DEF TablesOf
    <3>2. \A j \in i + 1 .. n + 1 : j = n + 1 \/ (j \in i + 1 .. n /\ j \in 1 .. n)
      BY <1>1, <3>1
    <3>3. i \in 1 .. n + 1 /\ f \in q[i].add /\ \A j \in i + 1 .. n + 1 : f \notin q[j].del
      BY <1>1, <1>2, <2>2, <3>1, <3>2
    <3> QED BY <2>2, <3>3 DEF TablesOf
  <2> QED BY <1>6, <2>1, <2>2
<1>7. TablesOf(q, n + 1) = (TablesOf(r, n) \ ed.del) \union ed.add
  BY <1>5, <1>6
<1>8. /\ q \in Seq(EditRecords) /\ Len(q) = n + 1 /\ q[n + 1] = ed
      /\ \A i \in 1 .. n : q[i] = r[i]
      /\ TablesOf(q, n + 1) = (TablesOf(r, n) \ ed.del) \union ed.add
      /\ NoTorn(q, n + 1) <=> NoTorn(r, n) /\ ed # TornEdit
  BY <1>2, <1>3, <1>7
<1> QED BY <1>8 DEF q, n

LEMMA MoreTables ==
  ASSUME NEW f, NEW names, NEW more, FileSound(f, names), names \subseteq more
  PROVE  FileSound(f, more)
  BY DEF FileSound, There

LEMMA SettledSound ==
  ASSUME NEW f \in Records(EditRecords), NEW tables, NEW names, Settled(f, tables), There(tables, names)
  PROVE  FileSound(f, names)
<1>1. Len(f.recs) \in Nat
  BY LenProperties DEF Records
<1> QED BY <1>1 DEF Settled, FileSound, NoTorn

\* A manifest cut by a crash.
LEMMA CutFileSound ==
  ASSUME NEW f \in Records(EditRecords), NEW names, FileSound(f, names), NEW k \in f.synced .. Len(f.recs)
  PROVE  FileSound([recs |-> SubSeq(f.recs, 1, k), synced |-> f.synced], names)
<1> DEFINE g == [recs |-> SubSeq(f.recs, 1, k), synced |-> f.synced]
<1>1. Len(g.recs) = k /\ \A i \in 1 .. k : g.recs[i] = f.recs[i]
  BY CutRecords
<1>2. g.synced = f.synced /\ f.synced \in Nat /\ k \in Nat /\ f.synced <= k /\ k <= Len(f.recs) /\ Len(f.recs) \in Nat
  BY LenProperties DEF Records
<1> HIDE DEF g
<1>3. g.synced > 0 => g.recs[g.synced] # TornEdit
  BY <1>1, <1>2 DEF FileSound
<1>4. ASSUME NEW j \in g.synced .. Len(g.recs), NoTorn(g.recs, j)
      PROVE  There(TablesOf(g.recs, j), names)
  <2>1. j \in Nat /\ j \in f.synced .. Len(f.recs) /\ \A i \in 1 .. j : g.recs[i] = f.recs[i]
    BY <1>1, <1>2
  <2>2. TablesOf(g.recs, j) = TablesOf(f.recs, j) /\ NoTorn(f.recs, j)
    BY <1>4, <2>1, TablesPrefix
  <2> QED BY <2>1, <2>2 DEF FileSound
<1>5. FileSound(g, names)
  BY <1>3, <1>4 DEF FileSound
<1> QED BY <1>5 DEF g

\* A record appended, which a crash may take back ...
LEMMA AppendFileSound ==
  ASSUME NEW f \in Records(EditRecords), NEW names, FileSound(f, names), NEW ed \in EditRecords,
         There(ed.add, names), NEW g, g.recs = f.recs \o <<ed>>, g.synced = f.synced
  PROVE  FileSound(g, names)
<1> DEFINE n == Len(f.recs)
<1>1. f.recs \in Seq(EditRecords) /\ n \in Nat /\ f.synced \in Nat /\ f.synced <= n
  BY LenProperties DEF Records
<1>2. /\ Len(g.recs) = n + 1 /\ \A i \in 1 .. n : g.recs[i] = f.recs[i]
      /\ TablesOf(g.recs, n + 1) = (TablesOf(f.recs, n) \ ed.del) \union ed.add
      /\ NoTorn(g.recs, n + 1) <=> NoTorn(f.recs, n) /\ ed # TornEdit
  BY <1>1, TablesNext
<1> HIDE DEF n
<1>3. g.synced > 0 => g.recs[g.synced] # TornEdit
  BY <1>1, <1>2 DEF FileSound
<1>4. ASSUME NEW k \in g.synced .. Len(g.recs), NoTorn(g.recs, k)
      PROVE  There(TablesOf(g.recs, k), names)
  <2>1. CASE k = n + 1
    <3>1. n \in f.synced .. Len(f.recs) /\ NoTorn(f.recs, n)
      BY <1>1, <1>2, <1>4, <2>1 DEF n
    <3>2. There(TablesOf(f.recs, n), names)
      BY <3>1 DEF FileSound
    <3> QED BY <1>2, <2>1, <3>2 DEF There
  <2>2. CASE k # n + 1
    <3>1. k \in Nat /\ k \in f.synced .. Len(f.recs) /\ \A i \in 1 .. k : g.recs[i] = f.recs[i]
      BY <1>1, <1>2, <1>4, <2>2 DEF n
    <3>2. TablesOf(g.recs, k) = TablesOf(f.recs, k) /\ NoTorn(f.recs, k)
      BY <1>4, <3>1, TablesPrefix
    <3> QED BY <3>1, <3>2 DEF FileSound
  <2> QED BY <2>1, <2>2
<1> QED BY <1>3, <1>4 DEF FileSound

\* ... or is synced.
LEMMA SyncedFileSound ==
  ASSUME NEW f \in Records(EditRecords), NEW names, FileSound(f, names), NEW ed \in EditRecords, ed # TornEdit,
         There(ed.add, names), NEW g, g.recs = f.recs \o <<ed>>, g.synced = Len(f.recs) + 1
  PROVE  FileSound(g, names)
<1> DEFINE n == Len(f.recs)
<1>1. f.recs \in Seq(EditRecords) /\ n \in Nat /\ f.synced \in Nat /\ f.synced <= n
  BY LenProperties DEF Records
<1>2. /\ Len(g.recs) = n + 1 /\ g.recs[n + 1] = ed
      /\ TablesOf(g.recs, n + 1) = (TablesOf(f.recs, n) \ ed.del) \union ed.add
      /\ NoTorn(g.recs, n + 1) <=> NoTorn(f.recs, n) /\ ed # TornEdit
  BY <1>1, TablesNext
<1>3. n \in f.synced .. Len(f.recs) /\ g.synced .. Len(g.recs) = {n + 1} /\ g.synced = n + 1
  BY <1>1, <1>2
<1> HIDE DEF n
<1>4. ASSUME NoTorn(g.recs, n + 1)
      PROVE  There(TablesOf(g.recs, n + 1), names)
  <2>1. There(TablesOf(f.recs, n), names)
    BY <1>2, <1>3, <1>4 DEF FileSound
  <2> QED BY <1>2, <2>1 DEF There
<1> QED BY <1>2, <1>3, <1>4 DEF FileSound

LEMMA SettledNext ==
  ASSUME NEW f \in Records(EditRecords), NEW tables, Settled(f, tables), NEW ed \in EditRecords, ed # TornEdit,
         NEW g, g.recs = f.recs \o <<ed>>, g.synced = Len(f.recs) + 1
  PROVE  Settled(g, (tables \ ed.del) \union ed.add)
<1> DEFINE n == Len(f.recs)
<1>1. f.recs \in Seq(EditRecords) /\ n \in Nat
  BY LenProperties DEF Records
<1>2. /\ Len(g.recs) = n + 1
      /\ TablesOf(g.recs, n + 1) = (TablesOf(f.recs, n) \ ed.del) \union ed.add
      /\ NoTorn(g.recs, n + 1) <=> NoTorn(f.recs, n) /\ ed # TornEdit
  BY <1>1, TablesNext
<1> QED BY <1>1, <1>2 DEF Settled

\* Recovery finds the tables that a readable manifest names.
LEMMA ReplayedThere ==
  ASSUME NEW f \in Records(EditRecords), NEW names, FileSound(f, names), ~Corrupt(f.recs)
  PROVE  There(Replayed(f.recs).tables, names)
<1> DEFINE recs == f.recs
           e == Edits(recs)
           n == Len(e)
<1>1. recs \in Seq(EditRecords) /\ Len(recs) \in Nat /\ f.synced \in Nat /\ f.synced <= Len(recs)
  BY LenProperties DEF Records
<1>2. /\ e \in Seq(EditRecords) /\ DOMAIN e = 1 .. n /\ n \in Nat /\ n \in {Len(recs), Len(recs) - 1}
      /\ \A i \in 1 .. n : i \in 1 .. Len(recs) /\ e[i] = recs[i]
  BY <1>1, EditsOf
<1>3. \A i \in 1 .. n : e[i] # TornEdit
  BY <1>2 DEF Corrupt
<1>4. NoTorn(recs, n)
  BY <1>2, <1>3 DEF NoTorn
<1>5. n \in f.synced .. Len(recs)
  <2>1. CASE n = Len(recs)
    BY <1>1, <2>1
  <2>2. CASE n # Len(recs)
    <3>1. recs # <<>> /\ recs[Len(recs)] = TornEdit
      BY <2>2 DEF Edits
    <3>2. f.synced # Len(recs)
      <4>1. Len(recs) > 0
        BY <1>1, <3>1, EmptySeq
      <4> QED BY <3>1, <4>1 DEF FileSound
    <3> QED BY <1>1, <1>2, <2>2, <3>2
  <2> QED BY <2>1, <2>2
<1>6. There(TablesOf(recs, n), names)
  BY <1>4, <1>5 DEF FileSound
<1> HIDE DEF e
<1>7. ASSUME NEW t \in Replayed(recs).tables
      PROVE  t \in TablesOf(recs, n)
  <2>1. Replayed(recs).tables = {x \in UNION {e[i].add : i \in DOMAIN e} :
                                   \E i \in DOMAIN e : x \in e[i].add /\ \A j \in i + 1 .. Len(e) : x \notin e[j].del}
    BY DEF Replayed, e
  <2>2. PICK i \in 1 .. n : t \in e[i].add /\ \A j \in i + 1 .. n : t \notin e[j].del
    BY <1>2, <1>7, <2>1
  <2>3. \A j \in i + 1 .. n : j \in 1 .. n
    BY <1>2, <2>2
  <2>4. e[i] \in EditRecords
    BY <1>2, <2>2, ElementOfSeq
  <2>5. t \in Tables
    BY <2>2, <2>4 DEF EditRecords
  <2> QED BY <1>2, <2>2, <2>3, <2>5 DEF TablesOf
<1> QED BY <1>6, <1>7 DEF There

(***************************************************************************)
(* The tables that the manifest, the versions and the thread in the        *)
(* background refer to are on the disk.                                    *)
(***************************************************************************)
Durable(d) == d.current # 0 => FileSound(d.manifests[d.current], DOMAIN d.tables)

OpenedInv ==
  /\ There(vs.tables \union comp.base, DOMAIN disk.tables) /\ comp.inputs \subseteq comp.base
  /\ \A r \in Reader : \A version \in pinned[r] : There(version, DOMAIN disk.tables)
  /\ ~bgerr => Settled(disk.manifests[vs.manifest], vs.tables)
  /\ bg.pc \in Committing => There(bg.edit.add, DOMAIN disk.tables)

FilesInv ==
  /\ Durable(disk)
  /\ up = "newcurrent" => FileSound(disk.manifests[1], DOMAIN disk.tables)
  /\ up \in Replaying => There(vs.tables \union rec.add, DOMAIN disk.tables)
  /\ up = "current" => Settled(disk.manifests[vs.manifest], vs.tables \union rec.add)
  /\ up \notin Replaying => rec.add = {}
  /\ up \in Opened => OpenedInv
  /\ up \notin Opened => comp = NoComp /\ \A r \in Reader : pinned[r] = NoVersion

\* DeleteObsoleteFiles keeps the tables of the versions in use.
LEMMA LiveKept ==
  ASSUME NEW d, IsDisk(d), NEW v, NEW c, NEW pend, NEW err \in BOOLEAN, NEW tables,
         There(tables, DOMAIN d.tables), tables \subseteq v.tables \union c.base \union UNION (UNION {pinned[r] : r \in Reader})
  PROVE  There(tables, DOMAIN DeleteObsoleteFiles(d, v, c, pend, err).tables)
<1> DEFINE e == DeleteObsoleteFiles(d, v, c, pend, err)
<1>1. /\ err => e = d
      /\ ~err => DOMAIN e.tables = DOMAIN d.tables \cap (pend \union AddLiveFiles(v, c))
  BY DeletedDisk
<1> HIDE DEF e
<1>2. ASSUME NEW f \in tables
      PROVE  f[2] \in AddLiveFiles(v, c)
  BY <1>2 DEF AddLiveFiles, Numbers
<1>3. There(tables, DOMAIN e.tables)
  <2>1. CASE err
    BY <1>1, <2>1
  <2>2. CASE ~err
    BY <1>1, <1>2, <2>2 DEF There
  <2> QED BY <2>1, <2>2
<1> QED BY <1>3 DEF e

LEMMA WriterFiles ==
  ASSUME BaseInv, FilesInv, NEW w \in Writer, Enter(w) \/ WriterStep(w)
  PROVE  FilesInv'
<1>1. WriterFrame
  BY WriterStepFrame DEF BaseInv
<1>2. UNCHANGED <<up, bg, comp, rec, pinned>> /\ (bgerr => bgerr')
  BY <1>1 DEF WriterFrame, callerVars
<1>3. /\ disk'.tables = disk.tables /\ disk'.manifests = disk.manifests /\ disk'.current = disk.current
      /\ vs'.tables = vs.tables /\ vs'.manifest = vs.manifest
  BY <1>1 DEF WriterFrame, SameTables, SameVersion
<1>4. Durable(disk')
  BY <1>3 DEF FilesInv, Durable
<1>5. up \in Opened => OpenedInv'
  BY <1>2, <1>3 DEF FilesInv, OpenedInv
<1> QED BY <1>2, <1>3, <1>4, <1>5 DEF FilesInv

\* Tables are added, the version stays.
LEMMA GrownFiles ==
  ASSUME BaseInv, FilesInv, up \in Opened, up' \in Opened,
         disk'.manifests = disk.manifests, disk'.current = disk.current,
         DOMAIN disk.tables \subseteq DOMAIN disk'.tables,
         vs'.tables = vs.tables, vs'.manifest = vs.manifest, bgerr => bgerr', UNCHANGED <<rec, pinned>>,
         comp'.base \subseteq comp.base \union vs.tables, comp'.inputs \subseteq comp'.base,
         bg'.pc \in Committing => There(bg'.edit.add, DOMAIN disk'.tables)
  PROVE  FilesInv'
<1>1. Durable(disk')
  BY MoreTables DEF FilesInv, Durable
<1>2. OpenedInv'
  BY DEF FilesInv, OpenedInv, There
<1>3. up' \notin Replaying /\ up' # "newcurrent" /\ up' # "current" /\ up \notin Replaying
  BY DEF Opened, Replaying
<1>4. rec'.add = {}
  BY <1>3 DEF FilesInv
<1> QED BY <1>1, <1>2, <1>3, <1>4 DEF FilesInv

\* The manifest's record is torn or not synced: the tables of its prefixes are there.
LEMMA FailedDurable ==
  ASSUME BaseInv, FilesInv, bg.pc \in Committing, NEW d, IsDisk(d), SameTables(d), NEW e \in FailedWrites(d, bg.edit)
  PROVE  Durable(e) /\ e.tables = disk.tables /\ e.current = disk.current
<1>1. /\ up \in Opened /\ disk.current = vs.manifest /\ vs.manifest \in DOMAIN d.manifests
      /\ d.current = vs.manifest /\ d.tables = disk.tables /\ d.manifests = disk.manifests
  BY DEF BaseInv, BgInv, ManifestInv, SameTables, Committing
<1>2. bg.edit \in EditRecords /\ There(bg.edit.add, DOMAIN d.tables) /\ TornEdit \in EditRecords /\ TornEdit.add = {}
  BY <1>1 DEF BaseInv, TypesInv, BgTypes, IsBg, FilesInv, OpenedInv, TornEdit, EditRecords
<1> DEFINE f == d.manifests[vs.manifest]
           g == e.manifests[vs.manifest]
<1>3. PICK r \in {<<>>, <<TornEdit>>, <<bg.edit>>} : e = ManifestWith(d, r, FALSE)
  BY DEF FailedWrites
<1>4. r \in Seq(EditRecords)
  <2>1. <<>> \in Seq(EditRecords) /\ <<TornEdit>> \in Seq(EditRecords) /\ <<bg.edit>> \in Seq(EditRecords)
    BY <1>2
  <2> QED BY <1>3, <2>1
<1>5. /\ e.tables = d.tables /\ e.current = d.current
      /\ g = [recs |-> f.recs \o r, synced |-> f.synced]
  BY <1>1, <1>3, <1>4, ManifestDisk
<1>6. f \in Records(EditRecords)
  BY <1>1 DEF IsDisk, IsFiles
<1>7. g.recs = f.recs \o r /\ g.synced = f.synced
  BY <1>5
<1> HIDE DEF f, g
<1>8. disk.current # 0 => FileSound(g, DOMAIN d.tables)
  <2> SUFFICES ASSUME FileSound(f, DOMAIN d.tables)
               PROVE  FileSound(g, DOMAIN d.tables)
    BY <1>1 DEF FilesInv, Durable, f
  <2>1. CASE r = <<>>
    <3>1. g.recs = f.recs
      BY <1>6, <1>7, <2>1, ConcatEmptySeq DEF Records
    <3> QED BY <1>7, <3>1 DEF FileSound
  <2>2. CASE r = <<TornEdit>>
    <3>1. There(TornEdit.add, DOMAIN d.tables)
      BY <1>2 DEF There
    <3> QED BY <1>2, <1>6, <1>7, <2>2, <3>1, AppendFileSound
  <2>3. CASE r = <<bg.edit>>
    BY <1>2, <1>6, <1>7, <2>3, AppendFileSound
  <2> QED BY <1>3, <2>1, <2>2, <2>3
<1> QED BY <1>1, <1>5, <1>8 DEF Durable, g

\* Nothing is deleted then.
LEMMA FailedFiles ==
  ASSUME BaseInv, FilesInv, BackgroundStep, bg.pc \in Committing, disk' \in FailedWrites(disk, bg.edit),
         up' \in Opened, vs' = vs, bgerr' = TRUE, UNCHANGED <<rec, pinned>>,
         comp' \in {comp, NoComp}, bg'.pc \notin Committing
  PROVE  FilesInv'
<1>1. up \in Opened /\ IsDisk(disk) /\ SameTables(disk)
  BY BackgroundOpen DEF IsSound, SameTables
<1>2. Durable(disk') /\ disk'.tables = disk.tables /\ disk'.current = disk.current
  BY <1>1, FailedDurable
<1>3. OpenedInv'
  BY <1>1, <1>2 DEF FilesInv, OpenedInv, There, NoComp
<1>4. up' \notin Replaying /\ up' # "newcurrent" /\ up' # "current" /\ rec'.add = {}
  BY <1>1 DEF FilesInv, Opened, Replaying
<1> QED BY <1>2, <1>3, <1>4 DEF FilesInv

LEMMA DeletedManifests ==
  ASSUME NEW d, IsDisk(d), NEW v, NEW c, NEW pend, NEW err \in BOOLEAN, NEW e,
         e = DeleteObsoleteFiles(d, v, c, pend, err)
  PROVE  /\ e.current = d.current
         /\ err => e = d
         /\ ~err => DOMAIN e.manifests = {n \in DOMAIN d.manifests : n >= v.manifest}
         /\ \A n \in DOMAIN e.manifests : e.manifests[n] = d.manifests[n]
<1> DEFINE e0 == DeleteObsoleteFiles(d, v, c, pend, err)
<1>1. /\ e0.current = d.current
      /\ err => e0 = d
      /\ ~err => DOMAIN e0.manifests = {n \in DOMAIN d.manifests : n >= v.manifest}
      /\ \A n \in DOMAIN e0.manifests : e0.manifests[n] = d.manifests[n]
  BY DeletedDisk
<1>2. e = e0
  OBVIOUS
<1> HIDE DEF e0
<1> QED BY <1>1, <1>2

Pinned(names) == \A r \in Reader : \A version \in pinned[r] : There(version, names)
ManifestOf(d, n) == d.manifests[n]

\* The deletion of files keeps what is in use, and the manifest.
LEMMA LiveDeleted ==
  ASSUME NEW d, IsDisk(d), NEW c, NEW pend, NEW err \in BOOLEAN, NEW v, NEW e,
         e = DeleteObsoleteFiles(d, v, c, pend, err),
         There(v.tables \union c.base, DOMAIN d.tables),
         Pinned(DOMAIN d.tables),
         v.manifest \in Nat, v.manifest \in DOMAIN d.manifests
  PROVE  /\ There(v.tables \union c.base, DOMAIN e.tables)
         /\ Pinned(DOMAIN e.tables)
         /\ e.current = d.current /\ ManifestOf(e, v.manifest) = ManifestOf(d, v.manifest)
         /\ e = d \/ ~err
<1>1. /\ e.current = d.current
      /\ err => e = d
      /\ ~err => DOMAIN e.manifests = {n \in DOMAIN d.manifests : n >= v.manifest}
      /\ \A n \in DOMAIN e.manifests : e.manifests[n] = d.manifests[n]
  BY DeletedManifests
<1>2. v.tables \union c.base \subseteq v.tables \union c.base \union UNION (UNION {pinned[r] : r \in Reader})
  OBVIOUS
<1>3. There(v.tables \union c.base, DOMAIN e.tables)
  BY <1>2, LiveKept
<1>4. ASSUME NEW r \in Reader, NEW version \in pinned[r]
      PROVE  There(version, DOMAIN e.tables)
  <2>1. version \subseteq v.tables \union c.base \union UNION (UNION {pinned[q] : q \in Reader})
    OBVIOUS
  <2>2. There(version, DOMAIN d.tables)
    BY DEF Pinned
  <2> QED BY <2>1, <2>2, LiveKept
<1>5. e.manifests[v.manifest] = d.manifests[v.manifest]
  <2>1. CASE err
    BY <1>1, <2>1
  <2>2. CASE ~err
    <3>1. v.manifest >= v.manifest
      OBVIOUS
    <3>2. v.manifest \in DOMAIN e.manifests
      BY <1>1, <2>2, <3>1
    <3> QED BY <1>1, <3>2
  <2> QED BY <2>1, <2>2
<1> QED BY <1>1, <1>3, <1>4, <1>5 DEF Pinned, ManifestOf

\* The record is synced, the version is installed and what is not live may be deleted.
Commit(d, c, pend) ==
  /\ vs' = LogAndApply(bg.edit) /\ d = ManifestWith(disk, <<bg.edit>>, TRUE)
  /\ disk' = d \/ disk' = DeleteObsoleteFiles(d, vs', c, pend, bgerr)
  /\ bgerr' = bgerr /\ (comp' = comp \/ comp' = NoComp) /\ c = comp'

LEMMA CommittedFiles ==
  ASSUME BaseInv, FilesInv, BackgroundStep, bg.pc \in Committing, NEW d, NEW c, NEW pend, Commit(d, c, pend),
         up' \in Opened, UNCHANGED <<rec, pinned>>, bg'.pc \notin Committing
  PROVE  FilesInv'
<1>1. /\ up \in Opened /\ IsSound(disk) /\ IsDisk(disk) /\ disk.current = vs.manifest
      /\ vs.manifest \in DOMAIN disk.manifests /\ IsVersionSet(vs)
  BY BackgroundOpen DEF IsSound
<1>2. /\ bg.edit \in EditRecords /\ There(bg.edit.add, DOMAIN disk.tables) /\ bg.edit.next > vs.manifest
      /\ bgerr \in BOOLEAN
  BY <1>1 DEF BaseInv, TypesInv, BgTypes, IsBg, FilesInv, OpenedInv, ManifestInv
<1>3. bg.edit # TornEdit
  BY <1>1, <1>2 DEF IsVersionSet, TornEdit
<1> DEFINE f == disk.manifests[vs.manifest]
           g == d.manifests[vs.manifest]
           t == (vs.tables \ bg.edit.del) \union bg.edit.add
<1>4. vs'.tables = t /\ vs'.manifest = vs.manifest
  BY <1>1 DEF LogAndApply, IsVersionSet, Commit
<1>5. <<bg.edit>> \in Seq(EditRecords) /\ Len(<<bg.edit>>) = 1
  BY <1>2
<1>6. /\ IsDisk(d) /\ d.tables = disk.tables /\ d.current = disk.current
      /\ g = [recs |-> f.recs \o <<bg.edit>>, synced |-> Len(f.recs) + Len(<<bg.edit>>)]
  BY <1>1, <1>5, ManifestDisk DEF Commit
<1> HIDE DEF f, g, t
<1>7. g.recs = f.recs \o <<bg.edit>> /\ g.synced = Len(f.recs) + 1
  BY <1>5, <1>6
<1>8. f \in Records(EditRecords) /\ g \in Records(EditRecords)
  <2>1. vs.manifest \in DOMAIN d.manifests
    BY <1>1, <1>5, ManifestDisk DEF Commit
  <2> QED BY <1>1, <1>6, <2>1 DEF IsDisk, IsFiles, f, g
<1>9. There(vs.tables \union comp.base, DOMAIN disk.tables) /\ comp.inputs \subseteq comp.base
      /\ \A r \in Reader : \A version \in pinned[r] : There(version, DOMAIN disk.tables)
  BY <1>1 DEF FilesInv, OpenedInv
<1>10. ~bgerr => Settled(g, t)
  BY <1>1, <1>2, <1>3, <1>7, <1>8, SettledNext DEF FilesInv, OpenedInv, f, t
<1>11. disk.current # 0 => FileSound(g, DOMAIN d.tables)
  BY <1>1, <1>2, <1>3, <1>6, <1>7, <1>8, SyncedFileSound DEF FilesInv, Durable, f
<1>12. There(t \union c.base, DOMAIN d.tables)
  <2>1. c.base \subseteq comp.base
    BY DEF NoComp, Commit
  <2>2. t \subseteq vs.tables \union bg.edit.add
    BY DEF t
  <2> QED BY <1>2, <1>6, <1>9, <2>1, <2>2 DEF There
<1>13. /\ There(t \union c.base, DOMAIN disk'.tables)
       /\ \A r \in Reader : \A version \in pinned[r] : There(version, DOMAIN disk'.tables)
       /\ disk'.current = disk.current /\ disk'.manifests[vs.manifest] = g
       /\ disk' = d \/ ~bgerr
  <2>1. CASE disk' = d
    BY <1>6, <1>9, <1>12, <2>1 DEF g
  <2>2. CASE disk' = DeleteObsoleteFiles(d, vs', c, pend, bgerr)
    <3>1. There(vs'.tables \union c.base, DOMAIN d.tables)
      BY <1>4, <1>12
    <3>2. Pinned(DOMAIN d.tables)
      BY <1>6, <1>9 DEF Pinned
    <3>3. vs'.manifest \in Nat /\ vs'.manifest \in DOMAIN d.manifests
      BY <1>1, <1>4, <1>5, ManifestDisk DEF IsVersionSet, Commit
    <3>4. IsDisk(d)
      BY <1>6
    <3>5. bgerr \in BOOLEAN
      BY <1>2
    <3>6. /\ There(vs'.tables \union c.base, DOMAIN disk'.tables)
          /\ Pinned(DOMAIN disk'.tables)
          /\ disk'.current = d.current /\ ManifestOf(disk', vs'.manifest) = ManifestOf(d, vs'.manifest)
          /\ disk' = d \/ ~bgerr
      BY <2>2, <3>4, <3>1, <3>2, <3>3, <3>5, LiveDeleted
    <3> QED BY <1>4, <1>6, <3>6 DEF g, Pinned, ManifestOf
  <2> QED BY <2>1, <2>2 DEF Commit
<1>14. Durable(disk')
  <2>1. CASE disk' = d
    BY <1>1, <1>6, <1>11, <2>1 DEF Durable, g
  <2>2. CASE ~bgerr
    <3>1. There(t, DOMAIN disk'.tables)
      BY <1>13 DEF There
    <3>2. FileSound(g, DOMAIN disk'.tables)
      BY <1>8, <1>10, <2>2, <3>1, SettledSound
    <3> QED BY <1>1, <1>13, <3>2 DEF Durable
  <2> QED BY <1>13, <2>1, <2>2
<1>15. OpenedInv'
  <2>1. comp'.inputs \subseteq comp'.base
    BY <1>9 DEF NoComp, Commit
  <2>2. There(vs'.tables \union comp'.base, DOMAIN disk'.tables)
    BY <1>4, <1>13 DEF Commit
  <2>3. ~bgerr' => Settled(disk'.manifests[vs'.manifest], vs'.tables)
    BY <1>4, <1>10, <1>13 DEF Commit
  <2> QED BY <1>13, <2>1, <2>2, <2>3 DEF OpenedInv
<1>16. up' \notin Replaying /\ up' # "newcurrent" /\ up' # "current" /\ rec'.add = {}
  BY <1>1 DEF FilesInv, Opened, Replaying
<1> QED BY <1>14, <1>15, <1>16 DEF FilesInv

\* The background thread works in an open database, and on no reader's version.
LEMMA BackgroundStays ==
  ASSUME BaseInv, BackgroundStep
  PROVE  up \in Opened /\ up' \in Opened /\ UNCHANGED <<rec, pinned>>
<1>1. Placed
  BY CallFrame, FlushFrame, MoveFrame, CompactFrame, InstallFrame DEF BackgroundStep
<1>2. rec' = rec /\ pinned' = pinned
  BY BackgroundSignals
<1> QED BY <1>1, <1>2, BackgroundOpen DEF Placed

LEMMA EndNotCommitting ==
  ASSUME EndCall \/ EndFlush
  PROVE  bg'.pc \notin Committing
<1>1. bg' = NoBg \/ bg' = [NoBg EXCEPT !.pc = "compact"]
  BY DEF EndCall, EndFlush
<1>2. bg'.pc = "idle" \/ bg'.pc = "compact"
  BY <1>1 DEF NoBg
<1> QED BY <1>2 DEF Committing

\* Nothing on the disk changes.
LEMMA StillFiles ==
  ASSUME BaseInv, FilesInv, BackgroundStep, disk' = disk, vs'.tables = vs.tables, vs'.manifest = vs.manifest,
         bgerr => bgerr', comp'.base \subseteq comp.base \union vs.tables, comp'.inputs \subseteq comp'.base,
         bg'.pc \in Committing => There(bg'.edit.add, DOMAIN disk.tables)
  PROVE  FilesInv'
  BY BackgroundStays, GrownFiles

LEMMA CallFiles ==
  ASSUME BaseInv, FilesInv, BackgroundStep, CallIdle \/ CallFlush \/ CallMove \/ CallCompact
  PROVE  FilesInv'
<1>1. /\ UNCHANGED disk /\ UNCHANGED bgerr
  BY DEF CallIdle, CallFlush, CallMove, CallCompact
<1>2. /\ up \in Opened /\ IsVersionSet(vs)
      /\ There(vs.tables, DOMAIN disk.tables) /\ comp.inputs \subseteq comp.base
  BY BackgroundOpen DEF FilesInv, OpenedInv, There
<1>3. CASE CallIdle
  <2>1. UNCHANGED <<vs, comp>> /\ EndCall
    BY <1>3 DEF CallIdle
  <2> QED BY <1>1, <1>2, <2>1, EndNotCommitting, StillFiles
<1>4. CASE CallFlush
  <2>1. vs' = [vs EXCEPT !.next = @ + 1] /\ comp' = comp /\ bg' = [NoBg EXCEPT !.pc = "flush", !.num = vs.next]
    BY <1>4 DEF CallFlush, StartFlush, NewFileNumber
  <2>2. vs'.tables = vs.tables /\ vs'.manifest = vs.manifest
    BY <1>2, <2>1 DEF IsVersionSet
  <2>3. bg'.pc \notin Committing
    BY <2>1 DEF NoBg, Committing
  <2> QED BY <1>1, <1>2, <2>1, <2>2, <2>3, StillFiles
<1>5. CASE CallMove
  <2>1. PICK f \in vs.tables : bg' = [NoBg EXCEPT !.pc = "move", !.edit = Edit({<<1, f[2]>>}, {f}, vs)]
    BY <1>5 DEF CallMove
  <2>2. UNCHANGED <<vs, comp>>
    BY <1>5 DEF CallMove
  <2>3. bg'.edit = Edit({<<1, f[2]>>}, {f}, vs)
    BY <2>1 DEF NoBg
  <2>4. bg'.edit.add = {<<1, f[2]>>}
    BY <2>3 DEF Edit
  <2>5. There(bg'.edit.add, DOMAIN disk.tables)
    BY <1>2, <2>4 DEF There
  <2> QED BY <1>1, <1>2, <2>2, <2>5, StillFiles
<1>6. CASE CallCompact
  <2>1. PICK inputs \in SUBSET vs.tables : comp' = [NoComp EXCEPT !.on = TRUE, !.inputs = inputs, !.base = vs.tables]
    BY <1>6 DEF CallCompact
  <2>2. UNCHANGED vs /\ bg' = [NoBg EXCEPT !.pc = "compact"]
    BY <1>6 DEF CallCompact
  <2>3. comp'.base = vs.tables /\ comp'.inputs = inputs
    BY <2>1 DEF NoComp
  <2>4. bg'.pc \notin Committing
    BY <2>2 DEF NoBg, Committing
  <2> QED BY <1>1, <1>2, <2>2, <2>3, <2>4, StillFiles
<1> QED BY <1>3, <1>4, <1>5, <1>6

\* CompactMemTable: the table is built, then recorded.
LEMMA FlushFiles ==
  ASSUME BaseInv, FilesInv, BackgroundStep, FlushBuilt \/ FlushBuildFails \/ FlushLogged \/ FlushLogFails
  PROVE  FilesInv'
<1>1. /\ up \in Opened /\ up' \in Opened /\ IsSound(disk) /\ IsVersionSet(vs) /\ UNCHANGED <<rec, pinned>>
      /\ comp.inputs \subseteq comp.base /\ comp' = comp
  <2>1. comp' = comp
    BY DEF FlushBuilt, FlushBuildFails, FlushLogged, FlushLogFails
  <2> QED BY <2>1, BackgroundOpen, BackgroundStays DEF FilesInv, OpenedInv
<1>2. bgerr \in BOOLEAN /\ IsBg(bg) /\ bg.num \in Nat
  BY DEF BaseInv, TypesInv, BgTypes, IsBg
<1>3. CASE FlushBuilt
  <2> DEFINE batches == UNION imm
             Added(level) == IF batches = {} THEN {} ELSE {<<level, bg.num>>}
             v == [vs EXCEPT !.log = logfile]
  <2>1. /\ disk' = IF batches = {} THEN disk ELSE [disk EXCEPT !.tables = Extend(@, bg.num, batches)]
        /\ UNCHANGED vs
    BY <1>3 DEF FlushBuilt
  <2>2. \/ bgerr' = TRUE /\ EndFlush
        \/ /\ UNCHANGED bgerr
           /\ \E level \in {0, 1} : bg' = [bg EXCEPT !.pc = "flushlog", !.edit = Edit(Added(level), {}, v)]
    BY <1>3 DEF FlushBuilt
  <2> HIDE DEF batches
  <2>3. /\ disk'.manifests = disk.manifests /\ disk'.current = disk.current
        /\ DOMAIN disk.tables \subseteq DOMAIN disk'.tables
        /\ batches # {} => bg.num \in DOMAIN disk'.tables
    <3>1. CASE batches = {}
      BY <2>1, <3>1
    <3>2. CASE batches # {}
      <4>1. disk' = Tabled(disk, bg.num, batches)
        BY <2>1, <3>2 DEF Tabled
      <4> QED BY <1>1, <1>2, <4>1, NewTableDisk
    <3> QED BY <3>1, <3>2
  <2>4. bgerr => bgerr'
    BY <2>2
  <2>5. bg'.pc \in Committing => There(bg'.edit.add, DOMAIN disk'.tables)
    <3>1. CASE EndFlush
      BY <3>1, EndNotCommitting
    <3>2. ASSUME NEW level \in {0, 1}, bg' = [bg EXCEPT !.pc = "flushlog", !.edit = Edit(Added(level), {}, v)]
          PROVE  There(bg'.edit.add, DOMAIN disk'.tables)
      <4> HIDE DEF Added, v
      <4>1. bg'.edit = Edit(Added(level), {}, v)
        BY <1>2, <3>2 DEF IsBg
      <4>2. bg'.edit.add = Added(level)
        BY <4>1 DEF Edit
      <4>3. There(Added(level), DOMAIN disk'.tables)
        BY <2>3 DEF There, Added
      <4> QED BY <4>2, <4>3
    <3> QED BY <2>2, <3>1, <3>2
  <2> QED BY <1>1, <2>1, <2>3, <2>4, <2>5, GrownFiles
<1>4. CASE FlushBuildFails
  <2>1. EndFlush /\ UNCHANGED <<vs, disk>> /\ bgerr' = TRUE
    BY <1>4 DEF FlushBuildFails
  <2> QED BY <1>1, <2>1, EndNotCommitting, StillFiles
<1>5. CASE FlushLogged
  <2> DEFINE d == ManifestWith(disk, <<bg.edit>>, TRUE)
  <2>1. /\ vs' = LogAndApply(bg.edit) /\ UNCHANGED <<bgerr, comp, pending>> /\ EndFlush
        /\ disk' = DeleteObsoleteFiles(d, vs', comp, pending, bgerr)
    BY <1>5 DEF FlushLogged
  <2>2. Commit(d, comp, pending)
    BY <2>1 DEF Commit
  <2>3. bg.pc \in Committing
    BY <1>5 DEF FlushLogged, Committing
  <2>4. bg'.pc \notin Committing
    BY <2>1, EndNotCommitting
  <2> HIDE DEF d
  <2> QED BY <1>1, <2>2, <2>3, <2>4, CommittedFiles
<1>6. CASE FlushLogFails
  <2>1. /\ disk' \in FailedWrites(disk, bg.edit) /\ bg.pc \in Committing
        /\ EndFlush /\ UNCHANGED vs /\ bgerr' = TRUE
    BY <1>6 DEF FlushLogFails, Committing
  <2>2. bg'.pc \notin Committing
    BY <2>1, EndNotCommitting
  <2> QED BY <1>1, <2>1, <2>2, FailedFiles
<1> QED BY <1>3, <1>4, <1>5, <1>6

LEMMA MoveFiles ==
  ASSUME BaseInv, FilesInv, BackgroundStep, Moved \/ MoveFails
  PROVE  FilesInv'
<1>1. /\ up' \in Opened /\ UNCHANGED <<rec, pinned>> /\ comp' = comp /\ bg.pc \in Committing /\ EndCall
  BY BackgroundStays DEF Moved, MoveFails, Committing
<1>2. bg'.pc \notin Committing
  BY <1>1, EndNotCommitting
<1>3. CASE Moved
  <2> DEFINE d == ManifestWith(disk, <<bg.edit>>, TRUE)
  <2>1. Commit(d, comp, pending)
    BY <1>3 DEF Moved, Commit
  <2> HIDE DEF d
  <2> QED BY <1>1, <1>2, <2>1, CommittedFiles
<1>4. CASE MoveFails
  <2>1. disk' \in FailedWrites(disk, bg.edit) /\ UNCHANGED vs /\ bgerr' = TRUE
    BY <1>4 DEF MoveFails
  <2> QED BY <1>1, <1>2, <2>1, FailedFiles
<1> QED BY <1>3, <1>4

\* DoCompactionWork up to the output, which the version then gets.
LEMMA CompactFiles ==
  ASSUME BaseInv, FilesInv, BackgroundStep, CompactImm \/ OpenCompactionOutputFile \/ FinishCompactionOutputFile
  PROVE  FilesInv'
<1>1. /\ up \in Opened /\ up' \in Opened /\ IsSound(disk) /\ IsVersionSet(vs) /\ UNCHANGED <<rec, pinned>>
      /\ comp.inputs \subseteq comp.base /\ IsComp(comp)
  BY BackgroundOpen, BackgroundStays DEF FilesInv, OpenedInv, BaseInv, TypesInv, BgTypes
<1>2. UNCHANGED bgerr
  BY DEF CompactImm, OpenCompactionOutputFile, FinishCompactionOutputFile
<1>3. CASE CompactImm
  <2>1. /\ vs' = [vs EXCEPT !.next = @ + 1] /\ comp' = comp /\ UNCHANGED disk
        /\ bg' = [NoBg EXCEPT !.pc = "flush", !.num = vs.next]
    BY <1>3 DEF CompactImm, StartFlush, NewFileNumber
  <2>2. vs'.tables = vs.tables /\ vs'.manifest = vs.manifest
    BY <1>1, <2>1 DEF IsVersionSet
  <2>3. bg'.pc \notin Committing
    BY <2>1 DEF NoBg, Committing
  <2> QED BY <1>1, <1>2, <2>1, <2>2, <2>3, StillFiles
<1>4. CASE OpenCompactionOutputFile
  <2>1. /\ vs' = [vs EXCEPT !.next = @ + 1] /\ comp' = [comp EXCEPT !.out = {vs.next}] /\ UNCHANGED <<bg, disk>>
        /\ bg.pc = "compact"
    BY <1>4 DEF OpenCompactionOutputFile, NewFileNumber
  <2>2. vs'.tables = vs.tables /\ vs'.manifest = vs.manifest
    BY <1>1, <2>1 DEF IsVersionSet
  <2>3. bg'.pc \notin Committing
    BY <2>1 DEF Committing
  <2>4. comp'.base = comp.base /\ comp'.inputs = comp.inputs
    BY <1>1, <2>1 DEF IsComp
  <2> QED BY <1>1, <1>2, <2>1, <2>2, <2>3, <2>4, StillFiles
<1>5. CASE FinishCompactionOutputFile
  <2> DEFINE merged == UNION {disk.tables[m] : m \in Numbers(comp.inputs)}
  <2>1. PICK n \in comp.out :
          /\ disk' = [disk EXCEPT !.tables = Extend(@, n, merged)]
          /\ bg' = [NoBg EXCEPT !.pc = "install", !.edit = Edit({<<1, n>>}, comp.inputs, vs)]
    BY <1>5 DEF FinishCompactionOutputFile
  <2>2. UNCHANGED <<vs, comp>> /\ n \in Nat
    BY <1>1, <1>5 DEF FinishCompactionOutputFile, IsComp
  <2>3. disk' = Tabled(disk, n, merged)
    BY <2>1 DEF Tabled
  <2> HIDE DEF merged
  <2>4. /\ disk'.manifests = disk.manifests /\ disk'.current = disk.current
        /\ DOMAIN disk.tables \subseteq DOMAIN disk'.tables /\ n \in DOMAIN disk'.tables
    BY <1>1, <2>2, <2>3, NewTableDisk
  <2>5. bg'.edit = Edit({<<1, n>>}, comp.inputs, vs)
    BY <2>1 DEF NoBg
  <2>6. bg'.edit.add = {<<1, n>>}
    BY <2>5 DEF Edit
  <2>7. There(bg'.edit.add, DOMAIN disk'.tables)
    BY <2>4, <2>6 DEF There
  <2> QED BY <1>1, <1>2, <2>2, <2>4, <2>7, GrownFiles
<1> QED BY <1>3, <1>4, <1>5

\* After an error nothing is deleted at the end of a compaction.
LEMMA EndCompactKeeps ==
  ASSUME NEW d, EndCompact(d), bgerr' = TRUE
  PROVE  disk' = d /\ comp' = NoComp /\ bg'.pc \notin Committing
<1>1. EndCall /\ comp' = NoComp /\ disk' = DeleteObsoleteFiles(d, vs', NoComp, pending', bgerr')
  BY DEF EndCompact
<1>2. disk' = d
  BY <1>1 DEF DeleteObsoleteFiles
<1> QED BY <1>1, <1>2, EndNotCommitting

LEMMA InstallFiles ==
  ASSUME BaseInv, FilesInv, BackgroundStep, CompactStops \/ Installed \/ InstallFails
  PROVE  FilesInv'
<1>1. up' \in Opened /\ UNCHANGED <<rec, pinned>> /\ NoComp.base = {} /\ NoComp.inputs = {}
  BY BackgroundStays DEF NoComp
<1>2. CASE CompactStops
  <2>1. EndCompact(disk) /\ UNCHANGED vs /\ bgerr' = TRUE
    BY <1>2 DEF CompactStops
  <2>2. disk' = disk /\ comp' = NoComp /\ bg'.pc \notin Committing
    BY <2>1, EndCompactKeeps
  <2> QED BY <1>1, <2>1, <2>2, StillFiles
<1>3. CASE Installed
  <2> DEFINE d == ManifestWith(disk, <<bg.edit>>, TRUE)
  <2>1. EndCompact(d) /\ UNCHANGED bgerr /\ vs' = LogAndApply(bg.edit) /\ bg.pc \in Committing
    BY <1>3 DEF Installed, Committing
  <2>2. /\ comp' = NoComp /\ EndCall
        /\ disk' = DeleteObsoleteFiles(d, vs', NoComp, pending', bgerr)
    BY <2>1 DEF EndCompact
  <2>3. Commit(d, NoComp, pending')
    BY <2>1, <2>2 DEF Commit
  <2>4. bg'.pc \notin Committing
    BY <2>2, EndNotCommitting
  <2> HIDE DEF d
  <2> QED BY <1>1, <2>1, <2>3, <2>4, CommittedFiles
<1>4. CASE InstallFails
  <2>1. PICK d \in FailedWrites(disk, bg.edit) : EndCompact(d)
    BY <1>4 DEF InstallFails
  <2>2. UNCHANGED vs /\ bgerr' = TRUE /\ bg.pc \in Committing
    BY <1>4 DEF InstallFails, Committing
  <2>3. disk' = d /\ comp' = NoComp /\ bg'.pc \notin Committing
    BY <2>1, <2>2, EndCompactKeeps
  <2> QED BY <1>1, <2>1, <2>2, <2>3, FailedFiles
<1> QED BY <1>2, <1>3, <1>4

LEMMA BackgroundFiles ==
  ASSUME BaseInv, FilesInv, BackgroundStep
  PROVE  FilesInv'
  BY CallFiles, FlushFiles, MoveFiles, CompactFiles, InstallFiles DEF BackgroundStep

-----------------------------------------------------------------------------
(***************************************************************************)
(* What a crash leaves.                                                    *)
(***************************************************************************)
\* CURRENT is being set to a manifest whose tables are there.
LEMMA PointedDurable ==
  ASSUME NEW d, IsSound(d), NEW n \in DOMAIN d.manifests, FileSound(d.manifests[n], DOMAIN d.tables)
  PROVE  Durable(Pointed(d, n))
<1>1. Pointed(d, n).current = n /\ Pointed(d, n).tables = d.tables /\ Pointed(d, n).manifests = d.manifests
  BY PointedSound
<1> QED BY <1>1 DEF Durable

LEMMA InterruptedDurable ==
  ASSUME BaseInv, FilesInv, NEW e \in Interrupted
  PROVE  Durable(e)
<1>1. PICK d \in LogWrites : \/ e = d
                             \/ bg.pc \in Committing /\ e \in FailedWrites(d, bg.edit)
                             \/ up = "newcurrent" /\ e = Pointed(d, 1)
                             \/ up = "current" /\ e = Pointed(d, vs.manifest)
  BY InterruptedCases
<1>2. /\ IsSound(d) /\ IsDisk(d) /\ SameTables(d)
      /\ d.tables = disk.tables /\ d.manifests = disk.manifests /\ d.current = disk.current
  BY LogWritesSound DEF SameTables, IsSound
<1>3. CASE e = d
  BY <1>2, <1>3 DEF FilesInv, Durable
<1>4. CASE bg.pc \in Committing /\ e \in FailedWrites(d, bg.edit)
  BY <1>2, <1>4, FailedDurable
<1>5. CASE up = "newcurrent" /\ e = Pointed(d, 1)
  <2> DEFINE n == 1
  <2>1. n \in DOMAIN d.manifests /\ FileSound(d.manifests[n], DOMAIN d.tables) /\ e = Pointed(d, n)
    BY <1>2, <1>5 DEF BaseInv, ManifestInv, FilesInv
  <2> HIDE DEF n
  <2> QED BY <1>2, <2>1, PointedDurable
<1>6. CASE up = "current" /\ e = Pointed(d, vs.manifest)
  <2>1. vs.manifest \in DOMAIN d.manifests /\ d.manifests[vs.manifest] \in Records(EditRecords)
    BY <1>2, <1>6 DEF BaseInv, ManifestInv, IsDisk, IsFiles
  <2>2. /\ Settled(d.manifests[vs.manifest], vs.tables \union rec.add)
        /\ There(vs.tables \union rec.add, DOMAIN d.tables)
    BY <1>2, <1>6 DEF FilesInv, Replaying
  <2>3. FileSound(d.manifests[vs.manifest], DOMAIN d.tables)
    BY <2>1, <2>2, SettledSound
  <2> QED BY <1>2, <1>6, <2>1, <2>3, PointedDurable
<1> QED BY <1>1, <1>3, <1>4, <1>5, <1>6

\* Records that were not synced are lost with the machine.
LEMMA CutDurable ==
  ASSUME NEW d, IsSound(d), Durable(d), NEW e \in PowerLosses(d)
  PROVE  Durable(e)
<1>1. IsDisk(d) /\ e.tables = d.tables /\ e.current = d.current /\ IsCut(e.manifests, d.manifests)
  BY PowerLossDisk DEF IsSound
<1> SUFFICES ASSUME d.current # 0
             PROVE  FileSound(e.manifests[d.current], DOMAIN d.tables)
  BY <1>1 DEF Durable
<1> DEFINE f == d.manifests[d.current]
<1>2. d.current \in DOMAIN d.manifests /\ f \in Records(EditRecords) /\ FileSound(f, DOMAIN d.tables)
  BY <1>1 DEF IsSound, CurrentThere, IsDisk, IsFiles, Durable
<1>3. PICK k \in f.synced .. Len(f.recs) :
        e.manifests[d.current] = [recs |-> SubSeq(f.recs, 1, k), synced |-> f.synced]
  BY <1>1, <1>2 DEF IsCut
<1> HIDE DEF f
<1>4. FileSound([recs |-> SubSeq(f.recs, 1, k), synced |-> f.synced], DOMAIN d.tables)
  BY <1>2, <1>3, CutFileSound
<1> QED BY <1>3, <1>4

LEMMA SurvivorDurable ==
  ASSUME BaseInv, FilesInv, NEW kind, NEW e \in Survivors(kind)
  PROVE  Durable(e)
<1>1. \/ e \in Interrupted
      \/ \E d \in Interrupted : e \in PowerLosses(d)
  BY DEF Survivors
<1> QED BY <1>1, InterruptedDurable, InterruptedSound, CutDurable

LEMMA ResetFiles ==
  ASSUME Reset, up' = "closed", Durable(disk')
  PROVE  FilesInv'
<1>1. /\ comp' = NoComp /\ rec' = [logs |-> {}, add |-> {}] /\ pinned' = [r \in Reader |-> NoVersion]
  BY DEF Reset
<1>2. rec'.add = {} /\ \A r \in Reader : pinned'[r] = NoVersion
  BY <1>1
<1> QED BY <1>1, <1>2 DEF FilesInv, Opened, Replaying

LEMMA CrashFiles ==
  ASSUME BaseInv, FilesInv, NEW kind \in Crashes, Crash(kind)
  PROVE  FilesInv'
<1>1. disk' \in Survivors(kind) /\ up' = "closed" /\ Reset
  BY DEF Crash
<1>2. Durable(disk')
  BY <1>1, SurvivorDurable
<1> QED BY <1>1, <1>2, ResetFiles

LEMMA CloseFiles ==
  ASSUME BaseInv, FilesInv, Close \/ Closing
  PROVE  FilesInv'
<1>1. CASE /\ UNCHANGED vs /\ UNCHANGED <<bgerr, bg, comp>>
           /\ UNCHANGED <<rec, pinned, disk>> /\ up \in Opened /\ up' \in Opened
  <2>1. OpenedInv'
    BY <1>1 DEF FilesInv, OpenedInv
  <2> QED BY <1>1, <2>1 DEF FilesInv, Opened, Replaying
<1>2. CASE Reset /\ up' = "closed" /\ UNCHANGED disk
  BY <1>2, ResetFiles DEF FilesInv
<1> QED BY <1>1, <1>2 DEF Close, Closing, Opened

LEMMA ReaderFiles ==
  ASSUME BaseInv, FilesInv, NEW r \in Reader, GetBegins(r) \/ GetEnds(r)
  PROVE  FilesInv'
<1>1. UNCHANGED <<vs, up>> /\ UNCHANGED <<bgerr, bg, comp>> /\ UNCHANGED <<rec, disk>>
  BY DEF GetBegins, GetEnds
<1>2. pinned \in [Reader -> SUBSET Versions]
  BY DEF BaseInv, TypesInv, OpenTypes
<1>3. \A q \in Reader : pinned'[q] = pinned[q] \/ pinned'[q] = NoVersion \/ (up = "open" /\ pinned'[q] = {vs.tables})
  BY <1>2 DEF GetBegins, GetEnds
<1>4. up \in Opened => OpenedInv'
  <2>1. ASSUME up \in Opened, NEW q \in Reader, NEW version \in pinned'[q]
        PROVE  There(version, DOMAIN disk.tables)
    <3>1. \A version1 \in pinned[q] : There(version1, DOMAIN disk.tables)
      BY <2>1 DEF FilesInv, OpenedInv
    <3>2. There(vs.tables, DOMAIN disk.tables)
      BY <2>1 DEF FilesInv, OpenedInv, There
    <3> QED BY <1>3, <2>1, <3>1, <3>2 DEF NoVersion
  <2> QED BY <1>1, <2>1 DEF FilesInv, OpenedInv
<1>5. up \notin Opened => \A q \in Reader : pinned'[q] = NoVersion
  BY <1>3 DEF FilesInv, Opened
<1> QED BY <1>1, <1>4, <1>5 DEF FilesInv

-----------------------------------------------------------------------------
(***************************************************************************)
(* What DB::Open finds and leaves.                                         *)
(***************************************************************************)
\* A manifest of one record names the tables that the record adds.
LEMMA OneRecord ==
  ASSUME NEW f, NEW ed \in EditRecords, f.recs = <<ed>>
  PROVE  /\ Len(f.recs) = 1 /\ f.recs[1] = ed /\ TablesOf(f.recs, 0) = {} /\ TablesOf(f.recs, 1) = ed.add
<1>1. Len(f.recs) = 1 /\ f.recs[1] = ed
  OBVIOUS
<1>2. ed.add \subseteq Tables
  BY DEF EditRecords
<1>3. TablesOf(f.recs, 0) = {}
  BY DEF TablesOf
<1>4. TablesOf(f.recs, 1) = ed.add
  BY <1>1, <1>2 DEF TablesOf
<1> QED BY <1>1, <1>3, <1>4

\* While the database is not open, only the files and the edit matter.
LEMMA OpeningFiles ==
  ASSUME FilesInv, UNCHANGED openRest, up \notin Opened, up' \notin Opened, Durable(disk'),
         up' = "newcurrent" => FileSound(disk'.manifests[1], DOMAIN disk'.tables),
         up' \in Replaying => There(vs'.tables \union rec'.add, DOMAIN disk'.tables),
         up' = "current" => Settled(disk'.manifests[vs'.manifest], vs'.tables \union rec'.add),
         up' \notin Replaying => rec'.add = {}
  PROVE  FilesInv'
<1>1. UNCHANGED <<comp, pinned>>
  BY DEF openRest
<1> QED BY <1>1 DEF FilesInv

LEMMA CreateFiles ==
  ASSUME BaseInv, FilesInv, Open \/ NewDB \/ SetCurrentFile
  PROVE  FilesInv'
<1>1. UNCHANGED openRest /\ UNCHANGED <<vs, rec>> /\ up \notin Opened /\ up \notin Replaying
  BY DEF Open, NewDB, SetCurrentFile, Opened, Replaying
<1>2. IsSound(disk) /\ rec'.add = {}
  BY <1>1 DEF BaseInv, ManifestInv, FilesInv
<1>3. CASE Open
  <2>1. UNCHANGED disk /\ (up' = "create" \/ up' = "recover")
    BY <1>3 DEF Open
  <2>2. Durable(disk')
    BY <2>1 DEF FilesInv
  <2> QED BY <1>1, <1>2, <2>1, <2>2, OpeningFiles DEF Opened, Replaying
<1>4. CASE NewDB
  <2> DEFINE first == Edit({}, {}, [log |-> 0, next |-> 2, last |-> 0])
             num == 1
             sy == 0
  <2>1. first \in EditRecords /\ first.next > 1 /\ first.add = {}
    BY DEF Edit, EditRecords
  <2>2. /\ up = "create" /\ up' = "newcurrent" /\ disk' = Manifested(disk, num, first, sy)
        /\ num \in Nat /\ sy \in Nat /\ sy <= 1 /\ first.next > num
    BY <1>4, <2>1 DEF NewDB, Manifested
  <2> HIDE DEF first, num, sy
  <2>3. disk'.current = disk.current /\ disk'.manifests[num].recs = <<first>> /\ disk'.manifests[num].synced = sy
    BY <1>2, <2>1, <2>2, NewManifestDisk
  <2>4. disk'.current = 0
    BY <2>2, <2>3 DEF BaseInv, ManifestInv
  <2> DEFINE f == disk'.manifests[num]
  <2>5. Len(f.recs) = 1 /\ TablesOf(f.recs, 0) = {} /\ TablesOf(f.recs, 1) = {}
    BY <2>1, <2>3, OneRecord
  <2>6. f.synced = 0
    BY <2>3 DEF sy
  <2> HIDE DEF f
  <2>7. FileSound(f, DOMAIN disk'.tables)
    <3>1. \A k \in 0 .. 1 : k = 0 \/ k = 1
      OBVIOUS
    <3>2. \A k \in 0 .. 1 : TablesOf(f.recs, k) = {}
      BY <2>5, <3>1
    <3>3. There({}, DOMAIN disk'.tables)
      BY DEF There
    <3> QED BY <2>5, <2>6, <3>2, <3>3 DEF FileSound
  <2>8. FileSound(disk'.manifests[1], DOMAIN disk'.tables)
    BY <2>7 DEF f, num
  <2> QED BY <1>1, <1>2, <2>2, <2>4, <2>8, OpeningFiles DEF Opened, Replaying, Durable
<1>5. CASE SetCurrentFile
  <2> DEFINE num == 1
  <2>1. up = "newcurrent" /\ up' = "recover" /\ disk' = Pointed(disk, num)
    BY <1>5 DEF SetCurrentFile, Pointed
  <2>2. num \in DOMAIN disk.manifests /\ FileSound(disk.manifests[num], DOMAIN disk.tables)
    BY <2>1 DEF BaseInv, ManifestInv, FilesInv
  <2> HIDE DEF num
  <2>3. Durable(disk')
    BY <1>2, <2>1, <2>2, PointedDurable
  <2> QED BY <1>1, <1>2, <2>1, <2>3, OpeningFiles DEF Opened, Replaying
<1> QED BY <1>3, <1>4, <1>5

LEMMA RecoverFiles ==
  ASSUME BaseInv, FilesInv, Recover
  PROVE  FilesInv'
<1> DEFINE f == disk.manifests[disk.current]
           v == Replayed(f.recs)
<1>1. UNCHANGED openRest /\ UNCHANGED disk /\ up = "recover" /\ up \notin Opened /\ rec.add = {}
  BY DEF Recover, FilesInv, Opened, Replaying
<1>2. f \in Records(EditRecords) /\ FileSound(f, DOMAIN disk.tables) /\ Durable(disk)
  BY <1>1 DEF BaseInv, ManifestInv, IsSound, CurrentThere, IsDisk, IsFiles, FilesInv, Durable
<1>3. CASE up' = "unusable" /\ UNCHANGED rec
  BY <1>1, <1>2, <1>3, OpeningFiles DEF Opened, Replaying
<1>4. CASE /\ ~Corrupt(f.recs) /\ up' = "replay" /\ rec' = [rec EXCEPT !.logs = LogsToReplay(disk, v)]
           /\ vs' = [tables |-> v.tables, log |-> v.log, last |-> v.last, manifest |-> v.next, next |-> v.next + 1]
  <2>1. There(v.tables, DOMAIN disk.tables)
    BY <1>2, <1>4, ReplayedThere
  <2> HIDE DEF v, f
  <2>2. vs'.tables = v.tables /\ rec'.add = {}
    <3>1. rec \in [logs : SUBSET Nat, add : Versions]
      BY DEF BaseInv, TypesInv, OpenTypes
    <3> QED BY <1>1, <1>4, <3>1
  <2>3. vs'.tables \union rec'.add = v.tables
    BY <2>2
  <2> QED BY <1>1, <1>2, <1>4, <2>1, <2>3, OpeningFiles DEF Opened, Replaying
<1> QED BY <1>3, <1>4 DEF Recover

LEMMA ReplayFiles ==
  ASSUME BaseInv, FilesInv, RecoverLogFile
  PROVE  FilesInv'
<1> DEFINE n == CHOOSE k \in rec.logs : \A m \in rec.logs : k <= m
           found == InLog(disk.logs[n].recs)
           used == IF found = {} THEN vs.next ELSE vs.next + 1
           h == Highest({used, n + 1})
           s == MaxSequence(vs.last, found)
<1>1. /\ UNCHANGED openRest /\ up' = up /\ up = "replay"
      /\ rec' = [logs |-> rec.logs \ {n},
                 add |-> IF found = {} THEN rec.add ELSE rec.add \union {<<0, vs.next>>}]
      /\ disk' = IF found = {} THEN disk ELSE [disk EXCEPT !.tables = Extend(@, vs.next, found)]
      /\ vs' = [vs EXCEPT !.next = h, !.last = s]
  BY DEF RecoverLogFile
<1> HIDE DEF n, found, used, h, s
<1>2. IsSound(disk) /\ IsVersionSet(vs) /\ vs.next \in Nat
  BY DEF BaseInv, ManifestInv, TypesInv, IsVersionSet
<1>3. vs'.tables = vs.tables
  BY <1>1, <1>2 DEF IsVersionSet
<1>4. There(vs.tables \union rec.add, DOMAIN disk.tables) /\ Durable(disk)
  BY <1>1 DEF FilesInv, Replaying
<1>5. Durable(disk') /\ There(vs'.tables \union rec'.add, DOMAIN disk'.tables)
  <2>1. CASE found = {}
    <3>1. disk' = disk /\ rec'.add = rec.add
      BY <1>1, <2>1
    <3> QED BY <1>3, <1>4, <3>1
  <2>2. CASE found # {}
    <3>1. disk' = Tabled(disk, vs.next, found) /\ rec'.add = rec.add \union {<<0, vs.next>>}
      BY <1>1, <2>2 DEF Tabled
    <3>2. /\ disk'.manifests = disk.manifests /\ disk'.current = disk.current
          /\ DOMAIN disk'.tables = DOMAIN disk.tables \union {vs.next}
      BY <1>2, <3>1, NewTableDisk
    <3>3. Durable(disk')
      BY <1>4, <3>2, MoreTables DEF Durable
    <3> QED BY <1>3, <1>4, <3>1, <3>2, <3>3 DEF There
  <2> QED BY <2>1, <2>2
<1> QED BY <1>1, <1>5, OpeningFiles DEF Opened, Replaying

LEMMA OpenLogFiles ==
  ASSUME BaseInv, FilesInv, OpenLog \/ OpenManifest
  PROVE  FilesInv'
<1>1. UNCHANGED openRest /\ UNCHANGED rec /\ up \in Replaying /\ up \notin Opened
  BY DEF OpenLog, OpenManifest, Replaying, Opened
<1>2. /\ IsSound(disk) /\ IsDisk(disk) /\ IsVersionSet(vs) /\ rec \in [logs : SUBSET Nat, add : Versions]
      /\ logfile \in Nat /\ vs.next \in Nat /\ vs.manifest \in Nat
      /\ disk.current < vs.manifest /\ disk.current \in Nat /\ vs.manifest < vs.next
  BY <1>1 DEF BaseInv, TypesInv, ManifestInv, OpenTypes, MemTypes, IsVersionSet, IsDisk
<1>3. There(vs.tables \union rec.add, DOMAIN disk.tables) /\ Durable(disk)
  BY <1>1 DEF FilesInv
<1>4. CASE OpenLog
  <2>1. vs' = [vs EXCEPT !.next = @ + 1] /\ up' = "manifest" /\ disk' = WithLog(disk, vs.next)
    BY <1>4 DEF OpenLog, WithLog
  <2>2. vs'.tables = vs.tables
    BY <1>2, <2>1 DEF IsVersionSet
  <2>3. disk'.tables = disk.tables /\ disk'.manifests = disk.manifests /\ disk'.current = disk.current
    BY <1>2, <2>1, NewLogDisk
  <2>4. Durable(disk')
    BY <1>3, <2>3 DEF Durable
  <2> QED BY <1>1, <1>3, <2>1, <2>2, <2>3, <2>4, OpeningFiles DEF Opened, Replaying
<1>5. CASE OpenManifest
  <2> DEFINE v == [vs EXCEPT !.log = logfile]
             t == vs.tables \union rec.add
             first == Edit(t, {}, v)
             sy == 1
  <2>1. /\ UNCHANGED vs /\ up' = "current"
        /\ disk' = Manifested(disk, vs.manifest, first, sy) /\ sy \in Nat /\ sy <= 1
    BY <1>5 DEF OpenManifest, Manifested
  <2>2. v.log \in Nat /\ v.next = vs.next /\ v.next \in Nat /\ v.last \in Nat
    BY <1>2 DEF IsVersionSet
  <2> HIDE DEF v
  <2>3. t \in Versions /\ {} \in Versions
    BY <1>2 DEF IsVersionSet, Versions
  <2>4. first \in EditRecords /\ first.next = vs.next
    BY <2>2, <2>3, EditType
  <2>5. first.add = t
    BY DEF Edit
  <2> HIDE DEF first, sy, t
  <2>6. first.next > vs.manifest /\ first.next # 0
    BY <1>2, <2>4
  <2>7. first # TornEdit
    BY <2>6 DEF TornEdit
  <2> DEFINE f == disk'.manifests[vs.manifest]
  <2>8. /\ disk'.current = disk.current /\ disk'.tables = disk.tables
        /\ f.recs = <<first>> /\ f.synced = sy
        /\ \A m \in DOMAIN disk.manifests \ {vs.manifest} : disk'.manifests[m] = disk.manifests[m]
    BY <1>2, <2>1, <2>4, <2>6, NewManifestDisk
  <2>9. Durable(disk')
    <3>1. disk.current # 0 => disk.current \in DOMAIN disk.manifests \ {vs.manifest}
      BY <1>2 DEF IsSound, CurrentThere
    <3> QED BY <1>3, <2>8, <3>1 DEF Durable
  <2>10. f.synced = 1
    BY <2>8 DEF sy
  <2> HIDE DEF f
  <2>11. Len(f.recs) = 1 /\ f.recs[1] = first /\ TablesOf(f.recs, 1) = t
    BY <2>4, <2>5, <2>8, OneRecord
  <2>12. Settled(f, t)
    BY <2>7, <2>10, <2>11 DEF Settled, NoTorn
  <2>13. Settled(disk'.manifests[vs'.manifest], vs'.tables \union rec'.add)
    BY <1>1, <2>1, <2>12 DEF f, t
  <2> QED BY <1>1, <1>3, <2>1, <2>8, <2>9, <2>13, OpeningFiles DEF Opened, Replaying
<1> QED BY <1>4, <1>5

LEMMA OpenCurrentFiles ==
  ASSUME BaseInv, FilesInv, OpenCurrent
  PROVE  FilesInv'
<1> DEFINE t == vs.tables \union rec.add
           d == Pointed(disk, vs.manifest)
           none == {}
           err == FALSE
<1>1. /\ UNCHANGED openRest /\ up = "current" /\ up' = "open"
      /\ vs' = [vs EXCEPT !.tables = t, !.log = logfile]
      /\ disk' = DeleteObsoleteFiles(d, vs', NoComp, none, err) /\ rec' = [logs |-> {}, add |-> {}]
  BY DEF OpenCurrent, Pointed
<1>2. /\ comp' = comp /\ pinned' = pinned /\ bg' = bg /\ bg.pc = "idle"
      /\ comp = NoComp /\ \A r \in Reader : pinned[r] = NoVersion
  BY <1>1, NotOpened DEF openRest, FilesInv, Opened
<1>3. /\ IsSound(disk) /\ IsVersionSet(vs) /\ vs.manifest \in DOMAIN disk.manifests
  BY <1>1 DEF BaseInv, TypesInv, ManifestInv
<1>4. Settled(disk.manifests[vs.manifest], t) /\ There(t, DOMAIN disk.tables)
  BY <1>1 DEF FilesInv, Replaying
<1> HIDE DEF t
<1>5. vs'.tables = t /\ vs'.manifest = vs.manifest
  BY <1>1, <1>3 DEF IsVersionSet
<1>6. /\ IsSound(d) /\ IsDisk(d) /\ d.current = vs.manifest /\ d.manifests = disk.manifests /\ d.tables = disk.tables
  BY <1>3, PointedSound DEF IsSound
<1>7. disk.manifests[vs.manifest] \in Records(EditRecords)
  BY <1>3 DEF IsSound, IsDisk, IsFiles
<1> HIDE DEF d
<1>8. There(vs'.tables \union NoComp.base, DOMAIN d.tables)
  BY <1>4, <1>5, <1>6 DEF There, NoComp
<1>9. Pinned(DOMAIN d.tables)
  BY <1>2 DEF Pinned, NoVersion
<1>10. vs'.manifest \in Nat /\ vs'.manifest \in DOMAIN d.manifests
  BY <1>3, <1>5, <1>6 DEF IsVersionSet
<1>11. err \in BOOLEAN
  OBVIOUS
<1> DEFINE c == NoComp
<1>12. disk' = DeleteObsoleteFiles(d, vs', c, none, err)
  BY <1>1
<1>13. IsDisk(d)
  BY <1>6
<1>14. There(vs'.tables \union c.base, DOMAIN d.tables)
  BY <1>8
<1> HIDE DEF none, err, c
<1>15. /\ There(vs'.tables \union c.base, DOMAIN disk'.tables)
       /\ Pinned(DOMAIN disk'.tables)
       /\ disk'.current = d.current /\ ManifestOf(disk', vs'.manifest) = ManifestOf(d, vs'.manifest)
       /\ disk' = d \/ ~err
  BY <1>9, <1>10, <1>11, <1>12, <1>14, <1>13, LiveDeleted, SMTT(60)
<1>16. /\ There(vs'.tables \union NoComp.base, DOMAIN disk'.tables)
       /\ disk'.current = d.current /\ ManifestOf(disk', vs'.manifest) = ManifestOf(d, vs'.manifest)
  BY <1>15 DEF c
<1>17. disk'.current = vs.manifest /\ disk'.manifests[vs.manifest] = disk.manifests[vs.manifest]
  BY <1>5, <1>6, <1>16 DEF ManifestOf
<1>18. There(t, DOMAIN disk'.tables)
  BY <1>5, <1>16 DEF There
<1>19. FileSound(disk.manifests[vs.manifest], DOMAIN disk'.tables)
  BY <1>4, <1>7, <1>18, SettledSound
<1>20. Durable(disk')
  BY <1>17, <1>19 DEF Durable
<1>21. There(vs'.tables \union comp'.base, DOMAIN disk'.tables) /\ comp'.inputs \subseteq comp'.base
  BY <1>2, <1>16 DEF NoComp
<1>22. \A r \in Reader : \A version \in pinned'[r] : There(version, DOMAIN disk'.tables)
  BY <1>2 DEF NoVersion
<1>23. Settled(disk'.manifests[vs'.manifest], vs'.tables)
  BY <1>4, <1>5, <1>17
<1>24. bg'.pc \notin Committing
  BY <1>2 DEF Committing
<1>25. OpenedInv'
  BY <1>21, <1>22, <1>23, <1>24 DEF OpenedInv
<1> QED BY <1>1, <1>20, <1>25 DEF FilesInv, Opened, Replaying

LEMMA OpenFailsFiles ==
  ASSUME BaseInv, FilesInv, OpenFails
  PROVE  FilesInv'
<1>1. IsSound(disk) /\ (up = "current" => vs.manifest # disk.current) /\ Reset /\ up' = "closed"
  BY DEF BaseInv, ManifestInv, Replaying, TypesInv, IsVersionSet, IsDisk, OpenFails
<1>2. Durable(disk')
  <2>1. CASE up = "current"
    <3>1. disk' = Dropped(disk, vs.manifest)
      BY <2>1 DEF OpenFails, Dropped
    <3>2. /\ disk'.current = disk.current /\ disk'.tables = disk.tables
          /\ DOMAIN disk'.manifests = DOMAIN disk.manifests \ {vs.manifest}
          /\ \A m \in DOMAIN disk'.manifests : disk'.manifests[m] = disk.manifests[m]
      BY <1>1, <2>1, <3>1, DroppedDisk
    <3>3. disk.current # 0 => disk.current \in DOMAIN disk'.manifests
      BY <1>1, <2>1, <3>2 DEF IsSound, CurrentThere
    <3> QED BY <3>2, <3>3 DEF FilesInv, Durable
  <2>2. CASE up # "current"
    BY <2>2 DEF OpenFails, FilesInv
  <2> QED BY <2>1, <2>2
<1> QED BY <1>1, <1>2, ResetFiles

-----------------------------------------------------------------------------
(***************************************************************************)
(* No file that is needed is deleted.                                      *)
(***************************************************************************)
LEMMA FilesInit ==
  ASSUME Init
  PROVE  FilesInv
<1>1. /\ up = "closed" /\ comp = NoComp /\ rec = [logs |-> {}, add |-> {}]
      /\ pinned = [r \in Reader |-> NoVersion] /\ disk.current = 0
  BY DEF Init
<1>2. rec.add = {} /\ \A r \in Reader : pinned[r] = NoVersion
  BY <1>1
<1> QED BY <1>1, <1>2 DEF FilesInv, Durable, Opened, Replaying

LEMMA FilesNext ==
  ASSUME BaseInv, FilesInv, [Next]_vars
  PROVE  FilesInv'
<1>1. CASE Open \/ OpenStep
  BY <1>1, CreateFiles, RecoverFiles, ReplayFiles, OpenLogFiles, OpenCurrentFiles, OpenFailsFiles DEF OpenStep
<1>2. CASE UNCHANGED vars
  <2>1. UNCHANGED <<up, vs, rec, comp>> /\ UNCHANGED <<pinned, disk, bg, bgerr>>
    BY <1>2 DEF vars
  <2> QED BY <2>1 DEF FilesInv, OpenedInv
<1>3. ASSUME NEW w \in Writer, Enter(w) \/ WriterStep(w)
      PROVE  FilesInv'
  BY <1>3, WriterFiles
<1> QED BY <1>1, <1>2, <1>3, BackgroundFiles, ReaderFiles, CloseFiles, CrashFiles DEF Next

LEMMA FilesAlways == Spec => [](BaseInv /\ FilesInv)
<1>1. Init => BaseInv /\ FilesInv
  BY BaseInit, FilesInit
<1>2. BaseInv /\ FilesInv /\ [Next]_vars => BaseInv' /\ FilesInv'
  BY BaseNext, FilesNext
<1> QED BY <1>1, <1>2, PTL DEF Spec

LEMMA ThereNumbers ==
  ASSUME NEW tables, NEW names, There(tables, names)
  PROVE  Numbers(tables) \subseteq names
  BY DEF There, Numbers

LEMMA FilesAreKept ==
  ASSUME BaseInv, FilesInv
  PROVE  FilesKept
<1>1. up = "open" => Numbers(vs.tables \union comp.inputs) \subseteq DOMAIN disk.tables
  <2>1. up = "open" => There(vs.tables \union comp.inputs, DOMAIN disk.tables)
    BY DEF FilesInv, OpenedInv, Opened, There
  <2> QED BY <2>1, ThereNumbers
<1>2. ASSUME NEW r \in Reader, NEW version \in pinned[r]
      PROVE  Numbers(version) \subseteq DOMAIN disk.tables
  <2>1. There(version, DOMAIN disk.tables)
    BY <1>2 DEF FilesInv, OpenedInv, NoVersion
  <2> QED BY <2>1, ThereNumbers
<1>3. ASSUME NEW d \in Survivors("process"), d.current # 0, d.current \in DOMAIN d.manifests,
             ~Corrupt(d.manifests[d.current].recs)
      PROVE  Numbers(Replayed(d.manifests[d.current].recs).tables) \subseteq DOMAIN d.tables
  <2> DEFINE f == d.manifests[d.current]
  <2>1. IsSound(d) /\ Durable(d)
    BY <1>3, SurvivorSound, SurvivorDurable
  <2>2. f \in Records(EditRecords) /\ FileSound(f, DOMAIN d.tables)
    BY <1>3, <2>1 DEF IsSound, IsDisk, IsFiles, Durable
  <2>3. ~Corrupt(f.recs)
    BY <1>3
  <2> HIDE DEF f
  <2>4. There(Replayed(f.recs).tables, DOMAIN d.tables)
    BY <2>2, <2>3, ReplayedThere
  <2>5. Numbers(Replayed(f.recs).tables) \subseteq DOMAIN d.tables
    BY <2>4, ThereNumbers
  <2> QED BY <2>5 DEF f
<1>4. disk.current # 0 => disk.current \in DOMAIN disk.manifests
  BY DEF BaseInv, ManifestInv, IsSound, CurrentThere
<1> QED BY <1>1, <1>2, <1>3, <1>4 DEF FilesKept

\* However flushes, moves and compactions, their failures, readers and crashes
\* interleave, DeleteObsoleteFiles deletes no table that a version in use, a
\* compaction's inputs, a reader or the manifest that a recovery would read
\* refers to, and CURRENT names a manifest that is there.
THEOREM FilesKeptHolds == Spec => []FilesKept
<1>1. BaseInv /\ FilesInv => FilesKept
  BY FilesAreKept
<1> QED BY <1>1, FilesAlways, PTL

-----------------------------------------------------------------------------
(***************************************************************************)
(* The sequence numbers.  A batch is stored where a table, a log or a      *)
(* memtable holds it.  The stored batches have numbers of their own, none  *)
(* above last_sequence_ but those of the group that is being logged.       *)
(***************************************************************************)
Tabulated(d, w) == \E n \in DOMAIN d.tables : w \in d.tables[n]
Recorded(d, w) == \E n \in DOMAIN d.logs : \E i \in 1 .. Len(d.logs[n].recs) : w \in d.logs[n].recs[i]
Held(w) == w \in mem \/ \E m \in imm : w \in m
Stored(w) == Tabulated(disk, w) \/ Recorded(disk, w) \/ Held(w)

Queued(w) == \E i \in 1 .. Len(queue) : queue[i] = w
InSync(p) == \E w \in Writer : p[w] = "sync"
Busy(p) == \E w \in Writer : p[w] \in {"log", "sync"}

TablesTyped(d) == \A n \in DOMAIN d.tables : d.tables[n] \subseteq Batches

GroupStamped ==
  /\ \A w \in Group : vs.last < seq[w] /\ seq[w] <= vs.last + Cardinality(Group)
  /\ \A v, w \in Group : v # w => seq[v] # seq[w]

StampInv ==
  /\ TablesTyped(disk)
  /\ \A v, w \in Batches : Stored(v) /\ Stored(w) /\ v # w => seq[v] # seq[w]
  /\ \A w \in Batches : /\ Stored(w) => pc[w] # "idle"
                        /\ Tabulated(disk, w) \/ Held(w) => ~Queued(w)
                        /\ Recorded(disk, w) /\ Queued(w) => InSync(pc) /\ w \in Group
  /\ up \in Opened => \A w \in Batches : Stored(w) /\ ~Queued(w) => seq[w] <= vs.last
  /\ Busy(pc) => GroupStamped
  /\ up \notin Opened => mem = {} /\ imm = NoMem

(***************************************************************************)
(* The numbers that a manifest saves.  An edit saves a file number above   *)
(* all tables up to it and a sequence number above all batches in them, so *)
(* that recovery from any part of the manifest goes on with fresh numbers. *)
(***************************************************************************)
Current(d) == d.manifests[d.current]

\* The tables with numbers, and with batches, up to these.
Below(tables, next) == \A x \in tables : x[2] < next
Covered(s, files, tables, last) == \A x \in tables : x[2] \in DOMAIN files => \A w \in files[x[2]] : s[w] <= last

TakenBelow(f, next) == \A i \in 1 .. Len(f.recs) : Below(f.recs[i].add, next)
NotTaken(f, n) == \A i \in 1 .. Len(f.recs) : \A x \in f.recs[i].add : x[2] # n

Saves(s, files, f) ==
  \A j \in 1 .. Len(f.recs) : f.recs[j] # TornEdit =>
    /\ f.recs[j].log <= f.recs[j].next
    /\ \A i \in 1 .. j : Below(f.recs[i].add, f.recs[j].next) /\ Covered(s, files, f.recs[i].add, f.recs[j].last)

AllCovered(s, files, last) == \A n \in DOMAIN files : \A w \in files[n] : s[w] <= last

\* While logs are replayed, and then for the new log.
ReplayNumbers ==
  /\ disk.current # 0 /\ TakenBelow(Current(disk), vs.next) /\ vs.log <= vs.next
  /\ Below(vs.tables \union rec.add, vs.next) /\ Covered(seq, disk.tables, vs.tables \union rec.add, vs.last)
  /\ \A n \in DOMAIN disk.logs \ rec.logs : n < vs.next
  /\ up \in {"manifest", "current"} =>
       /\ rec.logs = {} /\ logfile <= vs.next
       /\ \A n \in DOMAIN disk.logs : n < logfile \/ (n = logfile /\ disk.logs[n].recs = <<>>)
  /\ up = "current" => TakenBelow(disk.manifests[vs.manifest], vs.next)

\* The numbers of the thread's files are not in the manifest yet.
OpenNumbers ==
  /\ disk.current # 0 /\ TakenBelow(Current(disk), vs.next) /\ Below(vs.tables, vs.next)
  /\ logfile <= vs.next /\ vs.log <= vs.next
  /\ \A n \in comp.out : n < vs.next /\ NotTaken(Current(disk), n)
  /\ comp.out # {} => comp.on /\ bg.pc \notin {"idle", "move"}
  /\ bg.pc = "compact" => comp.on
  /\ bg.pc = "flush" => bg.num < vs.next /\ bg.num \notin comp.out /\ NotTaken(Current(disk), bg.num)
  /\ bg.pc \in Committing =>
       /\ bg.edit.next <= vs.next /\ bg.edit.log <= bg.edit.next
       /\ Below(bg.edit.add, bg.edit.next) /\ TakenBelow(Current(disk), bg.edit.next)
       /\ AllCovered(seq, disk.tables, bg.edit.last)
  /\ bg.pc = "flushlog" => \A x \in bg.edit.add : x[2] \notin comp.out

NumberInv ==
  /\ disk.current # 0 => Saves(seq, disk.tables, Current(disk))
  /\ up = "newcurrent" => Saves(seq, disk.tables, disk.manifests[1])
  /\ up = "current" => Saves(seq, disk.tables, disk.manifests[vs.manifest])
  /\ up \in Replaying => ReplayNumbers
  /\ up \in Opened => OpenNumbers

\* The batches of a group get the numbers after last_sequence_, one each.
LEMMA SequenceStamps ==
  ASSUME WriterInv, vs.last \in Nat, NEW n \in 1 .. Len(queue)
  PROVE  LET g == {queue[i] : i \in {j \in 1 .. n : IsBatch(queue[j])}}
         IN  /\ \A w \in g : vs.last < SetSequence(n)[w] /\ SetSequence(n)[w] <= vs.last + Cardinality(g)
             /\ \A v, w \in g : v # w => SetSequence(n)[v] # SetSequence(n)[w]
             /\ \A w \in Writer \ g : SetSequence(n)[w] = seq[w]
<1> DEFINE I == {j \in 1 .. n : IsBatch(queue[j])}
           g == {queue[i] : i \in I}
           Upto(k) == {i \in I : i <= k}
<1>1. /\ n \in Nat /\ n <= Len(queue) /\ Len(queue) \in Nat
      /\ \A i \in 1 .. n : queue[i] \in Writer
      /\ \A i, j \in 1 .. n : queue[i] = queue[j] => i = j
  <2>1. n \in Nat /\ n <= Len(queue) /\ Len(queue) \in Nat /\ queue \in Seq(Writer)
    BY LeadType
  <2>2. \A i \in 1 .. n : i \in 1 .. Len(queue)
    BY <2>1
  <2>3. \A i \in 1 .. n : queue[i] \in Writer
    BY <2>1, <2>2, ElementOfSeq
  <2> QED BY <2>1, <2>2, <2>3 DEF WriterInv, WritersSound
<1>2. IsFiniteSet(I) /\ IsFiniteSet(g) /\ Cardinality(I) = Cardinality(g) /\ Cardinality(I) \in Nat
  <2>1. IsFiniteSet(I) /\ Cardinality(I) \in Nat
    <3>1. IsFiniteSet(1 .. n)
      BY <1>1, FS_Interval
    <3> QED BY <3>1, FS_Subset, FS_CardinalityType
  <2> DEFINE f == [i \in I |-> queue[i]]
  <2>2. f \in [I -> g] /\ \A i, j \in I : f[i] = f[j] => i = j
    BY <1>1
  <2>3. \A w \in g : \E i \in I : f[i] = w
    OBVIOUS
  <2>4. f \in Surjection(I, g) /\ f \in Injection(I, g)
    <3> HIDE DEF f, g, I
    <3> QED BY <2>2, <2>3, Zenon DEF Surjection, Injection, IsInjective
  <2> HIDE DEF f, g, I
  <2> QED BY <2>1, <2>4, FS_Surjection
<1>3. ASSUME NEW k \in I
      PROVE  SetSequence(n)[queue[k]] = vs.last + Cardinality(Upto(k))
  <2>1. k \in 1 .. n /\ queue[k] \in Writer /\ IsBatch(queue[k])
    BY <1>1
  <2> DEFINE S == {i \in 1 .. n : IsBatch(queue[i]) /\ \E j \in i .. n : queue[j] = queue[k]}
  <2>2. ASSUME NEW i \in 1 .. n
        PROVE  (\E j \in i .. n : queue[j] = queue[k]) <=> i <= k
    <3>1. \A j \in i .. n : j \in 1 .. n /\ i <= j
      BY <1>1
    <3>2. i <= k => k \in i .. n
      BY <1>1, <2>1
    <3> QED BY <1>1, <2>1, <3>1, <3>2
  <2>3. S = Upto(k)
    BY <2>2
  <2>4. SetSequence(n)[queue[k]] = vs.last + Cardinality(S)
    <3>1. \E j \in 1 .. n : queue[j] = queue[k] /\ IsBatch(queue[k])
      BY <2>1
    <3> QED BY <2>1, <3>1 DEF SetSequence
  <2> QED BY <2>3, <2>4
<1>4. \A k \in I : Upto(k) \subseteq I /\ IsFiniteSet(Upto(k)) /\ Cardinality(Upto(k)) \in Nat
                   /\ Cardinality(Upto(k)) <= Cardinality(I)
  BY <1>2, FS_Subset, FS_CardinalityType
<1>5. ASSUME NEW k \in I PROVE Cardinality(Upto(k)) > 0
  <2>1. k \in Upto(k)
    BY <1>1
  <2>2. Cardinality(Upto(k)) # 0
    BY <1>4, <2>1, FS_EmptySet
  <2> HIDE DEF Upto, I
  <2> QED BY <1>4, <2>2
<1>6. ASSUME NEW k \in I, NEW l \in I, k < l
      PROVE  Cardinality(Upto(k)) # Cardinality(Upto(l))
  <2>1. Upto(k) \subseteq Upto(l) /\ l \in Upto(l) /\ l \notin Upto(k)
    BY <1>1, <1>6
  <2>2. Upto(k) # Upto(l)
    BY <2>1
  <2> QED BY <1>4, <2>1, <2>2, FS_Subset
<1>7. \A k, l \in I : k # l => Cardinality(Upto(k)) # Cardinality(Upto(l))
  <2> SUFFICES ASSUME NEW k \in I, NEW l \in I, k # l
               PROVE  Cardinality(Upto(k)) # Cardinality(Upto(l))
    OBVIOUS
  <2>1. k < l \/ l < k
    BY <1>1
  <2> HIDE DEF Upto, I
  <2> QED BY <1>6, <2>1
<1>8. ASSUME NEW w \in Writer \ g
      PROVE  SetSequence(n)[w] = seq[w]
  <2>1. ~\E k \in 1 .. n : queue[k] = w /\ IsBatch(w)
    BY <1>8
  <2> QED BY <1>8, <2>1 DEF SetSequence
<1>9. \A w \in g : vs.last < SetSequence(n)[w] /\ SetSequence(n)[w] <= vs.last + Cardinality(g)
  <2> SUFFICES ASSUME NEW k \in I
               PROVE  LET s == SetSequence(n)[queue[k]] IN vs.last < s /\ s <= vs.last + Cardinality(g)
    OBVIOUS
  <2> HIDE DEF Upto, I, g
  <2> QED BY <1>2, <1>3, <1>4, <1>5
<1>10. \A v, w \in g : v # w => SetSequence(n)[v] # SetSequence(n)[w]
  <2> SUFFICES ASSUME NEW k \in I, NEW l \in I, queue[k] # queue[l]
               PROVE  SetSequence(n)[queue[k]] # SetSequence(n)[queue[l]]
    OBVIOUS
  <2> HIDE DEF Upto, I, g
  <2> QED BY <1>3, <1>4, <1>7
<1> QED BY <1>8, <1>9, <1>10

\* Nothing that is stored is in the queue but the group of a leader in Sync.
LEMMA StoredOutside ==
  ASSUME StampInv, WriterInv, NEW w \in Batches, Stored(w), Queued(w)
  PROVE  InSync(pc) /\ w \in Group
  BY DEF StampInv, Stored

\* The numbers of a group are above those of all that was stored before.
LEMMA GroupDistinct ==
  ASSUME StampInv, WriterInv, vs.last \in Nat, up \in Opened, Busy(pc), NEW v \in Batches, NEW w \in Batches,
         Stored(v) \/ v \in Group, Stored(w) \/ w \in Group, v # w
  PROVE  seq[v] # seq[w]
<1>1. seq[v] \in Nat /\ seq[w] \in Nat
  BY DEF WriterInv, Batches
<1>2. ASSUME NEW x \in Batches, Stored(x), x \notin Group
      PROVE  seq[x] <= vs.last
  <2>1. ~Queued(x)
    BY <1>2, StoredOutside
  <2> QED BY <1>2, <2>1 DEF StampInv
<1>3. /\ \A x \in Group : vs.last < seq[x]
      /\ \A x, y \in Group : x # y => seq[x] # seq[y]
  BY DEF StampInv, GroupStamped
<1>4. CASE v \in Group /\ w \in Group
  BY <1>3, <1>4
<1>5. CASE v \notin Group /\ w \notin Group
  BY <1>5 DEF StampInv
<1>6. CASE v \in Group /\ w \notin Group
  <2>1. seq[w] <= vs.last /\ vs.last < seq[v]
    BY <1>2, <1>3, <1>6
  <2> QED BY <1>1, <2>1
<1>7. CASE v \notin Group /\ w \in Group
  <2>1. seq[v] <= vs.last /\ vs.last < seq[w]
    BY <1>2, <1>3, <1>7
  <2> QED BY <1>1, <2>1
<1> QED BY <1>4, <1>5, <1>6, <1>7

(***************************************************************************)
(* A step that stores nothing new and leaves the group in Sync alone.      *)
(***************************************************************************)
Shrinks == /\ TablesTyped(disk')
           /\ \A w \in Batches : /\ Tabulated(disk', w) \/ Held(w)' => Tabulated(disk, w) \/ Held(w)
                                 /\ Recorded(disk', w) => Recorded(disk, w)

LEMMA ShrinksStored ==
  ASSUME Shrinks, NEW w \in Batches, Stored(w)'
  PROVE  Stored(w)
  BY DEF Shrinks, Stored

Undisturbed ==
  /\ \A w \in Batches : /\ Stored(w) /\ Queued(w)' => Queued(w)
                        /\ pc'[w] = "idle" => pc[w] = "idle"
  /\ Busy(pc') => Busy(pc) /\ Group' = Group
  /\ InSync(pc) => /\ InSync(pc') /\ Group' = Group
                   /\ \A w \in Batches : Queued(w) => Queued(w)'

LEMMA RestStamp ==
  ASSUME StampInv, WriterInv, Shrinks, seq' = seq, vs'.last = vs.last, up \in Opened <=> up' \in Opened,
         up' \notin Opened => mem' = {} /\ imm' = NoMem,
         Undisturbed
  PROVE  StampInv'
<1>1. \A v, w \in Batches : Stored(v)' /\ Stored(w)' /\ v # w => seq'[v] # seq'[w]
  BY ShrinksStored DEF StampInv, Undisturbed
<1>2. ASSUME NEW w \in Batches
      PROVE  /\ Stored(w)' => pc'[w] # "idle"
             /\ Tabulated(disk', w) \/ Held(w)' => ~Queued(w)'
             /\ Recorded(disk', w) /\ Queued(w)' => InSync(pc') /\ w \in Group'
  <2>1. Stored(w)' => pc'[w] # "idle"
    BY ShrinksStored DEF StampInv, Undisturbed
  <2>2. ASSUME Tabulated(disk', w) \/ Held(w)' PROVE ~Queued(w)'
    <3>1. (Tabulated(disk, w) \/ Held(w)) /\ Stored(w)
      BY <2>2 DEF Shrinks, Stored
    <3> QED BY <3>1 DEF StampInv, Undisturbed
  <2>3. ASSUME Recorded(disk', w), Queued(w)' PROVE InSync(pc') /\ w \in Group'
    <3>1. Recorded(disk, w) /\ Queued(w)
      BY <2>3 DEF Shrinks, Stored, Undisturbed
    <3> QED BY <3>1 DEF StampInv, Undisturbed
  <2> QED BY <2>1, <2>2, <2>3
<1>3. ASSUME up' \in Opened, NEW w \in Batches, Stored(w)', ~Queued(w)'
      PROVE  seq'[w] <= vs'.last
  <2>1. Stored(w)
    BY <1>3, ShrinksStored
  <2>2. ~Queued(w)
    BY <1>3, <2>1, StoredOutside DEF Undisturbed
  <2> QED BY <1>3, <2>1, <2>2 DEF StampInv
<1>4. Busy(pc') => GroupStamped'
  BY DEF StampInv, GroupStamped, Undisturbed
<1> QED BY <1>1, <1>2, <1>3, <1>4 DEF StampInv, Shrinks

\* The members of a group are at the front of the queue.
LEMMA GroupQueued ==
  ASSUME WriterInv, NEW w \in Group
  PROVE  Queued(w) /\ w \in Batches /\ pc[w] # "idle"
<1>1. PICK i \in 1 .. lead.group : queue[i] = w
  BY DEF Group
<1>2. i \in 1 .. Len(queue)
  BY <1>1, LeadType
<1>3. w \in Batches
  BY GroupBatches
<1> QED BY <1>1, <1>2, <1>3 DEF Queued, WriterInv, WritersSound, InQueue, Leading

\* After a leader has left, nobody leads, and the rest of the queue is left.
LEMMA FinishLeaves ==
  ASSUME WriterInv, NEW w \in Writer, pc[w] \in Leading, NEW n \in 1 .. Len(queue), NEW s,
         NEW p \in {pc, SignalAll(pc)}, Finish(n, s, p)
  PROVE  /\ ~Busy(pc')
         /\ \A v \in Writer : Queued(v)' => Queued(v) /\ \A i \in 1 .. n : queue[i] # v
         /\ \A v \in Writer : pc'[v] = "idle" => pc[v] = "idle"
<1>1. /\ w = Leader /\ queue # <<>> /\ 1 \in 1 .. Len(queue)
      /\ \A v \in Writer : pc[v] \in Leading => v = w
  BY LeaderFacts
<1> DEFINE rest == SubSeq(queue, n + 1, Len(queue))
           followers == {queue[i] : i \in 2 .. n}
           next == IF rest = <<>> THEN {} ELSE {rest[1]}
<1>2. /\ queue' = rest
      /\ pc' = [v \in Writer |-> CASE v = Leader -> Returned(v, s)
                                   [] v \in followers \union next /\ p[v] = "wait" -> "signalled"
                                   [] OTHER -> p[v]]
  BY DEF Finish
<1>3. /\ queue \in Seq(Writer) /\ Len(queue) \in Nat /\ n \in Nat /\ n <= Len(queue) /\ n >= 1
  BY LeadType
<1>4. /\ rest \in Seq(Writer) /\ Len(rest) = Len(queue) - n
      /\ \A i \in 1 .. Len(rest) : rest[i] = queue[n + i]
  BY <1>3, SubSeqProperties
<1> HIDE DEF rest, followers, next
<1>5. \A v \in Writer : Queued(v)' => Queued(v) /\ \A i \in 1 .. n : queue[i] # v
  <2> SUFFICES ASSUME NEW v \in Writer, Queued(v)'
               PROVE  Queued(v) /\ \A i \in 1 .. n : queue[i] # v
    OBVIOUS
  <2>1. PICK k \in 1 .. Len(rest) : rest[k] = v
    BY <1>2 DEF Queued
  <2>2. n + k \in 1 .. Len(queue) /\ queue[n + k] = v /\ \A i \in 1 .. n : i \in 1 .. Len(queue) /\ i # n + k
    BY <1>3, <1>4, <2>1
  <2>3. \A i, j \in 1 .. Len(queue) : queue[i] = queue[j] => i = j
    BY DEF WriterInv, WritersSound
  <2> QED BY <2>2, <2>3 DEF Queued
<1>6. \A v \in Writer : p[v] = pc[v] \/ (p[v] \in {"room", "flush"} /\ pc[v] \in {"bgwait", "flushwait"})
  BY DEF SignalAll
<1>7. ASSUME NEW v \in Writer
      PROVE  pc'[v] \notin {"log", "sync"} /\ (pc'[v] = "idle" => pc[v] = "idle")
  <2>1. CASE v = Leader
    BY <1>2, <2>1, ReturnedPlace
  <2>2. CASE v # Leader
    <3>1. pc[v] \notin Leading
      BY <1>1, <2>2
    <3>2. pc'[v] \in {p[v], "signalled"}
      BY <1>2, <2>2
    <3> QED BY <1>6, <3>1, <3>2 DEF Leading
  <2> QED BY <2>1, <2>2
<1> QED BY <1>5, <1>7 DEF Busy

\* One thread moves, outside of the log.
LEMMA OneMoves ==
  ASSUME WriterInv, NEW w \in Writer, NEW place, place \notin {"log", "sync", "idle"}, pc[w] \notin {"log", "sync"},
         pc' = [pc EXCEPT ![w] = place]
  PROVE  /\ Busy(pc') <=> Busy(pc)
         /\ InSync(pc') <=> InSync(pc)
         /\ \A v \in Writer : pc'[v] = "idle" => pc[v] = "idle"
<1>1. pc'[w] = place /\ \A v \in Writer \ {w} : pc'[v] = pc[v]
  BY DEF WriterInv, WritersSound
<1> QED BY <1>1 DEF Busy, InSync

\* Nobody else is in the log while a writer leads.
LEMMA LeaderAlone ==
  ASSUME WriterInv, NEW w \in Writer, pc[w] \in Leading, pc[w] \notin {"log", "sync"}
  PROVE  ~Busy(pc) /\ ~InSync(pc)
  BY LeaderFacts DEF Busy, InSync, Leading

LEMMA SameShrinks ==
  ASSUME StampInv, UNCHANGED <<mem, imm, disk>>
  PROVE  Shrinks /\ \A w \in Batches : Stored(w)' <=> Stored(w)
  BY DEF StampInv, Shrinks, Held, Stored

\* The steps of the queue.
LEMMA QuietUndisturbed ==
  ASSUME BaseInv, StampInv, NEW w \in Writer,
         \/ Enter(w) \/ Woken(w) \/ RoomError(w) \/ RoomDelay(w) \/ Slept(w) \/ RoomWait(w)
         \/ SwitchFails(w) \/ Flush(w)
  PROVE  Undisturbed
<1>3. WriterInv /\ \A v \in Batches : v \in Writer
  BY DEF BaseInv, Batches
<1>4. CASE Enter(w)
  <2>1. /\ pc[w] = "idle" /\ queue' = Append(queue, w)
        /\ pc' = [pc EXCEPT ![w] = IF queue = <<>> THEN "room" ELSE "wait"]
        /\ lead' = IF queue = <<>> THEN TakeLead(w) ELSE lead
    BY <1>4 DEF Enter
  <2>2. queue \in Seq(Writer) /\ Len(queue) \in Nat /\ lead.group \in Nat /\ lead.group <= Len(queue)
    BY <1>3, LeadType
  <2>3. /\ Len(queue') = Len(queue) + 1 /\ queue'[Len(queue) + 1] = w
        /\ \A i \in 1 .. Len(queue) : queue'[i] = queue[i]
    BY <2>1, <2>2, AppendProperties
  <2>4. /\ Busy(pc') <=> Busy(pc)
        /\ InSync(pc') <=> InSync(pc)
        /\ \A v \in Writer : pc'[v] = "idle" => pc[v] = "idle"
    BY <1>3, <2>1, OneMoves
  <2>5. \A v \in Writer : (Queued(v)' => Queued(v) \/ v = w) /\ (Queued(v) => Queued(v)')
    <3>1. \A i \in 1 .. Len(queue') : i = Len(queue) + 1 \/ i \in 1 .. Len(queue)
      BY <2>2, <2>3
    <3>2. \A i \in 1 .. Len(queue) : i \in 1 .. Len(queue')
      BY <2>2, <2>3
    <3> QED BY <2>3, <3>1, <3>2 DEF Queued
  <2>6. Busy(pc) \/ InSync(pc) => Group' = Group
    <3>1. Busy(pc) \/ InSync(pc) => lead' = lead
      BY <1>3, <2>1 DEF Busy, InSync, WriterInv, WritersSound, Leading
    <3>2. \A i \in 1 .. lead.group : queue'[i] = queue[i]
      BY <2>2, <2>3
    <3>3. lead' = lead => Group' = Group
      BY <3>2 DEF Group
    <3> QED BY <3>1, <3>3
  <2>7. \A v \in Batches : Stored(v) => v # w
    BY <2>1 DEF StampInv
  <2> QED BY <1>3, <2>4, <2>5, <2>6, <2>7 DEF Undisturbed
<1>5. CASE Woken(w)
  <2>1. pc[w] = "signalled" /\ queue' = queue
    BY <1>5 DEF Woken
  <2>2. PICK place \in {"room", "wait", "flush", "done"} : pc' = [pc EXCEPT ![w] = place]
    BY <1>5, ReturnedPlace DEF Woken
  <2>3. /\ Busy(pc') <=> Busy(pc)
        /\ InSync(pc') <=> InSync(pc)
        /\ \A v \in Writer : pc'[v] = "idle" => pc[v] = "idle"
    BY <1>3, <2>1, <2>2, OneMoves
  <2>4. Busy(pc) \/ InSync(pc) => lead' = lead
    <3>1. Busy(pc) \/ InSync(pc) => w # Leader
      BY <1>3, <2>1, LeaderFacts DEF Busy, InSync, Leading
    <3> QED BY <1>5, <3>1 DEF Woken
  <2>5. Busy(pc) \/ InSync(pc) => Group' = Group
    BY <2>1, <2>4 DEF Group
  <2>6. \A v : Queued(v)' <=> Queued(v)
    BY <2>1 DEF Queued
  <2> QED BY <1>3, <2>3, <2>5, <2>6 DEF Undisturbed
<1>6. CASE RoomError(w) \/ SwitchFails(w)
  <2>1. pc[w] = "room" /\ Finish(1, "error", pc)
    BY <1>6 DEF RoomError, SwitchFails
  <2>2. pc[w] \in Leading /\ 1 \in 1 .. Len(queue)
    BY <1>3, <2>1, LeaderFacts DEF Leading
  <2>3. ~Busy(pc') /\ \A v \in Writer : (Queued(v)' => Queued(v)) /\ (pc'[v] = "idle" => pc[v] = "idle")
    BY <1>3, <2>1, <2>2, FinishLeaves
  <2>4. ~InSync(pc)
    BY <1>3, <2>1, <2>2, LeaderAlone
  <2> QED BY <1>3, <2>3, <2>4 DEF Undisturbed
<1>7. CASE RoomDelay(w) \/ RoomWait(w) \/ Slept(w)
  <2>1. pc[w] \in {"room", "sleep"} /\ queue' = queue
    BY <1>7 DEF RoomDelay, RoomWait, Slept
  <2>2. PICK place \in {"room", "sleep", "bgwait"} : pc' = [pc EXCEPT ![w] = place]
    BY <1>7 DEF RoomDelay, RoomWait, Slept
  <2>3. /\ Busy(pc') <=> Busy(pc)
        /\ \A v \in Writer : pc'[v] = "idle" => pc[v] = "idle"
    BY <1>3, <2>1, <2>2, OneMoves
  <2>4. ~InSync(pc) /\ ~Busy(pc)
    BY <1>3, <2>1, LeaderAlone DEF Leading
  <2>5. \A v : Queued(v)' <=> Queued(v)
    BY <2>1 DEF Queued
  <2> QED BY <1>3, <2>3, <2>4, <2>5 DEF Undisturbed
<1>8. CASE Flush(w)
  <2>1. pc[w] = "flush" /\ queue' = queue /\ lead' = lead
    BY <1>8 DEF Flush
  <2>2. PICK place \in {"flushwait", "done"} : pc' = [pc EXCEPT ![w] = place]
    BY <1>8 DEF Flush
  <2>3. /\ Busy(pc') <=> Busy(pc)
        /\ InSync(pc') <=> InSync(pc)
        /\ \A v \in Writer : pc'[v] = "idle" => pc[v] = "idle"
    BY <1>3, <2>1, <2>2, OneMoves
  <2>4. Group' = Group /\ \A v : Queued(v)' <=> Queued(v)
    BY <2>1 DEF Queued, Group
  <2> QED BY <1>3, <2>3, <2>4 DEF Undisturbed
<1> QED BY <1>4, <1>5, <1>6, <1>7, <1>8

LEMMA QuietStamp ==
  ASSUME BaseInv, StampInv, NEW w \in Writer,
         \/ Enter(w) \/ Woken(w) \/ RoomError(w) \/ RoomDelay(w) \/ Slept(w) \/ RoomWait(w)
         \/ SwitchFails(w) \/ Flush(w)
  PROVE  StampInv'
<1>1. UNCHANGED <<mem, imm, disk>> /\ seq' = seq /\ vs' = vs /\ up' = up
  BY DEF Enter, Woken, RoomError, RoomDelay, Slept, RoomWait, SwitchFails, Flush, memVars, callerVars
<1>2. Shrinks /\ vs'.last = vs.last /\ (up \in Opened <=> up' \in Opened)
      /\ (up' \notin Opened => mem' = {} /\ imm' = NoMem)
  BY <1>1, SameShrinks DEF StampInv
<1>3. WriterInv /\ Undisturbed
  BY QuietUndisturbed DEF BaseInv
<1> QED BY <1>1, <1>2, <1>3, RestStamp

\* A new log stores nothing, and neither do other records of the same logs.
LEMMA NewLogRecorded ==
  ASSUME NEW d, IsDisk(d), NEW n \in Nat, NEW w, Recorded(WithLog(d, n), w)
  PROVE  Recorded(d, w)
<1> DEFINE e == WithLog(d, n)
<1>1. /\ DOMAIN e.logs = DOMAIN d.logs \union {n} /\ e.logs[n] = [recs |-> <<>>, synced |-> 0]
      /\ \A m \in DOMAIN d.logs \ {n} : e.logs[m] = d.logs[m]
  BY NewLogDisk
<1> HIDE DEF e
<1>2. PICK m \in DOMAIN e.logs : \E i \in 1 .. Len(e.logs[m].recs) : w \in e.logs[m].recs[i]
  BY DEF Recorded, e
<1>3. m # n
  <2>1. e.logs[n].recs = <<>> /\ Len(<<>>) = 0
    BY <1>1
  <2> QED BY <1>2, <2>1
<1> QED BY <1>1, <1>2, <1>3 DEF Recorded

LEMMA LoggedRecorded ==
  ASSUME IsDisk(disk), NEW r \in SUBSET Batches, NEW w, Recorded(Logged(r), w)
  PROVE  Recorded(disk, w) \/ w \in r
<1> DEFINE e == Logged(r)
<1>1. /\ DOMAIN e.logs = DOMAIN disk.logs
      /\ \A n \in DOMAIN disk.logs \ {logfile} : e.logs[n] = disk.logs[n]
      /\ logfile \in DOMAIN disk.logs => e.logs[logfile] = [disk.logs[logfile] EXCEPT !.recs = Append(@, r)]
  BY LoggedDisk
<1> HIDE DEF e
<1>2. PICK m \in DOMAIN disk.logs : \E i \in 1 .. Len(e.logs[m].recs) : w \in e.logs[m].recs[i]
  BY <1>1 DEF Recorded, e
<1>3. CASE m # logfile
  BY <1>1, <1>2, <1>3 DEF Recorded
<1>4. CASE m = logfile
  <2> DEFINE recs == disk.logs[logfile].recs
  <2>1. disk.logs[logfile] \in [recs : Seq(SUBSET Batches), synced : Nat]
    BY <1>2, <1>4 DEF IsDisk, IsFiles, Records
  <2>2. recs \in Seq(SUBSET Batches) /\ e.logs[m].recs = Append(recs, r)
    BY <1>1, <1>2, <1>4, <2>1
  <2> HIDE DEF recs
  <2>3. PICK i \in 1 .. Len(Append(recs, r)) : w \in Append(recs, r)[i]
    BY <1>2, <2>2
  <2>4. Len(recs) \in Nat /\ Len(Append(recs, r)) = Len(recs) + 1
        /\ Append(recs, r)[Len(recs) + 1] = r /\ \A k \in 1 .. Len(recs) : Append(recs, r)[k] = recs[k]
    BY <2>2, AppendProperties, LenProperties
  <2>5. CASE i = Len(recs) + 1
    BY <2>3, <2>4, <2>5
  <2>6. CASE i # Len(recs) + 1
    <3>1. i \in 1 .. Len(recs) /\ w \in recs[i]
      BY <2>3, <2>4, <2>6
    <3> QED BY <1>2, <1>4, <3>1 DEF Recorded, recs
  <2> QED BY <2>5, <2>6
<1> QED BY <1>3, <1>4

\* A leader that has room gives its group its numbers, or leaves.
LEMMA ProceedStamp ==
  ASSUME BaseInv, StampInv, NEW w \in Writer, pc[w] = "room", Proceed, Shrinks, vs'.last = vs.last, up' = up
  PROVE  StampInv'
<1>1. WriterInv /\ vs.last \in Nat /\ \A v \in Batches : v \in Writer
  BY DEF BaseInv, TypesInv, IsVersionSet, Batches
<1>2. w = Leader /\ queue # <<>> /\ 1 \in 1 .. Len(queue) /\ ~Busy(pc) /\ ~InSync(pc) /\ pc[w] \in Leading
  BY <1>1, LeaderFacts, LeaderAlone DEF Leading
<1>3. up \in Opened
  BY <1>2 DEF BaseInv, BgInv
<1>4. CASE ~IsBatch(Leader)
  <2>1. Finish(1, "ok", pc) /\ seq' = seq
    BY <1>4 DEF Proceed
  <2>2. ~Busy(pc') /\ \A v \in Writer : (Queued(v)' => Queued(v)) /\ (pc'[v] = "idle" => pc[v] = "idle")
    BY <1>1, <1>2, <2>1, FinishLeaves
  <2>3. Undisturbed
    BY <1>1, <1>2, <2>2 DEF Undisturbed
  <2> QED BY <1>1, <1>3, <2>1, <2>3, RestStamp
<1>5. CASE IsBatch(Leader)
  <2> DEFINE n == BuildBatchGroup(queue)
             g == {queue[i] : i \in {j \in 1 .. n : IsBatch(queue[j])}}
  <2>1. /\ pc' = [pc EXCEPT ![w] = "log"] /\ lead' = [lead EXCEPT !.group = n]
        /\ seq' = SetSequence(n) /\ queue' = queue
    BY <1>2, <1>5 DEF Proceed
  <2>2. n \in 1 .. Len(queue)
    BY <1>1, <1>2, LeadType, GroupSize
  <2> HIDE DEF n
  <2>3. /\ \A v \in g : vs.last < seq'[v] /\ seq'[v] <= vs.last + Cardinality(g)
        /\ \A u, v \in g : u # v => seq'[u] # seq'[v]
        /\ \A v \in Writer \ g : seq'[v] = seq[v]
    BY <1>1, <2>1, <2>2, SequenceStamps
  <2>4. Group' = g
    <3>1. lead'.group = n
      BY <1>1, <2>1, LeadType
    <3> QED BY <2>1, <3>1 DEF Group
  <2>5. GroupStamped'
    <3> HIDE DEF g
    <3> QED BY <2>3, <2>4 DEF GroupStamped
  <2>6. \A v \in Batches : Queued(v)' <=> Queued(v)
    BY <2>1 DEF Queued
  <2>7. ASSUME NEW v \in Batches, Stored(v)'
        PROVE  /\ Stored(v) /\ ~Queued(v)' /\ seq'[v] = seq[v] /\ seq'[v] <= vs.last
               /\ pc[v] # "idle" /\ pc'[v] # "idle"
    <3>1. Stored(v)
      BY <2>7, ShrinksStored
    <3>2. ~Queued(v)
      BY <1>1, <1>2, <3>1, StoredOutside
    <3>3. v \notin g
      BY <2>2, <3>2, <1>1, LeadType DEF Queued
    <3>4. pc[v] # "idle"
      BY <3>1 DEF StampInv
    <3>5. pc'[v] # "idle"
      BY <1>1, <2>1, <3>4 DEF WriterInv, WritersSound
    <3> HIDE DEF g
    <3>6. seq[v] <= vs.last
      BY <1>3, <3>1, <3>2 DEF StampInv
    <3> QED BY <1>1, <2>3, <2>6, <3>1, <3>2, <3>3, <3>4, <3>5, <3>6
  <2>8. \A u, v \in Batches : Stored(u)' /\ Stored(v)' /\ u # v => seq'[u] # seq'[v]
    BY <2>7 DEF StampInv
  <2>9. \A v \in Batches : Tabulated(disk', v) \/ Recorded(disk', v) \/ Held(v)' => Stored(v)'
    BY DEF Stored
  <2> HIDE DEF g
  <2> QED BY <1>3, <2>5, <2>7, <2>8, <2>9 DEF StampInv, Shrinks
<1> QED BY <1>4, <1>5

\* The group is logged and perhaps in the memtable, and nothing else is new.
Grows == /\ TablesTyped(disk') /\ seq' = seq /\ up' = up
         /\ \A v \in Batches : /\ Tabulated(disk', v) => Tabulated(disk, v)
                               /\ Recorded(disk', v) => Recorded(disk, v) \/ v \in Group
                               /\ Held(v)' => Held(v) \/ v \in Group

LEMMA GrowsStored ==
  ASSUME Grows, NEW v \in Batches, Stored(v)'
  PROVE  Stored(v) \/ v \in Group
  BY DEF Grows, Stored

LEMMA EndStamp ==
  ASSUME BaseInv, StampInv, NEW w \in Writer, pc[w] \in {"log", "sync"}, Grows,
         NEW s, NEW p \in {pc, SignalAll(pc)}, Finish(lead.group, s, p),
         vs'.last = vs.last + Cardinality(Group)
  PROVE  StampInv'
<1>1. WriterInv /\ vs.last \in Nat /\ Cardinality(Group) \in Nat /\ \A v \in Batches : v \in Writer /\ seq[v] \in Nat
  BY GroupFinite DEF BaseInv, TypesInv, IsVersionSet, Batches, WriterInv
<1>2. pc[w] \in Leading /\ queue # <<>> /\ lead.group \in 1 .. Len(queue) /\ Busy(pc) /\ w = Leader
  BY <1>1, LeadType, LeaderFacts DEF WriterInv, WritersSound, Leading, Busy
<1>3. up \in Opened
  BY <1>2 DEF BaseInv, BgInv
<1>4. /\ ~Busy(pc')
      /\ \A v \in Writer : Queued(v)' => Queued(v) /\ \A i \in 1 .. lead.group : queue[i] # v
      /\ \A v \in Writer : pc'[v] = "idle" => pc[v] = "idle"
  BY <1>1, <1>2, FinishLeaves
<1>5. ASSUME NEW v \in Batches, Stored(v)'
      PROVE  ~Queued(v)' /\ seq[v] <= vs'.last /\ pc'[v] # "idle"
  <2>1. Stored(v) \/ v \in Group
    BY <1>5, GrowsStored
  <2>2. CASE v \in Group
    <3>1. pc[v] # "idle"
      BY <1>1, <2>2, GroupQueued
    <3>2. \E i \in 1 .. lead.group : queue[i] = v
      BY <2>2 DEF Group
    <3>3. seq[v] <= vs.last + Cardinality(Group)
      BY <1>2, <2>2 DEF StampInv, GroupStamped
    <3> QED BY <1>1, <1>4, <3>1, <3>2, <3>3
  <2>3. CASE v \notin Group
    <3>1. Stored(v) /\ ~Queued(v) /\ pc[v] # "idle"
      BY <1>1, <2>1, <2>3, StoredOutside DEF StampInv
    <3>2. seq[v] <= vs.last
      BY <1>3, <3>1 DEF StampInv
    <3> QED BY <1>1, <1>4, <3>1, <3>2
  <2> QED BY <2>2, <2>3
<1>6. \A u, v \in Batches : Stored(u)' /\ Stored(v)' /\ u # v => seq'[u] # seq'[v]
  BY <1>1, <1>2, <1>3, GrowsStored, GroupDistinct DEF Grows
<1>7. \A v \in Batches : Tabulated(disk', v) \/ Recorded(disk', v) \/ Held(v)' => Stored(v)'
  BY DEF Stored
<1> QED BY <1>3, <1>4, <1>5, <1>6, <1>7 DEF StampInv, Grows

\* The leader goes on to Sync with its group in the log.
LEMMA SyncStamp ==
  ASSUME BaseInv, StampInv, NEW w \in Writer, pc[w] = "log", Grows, \A v \in Batches : Held(v)' => Held(v),
         pc' = [pc EXCEPT ![w] = "sync"], UNCHANGED <<queue, lead>>, vs' = vs
  PROVE  StampInv'
<1>1. WriterInv /\ vs.last \in Nat /\ \A v \in Batches : v \in Writer /\ seq[v] \in Nat
  BY DEF BaseInv, TypesInv, IsVersionSet, Batches, WriterInv
<1>2. pc[w] \in Leading /\ queue # <<>> /\ Busy(pc) /\ ~InSync(pc)
  BY <1>1, LeaderFacts DEF Leading, Busy, InSync
<1>3. up \in Opened
  BY <1>2 DEF BaseInv, BgInv
<1>4. Group' = Group /\ \A v : Queued(v)' <=> Queued(v)
  BY DEF Group, Queued
<1>5. /\ pc'[w] = "sync" /\ \A v \in Writer \ {w} : pc'[v] = pc[v]
      /\ InSync(pc') /\ \A v \in Writer : pc'[v] = "idle" => pc[v] = "idle"
  BY <1>1 DEF WriterInv, WritersSound, InSync
<1>6. ASSUME NEW v \in Batches, Stored(v), Queued(v)
      PROVE  FALSE
  BY <1>1, <1>2, <1>6, StoredOutside
<1>7. ASSUME NEW v \in Batches, Stored(v)'
      PROVE  pc'[v] # "idle" /\ (~Queued(v)' => seq[v] <= vs.last)
  <2>1. Stored(v) \/ v \in Group
    BY <1>7, GrowsStored
  <2>2. CASE v \in Group
    BY <1>1, <1>4, <1>5, <2>2, GroupQueued
  <2>3. CASE v \notin Group
    <3>1. Stored(v) /\ ~Queued(v) /\ pc[v] # "idle"
      BY <1>6, <2>1, <2>3 DEF StampInv
    <3> QED BY <1>1, <1>3, <1>5, <3>1 DEF StampInv
  <2> QED BY <2>2, <2>3
<1>8. \A u, v \in Batches : Stored(u)' /\ Stored(v)' /\ u # v => seq'[u] # seq'[v]
  BY <1>1, <1>2, <1>3, GrowsStored, GroupDistinct DEF Grows
<1>9. ASSUME NEW v \in Batches
      PROVE  /\ Tabulated(disk', v) \/ Held(v)' => ~Queued(v)'
             /\ Recorded(disk', v) /\ Queued(v)' => InSync(pc') /\ v \in Group'
  <2>1. Tabulated(disk', v) \/ Held(v)' => Stored(v)
    BY DEF Grows, Stored
  <2>2. Recorded(disk', v) => Stored(v) \/ v \in Group
    BY DEF Grows, Stored
  <2> QED BY <1>4, <1>5, <1>6, <2>1, <2>2
<1>10. GroupStamped'
  BY <1>2, <1>4 DEF StampInv, GroupStamped, Grows
<1> QED BY <1>3, <1>7, <1>8, <1>9, <1>10 DEF StampInv, Grows

LEMMA WriterStamp ==
  ASSUME BaseInv, StampInv, NEW w \in Writer, Enter(w) \/ WriterStep(w)
  PROVE  StampInv'
<1>0. WriterInv /\ TypesInv /\ IsDisk(disk) /\ vs.last \in Nat /\ vs.next \in Nat
  BY DEF BaseInv, TypesInv, IsVersionSet
<1>1. CASE \/ Enter(w) \/ Woken(w) \/ RoomError(w) \/ RoomDelay(w) \/ Slept(w) \/ RoomWait(w)
           \/ SwitchFails(w) \/ Flush(w)
  BY <1>1, QuietStamp
<1>2. CASE RoomFound(w)
  <2>1. pc[w] = "room" /\ Proceed /\ UNCHANGED <<mem, imm, disk>> /\ vs'.last = vs.last /\ up' = up
    BY <1>2 DEF RoomFound, memVars, callerVars
  <2> QED BY <2>1, SameShrinks, ProceedStamp
<1>3. CASE SwitchMem(w)
  <2>1. /\ pc[w] = "room" /\ Proceed /\ up' = up /\ imm' = {mem} /\ mem' = {} /\ disk' = WithLog(disk, vs.next)
        /\ vs' = [vs EXCEPT !.next = @ + 1]
    BY <1>3 DEF SwitchMem, callerVars, WithLog
  <2>2. vs'.last = vs.last
    BY <1>0, <2>1 DEF TypesInv, IsVersionSet
  <2>3. disk'.tables = disk.tables
    BY <1>0, <2>1, NewLogDisk
  <2>4. \A v : Held(v)' => Held(v)
    BY <2>1 DEF Held
  <2>5. \A v : Recorded(disk', v) => Recorded(disk, v)
    BY <1>0, <2>1, NewLogRecorded
  <2>6. Shrinks
    BY <2>3, <2>4, <2>5 DEF Shrinks, Tabulated, TablesTyped, StampInv
  <2> QED BY <2>1, <2>2, <2>6, ProceedStamp
<1>4. CASE AddRecord(w) \/ AddRecordFails(w) \/ SyncLog(w) \/ SyncFails(w)
  <2>1. UNCHANGED <<imm, up>> /\ seq' = seq /\ pc[w] \in {"log", "sync"}
    BY <1>4 DEF AddRecord, AddRecordFails, SyncLog, SyncFails, callerVars
  <2>2. /\ WriterFrame /\ Group \in SUBSET Batches /\ TornRecord \in SUBSET Batches
    BY <1>0, <1>4, GroupFrame, GroupBatches DEF TornRecord
  <2>3. disk'.tables = disk.tables
    BY <2>2 DEF WriterFrame, SameTables
  <2>4. \A v : Recorded(disk', v) => Recorded(disk, v) \/ v \in Group
    <3>1. CASE disk' \in {disk, Logged(Group), Logged(TornRecord)}
      BY <1>0, <2>2, <3>1, LoggedRecorded DEF TornRecord
    <3>2. CASE disk' = [disk EXCEPT !.logs[logfile].synced = Len(disk.logs[logfile].recs)]
      <4>1. /\ DOMAIN disk'.logs = DOMAIN disk.logs
            /\ \A n \in DOMAIN disk.logs : disk'.logs[n].recs = disk.logs[n].recs
        BY <1>0, <3>2, SyncedDisk
      <4> QED BY <4>1 DEF Recorded
    <3> QED BY <1>4, <3>1, <3>2 DEF AddRecord, AddRecordFails, SyncLog, SyncFails
  <2>5. mem' \in {mem, mem \union Group}
    BY <1>4 DEF AddRecord, AddRecordFails, SyncLog, SyncFails, EndGroup
  <2>6. Grows
    <3>1. \A v \in Batches : Held(v)' => Held(v) \/ v \in Group
      BY <2>1, <2>5 DEF Held
    <3> QED BY <2>1, <2>3, <2>4, <3>1 DEF Grows, Tabulated, TablesTyped, StampInv
  <2>7. CASE AddRecord(w) /\ w \in Sync
    <3>1. pc' = [pc EXCEPT ![w] = "sync"] /\ UNCHANGED <<queue, lead>> /\ vs' = vs /\ mem' = mem /\ pc[w] = "log"
      BY <2>7 DEF AddRecord
    <3>2. \A v \in Batches : Held(v)' => Held(v)
      BY <2>1, <3>1 DEF Held
    <3> QED BY <2>6, <3>1, <3>2, SyncStamp
  <2>8. CASE ~(AddRecord(w) /\ w \in Sync)
    <3>1. PICK s \in {"ok", "error"}, p \in {pc, SignalAll(pc)} : EndGroup(s, p)
      BY <1>4, <2>8 DEF AddRecord, AddRecordFails, SyncLog, SyncFails
    <3>2. Finish(lead.group, s, p) /\ vs' = [vs EXCEPT !.last = @ + Cardinality(Group)]
      BY <3>1 DEF EndGroup
    <3>3. vs'.last = vs.last + Cardinality(Group)
      BY <1>0, <3>2 DEF TypesInv, IsVersionSet
    <3> QED BY <2>1, <2>6, <3>2, <3>3, EndStamp
  <2> QED BY <2>7, <2>8
<1> QED BY <1>1, <1>2, <1>3, <1>4 DEF WriterStep

-----------------------------------------------------------------------------
(***************************************************************************)
(* What the background thread does to the files.                           *)
(***************************************************************************)
\* The logs and tables of d, or some of them.
Trimmed(e, d) == /\ \A n \in DOMAIN e.tables : n \in DOMAIN d.tables /\ e.tables[n] = d.tables[n]
                 /\ \A n \in DOMAIN e.logs : n \in DOMAIN d.logs /\ e.logs[n] = d.logs[n]

LEMMA BackgroundFrame ==
  ASSUME BaseInv, BackgroundStep
  PROVE  Placed /\ Versioned /\ Filed
  BY CallFrame, FlushFrame, MoveFrame, CompactFrame, InstallFrame DEF BackgroundStep

\* A commit, whether it succeeds or not, perhaps with obsolete files deleted.
Committed == \E d \in Commits(disk, bg.edit) : Trimmed(disk', disk) /\ Current(disk') = d.manifests[vs.manifest]

LEMMA CommitTrims ==
  ASSUME BaseInv, BackgroundStep, bg.pc \in Committing, NEW d \in Commits(disk, bg.edit), NEW v, NEW c, NEW pend, NEW err,
         disk' = d \/ disk' = DeleteObsoleteFiles(d, v, c, pend, err)
  PROVE  Committed
<1>1. /\ IsSound(d) /\ d.current = disk.current /\ vs.manifest \in DOMAIN d.manifests
      /\ d.tables = disk.tables /\ d.logs = disk.logs /\ IsDisk(d)
  BY CommitBase DEF IsSound
<1>2. disk'.current = disk.current /\ vs.manifest \in DOMAIN disk'.manifests /\ disk.current = vs.manifest
  BY BackgroundFrame, BackgroundOpen DEF Filed
<1> DEFINE e == DeleteObsoleteFiles(d, v, c, pend, err)
<1>3. /\ \A n \in DOMAIN e.logs : n \in DOMAIN d.logs /\ e.logs[n] = d.logs[n]
      /\ \A n \in DOMAIN e.manifests : n \in DOMAIN d.manifests /\ e.manifests[n] = d.manifests[n]
      /\ \A n \in DOMAIN e.tables : n \in DOMAIN d.tables /\ e.tables[n] = d.tables[n]
  BY <1>1, DeletedDisk
<1> HIDE DEF e
<1>4. Trimmed(disk', disk) /\ Current(disk') = d.manifests[vs.manifest]
  <2>1. CASE disk' = d
    BY <1>1, <1>2, <2>1 DEF Trimmed, Current
  <2>2. CASE disk' = e
    BY <1>1, <1>2, <1>3, <2>2 DEF Trimmed, Current
  <2> QED BY <2>1, <2>2 DEF e
<1> QED BY <1>4 DEF Committed

LEMMA BackgroundDisk ==
  ASSUME BaseInv, BackgroundStep
  PROVE  \/ disk' = disk /\ imm' = imm
         \/ bg.pc \in Committing /\ Committed /\ imm' \in {imm, NoMem}
         \/ FlushBuilt
         \/ FinishCompactionOutputFile
<1>1. CASE CallIdle \/ CallFlush \/ CallMove \/ CallCompact \/ FlushBuildFails \/ CompactImm \/ OpenCompactionOutputFile
  BY <1>1 DEF CallIdle, CallFlush, CallMove, CallCompact, FlushBuildFails, CompactImm, OpenCompactionOutputFile
<1>2. CASE CompactStops
  <2>1. EndCompact(disk) /\ bgerr' = TRUE /\ imm' = imm
    BY <1>2 DEF CompactStops
  <2> QED BY <2>1, EndCompactKeeps
<1>3. CASE FlushLogged
  <2>1. /\ bg.pc \in Committing /\ imm' = NoMem
        /\ disk' = DeleteObsoleteFiles(ManifestWith(disk, <<bg.edit>>, TRUE), vs', comp, pending, bgerr)
    BY <1>3 DEF FlushLogged, Committing
  <2>2. ManifestWith(disk, <<bg.edit>>, TRUE) \in Commits(disk, bg.edit)
    BY DEF Commits
  <2> QED BY <2>1, <2>2, CommitTrims
<1>4. CASE FlushLogFails \/ MoveFails
  <2>1. bg.pc \in Committing /\ disk' \in Commits(disk, bg.edit) /\ imm' = imm
    BY <1>4 DEF FlushLogFails, MoveFails, Committing, Commits
  <2> QED BY <2>1, CommitTrims
<1>5. CASE Moved
  <2>1. bg.pc \in Committing /\ disk' \in Commits(disk, bg.edit) /\ imm' = imm
    BY <1>5 DEF Moved, Committing, Commits
  <2> QED BY <2>1, CommitTrims
<1>6. CASE Installed \/ InstallFails
  <2>1. PICK d \in Commits(disk, bg.edit) : EndCompact(d)
    BY <1>6 DEF Installed, InstallFails, Commits
  <2>2. bg.pc \in Committing /\ imm' = imm
    BY <1>6 DEF Installed, InstallFails, Committing
  <2>3. disk' = DeleteObsoleteFiles(d, vs', NoComp, pending', bgerr')
    BY <2>1 DEF EndCompact
  <2> QED BY <2>2, <2>3, CommitTrims
<1> QED BY <1>1, <1>2, <1>3, <1>4, <1>5, <1>6 DEF BackgroundStep

LEMMA TrimmedShrinks ==
  ASSUME StampInv, Trimmed(disk', disk), mem' = mem, imm' \in {imm, NoMem}
  PROVE  Shrinks
<1>1. TablesTyped(disk')
  BY DEF Trimmed, TablesTyped, StampInv
<1>2. \A w \in Batches : (Tabulated(disk', w) => Tabulated(disk, w)) /\ (Recorded(disk', w) => Recorded(disk, w))
  BY DEF Trimmed, Tabulated, Recorded
<1>3. \A w \in Batches : Held(w)' => Held(w)
  BY DEF Held, NoMem
<1> QED BY <1>1, <1>2, <1>3 DEF Shrinks

\* A new table of batches that are in a memtable or in other tables.
LEMMA TabledShrinks ==
  ASSUME BaseInv, StampInv, NEW n \in Nat, NEW STATE b, disk' = Tabled(disk, n, b), mem' = mem, imm' = imm,
         b \subseteq Batches, \A w \in b : Tabulated(disk, w) \/ Held(w)
  PROVE  Shrinks
<1>1. /\ disk'.logs = disk.logs /\ DOMAIN disk'.tables = DOMAIN disk.tables \union {n} /\ disk'.tables[n] = b
      /\ \A m \in DOMAIN disk.tables \ {n} : disk'.tables[m] = disk.tables[m]
  BY NewTableDisk DEF BaseInv, ManifestInv
<1>2. TablesTyped(disk')
  BY <1>1 DEF TablesTyped, StampInv
<1>3. \A w \in Batches : Tabulated(disk', w) => Tabulated(disk, w) \/ Held(w)
  BY <1>1 DEF Tabulated
<1>4. \A w \in Batches : (Held(w)' <=> Held(w)) /\ (Recorded(disk', w) <=> Recorded(disk, w))
  BY <1>1 DEF Held, Recorded
<1> QED BY <1>2, <1>3, <1>4 DEF Shrinks

LEMMA BackgroundShrinks ==
  ASSUME BaseInv, FilesInv, StampInv, BackgroundStep
  PROVE  Shrinks
<1>0. mem' = mem /\ IsDisk(disk) /\ IsImm(imm) /\ IsComp(comp) /\ IsBg(bg) /\ up \in Opened
  BY BackgroundSignals, BackgroundOpen DEF BaseInv, TypesInv, MemTypes, BgTypes
<1>1. CASE disk' = disk /\ imm' = imm
  BY <1>0, <1>1, SameShrinks
<1>2. CASE Committed /\ imm' \in {imm, NoMem}
  BY <1>0, <1>2, TrimmedShrinks DEF Committed
<1>3. CASE FlushBuilt
  <2> DEFINE batches == UNION imm
  <2>1. /\ disk' = IF batches = {} THEN disk ELSE [disk EXCEPT !.tables = Extend(@, bg.num, batches)]
        /\ imm' = imm
    BY <1>3 DEF FlushBuilt
  <2>2. batches \subseteq Batches /\ \A w \in batches : Held(w)
    BY <1>0 DEF IsImm, Held
  <2> HIDE DEF batches
  <2>3. CASE batches = {}
    BY <1>0, <2>1, <2>3, SameShrinks
  <2>4. CASE batches # {}
    <3>1. disk' = Tabled(disk, bg.num, batches) /\ bg.num \in Nat
      BY <1>0, <2>1, <2>4 DEF Tabled, IsBg
    <3> QED BY <1>0, <2>1, <2>2, <3>1, TabledShrinks DEF batches
  <2> QED BY <2>3, <2>4
<1>4. CASE FinishCompactionOutputFile
  <2> DEFINE merged == UNION {disk.tables[m] : m \in Numbers(comp.inputs)}
  <2>1. PICK n \in comp.out : disk' = [disk EXCEPT !.tables = Extend(@, n, merged)]
    BY <1>4 DEF FinishCompactionOutputFile
  <2>2. imm' = imm /\ n \in Nat
    BY <1>0, <1>4 DEF FinishCompactionOutputFile, IsComp
  <2>3. \A m \in Numbers(comp.inputs) : m \in DOMAIN disk.tables
    BY <1>0 DEF FilesInv, OpenedInv, There, Numbers
  <2>4. merged \subseteq Batches /\ \A w \in merged : Tabulated(disk, w)
    BY <2>3 DEF StampInv, TablesTyped, Tabulated
  <2>5. disk' = Tabled(disk, n, merged)
    BY <2>1 DEF Tabled
  <2> QED BY <1>0, <2>2, <2>4, <2>5, TabledShrinks
<1> QED BY <1>1, <1>2, <1>3, <1>4, BackgroundDisk

LEMMA SignalMoves ==
  ASSUME WriterInv, NEW p \in {pc, SignalAll(pc)}
  PROVE  /\ Busy(p) <=> Busy(pc)
         /\ InSync(p) <=> InSync(pc)
         /\ \A v \in Writer : p[v] = "idle" => pc[v] = "idle"
<1>1. \A v \in Writer : p[v] = pc[v] \/ (p[v] \in {"room", "flush"} /\ pc[v] \in {"bgwait", "flushwait"})
  BY DEF SignalAll
<1> QED BY <1>1 DEF Busy, InSync

LEMMA BackgroundStamp ==
  ASSUME BaseInv, FilesInv, StampInv, BackgroundStep
  PROVE  StampInv'
<1>1. seq' = seq /\ queue' = queue /\ lead' = lead /\ pc' \in {pc, SignalAll(pc)}
  BY BackgroundSignals
<1>2. vs'.last = vs.last /\ up \in Opened /\ up' \in Opened
  BY BackgroundFrame, BackgroundStays DEF Versioned
<1>3. WriterInv /\ \A v \in Batches : v \in Writer
  BY DEF BaseInv, Batches
<1>4. Undisturbed
  <2>1. Group' = Group /\ \A v : Queued(v)' <=> Queued(v)
    BY <1>1 DEF Group, Queued
  <2>2. /\ Busy(pc') <=> Busy(pc)
        /\ InSync(pc') <=> InSync(pc)
        /\ \A v \in Writer : pc'[v] = "idle" => pc[v] = "idle"
    BY <1>1, <1>3, SignalMoves
  <2> QED BY <1>3, <2>1, <2>2 DEF Undisturbed
<1> QED BY <1>1, <1>2, <1>3, <1>4, BackgroundShrinks, RestStamp

-----------------------------------------------------------------------------
(***************************************************************************)
(* What a crash leaves of the batches.                                     *)
(***************************************************************************)
LEMMA ResetStamp ==
  ASSUME BaseInv, StampInv, Reset, up' \notin Opened, TablesTyped(disk'),
         \A v \in Batches : /\ Tabulated(disk', v) => Tabulated(disk, v)
                            /\ Recorded(disk', v) => Recorded(disk, v) \/ (Busy(pc) /\ v \in Group)
  PROVE  StampInv'
<1>1. /\ pc' = [w \in Writer |-> IF pc[w] = "idle" \/ ret[w] = "ok" THEN pc[w] ELSE "dead"]
      /\ queue' = <<>> /\ mem' = {} /\ imm' = NoMem /\ seq' = seq
  BY DEF Reset
<1>2. WriterInv /\ vs.last \in Nat /\ \A v \in Batches : v \in Writer
  BY DEF BaseInv, TypesInv, IsVersionSet, Batches
<1>3. ~Busy(pc') /\ \A w \in Writer : pc'[w] = "idle" => pc[w] = "idle"
  BY <1>1, <1>2 DEF WriterInv, WritersSound, Busy
<1>4. \A v : ~Held(v)' /\ ~Queued(v)'
  BY <1>1 DEF Held, Queued, NoMem
<1>5. ASSUME NEW v \in Batches, Stored(v)'
      PROVE  Stored(v) \/ (Busy(pc) /\ v \in Group)
  BY <1>4, <1>5 DEF Stored
<1>6. Busy(pc) => up \in Opened
  BY <1>2, LeaderFacts DEF Busy, Leading, BaseInv, BgInv
<1>7. \A v \in Batches : Stored(v)' => pc'[v] # "idle"
  BY <1>2, <1>3, <1>5, GroupQueued DEF StampInv
<1>8. \A u, v \in Batches : Stored(u)' /\ Stored(v)' /\ u # v => seq'[u] # seq'[v]
  <2> SUFFICES ASSUME NEW u \in Batches, NEW v \in Batches, Stored(u)', Stored(v)', u # v
               PROVE  seq[u] # seq[v]
    BY <1>1
  <2>1. CASE Busy(pc)
    BY <1>2, <1>5, <1>6, <2>1, GroupDistinct
  <2>2. CASE ~Busy(pc)
    BY <1>5, <2>2 DEF StampInv
  <2> QED BY <2>1, <2>2
<1> QED BY <1>1, <1>3, <1>4, <1>7, <1>8 DEF StampInv

\* The records of a log that was cut are those of the log.
LEMMA CutRecorded ==
  ASSUME NEW d, IsDisk(d), NEW e \in PowerLosses(d), NEW w, Recorded(e, w)
  PROVE  Recorded(d, w)
<1>1. IsCut(e.logs, d.logs)
  BY PowerLossDisk
<1>2. PICK n \in DOMAIN d.logs : \E i \in 1 .. Len(e.logs[n].recs) : w \in e.logs[n].recs[i]
  BY <1>1 DEF Recorded, IsCut
<1>3. PICK k \in d.logs[n].synced .. Len(d.logs[n].recs) :
        e.logs[n] = [recs |-> SubSeq(d.logs[n].recs, 1, k), synced |-> d.logs[n].synced]
  BY <1>1, <1>2 DEF IsCut
<1>4. d.logs[n] \in Records(SUBSET Batches)
  BY <1>2 DEF IsDisk, IsFiles
<1> DEFINE recs == SubSeq(d.logs[n].recs, 1, k)
<1>5. Len(recs) = k /\ \A i \in 1 .. k : recs[i] = d.logs[n].recs[i]
  BY <1>3, <1>4, CutRecords
<1>6. e.logs[n].recs = recs
  BY <1>3
<1> HIDE DEF recs
<1>7. k <= Len(d.logs[n].recs) /\ k \in Nat /\ Len(d.logs[n].recs) \in Nat
  BY <1>3, <1>4, LenProperties DEF Records
<1>8. PICK i \in 1 .. k : w \in d.logs[n].recs[i]
  BY <1>2, <1>5, <1>6
<1>9. i \in 1 .. Len(d.logs[n].recs)
  BY <1>7, <1>8
<1> QED BY <1>2, <1>8, <1>9 DEF Recorded

LEMMA InterruptedRecorded ==
  ASSUME BaseInv, NEW e \in Interrupted, NEW w, Recorded(e, w)
  PROVE  Recorded(disk, w) \/ (Busy(pc) /\ w \in Group)
<1>1. PICK d \in LogWrites : \/ e = d
                             \/ bg.pc \in Committing /\ e \in FailedWrites(d, bg.edit)
                             \/ up = "newcurrent" /\ e = Pointed(d, 1)
                             \/ up = "current" /\ e = Pointed(d, vs.manifest)
  BY InterruptedCases
<1>2. IsSound(d) /\ SameTables(d)
  BY LogWritesSound
<1>3. e.logs = d.logs
  <2>1. CASE e = d
    BY <2>1
  <2>2. CASE bg.pc \in Committing /\ e \in FailedWrites(d, bg.edit)
    <3>1. bg.edit \in EditRecords /\ bg.edit.next > vs.manifest /\ vs.manifest \in Nat /\ e \in Commits(d, bg.edit)
      BY <2>2 DEF IsBg, BaseInv, ManifestInv, TypesInv, BgTypes, IsVersionSet, Commits
    <3> QED BY <1>2, <3>1, CommitSound
  <2>3. CASE up = "newcurrent" /\ e = Pointed(d, 1)
    <3>1. 1 \in DOMAIN d.manifests
      BY <1>2, <2>3 DEF BaseInv, ManifestInv, SameTables
    <3> QED BY <1>2, <2>3, <3>1, PointedSound
  <2>4. CASE up = "current" /\ e = Pointed(d, vs.manifest)
    <3>1. vs.manifest \in DOMAIN d.manifests
      BY <1>2, <2>4 DEF BaseInv, ManifestInv, SameTables
    <3> QED BY <1>2, <2>4, <3>1, PointedSound
  <2> QED BY <1>1, <2>1, <2>2, <2>3, <2>4
<1>4. Recorded(d, w)
  BY <1>3 DEF Recorded
<1>5. CASE d = disk
  BY <1>4, <1>5
<1>6. CASE d # disk
  <2>1. (\E v \in Writer : pc[v] = "log") /\ d \in {Logged(TornRecord), Logged(Group)}
    BY <1>6 DEF LogWrites
  <2>2. IsDisk(disk) /\ Group \in SUBSET Batches /\ TornRecord \in SUBSET Batches
    BY GroupBatches DEF BaseInv, TypesInv, TornRecord
  <2> QED BY <1>4, <2>1, <2>2, LoggedRecorded DEF Busy, TornRecord
<1> QED BY <1>5, <1>6

LEMMA CrashStamp ==
  ASSUME BaseInv, StampInv, NEW kind \in Crashes, Crash(kind)
  PROVE  StampInv'
<1>1. disk' \in Survivors(kind) /\ Reset /\ up' \notin Opened
  BY DEF Crash, Opened
<1>2. /\ disk'.tables = disk.tables
      /\ \A v : Recorded(disk', v) => Recorded(disk, v) \/ (Busy(pc) /\ v \in Group)
  <2>1. CASE disk' \in Interrupted
    BY <2>1, InterruptedSound, InterruptedRecorded
  <2>2. CASE disk' \notin Interrupted
    <3>1. PICK d \in Interrupted : disk' \in PowerLosses(d)
      BY <1>1, <2>2 DEF Survivors
    <3>2. IsDisk(d) /\ d.tables = disk.tables
      BY InterruptedSound DEF IsSound
    <3> QED BY <3>1, <3>2, CutRecorded, PowerLossDisk, InterruptedRecorded
  <2> QED BY <2>1, <2>2
<1>3. TablesTyped(disk') /\ \A v : Tabulated(disk', v) <=> Tabulated(disk, v)
  BY <1>2 DEF TablesTyped, Tabulated, StampInv
<1> QED BY <1>1, <1>2, <1>3, ResetStamp

LEMMA ReaderStamp ==
  ASSUME BaseInv, StampInv, (\E r \in Reader : GetBegins(r) \/ GetEnds(r)) \/ Close \/ UNCHANGED vars
  PROVE  StampInv'
<1>1. /\ UNCHANGED <<mem, imm, disk>> /\ seq' = seq /\ vs' = vs /\ pc' = pc /\ UNCHANGED <<queue, lead>>
      /\ (up \in Opened <=> up' \in Opened)
  BY DEF GetBegins, GetEnds, Close, vars, writerVars, memVars, Opened
<1>2. Shrinks
  BY <1>1, SameShrinks
<1>3. Undisturbed
  BY <1>1 DEF Undisturbed, Group, Queued
<1> QED BY <1>1, <1>2, <1>3, RestStamp DEF BaseInv, StampInv

LEMMA ClosingStamp ==
  ASSUME BaseInv, StampInv, Closing
  PROVE  StampInv'
<1>1. disk' = disk
  BY DEF Closing
<1>2. CASE scheduled
  <2>1. /\ UNCHANGED <<mem, imm>> /\ seq' = seq /\ vs' = vs /\ pc' = pc /\ UNCHANGED <<queue, lead>>
        /\ up \in Opened /\ up' \in Opened
    BY <1>2 DEF Closing, writerVars, memVars, Opened
  <2>2. Shrinks
    BY <1>1, <2>1, SameShrinks
  <2>3. Undisturbed
    BY <2>1 DEF Undisturbed, Group, Queued
  <2> QED BY <2>1, <2>2, <2>3, RestStamp DEF BaseInv
<1>3. CASE ~scheduled
  BY <1>1, <1>3, ResetStamp DEF Closing, Opened, StampInv
<1> QED BY <1>2, <1>3

\* While the database is being opened, batches only move from logs to tables.
LEMMA OpeningStamp ==
  ASSUME BaseInv, StampInv, UNCHANGED openRest, up \notin Opened, TablesTyped(disk'),
         \A v \in Batches : Tabulated(disk', v) \/ Recorded(disk', v) => Tabulated(disk, v) \/ Recorded(disk, v),
         up' \in Opened => \A v \in Batches : Tabulated(disk', v) \/ Recorded(disk', v) => seq[v] <= vs'.last
  PROVE  StampInv'
<1>1. pc' = pc /\ queue' = queue /\ seq' = seq /\ mem' = {} /\ imm' = NoMem /\ queue = <<>>
  BY NotOpened DEF openRest, StampInv
<1>2. \A v : ~Held(v)' /\ ~Queued(v)'
  BY <1>1 DEF Held, Queued, NoMem
<1>3. ~Busy(pc')
  BY <1>1 DEF BaseInv, WriterInv, WritersSound, Leading, Busy
<1>4. \A v \in Batches : /\ Stored(v)' => Stored(v)
                         /\ Stored(v)' => Tabulated(disk', v) \/ Recorded(disk', v)
  BY <1>2 DEF Stored
<1>5. \A u, v \in Batches : Stored(u)' /\ Stored(v)' /\ u # v => seq'[u] # seq'[v]
  BY <1>1, <1>4 DEF StampInv
<1>6. \A v \in Batches : Stored(v)' => pc'[v] # "idle"
  BY <1>1, <1>4 DEF StampInv
<1>7. up' \in Opened => \A v \in Batches : Stored(v)' => seq'[v] <= vs'.last
  BY <1>1, <1>4
<1> QED BY <1>1, <1>2, <1>3, <1>5, <1>6, <1>7 DEF StampInv

-----------------------------------------------------------------------------
(***************************************************************************)
(* What keeps the numbers of a manifest.                                   *)
(***************************************************************************)
\* If table n is there, it was, with the same batches and numbers.
Alike(s, files, t, more, n) ==
  n \in DOMAIN more => n \in DOMAIN files /\ more[n] = files[n] /\ \A w \in files[n] : t[w] = s[w]

LEMMA CoveredAlike ==
  ASSUME NEW s, NEW files, NEW t, NEW more, NEW tables, NEW last, Covered(s, files, tables, last),
         \A x \in tables : Alike(s, files, t, more, x[2])
  PROVE  Covered(t, more, tables, last)
  BY DEF Covered, Alike

\* A table with a number that is not in the manifest changes nothing.
LEMMA SavesAlike ==
  ASSUME NEW s, NEW files, NEW t, NEW more, NEW f, Saves(s, files, f),
         \A n : Alike(s, files, t, more, n) \/ NotTaken(f, n),
         Len(f.recs) \in Nat
  PROVE  Saves(t, more, f)
<1> SUFFICES ASSUME NEW j \in 1 .. Len(f.recs), f.recs[j] # TornEdit, NEW i \in 1 .. j
             PROVE  Covered(t, more, f.recs[i].add, f.recs[j].last)
  BY DEF Saves
<1>1. i \in 1 .. Len(f.recs)
  OBVIOUS
<1>2. \A x \in f.recs[i].add : Alike(s, files, t, more, x[2])
  BY <1>1 DEF NotTaken
<1>3. Covered(s, files, f.recs[i].add, f.recs[j].last)
  BY DEF Saves
<1> QED BY <1>2, <1>3, CoveredAlike

\* The last record of a manifest, torn or whole.
LEMMA Appended ==
  ASSUME NEW f \in Records(EditRecords), NEW ed \in EditRecords, NEW g, g.recs = f.recs \o <<ed>>
  PROVE  /\ Len(f.recs) \in Nat /\ Len(g.recs) = Len(f.recs) + 1 /\ g.recs[Len(f.recs) + 1] = ed
         /\ \A i \in 1 .. Len(f.recs) : g.recs[i] = f.recs[i]
  BY TablesNext, LenProperties DEF Records

LEMMA AppendedTaken ==
  ASSUME NEW f \in Records(EditRecords), NEW ed \in EditRecords, NEW g, g.recs = f.recs \o <<ed>>
  PROVE  /\ \A n : TakenBelow(f, n) /\ Below(ed.add, n) => TakenBelow(g, n)
         /\ \A n : NotTaken(f, n) /\ (\A x \in ed.add : x[2] # n) => NotTaken(g, n)
<1>1. /\ Len(f.recs) \in Nat /\ Len(g.recs) = Len(f.recs) + 1 /\ g.recs[Len(f.recs) + 1] = ed
      /\ \A i \in 1 .. Len(f.recs) : g.recs[i] = f.recs[i]
  BY Appended
<1>2. \A i \in 1 .. Len(g.recs) : i \in 1 .. Len(f.recs) \/ g.recs[i] = ed
  BY <1>1
<1> QED BY <1>1, <1>2 DEF TakenBelow, NotTaken

LEMMA SavesAppended ==
  ASSUME NEW s, NEW files, NEW f \in Records(EditRecords), Saves(s, files, f),
         NEW ed \in EditRecords, NEW g, g.recs = f.recs \o <<ed>>,
         ed # TornEdit => /\ ed.log <= ed.next /\ TakenBelow(f, ed.next)
                          /\ Below(ed.add, ed.next) /\ AllCovered(s, files, ed.last)
  PROVE  Saves(s, files, g)
<1>1. /\ Len(f.recs) \in Nat /\ Len(g.recs) = Len(f.recs) + 1 /\ g.recs[Len(f.recs) + 1] = ed
      /\ \A i \in 1 .. Len(f.recs) : g.recs[i] = f.recs[i]
  BY Appended
<1> SUFFICES ASSUME NEW j \in 1 .. Len(g.recs), g.recs[j] # TornEdit
             PROVE  /\ g.recs[j].log <= g.recs[j].next
                    /\ \A i \in 1 .. j : /\ Below(g.recs[i].add, g.recs[j].next)
                                         /\ Covered(s, files, g.recs[i].add, g.recs[j].last)
  BY DEF Saves
<1>2. CASE j \in 1 .. Len(f.recs)
  <2>1. g.recs[j] = f.recs[j] /\ \A i \in 1 .. j : g.recs[i] = f.recs[i]
    BY <1>1, <1>2
  <2> QED BY <1>2, <2>1 DEF Saves
<1>3. CASE j \notin 1 .. Len(f.recs)
  <2>1. j = Len(f.recs) + 1 /\ g.recs[j] = ed
    BY <1>1, <1>3
  <2>2. \A i \in 1 .. j : (i \in 1 .. Len(f.recs) /\ g.recs[i] = f.recs[i]) \/ g.recs[i] = ed
    BY <1>1, <2>1
  <2>3. \A i \in 1 .. j : Below(g.recs[i].add, ed.next)
    BY <2>1, <2>2 DEF TakenBelow
  <2>4. \A i : Covered(s, files, g.recs[i].add, ed.last)
    BY <2>1 DEF AllCovered, Covered
  <2> QED BY <2>1, <2>3, <2>4
<1> QED BY <1>2, <1>3

\* A manifest that was cut.
LEMMA SavesCut ==
  ASSUME NEW s, NEW files, NEW f \in Records(EditRecords), Saves(s, files, f), NEW k \in f.synced .. Len(f.recs)
  PROVE  Saves(s, files, [recs |-> SubSeq(f.recs, 1, k), synced |-> f.synced])
<1> DEFINE g == [recs |-> SubSeq(f.recs, 1, k), synced |-> f.synced]
<1>1. Len(g.recs) = k /\ \A i \in 1 .. k : g.recs[i] = f.recs[i]
  BY CutRecords
<1>2. f.synced \in Nat /\ Len(f.recs) \in Nat /\ k \in Nat /\ k <= Len(f.recs)
  BY LenProperties DEF Records
<1> HIDE DEF g
<1>3. \A j \in 1 .. k : j \in 1 .. Len(f.recs) /\ \A i \in 1 .. j : g.recs[i] = f.recs[i]
  BY <1>1, <1>2
<1>4. Saves(s, files, g)
  BY <1>1, <1>3 DEF Saves
<1> QED BY <1>4 DEF g

\* The numbers that recovery takes from a manifest are fresh.
LEMMA SavesReplayed ==
  ASSUME NEW s, NEW files, NEW f \in Records(EditRecords), Saves(s, files, f), ~Corrupt(f.recs)
  PROVE  /\ Replayed(f.recs).log <= Replayed(f.recs).next
         /\ TakenBelow(f, Replayed(f.recs).next)
         /\ Below(Replayed(f.recs).tables, Replayed(f.recs).next)
         /\ Covered(s, files, Replayed(f.recs).tables, Replayed(f.recs).last)
<1> DEFINE e == Edits(f.recs)
           n == Len(e)
<1>1. f.recs \in Seq(EditRecords)
  BY DEF Records
<1>2. /\ n \in {Len(f.recs), Len(f.recs) - 1} /\ DOMAIN e = 1 .. n /\ n \in Nat
      /\ \A i \in 1 .. n : i \in 1 .. Len(f.recs) /\ e[i] = f.recs[i]
      /\ e # <<>> => n > 0
  BY <1>1, EditsOf
<1>3. e # <<>> /\ \A i \in DOMAIN e : e[i] # TornEdit
  BY DEF Corrupt
<1>4. n \in 1 .. n
  BY <1>2, <1>3
<1>5. /\ Replayed(f.recs).log = e[n].log /\ Replayed(f.recs).next = e[n].next /\ Replayed(f.recs).last = e[n].last
      /\ Replayed(f.recs).tables \subseteq UNION {e[i].add : i \in DOMAIN e}
  BY DEF Replayed
<1>6. Len(f.recs) \in Nat /\ (Len(f.recs) = n \/ (Len(f.recs) = n + 1 /\ f.recs[n + 1] = TornEdit))
  <2>1. CASE f.recs # <<>> /\ f.recs[Len(f.recs)] = TornEdit
    <3>1. Len(f.recs) \in Nat /\ Len(f.recs) > 0
      BY <1>1, <2>1, EmptySeq, LenProperties
    <3> QED BY <1>2, <2>1, <3>1
  <2>2. CASE ~(f.recs # <<>> /\ f.recs[Len(f.recs)] = TornEdit)
    BY <1>1, <2>2, LenProperties DEF Edits
  <2> QED BY <2>1, <2>2
<1> HIDE DEF e, n
<1>7. /\ f.recs[n].log <= f.recs[n].next
      /\ \A i \in 1 .. n : Below(f.recs[i].add, f.recs[n].next) /\ Covered(s, files, f.recs[i].add, f.recs[n].last)
  BY <1>2, <1>3, <1>4 DEF Saves
<1>8. TornEdit.add = {}
  BY DEF TornEdit
<1>9. \A i \in 1 .. Len(f.recs) : i \in 1 .. n \/ f.recs[i] = TornEdit
  BY <1>2, <1>6
<1>10. TakenBelow(f, f.recs[n].next)
  BY <1>7, <1>8, <1>9 DEF TakenBelow, Below
<1>11. \A x \in Replayed(f.recs).tables : \E i \in 1 .. n : x \in f.recs[i].add
  BY <1>2, <1>5
<1>12. Below(Replayed(f.recs).tables, f.recs[n].next)
  BY <1>7, <1>11 DEF Below
<1>13. Covered(s, files, Replayed(f.recs).tables, f.recs[n].last)
  BY <1>7, <1>11 DEF Covered
<1>14. e[n] = f.recs[n]
  BY <1>2, <1>4
<1> QED BY <1>5, <1>7, <1>10, <1>12, <1>13, <1>14

-----------------------------------------------------------------------------
(***************************************************************************)
(* The writers keep the numbers.                                           *)
(***************************************************************************)
LEMMA BelowLater ==
  ASSUME NEW tables \in Versions, NEW m \in Nat, NEW n \in Nat, m <= n, Below(tables, m)
  PROVE  Below(tables, n)
<1>1. \A x \in tables : x[2] \in Nat
  BY DEF Versions, Tables
<1> QED BY <1>1 DEF Below

LEMMA TakenLater ==
  ASSUME NEW f \in Records(EditRecords), NEW m \in Nat, NEW n \in Nat, m <= n, TakenBelow(f, m)
  PROVE  TakenBelow(f, n)
<1>1. \A i \in 1 .. Len(f.recs) : f.recs[i] \in EditRecords
  BY ElementOfSeq DEF Records
<1>2. \A i \in 1 .. Len(f.recs) : f.recs[i].add \in Versions
  BY <1>1 DEF EditRecords, Versions
<1> QED BY <1>2, BelowLater DEF TakenBelow

LEMMA FreshTaken ==
  ASSUME NEW f \in Records(EditRecords), NEW n \in Nat, TakenBelow(f, n)
  PROVE  NotTaken(f, n)
<1>1. \A i \in 1 .. Len(f.recs) : f.recs[i] \in EditRecords
  BY ElementOfSeq DEF Records
<1>2. \A i \in 1 .. Len(f.recs) : \A x \in f.recs[i].add : x[2] \in Nat
  BY <1>1 DEF EditRecords, Tables
<1> QED BY <1>2 DEF TakenBelow, NotTaken, Below

\* The current manifest.
LEMMA CurrentRecords ==
  ASSUME NEW d, IsSound(d), d.current # 0
  PROVE  Current(d) \in Records(EditRecords) /\ Len(Current(d).recs) \in Nat
<1>1. Current(d) \in Records(EditRecords)
  BY DEF IsSound, CurrentThere, IsDisk, IsFiles, Current
<1> QED BY <1>1, LenProperties DEF Records

LEMMA OpenCurrentThere ==
  ASSUME BaseInv, up \in Opened
  PROVE  IsSound(disk) /\ disk.current = vs.manifest /\ vs.manifest \in DOMAIN disk.manifests /\ IsVersionSet(vs)
  BY DEF BaseInv, TypesInv, ManifestInv

\* Only a batch in the queue gets a number, only a new log its number.
LEMMA WriterMarks ==
  ASSUME BaseInv, NEW w \in Writer, Enter(w) \/ WriterStep(w)
  PROVE  /\ \A v \in Writer : ~Queued(v) => seq'[v] = seq[v]
         /\ logfile' = logfile \/ logfile' < vs'.next
<1>1. WriterInv /\ IsVersionSet(vs)
  BY DEF BaseInv, TypesInv
<1>2. ASSUME pc[w] = "room", Proceed
      PROVE  \A v \in Writer : ~Queued(v) => seq'[v] = seq[v]
  <2>1. CASE seq' = seq
    BY <2>1
  <2>2. CASE seq' = SetSequence(BuildBatchGroup(queue))
    <3>1. queue # <<>> /\ queue \in Seq(Writer)
      BY <1>1, <1>2, LeaderFacts DEF Leading, WriterInv, WritersSound
    <3>2. BuildBatchGroup(queue) \in 1 .. Len(queue) /\ Len(queue) \in Nat
      BY <3>1, GroupSize, LenProperties
    <3> SUFFICES ASSUME NEW v \in Writer, ~Queued(v)
                 PROVE  seq'[v] = seq[v]
      OBVIOUS
    <3>3. \A k \in 1 .. BuildBatchGroup(queue) : queue[k] # v
      BY <3>2 DEF Queued
    <3> QED BY <2>2, <3>3 DEF SetSequence
  <2> QED BY <1>2, <2>1, <2>2 DEF Proceed
<1>3. CASE RoomFound(w)
  BY <1>2, <1>3 DEF RoomFound, memVars
<1>4. CASE SwitchMem(w)
  <2>1. pc[w] = "room" /\ Proceed /\ logfile' = vs.next /\ vs' = [vs EXCEPT !.next = @ + 1]
    BY <1>4 DEF SwitchMem
  <2>2. vs.next \in Nat /\ vs'.next = vs.next + 1
    BY <1>1, <2>1 DEF IsVersionSet
  <2> QED BY <1>2, <2>1, <2>2
<1>5. CASE Enter(w) \/ Woken(w) \/ RoomError(w) \/ RoomDelay(w) \/ Slept(w) \/ RoomWait(w) \/ SwitchFails(w) \/ Flush(w)
  BY <1>5 DEF Enter, Woken, RoomError, RoomDelay, Slept, RoomWait, SwitchFails, Flush, memVars
<1>6. CASE AddRecord(w) \/ AddRecordFails(w) \/ SyncLog(w) \/ SyncFails(w)
  BY <1>6 DEF AddRecord, AddRecordFails, SyncLog, SyncFails
<1> QED BY <1>3, <1>4, <1>5, <1>6 DEF WriterStep

LEMMA QuietNumbers ==
  ASSUME NumberInv, UNCHANGED <<seq, disk, vs, rec, logfile, comp, bg>>, up' = up \/ (up \in Opened /\ up' \in Opened)
  PROVE  NumberInv'
<1>1. CASE up' = up
  <2>1. ReplayNumbers' <=> ReplayNumbers
    BY <1>1 DEF ReplayNumbers
  <2>2. OpenNumbers' <=> OpenNumbers
    BY DEF OpenNumbers
  <2> QED BY <1>1, <2>1, <2>2 DEF NumberInv
<1>2. CASE up \in Opened /\ up' \in Opened
  <2>1. OpenNumbers'
    BY <1>2 DEF OpenNumbers, NumberInv
  <2> QED BY <1>2, <2>1 DEF NumberInv, Opened, Replaying
<1> QED BY <1>1, <1>2

LEMMA WriterNumbers ==
  ASSUME BaseInv, StampInv, NumberInv, NEW w \in Writer, Enter(w) \/ WriterStep(w)
  PROVE  NumberInv'
<1>1. WriterFrame
  BY WriterStepFrame DEF BaseInv
<1>2. UNCHANGED <<up, bg, comp, rec>>
  BY <1>1 DEF WriterFrame, callerVars
<1>3. CASE up \in Opened
  <2>1. /\ disk'.tables = disk.tables /\ disk'.current = disk.current /\ Current(disk') = Current(disk)
        /\ vs'.tables = vs.tables /\ vs'.log = vs.log /\ vs'.next >= vs.next
        /\ vs.next \in Nat /\ vs'.next \in Nat /\ vs.tables \in Versions /\ vs.log \in Nat /\ logfile \in Nat
        /\ IsBg(bg) /\ IsComp(comp)
    BY <1>1 DEF WriterFrame, SameTables, SameVersion, IsVersionSet, BaseInv, TypesInv, MemTypes, BgTypes, Current
  <2>2. disk.current # 0 => Current(disk) \in Records(EditRecords) /\ Len(Current(disk).recs) \in Nat
    BY CurrentRecords DEF BaseInv, ManifestInv
  <2>3. Current(disk) \in Records(EditRecords)
    <3>1. vs.manifest \in DOMAIN disk.manifests /\ disk.current = vs.manifest /\ IsDisk(disk)
      BY <1>3, OpenCurrentThere DEF IsSound
    <3> QED BY <3>1 DEF IsDisk, IsFiles, Current
  <2>4. \A n \in DOMAIN disk.tables : \A v \in disk.tables[n] : seq'[v] = seq[v]
    <3>1. \A n \in DOMAIN disk.tables : \A v \in disk.tables[n] : v \in Batches /\ ~Queued(v)
      BY DEF StampInv, TablesTyped, Tabulated
    <3> QED BY <3>1, WriterMarks DEF Batches
  <2>5. \A n : Alike(seq, disk.tables, seq', disk'.tables, n)
    BY <2>1, <2>4 DEF Alike
  <2>6. disk'.current # 0 => Saves(seq', disk'.tables, Current(disk'))
    BY <2>1, <2>2, <2>5, SavesAlike DEF NumberInv
  <2>7. OpenNumbers
    BY <1>3 DEF NumberInv
  <2>8. TakenBelow(Current(disk'), vs'.next) /\ Below(vs'.tables, vs'.next)
    BY <2>1, <2>3, <2>7, TakenLater, BelowLater DEF OpenNumbers
  <2>9. logfile' <= vs'.next /\ vs'.log <= vs'.next
    <3>1. logfile' = logfile \/ logfile' < vs'.next
      BY WriterMarks
    <3>2. logfile' \in Nat
      BY <1>1 DEF WriterFrame, MemTypes
    <3> QED BY <2>1, <2>7, <3>1, <3>2 DEF OpenNumbers
  <2>10. \A n \in comp'.out : n < vs'.next /\ NotTaken(Current(disk'), n)
    <3>1. \A n \in comp.out : n \in Nat
      BY <2>1 DEF IsComp
    <3> QED BY <1>2, <2>1, <2>7, <3>1 DEF OpenNumbers
  <2>11. bg'.pc = "flush" => bg'.num < vs'.next /\ bg'.num \notin comp'.out /\ NotTaken(Current(disk'), bg'.num)
    <3>1. bg.num \in Nat
      BY <2>1 DEF IsBg
    <3> QED BY <1>2, <2>1, <2>7, <3>1 DEF OpenNumbers
  <2>12. bg'.pc \in Committing =>
           /\ bg'.edit.next <= vs'.next /\ bg'.edit.log <= bg'.edit.next
           /\ Below(bg'.edit.add, bg'.edit.next) /\ TakenBelow(Current(disk'), bg'.edit.next)
           /\ AllCovered(seq', disk'.tables, bg'.edit.last)
    <3>1. bg.edit.next \in Nat
      BY <2>1 DEF IsBg, EditRecords
    <3>2. AllCovered(seq, disk.tables, bg.edit.last) => AllCovered(seq', disk'.tables, bg.edit.last)
      BY <2>1, <2>4 DEF AllCovered
    <3> QED BY <1>2, <2>1, <2>7, <3>1, <3>2 DEF OpenNumbers
  <2>13. OpenNumbers'
    BY <1>2, <2>1, <2>7, <2>8, <2>9, <2>10, <2>11, <2>12 DEF OpenNumbers
  <2> QED BY <1>2, <1>3, <2>6, <2>13 DEF NumberInv, Opened, Replaying
<1>4. CASE up \notin Opened
  <2>1. queue = <<>> /\ WriterInv
    BY <1>4, NotOpened DEF BaseInv
  <2>2. pc[w] \notin Leading
    BY <2>1 DEF WriterInv, WritersSound
  <2>3. Woken(w) \/ Flush(w)
    <3>1. ~Enter(w)
      BY <1>4 DEF Enter, Opened
    <3>2. pc[w] \notin {"room", "sleep", "log", "sync"}
      BY <2>2 DEF Leading
    <3> QED BY <3>1, <3>2 DEF WriterStep, RoomError, RoomDelay, Slept, RoomFound, RoomWait, SwitchMem, SwitchFails,
                              AddRecord, AddRecordFails, SyncLog, SyncFails
  <2>4. UNCHANGED <<seq, disk, vs, logfile>>
    BY <2>3 DEF Woken, Flush, memVars
  <2> QED BY <1>2, <2>4, QuietNumbers
<1> QED BY <1>3, <1>4

-----------------------------------------------------------------------------
(***************************************************************************)
(* The background thread keeps the numbers.                                *)
(***************************************************************************)
LEMMA BackgroundVersion ==
  ASSUME BaseInv, BackgroundStep
  PROVE  \/ vs'.tables = vs.tables /\ vs'.log = vs.log
         \/ bg.pc \in Committing /\ vs' = LogAndApply(bg.edit)
<1>1. CASE CallIdle \/ CallMove \/ CallCompact \/ FlushBuilt \/ FlushBuildFails \/ FlushLogFails \/ MoveFails
             \/ FinishCompactionOutputFile \/ CompactStops \/ InstallFails
  BY <1>1 DEF CallIdle, CallMove, CallCompact, FlushBuilt, FlushBuildFails, FlushLogFails, MoveFails,
              FinishCompactionOutputFile, CompactStops, InstallFails
<1>2. CASE CallFlush \/ CompactImm \/ OpenCompactionOutputFile
  <2>1. vs' = [vs EXCEPT !.next = @ + 1]
    BY <1>2 DEF CallFlush, CompactImm, OpenCompactionOutputFile, StartFlush, NewFileNumber
  <2>2. IsVersionSet(vs)
    BY DEF BaseInv, TypesInv
  <2> QED BY <2>1, <2>2 DEF IsVersionSet
<1>3. CASE FlushLogged \/ Moved \/ Installed
  BY <1>3 DEF FlushLogged, Moved, Installed, Committing
<1> QED BY <1>1, <1>2, <1>3 DEF BackgroundStep

\* The manifest after a commit.
LEMMA CommitRecords ==
  ASSUME BaseInv, up \in Opened, NEW d, IsSound(d), SameTables(d), NEW ed \in EditRecords, NEW e \in Commits(d, ed)
  PROVE  e.manifests[vs.manifest].recs \in {Current(disk).recs, Current(disk).recs \o <<TornEdit>>, Current(disk).recs \o <<ed>>}
<1>1. disk.current = vs.manifest /\ vs.manifest \in DOMAIN d.manifests /\ d.manifests = disk.manifests
  BY OpenCurrentThere DEF SameTables
<1>2. IsDisk(d) /\ d.manifests[vs.manifest] = Current(disk)
  BY <1>1 DEF IsSound, Current
<1>3. TornEdit \in EditRecords
  BY DEF TornEdit, EditRecords
<1>4. Current(disk).recs \in Seq(EditRecords)
  BY <1>1, <1>2 DEF IsDisk, IsFiles, Records
<1>5. Current(disk).recs \o <<>> = Current(disk).recs
  BY <1>4, ConcatEmptySeq
<1>6. PICK r \in {<<>>, <<TornEdit>>, <<ed>>}, b \in BOOLEAN : e = ManifestWith(d, r, b)
  BY DEF Commits, FailedWrites
<1>7. r \in Seq(EditRecords)
  <2>1. <<>> \in Seq(EditRecords) /\ <<TornEdit>> \in Seq(EditRecords) /\ <<ed>> \in Seq(EditRecords)
    BY <1>3
  <2> QED BY <1>6, <2>1, Zenon
<1>8. e.manifests[vs.manifest].recs = Current(disk).recs \o r
  <2> DEFINE g == ManifestWith(d, r, b)
             f == d.manifests[vs.manifest]
  <2>1. vs.manifest \in DOMAIN d.manifests =>
          g.manifests[vs.manifest] = [recs |-> f.recs \o r, synced |-> IF b THEN Len(f.recs) + Len(r) ELSE f.synced]
    BY <1>2, <1>6, <1>7, ManifestDisk, Zenon
  <2> HIDE DEF g
  <2>2. g.manifests[vs.manifest].recs = f.recs \o r
    BY <1>1, <2>1
  <2> QED BY <1>2, <1>6, <2>2 DEF g
<1> QED BY <1>5, <1>8

\* With a record at its end, torn or whole, the manifest still saves the numbers.
LEMMA CommitSaves ==
  ASSUME BaseInv, NumberInv, up \in Opened, bg.pc \in Committing, NEW g,
         g.recs \in {Current(disk).recs, Current(disk).recs \o <<TornEdit>>, Current(disk).recs \o <<bg.edit>>}
  PROVE  /\ Saves(seq, disk.tables, g)
         /\ \A n : TakenBelow(Current(disk), n) /\ Below(bg.edit.add, n) => TakenBelow(g, n)
         /\ \A n : NotTaken(Current(disk), n) /\ (\A x \in bg.edit.add : x[2] # n) => NotTaken(g, n)
<1> DEFINE f == Current(disk)
<1>1. f \in Records(EditRecords)
  <2>1. vs.manifest \in DOMAIN disk.manifests /\ disk.current = vs.manifest /\ IsDisk(disk)
    BY OpenCurrentThere DEF IsSound
  <2> QED BY <2>1 DEF IsDisk, IsFiles, Current
<1>2. bg.edit \in EditRecords /\ TornEdit \in EditRecords /\ TornEdit.add = {}
  BY DEF BaseInv, TypesInv, BgTypes, IsBg, TornEdit, EditRecords
<1>3. /\ bg.edit.log <= bg.edit.next /\ TakenBelow(f, bg.edit.next)
      /\ Below(bg.edit.add, bg.edit.next) /\ AllCovered(seq, disk.tables, bg.edit.last)
  BY DEF NumberInv, OpenNumbers
<1>4. Saves(seq, disk.tables, f)
  BY DEF NumberInv, OpenNumbers
<1> HIDE DEF f
<1>5. CASE g.recs = f.recs
  <2>1. Saves(seq, disk.tables, g)
    BY <1>4, <1>5 DEF Saves
  <2>2. \A n : (TakenBelow(f, n) <=> TakenBelow(g, n)) /\ (NotTaken(f, n) <=> NotTaken(g, n))
    BY <1>5 DEF TakenBelow, NotTaken
  <2> QED BY <2>1, <2>2 DEF f
<1>6. CASE g.recs = f.recs \o <<TornEdit>>
  <2>1. Saves(seq, disk.tables, g)
    BY <1>1, <1>2, <1>4, <1>6, SavesAppended
  <2>2. /\ \A n : TakenBelow(f, n) /\ Below({}, n) => TakenBelow(g, n)
        /\ \A n : NotTaken(f, n) /\ (\A x \in {} : x[2] # n) => NotTaken(g, n)
    BY <1>1, <1>2, <1>6, AppendedTaken
  <2>3. \A n : Below({}, n)
    BY DEF Below
  <2> QED BY <2>1, <2>2, <2>3 DEF f
<1>7. CASE g.recs = f.recs \o <<bg.edit>>
  <2>1. Saves(seq, disk.tables, g)
    BY <1>1, <1>2, <1>3, <1>4, <1>7, SavesAppended
  <2> QED BY <1>1, <1>2, <1>7, <2>1, AppendedTaken DEF f
<1> QED BY <1>5, <1>6, <1>7 DEF f

\* The background thread writes tables with numbers that the manifest does not
\* name, and deletes tables.
LEMMA BackgroundTables ==
  ASSUME BaseInv, NumberInv, BackgroundStep
  PROVE  \A n : Alike(seq, disk.tables, seq, disk'.tables, n) \/ (NotTaken(Current(disk), n) /\ bg.pc \notin Committing)
<1>1. up \in Opened /\ OpenNumbers /\ IsSound(disk) /\ IsBg(bg) /\ IsComp(comp)
  BY BackgroundOpen DEF NumberInv, BaseInv, TypesInv, BgTypes
<1>2. CASE disk' = disk
  BY <1>2 DEF Alike
<1>3. CASE Committed
  BY <1>3 DEF Committed, Trimmed, Alike
<1>4. CASE FlushBuilt
  <2>1. disk' = disk \/ disk' = Tabled(disk, bg.num, UNION imm)
    BY <1>4 DEF FlushBuilt, Tabled
  <2>2. bg.pc = "flush" /\ bg.pc \notin Committing /\ bg.num \in Nat /\ NotTaken(Current(disk), bg.num)
    BY <1>1, <1>4 DEF FlushBuilt, Committing, IsBg, OpenNumbers
  <2>3. CASE disk' = disk
    BY <2>3 DEF Alike
  <2>4. CASE disk' = Tabled(disk, bg.num, UNION imm)
    <3>1. /\ DOMAIN disk'.tables = DOMAIN disk.tables \union {bg.num}
          /\ \A m \in DOMAIN disk.tables \ {bg.num} : disk'.tables[m] = disk.tables[m]
      BY <1>1, <2>2, <2>4, NewTableDisk
    <3> QED BY <2>2, <3>1 DEF Alike
  <2> QED BY <2>1, <2>3, <2>4
<1>5. CASE FinishCompactionOutputFile
  <2> DEFINE merged == UNION {disk.tables[m] : m \in Numbers(comp.inputs)}
  <2>1. PICK n \in comp.out : disk' = [disk EXCEPT !.tables = Extend(@, n, merged)]
    BY <1>5 DEF FinishCompactionOutputFile
  <2> HIDE DEF merged
  <2>2. disk' = Tabled(disk, n, merged) /\ n \in Nat /\ NotTaken(Current(disk), n) /\ bg.pc \notin Committing
    BY <1>1, <1>5, <2>1 DEF Tabled, IsComp, OpenNumbers, FinishCompactionOutputFile, Committing
  <2>3. /\ DOMAIN disk'.tables = DOMAIN disk.tables \union {n}
        /\ \A m \in DOMAIN disk.tables \ {n} : disk'.tables[m] = disk.tables[m]
    BY <1>1, <2>2, NewTableDisk
  <2> QED BY <2>2, <2>3 DEF Alike
<1> QED BY <1>2, <1>3, <1>4, <1>5, BackgroundDisk

\* The manifest is as it was, or ends with the record of the thread.
LEMMA BackgroundManifest ==
  ASSUME BaseInv, BackgroundStep
  PROVE  \/ Current(disk') = Current(disk)
         \/ /\ bg.pc \in Committing
            /\ Current(disk').recs \in {Current(disk).recs, Current(disk).recs \o <<TornEdit>>, Current(disk).recs \o <<bg.edit>>}
<1>1. up \in Opened /\ IsSound(disk) /\ IsBg(bg) /\ IsComp(comp) /\ SameTables(disk)
  BY BackgroundOpen DEF BaseInv, TypesInv, BgTypes, SameTables
<1>2. CASE disk' = disk
  BY <1>2
<1>3. CASE bg.pc \in Committing /\ Committed
  <2>1. PICK d \in Commits(disk, bg.edit) : Current(disk') = d.manifests[vs.manifest]
    BY <1>3 DEF Committed
  <2>2. bg.edit \in EditRecords
    BY <1>1 DEF IsBg
  <2> QED BY <1>1, <1>3, <2>1, <2>2, CommitRecords
<1>4. CASE FlushBuilt
  <2>1. disk' = disk \/ disk' = Tabled(disk, bg.num, UNION imm)
    BY <1>4 DEF FlushBuilt, Tabled
  <2>2. disk'.manifests = disk.manifests /\ disk'.current = disk.current
    BY <1>1, <2>1, NewTableDisk DEF IsBg
  <2>3. Current(disk') = Current(disk)
    BY <2>2 DEF Current
  <2> QED BY <2>3
<1>5. CASE FinishCompactionOutputFile
  <2> DEFINE merged == UNION {disk.tables[m] : m \in Numbers(comp.inputs)}
  <2>1. PICK n \in comp.out : disk' = [disk EXCEPT !.tables = Extend(@, n, merged)]
    BY <1>5 DEF FinishCompactionOutputFile
  <2> HIDE DEF merged
  <2>2. disk' = Tabled(disk, n, merged) /\ n \in Nat
    BY <1>1, <2>1 DEF Tabled, IsComp
  <2>3. disk'.manifests = disk.manifests /\ disk'.current = disk.current
    BY <1>1, <2>2, NewTableDisk
  <2>4. Current(disk') = Current(disk)
    BY <2>3 DEF Current
  <2> QED BY <2>4
<1> QED BY <1>2, <1>3, <1>4, <1>5, BackgroundDisk

\* What every step of the thread keeps.
Steady == /\ disk'.current # 0 /\ Saves(seq', disk'.tables, Current(disk'))
          /\ TakenBelow(Current(disk'), vs'.next) /\ Below(vs'.tables, vs'.next)
          /\ logfile' <= vs'.next /\ vs'.log <= vs'.next
          /\ AllCovered(seq', disk'.tables, vs'.last)
          /\ \A n : /\ NotTaken(Current(disk), n)
                    /\ bg.pc \in Committing => \A x \in bg.edit.add : x[2] # n
                    => NotTaken(Current(disk'), n)

LEMMA BackgroundSteady ==
  ASSUME BaseInv, FilesInv, StampInv, NumberInv, BackgroundStep
  PROVE  Steady
<1>1. up \in Opened /\ up' \in Opened /\ OpenNumbers /\ IsSound(disk) /\ IsBg(bg) /\ IsVersionSet(vs) /\ logfile \in Nat
  BY BackgroundOpen, BackgroundStays DEF NumberInv, BaseInv, TypesInv, BgTypes, MemTypes
<1>2. seq' = seq /\ logfile' = logfile
  BY BackgroundSignals
<1>3. IsVersionSet(vs') /\ vs'.next >= vs.next /\ disk'.current = disk.current /\ IsSound(disk')
  BY BackgroundFrame DEF Versioned, Filed
<1>4. disk'.current # 0 /\ disk.current # 0
  BY <1>1, <1>3 DEF OpenNumbers
<1>5. /\ Current(disk) \in Records(EditRecords) /\ Len(Current(disk).recs) \in Nat
      /\ Current(disk') \in Records(EditRecords) /\ Len(Current(disk').recs) \in Nat
  BY <1>1, <1>3, <1>4, CurrentRecords
<1>6. vs.next \in Nat /\ vs'.next \in Nat /\ vs.tables \in Versions /\ vs'.tables \in Versions /\ vs.log \in Nat /\ vs'.log \in Nat
  BY <1>1, <1>3 DEF IsVersionSet
<1>7. bg.pc \in Committing => /\ bg.edit.next <= vs.next /\ bg.edit.log <= bg.edit.next /\ Below(bg.edit.add, bg.edit.next)
                              /\ bg.edit.next \in Nat /\ bg.edit.log \in Nat /\ bg.edit.add \in Versions
  BY <1>1 DEF OpenNumbers, IsBg, EditRecords, Versions
<1>8. bg.pc \in Committing => Below(bg.edit.add, vs'.next)
  <2>1. bg.pc \in Committing => bg.edit.next <= vs'.next
    BY <1>3, <1>6, <1>7
  <2> QED BY <1>6, <1>7, <2>1, BelowLater
<1>9. TakenBelow(Current(disk), vs'.next)
  BY <1>1, <1>3, <1>5, <1>6, TakenLater DEF OpenNumbers
<1>10. /\ Saves(seq, disk.tables, Current(disk'))
       /\ TakenBelow(Current(disk'), vs'.next)
       /\ \A n : /\ NotTaken(Current(disk), n)
                 /\ bg.pc \in Committing => \A x \in bg.edit.add : x[2] # n
                 => NotTaken(Current(disk'), n)
  <2>1. CASE Current(disk') = Current(disk)
    BY <1>4, <1>9, <2>1 DEF NumberInv
  <2>2. CASE /\ bg.pc \in Committing
             /\ Current(disk').recs \in {Current(disk).recs, Current(disk).recs \o <<TornEdit>>, Current(disk).recs \o <<bg.edit>>}
    BY <1>1, <1>8, <1>9, <2>2, CommitSaves
  <2> QED BY <2>1, <2>2, BackgroundManifest
<1>11. Saves(seq, disk'.tables, Current(disk'))
  <2>1. \A n : Alike(seq, disk.tables, seq, disk'.tables, n) \/ (NotTaken(Current(disk), n) /\ bg.pc \notin Committing)
    BY BackgroundTables
  <2>2. \A n : Alike(seq, disk.tables, seq, disk'.tables, n) \/ NotTaken(Current(disk'), n)
    BY <1>10, <2>1
  <2> QED BY <1>5, <1>10, <2>2, SavesAlike
<1>12. Below(vs'.tables, vs'.next) /\ vs'.log <= vs'.next
  <2>1. CASE vs'.tables = vs.tables /\ vs'.log = vs.log
    BY <1>1, <1>3, <1>6, <2>1, BelowLater DEF OpenNumbers
  <2>2. CASE bg.pc \in Committing /\ vs' = LogAndApply(bg.edit)
    <3>1. vs'.tables = (vs.tables \ bg.edit.del) \union bg.edit.add /\ vs'.log = bg.edit.log
      BY <1>1, <2>2 DEF LogAndApply, IsVersionSet
    <3>2. Below(vs.tables, vs'.next)
      BY <1>1, <1>3, <1>6, BelowLater DEF OpenNumbers
    <3>3. Below(vs'.tables, vs'.next)
      BY <1>8, <2>2, <3>1, <3>2 DEF Below
    <3> QED BY <1>3, <1>6, <1>7, <2>2, <3>1, <3>3
  <2> QED BY <2>1, <2>2, BackgroundVersion
<1>13. logfile' <= vs'.next
  BY <1>1, <1>2, <1>3, <1>6 DEF OpenNumbers
<1>14. AllCovered(seq', disk'.tables, vs'.last)
  <2>1. StampInv'
    BY BackgroundStamp
  <2>2. \A n \in DOMAIN disk'.tables : \A v \in disk'.tables[n] : v \in Batches /\ Tabulated(disk', v)
    BY <2>1 DEF StampInv, TablesTyped, Tabulated
  <2>3. \A v \in Batches : Tabulated(disk', v) => seq'[v] <= vs'.last
    BY <1>1, <2>1 DEF StampInv, Stored
  <2> QED BY <2>2, <2>3 DEF AllCovered
<1> QED BY <1>2, <1>4, <1>10, <1>11, <1>12, <1>13, <1>14 DEF Steady

\* A step that ends in nothing, or in a compaction that goes on.
LEMMA EndNumbers ==
  ASSUME BaseInv, NumberInv, BackgroundStep, Steady, bg'.pc \in {"idle", "compact"}, bg'.pc = "compact" => comp'.on,
         comp'.out \subseteq comp.out, comp'.out # {} => bg'.pc = "compact",
         bg.pc \in Committing /\ comp'.out # {} => bg.pc = "flushlog"
  PROVE  OpenNumbers'
<1>1. up \in Opened /\ OpenNumbers /\ IsVersionSet(vs) /\ IsComp(comp)
  BY BackgroundOpen DEF NumberInv, BaseInv, TypesInv, BgTypes
<1>2. IsVersionSet(vs') /\ vs'.next >= vs.next
  BY BackgroundFrame DEF Versioned
<1>3. \A n \in comp'.out : n \in Nat /\ vs.next \in Nat /\ vs'.next \in Nat
  BY <1>1, <1>2 DEF IsComp, IsVersionSet
<1>4. \A n \in comp'.out : n < vs'.next
  BY <1>1, <1>2, <1>3 DEF OpenNumbers
<1>5. \A n \in comp'.out : NotTaken(Current(disk'), n)
  <2>1. \A n \in comp'.out : /\ NotTaken(Current(disk), n)
                             /\ bg.pc \in Committing => \A x \in bg.edit.add : x[2] # n
    BY <1>1 DEF OpenNumbers
  <2> QED BY <2>1 DEF Steady
<1>6. bg'.pc \notin Committing /\ bg'.pc # "flush" /\ bg'.pc # "flushlog" /\ bg'.pc # "move"
  BY DEF Committing
<1>7. comp'.out # {} => comp'.on /\ bg'.pc \notin {"idle", "move"}
  OBVIOUS
<1> QED BY <1>4, <1>5, <1>6, <1>7 DEF OpenNumbers, Steady

LEMMA EndPlace ==
  ASSUME EndCall \/ EndFlush
  PROVE  /\ bg'.pc = IF EndCall THEN "idle" ELSE "compact"
         /\ ~EndCall => comp.on
<1>1. NoBg.pc = "idle" /\ [NoBg EXCEPT !.pc = "compact"].pc = "compact"
  BY DEF NoBg
<1>2. EndCall => bg' = NoBg
  BY DEF EndCall
<1>3. EndFlush => EndCall \/ (comp.on /\ bg' = [NoBg EXCEPT !.pc = "compact"])
  BY DEF EndFlush
<1> QED BY <1>1, <1>2, <1>3, Zenon

\* The steps that end BackgroundCall or CompactMemTable.
LEMMA EndsNumbers ==
  ASSUME BaseInv, NumberInv, BackgroundStep, Steady,
         \/ CallIdle \/ FlushBuildFails \/ FlushLogged \/ FlushLogFails \/ Moved \/ MoveFails
         \/ CompactStops \/ Installed \/ InstallFails \/ (FlushBuilt /\ ShuttingDown)
  PROVE  OpenNumbers'
<1>1. up \in Opened /\ OpenNumbers /\ IsComp(comp)
  BY BackgroundOpen DEF NumberInv, BaseInv, TypesInv, BgTypes
<1>2. comp.out # {} => comp.on /\ bg.pc \notin {"idle", "move"}
  BY <1>1 DEF OpenNumbers
<1>3. CASE CallIdle \/ Moved \/ MoveFails
  <2>1. EndCall /\ comp' = comp /\ bg.pc \in {"idle", "move"}
    BY <1>3 DEF CallIdle, Moved, MoveFails
  <2>2. bg'.pc = "idle" /\ comp'.out = {}
    BY <1>2, <2>1, EndPlace
  <2> QED BY <2>1, <2>2, EndNumbers
<1>4. CASE FlushBuildFails \/ FlushLogged \/ FlushLogFails \/ (FlushBuilt /\ ShuttingDown)
  <2>1. EndFlush /\ comp' = comp /\ bg.pc \in {"flush", "flushlog"}
    BY <1>4 DEF FlushBuildFails, FlushLogged, FlushLogFails, FlushBuilt
  <2>2. bg'.pc \in {"idle", "compact"} /\ (bg'.pc = "compact" <=> comp.on)
    <3>1. comp.on => bg' = [NoBg EXCEPT !.pc = "compact"]
      BY <2>1 DEF EndFlush
    <3>2. ~comp.on => bg' = NoBg
      BY <2>1 DEF EndFlush, EndCall
    <3> QED BY <3>1, <3>2 DEF NoBg
  <2>3. bg.pc \in Committing => bg.pc = "flushlog"
    BY <2>1 DEF Committing
  <2> QED BY <1>2, <2>1, <2>2, <2>3, EndNumbers
<1>5. CASE CompactStops \/ Installed \/ InstallFails
  <2>1. EndCall /\ comp' = NoComp
    BY <1>5 DEF CompactStops, Installed, InstallFails, EndCompact
  <2>2. bg'.pc = "idle" /\ comp'.out = {}
    BY <2>1, EndPlace DEF NoComp
  <2> QED BY <2>1, <2>2, EndNumbers
<1> QED BY <1>3, <1>4, <1>5

\* A new file number.
LEMMA StartNumbers ==
  ASSUME BaseInv, NumberInv, BackgroundStep, Steady, CallFlush \/ CompactImm \/ OpenCompactionOutputFile
  PROVE  OpenNumbers'
<1>1. up \in Opened /\ OpenNumbers /\ IsVersionSet(vs) /\ IsComp(comp) /\ IsSound(disk) /\ IsBg(bg)
  BY BackgroundOpen DEF NumberInv, BaseInv, TypesInv, BgTypes
<1>2. vs' = [vs EXCEPT !.next = @ + 1] /\ disk' = disk /\ vs.next \in Nat /\ vs'.next = vs.next + 1
  BY <1>1 DEF CallFlush, CompactImm, OpenCompactionOutputFile, StartFlush, NewFileNumber, IsVersionSet
<1>3. \A n \in comp.out : n \in Nat /\ n < vs.next /\ NotTaken(Current(disk), n)
  BY <1>1 DEF IsComp, OpenNumbers
<1>4. NotTaken(Current(disk), vs.next)
  <2>1. Current(disk) \in Records(EditRecords)
    BY <1>1, CurrentRecords DEF OpenNumbers
  <2> QED BY <1>1, <1>2, <2>1, FreshTaken DEF OpenNumbers
<1>5. CASE CallFlush \/ CompactImm
  <2>1. comp' = comp /\ bg' = [NoBg EXCEPT !.pc = "flush", !.num = vs.next]
    BY <1>5 DEF CallFlush, CompactImm, StartFlush
  <2>2. bg'.pc = "flush" /\ bg'.num = vs.next
    BY <2>1 DEF NoBg
  <2>3. \A n \in comp'.out : n < vs'.next /\ NotTaken(Current(disk'), n)
    BY <1>2, <1>3, <2>1
  <2>4. bg'.num < vs'.next /\ bg'.num \notin comp'.out /\ NotTaken(Current(disk'), bg'.num)
    BY <1>2, <1>3, <1>4, <2>1, <2>2
  <2>5. comp'.out # {} => comp'.on /\ bg'.pc \notin {"idle", "move"}
    BY <1>1, <2>1, <2>2 DEF OpenNumbers
  <2>6. bg'.pc # "compact" /\ bg'.pc # "flushlog" /\ bg'.pc \notin Committing
    BY <2>2 DEF Committing
  <2> QED BY <2>3, <2>4, <2>5, <2>6 DEF OpenNumbers, Steady
<1>6. CASE OpenCompactionOutputFile
  <2>1. comp' = [comp EXCEPT !.out = {vs.next}] /\ bg' = bg /\ bg.pc = "compact"
    BY <1>6 DEF OpenCompactionOutputFile
  <2>2. comp'.out = {vs.next} /\ comp'.on
    BY <1>1, <2>1 DEF IsComp, OpenNumbers
  <2>3. \A n \in comp'.out : n < vs'.next /\ NotTaken(Current(disk'), n)
    BY <1>2, <1>4, <2>2
  <2>4. bg'.pc = "compact" /\ bg'.pc \notin Committing
    BY <2>1 DEF Committing
  <2> QED BY <2>2, <2>3, <2>4 DEF OpenNumbers, Steady
<1> QED BY <1>5, <1>6

\* An edit that is about to be written has the counters of the version set.
LEMMA EditNumbers ==
  ASSUME BaseInv, NumberInv, BackgroundStep, Steady, vs' = vs, disk'.manifests = disk.manifests, disk'.current = disk.current,
         comp' = comp,
         bg'.pc \in Committing, NEW log \in {vs.log, logfile}, NEW add, NEW del,
         bg'.edit = Edit(add, del, [vs EXCEPT !.log = log]), Below(add, vs.next),
         comp.out # {} => bg'.pc # "move", bg'.pc = "flushlog" => \A x \in add : x[2] \notin comp.out
  PROVE  OpenNumbers'
<1>1. up \in Opened /\ OpenNumbers /\ IsVersionSet(vs) /\ IsComp(comp)
  BY BackgroundOpen DEF NumberInv, BaseInv, TypesInv, BgTypes
<1>2. bg'.edit.next = vs.next /\ bg'.edit.last = vs.last /\ bg'.edit.log = log /\ bg'.edit.add = add
  BY <1>1 DEF Edit, IsVersionSet
<1>3. Current(disk') = Current(disk)
  BY DEF Current
<1>4. bg'.pc # "flush" /\ bg'.pc # "compact" /\ bg'.pc # "idle"
  BY DEF Committing
<1>5. vs.next \in Nat /\ vs.next <= vs.next
  BY <1>1 DEF IsVersionSet
<1>6. bg'.edit.log <= bg'.edit.next /\ bg'.edit.next <= vs'.next
  BY <1>1, <1>2, <1>5 DEF OpenNumbers
<1>7. Below(bg'.edit.add, bg'.edit.next) /\ TakenBelow(Current(disk'), bg'.edit.next) /\ AllCovered(seq', disk'.tables, bg'.edit.last)
  BY <1>2 DEF Steady
<1>8. /\ \A n \in comp'.out : n < vs'.next /\ NotTaken(Current(disk'), n)
      /\ comp'.out # {} => comp'.on /\ bg'.pc \notin {"idle", "move"}
      /\ bg'.pc = "flushlog" => \A x \in bg'.edit.add : x[2] \notin comp'.out
  BY <1>1, <1>2, <1>3, <1>4 DEF OpenNumbers
<1> QED BY <1>4, <1>6, <1>7, <1>8 DEF OpenNumbers, Steady

LEMMA MoveNumbers ==
  ASSUME BaseInv, NumberInv, BackgroundStep, Steady, CallMove
  PROVE  OpenNumbers'
<1>1. up \in Opened /\ OpenNumbers /\ IsVersionSet(vs)
  BY BackgroundOpen DEF NumberInv, BaseInv, TypesInv
<1>2. PICK f \in vs.tables : Pick({f}) /\ bg' = [NoBg EXCEPT !.pc = "move", !.edit = Edit({<<1, f[2]>>}, {f}, vs)]
  BY DEF CallMove
<1>3. bg.pc = "idle" /\ comp' = comp /\ vs' = vs /\ disk' = disk
  BY <1>2 DEF Pick, CallMove
<1>4. bg'.pc = "move" /\ bg'.pc \in Committing /\ bg'.edit = Edit({<<1, f[2]>>}, {f}, [vs EXCEPT !.log = vs.log])
  BY <1>1, <1>2 DEF NoBg, Committing, Edit, IsVersionSet
<1>5. Below({<<1, f[2]>>}, vs.next)
  BY <1>1 DEF OpenNumbers, Below
<1>6. comp.out = {}
  BY <1>1, <1>3 DEF OpenNumbers
<1> QED BY <1>3, <1>4, <1>5, <1>6, EditNumbers

LEMMA CompactNumbers ==
  ASSUME BaseInv, NumberInv, BackgroundStep, Steady, CallCompact
  PROVE  OpenNumbers'
<1>1. PICK inputs \in SUBSET vs.tables : Pick(inputs) /\ comp' = [NoComp EXCEPT !.on = TRUE, !.inputs = inputs, !.base = vs.tables]
  BY DEF CallCompact
<1>2. comp'.on /\ comp'.out = {} /\ bg.pc = "idle"
  BY <1>1 DEF NoComp, Pick
<1>3. bg'.pc = "compact" /\ bg.pc \notin Committing
  BY <1>2 DEF CallCompact, NoBg, Committing
<1> QED BY <1>2, <1>3, EndNumbers

LEMMA BuiltNumbers ==
  ASSUME BaseInv, NumberInv, BackgroundStep, Steady, FlushBuilt
  PROVE  OpenNumbers'
<1>1. up \in Opened /\ OpenNumbers /\ IsVersionSet(vs) /\ IsBg(bg) /\ IsSound(disk)
  BY BackgroundOpen DEF NumberInv, BaseInv, TypesInv, BgTypes
<1>2. CASE ShuttingDown
  BY <1>2, EndsNumbers
<1>3. CASE ~ShuttingDown
  <2> DEFINE Added(level) == IF UNION imm = {} THEN {} ELSE {<<level, bg.num>>}
  <2>1. PICK level \in {0, 1} : bg' = [bg EXCEPT !.pc = "flushlog", !.edit = Edit(Added(level), {}, [vs EXCEPT !.log = logfile])]
    BY <1>3 DEF FlushBuilt
  <2>2. vs' = vs /\ comp' = comp /\ bg.pc = "flush" /\ disk' \in {disk, Tabled(disk, bg.num, UNION imm)}
    BY DEF FlushBuilt, Tabled
  <2>3. disk'.manifests = disk.manifests /\ disk'.current = disk.current
    BY <1>1, <2>2, NewTableDisk DEF IsBg
  <2>4. bg.num < vs.next /\ bg.num \notin comp.out
    BY <1>1, <2>2 DEF OpenNumbers
  <2>5. Below(Added(level), vs.next) /\ \A x \in Added(level) : x[2] \notin comp.out
    BY <2>4 DEF Below
  <2> HIDE DEF Added
  <2>6. bg'.pc = "flushlog" /\ bg'.pc \in Committing /\ bg'.edit = Edit(Added(level), {}, [vs EXCEPT !.log = logfile])
    BY <1>1, <2>1 DEF IsBg, Committing
  <2>7. bg'.pc # "move"
    BY <2>6
  <2> QED BY <2>2, <2>3, <2>5, <2>6, <2>7, EditNumbers
<1> QED BY <1>2, <1>3

LEMMA OutputNumbers ==
  ASSUME BaseInv, NumberInv, BackgroundStep, Steady, FinishCompactionOutputFile
  PROVE  OpenNumbers'
<1>1. up \in Opened /\ OpenNumbers /\ IsVersionSet(vs) /\ IsBg(bg) /\ IsSound(disk) /\ IsComp(comp)
  BY BackgroundOpen DEF NumberInv, BaseInv, TypesInv, BgTypes
<1> DEFINE merged == UNION {disk.tables[m] : m \in Numbers(comp.inputs)}
<1>2. PICK n \in comp.out : /\ disk' = [disk EXCEPT !.tables = Extend(@, n, merged)]
                            /\ bg' = [NoBg EXCEPT !.pc = "install", !.edit = Edit({<<1, n>>}, comp.inputs, vs)]
  BY DEF FinishCompactionOutputFile
<1> HIDE DEF merged
<1>3. vs' = vs /\ comp' = comp
  BY DEF FinishCompactionOutputFile
<1>4. disk' = Tabled(disk, n, merged) /\ n \in Nat
  BY <1>1, <1>2 DEF Tabled, IsComp
<1>5. disk'.manifests = disk.manifests /\ disk'.current = disk.current
  BY <1>1, <1>4, NewTableDisk
<1>6. Below({<<1, n>>}, vs.next)
  BY <1>1 DEF OpenNumbers, Below
<1>7. bg'.pc = "install" /\ bg'.pc \in Committing /\ bg'.edit = Edit({<<1, n>>}, comp.inputs, [vs EXCEPT !.log = vs.log])
  BY <1>1, <1>2 DEF NoBg, Committing, Edit, IsVersionSet
<1>8. bg'.pc # "move" /\ bg'.pc # "flushlog"
  BY <1>7
<1> QED BY <1>3, <1>5, <1>6, <1>7, <1>8, EditNumbers

LEMMA BackgroundNumbers ==
  ASSUME BaseInv, FilesInv, StampInv, NumberInv, BackgroundStep
  PROVE  NumberInv'
<1>1. Steady
  BY BackgroundSteady
<1>2. OpenNumbers'
  BY <1>1, EndsNumbers, StartNumbers, MoveNumbers, CompactNumbers, BuiltNumbers, OutputNumbers DEF BackgroundStep
<1>3. up' \in Opened
  BY BackgroundStays
<1> QED BY <1>1, <1>2, <1>3 DEF NumberInv, Steady, Opened, Replaying

-----------------------------------------------------------------------------
(***************************************************************************)
(* What a crash leaves of the numbers.                                     *)
(***************************************************************************)
Saved(d) == d.current # 0 => Saves(seq, d.tables, Current(d))

LEMMA ResetNumbers ==
  ASSUME Reset, up' = "closed", Saved(disk')
  PROVE  NumberInv'
<1>1. seq' = seq
  BY DEF Reset
<1> QED BY <1>1 DEF NumberInv, Saved, Replaying, Opened

LEMMA InterruptedSaved ==
  ASSUME BaseInv, NumberInv, NEW e \in Interrupted
  PROVE  Saved(e)
<1>1. PICK d \in LogWrites : \/ e = d
                             \/ bg.pc \in Committing /\ e \in FailedWrites(d, bg.edit)
                             \/ up = "newcurrent" /\ e = Pointed(d, 1)
                             \/ up = "current" /\ e = Pointed(d, vs.manifest)
  BY InterruptedCases
<1>2. IsSound(d) /\ SameTables(d)
  BY LogWritesSound
<1>3. CASE e = d
  BY <1>2, <1>3 DEF SameTables, NumberInv, Saved, Current
<1>4. CASE bg.pc \in Committing /\ e \in FailedWrites(d, bg.edit)
  <2>1. bg.edit \in EditRecords /\ bg.edit.next > vs.manifest /\ vs.manifest \in Nat /\ e \in Commits(d, bg.edit)
    BY <1>4 DEF IsBg, BaseInv, ManifestInv, TypesInv, BgTypes, IsVersionSet, Commits
  <2>2. up \in Opened
    BY <1>4 DEF BaseInv, BgInv, Committing
  <2>3. e.tables = disk.tables /\ e.current = vs.manifest
    BY <1>2, <2>1, <2>2, CommitSound, OpenCurrentThere DEF SameTables
  <2>4. Current(e).recs \in {Current(disk).recs, Current(disk).recs \o <<TornEdit>>, Current(disk).recs \o <<bg.edit>>}
    BY <1>2, <2>1, <2>2, <2>3, CommitRecords DEF Current
  <2>5. Saves(seq, disk.tables, Current(e))
    BY <1>4, <2>2, <2>4, CommitSaves
  <2> QED BY <2>3, <2>5 DEF Saved
<1>5. CASE up = "newcurrent" /\ e = Pointed(d, 1)
  <2>1. 1 \in DOMAIN d.manifests
    BY <1>2, <1>5 DEF BaseInv, ManifestInv, SameTables
  <2>2. e.current = 1 /\ e.tables = disk.tables /\ e.manifests = disk.manifests
    BY <1>2, <1>5, <2>1, PointedSound DEF SameTables
  <2> QED BY <1>5, <2>2 DEF NumberInv, Saved, Current
<1>6. CASE up = "current" /\ e = Pointed(d, vs.manifest)
  <2>1. vs.manifest \in DOMAIN d.manifests
    BY <1>2, <1>6 DEF BaseInv, ManifestInv, SameTables
  <2>2. e.current = vs.manifest /\ e.tables = disk.tables /\ e.manifests = disk.manifests
    BY <1>2, <1>6, <2>1, PointedSound DEF SameTables
  <2> QED BY <1>6, <2>2 DEF NumberInv, Saved, Current
<1> QED BY <1>1, <1>3, <1>4, <1>5, <1>6

LEMMA CutSaved ==
  ASSUME NEW d, IsSound(d), Saved(d), NEW e \in PowerLosses(d)
  PROVE  Saved(e)
<1>1. e.tables = d.tables /\ e.current = d.current /\ IsCut(e.manifests, d.manifests)
  BY PowerLossDisk DEF IsSound
<1>2. SUFFICES ASSUME d.current # 0
               PROVE  Saves(seq, d.tables, Current(e))
  BY <1>1 DEF Saved
<1>3. d.current \in DOMAIN d.manifests /\ Current(d) \in Records(EditRecords)
  BY <1>2, CurrentRecords DEF IsSound, CurrentThere
<1>4. PICK k \in Current(d).synced .. Len(Current(d).recs) :
        Current(e) = [recs |-> SubSeq(Current(d).recs, 1, k), synced |-> Current(d).synced]
  BY <1>1, <1>3 DEF IsCut, Current
<1>5. Saves(seq, d.tables, Current(d))
  BY <1>2 DEF Saved
<1> QED BY <1>3, <1>4, <1>5, SavesCut

LEMMA CrashNumbers ==
  ASSUME BaseInv, NumberInv, NEW kind \in Crashes, Crash(kind)
  PROVE  NumberInv'
<1>1. disk' \in Survivors(kind) /\ Reset /\ up' = "closed"
  BY DEF Crash
<1>2. Saved(disk')
  <2>1. CASE disk' \in Interrupted
    BY <2>1, InterruptedSaved
  <2>2. CASE disk' \notin Interrupted
    <3>1. PICK d \in Interrupted : disk' \in PowerLosses(d)
      BY <1>1, <2>2 DEF Survivors
    <3> QED BY <3>1, InterruptedSound, InterruptedSaved, CutSaved
  <2> QED BY <2>1, <2>2
<1> QED BY <1>1, <1>2, ResetNumbers

LEMMA CallerNumbers ==
  ASSUME BaseInv, NumberInv, (\E r \in Reader : GetBegins(r) \/ GetEnds(r)) \/ Close \/ Closing \/ UNCHANGED vars
  PROVE  NumberInv'
<1>1. CASE (\E r \in Reader : GetBegins(r) \/ GetEnds(r)) \/ Close \/ UNCHANGED vars
  <2>1. UNCHANGED <<seq, disk, vs, rec, logfile, comp, bg>> /\ (up' = up \/ (up \in Opened /\ up' \in Opened))
    BY <1>1 DEF GetBegins, GetEnds, Close, vars, writerVars, memVars, Opened
  <2> QED BY <2>1, QuietNumbers
<1>2. CASE Closing /\ scheduled
  <2>1. UNCHANGED <<seq, disk, vs, rec, logfile, comp, bg>> /\ up \in Opened /\ up' \in Opened
    BY <1>2 DEF Closing, writerVars, memVars, Opened
  <2> QED BY <2>1, QuietNumbers
<1>3. CASE Closing /\ ~scheduled
  <2>1. Reset /\ up' = "closed" /\ disk' = disk
    BY <1>3 DEF Closing
  <2>2. Saved(disk')
    BY <2>1 DEF Saved, NumberInv
  <2> QED BY <2>1, <2>2, ResetNumbers
<1> QED BY <1>1, <1>2, <1>3

LEMMA OpenFailsStamps ==
  ASSUME BaseInv, StampInv, NumberInv, OpenFails
  PROVE  StampInv' /\ NumberInv'
<1>1. Reset /\ up' = "closed" /\ up' \notin Opened
  BY DEF OpenFails, Opened
<1>2. IsSound(disk) /\ disk.current \in Nat
  BY DEF BaseInv, ManifestInv, IsSound, IsDisk
<1>3. disk'.tables = disk.tables /\ disk'.logs = disk.logs /\ Saved(disk')
  <2>1. CASE up = "current"
    <3>1. disk' = Dropped(disk, vs.manifest)
      BY <2>1 DEF OpenFails, Dropped
    <3>2. vs.manifest \in Nat /\ disk.current < vs.manifest
      BY <2>1 DEF BaseInv, ManifestInv, TypesInv, IsVersionSet, Replaying
    <3>3. vs.manifest # disk.current
      BY <1>2, <3>2
    <3>4. /\ disk'.current = disk.current /\ disk'.tables = disk.tables /\ disk'.logs = disk.logs
          /\ DOMAIN disk'.manifests = DOMAIN disk.manifests \ {vs.manifest}
          /\ \A m \in DOMAIN disk'.manifests : disk'.manifests[m] = disk.manifests[m]
      BY <1>2, <3>1, <3>3, DroppedDisk
    <3>5. disk.current # 0 => disk.current \in DOMAIN disk'.manifests
      BY <1>2, <3>3, <3>4 DEF IsSound, CurrentThere
    <3> QED BY <3>4, <3>5 DEF Saved, NumberInv, Current
  <2>2. CASE up # "current"
    BY <2>2 DEF OpenFails, Saved, NumberInv
  <2> QED BY <2>1, <2>2
<1>4. NumberInv'
  BY <1>1, <1>3, ResetNumbers
<1>5. TablesTyped(disk') /\ \A v : (Tabulated(disk', v) <=> Tabulated(disk, v)) /\ (Recorded(disk', v) <=> Recorded(disk, v))
  BY <1>3 DEF TablesTyped, Tabulated, Recorded, StampInv
<1> QED BY <1>1, <1>4, <1>5, ResetStamp

-----------------------------------------------------------------------------
(***************************************************************************)
(* The numbers while the database is being opened.                         *)
(***************************************************************************)
\* A manifest of one record.
LEMMA OneSaves ==
  ASSUME NEW s, NEW files, NEW f, NEW ed \in EditRecords, f.recs = <<ed>>, ed.log <= ed.next,
         Below(ed.add, ed.next), Covered(s, files, ed.add, ed.last)
  PROVE  Saves(s, files, f) /\ \A n : Below(ed.add, n) => TakenBelow(f, n)
<1>1. Len(f.recs) = 1 /\ f.recs[1] = ed
  BY OneRecord
<1>2. \A j \in 1 .. Len(f.recs) : j = 1 /\ \A i \in 1 .. j : i = 1
  BY <1>1
<1> QED BY <1>1, <1>2 DEF Saves, TakenBelow

LEMMA CreateStamps ==
  ASSUME BaseInv, StampInv, NumberInv, Open \/ NewDB \/ SetCurrentFile
  PROVE  StampInv' /\ NumberInv'
<1>1. UNCHANGED openRest /\ up \notin Opened /\ up' \notin Opened /\ up' \notin Replaying /\ IsSound(disk) /\ seq' = seq
  BY DEF Open, NewDB, SetCurrentFile, Opened, Replaying, BaseInv, ManifestInv, openRest
<1>2. /\ disk'.tables = disk.tables /\ disk'.logs = disk.logs
      /\ Saved(disk') /\ (up' = "newcurrent" => Saves(seq, disk'.tables, disk'.manifests[1]))
  <2>1. CASE Open
    BY <2>1 DEF Open, NumberInv, Saved
  <2>2. CASE NewDB
    <3> DEFINE ed == Edit({}, {}, [log |-> 0, next |-> 2, last |-> 0])
    <3>1. disk' = Manifested(disk, 1, ed, 0) /\ disk.current = 0
      BY <2>2 DEF NewDB, Manifested, BaseInv, ManifestInv
    <3>2. ed \in EditRecords /\ ed.next = 2 /\ ed.log = 0 /\ ed.add = {}
      BY DEF Edit, EditRecords
    <3> HIDE DEF ed
    <3>3. /\ disk'.tables = disk.tables /\ disk'.logs = disk.logs /\ disk'.current = disk.current
          /\ disk'.manifests[1].recs = <<ed>>
      BY <1>1, <3>1, <3>2, NewManifestDisk
    <3>4. Below(ed.add, ed.next) /\ Covered(seq, disk'.tables, ed.add, ed.last)
      BY <3>2 DEF Below, Covered
    <3>5. Saves(seq, disk'.tables, disk'.manifests[1])
      BY <3>2, <3>3, <3>4, OneSaves
    <3> QED BY <3>1, <3>3, <3>5 DEF Saved
  <2>3. CASE SetCurrentFile
    <3>1. disk' = Pointed(disk, 1) /\ up = "newcurrent" /\ up' = "recover"
      BY <2>3 DEF SetCurrentFile, Pointed
    <3>2. 1 \in DOMAIN disk.manifests
      BY <3>1 DEF BaseInv, ManifestInv
    <3>3. disk'.current = 1 /\ disk'.tables = disk.tables /\ disk'.manifests = disk.manifests /\ disk'.logs = disk.logs
      BY <1>1, <3>1, <3>2, PointedSound
    <3> QED BY <3>1, <3>3 DEF NumberInv, Saved, Current
  <2> QED BY <2>1, <2>2, <2>3
<1>3. TablesTyped(disk') /\ \A v : (Tabulated(disk', v) <=> Tabulated(disk, v)) /\ (Recorded(disk', v) <=> Recorded(disk, v))
  BY <1>2 DEF TablesTyped, Tabulated, Recorded, StampInv
<1>4. StampInv'
  BY <1>1, <1>3, OpeningStamp
<1>5. up' # "current"
  BY <1>1 DEF Replaying
<1> QED BY <1>1, <1>2, <1>4, <1>5 DEF NumberInv, Saved

LEMMA RecoverStamps ==
  ASSUME BaseInv, FilesInv, StampInv, NumberInv, Recover
  PROVE  StampInv' /\ NumberInv'
<1> DEFINE recs == disk.manifests[disk.current].recs
           v == Replayed(recs)
<1>1. /\ UNCHANGED openRest /\ UNCHANGED <<logfile, disk>> /\ up = "recover" /\ up \notin Opened /\ seq' = seq
      /\ up' \in {"unusable", "replay"}
  BY DEF Recover, Opened, openRest
<1>2. up' \notin Opened /\ up' # "newcurrent" /\ up' # "current" /\ up' # "manifest"
  BY <1>1 DEF Opened
<1>3. StampInv'
  BY <1>1, <1>2, OpeningStamp DEF StampInv
<1>4. CASE up' = "unusable"
  BY <1>1, <1>2, <1>3, <1>4 DEF NumberInv, Replaying
<1>5. CASE /\ ~Corrupt(recs)
           /\ vs' = [tables |-> v.tables, log |-> v.log, last |-> v.last, manifest |-> v.next, next |-> v.next + 1]
           /\ rec' = [rec EXCEPT !.logs = LogsToReplay(disk, v)]
           /\ up' = "replay"
  <2>1. disk.current # 0 /\ IsSound(disk) /\ rec \in [logs : SUBSET Nat, add : Versions] /\ IsDisk(disk)
    BY <1>1 DEF BaseInv, ManifestInv, TypesInv, OpenTypes
  <2>2. Current(disk) \in Records(EditRecords) /\ Current(disk).recs = recs
    BY <2>1, CurrentRecords DEF Current
  <2>3. recs \in Seq(EditRecords)
    BY <2>2 DEF Records
  <2>4. v.tables \in Versions /\ v.log \in Nat /\ v.next \in Nat /\ v.last \in Nat
    BY <1>5, <2>3, ReplayedType
  <2>5. /\ v.log <= v.next /\ TakenBelow(Current(disk), v.next)
        /\ Below(v.tables, v.next) /\ Covered(seq, disk.tables, v.tables, v.last)
    <3>1. Saves(seq, disk.tables, Current(disk))
      BY <2>1 DEF NumberInv
    <3> QED BY <1>5, <2>2, <3>1, SavesReplayed
  <2>6. rec.add = {}
    BY <1>1 DEF FilesInv, Replaying
  <2> HIDE DEF v, recs
  <2>7. /\ vs'.tables = v.tables /\ vs'.log = v.log /\ vs'.last = v.last /\ vs'.next = v.next + 1
        /\ rec'.logs = LogsToReplay(disk, v) /\ rec'.add = {}
    BY <1>5, <2>1, <2>6
  <2>8. v.next + 1 \in Nat /\ v.next <= v.next + 1 /\ v.log <= v.next + 1
    BY <2>4, <2>5
  <2>9. TakenBelow(Current(disk), vs'.next) /\ Below(vs'.tables, vs'.next)
    BY <2>2, <2>4, <2>5, <2>7, <2>8, TakenLater, BelowLater
  <2>10. vs'.tables \union rec'.add = vs'.tables
    BY <2>7
  <2>11. \A n \in DOMAIN disk.logs \ rec'.logs : n < vs'.next
    <3>1. \A n \in DOMAIN disk.logs : n \in Nat
      BY <2>1 DEF IsDisk, IsFiles, Filenames
    <3>2. \A n \in DOMAIN disk.logs \ rec'.logs : ~(n >= v.log)
      BY <2>7 DEF LogsToReplay
    <3> QED BY <2>4, <2>7, <2>8, <3>1, <3>2
  <2>12. vs'.log <= vs'.next /\ Covered(seq, disk.tables, vs'.tables, vs'.last)
    BY <2>5, <2>7, <2>8
  <2>13. ReplayNumbers'
    BY <1>1, <1>2, <2>1, <2>9, <2>10, <2>11, <2>12 DEF ReplayNumbers
  <2> QED BY <1>1, <1>2, <1>3, <2>13 DEF NumberInv
<1> QED BY <1>3, <1>4, <1>5 DEF Recover

LEMMA InLogRecorded ==
  ASSUME NEW d, IsDisk(d), NEW n \in DOMAIN d.logs, NEW w \in InLog(d.logs[n].recs)
  PROVE  Recorded(d, w)
<1>1. d.logs[n].recs \in Seq(SUBSET Batches)
  BY DEF IsDisk, IsFiles, Records
<1>2. DOMAIN d.logs[n].recs = 1 .. Len(d.logs[n].recs)
  BY <1>1, LenProperties
<1>3. \E i \in DOMAIN d.logs[n].recs : w \in d.logs[n].recs[i]
  BY DEF InLog
<1> QED BY <1>2, <1>3 DEF Recorded

\* The batches of a log become a table with a fresh number.
LEMMA ReplayStamps ==
  ASSUME BaseInv, StampInv, NumberInv, RecoverLogFile
  PROVE  StampInv' /\ NumberInv'
<1> DEFINE n == CHOOSE k \in rec.logs : \A m \in rec.logs : k <= m
           found == InLog(disk.logs[n].recs)
           used == IF found = {} THEN vs.next ELSE vs.next + 1
           h == Highest({used, n + 1})
           s == MaxSequence(vs.last, found)
           more == IF found = {} THEN {} ELSE {<<0, vs.next>>}
<1>1. /\ UNCHANGED openRest /\ up' = "replay" /\ up = "replay" /\ rec.logs # {} /\ seq' = seq
      /\ rec'.logs = rec.logs \ {n} /\ rec'.add = rec.add \union more
      /\ disk' = IF found = {} THEN disk ELSE [disk EXCEPT !.tables = Extend(@, vs.next, found)]
      /\ vs' = [vs EXCEPT !.next = h, !.last = s]
  BY DEF RecoverLogFile, openRest
<1>2. /\ IsSound(disk) /\ IsDisk(disk) /\ IsVersionSet(vs) /\ rec \in [logs : SUBSET Nat, add : Versions]
      /\ seq \in [Writer -> Nat] /\ rec.logs \subseteq DOMAIN disk.logs
  BY <1>1 DEF BaseInv, TypesInv, ManifestInv, OpenTypes, WriterInv, Replaying
<1>3. n \in rec.logs /\ n \in Nat /\ n \in DOMAIN disk.logs
  <2>1. \E k \in rec.logs : \A m \in rec.logs : k <= m
    BY <1>1, <1>2, LeastNatural
  <2> QED BY <1>2, <2>1
<1> HIDE DEF n
<1>4. found \in SUBSET Batches
  <2>1. disk.logs[n].recs \in Seq(SUBSET Batches)
    BY <1>2, <1>3 DEF IsDisk, IsFiles, Records
  <2> QED BY <2>1, InLogBatches
<1>5. \A w \in found : Recorded(disk, w)
  BY <1>2, <1>3, InLogRecorded
<1> HIDE DEF found
<1>6. s \in Nat /\ vs.last <= s /\ \A w \in found : seq[w] <= s
  BY <1>2, <1>4, MaxSequenceIs DEF IsVersionSet
<1> HIDE DEF s
<1>7. used \in Nat /\ vs.next <= used /\ vs.next \in Nat /\ (found # {} => vs.next < used)
  BY <1>2 DEF IsVersionSet
<1> HIDE DEF used
<1>8. h \in Nat /\ used <= h /\ n + 1 <= h
  <2>1. CASE used <= n + 1
    <3>1. h = n + 1
      BY <1>3, <1>7, <2>1, HighestIs
    <3> QED BY <1>3, <2>1, <3>1
  <2>2. CASE ~(used <= n + 1)
    <3>1. h = used
      BY <1>3, <1>7, <2>2, HighestIs
    <3> QED BY <1>3, <1>7, <2>2, <3>1
  <2> QED BY <2>1, <2>2
<1> HIDE DEF h
<1>9. vs'.next = h /\ vs'.last = s /\ vs'.log = vs.log /\ vs'.tables = vs.tables /\ vs.log \in Nat /\ vs.last \in Nat
  BY <1>1, <1>2 DEF IsVersionSet
<1>10. /\ disk'.logs = disk.logs /\ disk'.manifests = disk.manifests /\ disk'.current = disk.current
       /\ DOMAIN disk'.tables = IF found = {} THEN DOMAIN disk.tables ELSE DOMAIN disk.tables \union {vs.next}
       /\ found # {} => disk'.tables[vs.next] = found
       /\ \A m \in DOMAIN disk.tables : disk'.tables[m] = disk.tables[m] \/ (m = vs.next /\ found # {})
  <2>1. CASE found = {}
    BY <1>1, <2>1
  <2>2. CASE found # {}
    <3>1. disk' = Tabled(disk, vs.next, found)
      BY <1>1, <2>2 DEF Tabled
    <3>2. /\ disk'.logs = disk.logs /\ disk'.manifests = disk.manifests /\ disk'.current = disk.current
          /\ DOMAIN disk'.tables = DOMAIN disk.tables \union {vs.next} /\ disk'.tables[vs.next] = found
          /\ \A m \in DOMAIN disk.tables \ {vs.next} : disk'.tables[m] = disk.tables[m]
      BY <1>2, <1>7, <3>1, NewTableDisk
    <3> QED BY <2>2, <3>2
  <2> QED BY <2>1, <2>2
<1>11. StampInv'
  <2>1. TablesTyped(disk')
    BY <1>4, <1>10 DEF TablesTyped, StampInv
  <2>2. \A w \in Batches : /\ Tabulated(disk', w) => Tabulated(disk, w) \/ Recorded(disk, w)
                           /\ Recorded(disk', w) => Recorded(disk, w)
    BY <1>5, <1>10 DEF Tabulated, Recorded
  <2>3. up \notin Opened /\ up' \notin Opened
    BY <1>1 DEF Opened
  <2> QED BY <1>1, <2>1, <2>2, <2>3, OpeningStamp
<1>12. ReplayNumbers /\ Current(disk') = Current(disk)
  BY <1>1, <1>10 DEF NumberInv, Replaying, Current
<1>13. disk.current # 0 /\ Current(disk) \in Records(EditRecords) /\ Len(Current(disk).recs) \in Nat
  BY <1>2, <1>12, CurrentRecords DEF ReplayNumbers
<1>14. vs.next <= h
  BY <1>7, <1>8
<1>15. Saves(seq', disk'.tables, Current(disk'))
  <2>1. NotTaken(Current(disk), vs.next)
    BY <1>7, <1>12, <1>13, FreshTaken DEF ReplayNumbers
  <2>2. \A m : Alike(seq, disk.tables, seq, disk'.tables, m) \/ NotTaken(Current(disk), m)
    BY <1>10, <2>1 DEF Alike
  <2>3. Saves(seq, disk.tables, Current(disk))
    BY <1>13 DEF NumberInv
  <2> QED BY <1>1, <1>12, <1>13, <2>2, <2>3, SavesAlike
<1>16. TakenBelow(Current(disk'), vs'.next) /\ vs'.log <= vs'.next
  BY <1>7, <1>8, <1>9, <1>12, <1>13, <1>14, TakenLater DEF ReplayNumbers
<1>17. vs.tables \union rec.add \in Versions
  BY <1>2 DEF IsVersionSet, Versions
<1>18. Below(vs'.tables \union rec'.add, vs'.next)
  <2>1. Below(vs.tables \union rec.add, h)
    BY <1>7, <1>8, <1>12, <1>14, <1>17, BelowLater DEF ReplayNumbers
  <2>2. Below(more, h)
    BY <1>7, <1>8 DEF Below
  <2> QED BY <1>1, <1>9, <2>1, <2>2 DEF Below
<1>19. Covered(seq', disk'.tables, vs'.tables \union rec'.add, vs'.last)
  <2> SUFFICES ASSUME NEW x \in vs.tables \union rec.add \union more, x[2] \in DOMAIN disk'.tables, NEW w \in disk'.tables[x[2]]
               PROVE  seq[w] <= s
    BY <1>1, <1>9 DEF Covered
  <2>1. CASE found # {} /\ x[2] = vs.next
    BY <1>6, <1>10, <2>1
  <2>2. CASE ~(found # {} /\ x[2] = vs.next)
    <3>1. x \in vs.tables \union rec.add
      BY <2>2
    <3>2. x[2] \in DOMAIN disk.tables /\ disk'.tables[x[2]] = disk.tables[x[2]]
      BY <1>10, <2>2
    <3>3. seq[w] <= vs.last
      BY <1>12, <3>1, <3>2 DEF ReplayNumbers, Covered
    <3>4. w \in Writer
      BY <3>2 DEF StampInv, TablesTyped, Batches
    <3>5. seq[w] \in Nat
      BY <1>2, <3>4
    <3> QED BY <1>6, <1>9, <3>3, <3>5
  <2> QED BY <2>1, <2>2
<1>20. \A m \in DOMAIN disk'.logs \ rec'.logs : m < vs'.next
  <2>1. \A m \in DOMAIN disk.logs : m \in Nat
    BY <1>2 DEF IsDisk, IsFiles, Filenames
  <2>2. \A m \in DOMAIN disk.logs \ rec.logs : m < vs.next
    BY <1>12 DEF ReplayNumbers
  <2> QED BY <1>1, <1>3, <1>7, <1>8, <1>9, <1>10, <1>14, <2>1, <2>2
<1>21. ReplayNumbers'
  BY <1>1, <1>10, <1>13, <1>16, <1>18, <1>19, <1>20 DEF ReplayNumbers
<1> QED BY <1>1, <1>11, <1>15, <1>21 DEF NumberInv, Opened

LEMMA OpenLogStamps ==
  ASSUME BaseInv, StampInv, NumberInv, OpenLog
  PROVE  StampInv' /\ NumberInv'
<1>1. /\ UNCHANGED openRest /\ up = "replay" /\ up' = "manifest" /\ rec.logs = {} /\ rec' = rec /\ seq' = seq
      /\ logfile' = vs.next /\ vs' = [vs EXCEPT !.next = @ + 1] /\ disk' = WithLog(disk, vs.next)
  BY DEF OpenLog, WithLog, openRest
<1>2. IsDisk(disk) /\ IsSound(disk) /\ IsVersionSet(vs) /\ vs.next \in Nat /\ rec \in [logs : SUBSET Nat, add : Versions]
  BY DEF BaseInv, TypesInv, ManifestInv, IsVersionSet, OpenTypes
<1>3. /\ disk'.tables = disk.tables /\ disk'.manifests = disk.manifests /\ disk'.current = disk.current
      /\ DOMAIN disk'.logs = DOMAIN disk.logs \union {vs.next} /\ disk'.logs[vs.next].recs = <<>>
  BY <1>1, <1>2, NewLogDisk
<1>4. vs'.next = vs.next + 1 /\ vs'.tables = vs.tables /\ vs'.log = vs.log /\ vs'.last = vs.last /\ vs.log \in Nat
  BY <1>1, <1>2 DEF IsVersionSet
<1>5. ReplayNumbers /\ Current(disk') = Current(disk)
  BY <1>1, <1>3 DEF NumberInv, Replaying, Current
<1>6. StampInv'
  <2>1. TablesTyped(disk') /\ \A v : Tabulated(disk', v) <=> Tabulated(disk, v)
    BY <1>3 DEF TablesTyped, Tabulated, StampInv
  <2>2. \A v : Recorded(disk', v) => Recorded(disk, v)
    BY <1>1, <1>2, NewLogRecorded
  <2>3. up \notin Opened /\ up' \notin Opened
    BY <1>1 DEF Opened
  <2> QED BY <1>1, <2>1, <2>2, <2>3, OpeningStamp
<1>7. disk.current # 0 /\ Current(disk) \in Records(EditRecords)
  BY <1>2, <1>5, CurrentRecords DEF ReplayNumbers
<1>8. vs.tables \union rec.add \in Versions /\ vs.next + 1 \in Nat /\ vs.next <= vs.next + 1
  BY <1>2 DEF IsVersionSet, Versions
<1>9. TakenBelow(Current(disk'), vs'.next) /\ Below(vs'.tables \union rec'.add, vs'.next) /\ vs'.log <= vs'.next
  <2>1. TakenBelow(Current(disk), vs.next + 1)
    BY <1>2, <1>5, <1>7, <1>8, TakenLater DEF ReplayNumbers
  <2>2. Below(vs.tables \union rec.add, vs.next + 1)
    BY <1>2, <1>5, <1>8, BelowLater DEF ReplayNumbers
  <2>3. vs.log <= vs.next
    BY <1>5 DEF ReplayNumbers
  <2> QED BY <1>1, <1>2, <1>4, <1>5, <2>1, <2>2, <2>3
<1>10. Covered(seq', disk'.tables, vs'.tables \union rec'.add, vs'.last)
  BY <1>1, <1>3, <1>4, <1>5 DEF ReplayNumbers
<1>11. \A n \in DOMAIN disk.logs : n \in Nat /\ n < vs.next
  BY <1>1, <1>2, <1>5 DEF ReplayNumbers, IsDisk, IsFiles, Filenames
<1>12. \A n \in DOMAIN disk'.logs : n < vs'.next /\ (n < logfile' \/ (n = logfile' /\ disk'.logs[n].recs = <<>>))
  BY <1>1, <1>2, <1>3, <1>4, <1>11
<1>13. rec'.logs = {} /\ logfile' <= vs'.next
  BY <1>1, <1>2, <1>4
<1>14. ReplayNumbers'
  BY <1>1, <1>3, <1>7, <1>9, <1>10, <1>12, <1>13 DEF ReplayNumbers
<1>15. Saves(seq', disk'.tables, Current(disk'))
  BY <1>1, <1>3, <1>5, <1>7 DEF NumberInv
<1> QED BY <1>1, <1>6, <1>14, <1>15 DEF NumberInv, Opened

LEMMA OpenManifestStamps ==
  ASSUME BaseInv, StampInv, NumberInv, OpenManifest
  PROVE  StampInv' /\ NumberInv'
<1> DEFINE ed == Edit(vs.tables \union rec.add, {}, [vs EXCEPT !.log = logfile])
<1>1. /\ UNCHANGED openRest /\ up = "manifest" /\ up' = "current" /\ UNCHANGED <<logfile, vs, rec>> /\ seq' = seq
      /\ disk' = Manifested(disk, vs.manifest, ed, 1)
  BY DEF OpenManifest, Manifested, openRest
<1>2. IsSound(disk) /\ IsVersionSet(vs) /\ vs.next \in Nat /\ rec \in [logs : SUBSET Nat, add : Versions] /\ logfile \in Nat
  BY DEF BaseInv, TypesInv, ManifestInv, IsVersionSet, OpenTypes, MemTypes
<1>3. disk.current < vs.manifest /\ vs.manifest < vs.next /\ disk.current \in Nat /\ vs.manifest \in Nat
  BY <1>1, <1>2 DEF BaseInv, ManifestInv, Replaying, IsSound, IsDisk, IsVersionSet
<1>4. vs.tables \union rec.add \in Versions /\ {} \in Versions
  BY <1>2 DEF IsVersionSet, Versions
<1>5. /\ ed \in EditRecords /\ ed.add = vs.tables \union rec.add /\ ed.next = vs.next /\ ed.log = logfile
      /\ ed.last = vs.last
  BY <1>2, <1>4 DEF Edit, EditRecords, IsVersionSet, Versions
<1> HIDE DEF ed
<1>6. /\ disk'.logs = disk.logs /\ disk'.tables = disk.tables /\ disk'.current = disk.current
      /\ disk'.manifests[vs.manifest].recs = <<ed>>
      /\ \A m \in DOMAIN disk.manifests \ {vs.manifest} : disk'.manifests[m] = disk.manifests[m]
  <2>1. ed.next > vs.manifest
    BY <1>3, <1>5
  <2> QED BY <1>1, <1>2, <1>3, <1>5, <2>1, NewManifestDisk
<1>7. ReplayNumbers
  BY <1>1 DEF NumberInv, Replaying
<1>8. disk.current # 0 /\ Current(disk') = Current(disk)
  <2>1. disk.current # 0 /\ disk.current \in DOMAIN disk.manifests /\ disk.current # vs.manifest
    BY <1>2, <1>3, <1>7 DEF ReplayNumbers, IsSound, CurrentThere
  <2> QED BY <1>6, <2>1 DEF Current
<1>9. /\ logfile <= vs.next /\ Below(ed.add, ed.next)
      /\ Covered(seq, disk'.tables, ed.add, ed.last)
  BY <1>1, <1>5, <1>6, <1>7 DEF ReplayNumbers
<1>10. Saves(seq, disk'.tables, disk'.manifests[vs.manifest]) /\ TakenBelow(disk'.manifests[vs.manifest], vs.next)
  BY <1>5, <1>6, <1>9, OneSaves
<1>11. ReplayNumbers'
  BY <1>1, <1>6, <1>7, <1>8, <1>10 DEF ReplayNumbers
<1>12. StampInv'
  <2>1. TablesTyped(disk') /\ \A v : (Tabulated(disk', v) <=> Tabulated(disk, v)) /\ (Recorded(disk', v) <=> Recorded(disk, v))
    BY <1>6 DEF TablesTyped, Tabulated, Recorded, StampInv
  <2>2. up \notin Opened /\ up' \notin Opened
    BY <1>1 DEF Opened
  <2> QED BY <1>1, <2>1, <2>2, OpeningStamp
<1>13. Saves(seq', disk'.tables, Current(disk'))
  BY <1>1, <1>6, <1>8 DEF NumberInv
<1> QED BY <1>1, <1>10, <1>11, <1>12, <1>13 DEF NumberInv, Opened

\* What is left has numbers up to last_sequence_: the tables of the version
\* and a log without records.
LEMMA OpenCurrentStamps ==
  ASSUME BaseInv, FilesInv, StampInv, NumberInv, OpenCurrent
  PROVE  StampInv' /\ NumberInv'
<1> DEFINE d == Pointed(disk, vs.manifest)
<1>1. /\ UNCHANGED openRest /\ up = "current" /\ up' = "open" /\ logfile' = logfile /\ seq' = seq
      /\ vs' = [vs EXCEPT !.tables = @ \union rec.add, !.log = logfile]
      /\ disk' = DeleteObsoleteFiles(d, vs', NoComp, {}, FALSE)
      /\ bg' = bg /\ comp' = comp
  BY DEF OpenCurrent, Pointed, openRest
<1>2. /\ IsSound(disk) /\ IsVersionSet(vs) /\ vs.next \in Nat /\ rec \in [logs : SUBSET Nat, add : Versions] /\ logfile \in Nat
      /\ vs.manifest \in DOMAIN disk.manifests /\ IsDisk(disk)
  BY <1>1 DEF BaseInv, TypesInv, ManifestInv, IsVersionSet, OpenTypes, MemTypes
<1>3. disk.current < vs.manifest /\ disk.current \in Nat /\ vs.manifest \in Nat
  BY <1>1, <1>2 DEF BaseInv, ManifestInv, Replaying, IsDisk, IsVersionSet
<1>4. IsDisk(d) /\ d.current = vs.manifest /\ d.tables = disk.tables /\ d.logs = disk.logs /\ d.manifests = disk.manifests
  BY <1>2, PointedSound DEF IsSound
<1> DEFINE none == {}
           err == FALSE
           c == NoComp
<1>0. disk' = DeleteObsoleteFiles(d, vs', c, none, err) /\ ~err
  BY <1>1
<1> HIDE DEF d, none, err, c
<1>5. /\ disk'.current = d.current
      /\ DOMAIN disk'.logs = {n \in DOMAIN d.logs : n >= vs'.log}
      /\ DOMAIN disk'.manifests = {n \in DOMAIN d.manifests : n >= vs'.manifest}
      /\ DOMAIN disk'.tables = DOMAIN d.tables \cap (none \union AddLiveFiles(vs', c))
      /\ \A n \in DOMAIN disk'.logs : n \in DOMAIN d.logs /\ disk'.logs[n] = d.logs[n]
      /\ \A n \in DOMAIN disk'.manifests : n \in DOMAIN d.manifests /\ disk'.manifests[n] = d.manifests[n]
      /\ \A n \in DOMAIN disk'.tables : n \in DOMAIN d.tables /\ disk'.tables[n] = d.tables[n]
  BY <1>0, <1>4, DeletedDisk
<1>6. /\ vs'.tables = vs.tables \union rec.add /\ vs'.log = logfile /\ vs'.next = vs.next /\ vs'.last = vs.last
      /\ vs'.manifest = vs.manifest
  BY <1>1, <1>2 DEF IsVersionSet
<1>7. ReplayNumbers
  BY <1>1 DEF NumberInv, Replaying
<1>8. up \notin Opened /\ up' \in Opened
  BY <1>1 DEF Opened
<1>9. bg.pc = "idle" /\ comp = NoComp /\ \A r \in Reader : pinned[r] = NoVersion
  BY <1>8, NotOpened DEF FilesInv
<1>10. \A n \in DOMAIN disk'.tables : \E x \in vs.tables \union rec.add : x[2] = n
  <2>1. AddLiveFiles(vs', NoComp) = Numbers(vs'.tables)
    <3>1. UNION (UNION {pinned[r] : r \in Reader}) = {}
      BY <1>9 DEF NoVersion
    <3>2. vs'.tables \union NoComp.base \union UNION (UNION {pinned[r] : r \in Reader}) = vs'.tables
      BY <3>1 DEF NoComp
    <3> QED BY <3>2 DEF AddLiveFiles
  <2> QED BY <1>5, <1>6, <2>1 DEF Numbers, none, c
<1>11. AllCovered(seq, disk'.tables, vs'.last)
  <2> SUFFICES ASSUME NEW n \in DOMAIN disk'.tables, NEW w \in disk'.tables[n]
               PROVE  seq[w] <= vs.last
    BY <1>6 DEF AllCovered
  <2>1. PICK x \in vs.tables \union rec.add : x[2] = n
    BY <1>10
  <2>2. x[2] \in DOMAIN disk.tables /\ w \in disk.tables[x[2]]
    BY <1>4, <1>5, <2>1
  <2>3. Covered(seq, disk.tables, vs.tables \union rec.add, vs.last)
    BY <1>7 DEF ReplayNumbers
  <2> QED BY <2>2, <2>3 DEF Covered
<1>12. StampInv'
  <2>1. TablesTyped(disk') /\ \A v : Tabulated(disk', v) => Tabulated(disk, v)
    BY <1>4, <1>5 DEF TablesTyped, Tabulated, StampInv
  <2>2. \A v : ~Recorded(disk', v)
    <3>1. \A n \in DOMAIN disk'.logs : disk'.logs[n].recs = <<>>
      <4>1. \A n \in DOMAIN disk'.logs : n \in DOMAIN disk.logs /\ n >= logfile /\ disk'.logs[n] = disk.logs[n] /\ n \in Nat
        BY <1>2, <1>4, <1>5, <1>6 DEF IsDisk, IsFiles, Filenames
      <4>2. \A n \in DOMAIN disk.logs : n < logfile \/ (n = logfile /\ disk.logs[n].recs = <<>>)
        BY <1>1, <1>7 DEF ReplayNumbers
      <4> QED BY <1>2, <4>1, <4>2
    <3>2. Len(<<>>) = 0
      OBVIOUS
    <3> QED BY <3>1, <3>2 DEF Recorded
  <2>3. \A v \in Batches : Tabulated(disk', v) => seq[v] <= vs'.last
    BY <1>11 DEF Tabulated, AllCovered
  <2> QED BY <1>1, <1>8, <2>1, <2>2, <2>3, OpeningStamp
<1>13. vs.manifest \in DOMAIN disk'.manifests /\ Current(disk') = disk.manifests[vs.manifest] /\ disk'.current # 0
  <2>1. vs.manifest \in DOMAIN disk'.manifests
    BY <1>2, <1>3, <1>4, <1>5, <1>6
  <2> QED BY <1>3, <1>4, <1>5, <2>1 DEF Current
<1>14. disk.manifests[vs.manifest] \in Records(EditRecords)
  BY <1>2 DEF IsDisk, IsFiles
<1>15. Saves(seq', disk'.tables, Current(disk'))
  <2>1. Saves(seq, disk.tables, disk.manifests[vs.manifest])
    BY <1>1 DEF NumberInv
  <2>2. \A n : Alike(seq, disk.tables, seq, disk'.tables, n)
    BY <1>4, <1>5 DEF Alike
  <2>3. Len(disk.manifests[vs.manifest].recs) \in Nat
    BY <1>14, LenProperties DEF Records
  <2>4. Saves(seq, disk'.tables, disk.manifests[vs.manifest])
    BY <2>1, <2>2, <2>3, SavesAlike
  <2> QED BY <1>1, <1>13, <2>4
<1>16. /\ TakenBelow(Current(disk'), vs'.next) /\ Below(vs'.tables, vs'.next)
       /\ logfile' <= vs'.next /\ vs'.log <= vs'.next
  BY <1>1, <1>6, <1>7, <1>13 DEF ReplayNumbers
<1>17. bg'.pc = "idle" /\ bg'.pc \notin Committing /\ comp'.out = {}
  BY <1>1, <1>9 DEF NoComp, Committing
<1>18. OpenNumbers'
  BY <1>13, <1>16, <1>17 DEF OpenNumbers
<1> QED BY <1>1, <1>12, <1>15, <1>18 DEF NumberInv, Replaying

-----------------------------------------------------------------------------
(***************************************************************************)
(* The sequence numbers are distinct.                                      *)
(***************************************************************************)
LEMMA StampInit ==
  ASSUME Init
  PROVE  StampInv /\ NumberInv
<1>1. /\ mem = {} /\ imm = NoMem /\ up = "closed" /\ up \notin Opened /\ up \notin Replaying
      /\ DOMAIN disk.tables = {} /\ DOMAIN disk.logs = {} /\ disk.current = 0
  BY DEF Init, NoFiles, Opened, Replaying
<1>2. TablesTyped(disk) /\ \A w : ~Stored(w)
  BY <1>1 DEF TablesTyped, Stored, Tabulated, Recorded, Held, NoMem
<1>3. ~Busy(pc)
  BY DEF Init, Busy
<1>4. StampInv
  BY <1>1, <1>2, <1>3 DEF StampInv, Stored
<1> QED BY <1>1, <1>4 DEF NumberInv

LEMMA StampNext ==
  ASSUME BaseInv, FilesInv, StampInv, NumberInv, [Next]_vars
  PROVE  StampInv' /\ NumberInv'
<1>1. CASE \E w \in Writer : Enter(w) \/ WriterStep(w)
  BY <1>1, WriterStamp, WriterNumbers
<1>2. CASE (\E r \in Reader : GetBegins(r) \/ GetEnds(r)) \/ Close \/ UNCHANGED vars
  BY <1>2, ReaderStamp, CallerNumbers
<1>3. CASE BackgroundStep
  BY <1>3, BackgroundStamp, BackgroundNumbers
<1>4. CASE Open \/ OpenStep
  BY <1>4, CreateStamps, RecoverStamps, ReplayStamps, OpenLogStamps, OpenManifestStamps, OpenCurrentStamps, OpenFailsStamps
     DEF OpenStep
<1>5. CASE Closing
  BY <1>5, ClosingStamp, CallerNumbers
<1>6. CASE \E kind \in Crashes : Crash(kind)
  BY <1>6, CrashStamp, CrashNumbers
<1> QED BY <1>1, <1>2, <1>3, <1>4, <1>5, <1>6 DEF Next

LEMMA VisibleDistinct ==
  ASSUME BaseInv, FilesInv, StampInv
  PROVE  SequencesDistinct
<1> SUFFICES ASSUME up = "open", NEW v \in Visible, NEW w \in Visible, v # w
             PROVE  seq[v] # seq[w]
  BY DEF SequencesDistinct
<1>1. mem \subseteq Batches /\ IsImm(imm)
  BY DEF BaseInv, TypesInv, MemTypes
<1>2. Numbers(vs.tables) \subseteq DOMAIN disk.tables
  BY DEF FilesInv, OpenedInv, Opened, There, Numbers
<1>3. \A u \in Visible : u \in Batches /\ Stored(u)
  <2> SUFFICES ASSUME NEW u \in Visible
               PROVE  u \in Batches /\ Stored(u)
    OBVIOUS
  <2>1. CASE u \in mem \/ u \in UNION imm
    BY <1>1, <2>1 DEF IsImm, Stored, Held
  <2>2. CASE u \in UNION {disk.tables[n] : n \in Numbers(vs.tables)}
    BY <1>2, <2>2 DEF Stored, Tabulated, StampInv, TablesTyped
  <2> DEFINE held == UNION imm
             tabled == UNION {disk.tables[n] : n \in Numbers(vs.tables)}
  <2>3. Visible = mem \union held \union tabled
    BY DEF Visible
  <2>4. (u \in mem \/ u \in held => u \in Batches /\ Stored(u)) /\ (u \in tabled => u \in Batches /\ Stored(u))
    BY <2>1, <2>2
  <2> HIDE DEF held, tabled
  <2>5. u \in mem \/ u \in held \/ u \in tabled
    BY <2>3
  <2> QED BY <2>4, <2>5
<1> QED BY <1>3 DEF StampInv

\* No two batches that a read can meet have the same sequence number
\* (WriteBatchInternal::SetSequence in Write, last_sequence_ in the edits of
\* LogAndApply, SetLastSequence in Recover), however groups fail, crashes tear
\* logs and manifests, and recovery goes on from what is left.
THEOREM SequencesDistinctHolds == Spec => []SequencesDistinct
<1>1. Init => StampInv /\ NumberInv
  BY StampInit
<1>2. BaseInv /\ FilesInv /\ StampInv /\ NumberInv /\ [Next]_vars => StampInv' /\ NumberInv'
  BY StampNext
<1>3. BaseInv /\ FilesInv /\ StampInv => SequencesDistinct
  BY VisibleDistinct
<1> QED BY <1>1, <1>2, <1>3, FilesAlways, PTL DEF Spec
=============================================================================
