------------------------------- MODULE Store -------------------------------
(* What leveldb promises whoever writes to it (WriteOptions::sync in         *)
(* include/leveldb/options.h): a batch is in the store before its write is   *)
(* reported as done, and nothing but a crash of the machine takes a batch    *)
(* out again, never one of a completed synchronous write.  Memtables, log    *)
(* files, tables, manifests, compactions and recovery do not appear: DBImpl  *)
(* implements this specification.                                            *)
EXTENDS Naturals

CONSTANTS Batch,    \* the batches, one per call of DB::Write
          Durable   \* those written with WriteOptions::sync

VARIABLES stored,   \* the batches that the store holds after a restart
          told      \* [Batch -> {"none", "ok", "error"}], the answers given

storeVars == <<stored, told>>

StoreInit == stored = {} /\ told = [b \in Batch |-> "none"]

\* The calls that have not returned.
InCall == {b \in Batch : told[b] = "none"}

\* The batches T of calls that are open enter the store, the calls S return.
Write(S, T) == /\ T \subseteq InCall /\ stored' = stored \union T
               /\ \A b \in S : b \in InCall /\ told'[b] \in {"ok", "error"}
               /\ \A b \in S : told'[b] = "ok" => b \in stored'
               /\ told' = [b \in Batch |-> IF b \in S THEN told'[b] ELSE told[b]]

\* The machine stops: what was not reported as synced may be gone, and what
\* was being written may be there.
PowerLoss == /\ stored' \in SUBSET (stored \union InCall)
             /\ {b \in stored \cap Durable : told[b] = "ok"} \subseteq stored'
             /\ UNCHANGED told

StoreNext == PowerLoss \/ \E S, T \in SUBSET Batch : Write(S, T)

StoreSpec == StoreInit /\ [][StoreNext]_storeVars
=============================================================================
