------------------------------- MODULE SafeBatch -------------------------------
(***************************************************************************)
(* The batch of Safe calls a deploy process collects on disk and proposes  *)
(* when it ends.  The file outlives a process that dies, the flag          *)
(* batchStarted does not.  `here` is the network the process runs on; on a *)
(* fork the composing module executes the calls instead of proposing them. *)
(***************************************************************************)
EXTENDS Integers, FiniteSets, SequencesExt

VARIABLES
    batch,         \* multisig.batch.tmp.json; an absent or empty file has no txs
    batchStarted,  \* whether this process has saved a call
    safeQueue      \* the Safe's proposals, in nonce order

batchVars == <<batch, batchStarted, safeQueue>>

NoBatch == [network |-> "none", complete |-> FALSE, txs |-> <<>>]

BatchInit ==
    /\ batch = NoBatch
    /\ batchStarted = FALSE
    /\ safeQueue = <<>>

HasBatchFile == batch.txs # <<>>

\* Mutant: a leftover is taken for this run's batch.
StaleBatch_Never == FALSE

\* assertNoStaleBatch: a file that was there before this run's first save.
StaleBatch == HasBatchFile /\ ~batchStarted

Queued == IF batchStarted THEN batch.txs ELSE <<>>

\* A call that is stored already is not stored twice.
Store(txs, call) == IF Contains(txs, call) THEN txs ELSE Append(txs, call)

\* The process saves a call.
SaveForMultiSig(here, call) ==
    /\ ~StaleBatch
    /\ batch' = [network |-> here, complete |-> FALSE, txs |-> Store(batch.txs, call)]
    /\ batchStarted' = TRUE
    /\ UNCHANGED safeQueue

\* The process saves the distinct `calls` one after another.
SaveAll(here, calls) ==
    /\ ~StaleBatch
    /\ batch' = [network |-> here, complete |-> FALSE,
                 txs |-> batch.txs \o FlattenSeq([i \in DOMAIN calls |->
                            IF Contains(batch.txs, calls[i]) THEN <<>> ELSE <<calls[i]>>])]
    /\ batchStarted' = TRUE
    /\ UNCHANGED safeQueue

\* The last script: whatever this run queues is in the batch by now.
MarkComplete(here) ==
    /\ HasBatchFile
    /\ ~StaleBatch
    /\ batch' = [batch EXCEPT !.network = here, !.complete = TRUE]
    /\ UNCHANGED <<batchStarted, safeQueue>>

\* Mutant: the batch of an aborted run is proposed as well.
MayProposeLeftover_Incomplete(here) == HasBatchFile /\ batch.network = here

\* Mutant: a batch is proposed wherever the task runs.
MayProposeLeftover_Anywhere(here) == HasBatchFile /\ batch.complete

MayProposeLeftover(here) ==
    /\ HasBatchFile
    /\ batch.network = here
    /\ batch.complete

\* The proposal succeeds; the file is deleted unless the process dies before.
Propose(unlinked) ==
    /\ safeQueue' = Append(safeQueue, batch.txs)
    /\ batch' = IF unlinked THEN NoBatch ELSE batch

\* The operator throws the file away, as the error asks.
DiscardBatch ==
    /\ StaleBatch
    /\ batch' = NoBatch
    /\ UNCHANGED <<batchStarted, safeQueue>>

================================================================================
