------------------------------ MODULE MmuBatch ------------------------------
(***************************************************************************)
(* The batch calls of src/src/mmu_api.cpp over the runtime of MmuRuntime:  *)
(* mmu_map_logical_blocks, which unmaps what it has mapped when one block  *)
(* cannot be mapped, mmu_unmap_logical_blocks, which goes on after an      *)
(* error, and mmu_resolve_routing_batch.                                   *)
(*                                                                         *)
(* A batch call holds api_mutex from its first block to its last; each of  *)
(* its map and unmap calls takes the recursive mutex again and is a whole  *)
(* call of MmuRuntime.                                                     *)
(***************************************************************************)
EXTENDS MmuRuntime, Sequences

CONSTANT MaxBatch   \* bound on the number of blocks in a batch
ASSUME MaxBatchAssumption == MaxBatch \in Nat \ {0}

VARIABLE batch      \* the batch call that holds api_mutex
batchVars == <<vars, batch>>

UpTo(S) == UNION {[1 .. n -> S] : n \in 0 .. MaxBatch}

BatchTypeOK ==
    /\ batch \in [op : {"none", "map", "unmap", "resolve"},
                  stage : {"run", "undo", "return"}, ctx : Ctx \cup {Nil},
                  lvids : UpTo(Lvid), write : BOOLEAN, handles : UpTo(Handle),
                  next : 0 .. MaxBatch, last : 0 .. MaxBatch,
                  issued : BOOLEAN, failed : BOOLEAN, written : SUBSET Block,
                  routes : UpTo(Block \cup {Nil})]
    /\ batch.next <= batch.last

NoBatch == [op |-> "none", stage |-> "run", ctx |-> Nil, lvids |-> <<>>,
            write |-> FALSE, handles |-> <<>>, next |-> 0, last |-> 0,
            issued |-> FALSE, failed |-> FALSE, written |-> {}, routes |-> <<>>]

\* Other calls wait while a batch holds the mutex, and not only while its items do.
MayCallBetweenItems == TRUE
MayCall == batch.op = "none"

Begins(op, c, count, request) ==
    /\ MayCall /\ call.stage = "idle"
    /\ batch' = [request EXCEPT !.op = op, !.ctx = c, !.next = 1, !.last = count]
    /\ UNCHANGED vars
InBatch(op, stage) == batch.op = op /\ batch.stage = stage /\ call.stage = "idle"
ThisLvid == batch.lvids[batch.next]
ThisHandle == batch.handles[batch.next]

NextItemRetried(state) ==
    IF state.failed THEN state
    ELSE IF state.next = state.last THEN [state EXCEPT !.stage = "return"]
    ELSE [state EXCEPT !.next = @ + 1, !.issued = FALSE]
NextItem(state) ==
    IF state.next = state.last THEN [state EXCEPT !.stage = "return"]
                               ELSE [state EXCEPT !.next = @ + 1, !.issued = FALSE]

\* The caller has the result; api_mutex is free.
Return == batch.stage = "return" /\ batch' = NoBatch /\ UNCHANGED vars

-----------------------------------------------------------------------------
(* mmu_map_logical_blocks *)

Distinct(s) == \A i, j \in DOMAIN s : s[i] = s[j] => i = j

MapLogicalBlocks(c, lvids, write, hs) ==
    /\ Len(hs) = Len(lvids) /\ Distinct(hs)
    /\ \A i \in DOMAIN hs : handles[hs[i]] = Nil
    /\ write => \A i \in DOMAIN lvids : Resolves(c, lvids[i]) => MayWrite(c, lvids[i])
    /\ Begins("map", c, Len(lvids),
              [NoBatch EXCEPT !.lvids = lvids, !.write = write, !.handles = hs])

MapItem ==
    /\ InBatch("map", "run") /\ ~batch.issued
    /\ MapLogicalBlock(batch.ctx, ThisLvid, batch.write, ThisHandle)
    /\ batch' = [batch EXCEPT !.issued = TRUE]

ItemMapped ==
    /\ InBatch("map", "run") /\ batch.issued
    /\ handles[ThisHandle] # Nil
    /\ batch' = NextItem(batch)
    /\ UNCHANGED vars

\* How many items a failure at the current one unmaps: all those before it.
MappedButOne == batch.next - 2
Mapped == batch.next - 1

ItemFailed ==
    /\ InBatch("map", "run")
    /\ IF batch.issued THEN handles[ThisHandle] = Nil
                       ELSE ~Resolves(batch.ctx, ThisLvid)
    /\ batch' = IF Mapped < 1 THEN [batch EXCEPT !.stage = "return", !.failed = TRUE]
                ELSE [batch EXCEPT !.stage = "undo", !.failed = TRUE,
                                   !.next = 1, !.last = Mapped]
    /\ UNCHANGED vars

-----------------------------------------------------------------------------
(* mmu_unmap_logical_blocks, and the rollback of a batch map *)

WriteHandles == {h \in Handle : handles[h] # Nil /\ handles[h].write}

\* The structures given are distinct open mappings of the context.
UnmapLogicalBlocks(c, hs) ==
    /\ hs # <<>> /\ Distinct(hs)
    /\ \A i \in DOMAIN hs : handles[hs[i]] # Nil /\ handles[hs[i]].ctx = c
    /\ Begins("unmap", c, Len(hs),
              [NoBatch EXCEPT !.handles = hs,
                  !.written = {handles[h].block :
                                  h \in {hs[i] : i \in DOMAIN hs} \cap WriteHandles}])

Unmapping == InBatch("unmap", "run") \/ InBatch("map", "undo")

\* first_error: an error stays, whatever the later blocks return.
LastError(error) == error
FirstError(error) == batch.failed \/ error
\* A rollback ignores them: its batch has failed already.
ItemDone(error) ==
    batch' = NextItem([batch EXCEPT !.failed = batch.op = "map" \/ FirstError(error)])

\* Of an unmapped block that is still in L1, dirty says that its write-back failed.
WriteBackFailed(m) == m.write /\ meta[m.block].resident /\ meta'[m.block].dirty
UnmapItem ==
    /\ Unmapping
    /\ UnmapLogicalBlock(ThisHandle)
    /\ ItemDone(WriteBackFailed(handles[ThisHandle]))

UnmapItemRefused ==
    /\ Unmapping
    /\ ~CanUnmap(ThisHandle)
    /\ ItemDone(TRUE)
    /\ UNCHANGED vars

-----------------------------------------------------------------------------
(* mmu_resolve_routing_batch; Nil in the output array is what the caller had there *)

ResolveRoutingBatch(c, lvids) ==
    /\ lvids # <<>>
    /\ Begins("resolve", c, Len(lvids),
              [NoBatch EXCEPT !.lvids = lvids, !.routes = [i \in DOMAIN lvids |-> Nil]])

ResolveItem ==
    /\ InBatch("resolve", "run")
    /\ Resolves(batch.ctx, ThisLvid)
    /\ batch' = NextItem([batch EXCEPT !.routes[batch.next] = table[batch.ctx][ThisLvid]])
    /\ UNCHANGED vars

ResolveItemFails ==
    /\ InBatch("resolve", "run")
    /\ ~Resolves(batch.ctx, ThisLvid)
    /\ batch' = [batch EXCEPT !.stage = "return", !.failed = TRUE]
    /\ UNCHANGED vars

-----------------------------------------------------------------------------
BatchInit == Init /\ batch = NoBatch

BatchCall ==
    \/ \E c \in live, lvids \in UpTo(Lvid) \ {<<>>}, hs \in UpTo(Handle) :
          \E write \in BOOLEAN : MapLogicalBlocks(c, lvids, write, hs)
    \/ \E c \in live, hs \in UpTo(Handle) : UnmapLogicalBlocks(c, hs)
    \/ \E c \in live, lvids \in UpTo(Lvid) : ResolveRoutingBatch(c, lvids)

BatchStep == \/ MapItem \/ ItemMapped \/ ItemFailed
             \/ UnmapItem \/ UnmapItemRefused
             \/ ResolveItem \/ ResolveItemFails
             \/ Return

\* The host does not have the pointers of a batch map that has not returned, and
\* has given up those it unmaps.
Given == {batch.handles[i] : i \in DOMAIN batch.handles}

BatchNext ==
    \/ MayCall /\ HostCall /\ UNCHANGED batch
    \/ CallStep /\ UNCHANGED batch
    \/ \E h \in Handle \ Given, v \in Value : HostWrite(h, v) /\ UNCHANGED batch
    \/ BatchCall
    \/ BatchStep

BatchSpec == BatchInit /\ [][BatchNext]_batchVars

\* As in MmuRuntime: whoever holds the mutex keeps running.
FairBatchSpec == BatchSpec /\ WF_batchVars(BatchStep \/ (CallStep /\ UNCHANGED batch))

-----------------------------------------------------------------------------
Returning(op) == batch.op = op /\ batch.stage = "return"

\* A batch map that returns has opened all of its mappings or none ("On failure,
\* previously mapped entries in this call are rolled back via unmap",
\* include/dsf_mmu/mmu_api.h), although the rollback ignores its errors.
BatchMapAllOrNothing ==
    Returning("map") =>
        \A i \in DOMAIN batch.handles : batch.failed <=> handles[batch.handles[i]] = Nil

\* A batch unmap closes every mapping it was given that can be closed, whatever the
\* others return, and when it reports no error that is all of them, and nothing that
\* was mapped for writing is left unwritten in L1.
BatchUnmapComplete ==
    Returning("unmap") =>
        LET open == {h \in Given : handles[h] # Nil} IN
        /\ \A h \in open : batch.failed /\ ~CanUnmap(h)
        /\ ~batch.failed => \A b \in batch.written : ~(meta[b].resident /\ meta[b].dirty)

\* The routes of a successful batch are those the context has at one moment.
BatchResolveIsSnapshot ==
    Returning("resolve") /\ ~batch.failed =>
        \A i \in DOMAIN batch.routes :
            batch.routes[i] = table[batch.ctx][batch.lvids[i]]

\* "If any logical block in the batch is not allocated, return an appropriate
\* error code and do not modify the output array" (include/dsf_mmu/mmu_api.h).
FailedResolveLeavesOutput ==
    batch.op = "resolve" /\ batch.failed =>
        \A i \in DOMAIN batch.routes : batch.routes[i] = Nil

\* Every batch call returns.
BatchesReturn == batch.op # "none" ~> batch.op = "none"
=============================================================================
