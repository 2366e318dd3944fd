--------------------------- MODULE MmuBatchProofs ---------------------------
(***************************************************************************)
(* For every host, however it uses the rest of the API, and for batches of *)
(* every length: a batch map opens all of its mappings or none, a batch    *)
(* unmap closes all that can be closed and hides no failed write-back, and *)
(* a batch resolve reports what the context maps at one moment.            *)
(***************************************************************************)
EXTENDS MmuBatch, MmuRuntimeProofs, SequenceTheorems

-----------------------------------------------------------------------------
(* The record of a batch *)

BatchRecord == [op : {"none", "map", "unmap", "resolve"},
                stage : {"run", "undo", "return"}, ctx : Ctx \cup {Nil},
                lvids : UpTo(Lvid), write : BOOLEAN, handles : UpTo(Handle),
                next : 0 .. MaxBatch, last : 0 .. MaxBatch,
                issued : BOOLEAN, failed : BOOLEAN, written : SUBSET Block,
                routes : UpTo(Block \cup {Nil})]

\* A list of a batch is a function on 1 .. n.
LEMMA UpToFacts ==
    ASSUME NEW S, NEW s \in UpTo(S)
    PROVE  /\ s \in Seq(S) /\ Len(s) \in 0 .. MaxBatch /\ DOMAIN s = 1 .. Len(s)
           /\ \A i \in DOMAIN s : s[i] \in S
<1>1. PICK n \in 0 .. MaxBatch : s \in [1 .. n -> S]
  BY DEF UpTo
<1>2. n \in Nat
  BY <1>1, MaxBatchAssumption
<1>3. s \in Seq(S) /\ Len(s) = n
  BY <1>1, <1>2, SeqDef, LenProperties
<1> QED BY <1>1, <1>3

\* Nothing is a list of a batch too.
LEMMA EmptyUpTo == ASSUME NEW S PROVE <<>> \in UpTo(S)
<1>1. 0 \in 0 .. MaxBatch
  BY MaxBatchAssumption
<1>2. <<>> \in [1 .. 0 -> S]
  OBVIOUS
<1> QED BY <1>1, <1>2 DEF UpTo

\* The fields that going to the next item leaves alone
SameItems(s, t) == /\ t.op = s.op /\ t.ctx = s.ctx /\ t.lvids = s.lvids
                   /\ t.write = s.write /\ t.handles = s.handles /\ t.last = s.last
                   /\ t.written = s.written

\* NextItem goes to the next item or to the end.
LEMMA NextItemFields ==
    ASSUME NEW s \in BatchRecord, s.next <= s.last
    PROVE  /\ NextItem(s) \in BatchRecord /\ SameItems(s, NextItem(s))
           /\ NextItem(s).failed = s.failed /\ NextItem(s).routes = s.routes
           /\ NextItem(s).next <= NextItem(s).last /\ s.next <= NextItem(s).next
           /\ \/ /\ s.next = s.last /\ NextItem(s).stage = "return"
                 /\ NextItem(s).next = s.next
              \/ /\ s.next < s.last /\ NextItem(s).stage = s.stage
                 /\ NextItem(s).next = s.next + 1 /\ ~NextItem(s).issued
<1>1. s.next \in 0 .. MaxBatch /\ s.last \in 0 .. MaxBatch /\ MaxBatch \in Nat
  BY MaxBatchAssumption DEF BatchRecord
<1>2. CASE s.next = s.last
  <2>1. NextItem(s) = [s EXCEPT !.stage = "return"]
    BY <1>2 DEF NextItem
  <2>2. NextItem(s) \in BatchRecord
    BY <2>1 DEF BatchRecord
  <2>3. /\ SameItems(s, NextItem(s)) /\ NextItem(s).next = s.next
        /\ NextItem(s).failed = s.failed /\ NextItem(s).routes = s.routes
        /\ NextItem(s).stage = "return"
    BY <2>1 DEF BatchRecord, SameItems
  <2> QED BY <1>1, <1>2, <2>2, <2>3 DEF SameItems
<1>3. CASE s.next # s.last
  <2>1. NextItem(s) = [s EXCEPT !.next = s.next + 1, !.issued = FALSE]
    BY <1>3 DEF NextItem
  <2>2. s.next < s.last /\ s.next + 1 \in 0 .. MaxBatch /\ s.next + 1 <= s.last
        /\ s.next <= s.next + 1
    BY <1>1, <1>3
  <2>3. NextItem(s) \in BatchRecord
    BY <2>1, <2>2 DEF BatchRecord
  <2>4. /\ SameItems(s, NextItem(s)) /\ NextItem(s).next = s.next + 1
        /\ NextItem(s).failed = s.failed /\ NextItem(s).routes = s.routes
        /\ NextItem(s).stage = s.stage /\ ~NextItem(s).issued
    BY <2>1 DEF BatchRecord, SameItems
  <2> QED BY <1>1, <2>2, <2>3, <2>4 DEF SameItems
<1> QED BY <1>2, <1>3

\* One route more keeps the list of routes.
LEMMA OneRouteMore ==
    ASSUME NEW S, NEW r \in UpTo(S), NEW k, NEW x \in S
    PROVE  /\ [r EXCEPT ![k] = x] \in UpTo(S) /\ DOMAIN [r EXCEPT ![k] = x] = DOMAIN r
           /\ k \in DOMAIN r => [r EXCEPT ![k] = x][k] = x
           /\ \A i \in DOMAIN r : i # k => [r EXCEPT ![k] = x][i] = r[i]
<1>1. PICK n \in 0 .. MaxBatch : r \in [1 .. n -> S]
  BY DEF UpTo
<1>2. [r EXCEPT ![k] = x] \in [1 .. n -> S]
  BY <1>1
<1> QED BY <1>1, <1>2 DEF UpTo

-----------------------------------------------------------------------------
(* The inductive invariant, over Consistent *)

Formed == BatchTypeOK /\ (batch.op # "none" => 1 <= batch.next /\ batch.ctx \in live)
Items == 1 .. batch.last

\* The routes found so far are those of the page table, which nobody changes meanwhile.
ResolveHolds ==
    batch.op = "resolve" =>
        /\ batch.stage \in {"run", "return"} /\ call.stage = "idle"
        /\ DOMAIN batch.lvids = Items /\ DOMAIN batch.routes = Items
        /\ \A i \in Items :
              i < batch.next \/ (batch.stage = "return" /\ ~batch.failed)
                 => batch.routes[i] = table[batch.ctx][batch.lvids[i]]

\* What has been given to unmap is closed, or could not be and is reported; a block
\* that was to be written back and is not has a mapping yet to be unmapped.
Unwritten(b) == meta[b].resident /\ meta[b].dirty
StillToWrite(b) ==
    \E i \in Items : /\ batch.stage = "run" /\ batch.next <= i
                     /\ handles[batch.handles[i]] # Nil
                     /\ handles[batch.handles[i]].write
                     /\ handles[batch.handles[i]].block = b
UnmapHolds ==
    batch.op = "unmap" =>
        /\ batch.stage \in {"run", "return"} /\ call.stage = "idle"
        /\ DOMAIN batch.handles = Items /\ Distinct(batch.handles)
        /\ \A i \in Items :
              i < batch.next \/ batch.stage = "return"
                 => \/ handles[batch.handles[i]] = Nil
                    \/ batch.failed /\ ~CanUnmap(batch.handles[i])
        /\ ~batch.failed => \A b \in batch.written : Unwritten(b) => StillToWrite(b)

\* A mapping the batch map opened can be closed: its block is referenced, and by this
\* logical block alone when the batch writes, so that no later item moves it.
Kept(h) ==
    /\ handles[h] # Nil
    /\ handles[h].ctx \in live
    /\ table[handles[h].ctx][handles[h].lvid] = handles[h].block
    /\ refs[handles[h].block] > 0 /\ meta[handles[h].block].allocated
    /\ batch.write => refs[handles[h].block] = 1

\* The map call of the current item, between two of its stages
ItemRuns ==
    /\ call.op = "map" /\ call.ctx = batch.ctx /\ call.write = batch.write
    /\ call.handle = ThisHandle /\ handles[ThisHandle] = Nil
    /\ batch.write /\ call.stage # "prepare" => refs[Current] = 1
    /\ ~batch.write => call.stage \notin {"prepare", "clone"}

\* The items before the current one are mapped, and those after it are not; a rollback
\* starts from there.
MapHolds ==
    batch.op = "map" =>
        /\ DOMAIN batch.lvids = DOMAIN batch.handles /\ Distinct(batch.handles)
        /\ batch.stage = "run" =>
              /\ DOMAIN batch.handles = Items /\ ~batch.failed
              /\ \A i \in Items : i < batch.next => Kept(batch.handles[i])
              /\ \A i \in Items : batch.next < i => handles[batch.handles[i]] = Nil
              /\ ~batch.issued => call.stage = "idle" /\ handles[ThisHandle] = Nil
              /\ batch.issued => \/ call.stage # "idle" /\ ItemRuns
                                 \/ /\ call.stage = "idle"
                                    /\ handles[ThisHandle] = Nil \/ Kept(ThisHandle)
        /\ batch.stage = "undo" =>
              /\ Items \subseteq DOMAIN batch.handles /\ batch.failed /\ call.stage = "idle"
              /\ \A i \in DOMAIN batch.handles :
                    IF batch.next <= i /\ i <= batch.last THEN Kept(batch.handles[i])
                                                     ELSE handles[batch.handles[i]] = Nil
        /\ batch.stage = "return" =>
              /\ call.stage = "idle"
              /\ \A i \in DOMAIN batch.handles :
                    batch.failed <=> handles[batch.handles[i]] = Nil

BatchInv == Formed /\ MapHolds /\ UnmapHolds /\ ResolveHolds

-----------------------------------------------------------------------------
(* Steps in general *)

\* The current item is one of the batch.
LEMMA ThisItem ==
    ASSUME Consistent, Formed, batch.op # "none"
    PROVE  /\ batch \in BatchRecord /\ batch.next \in Items /\ batch.last \in Nat
           /\ batch.next \in Nat /\ batch.next <= batch.last
           /\ batch.ctx \in Ctx /\ batch.ctx \in live
           /\ batch.lvids \in UpTo(Lvid) /\ batch.handles \in UpTo(Handle)
           /\ batch.next \in DOMAIN batch.lvids => ThisLvid \in Lvid
           /\ batch.next \in DOMAIN batch.handles => ThisHandle \in Handle
<1>1. batch \in BatchRecord /\ batch.next <= batch.last /\ 1 <= batch.next
  BY DEF Formed, BatchTypeOK, BatchRecord
<1>2. /\ batch.next \in 0 .. MaxBatch /\ batch.last \in 0 .. MaxBatch
      /\ batch.ctx \in live /\ batch.ctx \in Ctx \cup {Nil}
      /\ batch.lvids \in UpTo(Lvid) /\ batch.handles \in UpTo(Handle)
  BY <1>1 DEF Formed, BatchRecord
<1>3. batch.next \in Nat /\ batch.last \in Nat /\ batch.next \in 1 .. batch.last
  BY <1>1, <1>2, MaxBatchAssumption
<1>4. batch.next \in DOMAIN batch.lvids => ThisLvid \in Lvid
  BY <1>2, UpToFacts DEF ThisLvid
<1>5. batch.next \in DOMAIN batch.handles => ThisHandle \in Handle
  BY <1>2, UpToFacts DEF ThisHandle
<1>6. batch.ctx \in Ctx
  BY <1>2 DEF Consistent, TypeOK
<1> QED BY <1>1, <1>2, <1>3, <1>4, <1>5, <1>6 DEF Items

\* After an item the batch is well formed.
LEMMA AdvanceFormed ==
    ASSUME Formed, batch.op # "none", NEW s \in BatchRecord, SameItems(batch, s),
           s.next = batch.next, batch' = NextItem(s), live' = live
    PROVE  /\ Formed' /\ SameItems(batch, batch')
           /\ batch'.failed = s.failed /\ batch'.routes = s.routes
           /\ \/ /\ batch.next = batch.last /\ batch'.stage = "return"
                 /\ batch'.next = batch.next
              \/ /\ batch.next < batch.last /\ batch'.stage = s.stage
                 /\ batch'.next = batch.next + 1 /\ ~batch'.issued
<1>1. /\ batch.next <= batch.last /\ 1 <= batch.next /\ batch.ctx \in live
      /\ batch \in BatchRecord
  BY DEF Formed, BatchTypeOK, BatchRecord
<1>2. batch.next \in Nat /\ s.last = batch.last
  BY <1>1, MaxBatchAssumption DEF BatchRecord, SameItems
<1>3. /\ batch' \in BatchRecord /\ SameItems(s, batch')
      /\ batch'.failed = s.failed /\ batch'.routes = s.routes
      /\ batch'.next <= batch'.last /\ s.next <= batch'.next
      /\ \/ /\ s.next = s.last /\ batch'.stage = "return" /\ batch'.next = s.next
         \/ /\ s.next < s.last /\ batch'.stage = s.stage
            /\ batch'.next = s.next + 1 /\ ~batch'.issued
  BY <1>1, <1>2, NextItemFields
<1>4. SameItems(batch, batch')
  BY <1>3 DEF SameItems
<1>5. 1 <= batch'.next /\ batch'.ctx \in live'
  BY <1>1, <1>2, <1>3, <1>4 DEF SameItems, BatchRecord
<1>6. Formed'
  BY <1>3, <1>5 DEF Formed, BatchTypeOK, BatchRecord
<1> QED BY <1>2, <1>3, <1>4, <1>6

\* Between two items and at the end of a batch no call is in progress.
LEMMA NoBatchIsFormed ==
    ASSUME batch' = NoBatch
    PROVE  BatchInv'
<1>1. <<>> \in UpTo(Lvid) /\ <<>> \in UpTo(Handle) /\ <<>> \in UpTo(Block \cup {Nil})
  BY EmptyUpTo
<1>2. 0 \in 0 .. MaxBatch
  BY MaxBatchAssumption
<1>3. batch'.op = "none"
  BY DEF NoBatch
<1>4. BatchTypeOK'
  BY <1>1, <1>2 DEF BatchTypeOK, NoBatch
<1> QED BY <1>3, <1>4 DEF BatchInv, Formed, MapHolds, UnmapHolds, ResolveHolds

-----------------------------------------------------------------------------
(* mmu_resolve_routing_batch *)

\* ResolveRoutingBatch starts with nothing resolved.
LEMMA ResolveRoutingBatchStep ==
    ASSUME Consistent, NEW c \in live, NEW lvids \in UpTo(Lvid), ResolveRoutingBatch(c, lvids)
    PROVE  BatchInv'
<1> DEFINE none == [i \in DOMAIN lvids |-> Nil]
<1>1. /\ lvids \in Seq(Lvid) /\ Len(lvids) \in 0 .. MaxBatch /\ DOMAIN lvids = 1 .. Len(lvids)
      /\ lvids # <<>>
  BY UpToFacts DEF ResolveRoutingBatch
<1>2. Len(lvids) # 0
  BY <1>1, EmptySeq
<1>3. Len(lvids) \in Nat /\ 1 \in 0 .. MaxBatch /\ 1 <= Len(lvids)
  BY <1>1, <1>2, MaxBatchAssumption
<1>4. none \in UpTo(Block \cup {Nil}) /\ DOMAIN none = 1 .. Len(lvids)
  BY <1>1 DEF UpTo
<1>5. c \in Ctx
  BY DEF Consistent, TypeOK
<1>6. /\ batch' = [op |-> "resolve", stage |-> "run", ctx |-> c, lvids |-> lvids,
                   write |-> FALSE, handles |-> <<>>, next |-> 1, last |-> Len(lvids),
                   issued |-> FALSE, failed |-> FALSE, written |-> {}, routes |-> none]
      /\ UNCHANGED vars /\ call.stage = "idle"
  BY DEF ResolveRoutingBatch, Begins, NoBatch
<1>7. <<>> \in UpTo(Handle)
  BY EmptyUpTo
<1> HIDE DEF none
<1>8. BatchTypeOK'
  BY <1>1, <1>3, <1>4, <1>5, <1>6, <1>7 DEF BatchTypeOK
<1>9. /\ batch'.op = "resolve" /\ batch'.stage = "run" /\ batch'.ctx = c /\ batch'.next = 1
      /\ batch'.lvids = lvids /\ batch'.routes = none /\ batch'.last = Len(lvids)
  BY <1>6
<1>10. live' = live /\ call' = call
  BY <1>6 DEF vars
<1>11. Formed'
  BY <1>8, <1>9, <1>10 DEF Formed
<1>12. ResolveHolds'
  <2>1. \A i \in 1 .. Len(lvids) : ~(i < 1)
    BY <1>3
  <2> QED BY <1>1, <1>4, <1>6, <1>9, <1>10, <2>1 DEF ResolveHolds, Items
<1> QED BY <1>9, <1>11, <1>12 DEF BatchInv, MapHolds, UnmapHolds

\* ResolveItem adds the route of the current item.
LEMMA ResolveItemStep ==
    ASSUME Consistent, BatchInv, ResolveItem
    PROVE  BatchInv'
<1>1. /\ batch.op = "resolve" /\ batch.stage = "run" /\ call.stage = "idle"
      /\ UNCHANGED vars /\ table[batch.ctx][ThisLvid] # Nil
      /\ batch' = NextItem([batch EXCEPT !.routes[batch.next] = table[batch.ctx][ThisLvid]])
  BY DEF ResolveItem, InBatch, Resolves
<1>2. /\ DOMAIN batch.lvids = Items /\ DOMAIN batch.routes = Items
      /\ \A i \in Items : i < batch.next => batch.routes[i] = table[batch.ctx][batch.lvids[i]]
  BY <1>1 DEF BatchInv, ResolveHolds
<1>3. /\ batch \in BatchRecord /\ batch.next \in Items /\ batch.next \in Nat
      /\ batch.last \in Nat /\ batch.ctx \in Ctx /\ ThisLvid \in Lvid
  BY <1>1, <1>2, ThisItem DEF BatchInv
<1>4. PICK x \in Block \cup {Nil} : x = table[batch.ctx][ThisLvid]
  BY <1>3 DEF Consistent, TypeOK
<1>5. PICK r \in UpTo(Block \cup {Nil}) :
         /\ r = [batch.routes EXCEPT ![batch.next] = x] /\ DOMAIN r = Items
         /\ r[batch.next] = x
         /\ \A i \in Items : i # batch.next => r[i] = batch.routes[i]
  <2>1. PICK k, q : k = batch.next /\ q = batch.routes
    OBVIOUS
  <2>2. q \in UpTo(Block \cup {Nil}) /\ k \in DOMAIN q /\ DOMAIN q = Items
    BY <1>2, <1>3, <2>1 DEF BatchRecord
  <2>3. PICK r : r = [q EXCEPT ![k] = x]
    OBVIOUS
  <2>4. /\ r \in UpTo(Block \cup {Nil}) /\ DOMAIN r = Items /\ r[k] = x
        /\ \A i \in Items : i # k => r[i] = q[i]
    BY <2>2, <2>3, OneRouteMore
  <2>5. /\ r = [batch.routes EXCEPT ![batch.next] = x]
        /\ r[batch.next] = x /\ \A i \in Items : i # batch.next => r[i] = batch.routes[i]
    BY <2>1, <2>3, <2>4
  <2> QED BY <2>4, <2>5
<1>6. PICK s \in BatchRecord :
         /\ s = [batch EXCEPT !.routes = r] /\ SameItems(batch, s)
         /\ s.routes = r /\ s.next = batch.next /\ s.stage = "run" /\ s.failed = batch.failed
  <2>1. [batch EXCEPT !.routes = r] \in BatchRecord
    BY <1>3 DEF BatchRecord
  <2> QED BY <1>1, <1>3, <2>1 DEF BatchRecord, SameItems
<1>7. batch' = NextItem(s)
  BY <1>1, <1>4, <1>5, <1>6
<1>8. live' = live /\ table' = table /\ call' = call
  BY <1>1 DEF vars
<1>9. /\ Formed' /\ SameItems(batch, batch') /\ batch'.routes = r
      /\ \/ batch.next = batch.last /\ batch'.stage = "return" /\ batch'.next = batch.next
         \/ /\ batch.next < batch.last /\ batch'.stage = "run"
            /\ batch'.next = batch.next + 1
  BY <1>1, <1>6, <1>7, <1>8, AdvanceFormed DEF BatchInv
<1>10. \A i \in Items : i < batch.next \/ i = batch.next
                          => r[i] = table[batch.ctx][batch.lvids[i]]
  BY <1>2, <1>4, <1>5 DEF ThisLvid
<1>11. /\ batch'.op = "resolve" /\ batch'.ctx = batch.ctx /\ batch'.lvids = batch.lvids
       /\ Items' = Items
  BY <1>1, <1>9 DEF SameItems, Items
<1>12. ASSUME NEW i \in Items, i < batch'.next \/ batch'.stage = "return"
       PROVE  i < batch.next \/ i = batch.next
  BY <1>3, <1>9, <1>12 DEF Items
<1>13. ResolveHolds'
  <2>1. \A i \in Items : i < batch'.next \/ batch'.stage = "return"
                             => r[i] = table[batch.ctx][batch.lvids[i]]
    BY <1>10, <1>12
  <2>2. batch'.stage \in {"run", "return"} /\ call'.stage = "idle"
    BY <1>1, <1>8, <1>9
  <2> QED BY <1>2, <1>5, <1>8, <1>9, <1>11, <2>1, <2>2 DEF ResolveHolds
<1> QED BY <1>9, <1>11, <1>13 DEF BatchInv, MapHolds, UnmapHolds

\* ResolveItemFails ends the batch.
LEMMA ResolveItemFailsStep ==
    ASSUME Consistent, BatchInv, ResolveItemFails
    PROVE  BatchInv'
<1>1. /\ batch.op = "resolve" /\ batch.stage = "run" /\ call.stage = "idle"
      /\ UNCHANGED vars
      /\ batch' = [batch EXCEPT !.stage = "return", !.failed = TRUE]
  BY DEF ResolveItemFails, InBatch
<1>2. batch \in BatchRecord /\ batch.next <= batch.last
  BY <1>1, ThisItem DEF BatchInv
<1>3. batch' \in BatchRecord
  BY <1>1, <1>2 DEF BatchRecord
<1>4. /\ SameItems(batch, batch') /\ batch'.stage = "return" /\ batch'.failed
      /\ batch'.next = batch.next /\ batch'.routes = batch.routes
  BY <1>1, <1>2 DEF BatchRecord, SameItems
<1>5. live' = live /\ table' = table /\ call' = call
  BY <1>1 DEF vars
<1>6. Formed'
  BY <1>1, <1>2, <1>3, <1>4, <1>5 DEF BatchInv, Formed, BatchTypeOK, BatchRecord, SameItems
<1>7. /\ batch'.op = "resolve" /\ batch'.ctx = batch.ctx /\ batch'.lvids = batch.lvids
      /\ Items' = Items
  BY <1>1, <1>4 DEF SameItems, Items
<1>8. ResolveHolds'
  BY <1>1, <1>4, <1>5, <1>7 DEF BatchInv, ResolveHolds
<1> QED BY <1>6, <1>7, <1>8 DEF BatchInv, MapHolds, UnmapHolds

-----------------------------------------------------------------------------
(* mmu_unmap_logical_blocks *)

\* UnmapLogicalBlocks starts with every block that was mapped for writing to be unmapped.
LEMMA UnmapLogicalBlocksStep ==
    ASSUME Consistent, NEW c \in live, NEW hs \in UpTo(Handle), UnmapLogicalBlocks(c, hs)
    PROVE  BatchInv'
<1> DEFINE w == {handles[h].block : h \in {hs[i] : i \in DOMAIN hs} \cap WriteHandles}
<1>1. /\ hs \in Seq(Handle) /\ Len(hs) \in 0 .. MaxBatch /\ DOMAIN hs = 1 .. Len(hs)
      /\ \A i \in DOMAIN hs : hs[i] \in Handle
      /\ hs # <<>> /\ Distinct(hs) /\ \A i \in DOMAIN hs : handles[hs[i]] # Nil
  BY UpToFacts DEF UnmapLogicalBlocks
<1>2. Len(hs) # 0
  BY <1>1, EmptySeq
<1>3. Len(hs) \in Nat /\ 1 \in 0 .. MaxBatch /\ 1 <= Len(hs)
  BY <1>1, <1>2, MaxBatchAssumption
<1>4. w \in SUBSET Block
  BY DEF WriteHandles, Consistent, TypeOK, Mapping
<1>5. c \in Ctx
  BY DEF Consistent, TypeOK
<1>6. /\ batch' = [op |-> "unmap", stage |-> "run", ctx |-> c, lvids |-> <<>>,
                   write |-> FALSE, handles |-> hs, next |-> 1, last |-> Len(hs),
                   issued |-> FALSE, failed |-> FALSE, written |-> w, routes |-> <<>>]
      /\ UNCHANGED vars /\ call.stage = "idle"
  BY DEF UnmapLogicalBlocks, Begins, NoBatch
<1>7. <<>> \in UpTo(Lvid) /\ <<>> \in UpTo(Block \cup {Nil})
  BY EmptyUpTo
<1>8. \A b \in w : \E i \in 1 .. Len(hs) : /\ handles[hs[i]] # Nil /\ handles[hs[i]].write
                                           /\ handles[hs[i]].block = b
  BY <1>1 DEF WriteHandles
<1> HIDE DEF w
<1>9. BatchTypeOK'
  BY <1>1, <1>3, <1>4, <1>5, <1>6, <1>7 DEF BatchTypeOK
<1>10. /\ batch'.op = "unmap" /\ batch'.stage = "run" /\ batch'.ctx = c /\ batch'.next = 1
       /\ batch'.handles = hs /\ batch'.last = Len(hs) /\ batch'.written = w /\ ~batch'.failed
  BY <1>6
<1>11. live' = live /\ call' = call /\ handles' = handles
  BY <1>6 DEF vars
<1>12. Formed'
  BY <1>9, <1>10, <1>11 DEF Formed
<1>13. Items' = 1 .. Len(hs) /\ \A i \in 1 .. Len(hs) : ~(i < 1) /\ 1 <= i
  BY <1>3, <1>10 DEF Items
<1>14. \A b \in w : StillToWrite(b)'
  BY <1>8, <1>10, <1>11, <1>13 DEF StillToWrite
<1>15. UnmapHolds'
  BY <1>1, <1>6, <1>10, <1>11, <1>13, <1>14 DEF UnmapHolds
<1> QED BY <1>10, <1>12, <1>15 DEF BatchInv, MapHolds, ResolveHolds

\* What an unmap of the batch does to the blocks: one block may become dirty in L1, and
\* then its write-back has failed.
LEMMA UnmapOutcome ==
    ASSUME Consistent, NEW h \in Handle, UnmapLogicalBlock(h)
    PROVE  /\ handles[h] # Nil /\ handles[h].block \in Block
           /\ UNCHANGED <<refs, names>> /\ call.stage = "idle" /\ call'.stage = "idle"
           /\ handles' = [handles EXCEPT ![h] = Nil]
           /\ \A a \in Block : /\ meta'[a].allocated = meta[a].allocated
                               /\ meta'[a].resident = meta[a].resident
           /\ \A a \in Block \ {handles[h].block} : meta'[a] = meta[a]
           /\ ~handles[h].write => meta'[handles[h].block].dirty = meta[handles[h].block].dirty
           /\ handles[h].write /\ ~WriteBackFailed(handles[h])
                 => ~(meta'[handles[h].block].resident /\ meta'[handles[h].block].dirty)
<1>1. /\ handles[h] # Nil /\ handles' = [handles EXCEPT ![h] = Nil]
      /\ Unmap(handles[h].block, handles[h].write)
  BY DEF UnmapLogicalBlock, CanUnmap
<1>2. PICK b \in Block : b = handles[h].block
  BY <1>1 DEF Consistent, TypeOK, Mapping
<1>3. PICK write \in BOOLEAN : write = handles[h].write
  BY <1>1 DEF Consistent, TypeOK, Mapping
<1>4. /\ UNCHANGED <<refs, names>> /\ call.stage = "idle" /\ call'.stage = "idle"
      /\ IF write THEN UnmapWrite(b) \/ UnmapWriteFails(b) \/ UnmapWriteEvicted(b)
                  ELSE UnmapRead(b)
  BY <1>1, <1>2, <1>3 DEF Unmap, Starts, Idle
<1>5. meta \in [Block -> Meta]
  BY DEF Consistent, TypeOK
<1>6. PICK m : /\ meta' = [meta EXCEPT ![b] = m]
               /\ m.allocated = meta[b].allocated /\ m.resident = meta[b].resident
               /\ ~write => m.dirty = meta[b].dirty
               /\ write => \/ ~m.dirty \/ ~m.resident
                           \/ meta[b].resident /\ m.dirty
  <2>1. CASE ~write
    <3>1. meta' = [meta EXCEPT ![b] = Unpinned(b)]
      BY <1>4, <2>1 DEF UnmapRead
    <3>2. /\ Unpinned(b).allocated = meta[b].allocated
          /\ Unpinned(b).resident = meta[b].resident /\ Unpinned(b).dirty = meta[b].dirty
      BY <1>5 DEF Unpinned, Meta
    <3> QED BY <2>1, <3>1, <3>2
  <2>2. CASE write
    <3>1. PICK n : n = Less(meta[b].pins, 1)
      OBVIOUS
    <3>2. Unpinned(b) = [meta[b] EXCEPT !.pins = n]
      BY <3>1 DEF Unpinned
    <3>3. PICK u : u = Unpinned(b)
      OBVIOUS
    <3>4. \/ meta' = [meta EXCEPT ![b] = [u EXCEPT !.dirty = FALSE, !.backed = TRUE]]
          \/ /\ meta' = [meta EXCEPT ![b] = [u EXCEPT !.dirty = TRUE]]
      BY <1>4, <2>2, <3>3 DEF UnmapWrite, UnmapWriteFails, UnmapWriteEvicted
    <3>5. /\ [u EXCEPT !.dirty = FALSE, !.backed = TRUE].allocated = meta[b].allocated
          /\ [u EXCEPT !.dirty = FALSE, !.backed = TRUE].resident = meta[b].resident
          /\ ~[u EXCEPT !.dirty = FALSE, !.backed = TRUE].dirty
      BY <1>5, <3>2, <3>3 DEF Meta
    <3>6. /\ [u EXCEPT !.dirty = TRUE].allocated = meta[b].allocated
          /\ [u EXCEPT !.dirty = TRUE].resident = meta[b].resident
          /\ [u EXCEPT !.dirty = TRUE].dirty
      BY <1>5, <3>2, <3>3 DEF Meta
    <3> QED BY <2>2, <3>4, <3>5, <3>6
  <2> QED BY <2>1, <2>2
<1>7. meta'[b] = m /\ \A a \in Block \ {b} : meta'[a] = meta[a]
  BY <1>5, <1>6
<1>8. WriteBackFailed(handles[h]) <=> write /\ meta[b].resident /\ meta'[b].dirty
  BY <1>2, <1>3 DEF WriteBackFailed
<1> QED BY <1>1, <1>2, <1>3, <1>4, <1>6, <1>7, <1>8

\* The batch goes on after its current item, of handle g: UnmapItem and UnmapItemRefused
\* in a batch unmap
LEMMA UnmapAdvances ==
    ASSUME Consistent, BatchInv, batch.op = "unmap", batch.stage = "run",
           NEW g \in Handle, g = ThisHandle,
           NEW s \in BatchRecord, SameItems(batch, s), s.next = batch.next, s.stage = "run",
           batch' = NextItem(s), live' = live, table' = table, call'.stage = "idle",
           batch.failed => s.failed,
           \A h \in Handle \ {g} : handles'[h] = handles[h],
           \A a \in Block : meta'[a].allocated = meta[a].allocated,
           handles'[g] = Nil \/ (s.failed /\ ~CanUnmap(g)'),
           ~s.failed => \A b \in batch.written :
              Unwritten(b)' => StillToWrite(b) /\ ~(handles[g].write /\ handles[g].block = b)
    PROVE  BatchInv'
<1>1. PICK hs : hs = batch.handles
  OBVIOUS
<1>2. /\ DOMAIN hs = Items /\ Distinct(hs)
      /\ \A i \in Items : i < batch.next
            => handles[hs[i]] = Nil \/ (batch.failed /\ ~CanUnmap(hs[i]))
  BY <1>1 DEF BatchInv, UnmapHolds
<1>3. /\ batch \in BatchRecord /\ batch.next \in Items /\ batch.next \in Nat
      /\ batch.last \in Nat /\ hs[batch.next] = g
  BY <1>1, ThisItem DEF BatchInv, ThisHandle
<1>4. \A i \in Items : hs[i] \in Handle
  BY <1>1, <1>2, <1>3, UpToFacts DEF BatchRecord
<1>5. \A i \in Items : i # batch.next => hs[i] \in Handle \ {g}
  BY <1>2, <1>3, <1>4 DEF Distinct
<1>6. /\ Formed' /\ SameItems(batch, batch') /\ batch'.failed = s.failed
      /\ \/ batch.next = batch.last /\ batch'.stage = "return" /\ batch'.next = batch.next
         \/ /\ batch.next < batch.last /\ batch'.stage = "run"
            /\ batch'.next = batch.next + 1
  BY AdvanceFormed DEF BatchInv
<1>7. /\ batch'.op = "unmap" /\ batch'.handles = hs /\ Items' = Items
      /\ batch'.written = batch.written
  BY <1>1, <1>6 DEF SameItems, Items
<1>8. ASSUME NEW h \in Handle \ {g}, CanUnmap(h)' PROVE CanUnmap(h)
  <2>1. handles'[h] = handles[h] /\ handles[h] # Nil
    BY <1>8 DEF CanUnmap
  <2>2. PICK c \in Ctx, l \in Lvid : c = handles[h].ctx /\ l = handles[h].lvid
    BY <2>1 DEF Consistent, TypeOK, Mapping
  <2>3. Resolves(c, l)' /\ table[c][l] = handles[h].block
    BY <1>8, <2>1, <2>2 DEF CanUnmap
  <2>4. Resolves(c, l)
    BY <2>2, <2>3 DEF Resolves, Consistent, TypeOK
  <2> QED BY <2>1, <2>2, <2>3, <2>4 DEF CanUnmap
<1>9. ASSUME NEW i \in Items, i < batch'.next \/ batch'.stage = "return"
      PROVE  handles'[hs[i]] = Nil \/ (batch'.failed /\ ~CanUnmap(hs[i])')
  <2>1. i < batch.next \/ i = batch.next
    BY <1>3, <1>6, <1>9 DEF Items
  <2>2. CASE i = batch.next
    <3>1. PICK h : h = hs[i] /\ h = g
      BY <1>3, <2>2
    <3> QED BY <1>6, <3>1
  <2>3. CASE i < batch.next
    <3>1. i # batch.next
      BY <1>3, <2>3 DEF Items
    <3>2. PICK h \in Handle \ {g} : h = hs[i]
      BY <1>5, <3>1
    <3>3. handles'[h] = handles[h] /\ (CanUnmap(h)' => CanUnmap(h))
      BY <1>8
    <3>4. handles[h] = Nil \/ (batch.failed /\ ~CanUnmap(h))
      BY <1>2, <2>3, <3>2
    <3> QED BY <1>6, <3>2, <3>3, <3>4
  <2> QED BY <2>1, <2>2, <2>3
<1>10. ASSUME ~batch'.failed, NEW b \in batch.written, Unwritten(b)'
       PROVE  StillToWrite(b)'
  <2>1. StillToWrite(b) /\ ~(handles[g].write /\ handles[g].block = b)
    BY <1>6, <1>10
  <2>2. PICK i \in Items : /\ batch.next <= i /\ handles[hs[i]] # Nil
                           /\ handles[hs[i]].write /\ handles[hs[i]].block = b
    BY <1>1, <2>1 DEF StillToWrite
  <2>3. i # batch.next
    BY <1>3, <2>1, <2>2
  <2>4. handles'[hs[i]] = handles[hs[i]]
    BY <1>5, <2>3
  <2>5. batch'.stage = "run" /\ batch'.next <= i
    BY <1>3, <1>6, <2>2, <2>3 DEF Items
  <2> QED BY <1>7, <2>2, <2>4, <2>5 DEF StillToWrite
<1>11. UnmapHolds'
  BY <1>2, <1>6, <1>7, <1>9, <1>10 DEF UnmapHolds
<1> QED BY <1>6, <1>7, <1>11 DEF BatchInv, MapHolds, ResolveHolds

\* A mapping that is kept can be closed.
LEMMA KeptCanBeUnmapped ==
    ASSUME Consistent, NEW h \in Handle, Kept(h)
    PROVE  /\ CanUnmap(h) /\ handles[h].block \in Block
           /\ handles[h].ctx \in Ctx /\ handles[h].lvid \in Lvid
<1>1. handles[h] \in Mapping
  BY DEF Consistent, TypeOK, Kept
<1>2. handles[h].block \in Block /\ handles[h].ctx \in Ctx /\ handles[h].lvid \in Lvid
  BY <1>1 DEF Mapping
<1>3. handles[h].block # Nil
  BY <1>2, NilAssumption
<1>4. CanUnmap(h)
  BY <1>3 DEF Kept, CanUnmap, Resolves
<1> QED BY <1>2, <1>4

\* A mapping stays kept while its block stays in use and its entry in place.
LEMMA KeptStays ==
    ASSUME Consistent, NEW h \in Handle, Kept(h), live' = live, handles'[h] = handles[h],
           batch'.write = batch.write,
           table'[handles[h].ctx][handles[h].lvid] = table[handles[h].ctx][handles[h].lvid],
           refs'[handles[h].block] > 0, meta'[handles[h].block].allocated,
           batch.write => refs'[handles[h].block] = 1
    PROVE  Kept(h)'
BY DEF Kept

\* UnmapItem closes the current item of a batch unmap,
LEMMA UnmapItemStep ==
    ASSUME Consistent, BatchInv, UnmapItem, batch.op = "unmap"
    PROVE  BatchInv'
<1>1. /\ batch.stage = "run" /\ UnmapLogicalBlock(ThisHandle)
      /\ batch' = NextItem([batch EXCEPT
                    !.failed = batch.op = "map"
                                  \/ FirstError(WriteBackFailed(handles[ThisHandle]))])
  BY DEF UnmapItem, Unmapping, InBatch, ItemDone
<1>2. DOMAIN batch.handles = Items
  BY <1>1 DEF BatchInv, UnmapHolds
<1>3. batch \in BatchRecord /\ ThisHandle \in Handle /\ batch.next \in Items
  BY <1>2, ThisItem DEF BatchInv
<1>4. PICK g \in Handle : g = ThisHandle
  BY <1>3
<1>5. PICK error \in BOOLEAN : error = (batch.failed \/ WriteBackFailed(handles[g]))
  OBVIOUS
<1>6. (batch.op = "map" \/ FirstError(WriteBackFailed(handles[ThisHandle]))) = error
  BY <1>4, <1>5 DEF FirstError
<1>7. PICK s \in BatchRecord :
         /\ s = [batch EXCEPT !.failed = error] /\ SameItems(batch, s)
         /\ s.next = batch.next /\ s.stage = "run" /\ s.failed = error
  <2>1. [batch EXCEPT !.failed = error] \in BatchRecord
    BY <1>3 DEF BatchRecord
  <2> QED BY <1>1, <1>3, <2>1 DEF BatchRecord, SameItems
<1>8. batch' = NextItem(s)
  BY <1>1, <1>6, <1>7
<1>9. /\ handles[g] # Nil /\ handles[g].block \in Block
      /\ UNCHANGED <<refs, names>> /\ call'.stage = "idle"
      /\ handles' = [handles EXCEPT ![g] = Nil]
      /\ \A a \in Block : /\ meta'[a].allocated = meta[a].allocated
                          /\ meta'[a].resident = meta[a].resident
      /\ \A a \in Block \ {handles[g].block} : meta'[a] = meta[a]
      /\ ~handles[g].write => meta'[handles[g].block].dirty = meta[handles[g].block].dirty
      /\ handles[g].write /\ ~WriteBackFailed(handles[g])
            => ~(meta'[handles[g].block].resident /\ meta'[handles[g].block].dirty)
  BY <1>1, <1>4, UnmapOutcome
<1>10. live' = live /\ table' = table
  BY <1>9 DEF names
<1>11. handles'[g] = Nil /\ \A h \in Handle \ {g} : handles'[h] = handles[h]
  BY <1>9 DEF Consistent, TypeOK
<1>12. ASSUME ~s.failed, NEW b \in batch.written, Unwritten(b)'
       PROVE  StillToWrite(b) /\ ~(handles[g].write /\ handles[g].block = b)
  <2>1. ~batch.failed /\ ~WriteBackFailed(handles[g])
    BY <1>5, <1>7, <1>12
  <2>2. b \in Block
    BY <1>3 DEF BatchRecord
  <2>3. ~(handles[g].write /\ handles[g].block = b)
    BY <1>9, <1>12, <2>1 DEF Unwritten
  <2>4. Unwritten(b)
    BY <1>9, <1>12, <2>2, <2>3 DEF Unwritten
  <2>5. StillToWrite(b)
    BY <2>1, <2>4 DEF BatchInv, UnmapHolds
  <2> QED BY <2>3, <2>5
<1>13. batch.failed => s.failed
  BY <1>5, <1>7
<1> QED BY <1>1, <1>4, <1>7, <1>8, <1>9, <1>10, <1>11, <1>12, <1>13, UnmapAdvances

\* and UnmapItemRefused reports it.
LEMMA UnmapItemRefusedStep ==
    ASSUME Consistent, BatchInv, UnmapItemRefused, batch.op = "unmap"
    PROVE  BatchInv'
<1>1. /\ batch.stage = "run" /\ ~CanUnmap(ThisHandle) /\ UNCHANGED vars
      /\ call.stage = "idle"
      /\ batch' = NextItem([batch EXCEPT !.failed = batch.op = "map" \/ FirstError(TRUE)])
  BY DEF UnmapItemRefused, Unmapping, InBatch, ItemDone
<1>2. DOMAIN batch.handles = Items
  BY <1>1 DEF BatchInv, UnmapHolds
<1>3. batch \in BatchRecord /\ ThisHandle \in Handle /\ batch.next \in Items
  BY <1>2, ThisItem DEF BatchInv
<1>4. PICK g \in Handle : g = ThisHandle
  BY <1>3
<1>5. (batch.op = "map" \/ FirstError(TRUE)) = TRUE
  BY DEF FirstError
<1>6. PICK s \in BatchRecord :
         /\ s = [batch EXCEPT !.failed = TRUE] /\ SameItems(batch, s)
         /\ s.next = batch.next /\ s.stage = "run" /\ s.failed
  <2>1. [batch EXCEPT !.failed = TRUE] \in BatchRecord
    BY <1>3 DEF BatchRecord
  <2> QED BY <1>1, <1>3, <2>1 DEF BatchRecord, SameItems
<1>7. batch' = NextItem(s)
  BY <1>1, <1>5, <1>6
<1>8. live' = live /\ table' = table /\ call' = call /\ handles' = handles /\ meta' = meta
  BY <1>1 DEF vars
<1>9. ~CanUnmap(g)'
  BY <1>1, <1>4, <1>8 DEF CanUnmap, Resolves
<1> QED BY <1>1, <1>4, <1>6, <1>7, <1>8, <1>9, UnmapAdvances

-----------------------------------------------------------------------------
(* mmu_map_logical_blocks: the rollback *)

\* UnmapItem undoes one item, and leaves those still to be undone.
LEMMA UndoItemStep ==
    ASSUME Consistent, BatchInv, UnmapItem, batch.op = "map"
    PROVE  BatchInv'
<1>1. /\ batch.stage = "undo" /\ UnmapLogicalBlock(ThisHandle)
      /\ batch' = NextItem([batch EXCEPT
                    !.failed = batch.op = "map"
                                  \/ FirstError(WriteBackFailed(handles[ThisHandle]))])
  BY DEF UnmapItem, Unmapping, InBatch, ItemDone
<1>2. PICK hs : hs = batch.handles
  OBVIOUS
<1>3. /\ DOMAIN batch.lvids = DOMAIN hs /\ Distinct(hs) /\ Items \subseteq DOMAIN hs
      /\ \A i \in DOMAIN hs : IF batch.next <= i /\ i <= batch.last
                                 THEN Kept(hs[i]) ELSE handles[hs[i]] = Nil
  BY <1>1, <1>2 DEF BatchInv, MapHolds
<1>4. /\ batch \in BatchRecord /\ batch.next \in Items /\ batch.next \in Nat
      /\ batch.last \in Nat /\ batch.next <= batch.last
      /\ hs \in UpTo(Handle) /\ ThisHandle \in Handle
  BY <1>2, <1>3, ThisItem DEF BatchInv
<1>5. PICK g \in Handle : g = ThisHandle /\ g = hs[batch.next]
  BY <1>2, <1>4 DEF ThisHandle
<1>6. \A i \in DOMAIN hs : /\ i \in Nat
                           /\ i # batch.next => hs[i] \in Handle \ {g}
  <2>1. \A i \in DOMAIN hs : i \in Nat /\ hs[i] \in Handle
    BY <1>4, UpToFacts
  <2>2. batch.next \in DOMAIN hs
    BY <1>3, <1>4
  <2> QED BY <1>3, <1>5, <2>1, <2>2 DEF Distinct
<1>7. (batch.op = "map" \/ FirstError(WriteBackFailed(handles[ThisHandle]))) = TRUE
  OBVIOUS
<1>8. PICK s \in BatchRecord :
         /\ s = [batch EXCEPT !.failed = TRUE] /\ SameItems(batch, s)
         /\ s.next = batch.next /\ s.stage = "undo" /\ s.failed
  <2>1. [batch EXCEPT !.failed = TRUE] \in BatchRecord
    BY <1>4 DEF BatchRecord
  <2> QED BY <1>1, <1>4, <2>1 DEF BatchRecord, SameItems
<1>9. batch' = NextItem(s)
  BY <1>1, <1>7, <1>8
<1>10. /\ UNCHANGED <<refs, names>> /\ call'.stage = "idle"
       /\ handles' = [handles EXCEPT ![g] = Nil]
       /\ \A a \in Block : meta'[a].allocated = meta[a].allocated
  BY <1>1, <1>5, UnmapOutcome
<1>11. refs' = refs /\ live' = live /\ table' = table
  BY <1>10 DEF names
<1>12. handles'[g] = Nil /\ \A h \in Handle \ {g} : handles'[h] = handles[h]
  BY <1>10 DEF Consistent, TypeOK
<1>13. /\ Formed' /\ SameItems(batch, batch') /\ batch'.failed = s.failed
       /\ \/ batch.next = batch.last /\ batch'.stage = "return" /\ batch'.next = batch.next
          \/ /\ batch.next < batch.last /\ batch'.stage = "undo"
             /\ batch'.next = batch.next + 1
  BY <1>8, <1>9, <1>11, AdvanceFormed DEF BatchInv
<1>14. /\ batch'.op = "map" /\ batch'.handles = hs /\ batch'.lvids = batch.lvids
       /\ Items' = Items /\ batch'.last = batch.last /\ batch'.write = batch.write
       /\ batch'.failed
  BY <1>2, <1>8, <1>13 DEF SameItems, Items
<1>15. ASSUME NEW i \in DOMAIN hs, i # batch.next, Kept(hs[i]) PROVE Kept(hs[i])'
  <2>1. PICK h \in Handle \ {g} : h = hs[i]
    BY <1>6, <1>15
  <2>2. handles'[h] = handles[h] /\ Kept(h) /\ handles[h].block \in Block
    BY <1>12, <1>15, <2>1, KeptCanBeUnmapped
  <2>3. /\ refs'[handles[h].block] > 0 /\ meta'[handles[h].block].allocated
        /\ batch.write => refs'[handles[h].block] = 1
    BY <1>10, <1>11, <2>2 DEF Kept
  <2>4. Kept(h)'
    BY <1>11, <1>14, <2>2, <2>3, KeptStays
  <2> QED BY <2>1, <2>4
<1>16. \A i \in DOMAIN hs : i # batch.next /\ handles[hs[i]] = Nil => handles'[hs[i]] = Nil
  BY <1>6, <1>12
<1>17. CASE batch'.stage = "return"
  <2>1. \A i \in DOMAIN hs : handles'[hs[i]] = Nil
    BY <1>3, <1>4, <1>5, <1>6, <1>12, <1>13, <1>16, <1>17
  <2>2. MapHolds'
    BY <1>3, <1>10, <1>14, <1>17, <2>1 DEF MapHolds
  <2> QED BY <1>13, <1>14, <2>2 DEF BatchInv, UnmapHolds, ResolveHolds
<1>18. CASE batch'.stage = "undo" /\ batch'.next = batch.next + 1
  <2>1. ASSUME NEW i \in DOMAIN hs
        PROVE  IF batch'.next <= i /\ i <= batch.last THEN Kept(hs[i])'
                                                      ELSE handles'[hs[i]] = Nil
    <3>1. CASE i = batch.next
      BY <1>4, <1>5, <1>12, <1>18, <3>1
    <3>2. CASE i # batch.next
      <4>1. batch'.next <= i <=> batch.next <= i
        BY <1>4, <1>6, <1>18, <3>2
      <4> QED BY <1>3, <1>15, <1>16, <3>2, <4>1
    <3> QED BY <3>1, <3>2
  <2>2. MapHolds'
    BY <1>3, <1>10, <1>14, <1>18, <2>1 DEF MapHolds
  <2> QED BY <1>13, <1>14, <2>2 DEF BatchInv, UnmapHolds, ResolveHolds
<1> QED BY <1>13, <1>17, <1>18

\* UnmapItemRefused does not happen in a rollback.
LEMMA UndoIsNotRefused ==
    ASSUME Consistent, BatchInv, UnmapItemRefused, batch.op = "map"
    PROVE  FALSE
<1>1. batch.stage = "undo" /\ ~CanUnmap(ThisHandle)
  BY DEF UnmapItemRefused, Unmapping, InBatch
<1>2. /\ Items \subseteq DOMAIN batch.handles
      /\ \A i \in DOMAIN batch.handles :
            batch.next <= i /\ i <= batch.last => Kept(batch.handles[i])
  BY <1>1 DEF BatchInv, MapHolds
<1>3. /\ batch.next \in Items /\ batch.next <= batch.last /\ batch.next \in Nat
      /\ ThisHandle \in Handle
  BY <1>2, ThisItem DEF BatchInv
<1>4. Kept(ThisHandle)
  BY <1>2, <1>3 DEF ThisHandle
<1> QED BY <1>1, <1>3, <1>4, KeptCanBeUnmapped

-----------------------------------------------------------------------------
(* mmu_map_logical_blocks: the items *)

\* MapLogicalBlocks starts with nothing mapped.
LEMMA MapLogicalBlocksStep ==
    ASSUME Consistent, NEW c \in live, NEW lvids \in UpTo(Lvid) \ {<<>>},
           NEW hs \in UpTo(Handle), NEW write \in BOOLEAN,
           MapLogicalBlocks(c, lvids, write, hs)
    PROVE  BatchInv'
<1>1. /\ lvids \in Seq(Lvid) /\ Len(lvids) \in 0 .. MaxBatch /\ DOMAIN lvids = 1 .. Len(lvids)
      /\ DOMAIN hs = 1 .. Len(hs) /\ \A i \in DOMAIN hs : hs[i] \in Handle
  BY UpToFacts
<1>2. Len(lvids) # 0
  BY <1>1, EmptySeq
<1>3. Len(lvids) \in Nat /\ 1 \in 0 .. MaxBatch /\ 1 <= Len(lvids)
  BY <1>1, <1>2, MaxBatchAssumption
<1>4. /\ Len(hs) = Len(lvids) /\ Distinct(hs)
      /\ \A i \in DOMAIN hs : handles[hs[i]] = Nil
  BY DEF MapLogicalBlocks
<1>5. c \in Ctx
  BY DEF Consistent, TypeOK
<1>6. /\ batch' = [op |-> "map", stage |-> "run", ctx |-> c, lvids |-> lvids,
                   write |-> write, handles |-> hs, next |-> 1, last |-> Len(lvids),
                   issued |-> FALSE, failed |-> FALSE, written |-> {}, routes |-> <<>>]
      /\ UNCHANGED vars /\ call.stage = "idle"
  BY DEF MapLogicalBlocks, Begins, NoBatch
<1>7. <<>> \in UpTo(Block \cup {Nil})
  BY EmptyUpTo
<1>8. BatchTypeOK'
  BY <1>1, <1>3, <1>5, <1>6, <1>7 DEF BatchTypeOK
<1>9. /\ batch'.op = "map" /\ batch'.stage = "run" /\ batch'.ctx = c /\ batch'.next = 1
      /\ batch'.lvids = lvids /\ batch'.handles = hs /\ batch'.last = Len(lvids)
      /\ ~batch'.issued /\ ~batch'.failed
  BY <1>6
<1>10. live' = live /\ call' = call /\ handles' = handles
  BY <1>6 DEF vars
<1>11. Formed'
  BY <1>8, <1>9, <1>10 DEF Formed
<1>12. MapHolds'
  <2>1. \A i \in 1 .. Len(lvids) : ~(i < 1)
    BY <1>3
  <2>2. ThisHandle' = hs[1] /\ 1 \in DOMAIN hs
    BY <1>1, <1>3, <1>4, <1>9 DEF ThisHandle
  <2> QED BY <1>1, <1>4, <1>6, <1>9, <1>10, <2>1, <2>2 DEF MapHolds, Items
<1> QED BY <1>9, <1>11, <1>12 DEF BatchInv, ResolveHolds, UnmapHolds

\* What holds while a batch map goes through its items
LEMMA MapFacts ==
    ASSUME Consistent, BatchInv, batch.op = "map", batch.stage = "run"
    PROVE  /\ DOMAIN batch.lvids = Items /\ DOMAIN batch.handles = Items
           /\ Distinct(batch.handles) /\ ~batch.failed
           /\ \A i \in Items : batch.handles[i] \in Handle
           /\ \A i \in Items : i < batch.next => Kept(batch.handles[i])
           /\ \A i \in Items : batch.next < i => handles[batch.handles[i]] = Nil
           /\ batch \in BatchRecord /\ batch.next \in Items /\ batch.next \in Nat
           /\ batch.last \in Nat /\ batch.next <= batch.last
           /\ batch.ctx \in Ctx /\ batch.ctx \in live
           /\ ThisLvid \in Lvid /\ ThisHandle \in Handle
           /\ \A i \in Items : i # batch.next => batch.handles[i] # ThisHandle
<1>1. /\ DOMAIN batch.lvids = Items /\ DOMAIN batch.handles = Items
      /\ Distinct(batch.handles) /\ ~batch.failed
      /\ \A i \in Items : i < batch.next => Kept(batch.handles[i])
      /\ \A i \in Items : batch.next < i => handles[batch.handles[i]] = Nil
  BY DEF BatchInv, MapHolds
<1>2. /\ batch \in BatchRecord /\ batch.next \in Items /\ batch.next \in Nat
      /\ batch.last \in Nat /\ batch.next <= batch.last
      /\ batch.ctx \in Ctx /\ batch.ctx \in live
      /\ batch.handles \in UpTo(Handle)
      /\ ThisLvid \in Lvid /\ ThisHandle \in Handle
  BY <1>1, ThisItem DEF BatchInv
<1>3. \A i \in Items : batch.handles[i] \in Handle
  BY <1>1, <1>2, UpToFacts
<1>4. \A i \in Items : i # batch.next => batch.handles[i] # ThisHandle
  BY <1>1, <1>2 DEF Distinct, ThisHandle
<1> QED BY <1>1, <1>2, <1>3, <1>4

\* While the items are mapped, a step may touch the current one and must leave what
\* is mapped before it.
LEMMA MapGoesOn ==
    ASSUME Consistent, BatchInv, batch.op = "map", batch.stage = "run", live' = live,
           batch' = batch \/ batch' = [batch EXCEPT !.issued = TRUE],
           batch'.issued,
           \A h \in Handle \ {ThisHandle} :
              handles'[h] = handles[h] /\ (Kept(h) => Kept(h)'),
           \/ call'.stage # "idle" /\ ItemRuns'
           \/ call'.stage = "idle" /\ (handles'[ThisHandle] = Nil \/ Kept(ThisHandle)')
    PROVE  BatchInv'
<1> PICK hs : hs = batch.handles
  OBVIOUS
<1>1. PICK g \in Handle : g = ThisHandle /\ hs = batch.handles
  BY MapFacts
<1>2. /\ DOMAIN batch.lvids = Items /\ DOMAIN hs = Items /\ Distinct(hs) /\ ~batch.failed
      /\ \A i \in Items : hs[i] \in Handle
      /\ \A i \in Items : i < batch.next => Kept(hs[i])
      /\ \A i \in Items : batch.next < i => handles[hs[i]] = Nil
      /\ \A i \in Items : i # batch.next => hs[i] # g
      /\ batch \in BatchRecord /\ batch.next \in Nat /\ batch.last \in Nat
  BY <1>1, MapFacts
<1>3. batch' \in BatchRecord
  <2>1. [batch EXCEPT !.issued = TRUE] \in BatchRecord
    BY <1>2 DEF BatchRecord
  <2> QED BY <1>2, <2>1
<1>4. /\ SameItems(batch, batch') /\ batch'.next = batch.next /\ batch'.stage = "run"
      /\ ~batch'.failed
  BY <1>2 DEF SameItems, BatchRecord
<1>5. /\ batch'.op = "map" /\ batch'.handles = hs /\ batch'.lvids = batch.lvids
      /\ batch'.ctx = batch.ctx /\ batch'.last = batch.last /\ Items' = Items
  BY <1>1, <1>4 DEF SameItems, Items
<1>6. Formed'
  <2>1. batch.next <= batch.last /\ 1 <= batch.next /\ batch.ctx \in live
    BY DEF BatchInv, Formed, BatchTypeOK
  <2> QED BY <1>3, <1>4, <1>5, <2>1 DEF Formed, BatchTypeOK, BatchRecord
<1>7. ThisHandle' = g
  BY <1>1, <1>4, <1>5 DEF ThisHandle
<1>8. \A h \in Handle \ {g} : handles'[h] = handles[h] /\ (Kept(h) => Kept(h)')
  BY <1>1
<1>9. ASSUME NEW i \in Items, i < batch.next PROVE Kept(hs[i])'
  <2>1. i # batch.next
    BY <1>2, <1>9 DEF Items
  <2>2. PICK h \in Handle \ {g} : h = hs[i]
    BY <1>2, <2>1
  <2>3. Kept(h)'
    BY <1>2, <1>8, <1>9, <2>2
  <2> QED BY <2>2, <2>3
<1>10. ASSUME NEW i \in Items, batch.next < i PROVE handles'[hs[i]] = Nil
  <2>1. i # batch.next
    BY <1>2, <1>10 DEF Items
  <2> QED BY <1>2, <1>8, <1>10, <2>1
<1>11. \/ call'.stage # "idle" /\ ItemRuns'
       \/ call'.stage = "idle" /\ (handles'[g] = Nil \/ Kept(g)')
  BY <1>1, <1>7
<1>12. MapHolds'
  <2>1. \/ call'.stage # "idle" /\ ItemRuns'
        \/ call'.stage = "idle" /\ (handles[ThisHandle] = Nil \/ Kept(ThisHandle))'
    BY <1>7, <1>11
  <2> QED BY <1>2, <1>4, <1>5, <1>9, <1>10, <2>1 DEF MapHolds
<1> QED BY <1>5, <1>6, <1>12 DEF BatchInv, ResolveHolds, UnmapHolds

\* MapItem starts the map call of the current item.
LEMMA MapItemStep ==
    ASSUME Consistent, BatchInv, MapItem
    PROVE  BatchInv'
<1>1. /\ batch.op = "map" /\ batch.stage = "run" /\ ~batch.issued
      /\ MapLogicalBlock(batch.ctx, ThisLvid, batch.write, ThisHandle)
      /\ batch' = [batch EXCEPT !.issued = TRUE]
  BY DEF MapItem, InBatch
<1>2. /\ batch \in BatchRecord /\ ThisHandle \in Handle /\ ThisLvid \in Lvid
      /\ batch.ctx \in Ctx
  BY <1>1, MapFacts
<1>3. /\ batch'.issued /\ batch'.write = batch.write /\ batch'.ctx = batch.ctx
      /\ batch'.handles = batch.handles /\ batch'.next = batch.next
  BY <1>1, <1>2 DEF BatchRecord
<1>4. UNCHANGED <<refs, names, blocks, pools, handles>>
  BY <1>1 DEF MapLogicalBlock
<1>5. /\ refs' = refs /\ live' = live /\ table' = table /\ meta' = meta
      /\ handles' = handles
  BY <1>4 DEF names, blocks
<1>6. PICK g \in Handle : g = ThisHandle
  BY <1>2
<1>7. ThisHandle' = g
  BY <1>3, <1>6 DEF ThisHandle
<1>8. PICK w \in BOOLEAN : w = batch.write
  BY <1>2 DEF BatchRecord
<1>9. /\ handles[g] = Nil
      /\ call' = [stage |-> IF w THEN "prepare" ELSE "reclaim", op |-> "map",
                  ctx |-> batch.ctx, lvid |-> ThisLvid, write |-> w, handle |-> g,
                  src |-> Nil, base |-> 0, goal |-> 0]
  BY <1>1, <1>6, <1>8 DEF MapLogicalBlock, Starts, Idle
<1>10. /\ call'.op = "map" /\ call'.ctx = batch.ctx /\ call'.write = w
       /\ call'.handle = g /\ call'.stage \in {"prepare", "reclaim"}
       /\ w => call'.stage = "prepare"
       /\ ~w => call'.stage = "reclaim"
  BY <1>9
<1>11. ItemRuns' /\ call'.stage # "idle"
  BY <1>3, <1>5, <1>7, <1>8, <1>9, <1>10 DEF ItemRuns
<1>12. \A h \in Handle : Kept(h) => Kept(h)'
  BY <1>3, <1>5 DEF Kept
<1> QED BY <1>1, <1>3, <1>5, <1>11, <1>12, MapGoesOn

\* ItemMapped goes on to the next item.
LEMMA ItemMappedStep ==
    ASSUME Consistent, BatchInv, ItemMapped
    PROVE  BatchInv'
<1>1. /\ batch.op = "map" /\ batch.stage = "run" /\ batch.issued /\ call.stage = "idle"
      /\ handles[ThisHandle] # Nil /\ batch' = NextItem(batch) /\ UNCHANGED vars
  BY DEF ItemMapped, InBatch
<1>2. PICK hs : hs = batch.handles
  OBVIOUS
<1>3. /\ DOMAIN batch.lvids = Items /\ DOMAIN hs = Items /\ Distinct(hs) /\ ~batch.failed
      /\ \A i \in Items : i < batch.next => Kept(hs[i])
      /\ \A i \in Items : batch.next < i => handles[hs[i]] = Nil
      /\ batch \in BatchRecord /\ batch.next \in Nat /\ batch.last \in Nat
      /\ batch.next \in Items /\ hs[batch.next] = ThisHandle
  BY <1>1, <1>2, MapFacts DEF ThisHandle
<1>4. Kept(ThisHandle)
  BY <1>1 DEF BatchInv, MapHolds
<1>5. /\ live' = live /\ refs' = refs /\ table' = table /\ meta' = meta
      /\ handles' = handles /\ call' = call
  BY <1>1 DEF vars
<1>6. SameItems(batch, batch) /\ Formed
  BY DEF SameItems, BatchInv
<1>7. /\ Formed' /\ SameItems(batch, batch') /\ ~batch'.failed
      /\ \/ batch.next = batch.last /\ batch'.stage = "return" /\ batch'.next = batch.next
         \/ /\ batch.next < batch.last /\ batch'.stage = "run"
            /\ batch'.next = batch.next + 1 /\ ~batch'.issued
  BY <1>1, <1>3, <1>5, <1>6, AdvanceFormed
<1>8. /\ batch'.op = "map" /\ batch'.handles = hs /\ batch'.lvids = batch.lvids
      /\ batch'.write = batch.write /\ Items' = Items
  BY <1>1, <1>2, <1>7 DEF SameItems, Items
<1>9. \A i \in Items : i <= batch.next => Kept(hs[i])
  BY <1>3, <1>4 DEF Items
<1>10. \A i \in Items : Kept(hs[i]) => Kept(hs[i])' /\ handles'[hs[i]] # Nil
  BY <1>5, <1>8 DEF Kept
<1>11. CASE batch'.stage = "return"
  <2>1. \A i \in Items : handles'[hs[i]] # Nil
    BY <1>3, <1>7, <1>9, <1>10, <1>11 DEF Items
  <2>2. MapHolds'
    BY <1>1, <1>3, <1>5, <1>7, <1>8, <1>11, <2>1 DEF MapHolds
  <2> QED BY <1>7, <1>8, <2>2 DEF BatchInv, ResolveHolds, UnmapHolds
<1>12. CASE batch'.stage = "run" /\ batch.next < batch.last /\ batch'.next = batch.next + 1
            /\ ~batch'.issued
  <2>1. \A i \in Items : i < batch'.next => Kept(hs[i])'
    BY <1>3, <1>9, <1>10, <1>12 DEF Items
  <2>2. \A i \in Items : batch'.next <= i => handles'[hs[i]] = Nil
    BY <1>3, <1>5, <1>12 DEF Items
  <2>3. ThisHandle' = hs[batch'.next] /\ batch'.next \in Items
    BY <1>3, <1>8, <1>12 DEF ThisHandle, Items
  <2>4. (handles[ThisHandle] = Nil)'
    BY <1>3, <1>12, <2>2, <2>3
  <2>5. \A i \in Items : batch'.next < i => handles'[hs[i]] = Nil
    BY <1>3, <1>12, <2>2 DEF Items
  <2>6. MapHolds'
    BY <1>1, <1>3, <1>5, <1>7, <1>8, <1>12, <2>1, <2>4, <2>5 DEF MapHolds
  <2> QED BY <1>7, <1>8, <2>6 DEF BatchInv, ResolveHolds, UnmapHolds
<1> QED BY <1>7, <1>11, <1>12

\* ItemFailed ends the batch, or starts to undo the items before the current one.
LEMMA ItemFailedStep ==
    ASSUME Consistent, BatchInv, ItemFailed
    PROVE  BatchInv'
<1>1. /\ batch.op = "map" /\ batch.stage = "run" /\ call.stage = "idle" /\ UNCHANGED vars
      /\ batch.issued => handles[ThisHandle] = Nil
      /\ batch' = IF batch.next - 1 < 1
                  THEN [batch EXCEPT !.stage = "return", !.failed = TRUE]
                  ELSE [batch EXCEPT !.stage = "undo", !.failed = TRUE,
                                     !.next = 1, !.last = batch.next - 1]
  BY DEF ItemFailed, InBatch, Mapped
<1>2. PICK hs : hs = batch.handles
  OBVIOUS
<1>3. /\ DOMAIN batch.lvids = Items /\ DOMAIN hs = Items /\ Distinct(hs)
      /\ \A i \in Items : i < batch.next => Kept(hs[i])
      /\ \A i \in Items : batch.next < i => handles[hs[i]] = Nil
      /\ batch \in BatchRecord /\ batch.next \in Nat /\ batch.last \in Nat
      /\ batch.next \in Items /\ batch.next <= batch.last /\ hs[batch.next] = ThisHandle
      /\ batch.ctx \in live
  BY <1>1, <1>2, MapFacts DEF ThisHandle
<1>4. handles[ThisHandle] = Nil
  BY <1>1 DEF BatchInv, MapHolds
<1>5. /\ live' = live /\ refs' = refs /\ table' = table /\ meta' = meta
      /\ handles' = handles /\ call' = call
  BY <1>1 DEF vars
<1>6. \A i \in Items : batch.next <= i => handles[hs[i]] = Nil
  BY <1>3, <1>4 DEF Items
<1>7. CASE batch.next - 1 < 1
  <2>1. batch' = [batch EXCEPT !.stage = "return", !.failed = TRUE]
    BY <1>1, <1>7
  <2>2. /\ batch' \in BatchRecord /\ batch'.op = "map" /\ batch'.stage = "return"
        /\ batch'.failed /\ batch'.next = batch.next /\ batch'.last = batch.last
        /\ batch'.ctx = batch.ctx /\ batch'.handles = hs /\ batch'.lvids = batch.lvids
    BY <1>1, <1>2, <1>3, <2>1 DEF BatchRecord
  <2>3. \A i \in Items : handles[hs[i]] = Nil
    BY <1>3, <1>6, <1>7 DEF Items
  <2>4. MapHolds'
    BY <1>1, <1>3, <1>5, <2>2, <2>3 DEF MapHolds
  <2>5. Formed'
    BY <1>3, <1>5, <2>2 DEF Formed, BatchTypeOK, BatchRecord, Items
  <2> QED BY <2>2, <2>4, <2>5 DEF BatchInv, ResolveHolds, UnmapHolds
<1>8. CASE ~(batch.next - 1 < 1)
  <2>1. batch' = [batch EXCEPT !.stage = "undo", !.failed = TRUE,
                               !.next = 1, !.last = batch.next - 1]
    BY <1>1, <1>8
  <2>2. /\ batch.next \in 0 .. MaxBatch /\ MaxBatch \in Nat
    BY <1>3, MaxBatchAssumption DEF BatchRecord
  <2>3. /\ 1 \in 0 .. MaxBatch /\ batch.next - 1 \in 0 .. MaxBatch
        /\ 1 <= batch.next - 1
    BY <1>3, <1>8, <2>2
  <2>4. /\ batch' \in BatchRecord /\ batch'.op = "map" /\ batch'.stage = "undo"
        /\ batch'.failed /\ batch'.next = 1 /\ batch'.last = batch.next - 1
        /\ batch'.ctx = batch.ctx /\ batch'.handles = hs /\ batch'.lvids = batch.lvids
        /\ batch'.write = batch.write
    BY <1>1, <1>2, <1>3, <2>1, <2>3 DEF BatchRecord
  <2>5. ASSUME NEW i \in Items
        PROVE  IF 1 <= i /\ i <= batch.next - 1 THEN Kept(hs[i])'
                                                ELSE handles'[hs[i]] = Nil
    <3>1. CASE i < batch.next
      <4>1. Kept(hs[i])'
        BY <1>3, <1>5, <2>4, <3>1 DEF Kept
      <4>2. 1 <= i /\ i <= batch.next - 1
        BY <1>3, <3>1 DEF Items
      <4> QED BY <4>1, <4>2
    <3>2. CASE batch.next <= i
      BY <1>3, <1>5, <1>6, <3>2 DEF Items
    <3> QED BY <1>3, <3>1, <3>2 DEF Items
  <2>6. Items' \subseteq Items
    BY <1>3, <2>4 DEF Items
  <2>7. MapHolds'
    BY <1>1, <1>3, <1>5, <2>4, <2>5, <2>6 DEF MapHolds
  <2>8. Formed'
    BY <1>3, <1>5, <2>3, <2>4 DEF Formed, BatchTypeOK, BatchRecord
  <2> QED BY <2>4, <2>7, <2>8 DEF BatchInv, ResolveHolds, UnmapHolds
<1> QED BY <1>7, <1>8

-----------------------------------------------------------------------------
(* The map call of an item, stage by stage *)

\* Only the items of a batch map have calls that go on, and those are map calls.
LEMMA ItemsCall ==
    ASSUME Consistent, BatchInv, CallStep, batch.op # "none"
    PROVE  /\ batch.op = "map" /\ batch.stage = "run" /\ batch.issued /\ ItemRuns
           /\ call.stage \in {"reclaim", "prepare", "clone", "ensure", "pin"}
           /\ AccessConsistent
<1>1. call.stage # "idle"
  BY DEF CallStep, Reclaim, GrowTable, GrowFails, RegisterInL1, RegisterInL2, Registering,
         WriteInPlace, CowFails, CowRemap, CloneBlockData, CloneFails, AlreadyResident,
         EvictVictim, EvictFails, NeedsRoom, Promote, PromoteFails, Pin, PinFails, InStage
<1>2. batch.op \in {"map", "unmap", "resolve"} /\ batch.stage \in {"run", "undo", "return"}
  BY DEF BatchInv, Formed, BatchTypeOK
<1>3. batch.op = "map"
  BY <1>1, <1>2 DEF BatchInv, UnmapHolds, ResolveHolds
<1>4. batch.stage = "run" /\ batch.issued /\ ItemRuns
  BY <1>1, <1>2, <1>3 DEF BatchInv, MapHolds
<1>5. call.op = "map"
  BY <1>4 DEF ItemRuns
<1>6. AccessConsistent
  BY <1>5 DEF Consistent, CallConsistent
<1> QED BY <1>3, <1>4, <1>5, <1>6 DEF AccessConsistent

\* A step that changes no name and no count leaves what is kept.
LEMMA KeptThroughQuiet ==
    ASSUME Consistent, batch' = batch, UNCHANGED <<refs, names>>,
           NEW h \in Handle, Kept(h), handles'[h] = handles[h],
           \A b \in Block : refs[b] > 0 /\ meta[b].allocated => meta'[b].allocated
    PROVE  Kept(h)'
<1>1. handles[h].block \in Block
  BY KeptCanBeUnmapped
<1>2. refs' = refs /\ live' = live /\ table' = table
  BY DEF names
<1> QED BY <1>1, <1>2 DEF Kept

\* The quiet stages of a call keep the registration of every referenced block.
LEMMA StagesKeepBlocks ==
    ASSUME Consistent, Reclaim \/ QuietStep, call.stage # "register"
    PROVE  /\ UNCHANGED <<refs, names>>
           /\ \A b \in Block : refs[b] > 0 /\ meta[b].allocated => meta'[b].allocated
<1>1. CASE Reclaim
  <2>1. Scrub(FreeBlocks) /\ UNCHANGED <<refs, names>>
    BY <1>1 DEF Reclaim
  <2>2. FreeBlocks \in SUBSET Block
    BY DEF FreeBlocks
  <2>3. \A b \in Block \ FreeBlocks : meta'[b] = meta[b]
    BY <2>1, <2>2, ScrubFacts
  <2>4. \A b \in Block : refs[b] > 0 => b \notin FreeBlocks
    BY DEF FreeBlocks
  <2> QED BY <2>1, <2>3, <2>4
<1>2. CASE WriteInPlace \/ CowFails \/ CloneFails \/ EvictFails \/ PromoteFails \/ PinFails
  BY <1>2 DEF WriteInPlace, CowFails, CloneFails, EvictFails, PromoteFails, PinFails, blocks
<1>3. CASE \/ CloneBlockData \/ AlreadyResident
           \/ \E v \in Block : EvictVictim(v)
           \/ \E p \in Page : Promote(p) \/ Pin(p)
  <2>1. UNCHANGED <<refs, names>>
    BY <1>3 DEF CloneBlockData, AlreadyResident, EvictVictim, Promote, Pin
  <2>2. meta \in [Block -> Meta]
    BY DEF Consistent, TypeOK
  <2>3. CASE CloneBlockData
    BY <2>2, <2>3 DEF CloneBlockData, Meta
  <2>4. CASE AlreadyResident
    BY <2>2, <2>4 DEF AlreadyResident, Meta
  <2>5. CASE \E v \in Block : EvictVictim(v)
    BY <2>2, <2>5 DEF EvictVictim, Meta
  <2>6. CASE \E p \in Page : Promote(p)
    <3>1. PICK k : k = Current
      OBVIOUS
    <3>2. meta' = [[meta EXCEPT ![k].resident = TRUE] EXCEPT ![k].tier = "L1"]
      BY <2>6, <3>1 DEF Promote
    <3>3. PICK q : q = [meta EXCEPT ![k].resident = TRUE]
      OBVIOUS
    <3>4. q \in [Block -> Meta] /\ \A b \in Block : q[b].allocated = meta[b].allocated
      BY <2>2, <3>3 DEF Meta
    <3>5. meta' = [q EXCEPT ![k].tier = "L1"]
      BY <3>2, <3>3
    <3>6. \A b \in Block : meta'[b].allocated = q[b].allocated
      BY <3>4, <3>5 DEF Meta
    <3> QED BY <2>1, <3>4, <3>6
  <2>7. CASE \E p \in Page : Pin(p)
    BY <2>2, <2>7 DEF Pin, Meta
  <2> QED BY <1>3, <2>1, <2>3, <2>4, <2>5, <2>6, <2>7
<1>4. ~RegisterInL1 /\ ~RegisterInL2
  BY DEF RegisterInL1, RegisterInL2, Registering, InStage
<1> QED BY <1>1, <1>2, <1>3, <1>4 DEF QuietStep

\* The stage that a quiet stage of a map call leads to
LEMMA ItemStages ==
    ASSUME Consistent, Reclaim \/ QuietStep, call.op = "map", call.stage # "register",
           call' # Idle, call' # call
    PROVE  /\ call'.stage \in {"reclaim", "ensure", "pin"}
           /\ call.stage = "prepare" => refs[Current] <= 1
<1>1. call \in Call
  BY DEF Consistent, TypeOK
<1>2. CASE Reclaim
  <2>1. call' = At("ensure") /\ call.stage = "reclaim"
    BY <1>2 DEF Reclaim, AfterReclaim, InStage
  <2> QED BY <1>1, <2>1 DEF At, Call
<1>3. CASE WriteInPlace
  <2>1. call' = At("reclaim") /\ ~MustCopy(Current) /\ call.stage = "prepare"
    BY <1>3 DEF WriteInPlace, Prepared, InStage
  <2>2. refs[Current] \in Nat
    BY <2>1, AccessFacts DEF Consistent, TypeOK
  <2> QED BY <1>1, <2>1, <2>2 DEF At, Call, MustCopy
<1>4. CASE CloneBlockData
  <2>1. call' = [At("reclaim") EXCEPT !.src = Nil] /\ call.stage = "clone"
    BY <1>4 DEF CloneBlockData, Prepared, InStage
  <2> QED BY <1>1, <2>1 DEF At, Call
<1>5. CASE AlreadyResident \/ \E p \in Page : Promote(p)
  <2>1. call' = At("pin") /\ call.stage = "ensure"
    BY <1>5 DEF AlreadyResident, Promote, InStage
  <2> QED BY <1>1, <2>1 DEF At, Call
<1>6. ~(CowFails \/ CloneFails \/ EvictFails \/ PromoteFails \/ PinFails)
      /\ ~(\E p \in Page : Pin(p)) /\ ~(\E v \in Block : EvictVictim(v))
  BY DEF CowFails, CloneFails, EvictFails, PromoteFails, PinFails, Pin, EvictVictim
<1>7. ~RegisterInL1 /\ ~RegisterInL2
  BY DEF RegisterInL1, RegisterInL2, Registering, InStage
<1> QED BY <1>2, <1>3, <1>4, <1>5, <1>6, <1>7 DEF QuietStep

\* A stage of the map call that changes no name and opens no mapping
LEMMA ItemStageQuiet ==
    ASSUME Consistent, BatchInv, CallStep, batch.op # "none", batch' = batch,
           Reclaim \/ QuietStep, handles' = handles
    PROVE  BatchInv'
<1>1. /\ batch.op = "map" /\ batch.stage = "run" /\ batch.issued /\ ItemRuns
      /\ call.stage \in {"reclaim", "prepare", "clone", "ensure", "pin"}
      /\ AccessConsistent
  BY ItemsCall
<1>2. /\ UNCHANGED <<refs, names>>
      /\ \A b \in Block : refs[b] > 0 /\ meta[b].allocated => meta'[b].allocated
  BY <1>1, StagesKeepBlocks
<1>3. \A h \in Handle : Kept(h) => Kept(h)'
  BY <1>2, KeptThroughQuiet
<1>4. refs' = refs /\ live' = live /\ table' = table
  BY <1>2 DEF names
<1>5. CASE call' = Idle
  <2>1. handles'[ThisHandle] = Nil /\ call'.stage = "idle"
    BY <1>1, <1>5 DEF ItemRuns, Idle
  <2> QED BY <1>1, <1>3, <1>4, <2>1, MapGoesOn
<1>6. CASE call' # Idle
  <2>1. CASE call' = call
    <3>1. ItemRuns' /\ call'.stage # "idle"
      BY <1>1, <1>4, <2>1 DEF ItemRuns, Current, ThisHandle
    <3> QED BY <1>1, <1>3, <1>4, <3>1, MapGoesOn
  <2>2. CASE call' # call
    <3>1. /\ call'.op = call.op /\ call'.ctx = call.ctx /\ call'.write = call.write
          /\ call'.handle = call.handle
          /\ call'.lvid = call.lvid \/ call'.stage = "register"
      BY <1>6, <2>2, CallGoesOn
    <3>2. /\ call'.stage \in {"reclaim", "ensure", "pin"}
          /\ call.stage = "prepare" => refs[Current] <= 1
      BY <1>1, <1>6, <2>2, ItemStages DEF ItemRuns
    <3>3. call'.lvid = call.lvid
      BY <3>1, <3>2
    <3>4. refs[Current] \in Nat /\ refs[Current] > 0
      BY <1>1 DEF AccessConsistent, Consistent, TypeOK
    <3>5. batch.write => refs[Current] = 1
      BY <1>1, <3>2, <3>4 DEF ItemRuns
    <3>6. Current' = Current /\ ThisHandle' = ThisHandle
      BY <1>4, <3>1, <3>3 DEF Current, ThisHandle
    <3>7. ItemRuns' /\ call'.stage # "idle"
      BY <1>1, <1>4, <3>1, <3>2, <3>5, <3>6 DEF ItemRuns
    <3> QED BY <1>1, <1>3, <1>4, <3>7, MapGoesOn
  <2> QED BY <2>1, <2>2
<1> QED BY <1>5, <1>6

\* A copy on write leaves what the batch has mapped: those blocks have one reference.
LEMMA ItemCowRemap ==
    ASSUME Consistent, BatchInv, NEW n \in Block, CowRemap(n), batch.op # "none",
           batch' = batch
    PROVE  BatchInv'
<1>1. CallStep
  BY DEF CallStep
<1>2. /\ batch.op = "map" /\ batch.stage = "run" /\ batch.issued /\ ItemRuns
      /\ AccessConsistent /\ call.ctx \in Ctx /\ call.lvid \in Lvid /\ Current \in Block
  <2>1. call.stage = "prepare"
    BY DEF CowRemap, InStage
  <2> QED BY <1>1, <2>1, ItemsCall, AccessFacts
<1>3. /\ call.stage = "prepare" /\ refs[Current] > 1 /\ refs[n] = 0
      /\ refs' = [refs EXCEPT ![Current] = @ - 1, ![n] = 1]
      /\ table' = [table EXCEPT ![call.ctx][call.lvid] = n]
      /\ meta' = [meta EXCEPT ![n] = [FreshMeta EXCEPT !.tier = "L2"]]
      /\ call' = [At("clone") EXCEPT !.src = Current]
      /\ live' = live /\ handles' = handles
  BY DEF CowRemap, InStage, MustCopy, FreeBlocks
<1>4. batch.write
  BY <1>2, <1>3 DEF ItemRuns
<1>5. PICK c \in Ctx, l \in Lvid : c = call.ctx /\ l = call.lvid
  BY <1>2
<1>6. /\ \A d \in Ctx, k \in Lvid : d # c \/ k # l => table'[d][k] = table[d][k]
      /\ table'[c][l] = n /\ table[c][l] = Current
  <2>1. table \in [Ctx -> [Lvid -> Block \cup {Nil}]]
    BY DEF Consistent, TypeOK
  <2>2. table' = [table EXCEPT ![c][l] = n]
    BY <1>3, <1>5
  <2>3. table[c][l] = Current
    BY <1>5 DEF Current
  <2> QED BY <2>1, <2>2, <2>3
<1>7. /\ refs'[n] = 1
      /\ \A b \in Block \ {n, Current} : refs'[b] = refs[b] /\ meta'[b] = meta[b]
  BY <1>2, <1>3 DEF Consistent, TypeOK
<1>8. ASSUME NEW h \in Handle, Kept(h) PROVE Kept(h)'
  <2>1. PICK b \in Block, d \in Ctx, k \in Lvid :
           b = handles[h].block /\ d = handles[h].ctx /\ k = handles[h].lvid
    BY <1>8, KeptCanBeUnmapped
  <2>2. table[d][k] = b /\ refs[b] = 1 /\ meta[b].allocated
    BY <1>4, <1>8, <2>1 DEF Kept
  <2>3. b # Current /\ b # n
    BY <1>3, <2>2
  <2>4. d # c \/ k # l
    BY <1>6, <2>2, <2>3
  <2>5. table'[d][k] = table[d][k] /\ refs'[b] = 1 /\ meta'[b].allocated
    BY <1>6, <1>7, <2>2, <2>3, <2>4
  <2>6. /\ table'[handles[h].ctx][handles[h].lvid] = table[handles[h].ctx][handles[h].lvid]
        /\ refs'[handles[h].block] = 1 /\ meta'[handles[h].block].allocated
    BY <2>1, <2>5
  <2>7. live' = live /\ handles'[h] = handles[h] /\ batch'.write = batch.write
    BY <1>3
  <2> QED BY <1>8, <2>6, <2>7, KeptStays
<1>9. /\ call'.stage = "clone" /\ call'.op = call.op /\ call'.ctx = call.ctx
      /\ call'.lvid = call.lvid /\ call'.handle = call.handle /\ call'.write = call.write
  BY <1>3 DEF Consistent, TypeOK, At, Call
<1>10. Current' = n /\ ThisHandle' = ThisHandle
  BY <1>5, <1>6, <1>9 DEF Current, ThisHandle
<1>11. ItemRuns' /\ call'.stage # "idle"
  BY <1>2, <1>3, <1>4, <1>7, <1>9, <1>10 DEF ItemRuns
<1> QED BY <1>2, <1>3, <1>8, <1>11, MapGoesOn

\* The mapping that a map call opens is kept.
LEMMA ItemPinned ==
    ASSUME Consistent, BatchInv, NEW p \in Page, Pin(p), batch.op # "none", batch' = batch
    PROVE  BatchInv'
<1>1. CallStep
  BY DEF CallStep
<1>2. call.stage = "pin" /\ p \in L1PageFor(Current)
  BY DEF Pin, InStage
<1>3. /\ batch.op = "map" /\ batch.stage = "run" /\ batch.issued /\ ItemRuns
      /\ call.ctx \in Ctx /\ call.lvid \in Lvid /\ Current \in Block
      /\ refs[Current] > 0 /\ meta[Current].allocated
  BY <1>1, <1>2, ItemsCall, AccessFacts
<1>4. ThisHandle \in Handle /\ batch.ctx \in live
  BY <1>3, MapFacts
<1>5. PICK g \in Handle, b \in Block, c \in Ctx, l \in Lvid :
         g = ThisHandle /\ b = Current /\ c = call.ctx /\ l = call.lvid
  BY <1>3, <1>4
<1>6. call.handle = g /\ c = batch.ctx
  BY <1>3, <1>5 DEF ItemRuns
<1>7. call.write \in BOOLEAN
  BY DEF Consistent, TypeOK, Call
<1>8. PICK m \in Mapping :
         /\ m = [ctx |-> c, lvid |-> l, block |-> b, page |-> p, write |-> call.write]
         /\ m.ctx = c /\ m.lvid = l /\ m.block = b
  <2>1. [ctx |-> c, lvid |-> l, block |-> b, page |-> p, write |-> call.write] \in Mapping
    BY <1>7 DEF Mapping
  <2> QED BY <2>1
<1>9. /\ handles' = [handles EXCEPT ![g] = m] /\ UNCHANGED <<refs, names>>
      /\ call' = Idle
  BY <1>5, <1>6, <1>8 DEF Pin
<1>10. handles'[g] = m /\ \A h \in Handle \ {g} : handles'[h] = handles[h]
  BY <1>9 DEF Consistent, TypeOK
<1>11. refs' = refs /\ live' = live /\ table' = table
  BY <1>9 DEF names
<1>12. \A a \in Block : refs[a] > 0 /\ meta[a].allocated => meta'[a].allocated
  BY <1>2, StagesKeepBlocks DEF QuietStep
<1>13. \A h \in Handle \ {g} : Kept(h) => Kept(h)'
  BY <1>9, <1>10, <1>12, KeptThroughQuiet
<1>14. Kept(g)'
  <2>1. m # Nil
    BY NilIsNothing
  <2>2. table[c][l] = b /\ refs[b] > 0 /\ meta'[b].allocated
    BY <1>3, <1>5, <1>12 DEF Current
  <2>3. batch.write => refs[b] = 1
    BY <1>2, <1>3, <1>5 DEF ItemRuns
  <2> QED BY <1>4, <1>6, <1>8, <1>10, <1>11, <2>1, <2>2, <2>3 DEF Kept
<1>15. ThisHandle' = g /\ call'.stage = "idle"
  BY <1>5, <1>9 DEF ThisHandle, Idle
<1>16. Kept(ThisHandle)'
  BY <1>14, <1>15
<1> QED BY <1>3, <1>5, <1>10, <1>11, <1>13, <1>15, <1>16, MapGoesOn

\* A call that goes on while a batch holds the mutex
LEMMA BatchCallStep ==
    ASSUME Consistent, BatchInv, CallStep, batch' = batch
    PROVE  BatchInv'
<1>1. CASE batch.op = "none"
  BY <1>1 DEF BatchInv, Formed, BatchTypeOK, MapHolds, UnmapHolds, ResolveHolds
<1>2. CASE batch.op # "none"
  <2>1. call.stage \in {"reclaim", "prepare", "clone", "ensure", "pin"} /\ call.op = "map"
    BY <1>2, ItemsCall DEF ItemRuns
  <2>2. /\ ~(\E b \in Block : GrowTable(b)) /\ ~GrowFails
        /\ ~RegisterInL1 /\ ~RegisterInL2
    BY <2>1 DEF GrowTable, GrowFails, RegisterInL1, RegisterInL2, Registering, InStage
  <2>3. CASE \E n \in Block : CowRemap(n)
    BY <1>2, <2>3, ItemCowRemap
  <2>4. CASE \E p \in Page : Pin(p)
    BY <1>2, <2>4, ItemPinned
  <2>5. CASE \/ Reclaim \/ WriteInPlace \/ CowFails \/ CloneBlockData \/ CloneFails
             \/ AlreadyResident \/ EvictFails \/ PromoteFails \/ PinFails
             \/ \E v \in Block : EvictVictim(v)
             \/ \E p \in Page : Promote(p)
    <3>1. Reclaim \/ QuietStep
      BY <2>5 DEF QuietStep
    <3>2. handles' = handles
      BY <2>5 DEF Reclaim, WriteInPlace, CowFails, CloneBlockData, CloneFails,
                  AlreadyResident, EvictFails, PromoteFails, PinFails, EvictVictim, Promote
    <3> QED BY <1>2, <3>1, <3>2, ItemStageQuiet
  <2> QED BY <2>2, <2>3, <2>4, <2>5 DEF CallStep
<1> QED BY <1>1, <1>2

-----------------------------------------------------------------------------
(* Every step *)

\* No batch is in progress: the host's calls and its writes are its own.
LEMMA NoBatchStays ==
    ASSUME BatchInv, batch' = batch, batch.op = "none"
    PROVE  BatchInv'
BY DEF BatchInv, Formed, BatchTypeOK, MapHolds, UnmapHolds, ResolveHolds

\* The invariant is about the names, the counts, the metadata, the mappings and the call.
LEMMA FrameBatch ==
    ASSUME BatchInv, batch' = batch, refs' = refs, live' = live, table' = table,
           meta' = meta, handles' = handles, call' = call
    PROVE  BatchInv'
<1>1. Formed'
  BY DEF BatchInv, Formed, BatchTypeOK
<1>2. \A h : Kept(h)' <=> Kept(h)
  BY DEF Kept
<1>3. ItemRuns' <=> ItemRuns
  BY DEF ItemRuns, ThisHandle, Current
<1>4. \A h : CanUnmap(h)' <=> CanUnmap(h)
  BY DEF CanUnmap, Resolves
<1>5. \A b : (Unwritten(b)' <=> Unwritten(b)) /\ (StillToWrite(b)' <=> StillToWrite(b))
  BY DEF Unwritten, StillToWrite, Items
<1>6. MapHolds'
  BY <1>2, <1>3 DEF BatchInv, MapHolds, Items, ThisHandle
<1>7. UnmapHolds'
  BY <1>4, <1>5 DEF BatchInv, UnmapHolds, Items
<1>8. ResolveHolds'
  BY DEF BatchInv, ResolveHolds, Items
<1> QED BY <1>1, <1>6, <1>7, <1>8 DEF BatchInv

\* A write of the host changes nothing a batch goes by.
LEMMA BatchHostWrite ==
    ASSUME Consistent, BatchInv, NEW h \in Handle, NEW v \in Value, HostWrite(h, v),
           batch' = batch
    PROVE  BatchInv'
<1>1. /\ UNCHANGED <<refs, names, blocks, handles, call>>
  BY DEF HostWrite
<1>2. /\ refs' = refs /\ live' = live /\ table' = table /\ meta' = meta
      /\ handles' = handles /\ call' = call
  BY <1>1 DEF names, blocks
<1> QED BY <1>2, FrameBatch

\* In each step of a batch the runtime makes a step of its own, or none.
LEMMA BatchNextIsNext ==
    ASSUME Consistent, BatchInv, [BatchNext]_batchVars
    PROVE  [Next]_vars
<1>1. CASE MayCall /\ HostCall /\ UNCHANGED batch
  BY <1>1 DEF Next
<1>2. CASE CallStep /\ UNCHANGED batch
  BY <1>2 DEF Next
<1>3. CASE \E h \in Handle \ Given, v \in Value : HostWrite(h, v) /\ UNCHANGED batch
  BY <1>3 DEF Next, HostStep
<1>4. CASE BatchCall
  BY <1>4 DEF BatchCall, MapLogicalBlocks, UnmapLogicalBlocks, ResolveRoutingBatch, Begins
<1>5. CASE MapItem
  <2>1. /\ batch.op = "map" /\ batch.stage = "run"
        /\ MapLogicalBlock(batch.ctx, ThisLvid, batch.write, ThisHandle)
    BY <1>5 DEF MapItem, InBatch
  <2>2. /\ batch.ctx \in Ctx /\ ThisLvid \in Lvid /\ ThisHandle \in Handle
        /\ batch \in BatchRecord
    BY <2>1, MapFacts
  <2>3. batch.write \in BOOLEAN
    BY <2>2 DEF BatchRecord
  <2> QED BY <2>1, <2>2, <2>3 DEF Next, HostCall
<1>6. CASE UnmapItem
  <2>1. UnmapLogicalBlock(ThisHandle) /\ batch.op \in {"unmap", "map"}
        /\ (batch.op = "map" => batch.stage = "undo")
    BY <1>6 DEF UnmapItem, Unmapping, InBatch
  <2>2. Items \subseteq DOMAIN batch.handles
    BY <2>1 DEF BatchInv, UnmapHolds, MapHolds
  <2>3. ThisHandle \in Handle
    BY <2>1, <2>2, ThisItem DEF BatchInv
  <2> QED BY <2>1, <2>3 DEF Next, HostCall
<1>7. CASE ItemMapped \/ ItemFailed \/ UnmapItemRefused \/ ResolveItem \/ ResolveItemFails
           \/ Return
  BY <1>7 DEF ItemMapped, ItemFailed, UnmapItemRefused, ResolveItem, ResolveItemFails, Return
<1>8. CASE UNCHANGED batchVars
  BY <1>8 DEF batchVars
<1> QED BY <1>1, <1>2, <1>3, <1>4, <1>5, <1>6, <1>7, <1>8 DEF BatchNext, BatchStep

\* Every step of a batch and of the host around it keeps the invariant.
LEMMA NextBatchInv ==
    ASSUME Consistent, BatchInv, [BatchNext]_batchVars
    PROVE  BatchInv'
<1>1. CASE MayCall /\ HostCall /\ UNCHANGED batch
  BY <1>1, NoBatchStays DEF MayCall
<1>2. CASE CallStep /\ UNCHANGED batch
  BY <1>2, BatchCallStep
<1>3. CASE \E h \in Handle \ Given, v \in Value : HostWrite(h, v) /\ UNCHANGED batch
  BY <1>3, BatchHostWrite
<1>4. CASE \E c \in live, lvids \in UpTo(Lvid) \ {<<>>}, hs \in UpTo(Handle) :
              \E write \in BOOLEAN : MapLogicalBlocks(c, lvids, write, hs)
  BY <1>4, MapLogicalBlocksStep
<1>5. CASE \E c \in live, hs \in UpTo(Handle) : UnmapLogicalBlocks(c, hs)
  BY <1>5, UnmapLogicalBlocksStep
<1>6. CASE \E c \in live, lvids \in UpTo(Lvid) : ResolveRoutingBatch(c, lvids)
  BY <1>6, ResolveRoutingBatchStep
<1>7. CASE MapItem \/ ItemMapped \/ ItemFailed
  BY <1>7, MapItemStep, ItemMappedStep, ItemFailedStep
<1>8. CASE UnmapItem \/ UnmapItemRefused
  <2>1. batch.op \in {"unmap", "map"}
    BY <1>8 DEF UnmapItem, UnmapItemRefused, Unmapping, InBatch
  <2> QED BY <1>8, <2>1, UnmapItemStep, UnmapItemRefusedStep, UndoItemStep, UndoIsNotRefused
<1>9. CASE ResolveItem \/ ResolveItemFails
  BY <1>9, ResolveItemStep, ResolveItemFailsStep
<1>10. CASE Return
  BY <1>10, NoBatchIsFormed DEF Return
<1>11. CASE UNCHANGED batchVars
  BY <1>11, FrameBatch DEF batchVars, vars
<1> QED BY <1>1, <1>2, <1>3, <1>4, <1>5, <1>6, <1>7, <1>8, <1>9, <1>10, <1>11
        DEF BatchNext, BatchCall, BatchStep

\* Nothing is in progress at the start.
LEMMA InitBatchInv == BatchInit => BatchInv
<1> SUFFICES ASSUME BatchInit PROVE BatchInv
  OBVIOUS
<1>1. <<>> \in UpTo(Lvid) /\ <<>> \in UpTo(Handle) /\ <<>> \in UpTo(Block \cup {Nil})
  BY EmptyUpTo
<1>2. batch = NoBatch /\ 0 \in 0 .. MaxBatch
  BY MaxBatchAssumption DEF BatchInit
<1>3. batch.op = "none"
  BY <1>2 DEF NoBatch
<1>4. BatchTypeOK
  BY <1>1, <1>2 DEF BatchTypeOK, NoBatch
<1> QED BY <1>3, <1>4 DEF BatchInv, Formed, MapHolds, UnmapHolds, ResolveHolds

\* The invariant of the batches holds along with that of the runtime.
LEMMA AlwaysBatchInv == BatchSpec => [](Consistent /\ BatchInv)
<1>1. BatchInit => Consistent /\ BatchInv
  BY InitConsistent, InitBatchInv DEF BatchInit
<1>2. Consistent /\ BatchInv /\ [BatchNext]_batchVars => Consistent' /\ BatchInv'
  BY BatchNextIsNext, NextBatchInv, NextConsistent
<1> QED BY <1>1, <1>2, PTL DEF BatchSpec

-----------------------------------------------------------------------------
(* The theorems *)

\* Batch calls do nothing to the runtime that a host could not do with single calls:
\* whatever is proved of every host of the runtime holds with batches too.
THEOREM BatchesAreCalls == BatchSpec => Spec
<1>1. BatchInit => Init
  BY DEF BatchInit
<1>2. Consistent /\ BatchInv /\ [BatchNext]_batchVars => [Next]_vars
  BY BatchNextIsNext
<1> QED BY <1>1, <1>2, AlwaysBatchInv, PTL DEF BatchSpec, Spec

\* mmu_map_logical_blocks opens all of its mappings or none, at whatever item and for
\* whatever reason it fails: the rollback discards the errors of its unmap calls, and
\* none of them is refused.
THEOREM BatchMapsAllOrNothing == BatchSpec => []BatchMapAllOrNothing
<1>1. BatchInv => BatchMapAllOrNothing
  BY DEF BatchInv, MapHolds, BatchMapAllOrNothing, Returning
<1> QED BY <1>1, AlwaysBatchInv, PTL

\* mmu_unmap_logical_blocks, given distinct open mappings of a context, closes what can
\* be closed and reports the rest, and a write-back that fails on the way is reported
\* at the end.
THEOREM BatchUnmapsCompletely == BatchSpec => []BatchUnmapComplete
<1>1. BatchInv => BatchUnmapComplete
  <2> SUFFICES ASSUME BatchInv, Returning("unmap")
               PROVE  /\ \A h \in Given : handles[h] # Nil => batch.failed /\ ~CanUnmap(h)
                      /\ ~batch.failed => \A b \in batch.written : ~Unwritten(b)
    BY DEF BatchUnmapComplete, Unwritten
  <2>1. batch.op = "unmap" /\ batch.stage = "return"
    BY DEF Returning
  <2>2. /\ DOMAIN batch.handles = Items
        /\ \A i \in Items : \/ handles[batch.handles[i]] = Nil
                            \/ batch.failed /\ ~CanUnmap(batch.handles[i])
        /\ ~batch.failed => \A b \in batch.written : Unwritten(b) => StillToWrite(b)
    BY <2>1 DEF BatchInv, UnmapHolds
  <2>3. \A b \in batch.written : ~StillToWrite(b)
    BY <2>1 DEF StillToWrite
  <2> QED BY <2>2, <2>3 DEF Given
<1> QED BY <1>1, AlwaysBatchInv, PTL

\* mmu_resolve_routing_batch, when it succeeds, reports routes that all hold at once.
THEOREM BatchResolvesASnapshot == BatchSpec => []BatchResolveIsSnapshot
<1>1. BatchInv => BatchResolveIsSnapshot
  BY DEF BatchInv, ResolveHolds, BatchResolveIsSnapshot, Returning
<1> QED BY <1>1, AlwaysBatchInv, PTL
=============================================================================
