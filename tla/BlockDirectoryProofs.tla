------------------------ MODULE BlockDirectoryProofs -------------------------
(***************************************************************************)
(* For every number of blocks and every host: the setters of the directory *)
(* leave it as MmuRuntime says it is, and the eviction scan over epochs    *)
(* ends at the block of least rank and at no other.                        *)
(***************************************************************************)
EXTENDS BlockDirectory, MmuRuntimeProofs

-----------------------------------------------------------------------------
(* The metadata of one block *)

\* MakeDefaultMeta and MakeFreshMeta
LEMMA NewAgree ==
    ASSUME NEW b \in Block
    PROVE  /\ MakeDefaultMeta \in BlockMeta /\ MakeDefaultMeta.last_access_epoch = 0
           /\ Agrees(b, MakeDefaultMeta, DefaultMeta, Nil)
           /\ FreshInL2 \in BlockMeta /\ FreshInL2.last_access_epoch = 0
           /\ Agrees(b, FreshInL2, [FreshMeta EXCEPT !.tier = "L2"], Nil)
           /\ Placed(b, MakeFreshMeta) \in BlockMeta
           /\ Agrees(b, Placed(b, MakeFreshMeta), [FreshMeta EXCEPT !.resident = TRUE], Nil)
<1>1. /\ MakeDefaultMeta \in BlockMeta /\ MakeDefaultMeta.last_access_epoch = 0
      /\ Agrees(b, MakeDefaultMeta, DefaultMeta, Nil)
  BY DEF MakeDefaultMeta, BlockMeta, Tier, Agrees, DefaultMeta
<1>2. /\ FreshInL2 \in BlockMeta /\ FreshInL2.last_access_epoch = 0
      /\ Agrees(b, FreshInL2, [FreshMeta EXCEPT !.tier = "L2"], Nil)
  BY DEF FreshInL2, MakeFreshMeta, MakeDefaultMeta, BlockMeta, Tier, Agrees, FreshMeta,
         DefaultMeta
<1>3. /\ Placed(b, MakeFreshMeta) \in BlockMeta
      /\ Agrees(b, Placed(b, MakeFreshMeta), [FreshMeta EXCEPT !.resident = TRUE], Nil)
  BY DEF Placed, MakeFreshMeta, MakeDefaultMeta, BlockMeta, Tier, Agrees, FreshMeta,
         DefaultMeta
<1> QED BY <1>1, <1>2, <1>3

\* TouchBlock changes nothing that MmuRuntime keeps.
LEMMA TouchedAgrees ==
    ASSUME NEW b \in Block, NEW d \in BlockMeta, NEW m, NEW data, Agrees(b, d, m, data),
           NEW e \in Nat
    PROVE  /\ [d EXCEPT !.last_access_epoch = e] \in BlockMeta
           /\ [d EXCEPT !.last_access_epoch = e].last_access_epoch = e
           /\ Agrees(b, [d EXCEPT !.last_access_epoch = e], m, data)
BY DEF BlockMeta, Agrees

\* The setters do to the metadata what the actions of MmuRuntime do to theirs: all
\* keep its type and the epoch.
SameTouch(d, c) == c \in BlockMeta /\ c.last_access_epoch = d.last_access_epoch

\* The last two in MmuRuntime's terms
WrittenBackIn(m) == [m EXCEPT !.dirty = FALSE, !.backed = TRUE]
EvictedIn(m) == [m EXCEPT !.resident = FALSE, !.tier = "L2", !.backed = TRUE]

\* set_tier
LEMMA TierAgrees ==
    ASSUME NEW b \in Block, NEW d \in BlockMeta, NEW m \in Meta, NEW data,
           Agrees(b, d, m, data)
    PROVE  /\ SameTouch(d, [d EXCEPT !.tier = "L1"])
           /\ Agrees(b, [d EXCEPT !.tier = "L1"], [m EXCEPT !.tier = "L1"], data)
BY DEF BlockMeta, Tier, Meta, Agrees, SameTouch

\* increment_pin_count and decrement_pin_count
LEMMA PinsAgree ==
    ASSUME NEW b \in Block, NEW d \in BlockMeta, NEW m \in Meta, NEW data,
           Agrees(b, d, m, data), NEW n \in Nat
    PROVE  /\ SameTouch(d, [d EXCEPT !.pin_count = n])
           /\ Agrees(b, [d EXCEPT !.pin_count = n], [m EXCEPT !.pins = n], data)
BY DEF BlockMeta, Tier, Meta, Agrees, SameTouch

\* set_dirty
LEMMA DirtyAgrees ==
    ASSUME NEW b \in Block, NEW d \in BlockMeta, NEW m \in Meta, NEW data,
           Agrees(b, d, m, data)
    PROVE  /\ SameTouch(d, [d EXCEPT !.dirty = TRUE])
           /\ Agrees(b, [d EXCEPT !.dirty = TRUE], [m EXCEPT !.dirty = TRUE], data)
BY DEF BlockMeta, Tier, Meta, Agrees, SameTouch

\* SyncL1ToL2
LEMMA SyncedAgrees ==
    ASSUME NEW b \in Block, NEW d \in BlockMeta, NEW m \in Meta, NEW data,
           Agrees(b, d, m, data), NEW page, page # Nil
    PROVE  /\ SameTouch(d, Synced(b, d))
           /\ Agrees(b, Synced(b, d), [m EXCEPT !.backed = TRUE], page)
BY DEF BlockMeta, Tier, Meta, Agrees, SameTouch, Synced

\* the write-back of mmu_unmap_logical_block
LEMMA WrittenBackAgrees ==
    ASSUME NEW b \in Block, NEW d \in BlockMeta, NEW m \in Meta, NEW data,
           Agrees(b, d, m, data), NEW page, page # Nil
    PROVE  SameTouch(d, WrittenBack(b, d)) /\ Agrees(b, WrittenBack(b, d), WrittenBackIn(m), page)
BY DEF BlockMeta, Tier, Meta, Agrees, SameTouch, WrittenBack, Synced, WrittenBackIn

\* MoveBlockToL2
LEMMA EvictedAgrees ==
    ASSUME NEW b \in Block, NEW d \in BlockMeta, NEW m \in Meta, NEW data,
           Agrees(b, d, m, data), NEW page, page # Nil
    PROVE  SameTouch(d, Evicted(b, d)) /\ Agrees(b, Evicted(b, d), EvictedIn(m), page)
BY DEF BlockMeta, Tier, Meta, Agrees, SameTouch, Evicted, Synced, EvictedIn

\* EnsureResidentInL1
LEMMA PlacedAgrees ==
    ASSUME NEW b \in Block, NEW d \in BlockMeta, NEW m \in Meta, NEW data,
           Agrees(b, d, m, data)
    PROVE  /\ SameTouch(d, Placed(b, d))
           /\ Agrees(b, Placed(b, d),
                     [m EXCEPT !.resident = TRUE, !.tier = "L1"], data)
BY DEF BlockMeta, Tier, Meta, Agrees, SameTouch, Placed

-----------------------------------------------------------------------------
(* Epochs and ranks *)

Epochs == [b \in Block |-> metas[b].last_access_epoch]

\* Two ways of dating the blocks put them in the same order.
SameOrder(r, s) ==
    \A a, b \in Block : /\ 0 < r[a] <=> 0 < s[a]
                        /\ r[a] <= r[b] <=> s[a] <= s[b]

\* Ranks only depend on the order,
LEMMA SameOrderSameRanks ==
    ASSUME NEW r \in [Block -> Nat], NEW s \in [Block -> Nat], SameOrder(r, s)
    PROVE  Ranks(r) = Ranks(s)
<1>1. ASSUME NEW b \in Block
      PROVE  {a \in Block : 0 < r[a] /\ r[a] <= r[b]}
                = {a \in Block : 0 < s[a] /\ s[a] <= s[b]}
  BY DEF SameOrder
<1> QED BY <1>1 DEF Ranks

\* and they are in that order.
LEMMA RanksKeepOrder ==
    ASSUME NEW r \in [Block -> Nat]
    PROVE  /\ SameOrder(r, Ranks(r))
           /\ \A b \in Block : Ranks(r)[b] < Cardinality(Block) + 1
<1> DEFINE Older(b) == {a \in Block : 0 < r[a] /\ r[a] <= r[b]}
<1>1. \A b \in Block : /\ Ranks(r)[b] = Cardinality(Older(b))
                       /\ IsFiniteSet(Older(b)) /\ Cardinality(Older(b)) \in Nat
  BY BlocksAreFinite DEF Ranks
<1>2. ASSUME NEW b \in Block
      PROVE  0 < r[b] <=> 0 < Cardinality(Older(b))
  <2>1. CASE 0 < r[b]
    <3>1. b \in Older(b)
      BY <2>1, SMT
    <3>2. Cardinality(Older(b)) # 0
      BY <1>1, <3>1, FS_EmptySet
    <3> QED BY <1>1, <2>1, <3>2, SMT
  <2>2. CASE ~(0 < r[b])
    <3>1. Older(b) = {}
      BY <2>2, SMT
    <3>2. Cardinality(Older(b)) = 0
      BY <3>1, FS_EmptySet
    <3> QED BY <2>2, <3>2, SMT
  <2> QED BY <2>1, <2>2
<1>3. ASSUME NEW a \in Block, NEW b \in Block, r[a] <= r[b]
      PROVE  Cardinality(Older(a)) <= Cardinality(Older(b))
  <2>1. Older(a) \subseteq Older(b)
    BY <1>3, SMT
  <2> QED BY <1>1, <2>1, FS_Subset
<1>4. ASSUME NEW a \in Block, NEW b \in Block, ~(r[a] <= r[b])
      PROVE  ~(Cardinality(Older(a)) <= Cardinality(Older(b)))
  <2>1. Older(b) \subseteq Older(a) /\ a \in Older(a) /\ a \notin Older(b)
    BY <1>4, SMT
  <2>2. /\ Cardinality(Older(b)) <= Cardinality(Older(a))
        /\ Cardinality(Older(b)) # Cardinality(Older(a))
    BY <1>1, <2>1, FS_Subset
  <2> QED BY <1>1, <2>2, SMT
<1>5. ASSUME NEW b \in Block
      PROVE  Cardinality(Older(b)) < Cardinality(Block) + 1
  <2>1. Older(b) \subseteq Block
    OBVIOUS
  <2>2. Cardinality(Older(b)) <= Cardinality(Block) /\ Cardinality(Block) \in Nat
    BY <2>1, FiniteAssumption, FS_Subset, FS_CardinalityType
  <2> QED BY <1>1, <2>2, SMT
<1> HIDE DEF Older
<1> QED BY <1>1, <1>2, <1>3, <1>4, <1>5 DEF SameOrder

\* Touching a block makes it the latest in both orders.
LEMMA TouchKeepsOrder ==
    ASSUME NEW r \in [Block -> Nat], NEW s \in [Block -> Nat], SameOrder(r, s),
           NEW b \in Block, NEW n \in Nat, NEW m \in Nat,
           \A a \in Block : r[a] < n /\ s[a] < m
    PROVE  SameOrder([r EXCEPT ![b] = n], [s EXCEPT ![b] = m])
BY SMT DEF SameOrder

\* Forgetting blocks makes them the earliest in both.
LEMMA ForgetKeepsOrder ==
    ASSUME NEW r \in [Block -> Nat], NEW s \in [Block -> Nat], SameOrder(r, s), NEW S
    PROVE  SameOrder([b \in Block |-> IF b \in S THEN 0 ELSE r[b]],
                     [b \in Block |-> IF b \in S THEN 0 ELSE s[b]])
BY SMT DEF SameOrder

\* MmuRuntime's ranks are those of the epochs; TouchBlock never draws an epoch twice;
\* and whatever brings a block to L1 touches it.
EpochsInOrder ==
    /\ recency = Ranks(Epochs)
    /\ \A b \in Block : /\ metas[b].last_access_epoch <= epoch
                        /\ metas[b].resident_in_l1 => 0 < metas[b].last_access_epoch
    /\ \A a, b \in Block : 0 < metas[a].last_access_epoch
                           /\ metas[a].last_access_epoch = metas[b].last_access_epoch
                              => a = b

\* The epochs are natural numbers.
LEMMA EpochsAreNatural ==
    ASSUME DirectoryTypeOK
    PROVE  /\ Epochs \in [Block -> Nat]
           /\ \A b \in Block : Epochs[b] = metas[b].last_access_epoch
BY DEF DirectoryTypeOK, BlockMeta, Epochs

\* TouchBlock keeps the order.
LEMMA TouchedInOrder ==
    ASSUME DirectoryTypeOK, EpochsInOrder,
           NEW b \in Block, NEW d \in BlockMeta, SetsAndTouches(b, d),
           recency' = Touched(b)
    PROVE  EpochsInOrder' /\ DirectoryTypeOK'
<1>1. /\ epoch \in Nat /\ epoch' = epoch + 1 /\ epoch' \in Nat
      /\ metas \in [Block -> BlockMeta]
      /\ metas' = [metas EXCEPT ![b] = [d EXCEPT !.last_access_epoch = epoch']]
  BY SMT DEF DirectoryTypeOK, SetsAndTouches, NextEpoch
<1>2. [d EXCEPT !.last_access_epoch = epoch'] \in BlockMeta
      /\ [d EXCEPT !.last_access_epoch = epoch'].last_access_epoch = epoch'
  BY <1>1 DEF BlockMeta
<1> DEFINE e == [d EXCEPT !.last_access_epoch = epoch']
<1> HIDE DEF e
<1>3. DirectoryTypeOK'
  BY <1>1, <1>2 DEF DirectoryTypeOK, e
<1>4. /\ metas'[b] = e /\ e.last_access_epoch = epoch'
      /\ \A a \in Block \ {b} : metas'[a] = metas[a]
  BY <1>1, <1>2 DEF e
<1>5. Epochs \in [Block -> Nat] /\ \A a \in Block : Epochs[a] = metas[a].last_access_epoch
  BY EpochsAreNatural
<1>6. Epochs' = [Epochs EXCEPT ![b] = epoch']
  BY <1>4 DEF Epochs
<1>7. recency' = Ranks(Epochs')
  <2> DEFINE r == Ranks(Epochs)
  <2>1. r \in [Block -> Nat] /\ SameOrder(Epochs, r)
        /\ \A a \in Block : r[a] < Cardinality(Block) + 1
    BY <1>5, RanksOfEpochs, RanksKeepOrder
  <2>2. Cardinality(Block) + 1 \in Nat
    BY FiniteAssumption, FS_CardinalityType, SMT
  <2>3. ASSUME NEW a \in Block PROVE Epochs[a] < epoch'
    <3>1. Epochs[a] <= epoch /\ Epochs[a] \in Nat
      BY <1>5 DEF EpochsInOrder
    <3> QED BY <1>1, <3>1
  <2>4. recency' = Ranks([r EXCEPT ![b] = Cardinality(Block) + 1])
    BY DEF Touched, EpochsInOrder
  <2> HIDE DEF r
  <2>5. SameOrder([Epochs EXCEPT ![b] = epoch'], [r EXCEPT ![b] = Cardinality(Block) + 1])
    BY <1>1, <1>5, <2>1, <2>2, <2>3, TouchKeepsOrder
  <2>6. /\ [Epochs EXCEPT ![b] = epoch'] \in [Block -> Nat]
        /\ [r EXCEPT ![b] = Cardinality(Block) + 1] \in [Block -> Nat]
    BY <1>1, <1>5, <2>1, <2>2
  <2> QED BY <1>6, <2>4, <2>5, <2>6, SameOrderSameRanks
<1>8. ASSUME NEW a \in Block
      PROVE  /\ metas'[a].last_access_epoch \in Nat
             /\ metas'[a].last_access_epoch <= epoch'
             /\ metas'[a].resident_in_l1 => 0 < metas'[a].last_access_epoch
             /\ a # b => metas'[a].last_access_epoch < epoch'
  <2>1. metas[a].last_access_epoch \in Nat
    BY <1>5
  <2>2. /\ metas[a].last_access_epoch <= epoch
        /\ metas[a].resident_in_l1 => 0 < metas[a].last_access_epoch
    BY DEF EpochsInOrder
  <2>3. CASE a = b
    BY <1>1, <1>4, <2>3
  <2>4. CASE a # b
    <3>1. metas'[a] = metas[a]
      BY <1>4, <2>4
    <3> QED BY <1>1, <2>1, <2>2, <2>4, <3>1
  <2> QED BY <2>3, <2>4
<1>9. ASSUME NEW a \in Block, NEW c \in Block, 0 < metas'[a].last_access_epoch,
             metas'[a].last_access_epoch = metas'[c].last_access_epoch
      PROVE  a = c
  <2>1. CASE a # b /\ c # b
    BY <1>4, <1>9, <2>1 DEF EpochsInOrder
  <2>2. CASE a = b \/ c = b
    BY <1>1, <1>4, <1>8, <1>9, <2>2, SMT
  <2> QED BY <2>1, <2>2
<1> QED BY <1>3, <1>7, <1>8, <1>9 DEF EpochsInOrder

\* Setters that leave the epochs alone, or set those of some blocks to zero, keep it.
LEMMA UntouchedInOrder ==
    ASSUME DirectoryTypeOK, EpochsInOrder, NEW S \in SUBSET Block,
           epoch' = epoch, metas' \in [Block -> BlockMeta],
           \A b \in Block : metas'[b].last_access_epoch
                               = IF b \in S THEN 0 ELSE metas[b].last_access_epoch,
           \A b \in Block : metas'[b].resident_in_l1
                               => b \notin S /\ metas[b].resident_in_l1,
           recency' = Forgotten(S) \/ (S = {} /\ recency' = recency)
    PROVE  EpochsInOrder'
<1>1. Epochs \in [Block -> Nat] /\ \A a \in Block : Epochs[a] = metas[a].last_access_epoch
  BY EpochsAreNatural
<1>2. Epochs' = [b \in Block |-> IF b \in S THEN 0 ELSE Epochs[b]]
  BY <1>1 DEF Epochs
<1>3. recency' = Ranks(Epochs')
  <2>1. CASE recency' = Forgotten(S)
    <3> DEFINE r == Ranks(Epochs)
    <3>1. r \in [Block -> Nat] /\ SameOrder(Epochs, r)
      BY <1>1, RanksOfEpochs, RanksKeepOrder
    <3>2. recency' = Ranks([b \in Block |-> IF b \in S THEN 0 ELSE r[b]])
      BY <2>1 DEF Forgotten, EpochsInOrder
    <3> HIDE DEF r
    <3>3. SameOrder(Epochs', [b \in Block |-> IF b \in S THEN 0 ELSE r[b]])
      BY <1>1, <1>2, <3>1, ForgetKeepsOrder
    <3>4. /\ Epochs' \in [Block -> Nat]
          /\ [b \in Block |-> IF b \in S THEN 0 ELSE r[b]] \in [Block -> Nat]
      BY <1>1, <1>2, <3>1
    <3> QED BY <3>2, <3>3, <3>4, SameOrderSameRanks
  <2>2. CASE S = {} /\ recency' = recency
    BY <1>1, <1>2, <2>2 DEF EpochsInOrder
  <2> QED BY <2>1, <2>2
<1>4. \A b \in Block : metas[b].last_access_epoch \in Nat
  BY <1>1
<1>5. epoch \in Nat
  BY DEF DirectoryTypeOK
<1>6. ASSUME NEW b \in Block
      PROVE  /\ metas'[b].last_access_epoch <= epoch'
             /\ metas'[b].resident_in_l1 => 0 < metas'[b].last_access_epoch
  BY <1>4, <1>5, SMT DEF EpochsInOrder
<1>7. ASSUME NEW a \in Block, NEW c \in Block, 0 < metas'[a].last_access_epoch,
             metas'[a].last_access_epoch = metas'[c].last_access_epoch
      PROVE  a = c
  BY <1>4, <1>7, SMT DEF EpochsInOrder
<1> QED BY <1>3, <1>6, <1>7 DEF EpochsInOrder

-----------------------------------------------------------------------------
(* What the setters of a step do to the whole directory *)

\* The inductive invariant, over Consistent
Mirrored == DirectoryTypeOK /\ DirectoryExact /\ EpochsInOrder

\* MmuRuntime gives block b the metadata m, and changes the L2 page of no other block.
OneChanges(b, m) ==
    /\ meta' = [meta EXCEPT ![b] = m]
    /\ \A a \in Block \ {b} : l2'[a] = l2[a]

\* Metadata that agrees for the block that changes leaves the directory exact.
LEMMA OneChangesExactly ==
    ASSUME Mirrored, TypeOK, NEW b \in Block, NEW c, NEW m,
           metas' = [metas EXCEPT ![b] = c], OneChanges(b, m), Agrees(b, c, m, l2'[b])
    PROVE  DirectoryExact'
<1>1. metas'[b] = c /\ meta'[b] = m
  BY DEF Mirrored, DirectoryTypeOK, TypeOK, OneChanges
<1>2. \A a \in Block \ {b} : metas'[a] = metas[a] /\ meta'[a] = meta[a] /\ l2'[a] = l2[a]
  BY DEF Mirrored, DirectoryTypeOK, TypeOK, OneChanges
<1>3. Agrees(b, metas'[b], meta'[b], l2'[b])
  BY <1>1
<1>4. ASSUME NEW a \in Block \ {b} PROVE Agrees(a, metas'[a], meta'[a], l2'[a])
  BY <1>2 DEF Mirrored, DirectoryExact
<1> QED BY <1>3, <1>4 DEF DirectoryExact

\* Setters, and TouchBlock
LEMMA TouchMirrored ==
    ASSUME Mirrored, TypeOK, NEW b \in Block, NEW c \in BlockMeta, NEW m,
           SetsAndTouches(b, c), OneChanges(b, m), Agrees(b, c, m, l2'[b]),
           recency' = Touched(b)
    PROVE  Mirrored'
<1>1. epoch' \in Nat /\ metas' = [metas EXCEPT ![b] = [c EXCEPT !.last_access_epoch = epoch']]
  BY DEF SetsAndTouches, NextEpoch, Mirrored, DirectoryTypeOK
<1>2. Agrees(b, [c EXCEPT !.last_access_epoch = epoch'], m, l2'[b])
  BY <1>1, TouchedAgrees
<1>3. DirectoryExact'
  BY <1>1, <1>2, OneChangesExactly
<1>4. EpochsInOrder' /\ DirectoryTypeOK'
  BY TouchedInOrder DEF Mirrored
<1> QED BY <1>3, <1>4 DEF Mirrored

\* Setters alone, which keep the epoch and bring nothing to L1
LEMMA SetMirrored ==
    ASSUME Mirrored, TypeOK, NEW b \in Block, NEW c, NEW m,
           Sets(b, c), SameTouch(metas[b], c),
           c.resident_in_l1 => metas[b].resident_in_l1,
           OneChanges(b, m), Agrees(b, c, m, l2'[b]), recency' = recency
    PROVE  Mirrored'
<1>1. /\ metas' = [metas EXCEPT ![b] = c] /\ epoch' = epoch
      /\ metas \in [Block -> BlockMeta] /\ c \in BlockMeta
      /\ c.last_access_epoch = metas[b].last_access_epoch
  BY DEF Sets, SameTouch, Mirrored, DirectoryTypeOK
<1>2. metas' \in [Block -> BlockMeta] /\ metas'[b] = c
      /\ \A a \in Block \ {b} : metas'[a] = metas[a]
  BY <1>1
<1>3. \A a \in Block :
         /\ metas'[a].last_access_epoch = IF a \in {} THEN 0 ELSE metas[a].last_access_epoch
         /\ metas'[a].resident_in_l1 => a \notin {} /\ metas[a].resident_in_l1
  BY <1>1, <1>2
<1>4. DirectoryTypeOK /\ EpochsInOrder /\ {} \in SUBSET Block
  BY DEF Mirrored
<1>5. EpochsInOrder'
  BY <1>1, <1>2, <1>3, <1>4, UntouchedInOrder
<1>6. DirectoryExact'
  BY <1>1, OneChangesExactly
<1> QED BY <1>1, <1>2, <1>5, <1>6 DEF Mirrored, DirectoryTypeOK

\* A block that is fresh in L2 (initialize_fresh_block and set_tier)
LEMMA FreshMirrored ==
    ASSUME Mirrored, TypeOK, NEW b \in Block, Sets(b, FreshInL2), l2'[b] = Nil,
           OneChanges(b, [FreshMeta EXCEPT !.tier = "L2"]), recency' = Forgotten({b})
    PROVE  Mirrored'
<1>1. /\ metas' = [metas EXCEPT ![b] = FreshInL2] /\ epoch' = epoch
      /\ metas \in [Block -> BlockMeta]
  BY DEF Sets, Mirrored, DirectoryTypeOK
<1>2. /\ FreshInL2 \in BlockMeta /\ FreshInL2.last_access_epoch = 0
      /\ Agrees(b, FreshInL2, [FreshMeta EXCEPT !.tier = "L2"], Nil)
  BY NewAgree
<1>3. ~FreshInL2.resident_in_l1
  BY DEF FreshInL2, MakeFreshMeta, MakeDefaultMeta
<1>4. metas' \in [Block -> BlockMeta] /\ metas'[b] = FreshInL2
      /\ \A a \in Block \ {b} : metas'[a] = metas[a]
  BY <1>1, <1>2
<1>5. \A a \in Block :
         /\ metas'[a].last_access_epoch = IF a \in {b} THEN 0 ELSE metas[a].last_access_epoch
         /\ metas'[a].resident_in_l1 => a \notin {b} /\ metas[a].resident_in_l1
  BY <1>2, <1>3, <1>4
<1>6. EpochsInOrder'
  BY <1>1, <1>4, <1>5, UntouchedInOrder DEF Mirrored
<1>7. DirectoryExact'
  BY <1>1, <1>2, OneChangesExactly
<1> QED BY <1>1, <1>4, <1>6, <1>7 DEF Mirrored, DirectoryTypeOK

\* BlockDirectory::reset with the rest of ResetBlockData
LEMMA ResetsMirrored ==
    ASSUME Mirrored, TypeOK, NEW S \in SUBSET Block, Resets(S), Scrub(S)
    PROVE  Mirrored'
<1>1. /\ metas' = [b \in Block |-> IF b \in S THEN MakeDefaultMeta ELSE metas[b]]
      /\ epoch' = epoch /\ metas \in [Block -> BlockMeta]
  BY DEF Resets, Mirrored, DirectoryTypeOK
<1>2. /\ meta' = [b \in Block |-> IF b \in S THEN DefaultMeta ELSE meta[b]]
      /\ l2' = [b \in Block |-> IF b \in S THEN Nil ELSE l2[b]]
      /\ recency' = Forgotten(S)
  BY DEF Scrub
<1>3. \A b \in Block : /\ MakeDefaultMeta \in BlockMeta
                       /\ MakeDefaultMeta.last_access_epoch = 0
                       /\ Agrees(b, MakeDefaultMeta, DefaultMeta, Nil)
  BY NewAgree
<1>4. ~MakeDefaultMeta.resident_in_l1
  BY DEF MakeDefaultMeta
<1>5. metas' \in [Block -> BlockMeta]
  BY <1>1, <1>3
<1>6. \A a \in Block :
         /\ metas'[a].last_access_epoch = IF a \in S THEN 0 ELSE metas[a].last_access_epoch
         /\ metas'[a].resident_in_l1 => a \notin S /\ metas[a].resident_in_l1
  BY <1>1, <1>3, <1>4
<1>7. EpochsInOrder'
  BY <1>1, <1>2, <1>5, <1>6, UntouchedInOrder DEF Mirrored
<1>8. ASSUME NEW b \in Block PROVE Agrees(b, metas'[b], meta'[b], l2'[b])
  <2>1. CASE b \in S
    BY <1>1, <1>2, <1>3, <2>1
  <2>2. CASE b \notin S
    BY <1>1, <1>2, <2>2 DEF Mirrored, DirectoryExact
  <2> QED BY <2>1, <2>2
<1> QED BY <1>1, <1>5, <1>7, <1>8 DEF Mirrored, DirectoryTypeOK, DirectoryExact

\* No setter at all
LEMMA LeavesMirrored ==
    ASSUME Mirrored, Leaves, meta' = meta, l2' = l2, recency' = recency
    PROVE  Mirrored'
<1>1. metas' = metas /\ epoch' = epoch /\ Epochs' = Epochs
  BY DEF Leaves, Epochs
<1>2. Ranks(Epochs)' = Ranks(Epochs)
  BY <1>1 DEF Ranks
<1>3. EpochsInOrder'
  BY <1>1, <1>2 DEF Mirrored, EpochsInOrder
<1>4. DirectoryExact'
  BY <1>1 DEF Mirrored, DirectoryExact
<1> QED BY <1>1, <1>3, <1>4 DEF Mirrored, DirectoryTypeOK

-----------------------------------------------------------------------------
(* The calls of MmuRuntime, with their setters *)

\* What the two modules know of one block
LEMMA BlockIsMirrored ==
    ASSUME Mirrored, TypeOK, NEW b \in Block
    PROVE  /\ metas[b] \in BlockMeta /\ meta[b] \in Meta
           /\ Agrees(b, metas[b], meta[b], l2[b])
           /\ metas[b].resident_in_l1 = meta[b].resident
           /\ metas[b].pin_count = meta[b].pins /\ meta[b].pins \in Nat
BY DEF Mirrored, DirectoryTypeOK, TypeOK, DirectoryExact, Agrees, Meta

\* RegisterInL1 keeps the directory exact.
LEMMA RegisterInL1Mirrored ==
    ASSUME Mirrored, Consistent, RegisterInL1,
           SetsAndTouches(Current, Placed(Current, MakeFreshMeta))
    PROVE  Mirrored'
<1>1. TypeOK
  BY DEF Consistent
<1>2. /\ Current \in Block /\ l2' = l2 /\ l2[Current] = Nil
  BY RegisteringFacts DEF RegisterInL1, Clean
<1>3. PICK b \in Block : b = Current
  BY <1>2
<1>4. /\ SetsAndTouches(b, Placed(b, MakeFreshMeta))
      /\ OneChanges(b, [FreshMeta EXCEPT !.resident = TRUE])
      /\ recency' = Touched(b) /\ l2'[b] = Nil
  BY <1>2, <1>3 DEF RegisterInL1, OneChanges
<1>5. /\ Placed(b, MakeFreshMeta) \in BlockMeta
      /\ Agrees(b, Placed(b, MakeFreshMeta), [FreshMeta EXCEPT !.resident = TRUE], l2'[b])
  BY <1>4, NewAgree
<1> QED BY <1>1, <1>4, <1>5, TouchMirrored

\* RegisterInL2 keeps the directory exact.
LEMMA RegisterInL2Mirrored ==
    ASSUME Mirrored, Consistent, RegisterInL2, Sets(Current, FreshInL2)
    PROVE  Mirrored'
<1>1. TypeOK
  BY DEF Consistent
<1>2. /\ Current \in Block /\ l2' = l2 /\ l2[Current] = Nil
  BY RegisteringFacts DEF RegisterInL2, Clean
<1>3. PICK b \in Block : b = Current
  BY <1>2
<1>4. /\ Sets(b, FreshInL2) /\ OneChanges(b, [FreshMeta EXCEPT !.tier = "L2"])
      /\ recency' = Forgotten({b}) /\ l2'[b] = Nil
  BY <1>2, <1>3 DEF RegisterInL2, OneChanges
<1> QED BY <1>1, <1>4, FreshMirrored

\* CowRemap keeps the directory exact.
LEMMA CowRemapMirrored ==
    ASSUME Mirrored, Consistent, NEW n \in Block, CowRemap(n), Sets(n, FreshInL2)
    PROVE  Mirrored'
<1>1. TypeOK
  BY DEF Consistent
<1>2. call.stage = "prepare" /\ n \in FreeBlocks /\ l2' = l2
  BY DEF CowRemap, InStage, pools
<1>3. l2[n] = Nil
  BY <1>2 DEF Consistent, FreeBlocksClean, Clean
<1>4. /\ OneChanges(n, [FreshMeta EXCEPT !.tier = "L2"])
      /\ recency' = Forgotten({n}) /\ l2'[n] = Nil
  BY <1>2, <1>3 DEF CowRemap, OneChanges
<1> QED BY <1>1, <1>4, FreshMirrored

\* CloneBlockData keeps the directory exact.
LEMMA CloneBlockDataMirrored ==
    ASSUME Mirrored, Consistent, CloneBlockData,
           Sets(Current, Synced(Current, metas[Current]))
    PROVE  Mirrored'
<1>1. TypeOK
  BY DEF Consistent
<1>2. call.stage = "clone"
  BY DEF CloneBlockData, InStage
<1>3. Current \in Block /\ call.src \in Block
  BY <1>2, AccessFacts DEF AccessConsistent
<1>4. CloneSource(call.src) \in Value /\ CloneSource(call.src) # Nil
  BY <1>1, <1>3, DataIsValue, NilAssumption
<1>5. PICK b \in Block : b = Current
  BY <1>3
<1>6. PICK page : page = CloneSource(call.src)
  OBVIOUS
<1>7. /\ l2' = [l2 EXCEPT ![b] = page] /\ page # Nil /\ recency' = recency
      /\ meta' = [meta EXCEPT ![b].backed = TRUE]
      /\ Sets(b, Synced(b, metas[b]))
  BY <1>4, <1>5, <1>6 DEF CloneBlockData
<1>8. meta' = [meta EXCEPT ![b] = [meta[b] EXCEPT !.backed = TRUE]]
  BY <1>7
<1>9. l2'[b] = page /\ OneChanges(b, [meta[b] EXCEPT !.backed = TRUE])
  BY <1>1, <1>7, <1>8 DEF TypeOK, OneChanges
<1>10. /\ metas[b] \in BlockMeta /\ meta[b] \in Meta
       /\ Agrees(b, metas[b], meta[b], l2[b]) /\ meta[b].pins \in Nat
  BY <1>1, BlockIsMirrored
<1>11. /\ SameTouch(metas[b], Synced(b, metas[b]))
       /\ Agrees(b, Synced(b, metas[b]), [meta[b] EXCEPT !.backed = TRUE], page)
  BY <1>7, <1>10, SyncedAgrees
<1>12. Synced(b, metas[b]).resident_in_l1 => metas[b].resident_in_l1
  BY <1>10 DEF Synced, BlockMeta
<1> QED BY <1>1, <1>7, <1>9, <1>11, <1>12, SetMirrored

\* AlreadyResident keeps the directory exact.
LEMMA AlreadyResidentMirrored ==
    ASSUME Mirrored, Consistent, AlreadyResident,
           SetsAndTouches(Current, [metas[Current] EXCEPT !.tier = "L1"])
    PROVE  Mirrored'
<1>1. TypeOK
  BY DEF Consistent
<1>2. call.stage = "ensure"
  BY DEF AlreadyResident, InStage
<1>3. Current \in Block
  BY <1>2, AccessFacts
<1>4. PICK b \in Block : b = Current
  BY <1>3
<1>5. /\ meta' = [meta EXCEPT ![b].tier = "L1"] /\ l2' = l2 /\ recency' = Touched(b)
      /\ SetsAndTouches(b, [metas[b] EXCEPT !.tier = "L1"])
  BY <1>4 DEF AlreadyResident, pools
<1>6. meta' = [meta EXCEPT ![b] = [meta[b] EXCEPT !.tier = "L1"]]
  BY <1>5
<1>7. l2'[b] = l2[b] /\ OneChanges(b, [meta[b] EXCEPT !.tier = "L1"])
  BY <1>5, <1>6 DEF OneChanges
<1>8. /\ metas[b] \in BlockMeta /\ meta[b] \in Meta
      /\ Agrees(b, metas[b], meta[b], l2[b]) /\ meta[b].pins \in Nat
  BY <1>1, BlockIsMirrored
<1>9. /\ SameTouch(metas[b], [metas[b] EXCEPT !.tier = "L1"])
      /\ Agrees(b, [metas[b] EXCEPT !.tier = "L1"], [meta[b] EXCEPT !.tier = "L1"], l2'[b])
  BY <1>7, <1>8, TierAgrees
<1> QED BY <1>1, <1>5, <1>7, <1>9, TouchMirrored DEF SameTouch

\* EvictVictim keeps the directory exact.
LEMMA EvictVictimMirrored ==
    ASSUME Mirrored, Consistent, NEW v \in Block, EvictVictim(v),
           Sets(v, Evicted(v, metas[v]))
    PROVE  Mirrored'
<1>1. PICK m : m = EvictedIn(meta[v])
  OBVIOUS
<1>2. TypeOK
  BY DEF Consistent
<1>3. L1Data(v) # Nil
  BY <1>2, DataIsValue, NilAssumption
<1>4. /\ l2' = [l2 EXCEPT ![v] = L1Data(v)] /\ recency' = recency
      /\ meta' = [meta EXCEPT ![v] = m]
  BY <1>1 DEF EvictVictim, EvictedIn
<1>5. l2'[v] = L1Data(v) /\ OneChanges(v, m)
  BY <1>2, <1>4 DEF TypeOK, OneChanges
<1>6. /\ metas[v] \in BlockMeta /\ meta[v] \in Meta
      /\ Agrees(v, metas[v], meta[v], l2[v]) /\ meta[v].pins \in Nat
  BY <1>2, BlockIsMirrored
<1>7. PICK page : page = L1Data(v) /\ page # Nil
  BY <1>3
<1>8. SameTouch(metas[v], Evicted(v, metas[v])) /\ Agrees(v, Evicted(v, metas[v]), m, page)
  BY <1>1, <1>6, <1>7, EvictedAgrees
<1>9. Evicted(v, metas[v]).resident_in_l1 => metas[v].resident_in_l1
  BY <1>6 DEF Evicted, Synced, BlockMeta
<1> QED BY <1>2, <1>4, <1>5, <1>7, <1>8, <1>9, SetMirrored

\* Promote keeps the directory exact.
LEMMA PromoteMirrored ==
    ASSUME Mirrored, Consistent, NEW p \in Page, Promote(p),
           SetsAndTouches(Current, Placed(Current, metas[Current]))
    PROVE  Mirrored'
<1>1. TypeOK
  BY DEF Consistent
<1>2. call.stage = "ensure"
  BY DEF Promote, InStage
<1>3. Current \in Block
  BY <1>2, AccessFacts
<1>4. PICK b \in Block : b = Current
  BY <1>3
<1>5. /\ meta' = [meta EXCEPT ![b].resident = TRUE, ![b].tier = "L1"]
      /\ l2' = l2 /\ recency' = Touched(b)
      /\ SetsAndTouches(b, Placed(b, metas[b]))
  BY <1>4 DEF Promote
<1>6. meta' = [meta EXCEPT ![b] = [meta[b] EXCEPT !.resident = TRUE, !.tier = "L1"]]
  BY <1>1, <1>5 DEF TypeOK
<1>7. l2'[b] = l2[b] /\ OneChanges(b, [meta[b] EXCEPT !.resident = TRUE, !.tier = "L1"])
  BY <1>5, <1>6 DEF OneChanges
<1>8. /\ metas[b] \in BlockMeta /\ meta[b] \in Meta
      /\ Agrees(b, metas[b], meta[b], l2[b]) /\ meta[b].pins \in Nat
  BY <1>1, BlockIsMirrored
<1>9. /\ SameTouch(metas[b], Placed(b, metas[b]))
      /\ Agrees(b, Placed(b, metas[b]), [meta[b] EXCEPT !.resident = TRUE, !.tier = "L1"],
                l2'[b])
  BY <1>7, <1>8, PlacedAgrees
<1> QED BY <1>1, <1>5, <1>7, <1>9, TouchMirrored DEF SameTouch

\* Pin keeps the directory exact.
LEMMA PinMirrored ==
    ASSUME Mirrored, Consistent, NEW p \in Page, Pin(p),
           SetsAndTouches(Current, [metas[Current] EXCEPT !.pin_count = @ + 1])
    PROVE  Mirrored'
<1>1. TypeOK
  BY DEF Consistent
<1>2. call.stage = "pin"
  BY DEF Pin, InStage
<1>3. Current \in Block
  BY <1>2, AccessFacts
<1>4. PICK b \in Block : b = Current
  BY <1>3
<1>5. /\ meta' = [meta EXCEPT ![b].pins = @ + 1] /\ l2' = l2 /\ recency' = Touched(b)
      /\ SetsAndTouches(b, [metas[b] EXCEPT !.pin_count = @ + 1])
  BY <1>4 DEF Pin
<1>6. /\ metas[b] \in BlockMeta /\ meta[b] \in Meta
      /\ Agrees(b, metas[b], meta[b], l2[b]) /\ meta[b].pins \in Nat
      /\ metas[b].pin_count = meta[b].pins
  BY <1>1, BlockIsMirrored
<1>7. PICK n \in Nat : n = meta[b].pins + 1
  BY <1>6
<1>8. /\ meta' = [meta EXCEPT ![b] = [meta[b] EXCEPT !.pins = n]]
      /\ SetsAndTouches(b, [metas[b] EXCEPT !.pin_count = n])
  BY <1>5, <1>6, <1>7
<1>9. l2'[b] = l2[b] /\ OneChanges(b, [meta[b] EXCEPT !.pins = n])
  BY <1>5, <1>8 DEF OneChanges
<1>10. /\ SameTouch(metas[b], [metas[b] EXCEPT !.pin_count = n])
       /\ Agrees(b, [metas[b] EXCEPT !.pin_count = n], [meta[b] EXCEPT !.pins = n], l2'[b])
  BY <1>6, <1>9, PinsAgree
<1> QED BY <1>1, <1>5, <1>8, <1>9, <1>10, TouchMirrored DEF SameTouch

\* The setters of mmu_unmap_logical_block follow each of its four outcomes.
LEMMA UnmapMirrored ==
    ASSUME Mirrored, Consistent, NEW b \in Block, NEW write \in BOOLEAN,
           Unmap(b, write), UnmapSets(b, write)
    PROVE  Mirrored'
<1>1. TypeOK
  BY DEF Consistent
<1>2. /\ metas[b] \in BlockMeta /\ meta[b] \in Meta
      /\ Agrees(b, metas[b], meta[b], l2[b]) /\ meta[b].pins \in Nat
      /\ metas[b].pin_count = meta[b].pins
      /\ metas[b].resident_in_l1 = meta[b].resident
  BY <1>1, BlockIsMirrored
<1>3. PICK n \in Nat : n = Less(meta[b].pins, 1)
  BY <1>2, LessIsNat
<1>4. PICK page : page = L1Data(b)
  OBVIOUS
<1>5. page # Nil
  BY <1>1, <1>4, DataIsValue, NilAssumption
\* the block without the pin, and dirty as well
<1>6. PICK c \in BlockMeta, m \in Meta :
         /\ c = UnpinnedMeta(b) /\ m = Unpinned(b)
         /\ SameTouch(metas[b], c) /\ Agrees(b, c, m, l2[b])
         /\ m.pins \in Nat /\ c.resident_in_l1 = metas[b].resident_in_l1
  <2>1. UnpinnedMeta(b) = [metas[b] EXCEPT !.pin_count = n]
    BY <1>2, <1>3 DEF UnpinnedMeta
  <2>2. Unpinned(b) = [meta[b] EXCEPT !.pins = n]
    BY <1>3 DEF Unpinned
  <2>3. /\ SameTouch(metas[b], UnpinnedMeta(b))
        /\ Agrees(b, UnpinnedMeta(b), Unpinned(b), l2[b])
    BY <1>2, <2>1, <2>2, PinsAgree
  <2>4. Unpinned(b) \in Meta /\ Unpinned(b).pins \in Nat
    BY <1>2, <2>2 DEF Meta
  <2>5. UnpinnedMeta(b).resident_in_l1 = metas[b].resident_in_l1
    BY <1>2, <2>1 DEF BlockMeta
  <2> QED BY <2>3, <2>4, <2>5 DEF SameTouch
<1>7. PICK e \in BlockMeta, k \in Meta :
         /\ e = DirtiedMeta(b) /\ k = [m EXCEPT !.dirty = TRUE]
         /\ SameTouch(c, e) /\ Agrees(b, e, k, l2[b])
         /\ k.pins \in Nat /\ e.resident_in_l1 = c.resident_in_l1
  <2>1. /\ SameTouch(c, [c EXCEPT !.dirty = TRUE])
        /\ Agrees(b, [c EXCEPT !.dirty = TRUE], [m EXCEPT !.dirty = TRUE], l2[b])
    BY <1>6, DirtyAgrees
  <2>2. [m EXCEPT !.dirty = TRUE] \in Meta /\ [m EXCEPT !.dirty = TRUE].pins = m.pins
    BY DEF Meta
  <2>3. [c EXCEPT !.dirty = TRUE].resident_in_l1 = c.resident_in_l1
    BY DEF BlockMeta
  <2>4. DirtiedMeta(b) = [c EXCEPT !.dirty = TRUE]
    BY <1>6 DEF DirtiedMeta
  <2> QED BY <1>6, <2>1, <2>2, <2>3, <2>4 DEF SameTouch
<1>8. CASE ~write
  <2>1. UnmapRead(b)
    BY <1>8 DEF Unmap
  <2>2. OneChanges(b, m) /\ l2'[b] = l2[b] /\ recency' = Touched(b)
    BY <1>6, <2>1 DEF UnmapRead, OneChanges
  <2>3. SetsAndTouches(b, c)
    BY <1>6, <1>8 DEF UnmapSets
  <2> QED BY <1>1, <1>6, <2>2, <2>3, TouchMirrored
<1>9. CASE write /\ UnmapWrite(b)
  <2>1. /\ meta[b].resident /\ l2' = [l2 EXCEPT ![b] = page] /\ recency' = Touched(b)
        /\ meta' = [meta EXCEPT ![b] = [m EXCEPT !.dirty = FALSE, !.backed = TRUE]]
    BY <1>4, <1>6, <1>9 DEF UnmapWrite
  <2>2. l2'[b] = page /\ \A a \in Block \ {b} : l2'[a] = l2[a]
    BY <1>1, <2>1 DEF TypeOK
  <2>3. SetsAndTouches(b, WrittenBack(b, e))
    <3>1. metas[b].resident_in_l1 /\ l2'[b] # Nil
      BY <1>2, <1>5, <2>1, <2>2
    <3> QED BY <1>7, <1>9, <3>1 DEF UnmapSets
  <2>4. PICK w : w = WrittenBackIn(m)
    OBVIOUS
  <2>5. w = WrittenBackIn(k)
    BY <1>7, <2>4 DEF Meta, WrittenBackIn
  <2>6. SameTouch(e, WrittenBack(b, e)) /\ Agrees(b, WrittenBack(b, e), w, l2'[b])
    BY <1>5, <1>7, <2>2, <2>5, WrittenBackAgrees
  <2>7. OneChanges(b, w) /\ WrittenBack(b, e) \in BlockMeta
    BY <2>1, <2>2, <2>4, <2>6 DEF OneChanges, SameTouch, WrittenBackIn
  <2> QED BY <1>1, <2>1, <2>3, <2>6, <2>7, TouchMirrored
<1>10. CASE write /\ UnmapWriteFails(b)
  <2>1. /\ meta[b].resident /\ l2' = l2 /\ l2[b] = Nil /\ recency' = recency
        /\ meta' = [meta EXCEPT ![b] = k]
    BY <1>6, <1>7, <1>10 DEF UnmapWriteFails, L2AcquireMayFail
  <2>2. Sets(b, e)
    BY <1>2, <1>6, <1>7, <1>10, <2>1 DEF UnmapSets
  <2>3. OneChanges(b, k) /\ Agrees(b, e, k, l2'[b])
    BY <1>7, <2>1 DEF OneChanges
  <2>4. SameTouch(metas[b], e) /\ (e.resident_in_l1 => metas[b].resident_in_l1)
    BY <1>6, <1>7 DEF SameTouch
  <2> QED BY <1>1, <2>1, <2>2, <2>3, <2>4, SetMirrored
<1>11. CASE write /\ UnmapWriteEvicted(b)
  <2>1. /\ ~meta[b].resident /\ l2' = l2 /\ recency' = Touched(b)
        /\ meta' = [meta EXCEPT ![b] = k]
    BY <1>6, <1>7, <1>11 DEF UnmapWriteEvicted
  <2>2. SetsAndTouches(b, e)
    BY <1>2, <1>6, <1>7, <1>11, <2>1 DEF UnmapSets
  <2>3. OneChanges(b, k) /\ Agrees(b, e, k, l2'[b])
    BY <1>7, <2>1 DEF OneChanges
  <2> QED BY <1>1, <1>7, <2>1, <2>2, <2>3, TouchMirrored
<1> QED BY <1>8, <1>9, <1>10, <1>11 DEF Unmap

\* Every call a host makes keeps the directory exact.
LEMMA DirectoryHostCallMirrored ==
    ASSUME Mirrored, Consistent, DirectoryHostCall
    PROVE  Mirrored'
<1>1. TypeOK
  BY DEF Consistent
<1>2. ASSUME NEW c \in Ctx, CreateContext(c) \/ DestroyContext(c), Leaves PROVE Mirrored'
  BY <1>2, LeavesMirrored DEF CreateContext, DestroyContext, blocks, pools
<1>3. ASSUME NEW c \in Ctx, NEW d \in Ctx, ForkContext(c, d), Leaves PROVE Mirrored'
  BY <1>3, LeavesMirrored DEF ForkContext, blocks, pools
<1>4. ASSUME NEW c \in Ctx, NEW n \in 1 .. MaxLvid, AllocateBlocks(c, n), Leaves
      PROVE  Mirrored'
  BY <1>4, LeavesMirrored DEF AllocateBlocks, blocks, pools
<1>5. ASSUME NEW c \in Ctx, NEW l \in Lvid, PrepareBlockForWrite(c, l), Leaves
      PROVE  Mirrored'
  BY <1>5, LeavesMirrored DEF PrepareBlockForWrite, blocks, pools
<1>6. ASSUME NEW c \in Ctx, NEW l \in Lvid, NEW write \in BOOLEAN, NEW h \in Handle,
             MapLogicalBlock(c, l, write, h), Leaves
      PROVE  Mirrored'
  BY <1>6, LeavesMirrored DEF MapLogicalBlock, blocks, pools
<1>7. ASSUME NEW c \in Ctx, NEW l \in Lvid, ReleaseLogicalBlock(c, l),
             Resets(FreedByRelease(table[c][l]))
      PROVE  Mirrored'
  <2>1. Scrub(FreedByRelease(table[c][l]))
    BY <1>7 DEF ReleaseLogicalBlock
  <2>2. FreedByRelease(table[c][l]) \in SUBSET Block
    BY DEF FreedByRelease
  <2> QED BY <1>1, <1>7, <2>1, <2>2, ResetsMirrored
<1>8. ASSUME NEW h \in Handle, UnmapLogicalBlock(h),
             UnmapSets(handles[h].block, handles[h].write)
      PROVE  Mirrored'
  <2>1. Unmap(handles[h].block, handles[h].write) /\ handles[h] # Nil
    BY <1>8 DEF UnmapLogicalBlock, CanUnmap
  <2>2. handles[h].block \in Block /\ handles[h].write \in BOOLEAN
    BY <1>1, <2>1 DEF TypeOK, Mapping
  <2> QED BY <1>8, <2>1, <2>2, UnmapMirrored
<1>9. ASSUME NEW c \in Ctx, NEW l \in Lvid, NEW write \in BOOLEAN,
             StrayUnmap(c, l, write), UnmapSets(table[c][l], write)
      PROVE  Mirrored'
  <2>1. Unmap(table[c][l], write) /\ table[c][l] # Nil
    BY <1>9 DEF StrayUnmap, Resolves
  <2>2. table[c][l] \in Block
    BY <1>1, <2>1 DEF TypeOK
  <2> QED BY <1>9, <2>1, <2>2, UnmapMirrored
<1> QED BY <1>2, <1>3, <1>4, <1>5, <1>6, <1>7, <1>8, <1>9 DEF DirectoryHostCall

\* Every later stage of a call keeps it exact.
LEMMA DirectoryCallStepMirrored ==
    ASSUME Mirrored, Consistent, DirectoryCallStep
    PROVE  Mirrored'
<1>1. TypeOK
  BY DEF Consistent
<1>2. ASSUME Reclaim, Resets(FreeBlocks) PROVE Mirrored'
  <2>1. Scrub(FreeBlocks) /\ FreeBlocks \in SUBSET Block
    BY <1>2 DEF Reclaim, FreeBlocks
  <2> QED BY <1>1, <1>2, <2>1, ResetsMirrored
<1>3. ASSUME NEW b \in Block, GrowTable(b), Leaves PROVE Mirrored'
  BY <1>3, LeavesMirrored DEF GrowTable, blocks, pools
<1>4. ASSUME WriteInPlace \/ GrowFails \/ CowFails \/ CloneFails
             \/ EvictFails \/ PromoteFails \/ PinFails, Leaves
      PROVE  Mirrored'
  <2>1. UNCHANGED <<blocks, pools>>
    BY <1>4 DEF WriteInPlace, GrowFails, CowFails, CloneFails, EvictFails, PromoteFails,
                PinFails
  <2> QED BY <1>4, <2>1, LeavesMirrored DEF blocks, pools
<1>5. CASE RegisterInL1 /\ SetsAndTouches(Current, Placed(Current, MakeFreshMeta))
  BY <1>5, RegisterInL1Mirrored
<1>6. CASE RegisterInL2 /\ Sets(Current, FreshInL2)
  BY <1>6, RegisterInL2Mirrored
<1>7. CASE \E n \in Block : CowRemap(n) /\ Sets(n, FreshInL2)
  BY <1>7, CowRemapMirrored
<1>8. CASE CloneBlockData /\ Sets(Current, Synced(Current, metas[Current]))
  BY <1>8, CloneBlockDataMirrored
<1>9. CASE AlreadyResident /\ SetsAndTouches(Current, [metas[Current] EXCEPT !.tier = "L1"])
  BY <1>9, AlreadyResidentMirrored
<1>10. CASE \E v \in Block : EvictVictim(v) /\ Sets(v, Evicted(v, metas[v]))
  BY <1>10, EvictVictimMirrored
<1>11. CASE \E p \in Page :
               Promote(p) /\ SetsAndTouches(Current, Placed(Current, metas[Current]))
  BY <1>11, PromoteMirrored
<1>12. CASE \E p \in Page :
               Pin(p) /\ SetsAndTouches(Current, [metas[Current] EXCEPT !.pin_count = @ + 1])
  BY <1>12, PinMirrored
<1> QED BY <1>2, <1>3, <1>4, <1>5, <1>6, <1>7, <1>8, <1>9, <1>10, <1>11, <1>12
        DEF DirectoryCallStep

\* The directory adds nothing to what MmuRuntime may do.
LEMMA DirectoryNextIsNext == [DirectoryNext]_directoryVars => [Next]_vars
<1>1. DirectoryHostCall => HostCall
  BY DEF DirectoryHostCall, HostCall
<1>2. DirectoryCallStep => CallStep
  BY DEF DirectoryCallStep, CallStep
<1> QED BY <1>1, <1>2 DEF DirectoryNext, Next, directoryVars

\* Every step keeps the directory exact.
LEMMA DirectoryNextMirrored ==
    ASSUME Mirrored, Consistent, [DirectoryNext]_directoryVars
    PROVE  Mirrored'
<1>1. CASE DirectoryHostCall
  BY <1>1, DirectoryHostCallMirrored
<1>2. CASE DirectoryCallStep
  BY <1>2, DirectoryCallStepMirrored
<1>3. CASE HostStep /\ Leaves
  BY <1>3, LeavesMirrored DEF HostStep, HostWrite, blocks
<1>4. CASE UNCHANGED directoryVars
  BY <1>4, LeavesMirrored DEF directoryVars, vars, Leaves
<1> QED BY <1>1, <1>2, <1>3, <1>4 DEF DirectoryNext

\* Of blocks that nobody has touched none is older.
LEMMA DirectoryInitMirrored == DirectoryInit => Mirrored
<1> SUFFICES ASSUME DirectoryInit PROVE Mirrored
  OBVIOUS
<1>1. /\ metas = [b \in Block |-> MakeDefaultMeta] /\ epoch = 0
      /\ meta = [b \in Block |-> DefaultMeta] /\ recency = [b \in Block |-> 0]
      /\ l2 = [b \in Block |-> Nil]
  BY DEF DirectoryInit, Init
<1>2. \A b \in Block : /\ MakeDefaultMeta \in BlockMeta
                       /\ MakeDefaultMeta.last_access_epoch = 0
                       /\ Agrees(b, MakeDefaultMeta, DefaultMeta, Nil)
  BY NewAgree
<1>3. ~MakeDefaultMeta.resident_in_l1
  BY DEF MakeDefaultMeta
<1>4. DirectoryTypeOK /\ DirectoryExact
  BY <1>1, <1>2 DEF DirectoryTypeOK, DirectoryExact
<1>5. Epochs \in [Block -> Nat] /\ \A b \in Block : Epochs[b] = 0
  BY <1>1, <1>2 DEF Epochs
<1>6. /\ Ranks(Epochs) \in [Block -> Nat]
      /\ \A b \in Block : Epochs[b] = 0 => Ranks(Epochs)[b] = 0
  BY <1>5, RanksOfEpochs
<1>7. recency = Ranks(Epochs)
  BY <1>1, <1>5, <1>6
<1>8. EpochsInOrder
  BY <1>1, <1>2, <1>3, <1>7 DEF EpochsInOrder
<1> QED BY <1>4, <1>8 DEF Mirrored

-----------------------------------------------------------------------------
(* Theorems *)

\* The directory over the runtime is still the runtime: every behaviour with the setters
\* and the epoch is one of MmuRuntime, so that all that is proved of it holds here.
THEOREM DirectoryImplementsRuntime == DirectorySpec => Spec
<1>1. DirectoryInit => Init
  BY DEF DirectoryInit
<1> QED BY <1>1, DirectoryNextIsNext, PTL DEF DirectorySpec, Spec

\* The inductive invariant
THEOREM AlwaysMirrored == DirectorySpec => [](Consistent /\ Mirrored)
<1>1. DirectoryInit => Consistent /\ Mirrored
  BY InitConsistent, DirectoryInitMirrored DEF DirectoryInit
<1>2. Consistent /\ Mirrored /\ [DirectoryNext]_directoryVars => Consistent' /\ Mirrored'
  BY NextConsistent, DirectoryNextIsNext, DirectoryNextMirrored
<1> QED BY <1>1, <1>2, PTL DEF DirectorySpec

\* Whichever setters an early return or a failed page skips, the nine fields of
\* BlockDirectory stay what the runtime's own state says of the block.
THEOREM DirectoryStaysExact == DirectorySpec => []DirectoryExact
<1>1. Mirrored => DirectoryExact
  BY DEF Mirrored
<1> QED BY <1>1, AlwaysMirrored, PTL

\* The blocks the scan may take are those MmuRuntime says it may take, in the same order.
LEMMA ScanIsByRank ==
    ASSUME Mirrored, TypeOK
    PROVE  OneVictim
<1>1. \A b \in Block : /\ metas[b].allocated = meta[b].allocated
                       /\ metas[b].resident_in_l1 = meta[b].resident
                       /\ metas[b].pin_count = meta[b].pins
  BY DEF Mirrored, DirectoryExact, Agrees
<1>2. \A b \in Block : b \in Candidates(Current) <=> Evictable(b, Current)
  BY <1>1 DEF Candidates, Evictable
<1>3. Epochs \in [Block -> Nat] /\ \A a \in Block : Epochs[a] = metas[a].last_access_epoch
  BY EpochsAreNatural DEF Mirrored
<1>4. SameOrder(Epochs, recency)
  BY <1>3, RanksKeepOrder DEF Mirrored, EpochsInOrder
<1>5. \A a, b \in Block : metas[a].last_access_epoch <= metas[b].last_access_epoch
                             <=> recency[a] <= recency[b]
  BY <1>3, <1>4 DEF SameOrder
<1>6. Candidates(Current) \subseteq Block
  BY DEF Candidates
<1>7. OldestAmong(Candidates(Current)) = {b \in Block : IsVictim(b)}
  BY <1>2, <1>5, <1>6 DEF OldestAmong, IsVictim
<1>8. Cardinality(OldestAmong(Candidates(Current))) <= 1
  <2>1. ASSUME NEW a \in OldestAmong(Candidates(Current)),
               NEW b \in OldestAmong(Candidates(Current))
        PROVE  a = b
    <3>1. /\ a \in Block /\ b \in Block
          /\ metas[a].last_access_epoch <= metas[b].last_access_epoch
          /\ metas[b].last_access_epoch <= metas[a].last_access_epoch
          /\ metas[a].resident_in_l1
      BY <1>6 DEF OldestAmong, Candidates
    <3>2. metas[a].last_access_epoch \in Nat /\ metas[b].last_access_epoch \in Nat
      BY <1>3, <3>1
    <3>3. metas[a].last_access_epoch = metas[b].last_access_epoch
      BY <3>1, <3>2
    <3>4. 0 < metas[a].last_access_epoch
      BY <3>1 DEF Mirrored, EpochsInOrder
    <3> QED BY <3>1, <3>3, <3>4 DEF Mirrored, EpochsInOrder
  <2>2. CASE OldestAmong(Candidates(Current)) = {}
    BY <2>2, FS_EmptySet
  <2>3. CASE OldestAmong(Candidates(Current)) # {}
    <3>1. PICK a : OldestAmong(Candidates(Current)) = {a}
      BY <2>1, <2>3
    <3>2. Cardinality({a}) = 1
      BY FS_Singleton
    <3> QED BY <3>1, <3>2
  <2> QED BY <2>2, <2>3
<1> QED BY <1>7, <1>8 DEF OneVictim

\* The scan of PickEvictionCandidate, which keeps the first of equals, never meets
\* equals, so that the order of the scan decides nothing and the least recently touched
\* block is the one that leaves.
THEOREM ScanMeetsOneVictim == DirectorySpec => []OneVictim
<1>1. Consistent /\ Mirrored => OneVictim
  BY ScanIsByRank DEF Consistent
<1> QED BY <1>1, AlwaysMirrored, PTL
=============================================================================
