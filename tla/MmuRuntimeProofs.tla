-------------------------- MODULE MmuRuntimeProofs --------------------------
(***************************************************************************)
(* What holds of the runtime for every number of blocks, contexts, pages   *)
(* and handles and every resident and L2 limit.                            *)
(*                                                                         *)
(* First what holds whatever the host does: the conjuncts of Consistent    *)
(* are inductive only together.  Then what the runtime owes a host that    *)
(* keeps to some discipline: reference counts are exact, pins count open   *)
(* mappings, a mapped page is the one its logical block reads from, a      *)
(* writer is alone, and contexts are isolated.  Those invariants come in   *)
(* layers: each adds what its own proof needs to Consistent and to the     *)
(* layers below it, and each theorem excludes only the liberties of the    *)
(* host that would break it.                                               *)
(*                                                                         *)
(* The steps of the test API (MmuTestApi) come on top of those of the      *)
(* runtime, so the layers hold of TestSpec; what holds of Spec alone is    *)
(* said so.  A theorem of TestSpec is the corresponding one of Spec for a  *)
(* host that moves blocks between its calls as the tests do.               *)
(***************************************************************************)
EXTENDS MmuTestApi, FiniteSetTheorems, WellFoundedInduction, TLAPS

\* The inductive invariant: the bookkeeping is right, between any two stages
\* of any call.
Consistent ==
    /\ TypeOK
    /\ CallConsistent
    /\ ResidencyAccounted
    /\ TestTiersAgree
    /\ FreeBlocksClean

-----------------------------------------------------------------------------
(* Facts about the operators *)

\* A guarded decrement stays a natural number and never grows.
LEMMA LessIsNat ==
    ASSUME NEW n \in Nat, NEW k \in Nat
    PROVE  Less(n, k) \in Nat /\ Less(n, k) <= n
  BY DEF Less

\* Sets of blocks are finite, and so countable.
LEMMA BlocksAreFinite ==
    ASSUME NEW S \in SUBSET Block
    PROVE  IsFiniteSet(S) /\ Cardinality(S) \in Nat
  BY FiniteAssumption, FS_Subset, FS_CardinalityType

\* A context refers to a block a finite number of times.
LEMMA UsesIsNat ==
    ASSUME NEW c, NEW b
    PROVE  Uses(c, b) \in Nat
  <1>1. IsFiniteSet(Lvid)
    BY ConfigAssumption, FS_Interval DEF Lvid
  <1>2. {l \in Lvid : table[c][l] = b} \in SUBSET Lvid
    OBVIOUS
  <1> QED BY <1>1, <1>2, FS_Subset, FS_CardinalityType DEF Uses

\* Ranks are natural numbers, and what was never touched has rank zero.
LEMMA RanksOfEpochs ==
    ASSUME NEW r \in [Block -> Nat]
    PROVE  /\ Ranks(r) \in [Block -> Nat]
           /\ \A b \in Block : r[b] = 0 => Ranks(r)[b] = 0
  <1> DEFINE Older(b) == {a \in Block : 0 < r[a] /\ r[a] <= r[b]}
  <1>1. \A b \in Block : Cardinality(Older(b)) \in Nat
    BY BlocksAreFinite
  <1>2. ASSUME NEW b \in Block, r[b] = 0
        PROVE  Older(b) = {}
    BY <1>2
  <1>3. ASSUME NEW b \in Block, r[b] = 0
        PROVE  Cardinality(Older(b)) = 0
    BY <1>2, <1>3, FS_EmptySet
  <1> QED BY <1>1, <1>3 DEF Ranks

\* Touching a block leaves the blocks that were never touched at rank zero.
LEMMA TouchedRecency ==
    ASSUME recency \in [Block -> Nat], NEW b
    PROVE  /\ Touched(b) \in [Block -> Nat]
           /\ \A a \in Block : a # b /\ recency[a] = 0 => Touched(b)[a] = 0
  <1> DEFINE r == [recency EXCEPT ![b] = Cardinality(Block) + 1]
  <1>0. Cardinality(Block) + 1 \in Nat
    BY FiniteAssumption, FS_CardinalityType
  <1>1. r \in [Block -> Nat]
    BY <1>0
  <1>2. \A a \in Block : a # b /\ recency[a] = 0 => r[a] = 0
    OBVIOUS
  <1> HIDE DEF r
  <1>3. Ranks(r) \in [Block -> Nat] /\ \A a \in Block : r[a] = 0 => Ranks(r)[a] = 0
    BY <1>1, RanksOfEpochs
  <1> QED BY <1>2, <1>3 DEF Touched, r

\* Forgetting blocks gives them rank zero.
LEMMA ForgottenRecency ==
    ASSUME recency \in [Block -> Nat], NEW S
    PROVE  /\ Forgotten(S) \in [Block -> Nat]
           /\ \A a \in Block : a \in S \/ recency[a] = 0 => Forgotten(S)[a] = 0
  <1> DEFINE r == [b \in Block |-> IF b \in S THEN 0 ELSE recency[b]]
  <1>1. r \in [Block -> Nat] /\ \A a \in Block : a \in S \/ recency[a] = 0 => r[a] = 0
    OBVIOUS
  <1> HIDE DEF r
  <1>2. Ranks(r) \in [Block -> Nat] /\ \A a \in Block : r[a] = 0 => Ranks(r)[a] = 0
    BY <1>1, RanksOfEpochs
  <1> QED BY <1>1, <1>2 DEF Forgotten, r

-----------------------------------------------------------------------------
(* The initial state *)

\* A new runtime is consistent.
LEMMA InitConsistent == Init => Consistent
  <1> SUFFICES ASSUME Init PROVE Consistent
    OBVIOUS
  <1> USE DEF Init
  <1>1. TypeOK
    BY ConfigAssumption, ZeroAssumption
       DEF TypeOK, NoEntries, Lvid, DefaultMeta, Meta, Tier, Idle, Call, Stage, Op
  <1>2. CallConsistent
    BY DEF CallConsistent, Idle
  <1>3. Resident = {} /\ Stored = {}
    BY DEF Resident, Stored, DefaultMeta
  <1>4. ResidencyAccounted
    BY <1>3, FS_EmptySet, ConfigAssumption DEF ResidencyAccounted
  <1>5. TestTiersAgree
    BY <1>3, FS_EmptySet, ConfigAssumption DEF TestTiersAgree, DefaultMeta
  <1>6. FreeBlocksClean
    BY DEF FreeBlocksClean, FreeBlocks, Clean
  <1> QED BY <1>1, <1>2, <1>4, <1>5, <1>6 DEF Consistent

-----------------------------------------------------------------------------
(* Steps that only move the call from one stage to another *)

\* The accounting mentions neither the names nor the call.
LEMMA AccountingFrame ==
    ASSUME Consistent, UNCHANGED <<blocks, pools>>
    PROVE  ResidencyAccounted' /\ TestTiersAgree'
  <1>1. Resident' = Resident /\ Stored' = Stored
    BY DEF Resident, Stored, blocks, pools
  <1>2. ResidencyAccounted'
    BY <1>1 DEF Consistent, ResidencyAccounted, blocks
  <1>3. TestTiersAgree'
    BY <1>1 DEF Consistent, TestTiersAgree, blocks, pools
  <1> QED BY <1>2, <1>3

\* Free blocks stay clean when no block is freed or changed.
LEMMA CleanFrame ==
    ASSUME Consistent, call.stage # "reclaim", FreeBlocks' \subseteq FreeBlocks,
           UNCHANGED <<blocks, pools>>
    PROVE  FreeBlocksClean'
  BY DEF Consistent, FreeBlocksClean, Clean, blocks, pools

\* Page tables have at least one entry, the one of number zero.
LEMMA ZeroIsInRange == 0 \in Lvid /\ 0 \in 0 .. MaxLvid
  BY ConfigAssumption DEF Lvid

\* The record of a call is well typed when its fields are.
LEMMA CallRecord ==
    ASSUME NEW s \in Stage, NEW o \in Op, NEW c \in Ctx \cup {Nil}, NEW l \in Lvid,
           NEW w \in BOOLEAN, NEW h \in Handle \cup {Nil}, NEW b \in Block \cup {Nil},
           NEW m \in 0 .. MaxLvid, NEW n \in 0 .. MaxLvid
    PROVE  [stage |-> s, op |-> o, ctx |-> c, lvid |-> l, write |-> w, handle |-> h,
            src |-> b, base |-> m, goal |-> n] \in Call
  BY DEF Call

\* AllocateBlocks keeps the invariant.
LEMMA AllocateBlocksStep ==
    ASSUME Consistent, NEW c \in Ctx, NEW n \in 1 .. MaxLvid, AllocateBlocks(c, n)
    PROVE  Consistent'
  <1>1. UNCHANGED <<refs, names, blocks, pools, handles>> /\ call.stage = "idle"
    BY DEF AllocateBlocks, Starts
  <1>2. call' = [stage |-> "reclaim", op |-> "allocate", ctx |-> c, lvid |-> size[c],
                 write |-> FALSE, handle |-> Nil, src |-> Nil, base |-> size[c],
                 goal |-> size[c] + n]
    BY DEF AllocateBlocks, Starts, Idle
  <1>3. size[c] \in Lvid /\ size[c] \in 0 .. MaxLvid /\ size[c] + n \in 0 .. MaxLvid
    BY ConfigAssumption DEF Consistent, TypeOK, AllocateBlocks, Lvid
  <1>4. call' \in Call
    BY <1>2, <1>3, CallRecord DEF Stage, Op
  <1>5. TypeOK'
    BY <1>1, <1>4 DEF Consistent, TypeOK, names, blocks, pools
  <1>6. CallConsistent'
    BY <1>1, <1>2, <1>3 DEF names, CallConsistent, AllocationConsistent, Pending, Lvid
  <1>7. FreeBlocksClean'
    BY <1>1, CleanFrame DEF FreeBlocks
  <1> QED BY <1>1, <1>5, <1>6, <1>7, AccountingFrame DEF Consistent

\* A call may start a new stage, and may return.
LEMMA CallStages ==
    ASSUME TypeOK
    PROVE  Idle \in Call /\ \A s \in Stage : At(s) \in Call
  <1>2. Idle \in Call
    BY ZeroIsInRange, CallRecord DEF Idle, Stage, Op
  <1>3. \A s \in Stage : At(s) \in Call
    BY DEF TypeOK, At, Call
  <1> QED BY <1>2, <1>3

\* A call that returns changing nothing else keeps the invariant.
LEMMA ReturnStep ==
    ASSUME Consistent, call.stage # "reclaim", call' = Idle,
           UNCHANGED <<refs, names, blocks, pools, handles>>
    PROVE  Consistent'
  <1>1. TypeOK'
    BY CallStages DEF Consistent, TypeOK, names, blocks, pools
  <1>2. CallConsistent'
    BY DEF CallConsistent, Idle
  <1>3. FreeBlocksClean'
    BY CleanFrame DEF FreeBlocks
  <1> QED BY <1>1, <1>2, <1>3, AccountingFrame DEF Consistent

\* PrepareBlockForWrite keeps the invariant.
LEMMA PrepareBlockForWriteStep ==
    ASSUME Consistent, NEW c \in Ctx, NEW l \in Lvid, PrepareBlockForWrite(c, l)
    PROVE  Consistent'
  <1>1. UNCHANGED <<refs, names, blocks, pools, handles>> /\ call.stage = "idle"
    BY DEF PrepareBlockForWrite, Starts
  <1>2. call' = [stage |-> "prepare", op |-> "prepare", ctx |-> c, lvid |-> l,
                 write |-> FALSE, handle |-> Nil, src |-> Nil, base |-> 0, goal |-> 0]
    BY DEF PrepareBlockForWrite, Starts, Idle
  <1>3. call' \in Call
    BY <1>2, ZeroIsInRange, CallRecord DEF Stage, Op
  <1>4. TypeOK'
    BY <1>1, <1>3 DEF Consistent, TypeOK, names, blocks, pools
  <1>5. table[c][l] \in Block /\ meta[table[c][l]].allocated
    BY DEF PrepareBlockForWrite, Resolves, Consistent, TypeOK
  <1>6. refs[table[c][l]] > 0
    BY <1>1, <1>5 DEF Consistent, TypeOK, FreeBlocksClean, FreeBlocks, Clean, DefaultMeta
  <1>7. CallConsistent'
    BY <1>1, <1>2, <1>5, <1>6
       DEF names, blocks, CallConsistent, AccessConsistent, Current
  <1>8. FreeBlocksClean'
    BY <1>1, CleanFrame DEF FreeBlocks
  <1> QED BY <1>1, <1>4, <1>7, <1>8, AccountingFrame DEF Consistent

\* MapLogicalBlock keeps the invariant.
LEMMA MapLogicalBlockStep ==
    ASSUME Consistent, NEW c \in Ctx, NEW l \in Lvid, NEW write \in BOOLEAN,
           NEW h \in Handle, MapLogicalBlock(c, l, write, h)
    PROVE  Consistent'
  <1> DEFINE s == IF write THEN "prepare" ELSE "reclaim"
  <1>1. UNCHANGED <<refs, names, blocks, pools, handles>> /\ call.stage = "idle"
    BY DEF MapLogicalBlock, Starts
  <1>2. call' = [stage |-> s, op |-> "map", ctx |-> c, lvid |-> l,
                 write |-> write, handle |-> h, src |-> Nil, base |-> 0, goal |-> 0]
    BY DEF MapLogicalBlock, Starts, Idle
  <1>3. s \in {"prepare", "reclaim"}
    OBVIOUS
  <1> HIDE DEF s
  <1>4. call' \in Call
    BY <1>2, <1>3, ZeroIsInRange, CallRecord DEF Stage, Op
  <1>5. TypeOK'
    BY <1>1, <1>4 DEF Consistent, TypeOK, names, blocks, pools
  <1>6. table[c][l] \in Block /\ meta[table[c][l]].allocated
    BY DEF MapLogicalBlock, Resolves, Consistent, TypeOK
  <1>7. refs[table[c][l]] > 0
    BY <1>1, <1>6 DEF Consistent, TypeOK, FreeBlocksClean, FreeBlocks, Clean, DefaultMeta
  <1>8. CallConsistent'
    BY <1>1, <1>2, <1>3, <1>6, <1>7
       DEF names, blocks, CallConsistent, AccessConsistent, Current
  <1>9. FreeBlocksClean'
    BY <1>1, CleanFrame DEF FreeBlocks
  <1> QED BY <1>1, <1>5, <1>8, <1>9, AccountingFrame DEF Consistent

\* WriteInPlace keeps the invariant.
LEMMA WriteInPlaceStep ==
    ASSUME Consistent, WriteInPlace
    PROVE  Consistent'
  <1>1. UNCHANGED <<refs, names, blocks, pools, handles>> /\ call.stage = "prepare"
    BY DEF WriteInPlace, InStage
  <1>2. CASE call.op = "map"
    <2>1. call' = At("reclaim")
      BY <1>2 DEF WriteInPlace, Prepared
    <2>2. TypeOK'
      BY <1>1, <2>1, CallStages DEF Consistent, TypeOK, names, blocks, pools, Stage
    <2>3. /\ call'.stage = "reclaim" /\ call'.op = "map"
          /\ call'.ctx = call.ctx /\ call'.lvid = call.lvid /\ call'.handle = call.handle
      BY <1>2, <2>1 DEF Consistent, TypeOK, At, Call
    <2>4. CallConsistent'
      BY <1>1, <1>2, <2>3
         DEF Consistent, CallConsistent, AccessConsistent, Current, names, blocks
    <2>5. FreeBlocksClean'
      BY <1>1, CleanFrame DEF FreeBlocks
    <2> QED BY <1>1, <2>2, <2>4, <2>5, AccountingFrame DEF Consistent
  <1>3. CASE call.op # "map"
    BY <1>1, <1>3, ReturnStep DEF WriteInPlace, Prepared
  <1> QED BY <1>2, <1>3

-----------------------------------------------------------------------------
(* Contexts *)

\* CreateContext keeps the invariant.
LEMMA CreateContextStep ==
    ASSUME Consistent, NEW c \in Ctx, CreateContext(c)
    PROVE  Consistent'
  <1>1. UNCHANGED <<refs, blocks, pools, handles>> /\ call.stage = "idle" /\ call' = Idle
    BY DEF CreateContext, Starts
  <1>2. /\ live' \in SUBSET Ctx
        /\ table' \in [Ctx -> [Lvid -> Block \cup {Nil}]]
        /\ size' \in [Ctx -> 0 .. MaxLvid]
    BY ZeroIsInRange DEF CreateContext, Consistent, TypeOK, NoEntries
  <1>3. TypeOK'
    BY <1>1, <1>2, CallStages DEF Consistent, TypeOK, blocks, pools
  <1>4. CallConsistent'
    BY <1>1 DEF CallConsistent, Idle
  <1>5. FreeBlocksClean'
    BY <1>1, CleanFrame DEF FreeBlocks
  <1> QED BY <1>1, <1>3, <1>4, <1>5, AccountingFrame DEF Consistent

\* ForkContext keeps the invariant.
LEMMA ForkContextStep ==
    ASSUME Consistent, NEW c \in Ctx, NEW d \in Ctx, ForkContext(c, d)
    PROVE  Consistent'
  <1>1. UNCHANGED <<blocks, pools, handles>> /\ call.stage = "idle" /\ call' = Idle
    BY DEF ForkContext, Starts
  <1>2. /\ live' \in SUBSET Ctx
        /\ table' \in [Ctx -> [Lvid -> Block \cup {Nil}]]
        /\ size' \in [Ctx -> 0 .. MaxLvid]
    BY DEF ForkContext, Consistent, TypeOK
  <1>3. /\ refs' \in [Block -> Nat]
        /\ FreeBlocks' \subseteq FreeBlocks
    BY UsesIsNat DEF ForkContext, Consistent, TypeOK, Retained, FreeBlocks
  <1>4. TypeOK'
    BY <1>1, <1>2, <1>3, CallStages DEF Consistent, TypeOK, blocks, pools
  <1>5. CallConsistent'
    BY <1>1 DEF CallConsistent, Idle
  <1>6. FreeBlocksClean'
    BY <1>1, <1>3, CleanFrame
  <1> QED BY <1>1, <1>4, <1>5, <1>6, AccountingFrame DEF Consistent

\* DestroyContext keeps the invariant.
LEMMA DestroyContextStep ==
    ASSUME Consistent, NEW c \in Ctx, DestroyContext(c)
    PROVE  Consistent'
  <1>1. UNCHANGED <<blocks, pools, handles>>
    BY DEF DestroyContext
  <1>2. call' = [stage |-> "reclaim", op |-> "destroy", ctx |-> Nil, lvid |-> 0,
                 write |-> FALSE, handle |-> Nil, src |-> Nil, base |-> 0, goal |-> 0]
    BY DEF DestroyContext, Starts, Idle
  <1>3. call' \in Call
    BY <1>2, ZeroIsInRange, CallRecord DEF Stage, Op
  <1>4. /\ live' \in SUBSET Ctx
        /\ table' \in [Ctx -> [Lvid -> Block \cup {Nil}]]
        /\ size' \in [Ctx -> 0 .. MaxLvid]
    BY ZeroIsInRange DEF DestroyContext, Consistent, TypeOK, NoEntries
  <1>5. refs' \in [Block -> Nat]
    BY UsesIsNat, LessIsNat DEF DestroyContext, Consistent, TypeOK
  <1>6. TypeOK'
    BY <1>1, <1>3, <1>4, <1>5 DEF Consistent, TypeOK, blocks, pools
  <1>7. CallConsistent' /\ FreeBlocksClean'
    BY <1>2 DEF CallConsistent, FreeBlocksClean
  <1> QED BY <1>1, <1>6, <1>7, AccountingFrame DEF Consistent

-----------------------------------------------------------------------------
(* Freeing blocks *)

\* Blocks that leave L1 are taken off the count.
LEMMA LeavingIsCounted ==
    ASSUME Consistent, NEW S \in SUBSET Block, Resident' = Resident \ S,
           residentCount' = Less(residentCount, Leaving(S))
    PROVE  residentCount' \in Nat /\ ResidencyAccounted'
  <1>1. S \cap Resident = Resident \cap S /\ IsFiniteSet(Resident)
    BY BlocksAreFinite DEF Resident
  <1>2. S \cap Resident \in SUBSET Block /\ Resident \ S \in SUBSET Block
        /\ Resident \in SUBSET Block
    BY DEF Resident
  <1>3. Cardinality(Resident \ S) = Cardinality(Resident) - Cardinality(Resident \cap S)
    BY <1>1, FS_Difference
  <1>4. /\ Cardinality(S \cap Resident) \in Nat /\ Cardinality(Resident) \in Nat
        /\ Cardinality(Resident \ S) \in Nat
    BY <1>2, BlocksAreFinite
  <1>5. residentCount' = Cardinality(Resident \ S) /\ residentCount' <= residentCount
    BY <1>1, <1>3, <1>4 DEF Leaving, Less, Consistent, ResidencyAccounted
  <1> QED BY <1>4, <1>5, ConfigAssumption DEF Consistent, TypeOK, ResidencyAccounted

\* Scrubbing keeps the accounting, cleans what it scrubs and keeps clean what
\* was clean.
LEMMA ScrubFacts ==
    ASSUME Consistent, NEW S \in SUBSET Block, Scrub(S)
    PROVE  /\ meta' \in [Block -> Meta] /\ recency' \in [Block -> Nat]
           /\ l1' \in [Block -> Page \cup {Nil}] /\ mem' = mem
           /\ l2' \in [Block -> Value \cup {Nil}] /\ residentCount' \in Nat
           /\ ResidencyAccounted' /\ TestTiersAgree'
           /\ \A b \in Block : b \in S \/ Clean(b) => Clean(b)'
           /\ \A b \in Block \ S : meta'[b] = meta[b]
  <1>1. /\ meta' \in [Block -> Meta] /\ mem' = mem
        /\ l1' \in [Block -> Page \cup {Nil}]
        /\ l2' \in [Block -> Value \cup {Nil}]
    BY DEF Scrub, Consistent, TypeOK, Meta, Tier, DefaultMeta
  <1>2. /\ recency' \in [Block -> Nat]
        /\ \A b \in Block : b \in S \/ recency[b] = 0 => recency'[b] = 0
    BY ForgottenRecency DEF Scrub, Consistent, TypeOK
  <1>3. Resident' = Resident \ S
    BY DEF Scrub, Resident, DefaultMeta
  <1>4. IsFiniteSet(Stored)
    BY BlocksAreFinite DEF Stored
  <1>7. residentCount' \in Nat /\ ResidencyAccounted'
    BY <1>3, LeavingIsCounted DEF Scrub
  <1>8. Cardinality(Stored') <= L2Limit
    <2>1. Stored' \in SUBSET Stored
      BY DEF Scrub, Stored
    <2>2. Cardinality(Stored') <= Cardinality(Stored)
      BY <1>4, <2>1, FS_Subset
    <2>3. Cardinality(Stored') \in Nat /\ Cardinality(Stored) \in Nat
      BY <2>1, BlocksAreFinite DEF Stored
    <2> QED BY <2>2, <2>3, ConfigAssumption DEF Consistent, TestTiersAgree
  <1>9. TestTiersAgree'
    BY <1>8 DEF Scrub, Consistent, TestTiersAgree, DefaultMeta
  <1>10. \A b \in Block : b \in S \/ Clean(b) => Clean(b)'
    BY <1>2 DEF Scrub, Clean
  <1> QED BY <1>1, <1>2, <1>7, <1>9, <1>10 DEF Scrub

\* Reclaim keeps the invariant.
LEMMA ReclaimStep ==
    ASSUME Consistent, Reclaim
    PROVE  Consistent'
  <1>1. FreeBlocks \in SUBSET Block /\ FreeBlocks' = FreeBlocks
    BY DEF FreeBlocks, Reclaim
  <1>2. Scrub(FreeBlocks) /\ call.stage = "reclaim" /\ UNCHANGED <<refs, names, handles>>
    BY DEF Reclaim, InStage
  <1>3. /\ meta' \in [Block -> Meta] /\ recency' \in [Block -> Nat]
        /\ l1' \in [Block -> Page \cup {Nil}] /\ mem' = mem
        /\ l2' \in [Block -> Value \cup {Nil}] /\ residentCount' \in Nat
        /\ ResidencyAccounted' /\ TestTiersAgree'
        /\ \A b \in FreeBlocks : Clean(b)'
        /\ \A b \in Block \ FreeBlocks : meta'[b] = meta[b]
    BY <1>1, <1>2, ScrubFacts
  <1>4. FreeBlocksClean'
    BY <1>1, <1>3 DEF FreeBlocksClean
  <1>5. call.op \in {"destroy", "allocate", "map", "remap"}
    BY <1>2 DEF Consistent, TypeOK, Call, Op, CallConsistent, AccessConsistent
  <1>6. call' \in Call /\ CallConsistent'
    <2>1. CASE call.op = "destroy"
      <3>1. call' = Idle
        BY <2>1 DEF Reclaim, AfterReclaim
      <3> QED BY <3>1, CallStages DEF Consistent, CallConsistent, Idle
    <2>2. CASE call.op = "allocate"
      <3>1. call' = At("grow")
        BY <2>2 DEF Reclaim, AfterReclaim
      <3>2. call' \in Call
        BY <3>1, CallStages DEF Consistent, Stage
      <3>3. /\ call'.stage = "grow" /\ call'.op = "allocate" /\ call'.ctx = call.ctx
            /\ call'.lvid = call.lvid /\ call'.base = call.base /\ call'.goal = call.goal
        BY <2>2, <3>1 DEF Consistent, TypeOK, At, Call
      <3>4. /\ size' = size /\ call.ctx \in Ctx /\ call.lvid \in Nat
            /\ size[call.ctx] = call.lvid /\ call.base = call.lvid /\ call.lvid < call.goal
        BY <1>2, <2>2, ConfigAssumption
           DEF Consistent, TypeOK, Call, Lvid, CallConsistent, AllocationConsistent, names
      <3>5. Pending' = {}
        BY <3>3, <3>4, ConfigAssumption DEF Pending, Lvid
      <3> QED BY <3>2, <3>3, <3>4, <3>5 DEF CallConsistent, AllocationConsistent
    <2>3. CASE call.op \in {"map", "remap"}
      <3>1. call' = At("ensure")
        BY <2>3 DEF Reclaim, AfterReclaim
      <3>2. call' \in Call
        BY <3>1, CallStages DEF Consistent, Stage
      <3>3. /\ call'.stage = "ensure" /\ call'.op = call.op /\ call'.ctx = call.ctx
            /\ call'.lvid = call.lvid /\ call'.handle = call.handle
        BY <2>3, <3>1 DEF Consistent, TypeOK, At, Call
      <3>4. AccessConsistent /\ Current' = Current
        BY <1>2, <2>3, <3>3 DEF Consistent, CallConsistent, Current, names
      <3>5. meta'[Current] = meta[Current] /\ refs' = refs
        BY <1>2, <1>3, <3>4 DEF AccessConsistent, FreeBlocks
      <3> QED BY <2>3, <3>2, <3>3, <3>4, <3>5 DEF CallConsistent, AccessConsistent
    <2> QED BY <1>5, <2>1, <2>2, <2>3
  <1>7. TypeOK'
    BY <1>2, <1>3, <1>6 DEF Consistent, TypeOK, names
  <1> QED BY <1>3, <1>4, <1>6, <1>7 DEF Consistent

\* ReleaseLogicalBlock keeps the invariant.
LEMMA ReleaseLogicalBlockStep ==
    ASSUME Consistent, NEW c \in Ctx, NEW l \in Lvid, ReleaseLogicalBlock(c, l)
    PROVE  Consistent'
  <1> DEFINE b == table[c][l]
             S == FreedByRelease(b)
  <1>1. /\ S \in SUBSET Block /\ Scrub(S) /\ call.stage = "idle" /\ call' = Idle
        /\ refs' = [refs EXCEPT ![b] = Less(@, 1)]
        /\ table' = [table EXCEPT ![c][l] = Nil]
        /\ UNCHANGED <<live, size, handles>>
    BY DEF ReleaseLogicalBlock, Starts, FreedByRelease
  <1>2. b \in Block /\ refs[b] \in Nat
    BY DEF ReleaseLogicalBlock, Resolves, Consistent, TypeOK
  <1>3. b \in S \/ refs[b] > 1
    BY <1>2 DEF FreedByRelease
  <1> HIDE DEF S
  <1>4. /\ meta' \in [Block -> Meta] /\ recency' \in [Block -> Nat]
        /\ l1' \in [Block -> Page \cup {Nil}] /\ mem' = mem
        /\ l2' \in [Block -> Value \cup {Nil}] /\ residentCount' \in Nat
        /\ ResidencyAccounted' /\ TestTiersAgree'
        /\ \A a \in Block : a \in S \/ Clean(a) => Clean(a)'
    BY <1>1, ScrubFacts
  <1>5. refs' \in [Block -> Nat]
    BY <1>1, <1>2, LessIsNat DEF Consistent, TypeOK
  <1>6. TypeOK'
    BY <1>1, <1>4, <1>5, CallStages DEF Consistent, TypeOK
  <1>7. \A a \in Block : refs'[a] = 0 => a \in S \/ refs[a] = 0
    BY <1>1, <1>2, <1>3 DEF Consistent, TypeOK, Less
  <1>8. FreeBlocksClean'
    BY <1>1, <1>4, <1>7 DEF Consistent, FreeBlocksClean, FreeBlocks
  <1>9. CallConsistent'
    BY <1>1 DEF CallConsistent, Idle
  <1> QED BY <1>4, <1>6, <1>8, <1>9 DEF Consistent

-----------------------------------------------------------------------------
(* Allocation *)

\* GrowTable keeps the invariant.
LEMMA GrowTableStep ==
    ASSUME Consistent, NEW b \in Block, GrowTable(b)
    PROVE  Consistent'
  <1> DEFINE c == call.ctx
             n == size[c]
  <1>1. /\ call.stage = "grow" /\ refs[b] = 0 /\ Clean(b)
        /\ UNCHANGED <<live, blocks, pools, handles>>
    BY DEF GrowTable, InStage, FreeBlocks, Consistent, FreeBlocksClean
  <1>2. /\ refs' = [refs EXCEPT ![b] = 1]
        /\ table' = [table EXCEPT ![c][n] = b]
        /\ size' = [size EXCEPT ![c] = n + 1]
        /\ call' = IF n + 1 = call.goal THEN At("register") ELSE At("grow")
    BY DEF GrowTable
  <1>3. call.op = "allocate" /\ AllocationConsistent
    BY <1>1 DEF Consistent, TypeOK, Call, Op, CallConsistent, AccessConsistent
  <1>4. /\ c \in Ctx /\ n \in Lvid /\ n + 1 \in 0 .. MaxLvid /\ call.goal \in 0 .. MaxLvid
        /\ call.base = call.lvid /\ call.lvid <= n /\ n < call.goal
        /\ call.lvid \in Lvid
    BY <1>1, <1>3, ConfigAssumption
       DEF Consistent, TypeOK, Call, AllocationConsistent, Lvid
  <1>5. call' \in Call
    BY <1>2, CallStages DEF Consistent, Stage
  <1>6. /\ call'.op = "allocate" /\ call'.ctx = c /\ call'.lvid = call.lvid
        /\ call'.base = call.base /\ call'.goal = call.goal
        /\ call'.stage = IF n + 1 = call.goal THEN "register" ELSE "grow"
    BY <1>2, <1>3 DEF Consistent, TypeOK, At, Call
  <1>7. TypeOK'
    BY <1>1, <1>2, <1>4, <1>5 DEF Consistent, TypeOK, blocks, pools
  <1>8. size'[c] = n + 1 /\ table'[c][n] = b /\ refs'[b] = 1
    BY <1>2, <1>4 DEF Consistent, TypeOK
  <1>9. Pending' = Pending \cup {n}
    BY <1>4, <1>6, <1>8, ConfigAssumption DEF Pending, Lvid
  <1>10. \A l \in Pending : /\ l \in Lvid /\ l # n /\ table[c][l] \in Block
                            /\ table'[c][l] = table[c][l] /\ table[c][l] # b
                            /\ refs'[table[c][l]] > 0
    BY <1>1, <1>2, <1>3, <1>4, ConfigAssumption
       DEF Consistent, TypeOK, AllocationConsistent, Pending, Lvid
  <1>11. \A l \in Pending' :
            /\ table'[c][l] \in Block /\ refs'[table'[c][l]] > 0
            /\ Clean(table'[c][l])
            /\ \A k \in Pending' : k # l => table'[c][k] # table'[c][l]
    <2>1. ASSUME NEW l \in Pending
          PROVE  /\ Clean(table'[c][l])
                 /\ \A k \in Pending : k # l => table'[c][k] # table'[c][l]
      BY <1>3, <1>10 DEF AllocationConsistent
    <2> QED BY <1>1, <1>8, <1>9, <1>10, <2>1
  <1>12. \A l \in Pending' : Clean(table[c][l])'
    BY <1>1, <1>6, <1>11 DEF Clean, blocks, pools
  <1>13. CallConsistent'
    <2>1. AllocationConsistent'
      BY <1>4, <1>6, <1>8, <1>11, <1>12, ConfigAssumption DEF AllocationConsistent, Lvid
    <2> QED BY <1>6, <2>1 DEF CallConsistent
  <1>14. FreeBlocksClean'
    BY <1>1, <1>2, CleanFrame DEF Consistent, TypeOK, FreeBlocks
  <1> QED BY <1>1, <1>7, <1>13, <1>14, AccountingFrame DEF Consistent

\* GrowFails keeps the invariant.
LEMMA GrowFailsStep ==
    ASSUME Consistent, GrowFails
    PROVE  Consistent'
  <1>1. /\ call.stage = "grow" /\ call' = Idle /\ UNCHANGED <<names, blocks, pools, handles>>
        /\ refs' = [b \in Block |-> IF b \in Taken THEN Less(refs[b], 1) ELSE refs[b]]
    BY DEF GrowFails, InStage
  <1>2. call.op = "allocate" /\ AllocationConsistent
    BY <1>1 DEF Consistent, TypeOK, Call, Op, CallConsistent, AccessConsistent
  <1>3. \A b \in Taken : Clean(b)
    <2>1. \A l \in call.base .. size[call.ctx] - 1 : l \in Pending
      BY <1>1, <1>2, ConfigAssumption
         DEF AllocationConsistent, Consistent, TypeOK, Call, Lvid, Pending
    <2> QED BY <1>2, <2>1 DEF Taken, AllocationConsistent
  <1>4. refs' \in [Block -> Nat]
    BY <1>1, LessIsNat DEF Consistent, TypeOK
  <1>5. TypeOK'
    BY <1>1, <1>4, CallStages DEF Consistent, TypeOK, names, blocks, pools
  <1>6. \A b \in FreeBlocks' : Clean(b)
    BY <1>1, <1>3 DEF FreeBlocks, Consistent, FreeBlocksClean
  <1>7. FreeBlocksClean'
    BY <1>1, <1>6 DEF FreeBlocksClean, Clean, blocks, pools
  <1>8. CallConsistent'
    BY <1>1 DEF CallConsistent, Idle
  <1> QED BY <1>1, <1>5, <1>7, <1>8, AccountingFrame DEF Consistent

\* The block being registered is referenced, clean and none of the others.
LEMMA RegisteringFacts ==
    ASSUME Consistent, Registering
    PROVE  /\ AllocationConsistent /\ call.op = "allocate" /\ call.stage = "register"
           /\ call.lvid \in Pending /\ Current \in Block
           /\ refs[Current] > 0 /\ Clean(Current)
           /\ l1' = l1 /\ l2' = l2 /\ UNCHANGED <<refs, names, mem, handles>>
  <1>1. call.stage = "register" /\ UNCHANGED <<refs, names, mem, handles>>
    BY DEF Registering, InStage
  <1>2. call.op = "allocate" /\ AllocationConsistent
    BY <1>1 DEF Consistent, TypeOK, Call, Op, CallConsistent, AccessConsistent
  <1>3. call.lvid \in Pending
    BY <1>1, <1>2, ConfigAssumption
       DEF AllocationConsistent, Consistent, TypeOK, Call, Lvid, Pending
  <1>4. Current \in Block /\ refs[Current] > 0 /\ Clean(Current)
    BY <1>2, <1>3 DEF AllocationConsistent, Current
  <1>5. l1' = l1 /\ l2' = l2
    BY <1>4 DEF Registering, Clean, Consistent, TypeOK
  <1> QED BY <1>1, <1>2, <1>3, <1>4, <1>5

\* Registering a block with metadata that agrees with its missing pages
LEMMA RegisterStep ==
    ASSUME Consistent, Registering, NEW m \in Meta,
           m.allocated, ~m.backed, m.resident <=> m.tier = "L1",
           meta' = [meta EXCEPT ![Current] = m],
           recency' \in [Block -> Nat],
           \A a \in Block : a # Current /\ recency[a] = 0 => recency'[a] = 0,
           residentCount' \in Nat, ResidencyAccounted'
    PROVE  Consistent'
  <1>1. /\ AllocationConsistent /\ call.op = "allocate" /\ call.stage = "register"
        /\ call.lvid \in Pending /\ Current \in Block
        /\ refs[Current] > 0 /\ Clean(Current)
        /\ l1' = l1 /\ l2' = l2 /\ UNCHANGED <<refs, names, mem, handles>>
    BY RegisteringFacts
  <1>2. call' = IF call.lvid + 1 = call.goal THEN Idle ELSE [call EXCEPT !.lvid = @ + 1]
    BY DEF Registering
  <1>3. /\ call.lvid \in Lvid /\ call.goal \in 0 .. MaxLvid /\ call.lvid < call.goal
        /\ call.lvid + 1 # call.goal => call.lvid + 1 \in Lvid /\ call.lvid + 1 < call.goal
    BY <1>1, ConfigAssumption DEF AllocationConsistent, Consistent, TypeOK, Call, Lvid
  <1>4. call' \in Call
    BY <1>2, <1>3, CallStages DEF Consistent, TypeOK, Call
  <1>5. meta' \in [Block -> Meta]
    BY DEF Consistent, TypeOK
  <1>6. TypeOK'
    BY <1>1, <1>4, <1>5 DEF Consistent, TypeOK, names
  <1>7. TestTiersAgree'
    <2>1. Stored' = Stored
      BY <1>1 DEF Stored
    <2> QED BY <1>1, <2>1 DEF Consistent, TypeOK, TestTiersAgree, Clean
  <1>8. \A b \in Block : b # Current /\ Clean(b) => Clean(b)'
    BY <1>1 DEF Clean, Consistent, TypeOK
  <1>9. FreeBlocksClean'
    BY <1>1, <1>8 DEF Consistent, FreeBlocksClean, FreeBlocks
  <1>10. CallConsistent'
    <2>1. CASE call.lvid + 1 = call.goal
      BY <1>2, <2>1 DEF CallConsistent, Idle
    <2>2. CASE call.lvid + 1 # call.goal
      <3>1. /\ call'.op = "allocate" /\ call'.ctx = call.ctx /\ call'.stage = "register"
            /\ call'.lvid = call.lvid + 1 /\ call'.base = call.base /\ call'.goal = call.goal
        BY <1>1, <1>2, <2>2 DEF Consistent, TypeOK, Call
      <3>2. Pending' = Pending \ {call.lvid}
        BY <1>1, <1>3, <3>1, ConfigAssumption
           DEF Pending, Lvid, names, Consistent, TypeOK, AllocationConsistent
      <3>3. \A l \in Pending' : /\ table[call.ctx][l] \in Block
                                /\ table[call.ctx][l] # Current
                                /\ refs[table[call.ctx][l]] > 0
                                /\ Clean(table[call.ctx][l])
                                /\ \A k \in Pending' :
                                      k # l => table[call.ctx][k] # table[call.ctx][l]
        BY <1>1, <3>2 DEF AllocationConsistent, Current
      <3>4. \A l \in Pending' : Clean(table[call.ctx][l])'
        BY <1>1, <1>8, <3>1, <3>3 DEF names, Clean
      <3>5. /\ call'.ctx \in Ctx /\ call'.lvid < call'.goal /\ call'.base <= call'.lvid
            /\ size'[call'.ctx] = call'.goal
        BY <1>1, <1>3, <2>2, <3>1, ConfigAssumption
           DEF AllocationConsistent, names, Lvid, Consistent, TypeOK, Call
      <3>6. table' = table /\ refs' = refs /\ call'.ctx = call.ctx
        BY <1>1, <3>1 DEF names
      <3>7. AllocationConsistent'
        BY <3>1, <3>3, <3>4, <3>5, <3>6 DEF AllocationConsistent
      <3> QED BY <3>1, <3>7 DEF CallConsistent
    <2> QED BY <2>1, <2>2
  <1> QED BY <1>6, <1>7, <1>9, <1>10 DEF Consistent

\* One more block resident, where the limit leaves room
LEMMA OneMoreResident ==
    ASSUME Consistent, NEW b \in Block, ~meta[b].resident,
           residentCount < ResidentLimit, residentCount' = residentCount + 1,
           Resident' = Resident \cup {b}
    PROVE  residentCount' \in Nat /\ ResidencyAccounted'
  <1>1. IsFiniteSet(Resident) /\ b \notin Resident
    BY BlocksAreFinite DEF Resident
  <1>2. Cardinality(Resident') = Cardinality(Resident) + 1
    BY <1>1, FS_AddElement
  <1>3. ResidentLimit \in Nat
    BY ConfigAssumption, FiniteAssumption, FS_CardinalityType
  <1> QED BY <1>2, <1>3 DEF Consistent, TypeOK, ResidencyAccounted

\* RegisterInL1 keeps the invariant.
LEMMA RegisterInL1Step ==
    ASSUME Consistent, RegisterInL1
    PROVE  Consistent'
  <1> DEFINE m == [FreshMeta EXCEPT !.resident = TRUE]
  <1>1. /\ Registering /\ residentCount < ResidentLimit
        /\ meta' = [meta EXCEPT ![Current] = m]
        /\ residentCount' = residentCount + 1 /\ recency' = Touched(Current)
    BY DEF RegisterInL1
  <1>2. m \in Meta /\ m.allocated /\ ~m.backed /\ m.resident /\ m.tier = "L1"
    BY DEF FreshMeta, DefaultMeta, Meta, Tier
  <1> HIDE DEF m
  <1>3. Current \in Block /\ ~meta[Current].resident
    BY <1>1, RegisteringFacts DEF Clean, DefaultMeta
  <1>4. Resident' = Resident \cup {Current}
    BY <1>1, <1>2, <1>3 DEF Resident, Consistent, TypeOK
  <1>5. residentCount' \in Nat /\ ResidencyAccounted'
    BY <1>1, <1>3, <1>4, OneMoreResident
  <1>6. /\ recency' \in [Block -> Nat]
        /\ \A a \in Block : a # Current /\ recency[a] = 0 => recency'[a] = 0
    BY <1>1, TouchedRecency DEF Consistent, TypeOK
  <1> QED BY <1>1, <1>2, <1>5, <1>6, RegisterStep

\* RegisterInL2 keeps the invariant.
LEMMA RegisterInL2Step ==
    ASSUME Consistent, RegisterInL2
    PROVE  Consistent'
  <1> DEFINE m == [FreshMeta EXCEPT !.tier = "L2"]
  <1>1. /\ Registering /\ meta' = [meta EXCEPT ![Current] = m]
        /\ residentCount' = residentCount /\ recency' = Forgotten({Current})
    BY DEF RegisterInL2
  <1>2. m \in Meta /\ m.allocated /\ ~m.backed /\ ~m.resident /\ m.tier # "L1"
    BY DEF FreshMeta, DefaultMeta, Meta, Tier
  <1> HIDE DEF m
  <1>3. Current \in Block /\ ~meta[Current].resident
    BY <1>1, RegisteringFacts DEF Clean, DefaultMeta
  <1>4. Resident' = Resident
    BY <1>1, <1>2, <1>3 DEF Resident, Consistent, TypeOK
  <1>5. residentCount' \in Nat /\ ResidencyAccounted'
    BY <1>1, <1>4 DEF Consistent, TypeOK, ResidencyAccounted
  <1>6. /\ recency' \in [Block -> Nat]
        /\ \A a \in Block : a # Current /\ recency[a] = 0 => recency'[a] = 0
    BY <1>1, ForgottenRecency DEF Consistent, TypeOK
  <1> QED BY <1>1, <1>2, <1>5, <1>6, RegisterStep

-----------------------------------------------------------------------------
(* Copy on write *)

\* A call past its reclaim has a block of its own to work on.
LEMMA AccessFacts ==
    ASSUME Consistent, call.stage \in {"prepare", "clone", "ensure", "pin", "demote"}
    PROVE  /\ AccessConsistent /\ call.op \in {"prepare", "map", "remap"}
           /\ call.ctx \in Ctx /\ call.lvid \in Lvid /\ Current \in Block
           /\ refs[Current] > 0 /\ meta[Current].allocated
  <1>1. call.op \in {"prepare", "map", "remap"}
    BY DEF Consistent, TypeOK, Call, Op, CallConsistent, AllocationConsistent
  <1> QED BY <1>1 DEF Consistent, TypeOK, Call, CallConsistent, AccessConsistent

\* A step that changes one block in use leaves the free blocks clean.
LEMMA OneBlockChanges ==
    ASSUME Consistent, call.stage # "reclaim", NEW b \in Block,
           \A a \in Block : refs'[a] = 0 => a # b /\ refs[a] = 0,
           \A a \in Block \ {b} : /\ meta'[a] = meta[a]
                                  /\ l1'[a] = l1[a] /\ l2'[a] = l2[a]
                                  /\ recency[a] = 0 => recency'[a] = 0
    PROVE  FreeBlocksClean'
  BY DEF Consistent, FreeBlocksClean, FreeBlocks, Clean

\* What a block holds is a value.
LEMMA DataIsValue ==
    ASSUME TypeOK, NEW b \in Block
    PROVE  L1Data(b) \in Value /\ L2Data(b) \in Value /\ CloneSource(b) \in Value
  BY ZeroAssumption DEF TypeOK, L1Data, L2Data, CloneSource

\* One more page in the L2 pool, where its limit leaves room
LEMMA OneMoreStored ==
    ASSUME Consistent, NEW b \in Block, L2CanAcquire(b), Stored' = Stored \cup {b}
    PROVE  Cardinality(Stored') <= L2Limit
  <1>1. IsFiniteSet(Stored) /\ Cardinality(Stored) \in Nat
    BY BlocksAreFinite DEF Stored
  <1>2. L2Limit \in Nat
    BY ConfigAssumption, FiniteAssumption, FS_CardinalityType
  <1>3. CASE l2[b] # Nil
    <2>1. Stored' = Stored
      BY <1>3 DEF Stored
    <2> QED BY <2>1 DEF Consistent, TestTiersAgree
  <1>4. CASE l2[b] = Nil
    <2>1. b \notin Stored /\ Cardinality(Stored) < L2Limit
      BY <1>1, <1>2, <1>4 DEF Stored, L2CanAcquire, L2Full
    <2>2. Cardinality(Stored') = Cardinality(Stored) + 1
      BY <1>1, <2>1, FS_AddElement
    <2> QED BY <1>1, <1>2, <2>1, <2>2
  <1> QED BY <1>3, <1>4

\* CowRemap keeps the invariant.
LEMMA CowRemapStep ==
    ASSUME Consistent, NEW n \in Block, CowRemap(n)
    PROVE  Consistent'
  <1> DEFINE m == [FreshMeta EXCEPT !.tier = "L2"]
  <1>1. /\ call.stage = "prepare" /\ refs[Current] > 1 /\ refs[n] = 0
        /\ refs' = [refs EXCEPT ![Current] = @ - 1, ![n] = 1]
        /\ table' = [table EXCEPT ![call.ctx][call.lvid] = n]
        /\ meta' = [meta EXCEPT ![n] = m] /\ recency' = Forgotten({n})
        /\ call' = [At("clone") EXCEPT !.src = Current]
        /\ UNCHANGED <<live, size, residentCount, pools, handles>>
    BY DEF CowRemap, InStage, MustCopy, FreeBlocks
  <1>2. m \in Meta /\ m.allocated /\ ~m.backed /\ ~m.resident /\ m.tier = "L2"
    BY DEF FreshMeta, DefaultMeta, Meta, Tier
  <1> HIDE DEF m
  <1>3. /\ AccessConsistent /\ call.op \in {"prepare", "map", "remap"}
        /\ call.ctx \in Ctx /\ call.lvid \in Lvid /\ Current \in Block
    BY <1>1, AccessFacts
  <1>4. Clean(n) /\ n # Current
    BY <1>1 DEF Consistent, FreeBlocksClean, FreeBlocks
  <1>5. call' \in Call
    BY <1>1, <1>3 DEF Consistent, TypeOK, At, Call, Stage
  <1>6. /\ call'.stage = "clone" /\ call'.op = call.op /\ call'.ctx = call.ctx
        /\ call'.lvid = call.lvid /\ call'.handle = call.handle /\ call'.src = Current
    BY <1>1 DEF Consistent, TypeOK, At, Call
  <1>7. /\ refs' \in [Block -> Nat]
        /\ \A a \in Block : refs'[a] = 0 => a # n /\ refs[a] = 0
    BY <1>1, <1>3 DEF Consistent, TypeOK
  <1>8. /\ recency' \in [Block -> Nat]
        /\ \A a \in Block : recency[a] = 0 => recency'[a] = 0
    BY <1>1, ForgottenRecency DEF Consistent, TypeOK
  <1>9. TypeOK'
    BY <1>1, <1>2, <1>3, <1>5, <1>7, <1>8 DEF Consistent, TypeOK, pools
  <1>10. Resident' = Resident /\ Stored' = Stored
    BY <1>1, <1>2, <1>4 DEF Resident, Stored, Clean, DefaultMeta, Consistent, TypeOK, pools
  <1>11. ResidencyAccounted'
    BY <1>1, <1>10 DEF Consistent, ResidencyAccounted
  <1>12. TestTiersAgree'
    BY <1>1, <1>2, <1>4, <1>10 DEF Consistent, TypeOK, TestTiersAgree, Clean, pools
  <1>13. FreeBlocksClean'
    BY <1>1, <1>7, <1>8, OneBlockChanges DEF Consistent, TypeOK, pools
  <1>14. Current' = n
    BY <1>1, <1>3, <1>6 DEF Current, Consistent, TypeOK
  <1>15. refs'[n] = 1 /\ meta'[n].allocated /\ meta'[n].tier = "L2"
    BY <1>1, <1>2, <1>4 DEF Consistent, TypeOK
  <1>16. CallConsistent'
    BY <1>1, <1>3, <1>6, <1>14, <1>15 DEF CallConsistent, AccessConsistent
  <1> QED BY <1>9, <1>11, <1>12, <1>13, <1>16 DEF Consistent

\* CloneBlockData keeps the invariant.
LEMMA CloneBlockDataStep ==
    ASSUME Consistent, CloneBlockData
    PROVE  Consistent'
  <1>1. /\ call.stage = "clone" /\ L2CanAcquire(Current)
        /\ l2' = [l2 EXCEPT ![Current] = CloneSource(call.src)]
        /\ l1' = [l1 EXCEPT ![Current] = Nil]
        /\ meta' = [meta EXCEPT ![Current].backed = TRUE]
        /\ call' = [Prepared EXCEPT !.src = Nil]
        /\ UNCHANGED <<refs, names, recency, residentCount, mem, handles>>
    BY DEF CloneBlockData, InStage
  <1>2. /\ AccessConsistent /\ call.op \in {"prepare", "map", "remap"}
        /\ call.ctx \in Ctx /\ call.lvid \in Lvid /\ Current \in Block
        /\ refs[Current] > 0 /\ meta[Current].allocated /\ call.src \in Block
    BY <1>1, AccessFacts DEF AccessConsistent
  <1>3. CloneSource(call.src) \in Value
    BY <1>2, DataIsValue DEF Consistent
  <1>4. meta' \in [Block -> Meta] /\ meta'[Current].allocated
    BY <1>1, <1>2 DEF Consistent, TypeOK, Meta
  <1>5. call' \in Call /\ CallConsistent'
    <2>1. CASE call.op = "map"
      <3>1. call' = [At("reclaim") EXCEPT !.src = Nil]
        BY <1>1, <2>1 DEF Prepared
      <3>2. call' \in Call
        BY <3>1 DEF Consistent, TypeOK, At, Call, Stage
      <3>3. /\ call'.stage = "reclaim" /\ call'.op = "map" /\ call'.ctx = call.ctx
            /\ call'.lvid = call.lvid /\ call'.handle = call.handle
        BY <2>1, <3>1 DEF Consistent, TypeOK, At, Call
      <3>4. Current' = Current
        BY <1>1, <3>3 DEF Current, names
      <3> QED BY <1>1, <1>2, <1>4, <2>1, <3>2, <3>3, <3>4 DEF CallConsistent, AccessConsistent
    <2>2. CASE call.op \in {"prepare", "remap"}
      <3>1. call' = Idle
        BY <1>1, <2>2 DEF Prepared, Idle
      <3> QED BY <3>1, CallStages DEF Consistent, CallConsistent, Idle
    <2> QED BY <1>2, <2>1, <2>2
  <1>6. TypeOK'
    BY <1>1, <1>3, <1>4, <1>5 DEF Consistent, TypeOK, names
  <1>7. Resident' = Resident /\ Stored' = Stored \cup {Current}
    BY <1>1, <1>2, <1>3, NilAssumption DEF Resident, Stored, Consistent, TypeOK, Meta
  <1>8. ResidencyAccounted'
    BY <1>1, <1>7 DEF Consistent, ResidencyAccounted
  <1>9. TestTiersAgree'
    <2>1. Cardinality(Stored') <= L2Limit
      BY <1>1, <1>2, <1>7, OneMoreStored
    <2>2. \A b \in Block : /\ meta'[b].allocated = meta[b].allocated
                           /\ meta'[b].resident = meta[b].resident
                           /\ meta'[b].tier = meta[b].tier
                           /\ l1'[b] \in {l1[b], Nil}
                           /\ meta'[b].backed <=> l2'[b] # Nil
                           /\ l2'[b] = l2[b] \/ meta[b].tier = "L2"
      BY <1>1, <1>2, <1>3, NilAssumption
         DEF Consistent, TypeOK, TestTiersAgree, Meta, AccessConsistent
    <2> QED BY <2>1, <2>2 DEF Consistent, TestTiersAgree
  <1>10. FreeBlocksClean'
    BY <1>1, <1>2, OneBlockChanges DEF Consistent, TypeOK
  <1> QED BY <1>5, <1>6, <1>8, <1>9, <1>10 DEF Consistent

-----------------------------------------------------------------------------
(* Residency and pins *)

\* The step from "ensure" to "pin", once the block is resident
LEMMA EnterPin ==
    ASSUME Consistent, call.stage = "ensure", call' = At("pin"),
           UNCHANGED <<refs, names>>,
           meta'[Current].allocated, meta'[Current].resident
    PROVE  call' \in Call /\ CallConsistent'
  <1>1. AccessConsistent /\ call.op \in {"map", "remap"}
    BY AccessFacts DEF AccessConsistent
  <1>2. call' \in Call
    BY CallStages DEF Consistent, Stage
  <1>3. /\ call'.stage = "pin" /\ call'.op = call.op /\ call'.ctx = call.ctx
        /\ call'.lvid = call.lvid /\ call'.handle = call.handle
    BY <1>1 DEF Consistent, TypeOK, At, Call
  <1>4. Current' = Current
    BY <1>3 DEF Current, names
  <1> QED BY <1>1, <1>2, <1>3, <1>4 DEF CallConsistent, AccessConsistent

\* AlreadyResident keeps the invariant.
LEMMA AlreadyResidentStep ==
    ASSUME Consistent, AlreadyResident
    PROVE  Consistent'
  <1>1. /\ call.stage = "ensure" /\ meta[Current].resident
        /\ meta' = [meta EXCEPT ![Current].tier = "L1"]
        /\ recency' = Touched(Current) /\ call' = At("pin")
        /\ UNCHANGED <<refs, names, residentCount, pools, handles>>
    BY DEF AlreadyResident, InStage
  <1>2. Current \in Block /\ refs[Current] > 0 /\ meta[Current].allocated
    BY <1>1, AccessFacts
  <1>3. meta' \in [Block -> Meta] /\ meta'[Current].allocated /\ meta'[Current].resident
    BY <1>1, <1>2 DEF Consistent, TypeOK, Meta, Tier
  <1>4. call' \in Call /\ CallConsistent'
    BY <1>1, <1>3, EnterPin
  <1>5. /\ recency' \in [Block -> Nat]
        /\ \A a \in Block \ {Current} : recency[a] = 0 => recency'[a] = 0
    BY <1>1, TouchedRecency DEF Consistent, TypeOK
  <1>6. TypeOK'
    BY <1>1, <1>3, <1>4, <1>5 DEF Consistent, TypeOK, names, pools
  <1>7. Resident' = Resident /\ Stored' = Stored
    BY <1>1, <1>2 DEF Resident, Stored, Consistent, TypeOK, Meta, pools
  <1>8. ResidencyAccounted' /\ TestTiersAgree'
    BY <1>1, <1>2, <1>7
       DEF Consistent, TypeOK, Meta, ResidencyAccounted, TestTiersAgree, pools
  <1>9. FreeBlocksClean'
    BY <1>1, <1>2, <1>5, OneBlockChanges DEF Consistent, TypeOK, pools
  <1> QED BY <1>4, <1>6, <1>8, <1>9 DEF Consistent

\* MoveBlockToL2 keeps the accounting.
LEMMA MoveToL2Facts ==
    ASSUME Consistent, NEW v \in Block, call.stage # "reclaim",
           meta[v].resident, L2CanAcquire(v),
           l2' = [l2 EXCEPT ![v] = L1Data(v)], l1' = [l1 EXCEPT ![v] = Nil],
           meta' = [meta EXCEPT ![v] =
                      [@ EXCEPT !.resident = FALSE, !.tier = "L2", !.backed = TRUE]],
           residentCount' = Less(residentCount, Leaving({v})),
           UNCHANGED <<refs, recency>>
    PROVE  /\ meta' \in [Block -> Meta] /\ residentCount' \in Nat
           /\ l1' \in [Block -> Page \cup {Nil}] /\ l2' \in [Block -> Value \cup {Nil}]
           /\ ResidencyAccounted' /\ TestTiersAgree' /\ FreeBlocksClean'
  <1> DEFINE m == [meta[v] EXCEPT !.resident = FALSE, !.tier = "L2", !.backed = TRUE]
  <1>1. meta' = [meta EXCEPT ![v] = m] /\ meta[v].allocated
    BY DEF Consistent, TypeOK, TestTiersAgree
  <1>2. m \in Meta /\ ~m.resident /\ m.tier = "L2" /\ m.backed
    BY DEF Consistent, TypeOK, Meta, Tier
  <1> HIDE DEF m
  <1>3. refs[v] > 0
    BY <1>1 DEF Consistent, TypeOK, FreeBlocksClean, FreeBlocks, Clean, DefaultMeta
  <1>4. L1Data(v) \in Value
    BY DataIsValue DEF Consistent
  <1>5. /\ meta' \in [Block -> Meta]
        /\ l1' \in [Block -> Page \cup {Nil}] /\ l2' \in [Block -> Value \cup {Nil}]
    BY <1>1, <1>2, <1>4 DEF Consistent, TypeOK
  <1>6. Resident' = Resident \ {v} /\ Stored' = Stored \cup {v}
    BY <1>1, <1>2, <1>4, NilAssumption DEF Resident, Stored, Consistent, TypeOK, Meta
  <1>7. residentCount' \in Nat /\ ResidencyAccounted'
    BY <1>6, LeavingIsCounted
  <1>8. TestTiersAgree'
    <2>1. Cardinality(Stored') <= L2Limit
      BY <1>6, OneMoreStored
    <2>2. /\ ~meta'[v].resident /\ meta'[v].tier = "L2" /\ meta'[v].backed
          /\ l1'[v] = Nil /\ l2'[v] # Nil
      BY <1>1, <1>2, <1>4, NilAssumption DEF Consistent, TypeOK
    <2>3. \A b \in Block \ {v} : meta'[b] = meta[b] /\ l1'[b] = l1[b] /\ l2'[b] = l2[b]
      BY <1>1 DEF Consistent, TypeOK
    <2> QED BY <2>1, <2>2, <2>3 DEF Consistent, TestTiersAgree
  <1>9. FreeBlocksClean'
    BY <1>1, <1>3, OneBlockChanges DEF Consistent, TypeOK
  <1> QED BY <1>5, <1>7, <1>8, <1>9

\* EvictVictim keeps the invariant.
LEMMA EvictVictimStep ==
    ASSUME Consistent, NEW v \in Block, EvictVictim(v)
    PROVE  Consistent'
  <1>1. /\ call.stage = "ensure" /\ meta[v].resident /\ v # Current
        /\ UNCHANGED <<refs, names, recency, mem, handles, call>>
    BY DEF EvictVictim, NeedsRoom, InStage, IsVictim, Evictable
  <1>2. AccessConsistent /\ call.op \in {"prepare", "map", "remap"} /\ Current \in Block
    BY <1>1, AccessFacts
  <1>3. /\ meta' \in [Block -> Meta] /\ residentCount' \in Nat
        /\ l1' \in [Block -> Page \cup {Nil}] /\ l2' \in [Block -> Value \cup {Nil}]
        /\ ResidencyAccounted' /\ TestTiersAgree' /\ FreeBlocksClean'
    BY <1>1, MoveToL2Facts DEF EvictVictim
  <1>4. TypeOK'
    BY <1>1, <1>3 DEF Consistent, TypeOK, names
  <1>5. CallConsistent'
    <2>1. Current' = Current /\ meta'[Current] = meta[Current]
      BY <1>1, <1>2 DEF Current, names, Consistent, TypeOK, EvictVictim
    <2> QED BY <1>1, <1>2, <2>1 DEF Consistent, CallConsistent, AccessConsistent
  <1> QED BY <1>3, <1>4, <1>5 DEF Consistent

\* The page a block is given is nobody else's.
LEMMA PageIsOwn ==
    ASSUME Consistent, NEW b \in Block, NEW p \in Page, p \in L1PageFor(b)
    PROVE  p # Nil /\ \A a \in Block \ {b} : l1[a] # p
  <1>1. p # Nil
    BY NilAssumption
  <1> QED BY <1>1 DEF Consistent, TestTiersAgree, L1PageFor

\* Promote keeps the invariant.
LEMMA PromoteStep ==
    ASSUME Consistent, NEW p \in Page, Promote(p)
    PROVE  Consistent'
  <1>1. /\ call.stage = "ensure" /\ ~meta[Current].resident
        /\ residentCount < ResidentLimit /\ p \in L1PageFor(Current)
        /\ l1' = [l1 EXCEPT ![Current] = p]
        /\ mem' = [mem EXCEPT ![p] = L2Data(Current)]
        /\ meta' = [meta EXCEPT ![Current].resident = TRUE, ![Current].tier = "L1"]
        /\ residentCount' = residentCount + 1 /\ recency' = Touched(Current)
        /\ call' = At("pin") /\ UNCHANGED <<refs, names, l2, handles>>
    BY DEF Promote, InStage
  <1>2. Current \in Block /\ refs[Current] > 0 /\ meta[Current].allocated
    BY <1>1, AccessFacts
  <1>3. p # Nil /\ \A a \in Block \ {Current} : l1[a] # p
    BY <1>1, <1>2, PageIsOwn
  <1>4. meta' \in [Block -> Meta] /\ meta'[Current].allocated /\ meta'[Current].resident
    <2> DEFINE new == [meta[Current] EXCEPT !.resident = TRUE, !.tier = "L1"]
    <2>1. meta \in [Block -> Meta] /\ meta[Current] \in Meta
      BY <1>2 DEF Consistent, TypeOK
    <2>2. new \in Meta /\ new.allocated /\ new.resident
      BY <1>2, <2>1 DEF Meta, Tier
    <2>3. meta' = [meta EXCEPT ![Current] = new]
      BY <1>1, <1>2, <2>1
    <2> HIDE DEF new
    <2> QED BY <1>2, <2>1, <2>2, <2>3
  <1>5. call' \in Call /\ CallConsistent'
    BY <1>1, <1>4, EnterPin
  <1>6. /\ recency' \in [Block -> Nat]
        /\ \A a \in Block \ {Current} : recency[a] = 0 => recency'[a] = 0
    BY <1>1, TouchedRecency DEF Consistent, TypeOK
  <1>7. Resident' = Resident \cup {Current} /\ Stored' = Stored
    BY <1>1, <1>2 DEF Resident, Stored, Consistent, TypeOK, Meta
  <1>8. residentCount' \in Nat /\ ResidencyAccounted'
    BY <1>1, <1>2, <1>7, OneMoreResident
  <1>9. mem' \in [Page -> Value]
    BY <1>1, <1>2, DataIsValue DEF Consistent, TypeOK
  <1>10. TypeOK'
    BY <1>1, <1>4, <1>5, <1>6, <1>8, <1>9 DEF Consistent, TypeOK, names
  <1>11. TestTiersAgree'
    <2>1. /\ meta'[Current].resident /\ meta'[Current].tier = "L1" /\ l1'[Current] = p
          /\ meta'[Current].allocated /\ meta'[Current].backed = meta[Current].backed
      BY <1>1, <1>2 DEF Consistent, TypeOK, Meta
    <2>2. \A b \in Block \ {Current} : meta'[b] = meta[b] /\ l1'[b] = l1[b]
      BY <1>1 DEF Consistent, TypeOK
    <2>3. /\ \A b \in Block :
               /\ meta[b].resident => meta[b].allocated /\ meta[b].tier = "L1"
               /\ meta[b].tier = "L1" /\ ~meta[b].resident => l2[b] = Nil
               /\ meta[b].backed <=> l2[b] # Nil
               /\ l1[b] # Nil => meta[b].resident
          /\ \A a, b \in Block : a # b /\ l1[a] # Nil => l1[a] # l1[b]
      BY DEF Consistent, TestTiersAgree
    <2>4. \A b \in Block : /\ meta'[b].resident => meta'[b].allocated /\ meta'[b].tier = "L1"
                           /\ meta'[b].tier = "L1" /\ ~meta'[b].resident => l2'[b] = Nil
                           /\ meta'[b].backed <=> l2'[b] # Nil
                           /\ l1'[b] # Nil => meta'[b].resident
      BY <1>1, <2>1, <2>2, <2>3
    <2>5. \A a, b \in Block : a # b /\ l1'[a] # Nil => l1'[a] # l1'[b]
      BY <1>3, <2>1, <2>2, <2>3
    <2>6. Cardinality(Stored') <= L2Limit
      BY <1>7 DEF Consistent, TestTiersAgree
    <2> QED BY <2>4, <2>5, <2>6 DEF TestTiersAgree
  <1>12. FreeBlocksClean'
    BY <1>1, <1>2, <1>6, OneBlockChanges DEF Consistent, TypeOK
  <1> QED BY <1>5, <1>8, <1>10, <1>11, <1>12 DEF Consistent

\* Pin keeps the invariant.
LEMMA PinStep ==
    ASSUME Consistent, NEW p \in Page, Pin(p)
    PROVE  Consistent'
  <1> DEFINE m == [ctx |-> call.ctx, lvid |-> call.lvid, block |-> Current,
                   page |-> p, write |-> call.write]
  <1>1. /\ call.stage = "pin" /\ p \in L1PageFor(Current)
        /\ l1' = [l1 EXCEPT ![Current] = p]
        /\ mem' = [mem EXCEPT ![p] = L1Data(Current)]
        /\ meta' = [meta EXCEPT ![Current].pins = @ + 1]
        /\ recency' = Touched(Current)
        /\ handles' = [handles EXCEPT ![call.handle] = m]
        /\ call' = Idle /\ UNCHANGED <<refs, names, residentCount, l2>>
    BY DEF Pin, InStage
  <1>2. /\ AccessConsistent /\ call.ctx \in Ctx /\ call.lvid \in Lvid
        /\ Current \in Block /\ refs[Current] > 0
    BY <1>1, AccessFacts
  <1>3. meta[Current].allocated /\ meta[Current].resident
    BY <1>1, <1>2 DEF AccessConsistent
  <1>4. m \in Mapping
    BY <1>2 DEF Mapping, Consistent, TypeOK, Call
  <1> HIDE DEF m
  <1>5. handles' \in [Handle -> Mapping \cup {Nil}]
    BY <1>1, <1>4 DEF Consistent, TypeOK
  <1>6. p # Nil /\ \A a \in Block \ {Current} : l1[a] # p
    BY <1>1, <1>2, PageIsOwn
  <1>7. meta' \in [Block -> Meta]
    <2>1. meta \in [Block -> Meta] /\ meta[Current] \in Meta
      BY <1>2 DEF Consistent, TypeOK
    <2>2. [meta[Current] EXCEPT !.pins = @ + 1] \in Meta
      BY <2>1 DEF Meta
    <2>3. meta' = [meta EXCEPT ![Current] = [meta[Current] EXCEPT !.pins = @ + 1]]
      BY <1>1, <1>2, <2>1
    <2> QED BY <1>2, <2>1, <2>2, <2>3
  <1>8. /\ recency' \in [Block -> Nat]
        /\ \A a \in Block \ {Current} : recency[a] = 0 => recency'[a] = 0
    BY <1>1, TouchedRecency DEF Consistent, TypeOK
  <1>9. mem' \in [Page -> Value]
    BY <1>1, <1>2, DataIsValue DEF Consistent, TypeOK
  <1>10. TypeOK'
    BY <1>1, <1>5, <1>7, <1>8, <1>9, CallStages DEF Consistent, TypeOK, names
  <1>11. /\ \A b \in Block : /\ meta'[b].resident = meta[b].resident
                             /\ meta'[b].allocated = meta[b].allocated
                             /\ meta'[b].tier = meta[b].tier
                             /\ meta'[b].backed = meta[b].backed
         /\ \A b \in Block \ {Current} : l1'[b] = l1[b] /\ meta'[b] = meta[b]
         /\ l1'[Current] = p
    BY <1>1, <1>2 DEF Consistent, TypeOK, Meta
  <1>12. Resident' = Resident /\ Stored' = Stored
    BY <1>1, <1>11 DEF Resident, Stored
  <1>13. ResidencyAccounted'
    BY <1>1, <1>12 DEF Consistent, ResidencyAccounted
  <1>14. TestTiersAgree'
    BY <1>1, <1>3, <1>6, <1>11, <1>12 DEF Consistent, TestTiersAgree
  <1>15. FreeBlocksClean'
    BY <1>1, <1>2, <1>8, <1>11, OneBlockChanges DEF Consistent, TypeOK
  <1>16. CallConsistent'
    BY <1>1 DEF CallConsistent, Idle
  <1> QED BY <1>10, <1>13, <1>14, <1>15, <1>16 DEF Consistent

\* The error returns after which nothing has changed since the last stage
LEMMA FailingStep ==
    ASSUME Consistent, CowFails \/ CloneFails \/ EvictFails \/ PromoteFails \/ PinFails
    PROVE  Consistent'
  <1>1. /\ call.stage # "reclaim" /\ call' = Idle
        /\ UNCHANGED <<refs, names, blocks, pools, handles>>
    BY DEF CowFails, CloneFails, EvictFails, NeedsRoom, PromoteFails, PinFails, InStage
  <1> QED BY <1>1, ReturnStep

-----------------------------------------------------------------------------
(* The host's writes, and unmapping *)

\* A store through a host pointer keeps the invariant.
LEMMA HostWriteStep ==
    ASSUME Consistent, NEW h \in Handle, NEW v \in Value, HostWrite(h, v)
    PROVE  Consistent'
  <1>1. /\ mem' = [mem EXCEPT ![handles[h].page] = v]
        /\ UNCHANGED <<refs, names, blocks, l1, l2, handles, call>>
    BY DEF HostWrite
  <1>2. TypeOK'
    BY <1>1 DEF Consistent, TypeOK, names, blocks
  <1>3. Resident' = Resident /\ Stored' = Stored
    BY <1>1 DEF Resident, Stored, blocks
  <1>4. ResidencyAccounted' /\ TestTiersAgree'
    BY <1>1, <1>3 DEF Consistent, ResidencyAccounted, TestTiersAgree, blocks
  <1>5. FreeBlocksClean'
    BY <1>1 DEF Consistent, FreeBlocksClean, FreeBlocks, Clean, blocks
  <1>6. CallConsistent'
    <2>1. Current' = Current /\ Pending' = Pending
      BY <1>1 DEF Current, Pending, names
    <2> QED BY <1>1, <2>1 DEF Consistent, CallConsistent, AccessConsistent,
                              AllocationConsistent, Clean, names, blocks
  <1> QED BY <1>2, <1>4, <1>5, <1>6 DEF Consistent

\* Unmapping changes the metadata, and perhaps the L2 page, of a block in use.
LEMMA UnmapFacts ==
    ASSUME Consistent, NEW b \in Block, meta[b].allocated, NEW write \in BOOLEAN,
           Unmap(b, write)
    PROVE  /\ meta' \in [Block -> Meta] /\ recency' \in [Block -> Nat]
           /\ l2' \in [Block -> Value \cup {Nil}]
           /\ call.stage = "idle" /\ call' = Idle
           /\ UNCHANGED <<refs, names, residentCount, l1, mem>>
           /\ ResidencyAccounted' /\ TestTiersAgree' /\ FreeBlocksClean'
  <1>1. /\ call.stage = "idle" /\ call' = Idle
        /\ UNCHANGED <<refs, names, residentCount, l1, mem>>
        /\ UnmapRead(b) \/ UnmapWrite(b) \/ UnmapWriteFails(b) \/ UnmapWriteEvicted(b)
    BY DEF Unmap, Starts
  <1>2. L1Data(b) \in Value /\ L1Data(b) # Nil
    BY DataIsValue, NilAssumption DEF Consistent
  <1>3. /\ Unpinned(b) \in Meta
        /\ Unpinned(b).allocated = meta[b].allocated
        /\ Unpinned(b).resident = meta[b].resident
        /\ Unpinned(b).tier = meta[b].tier
        /\ Unpinned(b).backed = meta[b].backed
    <2>1. Less(meta[b].pins, 1) \in Nat
      BY LessIsNat DEF Consistent, TypeOK, Meta
    <2> QED BY <2>1 DEF Unpinned, Consistent, TypeOK, Meta
  <1>4. PICK m \in Meta :
           /\ meta' = [meta EXCEPT ![b] = m]
           /\ m.allocated = meta[b].allocated /\ m.resident = meta[b].resident
           /\ m.tier = meta[b].tier
           /\ \/ l2' = l2 /\ m.backed = meta[b].backed
              \/ /\ L2CanAcquire(b) /\ l2' = [l2 EXCEPT ![b] = L1Data(b)] /\ m.backed
                 /\ meta[b].resident
    <2>1. CASE UnmapRead(b)
      BY <1>3, <2>1 DEF UnmapRead
    <2>2. CASE UnmapWrite(b)
      <3> DEFINE m == [Unpinned(b) EXCEPT !.dirty = FALSE, !.backed = TRUE]
      <3>1. /\ m \in Meta /\ m.backed /\ m.allocated = meta[b].allocated
            /\ m.resident = meta[b].resident /\ m.tier = meta[b].tier
        BY <1>3 DEF Meta
      <3> QED BY <2>2, <3>1 DEF UnmapWrite
    <2>3. CASE UnmapWriteFails(b) \/ UnmapWriteEvicted(b)
      <3> DEFINE m == [Unpinned(b) EXCEPT !.dirty = TRUE]
      <3>1. /\ m \in Meta /\ m.backed = meta[b].backed /\ m.allocated = meta[b].allocated
            /\ m.resident = meta[b].resident /\ m.tier = meta[b].tier
        BY <1>3 DEF Meta
      <3> QED BY <2>3, <3>1 DEF UnmapWriteFails, UnmapWriteEvicted
    <2> QED BY <1>1, <2>1, <2>2, <2>3
  <1>5. refs[b] > 0
    BY <1>1 DEF Consistent, TypeOK, FreeBlocksClean, FreeBlocks, Clean, DefaultMeta
  <1>6. meta' \in [Block -> Meta] /\ l2' \in [Block -> Value \cup {Nil}]
    BY <1>2, <1>4 DEF Consistent, TypeOK
  <1>7. /\ recency' \in [Block -> Nat]
        /\ \A a \in Block \ {b} : recency[a] = 0 => recency'[a] = 0
    BY <1>1, TouchedRecency
       DEF UnmapRead, UnmapWrite, UnmapWriteFails, UnmapWriteEvicted, Consistent, TypeOK
  <1>8. Resident' = Resident
    <2>1. \A a \in Block : meta'[a].resident = meta[a].resident
      BY <1>4 DEF Consistent, TypeOK
    <2> QED BY <2>1 DEF Resident
  <1>9. \/ Stored' = Stored
        \/ Stored' = Stored \cup {b} /\ L2CanAcquire(b)
    <2>1. CASE l2' = l2
      BY <2>1 DEF Stored
    <2>2. CASE L2CanAcquire(b) /\ l2' = [l2 EXCEPT ![b] = L1Data(b)]
      BY <1>2, <2>2 DEF Stored, Consistent, TypeOK
    <2> QED BY <1>4, <2>1, <2>2
  <1>10. ResidencyAccounted'
    BY <1>1, <1>8 DEF Consistent, ResidencyAccounted
  <1>11. TestTiersAgree'
    <2>1. Cardinality(Stored') <= L2Limit
      BY <1>9, OneMoreStored DEF Consistent, TestTiersAgree
    <2>2. /\ meta'[b].allocated = meta[b].allocated /\ meta'[b].resident = meta[b].resident
          /\ meta'[b].tier = meta[b].tier /\ (meta'[b].backed <=> l2'[b] # Nil)
          /\ l2'[b] = l2[b] \/ meta[b].resident
      BY <1>2, <1>4 DEF Consistent, TypeOK, TestTiersAgree
    <2>3. \A a \in Block \ {b} : meta'[a] = meta[a] /\ l2'[a] = l2[a]
      BY <1>4 DEF Consistent, TypeOK
    <2> QED BY <1>1, <2>1, <2>2, <2>3 DEF Consistent, TestTiersAgree
  <1>12. FreeBlocksClean'
    BY <1>1, <1>4, <1>5, <1>7, OneBlockChanges DEF Consistent, TypeOK
  <1> QED BY <1>1, <1>6, <1>7, <1>10, <1>11, <1>12

\* UnmapLogicalBlock keeps the invariant.
LEMMA UnmapLogicalBlockStep ==
    ASSUME Consistent, NEW h \in Handle, UnmapLogicalBlock(h)
    PROVE  Consistent'
  <1>1. /\ Unmap(handles[h].block, handles[h].write) /\ handles' = [handles EXCEPT ![h] = Nil]
        /\ handles[h] # Nil /\ meta[handles[h].block].allocated
    BY DEF UnmapLogicalBlock, CanUnmap, Resolves
  <1>2. handles[h].block \in Block /\ handles[h].write \in BOOLEAN
    BY <1>1 DEF Consistent, TypeOK, Mapping
  <1>3. /\ meta' \in [Block -> Meta] /\ recency' \in [Block -> Nat]
        /\ l2' \in [Block -> Value \cup {Nil}] /\ call' = Idle
        /\ UNCHANGED <<refs, names, residentCount, l1, mem>>
        /\ ResidencyAccounted' /\ TestTiersAgree' /\ FreeBlocksClean'
    BY <1>1, <1>2, UnmapFacts
  <1>4. TypeOK'
    BY <1>1, <1>3, CallStages DEF Consistent, TypeOK, names
  <1> QED BY <1>3, <1>4 DEF Consistent, CallConsistent, Idle

\* StrayUnmap keeps the invariant.
LEMMA StrayUnmapStep ==
    ASSUME Consistent, NEW c \in Ctx, NEW l \in Lvid, NEW write \in BOOLEAN,
           StrayUnmap(c, l, write)
    PROVE  Consistent'
  <1>1. /\ Unmap(table[c][l], write) /\ handles' = handles
        /\ table[c][l] \in Block /\ meta[table[c][l]].allocated
    BY DEF StrayUnmap, Resolves, Consistent, TypeOK
  <1>2. /\ meta' \in [Block -> Meta] /\ recency' \in [Block -> Nat]
        /\ l2' \in [Block -> Value \cup {Nil}] /\ call' = Idle
        /\ UNCHANGED <<refs, names, residentCount, l1, mem>>
        /\ ResidencyAccounted' /\ TestTiersAgree' /\ FreeBlocksClean'
    BY <1>1, UnmapFacts
  <1>3. TypeOK'
    BY <1>1, <1>2, CallStages DEF Consistent, TypeOK, names
  <1> QED BY <1>2, <1>3 DEF Consistent, CallConsistent, Idle

-----------------------------------------------------------------------------
(* The test API *)

\* What mmu_test_update_mapping does about the tier, if anything
LEMMA TierChangeFacts ==
    ASSUME NEW c \in Ctx, NEW l \in Lvid, NEW tier, NEW q, q = TierChange(c, l, tier)
    PROVE  /\ q \in Call
           /\ \/ q = Idle
              \/ /\ q.stage \in {"reclaim", "demote"} /\ q.op = "remap"
                 /\ q.ctx = c /\ q.lvid = l
  <1> DEFINE Moves(s) == [stage |-> s, op |-> "remap", ctx |-> c, lvid |-> l,
                          write |-> FALSE, handle |-> Nil, src |-> Nil,
                          base |-> 0, goal |-> 0]
  <1>1. q \in {Idle, Moves("reclaim"), Moves("demote")}
    <2>1. CASE tier = "L1"
      BY <2>1 DEF TierChange, Remap, Idle
    <2>2. CASE tier = "L2"
      BY <2>2 DEF TierChange, Remap, Idle
    <2>3. CASE tier # "L1" /\ tier # "L2"
      BY <2>3 DEF TierChange
    <2> QED BY <2>1, <2>2, <2>3
  <1>2. Idle \in Call
    BY ZeroIsInRange, CallRecord DEF Idle, Stage, Op
  <1>3. Moves("reclaim") \in Call /\ Moves("demote") \in Call
    BY ZeroIsInRange, CallRecord DEF Stage, Op
  <1>4. CASE q = Moves("reclaim")
    BY <1>3, <1>4
  <1>5. CASE q = Moves("demote")
    BY <1>3, <1>5
  <1> QED BY <1>1, <1>2, <1>4, <1>5

\* The next stage of a call that moves a block which is in use
LEMMA TierChangeStarts ==
    ASSUME NEW c \in Ctx, NEW l \in Lvid, NEW tier, call' = TierChange(c, l, tier),
           table'[c][l] \in Block, refs'[table'[c][l]] > 0,
           meta'[table'[c][l]].allocated
    PROVE  CallConsistent'
  <1>1. CASE call' = Idle
    BY <1>1 DEF CallConsistent, Idle
  <1>2. CASE call' # Idle
    <2>1. /\ call'.stage \in {"reclaim", "demote"} /\ call'.op = "remap"
          /\ call'.ctx = c /\ call'.lvid = l
      BY <1>2, TierChangeFacts
    <2> QED BY <2>1 DEF CallConsistent, AccessConsistent, Current
  <1> QED BY <1>1, <1>2

\* MigrateBlock keeps the invariant.
LEMMA MigrateBlockStep ==
    ASSUME Consistent, NEW c \in Ctx, NEW l \in Lvid, NEW tier, MigrateBlock(c, l, tier)
    PROVE  Consistent'
  <1>1. /\ UNCHANGED <<refs, names, blocks, pools, handles>> /\ call.stage = "idle"
        /\ call' = TierChange(c, l, tier)
    BY DEF MigrateBlock, Starts
  <1>2. table[c][l] \in Block /\ meta[table[c][l]].allocated
    BY DEF MigrateBlock, Resolves, Consistent, TypeOK
  <1>3. refs[table[c][l]] > 0
    BY <1>1, <1>2 DEF Consistent, TypeOK, FreeBlocksClean, FreeBlocks, Clean, DefaultMeta
  <1>4. TypeOK'
    BY <1>1, TierChangeFacts DEF Consistent, TypeOK, names, blocks, pools
  <1>5. CallConsistent'
    BY <1>1, <1>2, <1>3, TierChangeStarts DEF names, blocks
  <1>6. FreeBlocksClean'
    BY <1>1, CleanFrame DEF FreeBlocks
  <1> QED BY <1>1, <1>4, <1>5, <1>6, AccountingFrame DEF Consistent

\* The old block of a remapped logical block is in use, the new one is not.
LEMMA RemapFacts ==
    ASSUME Consistent, NEW c \in Ctx, NEW l \in Lvid, NEW b \in Block, NEW tier,
           UpdateMapping(c, l, b, tier)
    PROVE  /\ table[c][l] \in Block /\ refs[table[c][l]] > 0 /\ table[c][l] # b
           /\ refs[b] = 0 /\ Clean(b) /\ call.stage = "idle" /\ c \in live
           /\ FreedByRelease(table[c][l]) \in SUBSET Block
           /\ \A a \in Block : a \in FreedByRelease(table[c][l])
                                  <=> a = table[c][l] /\ refs[a] = 1
  <1>1. /\ call.stage = "idle" /\ refs[b] = 0 /\ c \in live
        /\ table[c][l] \in Block /\ meta[table[c][l]].allocated
    BY DEF UpdateMapping, Starts, FreeBlocks, Resolves, Consistent, TypeOK
  <1>2. Clean(b) /\ refs[table[c][l]] > 0
    BY <1>1 DEF Consistent, TypeOK, FreeBlocksClean, FreeBlocks, Clean, DefaultMeta
  <1> QED BY <1>1, <1>2 DEF FreedByRelease, Consistent, TypeOK

\* UpdateMapping keeps the invariant.
LEMMA UpdateMappingStep ==
    ASSUME Consistent, NEW c \in Ctx, NEW l \in Lvid, NEW b \in Block, NEW tier,
           UpdateMapping(c, l, b, tier)
    PROVE  Consistent'
  <1> DEFINE old == table[c][l]
             freed == FreedByRelease(old)
  <1>1. /\ old \in Block /\ refs[old] > 0 /\ old # b
        /\ refs[b] = 0 /\ Clean(b) /\ call.stage = "idle" /\ freed \in SUBSET Block
        /\ \A a \in Block : a \in freed <=> a = old /\ refs[a] = 1
    BY RemapFacts
  <1>2. /\ call' = TierChange(c, l, tier)
        /\ refs' = [refs EXCEPT ![old] = Less(refs[old], 1), ![b] = 1]
        /\ table' = [table EXCEPT ![c][l] = b]
        /\ residentCount' = Less(residentCount, Leaving(freed))
        /\ meta' = [a \in Block |-> IF a = b THEN FreshMeta
                                    ELSE IF a \in freed THEN DefaultMeta ELSE meta[a]]
        /\ recency' = Forgotten(freed \cup {b})
        /\ l1' = [a \in Block |-> IF a \in freed THEN Nil ELSE l1[a]]
        /\ l2' = [a \in Block |-> IF a \in freed THEN Nil ELSE l2[a]]
        /\ UNCHANGED <<live, size, mem, handles>>
    BY DEF UpdateMapping, Starts, Released
  <1> HIDE DEF old, freed
  <1>3. /\ refs' \in [Block -> Nat] /\ refs'[b] = 1
        /\ \A a \in Block : refs'[a] = 0 => a # b /\ (refs[a] = 0 \/ a \in freed)
    BY <1>1, <1>2, LessIsNat DEF Consistent, TypeOK, Less
  <1>4. /\ recency' \in [Block -> Nat]
        /\ \A a \in Block : a \in freed \/ recency[a] = 0 => recency'[a] = 0
    BY <1>2, ForgottenRecency DEF Consistent, TypeOK
  <1>5. /\ FreshMeta \in Meta /\ FreshMeta.allocated /\ FreshMeta.tier = "L1"
        /\ ~FreshMeta.resident /\ ~FreshMeta.backed
        /\ DefaultMeta \in Meta /\ ~DefaultMeta.resident /\ ~DefaultMeta.backed
        /\ DefaultMeta.tier = "L2"
    BY DEF FreshMeta, DefaultMeta, Meta, Tier
  <1>6. meta' \in [Block -> Meta] /\ meta'[b] = FreshMeta
    BY <1>2, <1>5 DEF Consistent, TypeOK
  <1>7. TypeOK'
    <2>1. table' \in [Ctx -> [Lvid -> Block \cup {Nil}]]
      BY <1>2 DEF Consistent, TypeOK
    <2>2. l1' \in [Block -> Page \cup {Nil}] /\ l2' \in [Block -> Value \cup {Nil}]
      BY <1>2 DEF Consistent, TypeOK
    <2>3. residentCount' \in Nat
      BY <1>1, <1>2, LessIsNat, BlocksAreFinite DEF Leaving, Consistent, TypeOK
    <2> QED BY <1>2, <1>3, <1>4, <1>6, <2>1, <2>2, <2>3, TierChangeFacts
            DEF Consistent, TypeOK
  <1>8. CallConsistent'
    <2>1. table'[c][l] = b
      BY <1>2 DEF Consistent, TypeOK
    <2>2. refs'[b] > 0 /\ meta'[b].allocated /\ call' = TierChange(c, l, tier)
      BY <1>2, <1>3, <1>5, <1>6
    <2> QED BY <2>1, <2>2, TierChangeStarts
  <1>9. ResidencyAccounted'
    <2>1. Resident' = Resident \ freed
      BY <1>1, <1>2, <1>5 DEF Resident, Clean
    <2> QED BY <1>1, <1>2, <2>1, LeavingIsCounted
  <1>10. TestTiersAgree'
    <2>1. Stored' \in SUBSET Stored
      BY <1>2 DEF Stored
    <2>2. Cardinality(Stored') <= Cardinality(Stored)
      BY <2>1, BlocksAreFinite, FS_Subset DEF Stored
    <2>3. Cardinality(Stored') \in Nat /\ Cardinality(Stored) \in Nat
      BY <2>1, BlocksAreFinite DEF Stored
    <2>4. Cardinality(Stored') <= L2Limit
      BY <2>2, <2>3, ConfigAssumption DEF Consistent, TestTiersAgree
    <2>5. \A a \in Block : \/ a = b /\ meta'[a] = FreshMeta /\ l1'[a] = Nil /\ l2'[a] = Nil
                           \/ meta'[a] = DefaultMeta /\ l1'[a] = Nil /\ l2'[a] = Nil
                           \/ meta'[a] = meta[a] /\ l1'[a] = l1[a] /\ l2'[a] = l2[a]
      BY <1>1, <1>2 DEF Clean
    <2> QED BY <1>5, <2>4, <2>5 DEF Consistent, TestTiersAgree
  <1>11. FreeBlocksClean'
    <2>1. \A a \in Block \ {b} : a \in freed \/ Clean(a) => Clean(a)'
      BY <1>2, <1>4 DEF Clean
    <2> QED BY <1>1, <1>3, <2>1 DEF Consistent, FreeBlocksClean, FreeBlocks
  <1> QED BY <1>7, <1>8, <1>9, <1>10, <1>11 DEF Consistent

\* DemoteResident and DemoteOther keep the invariant.
LEMMA DemoteStep ==
    ASSUME Consistent, DemoteResident \/ DemoteOther
    PROVE  Consistent'
  <1>1. /\ call.stage = "demote" /\ call' = Idle /\ UNCHANGED <<refs, names, recency, mem, handles>>
    BY DEF DemoteResident, DemoteOther, InStage
  <1>2. Current \in Block /\ refs[Current] > 0 /\ meta[Current].allocated
    BY <1>1, AccessFacts
  <1>3. CallConsistent'
    BY <1>1 DEF CallConsistent, Idle
  <1>4. /\ meta' \in [Block -> Meta] /\ residentCount' \in Nat
        /\ l1' \in [Block -> Page \cup {Nil}] /\ l2' \in [Block -> Value \cup {Nil}]
        /\ ResidencyAccounted' /\ TestTiersAgree' /\ FreeBlocksClean'
    <2>1. CASE DemoteResident
      <3>1. {Current} \cap Resident = {Current}
        BY <1>2, <2>1 DEF DemoteResident, Resident
      <3>2. Leaving({Current}) = 1
        BY <3>1, FS_Singleton DEF Leaving
      <3> QED BY <1>1, <1>2, <2>1, <3>2, MoveToL2Facts DEF DemoteResident
    <2>2. CASE DemoteOther
      <3>1. /\ ~meta[Current].resident /\ l1' = [l1 EXCEPT ![Current] = Nil]
            /\ meta' = [meta EXCEPT ![Current].tier = "L2"]
            /\ l2' = l2 /\ residentCount' = residentCount
        BY <2>2 DEF DemoteOther
      <3>2. /\ meta' \in [Block -> Meta] /\ l1' \in [Block -> Page \cup {Nil}]
            /\ meta'[Current].tier = "L2"
            /\ \A b \in Block : /\ meta'[b].resident = meta[b].resident
                                /\ meta'[b].allocated = meta[b].allocated
                                /\ meta'[b].backed = meta[b].backed
                                /\ b # Current => meta'[b] = meta[b]
            /\ \A b \in Block : l1'[b] = l1[b]
        BY <1>2, <3>1 DEF Consistent, TypeOK, Meta, Tier, TestTiersAgree
      <3>3. Resident' = Resident /\ Stored' = Stored
        BY <3>1, <3>2 DEF Resident, Stored
      <3>4. ResidencyAccounted' /\ TestTiersAgree'
        BY <3>1, <3>2, <3>3 DEF Consistent, ResidencyAccounted, TestTiersAgree
      <3>5. FreeBlocksClean'
        BY <1>1, <1>2, <3>1, <3>2, OneBlockChanges DEF Consistent, TypeOK
      <3> QED BY <3>1, <3>2, <3>4, <3>5 DEF Consistent, TypeOK
    <2> QED BY <2>1, <2>2
  <1>5. TypeOK'
    BY <1>1, <1>4, CallStages DEF Consistent, TypeOK, names
  <1> QED BY <1>3, <1>4, <1>5 DEF Consistent

\* The other steps of the test API return.
LEMMA TestReturnStep ==
    ASSUME Consistent, DemoteFails \/ Promoted
    PROVE  Consistent'
  <1>1. /\ call.stage # "reclaim" /\ call' = Idle
        /\ UNCHANGED <<refs, names, blocks, pools, handles>>
    BY DEF DemoteFails, Promoted, InStage
  <1> QED BY <1>1, ReturnStep

-----------------------------------------------------------------------------
(* The invariant *)

\* A step that changes nothing keeps the invariant.
LEMMA StutterStep ==
    ASSUME Consistent, UNCHANGED vars
    PROVE  Consistent'
  BY DEF vars, Consistent, TypeOK, CallConsistent, AccessConsistent,
         AllocationConsistent, Pending, Current, ResidencyAccounted, Resident,
         TestTiersAgree, Stored, FreeBlocksClean, FreeBlocks, Clean

\* Every step of the runtime keeps the invariant.
LEMMA NextConsistent == Consistent /\ [Next]_vars => Consistent'
  <1> SUFFICES ASSUME Consistent, [Next]_vars PROVE Consistent'
    OBVIOUS
  <1>1. CASE HostCall
    <2> QED BY <1>1, CreateContextStep, DestroyContextStep, ForkContextStep,
               AllocateBlocksStep, ReleaseLogicalBlockStep, PrepareBlockForWriteStep,
               MapLogicalBlockStep, UnmapLogicalBlockStep, StrayUnmapStep
            DEF HostCall
  <1>2. CASE CallStep
    <2> QED BY <1>2, ReclaimStep, GrowTableStep, GrowFailsStep, RegisterInL1Step,
               RegisterInL2Step, WriteInPlaceStep, CowRemapStep, CloneBlockDataStep,
               AlreadyResidentStep, EvictVictimStep, PromoteStep, PinStep, FailingStep
            DEF CallStep
  <1>3. CASE HostStep
    BY <1>3, HostWriteStep DEF HostStep
  <1>4. CASE UNCHANGED vars
    BY <1>4, StutterStep
  <1> QED BY <1>1, <1>2, <1>3, <1>4 DEF Next

\* So does every step of the runtime with its test API.
LEMMA TestNextConsistent == Consistent /\ [TestNext]_vars => Consistent'
  <1> SUFFICES ASSUME Consistent, [TestNext]_vars PROVE Consistent'
    OBVIOUS
  <1>1. CASE TestCall
    BY <1>1, MigrateBlockStep, UpdateMappingStep DEF TestCall
  <1>2. CASE TestStep
    BY <1>2, DemoteStep, TestReturnStep DEF TestStep
  <1> QED BY <1>1, <1>2, NextConsistent DEF TestNext

\* The bookkeeping of the runtime and its test API is consistent between any two
\* stages of any call, whatever the host does.
THEOREM TestApiConsistent == TestSpec => []Consistent
  BY InitConsistent, TestNextConsistent, PTL DEF TestSpec

\* Every behaviour of the runtime is one of the runtime with its test API.
LEMMA TestSpecIsWeaker == Spec => TestSpec
  <1>1. [Next]_vars => [TestNext]_vars
    BY DEF TestNext
  <1> QED BY <1>1, PTL DEF Spec, TestSpec

\* The bookkeeping of the runtime is consistent between any two stages of any
\* call, whatever the host does: the invariant all the others are read off.
THEOREM AlwaysConsistent == Spec => []Consistent
  BY TestSpecIsWeaker, TestApiConsistent, PTL

\* mmu_test_update_mapping leaves the directory and the two page pools in
\* agreement on where a block lives, whichever half of it fails, and the L2 pool
\* within config.l2_block_count.
THEOREM TestTiersAlwaysAgree == TestSpec => []TestTiersAgree
  BY TestApiConsistent, PTL DEF Consistent

\* Every variable keeps its type, the program counter of the call included: no
\* stage of any call leaves an ill-formed record, page table or pin count.
THEOREM TypeCorrect == Spec => []TypeOK
  BY AlwaysConsistent, PTL DEF Consistent

\* resident_count, which decides every eviction in EnsureResidentInL1 and every
\* placement in RegisterFreshBlock, never drifts and respects its limit.
THEOREM ResidencyIsAccounted == Spec => []ResidencyAccounted
  BY AlwaysConsistent, PTL DEF Consistent

\* Without the test API no block is in tier L1 before it is resident.
L1IsResident == \A b \in Block : meta[b].tier = "L1" => meta[b].resident

LEMMA L1IsResidentStep == Consistent /\ L1IsResident /\ [Next]_vars => L1IsResident'
  <1> SUFFICES ASSUME Consistent, L1IsResident, [Next]_vars PROVE L1IsResident'
    OBVIOUS
  <1>1. ASSUME meta' = meta \/ \E S \in SUBSET Block : Scrub(S)
        PROVE  L1IsResident'
    BY <1>1 DEF Scrub, DefaultMeta, L1IsResident
  <1>2. CASE RegisterInL1 \/ RegisterInL2 \/ \E n \in Block : CowRemap(n)
    <2> DEFINE inL1 == [FreshMeta EXCEPT !.resident = TRUE]
               inL2 == [FreshMeta EXCEPT !.tier = "L2"]
    <2>1. inL1.resident /\ inL2.tier # "L1"
      BY DEF FreshMeta, DefaultMeta
    <2> HIDE DEF inL1, inL2
    <2>2. \E v : meta' = [meta EXCEPT ![v] = inL1] \/ meta' = [meta EXCEPT ![v] = inL2]
      BY <1>2 DEF RegisterInL1, RegisterInL2, CowRemap, inL1, inL2
    <2> QED BY <2>1, <2>2 DEF L1IsResident, Consistent, TypeOK
  <1>3. CASE CloneBlockData \/ AlreadyResident \/ \E p \in Page : Promote(p) \/ Pin(p)
    <2>1. /\ Current \in Block
          /\ \/ meta' = [meta EXCEPT ![Current].backed = TRUE]
             \/ meta' = [meta EXCEPT ![Current].tier = "L1"] /\ meta[Current].resident
             \/ meta' = [meta EXCEPT ![Current].resident = TRUE, ![Current].tier = "L1"]
             \/ meta' = [meta EXCEPT ![Current].pins = @ + 1]
      BY <1>3, AccessFacts DEF CloneBlockData, AlreadyResident, Promote, Pin, InStage
    <2> QED BY <2>1 DEF L1IsResident, Consistent, TypeOK, Meta
  <1>4. CASE \E v \in Block : EvictVictim(v)
    BY <1>4 DEF EvictVictim, L1IsResident, Consistent, TypeOK, Meta
  <1>5. ASSUME NEW b \in Block, NEW write \in BOOLEAN, Unmap(b, write)
        PROVE  L1IsResident'
    <2>1. Unpinned(b).tier = meta[b].tier /\ Unpinned(b).resident = meta[b].resident
          /\ DOMAIN Unpinned(b) = DOMAIN meta[b]
      BY DEF Unpinned, Consistent, TypeOK, Meta
    <2>2. PICK m : /\ m.tier = meta[b].tier /\ m.resident = meta[b].resident
                   /\ meta' = [meta EXCEPT ![b] = m]
      <3>1. CASE UnmapRead(b)
        BY <2>1, <3>1 DEF UnmapRead
      <3>2. CASE UnmapWrite(b)
        BY <2>1, <3>2 DEF UnmapWrite, Unpinned, Consistent, TypeOK, Meta
      <3>3. CASE UnmapWriteFails(b) \/ UnmapWriteEvicted(b)
        <4> DEFINE m == [Unpinned(b) EXCEPT !.dirty = TRUE]
        <4>1. m.tier = meta[b].tier /\ m.resident = meta[b].resident
          BY <2>1 DEF Unpinned, Consistent, TypeOK, Meta
        <4> QED BY <3>3, <4>1 DEF UnmapWriteFails, UnmapWriteEvicted
      <3> QED BY <1>5, <3>1, <3>2, <3>3 DEF Unmap
    <2> QED BY <2>2 DEF L1IsResident, Consistent, TypeOK
  <1>6. CASE HostCall
    <2>1. CASE \/ \E h \in Handle : UnmapLogicalBlock(h)
               \/ \E c \in Ctx, l \in Lvid, write \in BOOLEAN : StrayUnmap(c, l, write)
      BY <1>5, <2>1 DEF UnmapLogicalBlock, CanUnmap, StrayUnmap, Resolves,
                        Consistent, TypeOK, Mapping
    <2>2. CASE \E c \in Ctx, l \in Lvid : ReleaseLogicalBlock(c, l)
      BY <1>1, <2>2 DEF ReleaseLogicalBlock, FreedByRelease
    <2>3. CASE \/ \E c \in Ctx : CreateContext(c) \/ DestroyContext(c)
               \/ \E c, d \in Ctx : ForkContext(c, d)
               \/ \E c \in Ctx, n \in 1 .. MaxLvid : AllocateBlocks(c, n)
               \/ \E c \in Ctx, l \in Lvid : PrepareBlockForWrite(c, l)
               \/ \E c \in Ctx, l \in Lvid, write \in BOOLEAN, h \in Handle :
                     MapLogicalBlock(c, l, write, h)
      <3>1. meta' = meta
        BY <2>3 DEF CreateContext, DestroyContext, ForkContext, AllocateBlocks,
                    PrepareBlockForWrite, MapLogicalBlock, blocks
      <3> QED BY <1>1, <3>1
    <2> QED BY <1>6, <2>1, <2>2, <2>3 DEF HostCall
  <1>7. CASE \/ Reclaim \/ GrowFails \/ WriteInPlace \/ CowFails \/ CloneFails
             \/ EvictFails \/ PromoteFails \/ PinFails \/ HostStep \/ UNCHANGED vars
             \/ \E b \in Block : GrowTable(b)
    <2>1. meta' = meta \/ Reclaim
      BY <1>7 DEF GrowFails, WriteInPlace, CowFails, CloneFails, EvictFails, PromoteFails,
                  PinFails, HostStep, HostWrite, GrowTable, blocks, vars
    <2>2. Reclaim => FreeBlocks \in SUBSET Block /\ Scrub(FreeBlocks)
      BY DEF Reclaim, FreeBlocks
    <2> QED BY <1>1, <2>1, <2>2
  <1> QED BY <1>2, <1>3, <1>4, <1>6, <1>7 DEF Next, CallStep

\* The directory and the two page pools never disagree on where a block lives,
\* and the L2 pool never outgrows config.l2_block_count.
THEOREM TiersAlwaysAgree == Spec => []TiersAgree
  <1>1. Init => L1IsResident
    BY DEF Init, DefaultMeta, L1IsResident
  <1>2. Consistent /\ L1IsResident => TiersAgree
    BY DEF Consistent, TestTiersAgree, TiersAgree, L1IsResident
  <1> QED BY <1>1, <1>2, L1IsResidentStep, AlwaysConsistent, PTL DEF Spec

\* Whatever BlockManager puts on its free list has been reset before any call
\* can take it off again.
THEOREM FreeBlocksAreClean == Spec => []FreeBlocksClean
  BY AlwaysConsistent, PTL DEF Consistent

\* What a call established in one stage still holds in the next one.
THEOREM CallsStayConsistent == Spec => []CallConsistent
  BY AlwaysConsistent, PTL DEF Consistent

-----------------------------------------------------------------------------
(* Pages of pinned blocks *)

\* Steps after which every referenced block still has the page it had
LEMMA ScrubKeepsPages ==
    ASSUME NEW S \in SUBSET Block, Scrub(S), \A b \in S : refs'[b] = 0
    PROVE  PinnedKeepPages
  BY DEF Scrub, PinnedKeepPages

\* A block that is not resident owns no page that could be taken from it.
LEMMA ReplacedPageKeepsOthers ==
    ASSUME Consistent, NEW b \in Block, NEW p, l1[b] = Nil \/ l1[b] = p,
           l1' = [l1 EXCEPT ![b] = p]
    PROVE  PinnedKeepPages
  BY DEF PinnedKeepPages, Consistent, TypeOK

\* No later stage of a call takes the page of a pinned block in use.
LEMMA CallStepKeepsPages ==
    ASSUME Consistent, CallStep
    PROVE  PinnedKeepPages
  <1>1. ASSUME l1' = l1 PROVE PinnedKeepPages
    BY <1>1 DEF PinnedKeepPages
  <1>2. CASE Reclaim
    <2>1. /\ FreeBlocks \in SUBSET Block /\ Scrub(FreeBlocks)
          /\ \A b \in FreeBlocks : refs'[b] = 0
      BY <1>2 DEF Reclaim, FreeBlocks
    <2> QED BY <2>1, ScrubKeepsPages
  <1>3. CASE RegisterInL1 \/ RegisterInL2
    BY <1>1, <1>3, RegisteringFacts DEF RegisterInL1, RegisterInL2
  <1>4. CASE CloneBlockData
    <2>1. /\ Current \in Block /\ meta[Current].tier = "L2"
          /\ l1' = [l1 EXCEPT ![Current] = Nil]
      BY <1>4, AccessFacts DEF CloneBlockData, InStage, AccessConsistent
    <2>2. l1[Current] = Nil
      BY <2>1 DEF Consistent, TestTiersAgree
    <2> QED BY <2>1, <2>2, ReplacedPageKeepsOthers
  <1>5. ASSUME NEW v \in Block, EvictVictim(v) PROVE PinnedKeepPages
    <2>1. meta[v].pins = 0 /\ l1' = [l1 EXCEPT ![v] = Nil]
      BY <1>5 DEF EvictVictim, IsVictim, Evictable
    <2> QED BY <2>1 DEF PinnedKeepPages, Consistent, TypeOK
  <1>6. ASSUME NEW p \in Page, Promote(p) \/ Pin(p) PROVE PinnedKeepPages
    <2>1. /\ Current \in Block /\ p \in L1PageFor(Current)
          /\ l1' = [l1 EXCEPT ![Current] = p]
      BY <1>6, AccessFacts DEF Promote, Pin, InStage
    <2>2. l1[Current] = Nil \/ l1[Current] = p
      BY <2>1 DEF L1PageFor
    <2> QED BY <2>1, <2>2, ReplacedPageKeepsOthers
  <1>7. CASE \/ \E b \in Block : GrowTable(b) \/ CowRemap(b)
             \/ GrowFails \/ WriteInPlace \/ CowFails \/ CloneFails
             \/ AlreadyResident \/ EvictFails \/ PromoteFails \/ PinFails
    <2>1. l1' = l1
      BY <1>7 DEF GrowTable, CowRemap, GrowFails, WriteInPlace, CowFails, CloneFails,
                  AlreadyResident, EvictFails, PromoteFails, PinFails, pools
    <2> QED BY <1>1, <2>1
  <1> QED BY <1>2, <1>3, <1>4, <1>5, <1>6, <1>7 DEF CallStep

\* No first stage of a call takes the page of a pinned block in use.
LEMMA HostCallKeepsPages ==
    ASSUME Consistent, HostCall
    PROVE  PinnedKeepPages
  <1>1. ASSUME l1' = l1 PROVE PinnedKeepPages
    BY <1>1 DEF PinnedKeepPages
  <1>2. ASSUME NEW c \in Ctx, NEW l \in Lvid, ReleaseLogicalBlock(c, l)
        PROVE  PinnedKeepPages
    <2> DEFINE b == table[c][l]
    <2>1. /\ b \in Block /\ Scrub(FreedByRelease(b))
          /\ refs' = [refs EXCEPT ![b] = Less(@, 1)]
      BY <1>2 DEF ReleaseLogicalBlock, Resolves, Consistent, TypeOK
    <2>2. /\ FreedByRelease(b) \in SUBSET Block
          /\ \A a \in FreedByRelease(b) : refs'[a] = 0
      BY <2>1 DEF FreedByRelease, Less, Consistent, TypeOK
    <2> QED BY <2>1, <2>2, ScrubKeepsPages
  <1>3. CASE \/ \E c \in Ctx : CreateContext(c) \/ DestroyContext(c)
             \/ \E c, d \in Ctx : ForkContext(c, d)
             \/ \E c \in Ctx, n \in 1 .. MaxLvid : AllocateBlocks(c, n)
             \/ \E c \in Ctx, l \in Lvid : PrepareBlockForWrite(c, l)
             \/ \E c \in Ctx, l \in Lvid, write \in BOOLEAN, h \in Handle :
                   MapLogicalBlock(c, l, write, h)
    <2>1. l1' = l1
      BY <1>3 DEF CreateContext, DestroyContext, ForkContext, AllocateBlocks,
                  PrepareBlockForWrite, MapLogicalBlock, pools
    <2> QED BY <1>1, <2>1
  <1>4. CASE \/ \E h \in Handle : UnmapLogicalBlock(h)
             \/ \E c \in Ctx, l \in Lvid, write \in BOOLEAN : StrayUnmap(c, l, write)
    <2>1. l1' = l1
      BY <1>4 DEF UnmapLogicalBlock, StrayUnmap, Unmap
    <2> QED BY <1>1, <2>1
  <1> QED BY <1>2, <1>3, <1>4 DEF HostCall

\* The L1 page of a block with a pin on it is taken from it only by the call that
\* frees the block: MoveBlockToL2, SyncL2ToL1 and CloneBlockDataForCow never pull
\* the page from under a pointer given out by mmu_map_logical_block.
THEOREM PinnedBlocksStayPut == Spec => PinnedStaysPut
  <1>1. Consistent /\ [Next]_vars => [PinnedKeepPages]_vars
    <2> SUFFICES ASSUME Consistent, Next PROVE PinnedKeepPages
      OBVIOUS
    <2>1. CASE HostStep
      BY <2>1 DEF HostStep, HostWrite, PinnedKeepPages
    <2> QED BY <2>1, CallStepKeepsPages, HostCallKeepsPages DEF Next
  <1> QED BY <1>1, AlwaysConsistent, PTL DEF Spec, PinnedStaysPut

-----------------------------------------------------------------------------
(* Counting page table entries *)

\* The entries of the page tables t that name b
EntriesIn(t, b) == {e \in Ctx \X Lvid : t[e[1]][e[2]] = b}

\* A page table has finitely many entries.
LEMMA LvidIsFinite == IsFiniteSet(Lvid)
  BY ConfigAssumption, FS_Interval DEF Lvid

\* Finitely many contexts name a block finitely often.
LEMMA EntriesAreFinite ==
    ASSUME NEW t, NEW b, NEW S, IsFiniteSet(S),
           \A c \in Ctx, l \in Lvid : t[c][l] = b => c \in S
    PROVE  IsFiniteSet(EntriesIn(t, b)) /\ Cardinality(EntriesIn(t, b)) \in Nat
  <1>1. IsFiniteSet(S \X Lvid)
    BY LvidIsFinite, FS_Product
  <1>2. EntriesIn(t, b) \in SUBSET (S \X Lvid)
    BY DEF EntriesIn
  <1> QED BY <1>1, <1>2, FS_Subset, FS_CardinalityType

\* The page tables u are t with one entry replaced.
Replaces(u, t, c, l, new) ==
    \A d \in Ctx, k \in Lvid : u[d][k] = IF d = c /\ k = l THEN new ELSE t[d][k]

\* Changing one entry moves one use from the old block to the new one.
LEMMA EntryMoves ==
    ASSUME NEW t, NEW u, NEW c \in Ctx, NEW l \in Lvid, NEW new,
           Replaces(u, t, c, l, new),
           NEW b, IsFiniteSet(EntriesIn(t, b))
    PROVE  /\ Cardinality(EntriesIn(u, b)) \in Nat /\ Cardinality(EntriesIn(t, b)) \in Nat
           /\ Cardinality(EntriesIn(u, b)) =
                 Cardinality(EntriesIn(t, b)) + (IF b = new THEN 1 ELSE 0)
                                              - (IF b = t[c][l] THEN 1 ELSE 0)
  <1> DEFINE e == <<c, l>>
  <1>1. \A f \in Ctx \X Lvid : u[f[1]][f[2]] = IF f = e THEN new ELSE t[f[1]][f[2]]
    BY DEF Replaces
  <1>2. e \in Ctx \X Lvid /\ e[1] = c /\ e[2] = l
    OBVIOUS
  <1>3. e \in EntriesIn(t, b) <=> t[c][l] = b
    BY <1>2 DEF EntriesIn
  <1> HIDE DEF e
  <1>4. b = new => EntriesIn(u, b) = EntriesIn(t, b) \cup {e}
    BY <1>1, <1>2 DEF EntriesIn
  <1>5. b # new => EntriesIn(u, b) = EntriesIn(t, b) \ {e}
    BY <1>1, <1>2 DEF EntriesIn
  <1>6. Cardinality(EntriesIn(t, b)) \in Nat
    BY FS_CardinalityType
  <1>7. b = new => Cardinality(EntriesIn(u, b)) =
                     IF t[c][l] = b THEN Cardinality(EntriesIn(t, b))
                                    ELSE Cardinality(EntriesIn(t, b)) + 1
    BY <1>3, <1>4, FS_AddElement
  <1>8. b # new => Cardinality(EntriesIn(u, b)) =
                     IF t[c][l] = b THEN Cardinality(EntriesIn(t, b)) - 1
                                    ELSE Cardinality(EntriesIn(t, b))
    BY <1>3, <1>5, FS_RemoveElement
  <1>9. Cardinality(EntriesIn(u, b)) \in Nat
    BY <1>4, <1>5, FS_AddElement, FS_RemoveElement, FS_CardinalityType
  <1> QED BY <1>6, <1>7, <1>8, <1>9

\* The entries for b in the page table of d, and those in the other tables
RowOf(t, b, d) == {l \in Lvid : t[d][l] = b}
OthersOf(t, b, d) == {e \in EntriesIn(t, b) : e[1] # d}

\* The uses of a block are those of one context and those of the others.
LEMMA RowSplits ==
    ASSUME NEW t, NEW b, IsFiniteSet(EntriesIn(t, b)), NEW d \in Ctx
    PROVE  /\ IsFiniteSet(OthersOf(t, b, d))
           /\ Cardinality(OthersOf(t, b, d)) \in Nat
           /\ Cardinality(RowOf(t, b, d)) \in Nat
           /\ Cardinality(EntriesIn(t, b))
                 = Cardinality(OthersOf(t, b, d)) + Cardinality(RowOf(t, b, d))
  <1> DEFINE Others == OthersOf(t, b, d)
             Row    == RowOf(t, b, d)
             Own    == {d} \X Row
  <1>1. EntriesIn(t, b) = Others \cup Own /\ Others \cap Own = {}
    BY DEF EntriesIn, OthersOf, RowOf
  <1>2. IsFiniteSet(Others)
    BY FS_Subset DEF OthersOf
  <1>3. IsFiniteSet(Row) /\ Cardinality(Row) \in Nat /\ Cardinality(Others) \in Nat
    BY <1>2, LvidIsFinite, FS_Subset, FS_CardinalityType DEF RowOf
  <1>4. IsFiniteSet({d}) /\ Cardinality({d}) = 1
    BY FS_Singleton
  <1>5. IsFiniteSet(Own) /\ Cardinality(Own) = Cardinality(Row)
    <2>1. IsFiniteSet(Own) /\ Cardinality(Own) = 1 * Cardinality(Row)
      BY <1>3, <1>4, FS_Product
    <2> QED BY <1>3, <2>1
  <1>6. Cardinality(EntriesIn(t, b)) = Cardinality(Others) + Cardinality(Own)
    <2> HIDE DEF Others, Own
    <2>1. Cardinality(Others \cup Own)
            = Cardinality(Others) + Cardinality(Own) - Cardinality(Others \cap Own)
      BY <1>2, <1>5, FS_Union
    <2> QED BY <1>1, <1>3, <1>5, <2>1, FS_EmptySet
  <1> QED BY <1>2, <1>3, <1>5, <1>6

-----------------------------------------------------------------------------
(* Reference counts *)

\* Only live contexts have entries, and only below the length of their tables.
TablesTidy ==
    /\ IsFiniteSet(live)
    /\ \A c \in Ctx, l \in Lvid : table[c][l] # Nil => c \in live /\ l < size[c]

\* The context a call works on is not destroyed under it.
CallerLives == call.ctx # Nil => call.ctx \in live

\* An allocation the host sized by the free list does not run out of blocks:
\* nobody else takes one while the call holds api_mutex.
RoomToGrow ==
    call.op = "allocate" /\ call.stage \in {"reclaim", "grow"}
        => call.goal <= size[call.ctx] + Cardinality(FreeBlocks)

\* What makes RefCountExact inductive
Counted == TablesTidy /\ CallerLives /\ RoomToGrow /\ RefCountExact

\* Every block has a finite number of uses.
LEMMA UsesAreFinite ==
    ASSUME Consistent, Counted, NEW b \in Block
    PROVE  /\ IsFiniteSet(EntriesIn(table, b)) /\ AllUses(b) = Cardinality(EntriesIn(table, b))
           /\ AllUses(b) \in Nat
  <1>1. IsFiniteSet(live) /\ \A c \in Ctx, l \in Lvid : table[c][l] = b => c \in live
    BY NilAssumption DEF Counted, TablesTidy
  <1>2. AllUses(b) = Cardinality(EntriesIn(table, b))
    BY DEF AllUses, EntriesIn
  <1> QED BY <1>1, <1>2, EntriesAreFinite

\* A free block is named nowhere.
LEMMA FreeIsUnnamed ==
    ASSUME Consistent, Counted, NEW b \in Block, refs[b] = 0,
           NEW c \in Ctx, NEW l \in Lvid
    PROVE  table[c][l] # b
  <1>1. EntriesIn(table, b) = {}
    BY UsesAreFinite, FS_EmptySet DEF Counted, RefCountExact
  <1>2. <<c, l>> \in Ctx \X Lvid
    OBVIOUS
  <1> QED BY <1>1, <1>2 DEF EntriesIn

\* Entries name blocks in use.
LEMMA NamedInUse ==
    ASSUME Consistent, Counted, NEW c \in Ctx, NEW l \in Lvid, table[c][l] # Nil
    PROVE  table[c][l] \in Block /\ refs[table[c][l]] > 0
  <1>1. table[c][l] \in Block /\ refs[table[c][l]] \in Nat
    BY DEF Consistent, TypeOK
  <1> QED BY <1>1, FreeIsUnnamed

\* A block with one reference is named once.
LEMMA NamedOnce ==
    ASSUME Consistent, Counted, NEW b \in Block, refs[b] = 1,
           NEW c \in Ctx, NEW l \in Lvid, table[c][l] = b,
           NEW d \in Ctx, NEW k \in Lvid, table[d][k] = b
    PROVE  c = d /\ l = k
  <1>1. IsFiniteSet(EntriesIn(table, b)) /\ Cardinality(EntriesIn(table, b)) = 1
    BY UsesAreFinite DEF Counted, RefCountExact
  <1>2. PICK e : EntriesIn(table, b) = {e}
    BY <1>1, FS_Singleton
  <1>3. <<c, l>> \in EntriesIn(table, b) /\ <<d, k>> \in EntriesIn(table, b)
    BY DEF EntriesIn
  <1> QED BY <1>2, <1>3

\* A new runtime has nothing to count.
LEMMA InitCounted == Init => Counted
  <1> SUFFICES ASSUME Init PROVE Counted
    OBVIOUS
  <1>1. TablesTidy
    BY FS_EmptySet DEF Init, TablesTidy, NoEntries
  <1>2. CallerLives /\ RoomToGrow
    BY DEF Init, Idle, CallerLives, RoomToGrow
  <1>3. RefCountExact
    <2> SUFFICES ASSUME NEW b \in Block PROVE refs[b] = AllUses(b)
      BY DEF RefCountExact
    <2>1. {e \in Ctx \X Lvid : table[e[1]][e[2]] = b} = {}
      BY NilAssumption DEF Init, NoEntries
    <2> QED BY <2>1, FS_EmptySet DEF Init, AllUses
  <1> QED BY <1>1, <1>2, <1>3 DEF Counted

\* Steps that change neither the counts nor the names, and start no allocation
LEMMA CountsStay ==
    ASSUME Consistent, Counted, UNCHANGED <<refs, names>>,
           \/ call' = call
           \/ /\ call'.ctx \in live \cup {Nil}
              /\ call'.stage \in {"reclaim", "grow"} => call'.op # "allocate"
    PROVE  Counted'
  <1>1. FreeBlocks' = FreeBlocks /\ \A b \in Block : AllUses(b)' = AllUses(b)
    BY DEF FreeBlocks, AllUses, names
  <1>2. RefCountExact'
    BY <1>1 DEF Counted, RefCountExact
  <1>3. TablesTidy'
    BY DEF Counted, TablesTidy, names
  <1>4. CallerLives' /\ RoomToGrow'
    BY <1>1 DEF Counted, CallerLives, RoomToGrow, names
  <1> QED BY <1>2, <1>3, <1>4 DEF Counted

\* What a call becomes in its next stage: it returns, or stays the same call.
LEMMA CallGoesOn ==
    ASSUME Consistent, CallStep
    PROVE  \/ call' = Idle
           \/ call' = call /\ call.stage = "ensure"
           \/ /\ call'.op = call.op /\ call'.ctx = call.ctx /\ call'.write = call.write
              /\ call'.handle = call.handle
              /\ call'.base = call.base /\ call'.goal = call.goal
              /\ call'.lvid = call.lvid \/ call'.stage = "register"
              /\ call'.stage \in {"grow", "register", "clone", "reclaim", "ensure", "pin"}
              /\ call'.stage = "reclaim" => call.op = "map"
              /\ call'.stage = "grow" => call.stage \in {"reclaim", "grow"}
              /\ call'.stage = "register" => call.stage \in {"grow", "register"}
  <1> DEFINE Same(q, s) == /\ q.op = call.op /\ q.ctx = call.ctx /\ q.write = call.write
                           /\ q.handle = call.handle /\ q.lvid = call.lvid
                           /\ q.base = call.base /\ q.goal = call.goal
                           /\ q.stage = s
  <1>1. call \in Call
    BY DEF Consistent, TypeOK
  <1>2. ASSUME NEW s \in Stage PROVE Same(At(s), s)
    BY <1>1 DEF At, Call
  <1>3. CASE Reclaim
    <2>1. call' \in {Idle, At("grow"), At("ensure")} /\ call.stage = "reclaim"
      BY <1>3 DEF Reclaim, AfterReclaim, InStage
    <2> QED BY <1>2, <2>1 DEF Stage
  <1>4. CASE \E b \in Block : GrowTable(b)
    <2>1. call' \in {At("register"), At("grow")} /\ call.stage = "grow"
      BY <1>4 DEF GrowTable, InStage
    <2> QED BY <1>2, <2>1 DEF Stage
  <1>5. CASE RegisterInL1 \/ RegisterInL2
    <2>1. Registering /\ call.stage = "register"
      BY <1>5 DEF RegisterInL1, RegisterInL2, Registering, InStage
    <2>2. call' = Idle \/ call' = [call EXCEPT !.lvid = @ + 1]
      BY <2>1 DEF Registering
    <2>3. CASE call' = [call EXCEPT !.lvid = @ + 1]
      <3>1. /\ call'.op = call.op /\ call'.ctx = call.ctx /\ call'.write = call.write
            /\ call'.handle = call.handle /\ call'.stage = call.stage
            /\ call'.base = call.base /\ call'.goal = call.goal
        BY <1>1, <2>3 DEF Call
      <3> QED BY <2>1, <3>1
    <2> QED BY <2>2, <2>3
  <1>6. CASE WriteInPlace \/ CloneBlockData
    <2>1. CASE call.op = "map"
      <3>1. call' = At("reclaim") \/ call' = [At("reclaim") EXCEPT !.src = Nil]
        BY <1>6, <2>1 DEF WriteInPlace, CloneBlockData, Prepared
      <3>2. Same(call', "reclaim")
        BY <1>1, <3>1 DEF At, Call
      <3> QED BY <2>1, <3>2
    <2>2. CASE call.op # "map"
      <3>1. call' = Idle \/ call' = [Idle EXCEPT !.src = Nil]
        BY <1>6, <2>2 DEF WriteInPlace, CloneBlockData, Prepared
      <3> QED BY <3>1 DEF Idle
    <2> QED BY <2>1, <2>2
  <1>7. CASE \E n \in Block : CowRemap(n)
    <2>1. call' = [At("clone") EXCEPT !.src = Current]
      BY <1>7 DEF CowRemap
    <2> QED BY <1>1, <2>1 DEF At, Call
  <1>8. CASE AlreadyResident \/ \E p \in Page : Promote(p)
    <2>1. call' = At("pin")
      BY <1>8 DEF AlreadyResident, Promote
    <2> QED BY <1>2, <2>1 DEF Stage
  <1>9. CASE \E v \in Block : EvictVictim(v)
    BY <1>9 DEF EvictVictim, NeedsRoom, InStage
  <1>10. CASE \/ GrowFails \/ CowFails \/ CloneFails \/ EvictFails \/ PromoteFails \/ PinFails
              \/ \E p \in Page : Pin(p)
    BY <1>10 DEF GrowFails, CowFails, CloneFails, EvictFails, PromoteFails, PinFails, Pin
  <1> QED BY <1>3, <1>4, <1>5, <1>6, <1>7, <1>8, <1>9, <1>10 DEF CallStep

\* The stages of a call that neither take a block nor give one back
QuietStep ==
    \/ WriteInPlace \/ CowFails \/ CloneBlockData \/ CloneFails
    \/ RegisterInL1 \/ RegisterInL2
    \/ AlreadyResident \/ EvictFails \/ PromoteFails \/ PinFails
    \/ \E v \in Block : EvictVictim(v)
    \/ \E p \in Page : Promote(p) \/ Pin(p)

\* The host calls that neither take a block nor give one back, and its writes
QuietCall ==
    \/ \E c \in Ctx, l \in Lvid : PrepareBlockForWrite(c, l)
    \/ \E c \in Ctx, l \in Lvid, write \in BOOLEAN, h \in Handle :
          MapLogicalBlock(c, l, write, h)
    \/ \E h \in Handle : UnmapLogicalBlock(h)
    \/ \E c \in Ctx, l \in Lvid, write \in BOOLEAN : StrayUnmap(c, l, write)
    \/ HostStep

\* Quiet stages leave the counts exact.
LEMMA QuietStepCounts ==
    ASSUME Consistent, Counted, QuietStep
    PROVE  Counted'
  <1>1. UNCHANGED <<refs, names>> /\ CallStep /\ call.stage \notin {"reclaim", "grow"}
    <2>1. UNCHANGED <<refs, names>>
      BY DEF QuietStep, WriteInPlace, CowFails, CloneBlockData, CloneFails, RegisterInL1,
             RegisterInL2, Registering, AlreadyResident, EvictFails, PromoteFails,
             PinFails, EvictVictim, Promote, Pin
    <2>2. CallStep
      BY DEF QuietStep, CallStep
    <2>3. call.stage \notin {"reclaim", "grow"}
      BY DEF QuietStep, WriteInPlace, CowFails, CloneBlockData, CloneFails, RegisterInL1,
             RegisterInL2, Registering, AlreadyResident, EvictFails, PromoteFails,
             PinFails, EvictVictim, NeedsRoom, Promote, Pin, InStage
    <2> QED BY <2>1, <2>2, <2>3
  <1>2. call' = call \/ /\ call'.ctx \in {call.ctx, Nil}
                        /\ call'.stage \in {"reclaim", "grow"} => call'.op # "allocate"
    <2>1. CASE call' = Idle
      BY <2>1 DEF Idle
    <2>2. CASE call' # Idle
      BY <1>1, <2>2, CallGoesOn DEF Consistent, CallConsistent, AccessConsistent
    <2> QED BY <2>1, <2>2
  <1> QED BY <1>1, <1>2, CountsStay DEF Counted, CallerLives

\* Quiet calls leave the counts exact.
LEMMA QuietCallCounts ==
    ASSUME Consistent, Counted, QuietCall
    PROVE  Counted'
  <1>1. UNCHANGED <<refs, names>>
    BY DEF QuietCall, PrepareBlockForWrite, MapLogicalBlock, UnmapLogicalBlock, StrayUnmap, Unmap,
           HostStep, HostWrite
  <1>2. CASE \/ \E h \in Handle : UnmapLogicalBlock(h)
             \/ \E c \in Ctx, l \in Lvid, write \in BOOLEAN : StrayUnmap(c, l, write)
    <2>1. call' = Idle
      BY <1>2 DEF UnmapLogicalBlock, StrayUnmap, Unmap, Starts
    <2> QED BY <1>1, <2>1, CountsStay DEF Idle
  <1>3. CASE \E c \in Ctx, l \in Lvid : PrepareBlockForWrite(c, l)
    <2>1. call'.op = "prepare" /\ call'.ctx \in live
      BY <1>3 DEF PrepareBlockForWrite, Resolves, Starts, Idle
    <2> QED BY <1>1, <2>1, CountsStay
  <1>4. CASE \E c \in Ctx, l \in Lvid, write \in BOOLEAN, h \in Handle :
                MapLogicalBlock(c, l, write, h)
    <2>1. call'.op = "map" /\ call'.ctx \in live
      BY <1>4 DEF MapLogicalBlock, Resolves, Starts, Idle
    <2> QED BY <1>1, <2>1, CountsStay
  <1>5. CASE HostStep
    BY <1>1, <1>5, CountsStay DEF HostStep, HostWrite
  <1> QED BY <1>2, <1>3, <1>4, <1>5 DEF QuietCall

\* Creating a context gives it an empty table.
LEMMA CreateContextCounts ==
    ASSUME Consistent, Counted, NEW c \in Ctx, CreateContext(c)
    PROVE  Counted'
  <1>1. /\ c \notin live /\ call' = Idle /\ live' = live \cup {c} /\ refs' = refs
        /\ table' = [table EXCEPT ![c] = NoEntries] /\ size' = [size EXCEPT ![c] = 0]
    BY DEF CreateContext, Starts
  <1>2. table[c] = NoEntries
    BY <1>1 DEF Counted, TablesTidy, NoEntries, Consistent, TypeOK
  <1>3. table' = table
    BY <1>1, <1>2 DEF Consistent, TypeOK
  <1>4. RefCountExact'
    BY <1>1, <1>3 DEF Counted, RefCountExact, AllUses
  <1>5. TablesTidy'
    <2>1. IsFiniteSet(live')
      BY <1>1, FS_AddElement DEF Counted, TablesTidy
    <2>2. \A d \in Ctx, l \in Lvid : table'[d][l] # Nil => d \in live' /\ l < size'[d]
      BY <1>1, <1>2, <1>3 DEF Counted, TablesTidy, Consistent, TypeOK, NoEntries
    <2> QED BY <2>1, <2>2 DEF TablesTidy
  <1> QED BY <1>1, <1>4, <1>5 DEF Counted, CallerLives, RoomToGrow, Idle

\* An allocation within the free list has room to grow.
LEMMA AllocateBlocksCounts ==
    ASSUME Consistent, Counted, "overallocate" \notin Liberties,
           NEW c \in Ctx, NEW n \in 1 .. MaxLvid, AllocateBlocks(c, n)
    PROVE  Counted'
  <1>1. /\ UNCHANGED <<refs, names>> /\ c \in live /\ n <= Cardinality(FreeBlocks)
        /\ call'.ctx = c /\ call'.goal = size[c] + n
    BY DEF AllocateBlocks, Starts, Idle, MayAllocate, Permitted
  <1>2. FreeBlocks' = FreeBlocks /\ \A b \in Block : AllUses(b)' = AllUses(b)
    BY <1>1 DEF FreeBlocks, AllUses, names
  <1>3. Cardinality(FreeBlocks) \in Nat /\ size[c] \in Nat
    BY BlocksAreFinite, ConfigAssumption DEF FreeBlocks, Consistent, TypeOK
  <1>4. RoomToGrow' /\ CallerLives'
    BY <1>1, <1>2, <1>3, ConfigAssumption DEF RoomToGrow, CallerLives, names
  <1>5. RefCountExact' /\ TablesTidy'
    BY <1>1, <1>2 DEF Counted, RefCountExact, TablesTidy, names
  <1> QED BY <1>4, <1>5 DEF Counted

\* Reclaiming touches no names.
LEMMA ReclaimCounts ==
    ASSUME Consistent, Counted, Reclaim
    PROVE  Counted'
  <1>1. UNCHANGED <<refs, names>> /\ call' = AfterReclaim /\ call.stage = "reclaim"
    BY DEF Reclaim, InStage
  <1>2. FreeBlocks' = FreeBlocks /\ \A b \in Block : AllUses(b)' = AllUses(b)
    BY <1>1 DEF FreeBlocks, AllUses, names
  <1>3. RefCountExact' /\ TablesTidy'
    BY <1>1, <1>2 DEF Counted, RefCountExact, TablesTidy, names
  <1>4. \A s \in Stage : /\ At(s).ctx = call.ctx /\ At(s).op = call.op
                        /\ At(s).goal = call.goal
    BY DEF Consistent, TypeOK, At, Call
  <1>5. \/ call' = Idle
        \/ /\ call'.ctx = call.ctx /\ call'.op = call.op /\ call'.goal = call.goal
    BY <1>1, <1>4 DEF AfterReclaim, Stage
  <1>6. CallerLives' /\ RoomToGrow'
    BY <1>1, <1>2, <1>5 DEF Counted, CallerLives, RoomToGrow, names, Idle
  <1> QED BY <1>3, <1>6 DEF Counted

\* A fork retains each block once for every entry it copies.
LEMMA ForkContextCounts ==
    ASSUME Consistent, Counted, NEW c \in Ctx, NEW d \in Ctx, ForkContext(c, d)
    PROVE  Counted'
  <1>1. /\ c \in live /\ d \notin live /\ c # d /\ call' = Idle
        /\ refs' = Retained(c) /\ live' = live \cup {d}
        /\ table' = [table EXCEPT ![d] = table[c]]
        /\ size' = [size EXCEPT ![d] = size[c]]
    BY DEF ForkContext, Starts
  <1>2. TablesTidy'
    <2>1. IsFiniteSet(live')
      BY <1>1, FS_AddElement DEF Counted, TablesTidy
    <2>2. \A e \in Ctx, l \in Lvid : table'[e][l] # Nil => e \in live' /\ l < size'[e]
      BY <1>1 DEF Counted, TablesTidy, Consistent, TypeOK
    <2> QED BY <2>1, <2>2 DEF TablesTidy
  <1>3. RefCountExact'
    <2> SUFFICES ASSUME NEW b \in Block PROVE refs'[b] = AllUses(b)'
      BY DEF RefCountExact
    <2> DEFINE Others == OthersOf(table, b, d)
               NewOthers == OthersOf(table', b, d)
               Row == RowOf(table, b, d)
               NewRow == RowOf(table', b, d)
    <2>0. IsFiniteSet(EntriesIn(table, b))
      BY UsesAreFinite
    <2>1. refs[b] = Cardinality(EntriesIn(table, b))
      BY UsesAreFinite DEF Counted, RefCountExact
    <2>2. IsFiniteSet(EntriesIn(table', b)) /\ AllUses(b)' = Cardinality(EntriesIn(table', b))
      <3>1. IsFiniteSet(live') /\ \A e \in Ctx, l \in Lvid : table'[e][l] = b => e \in live'
        BY <1>2, NilAssumption DEF TablesTidy
      <3> QED BY <3>1, EntriesAreFinite DEF AllUses, EntriesIn
    <2>3. Row = {} /\ NewRow = RowOf(table, b, c) /\ NewOthers = Others
      <3>1. \A l \in Lvid : table[d][l] = Nil
        BY <1>1 DEF Counted, TablesTidy
      <3>2. table'[d] = table[c] /\ \A e \in Ctx \ {d} : table'[e] = table[e]
        BY <1>1 DEF Consistent, TypeOK
      <3> QED BY <3>1, <3>2, NilAssumption DEF EntriesIn, RowOf, OthersOf
    <2>4. /\ Cardinality(EntriesIn(table, b)) = Cardinality(Others) + Cardinality(Row)
          /\ Cardinality(Others) \in Nat
      BY <2>0, RowSplits
    <2>5. /\ AllUses(b)' = Cardinality(NewOthers) + Cardinality(NewRow)
          /\ Cardinality(NewRow) \in Nat
      BY <2>2, RowSplits
    <2>6. Cardinality(NewRow) = Uses(c, b)
      BY <2>3 DEF Uses, RowOf
    <2> HIDE DEF Others, NewOthers, Row, NewRow
    <2>7. refs[b] = Cardinality(Others)
      BY <2>1, <2>3, <2>4, FS_EmptySet
    <2>8. AllUses(b)' = refs[b] + Uses(c, b)
      BY <2>3, <2>5, <2>6, <2>7
    <2>9. CASE refs[b] > 0
      BY <1>1, <2>8, <2>9 DEF Retained
    <2>10. CASE ~(refs[b] > 0)
      <3>1. refs[b] = 0
        BY <2>10 DEF Consistent, TypeOK
      <3>2. {l \in Lvid : table[c][l] = b} = {}
        BY <3>1, FreeIsUnnamed
      <3>3. Uses(c, b) = 0
        BY <3>2, FS_EmptySet DEF Uses
      <3> QED BY <1>1, <2>8, <3>1, <3>3 DEF Retained
    <2> QED BY <2>9, <2>10
  <1> QED BY <1>1, <1>2, <1>3 DEF Counted, CallerLives, RoomToGrow, Idle

\* Destroying a context gives back every use it had.
LEMMA DestroyContextCounts ==
    ASSUME Consistent, Counted, NEW c \in Ctx, DestroyContext(c)
    PROVE  Counted'
  <1>1. /\ call'.ctx = Nil /\ call'.op = "destroy" /\ live' = live \ {c}
        /\ refs' = [b \in Block |-> Less(refs[b], Uses(c, b))]
        /\ table' = [table EXCEPT ![c] = NoEntries]
        /\ size' = [size EXCEPT ![c] = 0]
    BY DEF DestroyContext, Starts, Idle
  <1>2. table'[c] = NoEntries /\ \A e \in Ctx \ {c} : table'[e] = table[e]
    BY <1>1 DEF Consistent, TypeOK
  <1>3. TablesTidy'
    <2>1. IsFiniteSet(live')
      BY <1>1, FS_RemoveElement DEF Counted, TablesTidy
    <2>2. \A e \in Ctx, l \in Lvid : table'[e][l] # Nil => e \in live' /\ l < size'[e]
      BY <1>1, <1>2 DEF Counted, TablesTidy, Consistent, TypeOK, NoEntries
    <2> QED BY <2>1, <2>2 DEF TablesTidy
  <1>4. RefCountExact'
    <2> SUFFICES ASSUME NEW b \in Block PROVE refs'[b] = AllUses(b)'
      BY DEF RefCountExact
    <2> DEFINE Others == OthersOf(table, b, c)
               NewOthers == OthersOf(table', b, c)
               Row == RowOf(table, b, c)
               NewRow == RowOf(table', b, c)
    <2>0. IsFiniteSet(EntriesIn(table, b))
      BY UsesAreFinite
    <2>1. refs[b] = Cardinality(EntriesIn(table, b))
      BY UsesAreFinite DEF Counted, RefCountExact
    <2>2. IsFiniteSet(EntriesIn(table', b)) /\ AllUses(b)' = Cardinality(EntriesIn(table', b))
      <3>1. IsFiniteSet(live') /\ \A e \in Ctx, l \in Lvid : table'[e][l] = b => e \in live'
        BY <1>3, NilAssumption DEF TablesTidy
      <3> QED BY <3>1, EntriesAreFinite DEF AllUses, EntriesIn
    <2>3. NewRow = {} /\ NewOthers = Others
      BY <1>2, NilAssumption DEF EntriesIn, NoEntries, RowOf, OthersOf
    <2>4. /\ Cardinality(EntriesIn(table, b)) = Cardinality(Others) + Cardinality(Row)
          /\ Cardinality(Others) \in Nat /\ Cardinality(Row) \in Nat
      BY <2>0, RowSplits
    <2>5. AllUses(b)' = Cardinality(NewOthers) + Cardinality(NewRow)
      BY <2>2, RowSplits
    <2>6. Cardinality(Row) = Uses(c, b)
      BY DEF Uses, RowOf
    <2> HIDE DEF Others, NewOthers, Row, NewRow
    <2>7. AllUses(b)' = Cardinality(Others)
      BY <2>3, <2>4, <2>5, FS_EmptySet
    <2>8. Less(refs[b], Uses(c, b)) = Cardinality(Others)
      BY <2>1, <2>4, <2>6 DEF Less
    <2> QED BY <1>1, <2>7, <2>8
  <1> QED BY <1>1, <1>3, <1>4 DEF Counted, CallerLives, RoomToGrow

\* One more entry, one reference on a block that had none
LEMMA GrowTableCounts ==
    ASSUME Consistent, Counted, NEW b \in Block, GrowTable(b)
    PROVE  Counted'
  <1> DEFINE c == call.ctx
             n == size[c]
  <1>1. /\ call.stage = "grow" /\ refs[b] = 0 /\ b \in FreeBlocks
        /\ refs' = [refs EXCEPT ![b] = 1] /\ live' = live
        /\ table' = [table EXCEPT ![c][n] = b] /\ size' = [size EXCEPT ![c] = n + 1]
        /\ call' = At("register") \/ call' = At("grow")
    BY DEF GrowTable, InStage, FreeBlocks
  <1>2. call.op = "allocate" /\ AllocationConsistent
    BY <1>1 DEF Consistent, TypeOK, Call, Op, CallConsistent, AccessConsistent
  <1>3. c \in Ctx /\ n \in Nat /\ n \in Lvid /\ call.goal \in Nat /\ c \in live
    BY <1>1, <1>2, ConfigAssumption, NilAssumption
       DEF Consistent, TypeOK, Call, AllocationConsistent, Lvid, Counted, CallerLives
  <1>4. call'.ctx = c /\ call'.goal = call.goal
    BY <1>1 DEF Consistent, TypeOK, At, Call
  <1>5. table[c][n] = Nil
    BY <1>3 DEF Counted, TablesTidy
  <1>6. TablesTidy'
    <2>1. \A e \in Ctx, l \in Lvid : table'[e][l] # Nil => e \in live' /\ l < size'[e]
      BY <1>1, <1>3, ConfigAssumption DEF Counted, TablesTidy, Consistent, TypeOK, Lvid
    <2> QED BY <1>1, <2>1 DEF Counted, TablesTidy
  <1>7. RefCountExact'
    <2> SUFFICES ASSUME NEW a \in Block PROVE refs'[a] = AllUses(a)'
      BY DEF RefCountExact
    <2>1. IsFiniteSet(EntriesIn(table, a))
      BY UsesAreFinite
    <2>2. refs[a] = Cardinality(EntriesIn(table, a)) /\ refs[a] \in Nat
      BY UsesAreFinite DEF Counted, RefCountExact, Consistent, TypeOK
    <2>3. Replaces(table', table, c, n, b)
      BY <1>1, <1>3 DEF Replaces, Consistent, TypeOK
    <2>4. Cardinality(EntriesIn(table', a)) =
             Cardinality(EntriesIn(table, a)) + (IF a = b THEN 1 ELSE 0)
                                              - (IF a = table[c][n] THEN 1 ELSE 0)
      BY <1>3, <2>1, <2>3, EntryMoves
    <2>5. AllUses(a)' = Cardinality(EntriesIn(table', a))
      BY DEF AllUses, EntriesIn
    <2>6. a # Nil /\ refs'[a] = IF a = b THEN 1 ELSE refs[a]
      BY <1>1, NilAssumption DEF Consistent, TypeOK
    <2> QED BY <1>1, <1>5, <2>2, <2>4, <2>5, <2>6
  <1>8. FreeBlocks' = FreeBlocks \ {b} /\ size'[c] = n + 1
    BY <1>1, <1>3 DEF FreeBlocks, Consistent, TypeOK
  <1>9. /\ Cardinality(FreeBlocks') = Cardinality(FreeBlocks) - 1
        /\ Cardinality(FreeBlocks) \in Nat
    BY <1>1, <1>8, BlocksAreFinite, FS_RemoveElement DEF FreeBlocks
  <1>10. call.goal <= n + Cardinality(FreeBlocks)
    BY <1>1, <1>2 DEF Counted, RoomToGrow
  <1>11. RoomToGrow' /\ CallerLives'
    BY <1>1, <1>3, <1>4, <1>8, <1>9, <1>10 DEF RoomToGrow, CallerLives
  <1> QED BY <1>6, <1>7, <1>11 DEF Counted

\* The free list cannot be empty in the middle of an allocation that fitted it.
LEMMA GrowthSucceeds ==
    ASSUME Consistent, Counted, GrowFails
    PROVE  FALSE
  <1>1. call.stage = "grow" /\ FreeBlocks = {}
    BY DEF GrowFails, InStage
  <1>2. call.op = "allocate" /\ AllocationConsistent
    BY <1>1 DEF Consistent, TypeOK, Call, Op, CallConsistent, AccessConsistent
  <1>3. call.goal <= size[call.ctx] + 0
    BY <1>1, <1>2, FS_EmptySet DEF Counted, RoomToGrow
  <1>4. size[call.ctx] < call.goal /\ size[call.ctx] \in Nat /\ call.goal \in Nat
    BY <1>1, <1>2, ConfigAssumption DEF AllocationConsistent, Consistent, TypeOK, Call
  <1> QED BY <1>3, <1>4

\* One entry less, one reference less
LEMMA ReleaseLogicalBlockCounts ==
    ASSUME Consistent, Counted, NEW c \in Ctx, NEW l \in Lvid, ReleaseLogicalBlock(c, l)
    PROVE  Counted'
  <1> DEFINE b == table[c][l]
  <1>1. /\ b \in Block /\ call' = Idle /\ live' = live /\ size' = size
        /\ refs' = [refs EXCEPT ![b] = Less(@, 1)]
        /\ table' = [table EXCEPT ![c][l] = Nil]
    BY DEF ReleaseLogicalBlock, Starts, Resolves, Consistent, TypeOK
  <1>2. TablesTidy'
    BY <1>1 DEF Counted, TablesTidy, Consistent, TypeOK
  <1>3. RefCountExact'
    <2> SUFFICES ASSUME NEW a \in Block PROVE refs'[a] = AllUses(a)'
      BY DEF RefCountExact
    <2>1. IsFiniteSet(EntriesIn(table, a))
      BY UsesAreFinite
    <2>2. refs[a] = Cardinality(EntriesIn(table, a)) /\ refs[a] \in Nat
      BY UsesAreFinite DEF Counted, RefCountExact, Consistent, TypeOK
    <2>3. Replaces(table', table, c, l, Nil)
      BY <1>1 DEF Replaces, Consistent, TypeOK
    <2>4. Cardinality(EntriesIn(table', a)) =
             Cardinality(EntriesIn(table, a)) + (IF a = Nil THEN 1 ELSE 0)
                                              - (IF a = table[c][l] THEN 1 ELSE 0)
      BY <2>1, <2>3, EntryMoves
    <2>5. AllUses(a)' = Cardinality(EntriesIn(table', a))
      BY DEF AllUses, EntriesIn
    <2>6. a # Nil /\ refs'[a] = IF a = b THEN Less(refs[a], 1) ELSE refs[a]
      BY <1>1, NilAssumption DEF Consistent, TypeOK
    <2>7. a = b => refs[a] > 0
      BY <2>2, FreeIsUnnamed
    <2> QED BY <1>1, <2>2, <2>4, <2>5, <2>6, <2>7 DEF Less
  <1> QED BY <1>1, <1>2, <1>3 DEF Counted, CallerLives, RoomToGrow, Idle

\* Copy on write moves one use from the shared block to its copy.
LEMMA CowRemapCounts ==
    ASSUME Consistent, Counted, NEW n \in Block, CowRemap(n)
    PROVE  Counted'
  <1> DEFINE c == call.ctx
             l == call.lvid
             b == Current
  <1>1. /\ call.stage = "prepare" /\ refs[b] > 1 /\ refs[n] = 0
        /\ refs' = [refs EXCEPT ![b] = @ - 1, ![n] = 1]
        /\ table' = [table EXCEPT ![c][l] = n]
        /\ live' = live /\ size' = size /\ call' = [At("clone") EXCEPT !.src = b]
    BY DEF CowRemap, InStage, MustCopy, FreeBlocks
  <1>2. c \in Ctx /\ l \in Lvid /\ b \in Block /\ b = table[c][l]
    BY <1>1, AccessFacts DEF Current
  <1>3. call'.ctx = c /\ call'.stage = "clone"
    BY <1>1 DEF Consistent, TypeOK, At, Call
  <1>4. TablesTidy'
    <2>1. table[c][l] # Nil
      BY <1>2, NilAssumption
    <2> QED BY <1>1, <1>2, <2>1 DEF Counted, TablesTidy, Consistent, TypeOK
  <1> HIDE DEF b
  <1>5. RefCountExact'
    <2> SUFFICES ASSUME NEW a \in Block PROVE refs'[a] = AllUses(a)'
      BY DEF RefCountExact
    <2>1. IsFiniteSet(EntriesIn(table, a))
      BY UsesAreFinite
    <2>2. refs[a] = Cardinality(EntriesIn(table, a)) /\ refs[a] \in Nat
      BY UsesAreFinite DEF Counted, RefCountExact, Consistent, TypeOK
    <2>3. Replaces(table', table, c, l, n)
      BY <1>1, <1>2 DEF Replaces, Consistent, TypeOK
    <2>4. Cardinality(EntriesIn(table', a)) =
             Cardinality(EntriesIn(table, a)) + (IF a = n THEN 1 ELSE 0)
                                              - (IF a = table[c][l] THEN 1 ELSE 0)
      BY <1>2, <2>1, <2>3, EntryMoves
    <2>5. AllUses(a)' = Cardinality(EntriesIn(table', a))
      BY DEF AllUses, EntriesIn
    <2>6. refs'[a] = IF a = n THEN 1 ELSE IF a = b THEN refs[a] - 1 ELSE refs[a]
      BY <1>1, <1>2 DEF Consistent, TypeOK
    <2> QED BY <1>1, <1>2, <2>2, <2>4, <2>5, <2>6
  <1> QED BY <1>1, <1>3, <1>4, <1>5 DEF Counted, CallerLives, RoomToGrow

\* Every step of a host that asks for no more than is free keeps the counts exact.
LEMMA NextCounted ==
    ASSUME "overallocate" \notin Liberties, Consistent, Counted, [Next]_vars
    PROVE  Counted'
  <1>1. CASE HostCall
    BY <1>1, CreateContextCounts, DestroyContextCounts, ForkContextCounts,
       AllocateBlocksCounts, ReleaseLogicalBlockCounts, QuietCallCounts
    DEF HostCall, QuietCall
  <1>2. CASE CallStep
    BY <1>2, ReclaimCounts, GrowTableCounts, GrowthSucceeds, CowRemapCounts,
       QuietStepCounts DEF CallStep, QuietStep
  <1>3. CASE HostStep
    BY <1>3, QuietCallCounts DEF QuietCall
  <1>4. CASE UNCHANGED vars
    BY <1>4, CountsStay DEF vars, names
  <1> QED BY <1>1, <1>2, <1>3, <1>4 DEF Next

\* Remapping moves one use from the old block to a free one.
LEMMA UpdateMappingCounts ==
    ASSUME Consistent, Counted, NEW c \in Ctx, NEW l \in Lvid, NEW b \in Block, NEW tier,
           UpdateMapping(c, l, b, tier)
    PROVE  Counted'
  <1> DEFINE old == table[c][l]
  <1>1. /\ old \in Block /\ refs[old] > 0 /\ old # b /\ refs[b] = 0 /\ c \in live
    BY RemapFacts
  <1>2. /\ refs' = [refs EXCEPT ![old] = Less(refs[old], 1), ![b] = 1]
        /\ table' = [table EXCEPT ![c][l] = b]
        /\ live' = live /\ size' = size /\ call' = TierChange(c, l, tier)
    BY DEF UpdateMapping, Starts, Released
  <1>3. TablesTidy'
    <2>1. old # Nil
      BY <1>1, NilAssumption
    <2> QED BY <1>2, <2>1 DEF Counted, TablesTidy, Consistent, TypeOK
  <1>4. RefCountExact'
    <2> SUFFICES ASSUME NEW a \in Block PROVE refs'[a] = AllUses(a)'
      BY DEF RefCountExact
    <2>1. IsFiniteSet(EntriesIn(table, a))
      BY UsesAreFinite
    <2>2. refs[a] = Cardinality(EntriesIn(table, a)) /\ refs[a] \in Nat
      BY UsesAreFinite DEF Counted, RefCountExact, Consistent, TypeOK
    <2>3. Replaces(table', table, c, l, b)
      BY <1>2 DEF Replaces, Consistent, TypeOK
    <2>4. Cardinality(EntriesIn(table', a)) =
             Cardinality(EntriesIn(table, a)) + (IF a = b THEN 1 ELSE 0)
                                              - (IF a = table[c][l] THEN 1 ELSE 0)
      BY <2>1, <2>3, EntryMoves
    <2>5. AllUses(a)' = Cardinality(EntriesIn(table', a))
      BY DEF AllUses, EntriesIn
    <2>6. refs'[a] = IF a = b THEN 1 ELSE IF a = old THEN Less(refs[a], 1) ELSE refs[a]
      BY <1>1, <1>2 DEF Consistent, TypeOK
    <2> HIDE DEF old
    <2>7. old = table[c][l]
      BY DEF old
    <2> QED BY <1>1, <2>2, <2>4, <2>5, <2>6, <2>7 DEF Less
  <1>5. CallerLives' /\ RoomToGrow'
    BY <1>1, <1>2, TierChangeFacts DEF CallerLives, RoomToGrow, Idle
  <1> QED BY <1>3, <1>4, <1>5 DEF Counted

\* The rest of the test API neither takes a block nor gives one back.
LEMMA TestQuietCounts ==
    ASSUME Consistent, Counted,
           TestStep \/ \E c \in Ctx, l \in Lvid : \E tier : MigrateBlock(c, l, tier)
    PROVE  Counted'
  <1>1. CASE TestStep
    <2>1. UNCHANGED <<refs, names>> /\ call' = Idle
      BY <1>1 DEF TestStep, DemoteResident, DemoteOther, DemoteFails, Promoted
    <2> QED BY <2>1, CountsStay DEF Idle
  <1>2. ASSUME NEW c \in Ctx, NEW l \in Lvid, NEW tier, MigrateBlock(c, l, tier)
        PROVE  Counted'
    <2>1. UNCHANGED <<refs, names>> /\ c \in live /\ call' = TierChange(c, l, tier)
      BY <1>2 DEF MigrateBlock, Resolves, Starts
    <2>2. call'.ctx \in live \cup {Nil} /\ call'.op # "allocate"
      BY <2>1, TierChangeFacts DEF Idle
    <2> QED BY <2>1, <2>2, CountsStay
  <1> QED BY <1>1, <1>2

\* The same for a host that uses the test API.
LEMMA TestNextCounted ==
    ASSUME "overallocate" \notin Liberties, Consistent, Counted, [TestNext]_vars
    PROVE  Counted'
  <1>1. CASE TestCall
    BY <1>1, UpdateMappingCounts, TestQuietCounts DEF TestCall
  <1> QED BY <1>1, NextCounted, TestQuietCounts DEF TestNext

\* The counts are exact at all times.
LEMMA TestAlwaysCounted ==
    ASSUME "overallocate" \notin Liberties
    PROVE  TestSpec => []Counted
  <1>1. Init => Counted
    BY InitCounted
  <1>2. Consistent /\ Counted /\ [TestNext]_vars => Counted'
    BY TestNextCounted
  <1> QED BY <1>1, <1>2, TestApiConsistent, PTL DEF TestSpec

LEMMA AlwaysCounted ==
    ASSUME "overallocate" \notin Liberties
    PROVE  Spec => []Counted
  BY TestAlwaysCounted, TestSpecIsWeaker, PTL

\* The reference count BlockManager keeps for a block is the number of page table
\* entries that name it, through forks, releases, destroyed contexts and copies on
\* write: no block is freed while an entry names it, and none leaks.  The one
\* hypothesis is needed: mmu_allocate_blocks leaves entries behind when it fails.
THEOREM RefCountsAreExact ==
    ASSUME "overallocate" \notin Liberties
    PROVE  Spec => []RefCountExact
  BY AlwaysCounted, PTL DEF Counted

\* Context::UpdateMapping keeps them exact as well.
THEOREM TestRefCountsAreExact ==
    ASSUME "overallocate" \notin Liberties
    PROVE  TestSpec => []RefCountExact
  BY TestAlwaysCounted, PTL DEF Counted

-----------------------------------------------------------------------------
(* Mappings and pins *)

\* The mappings the host holds on b
MappingsOf(b) == {h \in Handle : handles[h] # Nil /\ handles[h].block = b}

\* The structure a call will fill in does not describe an open mapping.
HandleIsFree == call.op = "map" => handles[call.handle] = Nil

\* A mapping is of the logical block it names.
MappingsOpen ==
    \A h \in Handle : handles[h] # Nil =>
        /\ handles[h].ctx \in live
        /\ table[handles[h].ctx][handles[h].lvid] = handles[h].block

\* Neither a copy on write nor the test API moves a logical block from under the
\* host's pointer.
MovesUnmapped ==
    \/ call.op = "remap"
    \/ call.stage = "prepare" /\ refs[Current] > 1
    => ~IsMapped(call.ctx, call.lvid)

\* What makes PinsCountMappings inductive
MappingsExact == PinsCountMappings /\ MappingsOpen /\ HandleIsFree /\ MovesUnmapped

\* The host neither asks for more than is free nor pulls the rug from under its
\* own mappings; it may still fork a context it is writing to.
MindsItsMappings == Liberties \subseteq {"forkWhileWriting"}

\* A mapped block is referenced and pinned.
LEMMA MappingFacts ==
    ASSUME Consistent, Counted, MappingsExact, NEW h \in Handle, handles[h] # Nil
    PROVE  /\ handles[h] \in Mapping /\ handles[h].ctx \in live
           /\ table[handles[h].ctx][handles[h].lvid] = handles[h].block
           /\ handles[h].block \in Block /\ refs[handles[h].block] > 0
           /\ meta[handles[h].block].pins > 0
  <1> DEFINE m == handles[h]
             b == m.block
  <1>1. m \in Mapping
    BY DEF Consistent, TypeOK
  <1>2. /\ m.ctx \in Ctx /\ m.lvid \in Lvid /\ b \in Block /\ m.page \in Page
    BY <1>1 DEF Mapping
  <1>3. m.ctx \in live /\ table[m.ctx][m.lvid] = b
    BY DEF MappingsExact, MappingsOpen
  <1>5. refs[b] > 0
    <2>1. refs[b] \in Nat
      BY <1>2 DEF Consistent, TypeOK
    <2> QED BY <1>2, <1>3, <2>1, FreeIsUnnamed
  <1>7. meta[b].pins > 0
    <2>1. h \in MappingsOf(b) /\ IsFiniteSet(MappingsOf(b))
      BY FiniteAssumption, FS_Subset DEF MappingsOf
    <2>2. Cardinality(MappingsOf(b)) \in Nat /\ Cardinality(MappingsOf(b)) # 0
      BY <2>1, FS_EmptySet, FS_CardinalityType
    <2>3. meta[b].pins = Cardinality(MappingsOf(b))
      BY <1>2 DEF MappingsExact, PinsCountMappings, MappingsOf
    <2> QED BY <2>2, <2>3
  <1> QED BY <1>1, <1>2, <1>3, <1>5, <1>7

\* A block nobody maps has no pins.
LEMMA UnmappedUnpinned ==
    ASSUME MappingsExact, NEW b \in Block, \A h \in Handle : handles[h] # Nil => handles[h].block # b
    PROVE  meta[b].pins = 0
  <1>1. MappingsOf(b) = {}
    BY DEF MappingsOf
  <1>2. meta[b].pins = Cardinality(MappingsOf(b))
    BY DEF MappingsExact, PinsCountMappings, MappingsOf
  <1> QED BY <1>1, <1>2, FS_EmptySet

\* What a step must leave alone, when it opens and closes no mapping
LEMMA MappingsStay ==
    ASSUME Consistent, Counted, MappingsExact, handles' = handles,
           \A b \in Block : meta'[b].pins = meta[b].pins,
           \A h \in Handle : handles[h] # Nil =>
              /\ handles[h].ctx \in live'
              /\ table'[handles[h].ctx][handles[h].lvid] = handles[h].block,
           HandleIsFree', MovesUnmapped'
    PROVE  MappingsExact'
  <1>1. PinsCountMappings'
    BY DEF MappingsExact, PinsCountMappings
  <1>2. MappingsOpen'
    BY DEF MappingsExact, MappingsOpen
  <1> QED BY <1>1, <1>2 DEF MappingsExact

\* A call that is not a new one still has its free handle, and moves nothing.
LEMMA CallKeepsHandle ==
    ASSUME Consistent, MappingsExact, handles' = handles, CallStep
    PROVE  HandleIsFree' /\ MovesUnmapped'
  <1>1. \/ call' = Idle
        \/ call' = call /\ call.stage = "ensure"
        \/ /\ call'.op = call.op /\ call'.ctx = call.ctx /\ call'.handle = call.handle
           /\ call'.stage # "prepare" /\ (call.op = "remap" => call'.lvid = call.lvid)
    <2>1. call.op = "remap" => call.stage \notin {"grow", "register"}
      BY DEF Consistent, CallConsistent, AccessConsistent
    <2> QED BY <2>1, CallGoesOn
  <1>2. \A c, l : IsMapped(c, l)' = IsMapped(c, l)
    BY DEF IsMapped, Holds
  <1>3. CASE call' = Idle
    BY <1>3 DEF HandleIsFree, MovesUnmapped, Idle
  <1>4. CASE call' = call /\ call.stage = "ensure"
    BY <1>2, <1>4 DEF MappingsExact, HandleIsFree, MovesUnmapped, IsMapped, Holds
  <1>5. CASE /\ call'.op = call.op /\ call'.ctx = call.ctx /\ call'.handle = call.handle
             /\ call'.stage # "prepare" /\ (call.op = "remap" => call'.lvid = call.lvid)
    BY <1>2, <1>5 DEF MappingsExact, HandleIsFree, MovesUnmapped, IsMapped, Holds
  <1> QED BY <1>1, <1>3, <1>4, <1>5

\* Scrubbing blocks that nobody refers to disturbs no mapping.
LEMMA ScrubUnmapped ==
    ASSUME Consistent, Counted, MappingsExact, NEW S \in SUBSET Block, Scrub(S),
           \A h \in Handle : handles[h] # Nil => handles[h].block \notin S
    PROVE  \A b \in Block : meta'[b].pins = meta[b].pins
  <1>1. \A b \in S : meta[b].pins = 0
    BY UnmappedUnpinned
  <1>2. \A b \in Block : meta'[b] = IF b \in S THEN DefaultMeta ELSE meta[b]
    BY DEF Scrub
  <1> QED BY <1>1, <1>2 DEF DefaultMeta

\* A new runtime has no mappings.
LEMMA InitMapped == Init => MappingsExact
  <1> SUFFICES ASSUME Init PROVE MappingsExact
    OBVIOUS
  <1>1. PinsCountMappings
    <2> SUFFICES ASSUME NEW b \in Block PROVE meta[b].pins = Cardinality(MappingsOf(b))
      BY DEF PinsCountMappings, MappingsOf
    <2>1. MappingsOf(b) = {}
      BY DEF MappingsOf, Init
    <2> QED BY <2>1, FS_EmptySet DEF Init, DefaultMeta
  <1> QED BY <1>1 DEF Init, Idle, MappingsExact, MappingsOpen, HandleIsFree, MovesUnmapped

\* A context nobody has mapped may come and go.
LEMMA ContextsKeepMappings ==
    ASSUME Consistent, Counted, MappingsExact, MindsItsMappings, NEW c \in Ctx,
           \/ CreateContext(c) \/ DestroyContext(c)
           \/ \E d \in Ctx : ForkContext(d, c)
    PROVE  MappingsExact'
  <1>1. /\ UNCHANGED <<blocks, pools, handles>>
        /\ call'.op \notin {"map", "remap"} /\ call'.stage # "prepare"
    <2>1. CASE DestroyContext(c)
      BY <2>1 DEF DestroyContext, Starts, Idle
    <2>2. CASE ~DestroyContext(c)
      <3>1. UNCHANGED <<blocks, pools, handles>> /\ call' = Idle
        BY <2>2 DEF CreateContext, ForkContext, Starts
      <3> QED BY <3>1 DEF Idle
    <2> QED BY <2>1, <2>2
  <1>2. \A h \in Handle : handles[h] # Nil =>
           handles[h] \in Mapping /\ handles[h].ctx \in live /\ handles[h].ctx # c
    <2> SUFFICES ASSUME NEW h \in Handle, handles[h] # Nil
                 PROVE  handles[h] \in Mapping /\ handles[h].ctx \in live /\ handles[h].ctx # c
      OBVIOUS
    <2>1. handles[h] \in Mapping /\ handles[h].ctx \in live
      BY MappingFacts
    <2>2. DestroyContext(c) => handles[h].ctx # c
      BY <2>1 DEF DestroyContext, MayDrop, Permitted, MindsItsMappings, IsMapped, Holds, Mapping
    <2>3. ~DestroyContext(c) => c \notin live
      BY DEF CreateContext, ForkContext
    <2> QED BY <2>1, <2>2, <2>3
  <1>3. \A e \in Ctx \ {c} : table'[e] = table[e] /\ (e \in live => e \in live')
    BY DEF CreateContext, DestroyContext, ForkContext, Consistent, TypeOK
  <1>4. \A h \in Handle : handles[h] # Nil =>
           /\ handles[h].ctx \in live'
           /\ table'[handles[h].ctx][handles[h].lvid] = handles[h].block
    BY <1>2, <1>3, MappingFacts DEF Mapping
  <1>5. HandleIsFree' /\ MovesUnmapped'
    BY <1>1 DEF HandleIsFree, MovesUnmapped
  <1> QED BY <1>1, <1>4, <1>5, MappingsStay DEF blocks, pools

\* A call that starts promises what its later stages rely on.
LEMMA StartingKeepsMappings ==
    ASSUME Consistent, Counted, MappingsExact, MindsItsMappings,
           \/ \E c \in Ctx, n \in 1 .. MaxLvid : AllocateBlocks(c, n)
           \/ \E c \in Ctx, l \in Lvid : PrepareBlockForWrite(c, l)
           \/ \E c \in Ctx, l \in Lvid, write \in BOOLEAN, h \in Handle :
                 MapLogicalBlock(c, l, write, h)
    PROVE  MappingsExact'
  <1>1. UNCHANGED <<refs, names, blocks, pools, handles>>
    BY DEF AllocateBlocks, PrepareBlockForWrite, MapLogicalBlock
  <1>2. HandleIsFree' /\ MovesUnmapped'
    <2>1. CASE \E c \in Ctx, n \in 1 .. MaxLvid : AllocateBlocks(c, n)
      BY <2>1 DEF AllocateBlocks, Starts, Idle, HandleIsFree, MovesUnmapped
    <2>2. ASSUME NEW c \in Ctx, NEW l \in Lvid, PrepareBlockForWrite(c, l)
          PROVE  HandleIsFree' /\ MovesUnmapped'
      <3>1. call'.op = "prepare" /\ call'.ctx = c /\ call'.lvid = l
        BY <2>2 DEF PrepareBlockForWrite, Starts, Idle
      <3>2. refs[table[c][l]] > 1 => ~IsMapped(c, l)
        BY <2>2 DEF PrepareBlockForWrite, MayWrite, Permitted, MindsItsMappings
      <3> QED BY <1>1, <3>1, <3>2
              DEF HandleIsFree, MovesUnmapped, Current, IsMapped, Holds, names
    <2>3. ASSUME NEW c \in Ctx, NEW l \in Lvid, NEW write \in BOOLEAN, NEW h \in Handle,
                 MapLogicalBlock(c, l, write, h)
          PROVE  HandleIsFree' /\ MovesUnmapped'
      <3>1. /\ call'.ctx = c /\ call'.lvid = l /\ call'.handle = h /\ handles[h] = Nil
            /\ call'.op = "map" /\ (call'.stage = "prepare" => write)
        BY <2>3 DEF MapLogicalBlock, Starts, Idle
      <3>2. write /\ refs[table[c][l]] > 1 => ~IsMapped(c, l)
        BY <2>3 DEF MapLogicalBlock, MayWrite, Permitted, MindsItsMappings
      <3> QED BY <1>1, <3>1, <3>2
              DEF HandleIsFree, MovesUnmapped, Current, IsMapped, Holds, names
    <2> QED BY <2>1, <2>2, <2>3
  <1> QED BY <1>1, <1>2, MappingFacts, MappingsStay DEF names, blocks, pools

\* A block that is named after a step is in use after it.
LEMMA StillNamed ==
    ASSUME Counted', NEW b \in Block, NEW c \in Ctx, NEW l \in Lvid, table'[c][l] = b
    PROVE  refs'[b] # 0
  <1>1. IsFiniteSet(live') /\ \A e \in Ctx, k \in Lvid : table'[e][k] = b => e \in live'
    BY NilAssumption DEF Counted, TablesTidy
  <1>2. IsFiniteSet(EntriesIn(table', b))
    BY <1>1, EntriesAreFinite
  <1>3. <<c, l>> \in EntriesIn(table', b)
    BY DEF EntriesIn
  <1>4. refs'[b] = Cardinality(EntriesIn(table', b))
    BY DEF Counted, RefCountExact, AllUses, EntriesIn
  <1> QED BY <1>2, <1>3, <1>4, FS_EmptySet

\* An entry nobody has mapped may be dropped; a block that some other logical
\* block still maps keeps a reference, and is not freed with it.
LEMMA ReleaseKeepsMappings ==
    ASSUME Consistent, Counted, MappingsExact, MindsItsMappings, Counted',
           NEW c \in Ctx, NEW l \in Lvid, ReleaseLogicalBlock(c, l)
    PROVE  MappingsExact'
  <1> DEFINE b == table[c][l]
             S == FreedByRelease(b)
  <1>1. /\ b \in Block /\ call' = Idle /\ live' = live /\ handles' = handles
        /\ refs' = [refs EXCEPT ![b] = Less(@, 1)]
        /\ table' = [table EXCEPT ![c][l] = Nil]
        /\ Scrub(S) /\ S \in SUBSET Block /\ \A a \in S : a = b /\ refs[b] <= 1
        /\ ~IsMapped(c, l)
    BY DEF ReleaseLogicalBlock, Starts, Resolves, Consistent, TypeOK, FreedByRelease,
           MayDrop, Permitted, MindsItsMappings
  <1> HIDE DEF S
  <1>2. \A h \in Handle : handles[h] # Nil =>
           /\ handles[h].ctx \in live'
           /\ table'[handles[h].ctx][handles[h].lvid] = handles[h].block
           /\ handles[h].block \notin S
    <2> SUFFICES ASSUME NEW h \in Handle, handles[h] # Nil
                 PROVE  /\ handles[h].ctx \in live'
                        /\ table'[handles[h].ctx][handles[h].lvid] = handles[h].block
                        /\ handles[h].block \notin S
      OBVIOUS
    <2> DEFINE m == handles[h]
    <2>1. /\ m.ctx \in live /\ table[m.ctx][m.lvid] = m.block
          /\ m.ctx \in Ctx /\ m.lvid \in Lvid /\ m.block \in Block
      BY MappingFacts DEF Mapping
    <2>2. ~(m.ctx = c /\ m.lvid = l)
      BY <1>1 DEF IsMapped, Holds
    <2>3. table'[m.ctx][m.lvid] = m.block
      BY <1>1, <2>1, <2>2 DEF Consistent, TypeOK
    <2>4. refs'[m.block] # 0
      BY <2>1, <2>3, StillNamed
    <2>5. m.block \notin S
      BY <1>1, <2>1, <2>4 DEF Consistent, TypeOK, Less
    <2> QED BY <1>1, <2>1, <2>3, <2>5
  <1>3. \A a \in Block : meta'[a].pins = meta[a].pins
    BY <1>1, <1>2, ScrubUnmapped
  <1>4. HandleIsFree' /\ MovesUnmapped'
    BY <1>1 DEF HandleIsFree, MovesUnmapped, Idle
  <1> QED BY <1>1, <1>2, <1>3, <1>4, MappingsStay

\* Closing a mapping gives back its pin and no other.
LEMMA UnmapKeepsMappings ==
    ASSUME Consistent, Counted, MappingsExact, NEW h \in Handle, UnmapLogicalBlock(h)
    PROVE  MappingsExact'
  <1> DEFINE b == handles[h].block
  <1>1. /\ handles[h] # Nil /\ handles' = [handles EXCEPT ![h] = Nil]
        /\ call' = Idle /\ UNCHANGED <<refs, names, l1>>
        /\ \/ UnmapRead(b) \/ UnmapWrite(b) \/ UnmapWriteFails(b) \/ UnmapWriteEvicted(b)
    BY DEF UnmapLogicalBlock, CanUnmap, Unmap, Starts
  <1>2. b \in Block /\ meta[b] \in Meta /\ meta[b].pins > 0
    BY <1>1, MappingFacts DEF Mapping, Consistent, TypeOK
  <1>3. meta'[b].pins = meta[b].pins - 1 /\ \A a \in Block \ {b} : meta'[a] = meta[a]
    <2>1. Unpinned(b).pins = meta[b].pins - 1
      BY <1>2 DEF Unpinned, Less, Meta
    <2>2. Unpinned(b) \in [allocated : BOOLEAN, tier : Tier, resident : BOOLEAN,
                          dirty : BOOLEAN, pins : Int, backed : BOOLEAN]
      BY <1>2, LessIsNat DEF Unpinned, Meta
    <2>3. PICK m : m.pins = Unpinned(b).pins /\ meta' = [meta EXCEPT ![b] = m]
      BY <1>1, <2>2 DEF UnmapRead, UnmapWrite, UnmapWriteFails, UnmapWriteEvicted
    <2> QED BY <1>2, <2>1, <2>3 DEF Consistent, TypeOK
  <1>4. PinsCountMappings'
    <2> SUFFICES ASSUME NEW a \in Block PROVE meta'[a].pins = Cardinality(MappingsOf(a)')
      BY DEF PinsCountMappings, MappingsOf
    <2>1. MappingsOf(a)' = IF a = b THEN MappingsOf(a) \ {h} ELSE MappingsOf(a)
      BY <1>1, <1>2 DEF MappingsOf, Consistent, TypeOK
    <2>2. IsFiniteSet(MappingsOf(a)) /\ (a = b => h \in MappingsOf(a))
      BY <1>1, FiniteAssumption, FS_Subset DEF MappingsOf
    <2>3. meta[a].pins = Cardinality(MappingsOf(a))
      BY DEF MappingsExact, PinsCountMappings, MappingsOf
    <2>4. CASE a = b
      <3>1. Cardinality(MappingsOf(a) \ {h}) = Cardinality(MappingsOf(a)) - 1
        BY <2>2, <2>4, FS_RemoveElement
      <3> QED BY <1>3, <2>1, <2>3, <2>4, <3>1
    <2>5. CASE a # b
      BY <1>3, <2>1, <2>3, <2>5
    <2> QED BY <2>4, <2>5
  <1>5. MappingsOpen'
    BY <1>1 DEF MappingsExact, MappingsOpen, names, Consistent, TypeOK
  <1> QED BY <1>1, <1>4, <1>5 DEF MappingsExact, HandleIsFree, MovesUnmapped, Idle

\* A store changes no mapping.
LEMMA HostWriteKeepsMappings ==
    ASSUME Consistent, Counted, MappingsExact, HostStep
    PROVE  MappingsExact'
  <1>1. UNCHANGED <<refs, names, blocks, l1, handles, call>>
    BY DEF HostStep, HostWrite
  <1>2. HandleIsFree' /\ MovesUnmapped'
    BY <1>1 DEF MappingsExact, HandleIsFree, MovesUnmapped, Current, IsMapped, Holds, names
  <1> QED BY <1>1, <1>2, MappingFacts, MappingsStay DEF names, blocks

\* Reclaiming frees pages of blocks that nobody refers to, and so nobody maps.
LEMMA ReclaimKeepsMappings ==
    ASSUME Consistent, Counted, MappingsExact, Reclaim
    PROVE  MappingsExact'
  <1>1. /\ FreeBlocks \in SUBSET Block /\ Scrub(FreeBlocks)
        /\ UNCHANGED <<refs, names, handles>> /\ CallStep
    BY DEF Reclaim, FreeBlocks, CallStep
  <1>2. \A h \in Handle : handles[h] # Nil => handles[h].block \notin FreeBlocks
    BY MappingFacts DEF FreeBlocks
  <1>3. \A b \in Block : meta'[b].pins = meta[b].pins
    BY <1>1, <1>2, ScrubUnmapped
  <1> QED BY <1>1, <1>3, CallKeepsHandle, MappingFacts, MappingsStay DEF names

\* A new entry has no mapping, nor has the block that is given to it.
LEMMA GrowTableKeepsMappings ==
    ASSUME Consistent, Counted, MappingsExact, NEW b \in Block, GrowTable(b)
    PROVE  MappingsExact'
  <1> DEFINE c == call.ctx
             n == size[c]
  <1>1. /\ call.stage = "grow" /\ live' = live /\ UNCHANGED <<blocks, pools, handles>>
        /\ table' = [table EXCEPT ![c][n] = b] /\ CallStep
    BY DEF GrowTable, InStage, CallStep
  <1>2. call.op = "allocate" /\ AllocationConsistent
    BY <1>1 DEF Consistent, TypeOK, Call, Op, CallConsistent, AccessConsistent
  <1>3. c \in Ctx /\ n \in Nat /\ n \in Lvid
    BY <1>1, <1>2, ConfigAssumption DEF Consistent, TypeOK, Call, AllocationConsistent, Lvid
  <1>4. table[c][n] = Nil
    BY <1>3 DEF Counted, TablesTidy
  <1>5. \A h \in Handle : handles[h] # Nil =>
           /\ handles[h].ctx \in live'
           /\ table'[handles[h].ctx][handles[h].lvid] = handles[h].block
    <2> SUFFICES ASSUME NEW h \in Handle, handles[h] # Nil
                 PROVE  /\ handles[h].ctx \in live'
                        /\ table'[handles[h].ctx][handles[h].lvid] = handles[h].block
      OBVIOUS
    <2>1. /\ handles[h] \in Mapping /\ handles[h].ctx \in live
          /\ table[handles[h].ctx][handles[h].lvid] = handles[h].block
      BY MappingFacts
    <2>2. ~(handles[h].ctx = c /\ handles[h].lvid = n)
      BY <1>4, <2>1, NilAssumption DEF Mapping
    <2> QED BY <1>1, <1>3, <2>1, <2>2 DEF Consistent, TypeOK, Mapping
  <1> QED BY <1>1, <1>5, CallKeepsHandle, MappingsStay DEF blocks, pools

\* A block being registered has no pins to lose.
LEMMA RegisterKeepsMappings ==
    ASSUME Consistent, Counted, MappingsExact, RegisterInL1 \/ RegisterInL2
    PROVE  MappingsExact'
  <1>1. Registering /\ CallStep
    BY DEF RegisterInL1, RegisterInL2, CallStep
  <1>2. /\ Current \in Block /\ Clean(Current) /\ l1' = l1
        /\ UNCHANGED <<refs, names, mem, handles>>
    BY <1>1, RegisteringFacts
  <1>3. \A b \in Block : meta'[b].pins = meta[b].pins
    <2>1. PICK m : m.pins = 0 /\ meta' = [meta EXCEPT ![Current] = m]
      BY DEF RegisterInL1, RegisterInL2, FreshMeta, DefaultMeta
    <2> QED BY <1>2, <2>1 DEF Clean, DefaultMeta, Consistent, TypeOK
  <1> QED BY <1>1, <1>2, <1>3, CallKeepsHandle, MappingFacts, MappingsStay DEF names

\* Copy on write moves only a logical block that the host has not mapped.
LEMMA CowRemapKeepsMappings ==
    ASSUME Consistent, Counted, MappingsExact, NEW n \in Block, CowRemap(n)
    PROVE  MappingsExact'
  <1> DEFINE c == call.ctx
             l == call.lvid
  <1>1. /\ call.stage = "prepare" /\ refs[Current] > 1 /\ refs[n] = 0
        /\ table' = [table EXCEPT ![c][l] = n]
        /\ meta' = [meta EXCEPT ![n] = [FreshMeta EXCEPT !.tier = "L2"]]
        /\ live' = live /\ UNCHANGED <<pools, handles>> /\ CallStep
    BY DEF CowRemap, InStage, MustCopy, FreeBlocks, CallStep
  <1>2. c \in Ctx /\ l \in Lvid
    BY <1>1, AccessFacts
  <1>3. Clean(n)
    BY <1>1 DEF Consistent, FreeBlocksClean, FreeBlocks
  <1>4. \A b \in Block : meta'[b].pins = meta[b].pins
    BY <1>1, <1>3 DEF Clean, FreshMeta, DefaultMeta, Consistent, TypeOK
  <1>5. ~IsMapped(c, l)
    BY <1>1 DEF MappingsExact, MovesUnmapped
  <1>6. \A h \in Handle : handles[h] # Nil =>
           /\ handles[h].ctx \in live'
           /\ table'[handles[h].ctx][handles[h].lvid] = handles[h].block
    <2> SUFFICES ASSUME NEW h \in Handle, handles[h] # Nil
                 PROVE  /\ handles[h].ctx \in live'
                        /\ table'[handles[h].ctx][handles[h].lvid] = handles[h].block
      OBVIOUS
    <2>1. /\ handles[h] \in Mapping /\ handles[h].ctx \in live
          /\ table[handles[h].ctx][handles[h].lvid] = handles[h].block
      BY MappingFacts
    <2>2. ~(handles[h].ctx = c /\ handles[h].lvid = l)
      BY <1>5 DEF IsMapped, Holds
    <2> QED BY <1>1, <1>2, <2>1, <2>2 DEF Consistent, TypeOK, Mapping
  <1> QED BY <1>1, <1>4, <1>6, CallKeepsHandle, MappingsStay DEF pools

\* Steps that move pages around and keep all names and pins
LEMMA PagesMoveAround ==
    ASSUME Consistent, Counted, MappingsExact, CallStep, UNCHANGED <<names, handles>>,
           \A a \in Block : meta'[a].pins = meta[a].pins
    PROVE  MappingsExact'
  BY CallKeepsHandle, MappingFacts, MappingsStay DEF names

\* Copies, evictions and promotions give no pin and take none.
LEMMA PagesKeepMappings ==
    ASSUME Consistent, Counted, MappingsExact,
           \/ CloneBlockData
           \/ \E v \in Block : EvictVictim(v)
           \/ \E p \in Page : Promote(p)
    PROVE  MappingsExact'
  <1>1. UNCHANGED <<names, handles>> /\ CallStep
    BY DEF CloneBlockData, EvictVictim, Promote, CallStep
  <1>2. CASE CloneBlockData \/ \E p \in Page : Promote(p)
    <2>1. Current \in Block
      BY <1>2, AccessFacts DEF CloneBlockData, Promote, InStage
    <2>2. \/ meta' = [meta EXCEPT ![Current].backed = TRUE]
          \/ meta' = [meta EXCEPT ![Current].resident = TRUE, ![Current].tier = "L1"]
      BY <1>2 DEF CloneBlockData, Promote
    <2>3. \A a \in Block : meta'[a].pins = meta[a].pins
      BY <2>1, <2>2 DEF Consistent, TypeOK, Meta
    <2> QED BY <1>1, <2>3, PagesMoveAround
  <1>3. ASSUME NEW v \in Block, EvictVictim(v) PROVE MappingsExact'
    <2> DEFINE m == [meta[v] EXCEPT !.resident = FALSE, !.tier = "L2", !.backed = TRUE]
    <2>1. meta' = [meta EXCEPT ![v] = m]
      BY <1>3 DEF EvictVictim
    <2>2. m.pins = meta[v].pins
      BY DEF Consistent, TypeOK, Meta
    <2>3. \A a \in Block : meta'[a].pins = meta[a].pins
      BY <2>1, <2>2 DEF Consistent, TypeOK
    <2> QED BY <1>1, <2>3, PagesMoveAround
  <1> QED BY <1>2, <1>3

\* A pin goes with the mapping it is for.
LEMMA PinKeepsMappings ==
    ASSUME Consistent, Counted, MappingsExact, NEW p \in Page, Pin(p)
    PROVE  MappingsExact'
  <1> DEFINE m == [ctx |-> call.ctx, lvid |-> call.lvid, block |-> Current,
                   page |-> p, write |-> call.write]
             h == call.handle
  <1>1. /\ call.stage = "pin" /\ call.op = "map"
        /\ meta' = [meta EXCEPT ![Current].pins = @ + 1]
        /\ handles' = [handles EXCEPT ![h] = m]
        /\ call' = Idle /\ UNCHANGED <<refs, names>>
    BY DEF Pin, InStage
  <1>2. call.ctx \in Ctx /\ call.lvid \in Lvid /\ Current \in Block /\ h \in Handle
    BY <1>1, AccessFacts DEF AccessConsistent
  <1>3. handles[h] = Nil
    BY <1>1 DEF MappingsExact, HandleIsFree
  <1>4. m.block = Current /\ m.ctx = call.ctx /\ m.lvid = call.lvid /\ m.page = p /\ m # Nil
    <2>1. m \in Mapping
      BY <1>2 DEF Mapping, Consistent, TypeOK, Call
    <2> QED BY <2>1, NilIsNothing
  <1> HIDE DEF m
  <1>5. PinsCountMappings'
    <2> SUFFICES ASSUME NEW a \in Block PROVE meta'[a].pins = Cardinality(MappingsOf(a)')
      BY DEF PinsCountMappings, MappingsOf
    <2>1. meta[a].pins = Cardinality(MappingsOf(a)) /\ meta[a].pins \in Nat
      BY DEF MappingsExact, PinsCountMappings, MappingsOf, Consistent, TypeOK, Meta
    <2>2. IsFiniteSet(MappingsOf(a)) /\ h \notin MappingsOf(a)
      BY <1>3, FiniteAssumption, FS_Subset DEF MappingsOf
    <2>3. CASE a = Current
      <3>1. MappingsOf(a)' = MappingsOf(a) \cup {h}
        BY <1>1, <1>2, <1>3, <1>4, <2>3 DEF MappingsOf, Consistent, TypeOK
      <3>2. Cardinality(MappingsOf(a) \cup {h}) = Cardinality(MappingsOf(a)) + 1
        BY <2>2, FS_AddElement
      <3>3. meta'[a].pins = meta[a].pins + 1
        BY <1>1, <1>2, <2>3 DEF Consistent, TypeOK, Meta
      <3> QED BY <2>1, <3>1, <3>2, <3>3
    <2>4. CASE a # Current
      <3>1. MappingsOf(a)' = MappingsOf(a)
        BY <1>1, <1>2, <1>3, <1>4, <2>4 DEF MappingsOf, Consistent, TypeOK
      <3> QED BY <1>1, <2>1, <2>4, <3>1 DEF Consistent, TypeOK
    <2> QED BY <2>3, <2>4
  <1>6. MappingsOpen'
    <2> SUFFICES ASSUME NEW g \in Handle, handles'[g] # Nil
                 PROVE  /\ handles'[g].ctx \in live
                        /\ table[handles'[g].ctx][handles'[g].lvid] = handles'[g].block
      BY <1>1 DEF MappingsOpen, names
    <2>1. CASE g = h
      <3>1. call.ctx \in live
        BY <1>2, NilAssumption DEF Counted, CallerLives
      <3> QED BY <1>1, <1>2, <1>4, <2>1, <3>1 DEF Consistent, TypeOK, Current
    <2>2. CASE g # h
      <3>1. handles'[g] = handles[g]
        BY <1>1, <2>2 DEF Consistent, TypeOK
      <3> QED BY <3>1, <2>2 DEF MappingsExact, MappingsOpen
    <2> QED BY <2>1, <2>2
  <1> QED BY <1>1, <1>5, <1>6 DEF MappingsExact, HandleIsFree, MovesUnmapped, Idle

\* Every step of a host that minds its mappings keeps them.
LEMMA NextMapped ==
    ASSUME MindsItsMappings, Consistent, Counted, MappingsExact, Counted', [Next]_vars
    PROVE  MappingsExact'
  <1>1. CASE HostCall
    <2>1. ASSUME NEW c \in Ctx, NEW l \in Lvid, NEW write \in BOOLEAN,
                 StrayUnmap(c, l, write)
          PROVE  FALSE
      BY <2>1 DEF StrayUnmap, Permitted, MindsItsMappings
    <2> QED BY <1>1, <2>1, ContextsKeepMappings, StartingKeepsMappings,
               ReleaseKeepsMappings, UnmapKeepsMappings DEF HostCall
  <1>2. CASE CallStep
    <2>1. CASE WriteInPlace \/ CowFails \/ CloneFails \/ EvictFails \/ PromoteFails \/ PinFails
      <3>1. UNCHANGED <<names, blocks, pools, handles>>
        BY <2>1 DEF WriteInPlace, CowFails, CloneFails, EvictFails, PromoteFails, PinFails
      <3> QED BY <1>2, <3>1, CallKeepsHandle, MappingFacts, MappingsStay
              DEF names, blocks, pools
    <2>2. CASE AlreadyResident
      <3>1. Current \in Block /\ UNCHANGED <<names, pools, handles>>
            /\ meta' = [meta EXCEPT ![Current].tier = "L1"]
        BY <2>2, AccessFacts DEF AlreadyResident, InStage
      <3>2. \A b \in Block : meta'[b].pins = meta[b].pins
        BY <3>1 DEF Consistent, TypeOK, Meta
      <3> QED BY <1>2, <3>1, <3>2, CallKeepsHandle, MappingFacts, MappingsStay
              DEF names, pools
    <2> QED BY <1>2, <2>1, <2>2, ReclaimKeepsMappings, GrowTableKeepsMappings,
               GrowthSucceeds, RegisterKeepsMappings, CowRemapKeepsMappings,
               PagesKeepMappings, PinKeepsMappings
            DEF CallStep
  <1>3. CASE HostStep
    BY <1>3, HostWriteKeepsMappings
  <1>4. CASE UNCHANGED vars
    <2>1. HandleIsFree' /\ MovesUnmapped'
      BY <1>4 DEF vars, MappingsExact, HandleIsFree, MovesUnmapped, Current, IsMapped, Holds
    <2> QED BY <1>4, <2>1, MappingFacts, MappingsStay DEF vars
  <1> QED BY <1>1, <1>2, <1>3, <1>4 DEF Next

\* The test API starts with a logical block that the host has not mapped.
LEMMA TierChangeKeepsMappings ==
    ASSUME Consistent, Counted, MappingsExact, NEW c \in Ctx, NEW l \in Lvid, NEW tier,
           ~IsMapped(c, l), call' = TierChange(c, l, tier), handles' = handles,
           \A b \in Block : meta'[b].pins = meta[b].pins,
           live' = live, \A d \in Ctx, k \in Lvid : d # c \/ k # l => table'[d][k] = table[d][k]
    PROVE  MappingsExact'
  <1>1. HandleIsFree' /\ MovesUnmapped'
    <2>1. CASE call' = Idle
      BY <2>1 DEF HandleIsFree, MovesUnmapped, Idle
    <2>2. CASE call' # Idle
      <3>1. /\ call'.stage \in {"reclaim", "demote"} /\ call'.op = "remap"
            /\ call'.ctx = c /\ call'.lvid = l
        BY <2>2, TierChangeFacts
      <3> QED BY <3>1 DEF HandleIsFree, MovesUnmapped, IsMapped, Holds
    <2> QED BY <2>1, <2>2
  <1>2. \A h \in Handle : handles[h] # Nil =>
           /\ handles[h].ctx \in live'
           /\ table'[handles[h].ctx][handles[h].lvid] = handles[h].block
    BY MappingFacts DEF IsMapped, Holds, Mapping
  <1> QED BY <1>1, <1>2, MappingsStay

\* Nobody maps the logical block that is moved, nor either of the two blocks if
\* it is free or becomes free.
LEMMA TestCallKeepsMappings ==
    ASSUME Consistent, Counted, MappingsExact, MindsItsMappings, TestCall
    PROVE  MappingsExact'
  <1>1. ASSUME NEW c \in Ctx, NEW l \in Lvid, NEW tier, MigrateBlock(c, l, tier)
        PROVE  MappingsExact'
    <2>1. /\ UNCHANGED <<refs, names, blocks, pools, handles>> /\ call' = TierChange(c, l, tier)
          /\ ~IsMapped(c, l)
      BY <1>1 DEF MigrateBlock, Starts, MayDrop, Permitted, MindsItsMappings
    <2> QED BY <2>1, TierChangeKeepsMappings DEF names, blocks
  <1>2. ASSUME NEW c \in Ctx, NEW l \in Lvid, NEW b \in Block, NEW tier,
               UpdateMapping(c, l, b, tier)
        PROVE  MappingsExact'
    <2> DEFINE old == table[c][l]
               freed == FreedByRelease(old)
    <2>1. /\ old \in Block /\ refs[b] = 0 /\ Clean(b) /\ old # b
          /\ \A a \in Block : a \in freed <=> a = old /\ refs[a] = 1
      BY <1>2, RemapFacts
    <2>2. /\ call' = TierChange(c, l, tier) /\ handles' = handles /\ live' = live
          /\ table' = [table EXCEPT ![c][l] = b] /\ ~IsMapped(c, l)
          /\ meta' = [a \in Block |-> IF a = b THEN FreshMeta
                                     ELSE IF a \in freed THEN DefaultMeta ELSE meta[a]]
      BY <1>2 DEF UpdateMapping, Starts, MayDrop, Permitted, MindsItsMappings
    <2>3. \A d \in Ctx, k \in Lvid : d # c \/ k # l => table'[d][k] = table[d][k]
      BY <2>2 DEF Consistent, TypeOK
    <2>4. refs[old] = 1 => \A h \in Handle : handles[h] # Nil => handles[h].block # old
      <3> SUFFICES ASSUME refs[old] = 1, NEW h \in Handle, handles[h] # Nil,
                          handles[h].block = old
                   PROVE  FALSE
        OBVIOUS
      <3> DEFINE m == handles[h]
      <3>1. m.ctx \in Ctx /\ m.lvid \in Lvid /\ table[m.ctx][m.lvid] = old
        BY MappingFacts DEF Mapping
      <3>2. m.ctx = c /\ m.lvid = l
        BY <2>1, <3>1, NamedOnce
      <3> QED BY <2>2, <3>2 DEF IsMapped, Holds
    <2>5. refs[old] = 1 => meta[old].pins = 0
      BY <2>1, <2>4, UnmappedUnpinned
    <2>6. \A a \in Block : meta'[a].pins = meta[a].pins
      BY <2>1, <2>2, <2>5 DEF FreshMeta, DefaultMeta, Clean
    <2> QED BY <2>2, <2>3, <2>6, TierChangeKeepsMappings
  <1> QED BY <1>1, <1>2 DEF TestCall

\* What the test API leaves alone when it ends
LEMMA TestStepKeepsMappings ==
    ASSUME Consistent, Counted, MappingsExact, TestStep
    PROVE  MappingsExact'
  <1>1. call' = Idle /\ UNCHANGED <<names, handles>>
    BY DEF TestStep, DemoteResident, DemoteOther, DemoteFails, Promoted
  <1>2. \A b \in Block : meta'[b].pins = meta[b].pins
    <2>1. CASE DemoteFails \/ Promoted
      BY <2>1 DEF DemoteFails, Promoted, blocks
    <2>2. CASE DemoteResident \/ DemoteOther
      <3> DEFINE m == [meta[Current] EXCEPT !.resident = FALSE, !.tier = "L2", !.backed = TRUE]
      <3>1. Current \in Block
        BY <2>2, AccessFacts DEF DemoteResident, DemoteOther, InStage
      <3>2. CASE DemoteResident
        <4>1. meta' = [meta EXCEPT ![Current] = m]
          BY <3>2 DEF DemoteResident
        <4>2. m.pins = meta[Current].pins
          BY <3>1 DEF Consistent, TypeOK, Meta
        <4> QED BY <3>1, <4>1, <4>2 DEF Consistent, TypeOK
      <3>3. CASE DemoteOther
        <4>1. meta' = [meta EXCEPT ![Current].tier = "L2"]
          BY <3>3 DEF DemoteOther
        <4> QED BY <3>1, <4>1 DEF Consistent, TypeOK, Meta
      <3> QED BY <2>2, <3>2, <3>3
    <2> QED BY <2>1, <2>2 DEF TestStep
  <1>3. HandleIsFree' /\ MovesUnmapped'
    BY <1>1 DEF HandleIsFree, MovesUnmapped, Idle
  <1> QED BY <1>1, <1>2, <1>3, MappingFacts, MappingsStay DEF names

\* The same for a host that uses the test API.
LEMMA TestNextMapped ==
    ASSUME MindsItsMappings, Consistent, Counted, MappingsExact, Counted', [TestNext]_vars
    PROVE  MappingsExact'
  BY NextMapped, TestCallKeepsMappings, TestStepKeepsMappings DEF TestNext

\* Counts and mappings are right at all times.
LEMMA TestAlwaysMapped ==
    ASSUME MindsItsMappings
    PROVE  TestSpec => [](Counted /\ MappingsExact)
  <1>1. "overallocate" \notin Liberties
    BY DEF MindsItsMappings
  <1>2. Init => MappingsExact
    BY InitMapped
  <1>3. Consistent /\ Counted /\ MappingsExact /\ Counted' /\ [TestNext]_vars => MappingsExact'
    BY TestNextMapped
  <1>4. TestSpec => []Counted
    BY <1>1, TestAlwaysCounted
  <1> QED BY <1>2, <1>3, <1>4, TestApiConsistent, PTL DEF TestSpec

LEMMA AlwaysMapped ==
    ASSUME MindsItsMappings
    PROVE  Spec => [](Counted /\ MappingsExact)
  BY TestAlwaysMapped, TestSpecIsWeaker, PTL

\* The pin count PinBlock and UnpinBlock keep for a block is the number of mappings
\* the host holds on it: an unmap never takes somebody else's pin, and none is left
\* behind to keep the block from being evicted.
THEOREM PinsAreCounted ==
    ASSUME Liberties \subseteq {"forkWhileWriting"}
    PROVE  Spec => []PinsCountMappings
  BY AlwaysMapped, PTL DEF MappingsExact, MindsItsMappings

\* The test API gives no pin and takes none, though it moves pinned blocks.
THEOREM TestPinsAreCounted ==
    ASSUME Liberties \subseteq {"forkWhileWriting"}
    PROVE  TestSpec => []PinsCountMappings
  BY TestAlwaysMapped, PTL DEF MappingsExact, MindsItsMappings

-----------------------------------------------------------------------------
(* Pointers *)

\* A mapped block is referenced.
MappedInUse == \A h \in Handle : handles[h] # Nil => refs[handles[h].block] > 0

LEMMA MappedAreInUse == Consistent /\ Counted /\ MappingsExact => MappedInUse
  BY MappingFacts DEF MappedInUse

\* A page that a mapping points to stays with its block.
LEMMA MappedKeepsPage ==
    ASSUME Consistent, Counted, MappingsExact, MappedInUse', PinnedKeepPages,
           NEW h \in Handle, handles[h] # Nil, handles'[h] = handles[h],
           l1[handles[h].block] = handles[h].page
    PROVE  l1'[handles[h].block] = handles[h].page
  <1>1. /\ handles[h] \in Mapping /\ handles[h].block \in Block
        /\ meta[handles[h].block].pins > 0
    BY MappingFacts
  <1>2. l1[handles[h].block] # Nil
    BY <1>1, NilAssumption DEF Mapping
  <1>3. refs'[handles[h].block] > 0
    BY DEF MappedInUse
  <1> QED BY <1>1, <1>2, <1>3 DEF PinnedKeepPages

\* The pointer of a new mapping is the page that its block has from then on.
LEMMA PinPoints ==
    ASSUME Consistent, Counted, MappingsExact, NEW p \in Page, Pin(p)
    PROVE  /\ call.handle \in Handle /\ handles[call.handle] = Nil
           /\ handles'[call.handle].block = Current /\ handles'[call.handle].page = p
           /\ handles'[call.handle].write = call.write
           /\ Current \in Block /\ l1' = [l1 EXCEPT ![Current] = p] /\ l1'[Current] = p
           /\ \A g \in Handle \ {call.handle} : handles'[g] = handles[g]
  <1>1. /\ call.stage = "pin" /\ call.op = "map" /\ l1' = [l1 EXCEPT ![Current] = p]
        /\ handles' = [handles EXCEPT ![call.handle] =
              [ctx |-> call.ctx, lvid |-> call.lvid, block |-> Current,
               page |-> p, write |-> call.write]]
    BY DEF Pin, InStage
  <1>2. Current \in Block /\ call.handle \in Handle
    BY <1>1, AccessFacts DEF AccessConsistent
  <1>3. handles[call.handle] = Nil
    BY <1>1 DEF MappingsExact, HandleIsFree
  <1> QED BY <1>1, <1>2, <1>3 DEF Consistent, TypeOK

\* Which mappings a step other than Pin may change
LEMMA OnlyPinsOpen ==
    ASSUME Next, ~ \E p \in Page : Pin(p), NEW h \in Handle, handles'[h] # Nil,
           handles \in [Handle -> Mapping \cup {Nil}]
    PROVE  handles'[h] = handles[h]
  <1>1. CASE UNCHANGED handles
    BY <1>1
  <1>2. CASE HostCall
    <2>1. ASSUME NEW g \in Handle, UnmapLogicalBlock(g) PROVE handles'[h] = handles[h]
      BY <2>1 DEF UnmapLogicalBlock
    <2>2. CASE ~ \E g \in Handle : UnmapLogicalBlock(g)
      BY <1>1, <1>2, <2>2 DEF HostCall, CreateContext, DestroyContext, ForkContext,
         AllocateBlocks, ReleaseLogicalBlock, PrepareBlockForWrite, MapLogicalBlock, StrayUnmap
    <2> QED BY <2>1, <2>2
  <1>3. CASE CallStep
    BY <1>1, <1>3 DEF CallStep, Reclaim, GrowTable, GrowFails, RegisterInL1, RegisterInL2,
       Registering, WriteInPlace, CowFails, CowRemap, CloneBlockData, CloneFails,
       AlreadyResident, EvictVictim, EvictFails, Promote, PromoteFails, PinFails
  <1>4. CASE HostStep
    BY <1>1, <1>4 DEF HostStep, HostWrite
  <1> QED BY <1>2, <1>3, <1>4 DEF Next

\* Every step of a host that minds its mappings keeps its pointers valid.
LEMMA PointersStep ==
    ASSUME Consistent, Counted, MappingsExact, PointersStayValid, MappedInUse', MappingsExact',
           [Next]_vars
    PROVE  PointersStayValid'
  <1> SUFFICES ASSUME NEW h \in Handle, handles'[h] # Nil
               PROVE  l1'[handles'[h].block] = handles'[h].page
    BY DEF MappingsExact, MappingsOpen, PointersStayValid
  <1>1. CASE UNCHANGED vars
    BY <1>1 DEF vars, PointersStayValid
  <1>2. CASE Next
    <2>1. PinnedKeepPages
      <3>1. CASE HostStep
        BY <3>1 DEF HostStep, HostWrite, PinnedKeepPages
      <3> QED BY <1>2, <3>1, CallStepKeepsPages, HostCallKeepsPages DEF Next
    <2>2. handles \in [Handle -> Mapping \cup {Nil}]
      BY DEF Consistent, TypeOK
    <2>3. handles'[h] = handles[h] \/ \E p \in Page : Pin(p)
      BY <1>2, <2>2, OnlyPinsOpen
    <2>4. CASE handles'[h] = handles[h]
      BY <2>1, <2>4, MappedKeepsPage DEF PointersStayValid
    <2>5. CASE handles'[h] # handles[h]
      BY <2>3, <2>5, PinPoints
    <2> QED BY <2>4, <2>5
  <1> QED BY <1>1, <1>2

\* Pointers are valid at all times.
LEMMA AlwaysPointed ==
    ASSUME MindsItsMappings
    PROVE  Spec => []PointersStayValid
  <1>1. Init => PointersStayValid
    BY DEF Init, PointersStayValid
  <1>2. Consistent /\ Counted /\ MappingsExact => MappedInUse
    BY MappedAreInUse
  <1>3. /\ Consistent /\ Counted /\ MappingsExact /\ PointersStayValid /\ MappedInUse'
        /\ MappingsExact' /\ [Next]_vars
        => PointersStayValid'
    BY PointersStep
  <1>4. Spec => [](Counted /\ MappingsExact)
    BY AlwaysMapped
  <1> QED BY <1>1, <1>2, <1>3, <1>4, AlwaysConsistent, PTL DEF Spec

\* The pointer mmu_map_logical_block returned stays the page its logical block is
\* read from until the host unmaps it: no eviction, promotion, copy on write,
\* release or destroyed context of others, and no reclaim, moves it.
THEOREM PointersAlwaysValid ==
    ASSUME Liberties \subseteq {"forkWhileWriting"}
    PROVE  Spec => []PointersStayValid
  BY AlwaysPointed DEF MindsItsMappings

\* What a store needs: the page a writer points to is its block's.
WritersPointed ==
    \A h \in Handle : handles[h] # Nil /\ handles[h].write =>
        l1[handles[h].block] = handles[h].page

LEMMA AllPointersOfWriters == PointersStayValid => WritersPointed
  BY DEF PointersStayValid, WritersPointed

\* A block that is being written is resident, and has its page.
LEMMA WriterFacts ==
    ASSUME Consistent, Counted, MappingsExact, WritersPointed,
           NEW h \in Handle, handles[h] # Nil, handles[h].write
    PROVE  LET b == handles[h].block
           IN  l1[b] = handles[h].page /\ l1[b] # Nil /\ meta[b].resident
  <1>1. handles[h].page # Nil /\ handles[h].block \in Block
    BY MappingFacts, NilAssumption DEF Mapping
  <1> QED BY <1>1 DEF WritersPointed, Consistent, TestTiersAgree

-----------------------------------------------------------------------------
(* What is written comes back from either tier *)

\* Block b alone is as WrittenThrough says; and one that is resident without a
\* page has none in L2 either, so the page it will be given reads the same.
Through(b) ==
    /\ ~meta[b].dirty /\ ~BeingWritten(b) /\ l1[b] # Nil => mem[l1[b]] = L2Data(b)
    /\ meta[b].resident /\ l1[b] = Nil => l2[b] = Nil
AllThrough == \A b \in Block : Through(b)

\* A block the step does not touch
Untouched(b) ==
    /\ meta'[b] = meta[b] /\ l1'[b] = l1[b] /\ l2'[b] = l2[b]
    /\ l1[b] # Nil => mem'[l1[b]] = mem[l1[b]]
    /\ BeingWritten(b) => BeingWritten(b)'

\* A step that touches one block is judged by that block.
LEMMA OneBlockThrough ==
    ASSUME AllThrough, NEW b, \A a \in Block \ {b} : Untouched(a), b \in Block => Through(b)'
    PROVE  AllThrough'
  <1>1. ASSUME NEW a \in Block, Untouched(a) PROVE Through(a)'
    BY <1>1 DEF AllThrough, Through, Untouched, L2Data
  <1> QED BY <1>1 DEF AllThrough

\* A block without pages reads as zero from either tier.
LEMMA ScrubThrough ==
    ASSUME AllThrough, NEW S, Scrub(S), handles' = handles
    PROVE  AllThrough'
  <1>1. \A b \in Block \ S : Through(b)'
    <2>1. \A b \in Block \ S : Untouched(b)
      BY DEF Scrub, Untouched, BeingWritten
    <2> QED BY <2>1 DEF AllThrough, Through, Untouched, L2Data
  <1>2. \A b \in Block \cap S : Through(b)'
    BY DEF Scrub, Through, DefaultMeta
  <1> QED BY <1>1, <1>2 DEF AllThrough

\* A block has its mapping back when the step opens or closes none of them.
LEMMA SameHandles ==
    ASSUME handles' = handles
    PROVE  \A b : BeingWritten(b)' = BeingWritten(b)
  BY DEF BeingWritten

\* No later stage of a call leaves a clean block ahead of L2.
LEMMA CallStepThrough ==
    ASSUME Consistent, Counted, MappingsExact, AllThrough, CallStep
    PROVE  AllThrough'
  <1>1. ASSUME NEW b \in Block, handles' = handles, Through(b)',
               \A a \in Block \ {b} : meta'[a] = meta[a] /\ l1'[a] = l1[a] /\ l2'[a] = l2[a],
               \A a \in Block \ {b} : l1[a] # Nil => mem'[l1[a]] = mem[l1[a]]
        PROVE  AllThrough'
    BY <1>1, OneBlockThrough, SameHandles DEF Untouched
  <1>2. CASE UNCHANGED <<meta, l1, l2, mem, handles>>
    BY <1>2, OneBlockThrough, SameHandles DEF Untouched, AllThrough, Through, L2Data
  <1>3. CASE \/ \E b \in Block : GrowTable(b)
             \/ GrowFails \/ WriteInPlace \/ CowFails \/ CloneFails
             \/ EvictFails \/ PromoteFails \/ PinFails
    BY <1>2, <1>3 DEF GrowTable, GrowFails, WriteInPlace, CowFails, CloneFails,
                      EvictFails, PromoteFails, PinFails, blocks, pools
  <1>4. CASE Reclaim
    BY <1>4, ScrubThrough DEF Reclaim
  <1>5. CASE RegisterInL1 \/ RegisterInL2
    <2>1. /\ Current \in Block /\ Clean(Current) /\ l1' = l1 /\ l2' = l2
          /\ mem' = mem /\ handles' = handles
      BY <1>5, RegisteringFacts DEF RegisterInL1, RegisterInL2
    <2>2. PICK m : meta' = [meta EXCEPT ![Current] = m]
      BY <1>5 DEF RegisterInL1, RegisterInL2
    <2>3. PICK b \in Block : b = Current
      BY <2>1
    <2>4. l1'[b] = Nil /\ l2'[b] = Nil
      BY <2>1, <2>3 DEF Clean
    <2>5. Through(b)'
      BY <2>4 DEF Through
    <2> QED BY <1>1, <2>1, <2>2, <2>3, <2>5 DEF Consistent, TypeOK
  <1>6. ASSUME NEW n \in Block, CowRemap(n) PROVE AllThrough'
    <2>1. /\ l1' = l1 /\ l2' = l2 /\ mem' = mem /\ handles' = handles /\ refs[n] = 0
          /\ meta' = [meta EXCEPT ![n] = [FreshMeta EXCEPT !.tier = "L2"]]
          /\ call.stage = "prepare"
      BY <1>6 DEF CowRemap, InStage, FreeBlocks, pools
    <2>2. l1'[n] = Nil /\ l2'[n] = Nil
      BY <2>1 DEF Consistent, FreeBlocksClean, FreeBlocks, Clean
    <2>3. Through(n)'
      BY <2>2 DEF Through
    <2> QED BY <1>1, <2>1, <2>3 DEF Consistent, TypeOK
  <1>7. CASE CloneBlockData
    <2>0. Current \in Block /\ meta[Current].tier = "L2"
      BY <1>7, AccessFacts DEF CloneBlockData, InStage, AccessConsistent
    <2>1. PICK b \in Block : b = Current /\ ~meta[b].resident
      BY <2>0 DEF Consistent, TestTiersAgree
    <2>2. /\ l2' = [l2 EXCEPT ![b] = CloneSource(call.src)] /\ l1' = [l1 EXCEPT ![b] = Nil]
          /\ meta' = [meta EXCEPT ![b].backed = TRUE]
          /\ mem' = mem /\ handles' = handles
      BY <1>7, <2>1 DEF CloneBlockData
    <2>3. ~meta'[b].resident /\ l1'[b] = Nil
      BY <2>1, <2>2 DEF Consistent, TypeOK, Meta
    <2>4. Through(b)'
      BY <2>3 DEF Through
    <2> QED BY <1>1, <2>2, <2>4 DEF Consistent, TypeOK
  <1>8. CASE AlreadyResident
    <2>1. PICK b \in Block : b = Current
      BY <1>8, AccessFacts DEF AlreadyResident, InStage
    <2>2. /\ l1' = l1 /\ l2' = l2 /\ mem' = mem /\ handles' = handles
          /\ meta' = [meta EXCEPT ![b].tier = "L1"]
      BY <1>8, <2>1 DEF AlreadyResident, pools
    <2>3. Through(b)'
      <3>1. meta'[b].dirty = meta[b].dirty /\ meta'[b].resident = meta[b].resident
        BY <2>2 DEF Consistent, TypeOK, Meta
      <3> QED BY <2>2, <3>1, SameHandles DEF AllThrough, Through, L2Data
    <2> QED BY <1>1, <2>2, <2>3 DEF Consistent, TypeOK
  <1>9. ASSUME NEW v \in Block, EvictVictim(v) PROVE AllThrough'
    <2> DEFINE m == [meta[v] EXCEPT !.resident = FALSE, !.tier = "L2", !.backed = TRUE]
    <2>1. /\ l2' = [l2 EXCEPT ![v] = L1Data(v)] /\ l1' = [l1 EXCEPT ![v] = Nil]
          /\ meta' = [meta EXCEPT ![v] = m] /\ mem' = mem /\ handles' = handles
      BY <1>9 DEF EvictVictim
    <2>2. ~m.resident
      BY DEF Consistent, TypeOK, Meta
    <2>3. ~meta'[v].resident /\ l1'[v] = Nil
      BY <2>1, <2>2 DEF Consistent, TypeOK
    <2>4. Through(v)'
      BY <2>3 DEF Through
    <2> QED BY <1>1, <2>1, <2>4 DEF Consistent, TypeOK
  <1>10. ASSUME NEW p \in Page, Promote(p) PROVE AllThrough'
    <2>1. PICK b \in Block : b = Current
      BY <1>10, AccessFacts DEF Promote, InStage
    <2>2. /\ p \in L1PageFor(b) /\ l1' = [l1 EXCEPT ![b] = p] /\ l2' = l2
          /\ mem' = [mem EXCEPT ![p] = L2Data(b)] /\ handles' = handles
          /\ meta' = [meta EXCEPT ![b].resident = TRUE, ![b].tier = "L1"]
      BY <1>10, <2>1 DEF Promote
    <2>3. p # Nil /\ \A a \in Block \ {b} : l1[a] # p
      BY <2>2, PageIsOwn
    <2>4. l1'[b] = p /\ mem'[p] = L2Data(b) /\ L2Data(b)' = L2Data(b)
      BY <2>2 DEF Consistent, TypeOK, L2Data
    <2>5. Through(b)'
      BY <2>3, <2>4 DEF Through
    <2> QED BY <1>1, <2>2, <2>3, <2>5 DEF Consistent, TypeOK
  <1>11. ASSUME NEW p \in Page, Pin(p) PROVE AllThrough'
    <2>1. /\ AccessConsistent /\ call.op = "map" /\ call.stage = "pin"
      BY <1>11, AccessFacts DEF Pin, InStage, AccessConsistent
    <2>2. PICK b \in Block : b = Current /\ meta[b].resident
      BY <2>1 DEF AccessConsistent
    <2>3. /\ p \in L1PageFor(b) /\ l1' = [l1 EXCEPT ![b] = p] /\ l2' = l2
          /\ mem' = [mem EXCEPT ![p] = L1Data(b)]
          /\ meta' = [meta EXCEPT ![b].pins = @ + 1]
          /\ \A h \in Handle : h # call.handle => handles'[h] = handles[h]
      BY <1>11, <2>2 DEF Pin, Consistent, TypeOK
    <2>4. p # Nil /\ \A a \in Block \ {b} : l1[a] # p
      BY <2>3, PageIsOwn
    <2>5. l1'[b] = p /\ mem'[p] = L1Data(b) /\ L2Data(b)' = L2Data(b)
      BY <2>3 DEF Consistent, TypeOK, L2Data
    <2>6. \A a : BeingWritten(a) => BeingWritten(a)'
      <3>1. handles[call.handle] = Nil
        BY <2>1 DEF MappingsExact, HandleIsFree
      <3> QED BY <2>3, <3>1 DEF BeingWritten
    <2>7. meta'[b].dirty = meta[b].dirty
      BY <2>3 DEF Consistent, TypeOK, Meta
    <2>8. Through(b)'
      <3>1. CASE l1[b] = Nil
        <4>1. L1Data(b) = Zero /\ L2Data(b) = Zero
          BY <2>2, <3>1 DEF AllThrough, Through, L1Data, L2Data
        <4> QED BY <2>4, <2>5, <4>1 DEF Through
      <3>2. CASE l1[b] # Nil
        <4>1. L1Data(b) = mem[l1[b]]
          BY <3>2 DEF L1Data
        <4> QED BY <2>4, <2>5, <2>6, <2>7, <3>2, <4>1 DEF AllThrough, Through
      <3> QED BY <3>1, <3>2
    <2>9. \A a \in Block \ {b} : Untouched(a)
      BY <2>3, <2>4, <2>6 DEF Untouched, Consistent, TypeOK
    <2> QED BY <2>8, <2>9, OneBlockThrough
  <1> QED BY <1>3, <1>4, <1>5, <1>6, <1>7, <1>8, <1>9, <1>10, <1>11 DEF CallStep

\* A store through a pointer changes only a block that is being written.
LEMMA HostWriteThrough ==
    ASSUME Consistent, Counted, MappingsExact, WritersPointed, AllThrough,
           NEW h \in Handle, NEW v \in Value,
           HostWrite(h, v)
    PROVE  AllThrough'
  <1>0. PICK b \in Block : b = handles[h].block
    BY DEF HostWrite, Consistent, TypeOK, Mapping
  <1>1. /\ handles[h] # Nil /\ handles[h].write /\ mem' = [mem EXCEPT ![handles[h].page] = v]
        /\ UNCHANGED <<blocks, l1, l2, handles>>
    BY DEF HostWrite
  <1>2. b \in Block /\ l1[b] = handles[h].page /\ l1[b] # Nil
    BY <1>0, <1>1, WriterFacts
  <1>3. \A a \in Block \ {b} : l1[a] # Nil => l1[a] # l1[b]
    BY <1>2 DEF Consistent, TestTiersAgree
  <1>4. Through(b)'
    <2>1. BeingWritten(b)'
      BY <1>0, <1>1 DEF BeingWritten
    <2>2. l1'[b] # Nil
      BY <1>1, <1>2
    <2> QED BY <2>1, <2>2 DEF Through
  <1>5. \A a \in Block \ {b} : Untouched(a)
    BY <1>0, <1>1, <1>2, <1>3, SameHandles DEF Untouched, blocks, Consistent, TypeOK
  <1> QED BY <1>4, <1>5, OneBlockThrough

\* Closing a write mapping writes the block through, or leaves it dirty.
LEMMA UnmapThrough ==
    ASSUME Consistent, Counted, MappingsExact, WritersPointed, AllThrough,
           NEW h \in Handle, UnmapLogicalBlock(h)
    PROVE  AllThrough'
  <1>0. PICK b \in Block : b = handles[h].block
    BY DEF UnmapLogicalBlock, CanUnmap, Consistent, TypeOK, Mapping
  <1>1. /\ handles[h] # Nil /\ handles' = [handles EXCEPT ![h] = Nil]
        /\ UNCHANGED <<l1, mem>>
        /\ IF handles[h].write
              THEN UnmapWrite(b) \/ UnmapWriteFails(b) \/ UnmapWriteEvicted(b)
              ELSE UnmapRead(b)
    BY <1>0 DEF UnmapLogicalBlock, CanUnmap, Unmap
  <1>2. /\ b \in Block /\ meta[b] \in Meta
        /\ handles[h].write => l1[b] # Nil /\ meta[b].resident
    BY <1>0, <1>1, WriterFacts DEF Consistent, TypeOK
  <1>3. /\ Unpinned(b).dirty = meta[b].dirty /\ Unpinned(b).resident = meta[b].resident
        /\ [Unpinned(b) EXCEPT !.dirty = TRUE].dirty
    BY <1>2 DEF Unpinned, Meta
  <1>4. /\ \A a \in Block \ {b} : meta'[a] = meta[a] /\ l2'[a] = l2[a]
    BY <1>1 DEF UnmapRead, UnmapWrite, UnmapWriteFails, UnmapWriteEvicted, Consistent, TypeOK
  <1>5. \A a \in Block \ {b} : Untouched(a)
    <2>1. \A a \in Block \ {b} : BeingWritten(a) => BeingWritten(a)'
      BY <1>0, <1>1 DEF BeingWritten, Consistent, TypeOK
    <2> QED BY <1>1, <1>4, <2>1 DEF Untouched
  <1>6. Through(b)'
    <2>1. CASE UnmapRead(b) /\ ~handles[h].write
      <3>1. meta'[b].dirty = meta[b].dirty /\ meta'[b].resident = meta[b].resident /\ l2' = l2
        BY <1>2, <1>3, <2>1 DEF UnmapRead, Consistent, TypeOK
      <3>2. BeingWritten(b) => BeingWritten(b)'
        BY <1>1, <2>1 DEF BeingWritten, Consistent, TypeOK
      <3> QED BY <1>1, <1>2, <3>1, <3>2 DEF AllThrough, Through, L2Data
    <2>2. CASE UnmapWrite(b) /\ handles[h].write
      <3>1. l2'[b] = mem[l1[b]] /\ l2'[b] # Nil
        BY <1>2, <2>2, NilAssumption DEF UnmapWrite, L1Data, Consistent, TypeOK
      <3> QED BY <1>1, <1>2, <2>2, <3>1 DEF Through, L2Data
    <2>3. CASE (UnmapWriteFails(b) \/ UnmapWriteEvicted(b)) /\ handles[h].write
      <3>1. meta'[b].dirty
        BY <1>2, <1>3, <2>3 DEF UnmapWriteFails, UnmapWriteEvicted, Consistent, TypeOK
      <3> QED BY <1>1, <1>2, <2>3, <3>1 DEF Through
    <2> QED BY <1>1, <2>1, <2>2, <2>3
  <1> QED BY <1>5, <1>6, OneBlockThrough

\* Every step of a host that minds its mappings keeps clean blocks written through.
LEMMA NextThrough ==
    ASSUME MindsItsMappings, Consistent, Counted, MappingsExact, WritersPointed, AllThrough,
           [Next]_vars
    PROVE  AllThrough'
  <1>1. CASE UNCHANGED <<blocks, pools, handles>>
    BY <1>1, OneBlockThrough, SameHandles
       DEF Untouched, AllThrough, Through, L2Data, blocks, pools
  <1>2. CASE HostCall
    <2>1. CASE \/ \E c \in Ctx : CreateContext(c) \/ DestroyContext(c)
               \/ \E c, d \in Ctx : ForkContext(c, d)
               \/ \E c \in Ctx, n \in 1 .. MaxLvid : AllocateBlocks(c, n)
               \/ \E c \in Ctx, l \in Lvid : PrepareBlockForWrite(c, l)
               \/ \E c \in Ctx, l \in Lvid, write \in BOOLEAN, h \in Handle :
                     MapLogicalBlock(c, l, write, h)
      BY <1>1, <2>1 DEF CreateContext, DestroyContext, ForkContext, AllocateBlocks,
                        PrepareBlockForWrite, MapLogicalBlock
    <2>2. CASE \E c \in Ctx, l \in Lvid : ReleaseLogicalBlock(c, l)
      BY <2>2, ScrubThrough DEF ReleaseLogicalBlock
    <2>3. CASE \E c \in Ctx, l \in Lvid, write \in BOOLEAN : StrayUnmap(c, l, write)
      BY <2>3 DEF StrayUnmap, Permitted, MindsItsMappings
    <2> QED BY <1>2, <2>1, <2>2, <2>3, UnmapThrough DEF HostCall
  <1>3. CASE CallStep
    BY <1>3, CallStepThrough
  <1>4. CASE HostStep
    BY <1>4, HostWriteThrough DEF HostStep
  <1>5. CASE UNCHANGED vars
    BY <1>1, <1>5 DEF vars, blocks, pools
  <1> QED BY <1>2, <1>3, <1>4, <1>5 DEF Next

\* Clean blocks are written through at all times.
LEMMA AlwaysThrough ==
    ASSUME MindsItsMappings
    PROVE  Spec => []AllThrough
  <1>1. Init => AllThrough
    BY DEF Init, AllThrough, Through, DefaultMeta
  <1>2. /\ Consistent /\ Counted /\ MappingsExact /\ PointersStayValid /\ AllThrough
        /\ [Next]_vars
        => AllThrough'
    BY NextThrough, AllPointersOfWriters
  <1>3. Spec => [](Counted /\ MappingsExact)
    BY AlwaysMapped
  <1> QED BY <1>1, <1>2, <1>3, AlwaysPointed, AlwaysConsistent, PTL DEF Spec

\* A block that is neither dirty nor being written reads the same from its L1 page
\* as from L2, so dropping the page loses nothing: mmu_unmap_logical_block leaves
\* the dirty mark exactly when SyncL1ToL2 could not bring the write to L2.
THEOREM CleanIsWrittenThrough ==
    ASSUME Liberties \subseteq {"forkWhileWriting"}
    PROVE  Spec => []WrittenThrough
  <1>1. AllThrough => WrittenThrough
    BY DEF AllThrough, Through, WrittenThrough
  <1>2. Spec => []AllThrough
    BY AlwaysThrough DEF MindsItsMappings
  <1> QED BY <1>1, <1>2, PTL

-----------------------------------------------------------------------------
(* Writers *)

\* Stages of a write access after which the block must be the context's alone
OwnsForWriting ==
    \/ call.stage = "clone"
    \/ call.op = "map" /\ call.write /\ call.stage \in {"reclaim", "ensure", "pin"}
AloneBeforeWriting == OwnsForWriting => refs[Current] = 1

\* What makes WritersAreAlone inductive
Alone == WritersAreAlone /\ AloneBeforeWriting

\* A block loses its only writer or none: nobody else gets a reference to it.
LEMMA WritersStayAlone ==
    ASSUME Consistent, Counted, MappingsExact, WritersAreAlone, MappedInUse', handles' = handles,
           refs' \in [Block -> Nat],
           \A b \in Block : refs[b] = 0 \/ refs'[b] <= refs[b]
    PROVE  WritersAreAlone'
  <1> SUFFICES ASSUME NEW h \in Handle, handles[h] # Nil, handles[h].write
               PROVE  refs'[handles[h].block] = 1
    BY DEF WritersAreAlone
  <1> DEFINE b == handles[h].block
  <1>1. b \in Block /\ refs[b] = 1
    BY MappingFacts DEF Mapping, WritersAreAlone
  <1>2. refs'[b] > 0
    BY DEF MappedInUse
  <1> QED BY <1>1, <1>2

\* A context without a mapping for writing has no entry for a block of a writer.
LEMMA ForkLeavesWritersAlone ==
    ASSUME Consistent, Counted, MappingsExact, WritersAreAlone, Liberties = {},
           NEW c \in Ctx, NEW d \in Ctx, ForkContext(c, d)
    PROVE  WritersAreAlone'
  <1>1. refs' = Retained(c) /\ handles' = handles /\ ~IsWriting(c)
    BY DEF ForkContext, MayFork, Permitted
  <1> SUFFICES ASSUME NEW h \in Handle, handles[h] # Nil, handles[h].write
               PROVE  refs'[handles[h].block] = 1
    BY <1>1 DEF WritersAreAlone
  <1> DEFINE m == handles[h]
             b == m.block
             Others == OthersOf(table, b, c)
             Row == RowOf(table, b, c)
  <1>2. /\ m.ctx \in Ctx /\ m.lvid \in Lvid /\ b \in Block /\ table[m.ctx][m.lvid] = b
        /\ refs[b] = 1
    BY MappingFacts DEF Mapping, WritersAreAlone
  <1>3. m.ctx # c
    BY <1>1, <1>2 DEF IsWriting, Holds
  <1>4. IsFiniteSet(EntriesIn(table, b))
    BY <1>2, UsesAreFinite
  <1>5. Cardinality(EntriesIn(table, b)) = 1
    BY <1>2, UsesAreFinite DEF Counted, RefCountExact
  <1>6. /\ IsFiniteSet(Others) /\ Cardinality(Others) \in Nat /\ Cardinality(Row) \in Nat
        /\ Cardinality(EntriesIn(table, b)) = Cardinality(Others) + Cardinality(Row)
    BY <1>4, RowSplits
  <1>7. <<m.ctx, m.lvid>> \in Others
    BY <1>2, <1>3 DEF EntriesIn, OthersOf
  <1> HIDE DEF Others, Row
  <1>8. Cardinality(Others) # 0
    BY <1>6, <1>7, FS_EmptySet
  <1>9. Cardinality(Row) = 0
    BY <1>5, <1>6, <1>8
  <1>10. Uses(c, b) = 0
    BY <1>9 DEF Uses, Row, RowOf
  <1> QED BY <1>1, <1>2, <1>10 DEF Retained

\* Only a copy on write leads to the clone stage.
LEMMA OnlyCopiesClone ==
    ASSUME Consistent, CallStep, call'.stage = "clone"
    PROVE  \E n \in Block : CowRemap(n)
  <1>1. CASE RegisterInL1 \/ RegisterInL2
    BY <1>1, RegisteringFacts DEF RegisterInL1, RegisterInL2, Registering, Idle,
                                  Consistent, TypeOK, Call
  <1>2. CASE Reclaim
    BY <1>2 DEF Reclaim, AfterReclaim, At, Idle, Consistent, TypeOK, Call
  <1>3. CASE WriteInPlace \/ CloneBlockData
    <2>1. Prepared.stage \in {"reclaim", "idle"}
          /\ [Prepared EXCEPT !.src = Nil].stage = Prepared.stage
      BY DEF Prepared, At, Idle, Consistent, TypeOK, Call
    <2> QED BY <1>3, <2>1 DEF WriteInPlace, CloneBlockData
  <1>4. CASE \/ GrowFails \/ CowFails \/ CloneFails \/ EvictFails \/ PromoteFails
             \/ PinFails \/ \E p \in Page : Pin(p)
    <2>1. call' = Idle
      BY <1>4 DEF GrowFails, CowFails, CloneFails, EvictFails, PromoteFails, PinFails, Pin
    <2> QED BY <2>1 DEF Idle
  <1>5. CASE \E b \in Block : GrowTable(b)
    BY <1>5 DEF GrowTable, At, Consistent, TypeOK, Call
  <1>6. CASE AlreadyResident \/ \E p \in Page : Promote(p)
    BY <1>6 DEF AlreadyResident, Promote, At, Consistent, TypeOK, Call
  <1>7. CASE \E v \in Block : EvictVictim(v)
    BY <1>7 DEF EvictVictim, NeedsRoom, InStage
  <1> QED BY <1>1, <1>2, <1>3, <1>4, <1>5, <1>6, <1>7 DEF CallStep

\* The later stages of a call leave writers alone.
LEMMA CallStepAlone ==
    ASSUME Consistent, Counted, MappingsExact, Alone, MappedInUse', CallStep
    PROVE  Alone'
  <1>0. refs \in [Block -> Nat]
    BY DEF Consistent, TypeOK
  <1>1. CASE \E b \in Block : GrowTable(b)
    <2>1. PICK b \in Block : GrowTable(b)
      BY <1>1
    <2>2. /\ refs[b] = 0 /\ refs' = [refs EXCEPT ![b] = 1] /\ handles' = handles
          /\ call.stage = "grow" /\ call' \in {At("register"), At("grow")}
      BY <2>1 DEF GrowTable, FreeBlocks, InStage
    <2>3. call.op = "allocate"
      BY <2>2 DEF Consistent, TypeOK, Call, Op, CallConsistent, AccessConsistent
    <2>4. AloneBeforeWriting'
      BY <2>2, <2>3 DEF AloneBeforeWriting, OwnsForWriting, At, Consistent, TypeOK, Call
    <2>5. WritersAreAlone'
      BY <1>0, <2>2, WritersStayAlone DEF Alone
    <2> QED BY <2>4, <2>5 DEF Alone
  <1>2. CASE \E n \in Block : CowRemap(n)
    <2>1. PICK n \in Block : CowRemap(n)
      BY <1>2
    <2>2. /\ call.stage = "prepare" /\ refs[Current] > 1 /\ refs[n] = 0
          /\ refs' = [refs EXCEPT ![Current] = @ - 1, ![n] = 1] /\ handles' = handles
          /\ table' = [table EXCEPT ![call.ctx][call.lvid] = n]
          /\ call' = [At("clone") EXCEPT !.src = Current]
      BY <2>1 DEF CowRemap, MustCopy, FreeBlocks, InStage
    <2>3. call.ctx \in Ctx /\ call.lvid \in Lvid /\ Current \in Block
      BY <2>2, AccessFacts
    <2>4. call'.ctx = call.ctx /\ call'.lvid = call.lvid
      BY <2>2 DEF At, Consistent, TypeOK, Call
    <2>5. Current' = n /\ refs'[n] = 1
      BY <1>0, <2>2, <2>3, <2>4 DEF Current, Consistent, TypeOK
    <2>6. refs' \in [Block -> Nat] /\ \A b \in Block : refs[b] = 0 \/ refs'[b] <= refs[b]
      BY <1>0, <2>2, <2>3
    <2>7. WritersAreAlone'
      BY <2>2, <2>6, WritersStayAlone DEF Alone
    <2> QED BY <2>5, <2>7 DEF Alone, AloneBeforeWriting
  <1>3. CASE GrowFails
    BY <1>3, GrowthSucceeds
  <1>4. CASE \E p \in Page : Pin(p)
    <2>1. PICK p \in Page : Pin(p)
      BY <1>4
    <2>2. /\ call.stage = "pin" /\ call' = Idle /\ refs' = refs
          /\ handles' = [handles EXCEPT ![call.handle] =
                [ctx |-> call.ctx, lvid |-> call.lvid, block |-> Current,
                 page |-> p, write |-> call.write]]
      BY <2>1 DEF Pin, InStage
    <2>3. call.op = "map"
      BY <2>1 DEF Pin
    <2>4. call.write => refs[Current] = 1
      BY <2>2, <2>3 DEF Alone, AloneBeforeWriting, OwnsForWriting
    <2>5. WritersAreAlone'
      BY <2>2, <2>4 DEF Alone, WritersAreAlone, Consistent, TypeOK
    <2> QED BY <2>2, <2>5 DEF Alone, AloneBeforeWriting, OwnsForWriting, Idle
  <1>5. ASSUME \/ Reclaim \/ RegisterInL1 \/ RegisterInL2
               \/ WriteInPlace \/ CowFails \/ CloneBlockData \/ CloneFails
               \/ AlreadyResident \/ EvictFails \/ PromoteFails \/ PinFails
               \/ \E v \in Block : EvictVictim(v)
               \/ \E p \in Page : Promote(p),
               ~ \E n \in Block : CowRemap(n)
        PROVE  Alone'
    <2>1. UNCHANGED <<refs, names, handles>>
      <3>1. CASE RegisterInL1 \/ RegisterInL2
        BY <3>1, RegisteringFacts DEF RegisterInL1, RegisterInL2
      <3>2. CASE Reclaim \/ WriteInPlace \/ CloneBlockData
        BY <3>2 DEF Reclaim, WriteInPlace, CloneBlockData
      <3>3. CASE CowFails \/ CloneFails \/ EvictFails \/ PromoteFails \/ PinFails
        BY <3>3 DEF CowFails, CloneFails, EvictFails, PromoteFails, PinFails
      <3>4. CASE AlreadyResident
        BY <3>4 DEF AlreadyResident
      <3>5. CASE \E v \in Block : EvictVictim(v)
        BY <3>5 DEF EvictVictim
      <3>6. CASE \E p \in Page : Promote(p)
        BY <3>6 DEF Promote
      <3> QED BY <1>5, <3>1, <3>2, <3>3, <3>4, <3>5, <3>6
    <2>2. WritersAreAlone'
      BY <1>0, <2>1, WritersStayAlone DEF Alone
    <2>3. AloneBeforeWriting'
      <3>1. CASE call' = Idle
        BY <3>1 DEF AloneBeforeWriting, OwnsForWriting, Idle
      <3>2. CASE call' = call
        BY <2>1, <3>2 DEF Alone, AloneBeforeWriting, OwnsForWriting, Current, names
      <3>3. CASE /\ call'.op = call.op /\ call'.ctx = call.ctx /\ call'.write = call.write
                 /\ call'.lvid = call.lvid /\ call'.stage # "clone"
        <4>1. Current' = Current
          BY <2>1, <3>3 DEF Current, names
        <4>2. CASE call.op = "map" /\ call.write
          <5>1. refs[Current] = 1
            <6>1. CASE call.stage = "prepare"
              <7>1. WriteInPlace \/ CowFails
                BY <1>5, <6>1 DEF Reclaim, RegisterInL1, RegisterInL2, Registering,
                      CloneBlockData, CloneFails, AlreadyResident, EvictFails, PromoteFails,
                      PinFails, EvictVictim, NeedsRoom, Promote, InStage
              <7>2. CASE WriteInPlace
                BY <1>0, <6>1, <7>2, AccessFacts DEF WriteInPlace, MustCopy
              <7>3. CASE CowFails
                BY <3>3, <4>2, <7>3 DEF CowFails, Idle
              <7> QED BY <7>1, <7>2, <7>3
            <6>2. CASE call.stage # "prepare"
              BY <4>2, <6>2 DEF Alone, AloneBeforeWriting, OwnsForWriting,
                                Consistent, CallConsistent, AccessConsistent
            <6> QED BY <6>1, <6>2
          <5> QED BY <2>1, <4>1, <5>1 DEF AloneBeforeWriting
        <4>3. CASE ~(call.op = "map" /\ call.write)
          BY <3>3, <4>3 DEF AloneBeforeWriting, OwnsForWriting
        <4> QED BY <4>2, <4>3
      <3>4. CASE call'.stage = "register"
        <4>1. call.stage \in {"grow", "register"} /\ call'.op = call.op
          BY <3>4, CallGoesOn DEF Idle, Consistent, CallConsistent, AccessConsistent
        <4>2. call.op = "allocate"
          BY <4>1 DEF Consistent, TypeOK, Call, Op, CallConsistent, AccessConsistent
        <4> QED BY <3>4, <4>1, <4>2 DEF AloneBeforeWriting, OwnsForWriting
      <3> QED BY <1>5, <3>1, <3>2, <3>3, <3>4, CallGoesOn, OnlyCopiesClone
    <2> QED BY <2>2, <2>3 DEF Alone
  <1> QED BY <1>1, <1>2, <1>3, <1>4, <1>5 DEF CallStep

\* What a host may call leaves writers alone.
LEMMA HostCallAlone ==
    ASSUME Liberties = {}, Consistent, Counted, MappingsExact, Alone, MappedInUse', Consistent',
           HostCall
    PROVE  Alone'
  <1>0. refs \in [Block -> Nat] /\ refs' \in [Block -> Nat]
    BY DEF Consistent, TypeOK
  <1>1. ASSUME call'.stage # "clone", call'.op # "map" \/ ~call'.write \/ call'.stage = "prepare"
        PROVE  AloneBeforeWriting'
    BY <1>1 DEF AloneBeforeWriting, OwnsForWriting
  <1>2. CASE \/ \E c \in Ctx : CreateContext(c) \/ DestroyContext(c)
             \/ \E c \in Ctx, n \in 1 .. MaxLvid : AllocateBlocks(c, n)
             \/ \E c \in Ctx, l \in Lvid : ReleaseLogicalBlock(c, l)
             \/ \E c \in Ctx, l \in Lvid : PrepareBlockForWrite(c, l)
             \/ \E c \in Ctx, l \in Lvid, write \in BOOLEAN, h \in Handle :
                   MapLogicalBlock(c, l, write, h)
    <2>1. handles' = handles /\ call'.stage # "clone"
          /\ (call'.op # "map" \/ ~call'.write \/ call'.stage = "prepare")
      <3>1. ASSUME NEW c \in Ctx, CreateContext(c) \/ DestroyContext(c)
            PROVE  handles' = handles /\ call'.stage # "clone" /\ call'.op # "map"
        <4>1. CASE CreateContext(c)
          BY <4>1 DEF CreateContext, Starts, Idle
        <4>2. CASE DestroyContext(c)
          <5>1. handles' = handles /\ call'.stage = "reclaim" /\ call'.op = "destroy"
            BY <4>2 DEF DestroyContext, Starts, Idle
          <5> QED BY <5>1
        <4> QED BY <3>1, <4>1, <4>2
      <3>2. ASSUME NEW c \in Ctx, NEW n \in 1 .. MaxLvid, AllocateBlocks(c, n)
            PROVE  handles' = handles /\ call'.stage # "clone" /\ call'.op # "map"
        <4>1. handles' = handles /\ call'.stage = "reclaim" /\ call'.op = "allocate"
          BY <3>2 DEF AllocateBlocks, Starts, Idle
        <4> QED BY <4>1
      <3>3. ASSUME NEW c \in Ctx, NEW l \in Lvid,
                   ReleaseLogicalBlock(c, l) \/ PrepareBlockForWrite(c, l)
            PROVE  handles' = handles /\ call'.stage # "clone" /\ call'.op # "map"
        <4>1. CASE ReleaseLogicalBlock(c, l)
          BY <4>1 DEF ReleaseLogicalBlock, Starts, Idle
        <4>2. CASE PrepareBlockForWrite(c, l)
          BY <4>2 DEF PrepareBlockForWrite, Starts, Idle
        <4> QED BY <3>3, <4>1, <4>2
      <3>4. ASSUME NEW c \in Ctx, NEW l \in Lvid, NEW write \in BOOLEAN, NEW h \in Handle,
                   MapLogicalBlock(c, l, write, h)
            PROVE  /\ handles' = handles /\ call'.stage # "clone"
                   /\ (~call'.write \/ call'.stage = "prepare")
        <4>1. /\ handles' = handles /\ call'.write = write
              /\ call'.stage = IF write THEN "prepare" ELSE "reclaim"
          BY <3>4 DEF MapLogicalBlock, Starts, Idle
        <4> QED BY <4>1
      <3> QED BY <1>2, <3>1, <3>2, <3>3, <3>4
    <2>2. \A b \in Block : refs'[b] <= refs[b]
      <3>1. CASE UNCHANGED refs
        BY <1>0, <3>1
      <3>2. ASSUME NEW c \in Ctx, DestroyContext(c)
            PROVE  \A b \in Block : refs'[b] <= refs[b]
        <4>1. refs' = [b \in Block |-> Less(refs[b], Uses(c, b))]
          BY <3>2 DEF DestroyContext
        <4> QED BY <1>0, <4>1, LessIsNat, UsesIsNat DEF Less
      <3>3. ASSUME NEW c \in Ctx, NEW l \in Lvid, ReleaseLogicalBlock(c, l)
            PROVE  \A b \in Block : refs'[b] <= refs[b]
        BY <1>0, <3>3 DEF ReleaseLogicalBlock, Less
      <3>4. ASSUME ~ \E c \in Ctx : DestroyContext(c),
                   ~ \E c \in Ctx, l \in Lvid : ReleaseLogicalBlock(c, l)
            PROVE  UNCHANGED refs
        <4>1. \A c \in Ctx : CreateContext(c) => UNCHANGED refs
          BY DEF CreateContext
        <4>2. \A c \in Ctx, n \in 1 .. MaxLvid : AllocateBlocks(c, n) => UNCHANGED refs
          BY DEF AllocateBlocks
        <4>3. \A c \in Ctx, l \in Lvid : PrepareBlockForWrite(c, l) => UNCHANGED refs
          BY DEF PrepareBlockForWrite
        <4>4. \A c \in Ctx, l \in Lvid, write \in BOOLEAN, h \in Handle :
                 MapLogicalBlock(c, l, write, h) => UNCHANGED refs
          BY DEF MapLogicalBlock
        <4> QED BY <1>2, <3>4, <4>1, <4>2, <4>3, <4>4
      <3> QED BY <3>1, <3>2, <3>3, <3>4
    <2>3. WritersAreAlone'
      BY <1>0, <2>1, <2>2, WritersStayAlone DEF Alone
    <2> QED BY <1>1, <2>1, <2>3 DEF Alone
  <1>3. CASE \E c, d \in Ctx : ForkContext(c, d)
    <2>1. PICK c \in Ctx, d \in Ctx : ForkContext(c, d)
      BY <1>3
    <2>2. call' = Idle
      BY <2>1 DEF ForkContext, Starts
    <2>3. WritersAreAlone'
      BY <2>1, ForkLeavesWritersAlone DEF Alone
    <2> QED BY <1>1, <2>2, <2>3 DEF Alone, Idle
  <1>4. CASE \E h \in Handle : UnmapLogicalBlock(h)
    <2>1. PICK h \in Handle : UnmapLogicalBlock(h)
      BY <1>4
    <2>2. call' = Idle /\ refs' = refs /\ handles' = [handles EXCEPT ![h] = Nil]
      BY <2>1 DEF UnmapLogicalBlock, Unmap, Starts
    <2>3. WritersAreAlone'
      BY <2>2 DEF Alone, WritersAreAlone, Consistent, TypeOK
    <2> QED BY <1>1, <2>2, <2>3 DEF Alone, Idle
  <1>5. CASE \E c \in Ctx, l \in Lvid, write \in BOOLEAN : StrayUnmap(c, l, write)
    BY <1>5 DEF StrayUnmap, Permitted
  <1> QED BY <1>2, <1>3, <1>4, <1>5 DEF HostCall

\* Every step of a disciplined host leaves writers alone.
LEMMA NextAlone ==
    ASSUME Liberties = {}, Consistent, Consistent', Counted, MappingsExact, Alone, MappedInUse',
           [Next]_vars
    PROVE  Alone'
  <1>1. CASE HostStep \/ UNCHANGED vars
    <2>1. UNCHANGED <<refs, table, handles, call>>
      BY <1>1 DEF HostStep, HostWrite, names, vars
    <2> QED BY <2>1 DEF Alone, WritersAreAlone, AloneBeforeWriting, OwnsForWriting, Current
  <1> QED BY <1>1, HostCallAlone, CallStepAlone DEF Next

\* A call of the test API starts between two other calls, and changes no mapping.
LEMMA TestCallStarts ==
    ASSUME TestCall
    PROVE  /\ handles' = handles /\ call.stage = "idle"
           /\ \E c \in Ctx, l \in Lvid : \E tier : call' = TierChange(c, l, tier)
  <1>1. PICK c \in Ctx, l \in Lvid, tier \in {"L0", "L1", "L2"} :
           MigrateBlock(c, l, tier) \/ \E b \in Block : UpdateMapping(c, l, b, tier)
    BY DEF TestCall
  <1>2. Starts(TierChange(c, l, tier)) /\ handles' = handles
    <2>1. CASE MigrateBlock(c, l, tier)
      BY <2>1 DEF MigrateBlock
    <2>2. ASSUME NEW b \in Block, UpdateMapping(c, l, b, tier)
          PROVE  Starts(TierChange(c, l, tier)) /\ handles' = handles
      BY <2>2 DEF UpdateMapping
    <2> QED BY <1>1, <2>1, <2>2
  <1> QED BY <1>2 DEF Starts

\* No step of the test API changes a mapping.
LEMMA TestKeepsHandles ==
    ASSUME TestCall \/ TestStep
    PROVE  handles' = handles
  <1>1. CASE TestStep
    BY <1>1 DEF TestStep, DemoteResident, DemoteOther, DemoteFails, Promoted
  <1> QED BY <1>1, TestCallStarts

\* What the test API is doing when it starts, and when it goes on
LEMMA TestCallStages ==
    ASSUME TestCall \/ TestStep
    PROVE  /\ call.stage \in {"idle", "demote", "pin"}
           /\ \/ call' = Idle
              \/ call'.stage \in {"reclaim", "demote"} /\ call'.op = "remap"
  <1>1. ASSUME NEW c \in Ctx, NEW l \in Lvid, NEW tier, call' = TierChange(c, l, tier)
        PROVE  \/ call' = Idle
               \/ call'.stage \in {"reclaim", "demote"} /\ call'.op = "remap"
    BY <1>1, TierChangeFacts
  <1>2. CASE TestCall
    BY <1>1, <1>2, TestCallStarts
  <1>3. CASE TestStep
    BY <1>3 DEF TestStep, DemoteResident, DemoteOther, DemoteFails, Promoted, InStage
  <1> QED BY <1>2, <1>3

\* The test API gives nobody a reference to a block that has one.
LEMMA TestAlone ==
    ASSUME Consistent, Consistent', Counted, MappingsExact, Alone, MappedInUse',
           TestCall \/ TestStep
    PROVE  Alone'
  <1>1. \/ call' = Idle
        \/ call'.stage \in {"reclaim", "demote"} /\ call'.op = "remap"
    BY TestCallStages
  <1>2. AloneBeforeWriting'
    BY <1>1 DEF AloneBeforeWriting, OwnsForWriting, Idle
  <1>3. handles' = handles
    BY TestKeepsHandles
  <1>4. refs \in [Block -> Nat] /\ refs' \in [Block -> Nat]
    BY DEF Consistent, TypeOK
  <1>5. \A a \in Block : refs[a] = 0 \/ refs'[a] <= refs[a]
    <2>1. ASSUME NEW c \in Ctx, NEW l \in Lvid, NEW b \in Block, NEW tier,
                 UpdateMapping(c, l, b, tier), NEW a \in Block
          PROVE  refs[a] = 0 \/ refs'[a] <= refs[a]
      <3>0. refs' = [refs EXCEPT ![table[c][l]] = Less(refs[table[c][l]], 1), ![b] = 1]
        BY <2>1 DEF UpdateMapping, Released
      <3>1. table[c][l] \in Block /\ refs[b] = 0
        BY <2>1, RemapFacts
      <3>2. refs'[a] = IF a = b THEN 1 ELSE IF a = table[c][l] THEN Less(refs[a], 1) ELSE refs[a]
        BY <1>4, <3>0, <3>1
      <3>3. PICK n \in Nat : n = refs[a]
        BY <1>4
      <3>4. CASE a = b
        BY <3>1, <3>4
      <3>5. CASE a # b /\ a = table[c][l]
        <4>1. refs'[a] = Less(n, 1)
          BY <3>2, <3>3, <3>5
        <4>2. Less(n, 1) <= n
          BY <3>3 DEF Less
        <4> QED BY <3>3, <4>1, <4>2
      <3>6. CASE a # b /\ a # table[c][l]
        BY <3>2, <3>3, <3>6
      <3> QED BY <3>4, <3>5, <3>6
    <2>2. ASSUME NEW c \in Ctx, NEW l \in Lvid, NEW tier, MigrateBlock(c, l, tier)
          PROVE  refs' = refs
      BY <2>2 DEF MigrateBlock
    <2>3. TestStep => refs' = refs
      BY DEF TestStep, DemoteResident, DemoteOther, DemoteFails, Promoted
    <2>4. refs' = refs => \A a \in Block : refs'[a] <= refs[a]
      BY <1>4
    <2> QED BY <2>1, <2>2, <2>3, <2>4 DEF TestCall
  <1> QED BY <1>2, <1>3, <1>4, <1>5, WritersStayAlone DEF Alone

\* Writers are alone at all times.
LEMMA TestAlwaysAlone ==
    ASSUME Liberties = {}
    PROVE  TestSpec => []Alone
  <1>1. MindsItsMappings
    BY DEF MindsItsMappings
  <1>2. Init => Alone
    BY DEF Init, Idle, Alone, WritersAreAlone, AloneBeforeWriting, OwnsForWriting
  <1>3. Consistent /\ Counted /\ MappingsExact => MappedInUse
    BY MappedAreInUse
  <1>4. /\ Consistent /\ Consistent' /\ Counted /\ MappingsExact /\ Alone /\ MappedInUse'
        /\ [TestNext]_vars
        => Alone'
    BY NextAlone, TestAlone DEF TestNext
  <1>5. TestSpec => [](Counted /\ MappingsExact)
    BY <1>1, TestAlwaysMapped
  <1> QED BY <1>2, <1>3, <1>4, <1>5, TestApiConsistent, PTL DEF TestSpec

LEMMA AlwaysAlone ==
    ASSUME Liberties = {}
    PROVE  Spec => []Alone
  BY TestAlwaysAlone, TestSpecIsWeaker, PTL

\* While a host that does not fork a context it is writing to holds a block mapped
\* for writing, exactly one logical block refers to it: a store through the pointer
\* is seen by one context, whatever was shared, copied or evicted before.
THEOREM WritersAlwaysAlone ==
    ASSUME Liberties = {}
    PROVE  Spec => []WritersAreAlone
  BY AlwaysAlone, PTL DEF Alone

-----------------------------------------------------------------------------
(* Writers under the test API *)

\* MoveBlockToL2 is for a logical block that the host has not mapped, so the block
\* is not one that somebody is writing to; it may be one that somebody reads.
LEMMA DemotesNoWriter ==
    ASSUME Consistent, Counted, MappingsExact, Alone, DemoteResident \/ DemoteOther
    PROVE  ~BeingWritten(Current)
  <1> SUFFICES ASSUME NEW h \in Handle, handles[h] # Nil, handles[h].block = Current,
                      handles[h].write
               PROVE  FALSE
    BY DEF BeingWritten
  <1>1. /\ call.op = "remap" /\ call.ctx \in Ctx /\ call.lvid \in Lvid /\ Current \in Block
    BY AccessFacts DEF DemoteResident, DemoteOther, InStage, Consistent, TypeOK, Call, Op,
                       CallConsistent, AccessConsistent, AllocationConsistent
  <1>2. refs[Current] = 1
    BY DEF Alone, WritersAreAlone
  <1>3. /\ handles[h].ctx \in Ctx /\ handles[h].lvid \in Lvid
        /\ table[handles[h].ctx][handles[h].lvid] = Current
    BY MappingFacts DEF Mapping
  <1>4. handles[h].ctx = call.ctx /\ handles[h].lvid = call.lvid
    BY <1>1, <1>2, <1>3, NamedOnce DEF Current
  <1> QED BY <1>1, <1>4 DEF MappingsExact, MovesUnmapped, IsMapped, Holds

\* The other steps of the test API take no page from a pinned block in use.
LEMMA TestKeepsPages ==
    ASSUME Consistent, TestCall \/ DemoteFails \/ Promoted
    PROVE  PinnedKeepPages
  <1>1. ASSUME NEW c \in Ctx, NEW l \in Lvid, NEW b \in Block, NEW tier,
               UpdateMapping(c, l, b, tier)
        PROVE  PinnedKeepPages
    <2>1. /\ table[c][l] \in Block /\ table[c][l] # b
          /\ \A a \in Block : a \in FreedByRelease(table[c][l])
                                 <=> a = table[c][l] /\ refs[a] = 1
      BY <1>1, RemapFacts
    <2>2. /\ refs' = [refs EXCEPT ![table[c][l]] = Less(refs[table[c][l]], 1), ![b] = 1]
          /\ l1' = [a \in Block |-> IF a \in FreedByRelease(table[c][l]) THEN Nil ELSE l1[a]]
      BY <1>1 DEF UpdateMapping, Released
    <2>3. \A a \in FreedByRelease(table[c][l]) \cap Block : refs'[a] = 0
      BY <2>1, <2>2 DEF Consistent, TypeOK, Less
    <2> QED BY <2>2, <2>3 DEF PinnedKeepPages
  <1>2. CASE DemoteFails \/ Promoted \/ \E c \in Ctx, l \in Lvid : \E tier : MigrateBlock(c, l, tier)
    <2>1. l1' = l1
      BY <1>2 DEF DemoteFails, Promoted, MigrateBlock, pools
    <2> QED BY <2>1 DEF PinnedKeepPages
  <1> QED BY <1>1, <1>2 DEF TestCall

\* Every step keeps the page of a writer where its pointer is.
LEMMA WritersPointedStep ==
    ASSUME Consistent, Counted, MappingsExact, Alone, WritersPointed, MappedInUse',
           [TestNext]_vars
    PROVE  WritersPointed'
  <1> SUFFICES ASSUME NEW h \in Handle, handles'[h] # Nil, handles'[h].write
               PROVE  l1'[handles'[h].block] = handles'[h].page
    BY DEF WritersPointed
  <1>1. CASE DemoteResident \/ DemoteOther
    <2>1. /\ handles' = handles /\ l1' = [l1 EXCEPT ![Current] = Nil]
      BY <1>1 DEF DemoteResident, DemoteOther
    <2>2. handles[h].block # Current
      BY <1>1, <2>1, DemotesNoWriter DEF BeingWritten
    <2>3. handles[h].block \in Block
      BY <2>1, MappingFacts
    <2> QED BY <2>1, <2>2, <2>3 DEF WritersPointed, Consistent, TypeOK
  <1>2. CASE UNCHANGED vars
    BY <1>2 DEF vars, WritersPointed
  <1>3. CASE TestCall \/ DemoteFails \/ Promoted
    <2>1. handles' = handles
      BY <1>3, TestKeepsHandles DEF TestStep
    <2> QED BY <1>3, <2>1, TestKeepsPages, MappedKeepsPage DEF WritersPointed
  <1>4. CASE Next
    <2>1. PinnedKeepPages
      <3>1. CASE HostStep
        BY <3>1 DEF HostStep, HostWrite, PinnedKeepPages
      <3> QED BY <1>4, <3>1, CallStepKeepsPages, HostCallKeepsPages DEF Next
    <2>2. handles \in [Handle -> Mapping \cup {Nil}]
      BY DEF Consistent, TypeOK
    <2>3. handles'[h] = handles[h] \/ \E p \in Page : Pin(p)
      BY <1>4, <2>2, OnlyPinsOpen
    <2>4. CASE handles'[h] = handles[h]
      BY <2>1, <2>4, MappedKeepsPage DEF WritersPointed
    <2>5. CASE handles'[h] # handles[h]
      BY <2>3, <2>5, PinPoints
    <2> QED BY <2>4, <2>5
  <1> QED BY <1>1, <1>2, <1>3, <1>4 DEF TestNext, TestStep

\* Moving a block, or a logical block, leaves no clean block ahead of L2.
LEMMA TestThrough ==
    ASSUME Consistent, Counted, MappingsExact, AllThrough, TestCall \/ TestStep
    PROVE  AllThrough'
  <1>0. handles' = handles
    BY TestKeepsHandles
  <1>1. CASE UNCHANGED <<meta, l1, l2, mem>>
    BY <1>0, <1>1, OneBlockThrough, SameHandles DEF Untouched, AllThrough, Through, L2Data
  <1>2. CASE DemoteFails \/ Promoted \/ \E c \in Ctx, l \in Lvid : \E tier : MigrateBlock(c, l, tier)
    BY <1>1, <1>2 DEF DemoteFails, Promoted, MigrateBlock, blocks, pools
  <1>3. CASE DemoteResident \/ DemoteOther
    <2> DEFINE m == [meta[Current] EXCEPT !.resident = FALSE, !.tier = "L2", !.backed = TRUE]
    <2>1. Current \in Block /\ mem' = mem
      BY <1>3, AccessFacts DEF DemoteResident, DemoteOther, InStage
    <2>2. ~m.resident
      BY <2>1 DEF Consistent, TypeOK, Meta
    <2>3. /\ l1' = [l1 EXCEPT ![Current] = Nil]
          /\ \/ l2' = [l2 EXCEPT ![Current] = L1Data(Current)] /\ meta' = [meta EXCEPT ![Current] = m]
             \/ /\ l2' = l2 /\ meta' = [meta EXCEPT ![Current].tier = "L2"]
                /\ ~meta[Current].resident
      BY <1>3 DEF DemoteResident, DemoteOther
    <2> HIDE DEF m
    <2>4. PICK b \in Block : b = Current
      BY <2>1
    <2>5. l1'[b] = Nil /\ ~meta'[b].resident
      BY <2>2, <2>3, <2>4 DEF Consistent, TypeOK, Meta
    <2>6. Through(b)'
      BY <2>5 DEF Through
    <2>7. \A a \in Block \ {b} : Untouched(a)
      BY <1>0, <2>1, <2>3, <2>4, SameHandles DEF Untouched, Consistent, TypeOK
    <2> QED BY <2>6, <2>7, OneBlockThrough
  <1>4. ASSUME NEW c \in Ctx, NEW l \in Lvid, NEW b \in Block, NEW tier,
               UpdateMapping(c, l, b, tier)
        PROVE  AllThrough'
    <2> DEFINE freed == FreedByRelease(table[c][l])
    <2>1. Clean(b)
      BY <1>4, RemapFacts
    <2>2. /\ meta' = [a \in Block |-> IF a = b THEN FreshMeta
                                     ELSE IF a \in freed THEN DefaultMeta ELSE meta[a]]
          /\ l1' = [a \in Block |-> IF a \in freed THEN Nil ELSE l1[a]]
          /\ l2' = [a \in Block |-> IF a \in freed THEN Nil ELSE l2[a]]
          /\ mem' = mem
      BY <1>4 DEF UpdateMapping
    <2> HIDE DEF freed
    <2>3. ASSUME NEW a \in Block PROVE Through(a)'
      <3>1. CASE a \in freed \cup {b}
        <4>1. l1'[a] = Nil /\ l2'[a] = Nil
          BY <2>1, <2>2, <3>1 DEF Clean
        <4> QED BY <4>1 DEF Through
      <3>2. CASE a \notin freed \cup {b}
        <4>1. Untouched(a)
          BY <1>0, <2>2, <3>2, SameHandles DEF Untouched
        <4> QED BY <4>1 DEF AllThrough, Through, Untouched, L2Data
      <3> QED BY <3>1, <3>2
    <2> QED BY <2>3 DEF AllThrough
  <1> QED BY <1>2, <1>3, <1>4 DEF TestCall, TestStep

\* What a disciplined host relies on when it uses the test API as well
Steady == Alone /\ WritersPointed /\ AllThrough

LEMMA TestAlwaysSteady ==
    ASSUME Liberties = {}
    PROVE  TestSpec => []Steady
  <1>1. MindsItsMappings
    BY DEF MindsItsMappings
  <1>2. Init => WritersPointed /\ AllThrough
    BY DEF Init, AllThrough, Through, DefaultMeta, WritersPointed
  <1>3. Consistent /\ Counted /\ MappingsExact => MappedInUse
    BY MappedAreInUse
  <1>4. /\ Consistent /\ Counted /\ MappingsExact /\ Alone /\ WritersPointed /\ MappedInUse'
        /\ [TestNext]_vars
        => WritersPointed'
    BY WritersPointedStep
  <1>5. /\ Consistent /\ Counted /\ MappingsExact /\ WritersPointed /\ AllThrough
        /\ [TestNext]_vars
        => AllThrough'
    BY <1>1, NextThrough, TestThrough DEF TestNext
  <1>6. TestSpec => [](Counted /\ MappingsExact)
    BY <1>1, TestAlwaysMapped
  <1> QED BY <1>2, <1>3, <1>4, <1>5, <1>6, TestAlwaysAlone, TestApiConsistent, PTL
          DEF TestSpec, Steady

\* The test API may move a block that somebody reads through a pointer, but neither
\* gives a second logical block a share in a block that is being written, nor takes
\* the page that the writer points to, nor leaves L2 behind a clean L1 page.
THEOREM TestApiSparesWriters ==
    ASSUME Liberties = {}
    PROVE  TestSpec => [](WritersAreAlone /\ WritersPointed /\ WrittenThrough)
  <1>1. Steady => WritersAreAlone /\ WritersPointed /\ WrittenThrough
    BY DEF Steady, Alone, AllThrough, Through, WrittenThrough
  <1> QED BY <1>1, TestAlwaysSteady, PTL

-----------------------------------------------------------------------------
(* Contexts are isolated *)

\* While a copy on write waits for its contents, nobody is writing to the source
\* and the copy has no page.
CopyPending ==
    call.stage = "clone" => ~BeingWritten(call.src) /\ l2[Current] = Nil

\* The blocks an allocation has registered have no pages yet.
NewAreBlank ==
    call.op = "allocate" =>
        \A l \in Lvid : call.base <= l /\ l < call.lvid =>
            /\ table[call.ctx][l] \in Block
            /\ l1[table[call.ctx][l]] = Nil /\ l2[table[call.ctx][l]] = Nil

\* What a call in progress still has to add to the memory the host sees
Prepares == CopyPending /\ NewAreBlank

\* Outside these stages a logical block reads from its page table entry.
Plain == call.stage \notin {"grow", "register", "clone"}

\* A new call starts plain.
LEMMA HostCallStages ==
    ASSUME HostCall
    PROVE  call.stage = "idle" /\ call'.stage \in {"idle", "reclaim", "prepare"}
  <1>1. ASSUME NEW c \in Ctx, NEW d \in Ctx, CreateContext(c) \/ ForkContext(c, d)
        PROVE  call.stage = "idle" /\ call' = Idle
    BY <1>1 DEF CreateContext, ForkContext, Starts
  <1>2. ASSUME NEW c \in Ctx, DestroyContext(c)
        PROVE  call.stage = "idle" /\ call'.stage = "reclaim"
    BY <1>2 DEF DestroyContext, Starts, Idle
  <1>3. ASSUME NEW c \in Ctx, NEW n \in 1 .. MaxLvid, AllocateBlocks(c, n)
        PROVE  call.stage = "idle" /\ call'.stage = "reclaim"
    BY <1>3 DEF AllocateBlocks, Starts, Idle
  <1>4. ASSUME NEW c \in Ctx, NEW l \in Lvid, ReleaseLogicalBlock(c, l)
        PROVE  call.stage = "idle" /\ call' = Idle
    BY <1>4 DEF ReleaseLogicalBlock, Starts
  <1>5. ASSUME NEW c \in Ctx, NEW l \in Lvid, PrepareBlockForWrite(c, l)
        PROVE  call.stage = "idle" /\ call'.stage = "prepare"
    BY <1>5 DEF PrepareBlockForWrite, Starts, Idle
  <1>6. ASSUME NEW c \in Ctx, NEW l \in Lvid, NEW write \in BOOLEAN, NEW h \in Handle,
               MapLogicalBlock(c, l, write, h)
        PROVE  call.stage = "idle" /\ call'.stage \in {"prepare", "reclaim"}
    <2>1. call.stage = "idle" /\ call'.stage = IF write THEN "prepare" ELSE "reclaim"
      BY <1>6 DEF MapLogicalBlock, Starts, Idle
    <2> QED BY <2>1
  <1>7. ASSUME NEW b, NEW write, Unmap(b, write)
        PROVE  call.stage = "idle" /\ call' = Idle
    BY <1>7 DEF Unmap, Starts
  <1>8. Idle.stage = "idle"
    BY DEF Idle
  <1>9. ASSUME NEW h \in Handle, UnmapLogicalBlock(h)
        PROVE  call.stage = "idle" /\ call' = Idle
    BY <1>7, <1>9 DEF UnmapLogicalBlock
  <1>10. ASSUME NEW c \in Ctx, NEW l \in Lvid, NEW write \in BOOLEAN, StrayUnmap(c, l, write)
         PROVE  call.stage = "idle" /\ call' = Idle
    BY <1>7, <1>10 DEF StrayUnmap
  <1> QED BY <1>1, <1>2, <1>3, <1>4, <1>5, <1>6, <1>8, <1>9, <1>10 DEF HostCall

\* Only registering a block adds to the registered ones.
LEMMA OnlyRegisteredAreNew ==
    ASSUME Consistent, call.op = "allocate", call.stage # "register"
    PROVE  NewAreBlank
  <1>1. call.base = call.lvid /\ call.lvid \in Nat
    BY DEF Consistent, CallConsistent, AllocationConsistent, TypeOK, Call, Lvid
  <1>2. call.base \in Nat /\ \A l \in Lvid : l \in Nat
    BY <1>1 DEF Lvid
  <1> QED BY <1>1, <1>2 DEF NewAreBlank

\* Every step of a disciplined host keeps what a call has prepared.
LEMMA NextPrepares ==
    ASSUME Liberties = {}, Consistent, Counted, MappingsExact, Alone, Prepares,
           call'.op = "allocate" /\ call'.stage # "register" => NewAreBlank',
           [Next]_vars
    PROVE  Prepares'
  <1>1. CASE HostCall
    BY <1>1, HostCallStages DEF Prepares, CopyPending, NewAreBlank
  <1>2. CASE HostStep \/ UNCHANGED vars
    <2>1. UNCHANGED <<table, l1, l2, handles, call>>
      BY <1>2 DEF HostStep, HostWrite, names, vars
    <2> QED BY <2>1 DEF Prepares, CopyPending, NewAreBlank, BeingWritten, Current
  <1>3. CASE CallStep
    <2>1. CASE call' = call /\ call.stage = "ensure"
      <3>1. call'.op # "allocate" /\ call'.stage # "clone"
        BY <2>1, AccessFacts
      <3> QED BY <3>1 DEF Prepares, CopyPending, NewAreBlank
    <2>2. CASE call'.stage \notin {"clone", "register"}
      BY <2>2 DEF Prepares, CopyPending, NewAreBlank
    <2>3. CASE call'.stage = "clone"
      <3>1. PICK n \in Block : CowRemap(n)
        BY <1>3, <2>3, OnlyCopiesClone
      <3>2. PICK b \in Block : b = Current
        BY <3>1, AccessFacts DEF CowRemap, InStage
      <3>3. /\ refs[b] > 1 /\ refs[n] = 0 /\ l2' = l2 /\ handles' = handles
            /\ call.stage = "prepare" /\ call' = [At("clone") EXCEPT !.src = b]
            /\ table' = [table EXCEPT ![call.ctx][call.lvid] = n]
        BY <3>1, <3>2 DEF CowRemap, MustCopy, FreeBlocks, InStage, pools
      <3>4. call.ctx \in Ctx /\ call.lvid \in Lvid /\ call.op # "allocate"
        BY <3>3, AccessFacts
      <3>5. /\ call'.src = b /\ call'.ctx = call.ctx /\ call'.lvid = call.lvid
            /\ call'.op = call.op
        BY <3>3 DEF At, Consistent, TypeOK, Call
      <3>6. Current' = n
        BY <3>3, <3>4, <3>5 DEF Current, Consistent, TypeOK
      <3>7. l2[n] = Nil
        BY <3>3 DEF Consistent, FreeBlocksClean, FreeBlocks, Clean
      <3>8. ~BeingWritten(b)
        BY <3>3 DEF BeingWritten, Alone, WritersAreAlone
      <3> QED BY <3>3, <3>4, <3>5, <3>6, <3>7, <3>8
              DEF Prepares, CopyPending, NewAreBlank, BeingWritten
    <2>4. CASE call'.stage = "register" /\ call' # Idle
      <3>1. CASE \E b \in Block : GrowTable(b)
        <4>1. /\ call.stage = "grow" /\ call' = At("register")
          BY <2>4, <3>1 DEF GrowTable, InStage, At, Consistent, TypeOK, Call
        <4>2. call'.base = call.base /\ call'.lvid = call.lvid /\ call.lvid \in Lvid
              /\ call.base = call.lvid
          BY <4>1 DEF At, Consistent, TypeOK, Call, Op, CallConsistent, AllocationConsistent,
                      AccessConsistent
        <4> QED BY <2>4, <4>2 DEF Prepares, CopyPending, NewAreBlank, Lvid
      <3>2. CASE RegisterInL1 \/ RegisterInL2
        <4>1. /\ Registering
              /\ AllocationConsistent /\ call.op = "allocate"
              /\ Current \in Block /\ Clean(Current)
              /\ l1' = l1 /\ l2' = l2 /\ table' = table
          BY <3>2, RegisteringFacts DEF RegisterInL1, RegisterInL2, names
        <4>2. call' = [call EXCEPT !.lvid = @ + 1]
          BY <2>4, <4>1 DEF Registering, Idle
        <4>3. /\ call'.lvid = call.lvid + 1 /\ call'.ctx = call.ctx
              /\ call'.base = call.base
          BY <4>2 DEF Consistent, TypeOK, Call
        <4>4. call.lvid \in Nat /\ \A l \in Lvid : l \in Nat
          BY DEF Consistent, TypeOK, Call, Lvid
        <4>5. NewAreBlank'
          BY <4>1, <4>3, <4>4 DEF Prepares, NewAreBlank, Clean, Current
        <4> QED BY <2>4, <4>5 DEF Prepares, CopyPending
      <3>3. call.stage \in {"grow", "register"}
        BY <1>3, <2>4, CallGoesOn
      <3>4. (\E b \in Block : GrowTable(b)) \/ RegisterInL1 \/ RegisterInL2
        <4>1. ~(Reclaim \/ WriteInPlace \/ CowFails \/ CloneBlockData \/ CloneFails)
          BY <3>3 DEF Reclaim, WriteInPlace, CowFails, CloneBlockData, CloneFails, InStage
        <4>2. ~(AlreadyResident \/ EvictFails \/ PromoteFails \/ PinFails)
          BY <3>3 DEF AlreadyResident, EvictFails, NeedsRoom, PromoteFails, PinFails, InStage
        <4>3. ~GrowFails
          BY <2>4 DEF GrowFails
        <4>4. \A n \in Block : ~CowRemap(n) /\ ~EvictVictim(n)
          BY <3>3 DEF CowRemap, EvictVictim, NeedsRoom, InStage
        <4>5. \A q \in Page : ~Promote(q) /\ ~Pin(q)
          BY <3>3 DEF Promote, Pin, InStage
        <4> QED BY <1>3, <4>1, <4>2, <4>3, <4>4, <4>5 DEF CallStep
      <3> QED BY <3>1, <3>2, <3>4
    <2> QED BY <2>2, <2>3, <2>4 DEF Idle
  <1> QED BY <1>1, <1>2, <1>3 DEF Next

\* The calls of the test API neither allocate nor copy.
LEMMA TestPrepares ==
    ASSUME TestCall \/ TestStep
    PROVE  Prepares'
  <1>1. \/ call' = Idle
        \/ call'.stage \in {"reclaim", "demote"} /\ call'.op = "remap"
    BY TestCallStages
  <1> QED BY <1>1 DEF Prepares, CopyPending, NewAreBlank, Idle

\* A new runtime has nothing in progress.
LEMMA InitPrepares == Init => Prepares
  BY DEF Init, Idle, Prepares, CopyPending, NewAreBlank

\* The invariants the refinement rests on
Disciplined == Counted /\ MappingsExact /\ Steady /\ Prepares

\* A disciplined host finds all of them at all times.
LEMMA TestAlwaysDisciplined ==
    ASSUME Liberties = {}
    PROVE  TestSpec => []Disciplined
  <1>1. MindsItsMappings
    BY DEF MindsItsMappings
  <1>2. Consistent => (call.op = "allocate" /\ call.stage # "register" => NewAreBlank)
    BY OnlyRegisteredAreNew
  <1>3. /\ Consistent /\ Counted /\ MappingsExact /\ Alone /\ Prepares
        /\ (call.op = "allocate" /\ call.stage # "register" => NewAreBlank)'
        /\ [TestNext]_vars
        => Prepares'
    BY NextPrepares, TestPrepares DEF TestNext
  <1>4. TestSpec => [](Counted /\ MappingsExact)
    BY <1>1, TestAlwaysMapped
  <1>5. Steady => Alone
    BY DEF Steady
  <1>6. Init => Prepares
    BY InitPrepares
  <1> QED BY <1>2, <1>3, <1>4, <1>5, <1>6, TestAlwaysSteady, TestApiConsistent, PTL
          DEF TestSpec, Disciplined

LEMMA AlwaysDisciplined ==
    ASSUME Liberties = {}
    PROVE  Spec => []Disciplined
  BY TestAlwaysDisciplined, TestSpecIsWeaker, PTL

\* What a logical block of a live context reads as
Reads(c, l) ==
    IF NotYetAllocated(c, l) \/ Backing(c, l) = Nil THEN Nil ELSE Contents(Backing(c, l))

\* The memory of the host, in terms of it
LEMMA LogicalReads ==
    /\ Logical = [c \in Ctx |-> IF c \notin live THEN Nil ELSE [l \in Lvid |-> Reads(c, l)]]
    /\ Logical' = [c \in Ctx |-> IF c \notin live' THEN Nil
                                                   ELSE [l \in Lvid |-> Reads(c, l)']]
  BY DEF Logical, Reads

\* A block reads as a value.
LEMMA ContentsAreValues ==
    ASSUME Consistent, NEW b \in Block
    PROVE  Contents(b) \in Value /\ Contents(b) # Nil
  BY DataIsValue, NilAssumption DEF Consistent, Contents

\* A logical block of a live context is a value, or not allocated.
LEMMA LogicalBlocks ==
    ASSUME Consistent, NEW c \in Ctx, c \in live
    PROVE  /\ Logical[c] # Nil
           /\ \A l \in Lvid : Logical[c][l] = Reads(c, l) /\ Reads(c, l) \in Value \cup {Nil}
  <1>1. Logical[c] = [l \in Lvid |-> Reads(c, l)]
    BY LogicalReads
  <1>2. ASSUME NEW l \in Lvid PROVE Reads(c, l) \in Value \cup {Nil}
    <2>1. Backing(c, l) \in Block \cup {Nil}
      BY DEF Backing, Consistent, TypeOK, Call
    <2> QED BY <2>1, ContentsAreValues DEF Reads
  <1>3. Logical[c] \in [Lvid -> Value \cup {Nil}]
    BY <1>1, <1>2
  <1> QED BY <1>1, <1>2, <1>3, NilIsNothing

\* A context that is not live has no memory.
LEMMA NotLive ==
    ASSUME NEW c \in Ctx, c \notin live
    PROVE  Logical[c] = Nil
  BY LogicalReads

\* The memory is what it was when every logical block reads as it did.
LEMMA SameLogical ==
    ASSUME live' = live, \A c \in Ctx, l \in Lvid : c \in live => Reads(c, l)' = Reads(c, l)
    PROVE  Logical' = Logical
  BY LogicalReads

\* One block's contents are what they were.
Keeps(b) == Contents(b)' = Contents(b)

\* A block keeps its contents with its place and its pages.
LEMMA UntouchedKeeps ==
    ASSUME NEW b, meta'[b].resident = meta[b].resident, l1'[b] = l1[b], l2'[b] = l2[b],
           l1[b] # Nil => mem'[l1[b]] = mem[l1[b]]
    PROVE  Keeps(b)
  BY DEF Keeps, Contents, L1Data, L2Data

\* Between plain stages the memory is what it was, when no name changes and the
\* blocks in use keep their contents.
LEMMA PlainStays ==
    ASSUME Consistent, Counted, Plain, Plain', live' = live, table' = table,
           \A b \in Block : refs[b] > 0 => Keeps(b)
    PROVE  Logical' = Logical
  <1> SUFFICES ASSUME NEW c \in Ctx, NEW l \in Lvid, c \in live
               PROVE  Reads(c, l)' = Reads(c, l)
    BY SameLogical
  <1>1. /\ ~NotYetAllocated(c, l) /\ ~NotYetAllocated(c, l)'
        /\ Backing(c, l) = table[c][l] /\ Backing(c, l)' = table[c][l]
    BY DEF Plain, NotYetAllocated, Backing
  <1>2. CASE table[c][l] = Nil
    BY <1>1, <1>2 DEF Reads
  <1>3. CASE table[c][l] # Nil
    <2>1. PICK b \in Block : b = table[c][l] /\ refs[b] > 0
      BY <1>3, NamedInUse
    <2>2. Reads(c, l) = Contents(b) /\ Reads(c, l)' = Contents(b)'
      BY <1>1, <1>3, <2>1 DEF Reads
    <2> QED BY <2>1, <2>2 DEF Keeps
  <1> QED BY <1>2, <1>3

\* A step of the memory the host sees
MemoryStep ==
    [\/ Memory!Next
     \/ \E c \in Ctx, l \in Lvid : LosesCopy(c, l) /\ Memory!Replace(c, l)
    ]_<<Logical, Writing>>

\* The logical blocks being written change with the mappings only.
LEMMA SameWriting ==
    ASSUME handles' = handles
    PROVE  Writing' = Writing
  BY DEF Writing

\* Past the stages of an allocation, a call stays plain unless it copies.
LEMMA CallStaysPlain ==
    ASSUME Consistent, CallStep, call.stage \in {"prepare", "clone", "ensure", "pin"},
           ~ \E n \in Block : CowRemap(n)
    PROVE  Plain'
  BY CallGoesOn, OnlyCopiesClone DEF Plain, Idle

\* Stages in which a call only decides, or fails before it changed anything
LEMMA DecidingIsUnseen ==
    ASSUME Consistent, Counted, CallStep,
           WriteInPlace \/ CowFails \/ AlreadyResident \/ EvictFails \/ PromoteFails \/ PinFails
    PROVE  MemoryStep
  <1>1. CASE AlreadyResident
    <2>1. /\ call.stage = "ensure" /\ UNCHANGED <<live, table, handles, l1, l2, mem>>
          /\ meta' = [meta EXCEPT ![Current].tier = "L1"]
      BY <1>1 DEF AlreadyResident, InStage, names, pools
    <2>2. \A b \in Block : meta'[b].resident = meta[b].resident
      BY <2>1, AccessFacts DEF Consistent, TypeOK, Meta
    <2>3. \A b \in Block : Keeps(b)
      BY <2>1, <2>2, UntouchedKeeps
    <2>4. Plain /\ Plain'
      BY <2>1, CallStaysPlain DEF Plain, CowRemap, InStage
    <2> QED BY <2>1, <2>3, <2>4, PlainStays, SameWriting DEF MemoryStep
  <1>2. CASE WriteInPlace \/ CowFails
    <2>1. /\ call.stage = "prepare" /\ UNCHANGED <<live, table, handles, meta, l1, l2, mem>>
          /\ ~ \E n \in Block : CowRemap(n)
      BY <1>2 DEF WriteInPlace, CowFails, CowRemap, InStage, names, blocks, pools
    <2>2. \A b \in Block : Keeps(b)
      BY <2>1, UntouchedKeeps
    <2>3. Plain /\ Plain'
      BY <2>1, CallStaysPlain DEF Plain
    <2> QED BY <2>1, <2>2, <2>3, PlainStays, SameWriting DEF MemoryStep
  <1>3. CASE EvictFails \/ PromoteFails \/ PinFails
    <2>1. /\ call.stage \in {"ensure", "pin"}
          /\ UNCHANGED <<live, table, handles, meta, l1, l2, mem>>
          /\ ~ \E n \in Block : CowRemap(n)
      BY <1>3 DEF EvictFails, NeedsRoom, PromoteFails, PinFails, CowRemap, InStage,
                  names, blocks, pools
    <2>2. \A b \in Block : Keeps(b)
      BY <2>1, UntouchedKeeps
    <2>3. Plain /\ Plain'
      BY <2>1, CallStaysPlain DEF Plain
    <2> QED BY <2>1, <2>2, <2>3, PlainStays, SameWriting DEF MemoryStep
  <1> QED BY <1>1, <1>2, <1>3

\* Reclaiming takes pages from blocks nobody names.
LEMMA ReclaimIsUnseen ==
    ASSUME Consistent, Counted, CallStep, Reclaim
    PROVE  MemoryStep
  <1>1. /\ call.stage = "reclaim" /\ live' = live /\ table' = table /\ handles' = handles
        /\ size' = size /\ call' = AfterReclaim /\ Scrub(FreeBlocks)
    BY DEF Reclaim, InStage, names
  <1>2. ASSUME NEW b \in Block, refs[b] > 0 PROVE Keeps(b)
    <2>1. /\ b \notin FreeBlocks /\ mem' = mem
          /\ meta'[b] = meta[b] /\ l1'[b] = l1[b] /\ l2'[b] = l2[b]
      BY <1>1, <1>2 DEF Scrub, FreeBlocks
    <2> QED BY <2>1, UntouchedKeeps
  <1>3. CASE call.op = "allocate"
    <2>1. /\ call'.stage = "grow" /\ call'.ctx = call.ctx /\ call'.base = call.base
      BY <1>1, <1>3 DEF AfterReclaim, At, Consistent, TypeOK, Call
    <2>2. call.base = size[call.ctx] /\ call.ctx \in Ctx /\ size[call.ctx] \in Nat
      BY <1>1, <1>3 DEF Consistent, CallConsistent, AllocationConsistent, TypeOK
    <2> SUFFICES ASSUME NEW c \in Ctx, NEW l \in Lvid, c \in live
                 PROVE  Reads(c, l)' = Reads(c, l)
      BY <1>1, SameLogical, SameWriting DEF MemoryStep
    <2>3. /\ Backing(c, l) = table[c][l] /\ Backing(c, l)' = table[c][l]
          /\ ~NotYetAllocated(c, l)
          /\ NotYetAllocated(c, l)' => c = call.ctx /\ size[c] <= l
      BY <1>1, <2>1, <2>2 DEF Backing, NotYetAllocated
    <2>4. CASE table[c][l] = Nil
      BY <2>3, <2>4 DEF Reads
    <2>5. CASE table[c][l] # Nil
      <3>1. PICK b \in Block : b = table[c][l] /\ refs[b] > 0
        BY <2>5, NamedInUse
      <3>2. l < size[c] /\ l \in Nat
        BY <2>5 DEF Counted, TablesTidy, Lvid
      <3>3. ~NotYetAllocated(c, l)'
        BY <2>2, <2>3, <3>2
      <3>4. Reads(c, l) = Contents(b) /\ Reads(c, l)' = Contents(b)'
        BY <2>3, <2>5, <3>1, <3>3 DEF Reads
      <3> QED BY <1>2, <3>1, <3>4 DEF Keeps
    <2> QED BY <2>4, <2>5
  <1>4. CASE call.op # "allocate"
    <2>1. call'.stage \in {"idle", "ensure"}
      BY <1>1, <1>4 DEF AfterReclaim, Idle, At, Consistent, TypeOK, Call
    <2> QED BY <1>1, <1>2, <2>1, PlainStays, SameWriting DEF Plain, MemoryStep
  <1> QED BY <1>3, <1>4

\* A grown entry is not part of the context before it is registered.
LEMMA GrowthIsUnseen ==
    ASSUME Consistent, Counted, NEW b \in Block, GrowTable(b)
    PROVE  MemoryStep
  <1>1. /\ call.stage = "grow" /\ UNCHANGED <<live, handles, meta, l1, l2, mem>>
        /\ table' = [table EXCEPT ![call.ctx][size[call.ctx]] = b]
        /\ call' = At("register") \/ call' = At("grow")
    BY DEF GrowTable, InStage, blocks, pools
  <1>2. /\ call.ctx \in Ctx /\ call.base <= size[call.ctx] /\ size[call.ctx] \in Nat
    BY <1>1 DEF Consistent, CallConsistent, AllocationConsistent, AccessConsistent,
                TypeOK, Call, Op
  <1>3. /\ call'.stage \in {"grow", "register"} /\ call'.ctx = call.ctx
        /\ call'.base = call.base
    BY <1>1 DEF At, Consistent, TypeOK, Call
  <1> SUFFICES ASSUME NEW c \in Ctx, NEW l \in Lvid, c \in live
               PROVE  Reads(c, l)' = Reads(c, l)
    BY <1>1, SameLogical, SameWriting DEF MemoryStep
  <1>4. /\ NotYetAllocated(c, l)' <=> NotYetAllocated(c, l)
        /\ NotYetAllocated(c, l) <=> c = call.ctx /\ call.base <= l
        /\ Backing(c, l) = table[c][l] /\ Backing(c, l)' = table'[c][l]
    BY <1>1, <1>3 DEF NotYetAllocated, Backing
  <1>5. CASE c = call.ctx /\ l = size[c]
    BY <1>2, <1>4, <1>5 DEF Reads
  <1>6. CASE ~(c = call.ctx /\ l = size[c])
    <2>1. table'[c][l] = table[c][l]
      BY <1>1, <1>6 DEF Consistent, TypeOK
    <2>2. PICK a \in Block \cup {Nil} : a = table[c][l]
      BY DEF Consistent, TypeOK
    <2>3. Contents(a)' = Contents(a)
      BY <1>1, UntouchedKeeps DEF Keeps
    <2>4. Backing(c, l) = a /\ Backing(c, l)' = a
      BY <1>4, <2>1, <2>2
    <2> QED BY <1>4, <2>3, <2>4 DEF Reads
  <1> QED BY <1>5, <1>6

\* Until the copy has its contents, the logical block reads from the old block.
LEMMA RemapIsUnseen ==
    ASSUME Consistent, Counted, NEW n \in Block, CowRemap(n)
    PROVE  MemoryStep
  <1>1. PICK s \in Block : s = Current
    BY AccessFacts DEF CowRemap, InStage
  <1>2. /\ call.stage = "prepare" /\ refs[n] = 0 /\ call.ctx \in Ctx /\ call.lvid \in Lvid
        /\ UNCHANGED <<live, handles, l1, l2, mem>>
        /\ meta' = [meta EXCEPT ![n] = [FreshMeta EXCEPT !.tier = "L2"]]
        /\ table' = [table EXCEPT ![call.ctx][call.lvid] = n]
        /\ call' = [At("clone") EXCEPT !.src = s]
    BY <1>1, AccessFacts DEF CowRemap, InStage, FreeBlocks, pools
  <1>3. /\ call'.stage = "clone" /\ call'.ctx = call.ctx /\ call'.lvid = call.lvid
        /\ call'.src = s
    BY <1>2 DEF At, Consistent, TypeOK, Call
  <1> SUFFICES ASSUME NEW c \in Ctx, NEW l \in Lvid, c \in live
               PROVE  Reads(c, l)' = Reads(c, l)
    BY <1>2, SameLogical, SameWriting DEF MemoryStep
  <1>4. /\ ~NotYetAllocated(c, l) /\ ~NotYetAllocated(c, l)'
        /\ Backing(c, l) = table[c][l]
    BY <1>2, <1>3 DEF NotYetAllocated, Backing
  <1>5. Backing(c, l)' = table[c][l]
    <2>1. CASE c = call.ctx /\ l = call.lvid
      BY <1>1, <1>3, <2>1 DEF Backing, Current
    <2>2. CASE ~(c = call.ctx /\ l = call.lvid)
      <3>1. table'[c][l] = table[c][l]
        BY <1>2, <2>2 DEF Consistent, TypeOK
      <3> QED BY <1>3, <2>2, <3>1 DEF Backing
    <2> QED BY <2>1, <2>2
  <1>6. CASE table[c][l] = Nil
    BY <1>4, <1>5, <1>6 DEF Reads
  <1>7. CASE table[c][l] # Nil
    <2>1. PICK b \in Block : b = table[c][l] /\ refs[b] > 0
      BY <1>7, NamedInUse
    <2>2. b # n
      BY <1>2, <2>1
    <2>3. meta'[b] = meta[b]
      BY <1>2, <2>2 DEF Consistent, TypeOK
    <2>4. Keeps(b)
      BY <1>2, <2>3, UntouchedKeeps
    <2>5. Reads(c, l) = Contents(b) /\ Reads(c, l)' = Contents(b)'
      BY <1>4, <1>5, <1>7, <2>1 DEF Reads
    <2> QED BY <2>4, <2>5 DEF Keeps
  <1> QED BY <1>6, <1>7

\* CloneBlockDataForCow finds the contents of the source wherever they are.
LEMMA SourceIsContents ==
    ASSUME Consistent, AllThrough, NEW b \in Block
    PROVE  CloneSource(b) = Contents(b)
  <1>1. /\ meta[b].resident => meta[b].tier = "L1"
        /\ l1[b] # Nil => meta[b].resident
        /\ meta[b].resident /\ l1[b] = Nil => l2[b] = Nil
    BY DEF Consistent, TestTiersAgree, AllThrough, Through
  <1> QED BY <1>1 DEF CloneSource, Contents, L1Data, L2Data

\* The facts the two ends of a copy share
LEMMA CloneFacts ==
    ASSUME Consistent, Counted, Alone, CallStep, call.stage = "clone"
    PROVE  /\ call.ctx \in Ctx /\ call.lvid \in Lvid /\ Current \in Block /\ call.src \in Block
           /\ ~meta[Current].resident /\ l1[Current] = Nil
           /\ Plain'
           /\ \A c \in Ctx, l \in Lvid :
                 /\ Reads(c, l) = IF c = call.ctx /\ l = call.lvid THEN Contents(call.src)
                                  ELSE IF table[c][l] = Nil THEN Nil ELSE Contents(table[c][l])
                 /\ ~(c = call.ctx /\ l = call.lvid) => table[c][l] # Current
  <1>1. /\ call.ctx \in Ctx /\ call.lvid \in Lvid /\ Current \in Block
        /\ call.src \in Block /\ ~meta[Current].resident
    <2>1. Current \in Block /\ meta[Current].tier = "L2"
      BY AccessFacts DEF AccessConsistent
    <2> QED BY <2>1, AccessFacts DEF AccessConsistent, Consistent, TestTiersAgree
  <1>2. l1[Current] = Nil
    BY <1>1 DEF Consistent, TestTiersAgree
  <1>3. Plain'
    BY CallStaysPlain DEF CowRemap, InStage
  <1>4. refs[Current] = 1
    BY DEF Alone, AloneBeforeWriting, OwnsForWriting
  <1>5. ASSUME NEW c \in Ctx, NEW l \in Lvid, ~(c = call.ctx /\ l = call.lvid)
        PROVE  table[c][l] # Current
    BY <1>1, <1>4, <1>5, NamedOnce DEF Current
  <1>6. ASSUME NEW c \in Ctx, NEW l \in Lvid
        PROVE  Reads(c, l) = IF c = call.ctx /\ l = call.lvid THEN Contents(call.src)
                             ELSE IF table[c][l] = Nil THEN Nil ELSE Contents(table[c][l])
    <2>1. ~NotYetAllocated(c, l) /\ call.src # Nil
      BY <1>1, NilAssumption DEF NotYetAllocated
    <2> QED BY <2>1 DEF Reads, Backing
  <1> QED BY <1>1, <1>2, <1>3, <1>5, <1>6

\* In a plain stage a logical block reads from its entry.
LEMMA PlainReads ==
    /\ Plain => \A c \in Ctx, l \in Lvid :
          Reads(c, l) = IF table[c][l] = Nil THEN Nil ELSE Contents(table[c][l])
    /\ Plain' => \A c \in Ctx, l \in Lvid :
          Reads(c, l)' = IF table'[c][l] = Nil THEN Nil ELSE Contents(table[c][l])'
  BY DEF Reads, Plain, NotYetAllocated, Backing

\* The copy reads as the source did.
LEMMA CloneIsUnseen ==
    ASSUME Consistent, Counted, AllThrough, Alone, CallStep, CloneBlockData
    PROVE  MemoryStep
  <1>1. call.stage = "clone"
    BY DEF CloneBlockData, InStage
  <1>2. PICK n \in Block, s \in Block : n = Current /\ s = call.src
    BY <1>1, CloneFacts
  <1>3. /\ UNCHANGED <<live, table, handles, mem>>
        /\ l2' = [l2 EXCEPT ![n] = CloneSource(s)] /\ l1' = [l1 EXCEPT ![n] = Nil]
        /\ meta' = [meta EXCEPT ![n].backed = TRUE]
    BY <1>2 DEF CloneBlockData, names
  <1>4. \A b \in Block : meta'[b].resident = meta[b].resident
    BY <1>3 DEF Consistent, TypeOK, Meta
  <1>5. \A b \in Block \ {n} : Keeps(b)
    <2>1. \A b \in Block \ {n} : l1'[b] = l1[b] /\ l2'[b] = l2[b]
      BY <1>3 DEF Consistent, TypeOK
    <2> QED BY <1>3, <1>4, <2>1, UntouchedKeeps
  <1>6. Contents(n)' = Contents(s)
    <2>1. ~meta'[n].resident
      BY <1>1, <1>2, <1>4, CloneFacts
    <2>2. l2'[n] = CloneSource(s) /\ CloneSource(s) = Contents(s) /\ Contents(s) # Nil
      BY <1>3, SourceIsContents, ContentsAreValues DEF Consistent, TypeOK
    <2> QED BY <2>1, <2>2 DEF Contents, L2Data
  <1> SUFFICES ASSUME NEW c \in Ctx, NEW l \in Lvid, c \in live
               PROVE  Reads(c, l)' = Reads(c, l)
    BY <1>3, SameLogical, SameWriting DEF MemoryStep
  <1>7. PICK b \in Block \cup {Nil} : b = table[c][l]
    BY DEF Consistent, TypeOK
  <1>8. Reads(c, l)' = IF b = Nil THEN Nil ELSE Contents(b)'
    BY <1>1, <1>3, <1>7, CloneFacts, PlainReads
  <1>9. CASE c = call.ctx /\ l = call.lvid
    <2>1. b = n /\ n # Nil /\ Reads(c, l) = Contents(s)
      BY <1>1, <1>2, <1>7, <1>9, CloneFacts, NilAssumption DEF Current
    <2> QED BY <1>6, <1>8, <2>1
  <1>10. CASE ~(c = call.ctx /\ l = call.lvid)
    <2>1. b # n /\ Reads(c, l) = IF b = Nil THEN Nil ELSE Contents(b)
      BY <1>1, <1>2, <1>7, <1>10, CloneFacts
    <2> QED BY <1>5, <1>7, <1>8, <2>1 DEF Keeps
  <1> QED BY <1>9, <1>10

\* One logical block reads differently.
LEMMA OneReadChanges ==
    ASSUME live' = live, NEW c \in Ctx, c \in live, NEW l \in Lvid, NEW v, Reads(c, l)' = v,
           \A d \in Ctx, k \in Lvid :
              d \in live /\ ~(d = c /\ k = l) => Reads(d, k)' = Reads(d, k)
    PROVE  Logical' = [Logical EXCEPT ![c][l] = v]
  <1> DEFINE old(d) == IF d \notin live THEN Nil ELSE [k \in Lvid |-> Reads(d, k)]
             new(d) == IF d \notin live' THEN Nil ELSE [k \in Lvid |-> Reads(d, k)']
  <1>1. Logical = [d \in Ctx |-> old(d)] /\ Logical' = [d \in Ctx |-> new(d)]
    BY LogicalReads
  <1>2. new(c) = [old(c) EXCEPT ![l] = v]
    OBVIOUS
  <1>3. \A d \in Ctx \ {c} : new(d) = old(d)
    OBVIOUS
  <1> HIDE DEF old, new
  <1> QED BY <1>1, <1>2, <1>3

\* A logical block that reads as something is allocated.
LEMMA ReadsAllocated ==
    ASSUME Consistent, NEW c \in Ctx, NEW l \in Lvid, c \in live, Reads(c, l) # Nil
    PROVE  Memory!Allocated(c, l)
  BY LogicalBlocks DEF Memory!Allocated, Memory!Live

\* A copy that found no page loses one logical block, and only that.
LEMMA LostCopyIsSeen ==
    ASSUME Consistent, Counted, Alone, Prepares, CallStep, CloneFails
    PROVE  MemoryStep
  <1>1. call.stage = "clone" /\ UNCHANGED <<live, table, handles, meta, l1, l2, mem>>
    BY DEF CloneFails, InStage, names, blocks, pools
  <1>2. PICK c \in Ctx, l \in Lvid : c = call.ctx /\ l = call.lvid
    BY <1>1, CloneFacts
  <1>3. PICK n \in Block, s \in Block : n = Current /\ s = call.src
    BY <1>1, CloneFacts
  <1>4. c \in live
    BY <1>2, NilAssumption DEF Counted, CallerLives
  <1>5. \A b \in Block : Keeps(b)
    BY <1>1, UntouchedKeeps
  <1>6. Contents(n)' = Zero
    <2>1. ~meta[n].resident /\ l2[n] = Nil
      BY <1>1, <1>3, CloneFacts DEF Prepares, CopyPending
    <2>2. ~meta'[n].resident /\ l2'[n] = Nil
      BY <1>1, <2>1
    <2> QED BY <2>2 DEF Contents, L2Data
  <1>7. table[c][l] = n /\ n # Nil
    BY <1>2, <1>3, NilAssumption DEF Current
  <1>8. Reads(c, l)' = Zero
    <2>1. Reads(c, l)' = IF table[c][l] = Nil THEN Nil ELSE Contents(table[c][l])'
      BY <1>1, CloneFacts, PlainReads
    <2>2. PICK b \in Block : b = table[c][l] /\ b = n
      BY <1>7
    <2>3. Reads(c, l)' = Contents(n)'
      BY <1>1, <1>7, <2>1, <2>2
    <2> QED BY <1>6, <2>3
  <1>9. ASSUME NEW d \in Ctx, NEW k \in Lvid, d \in live, ~(d = c /\ k = l)
        PROVE  Reads(d, k)' = Reads(d, k)
    <2>1. PICK b \in Block \cup {Nil} : b = table[d][k]
      BY DEF Consistent, TypeOK
    <2>2. Reads(d, k)' = IF b = Nil THEN Nil ELSE Contents(b)'
      BY <1>1, <2>1, CloneFacts, PlainReads
    <2>3. Reads(d, k) = IF b = Nil THEN Nil ELSE Contents(b)
      BY <1>1, <1>2, <1>9, <2>1, CloneFacts
    <2> QED BY <1>5, <2>1, <2>2, <2>3 DEF Keeps
  <1>10. Logical' = [Logical EXCEPT ![c][l] = Zero]
    BY <1>1, <1>4, <1>8, <1>9, OneReadChanges
  <1>11. Memory!Allocated(c, l)
    <2>1. Reads(c, l) = Contents(s)
      BY <1>1, <1>2, <1>3, CloneFacts
    <2> QED BY <1>4, <2>1, ContentsAreValues, ReadsAllocated
  <1>12. LosesCopy(c, l) /\ Memory!Replace(c, l)
    BY <1>1, <1>2, <1>10, <1>11, SameWriting DEF LosesCopy, Memory!Replace
  <1> QED BY <1>12 DEF MemoryStep

\* An evicted block is read from L2 as it was from L1.
LEMMA EvictIsUnseen ==
    ASSUME Consistent, Counted, CallStep, NEW v \in Block, EvictVictim(v)
    PROVE  MemoryStep
  <1>1. /\ call.stage = "ensure" /\ UNCHANGED <<live, table, handles, mem, call>>
        /\ l2' = [l2 EXCEPT ![v] = L1Data(v)] /\ l1' = [l1 EXCEPT ![v] = Nil]
        /\ meta' = [meta EXCEPT ![v] =
                       [@ EXCEPT !.resident = FALSE, !.tier = "L2", !.backed = TRUE]]
        /\ meta[v].resident
    BY DEF EvictVictim, NeedsRoom, InStage, IsVictim, Evictable, names
  <1>2. meta'[v].resident = FALSE /\ l2'[v] = L1Data(v) /\ L1Data(v) # Nil
    BY <1>1, DataIsValue, NilAssumption DEF Consistent, TypeOK, Meta
  <1>3. Keeps(v)
    BY <1>1, <1>2 DEF Keeps, Contents, L2Data
  <1>4. \A b \in Block \ {v} : Keeps(b)
    <2>1. \A b \in Block \ {v} : meta'[b] = meta[b] /\ l1'[b] = l1[b] /\ l2'[b] = l2[b]
      BY <1>1 DEF Consistent, TypeOK
    <2> QED BY <1>1, <2>1, UntouchedKeeps
  <1> QED BY <1>1, <1>3, <1>4, PlainStays, SameWriting DEF Plain, MemoryStep

\* A promoted block is read from L1 as it was from L2.
LEMMA PromoteIsUnseen ==
    ASSUME Consistent, Counted, CallStep, NEW p \in Page, Promote(p)
    PROVE  MemoryStep
  <1>1. PICK b \in Block : b = Current
    BY AccessFacts DEF Promote, InStage
  <1>2. /\ call.stage = "ensure" /\ UNCHANGED <<live, table, handles, l2>>
        /\ p \in L1PageFor(b) /\ l1' = [l1 EXCEPT ![b] = p] /\ mem' = [mem EXCEPT ![p] = L2Data(b)]
        /\ meta' = [meta EXCEPT ![b].resident = TRUE, ![b].tier = "L1"] /\ ~meta[b].resident
    BY <1>1 DEF Promote, InStage, names
  <1>3. p # Nil /\ \A a \in Block \ {b} : l1[a] # p
    BY <1>2, PageIsOwn
  <1>4. meta'[b].resident /\ l1'[b] = p /\ mem'[p] = L2Data(b)
    BY <1>2 DEF Consistent, TypeOK, Meta
  <1>5. Keeps(b)
    BY <1>2, <1>3, <1>4 DEF Keeps, Contents, L1Data
  <1>6. \A a \in Block \ {b} : Keeps(a)
    <2>1. \A a \in Block \ {b} : /\ meta'[a] = meta[a] /\ l1'[a] = l1[a] /\ l2'[a] = l2[a]
                                 /\ l1[a] # Nil => mem'[l1[a]] = mem[l1[a]]
      BY <1>2, <1>3 DEF Consistent, TypeOK
    <2> QED BY <2>1, UntouchedKeeps
  <1>7. Plain /\ Plain'
    BY <1>2, CallStaysPlain DEF Plain, CowRemap, InStage
  <1> QED BY <1>2, <1>5, <1>6, <1>7, PlainStays, SameWriting DEF MemoryStep

\* Pinning leaves the contents alone, and opens the block when it is for writing.
LEMMA PinIsSeen ==
    ASSUME Consistent, Counted, MappingsExact, CallStep, NEW p \in Page, Pin(p)
    PROVE  MemoryStep
  <1>1. /\ AccessConsistent /\ call.op = "map" /\ call.stage = "pin"
        /\ call.ctx \in Ctx /\ call.lvid \in Lvid
    BY AccessFacts DEF Pin, InStage, AccessConsistent
  <1>2. PICK b \in Block, c \in Ctx, l \in Lvid, h \in Handle :
           b = Current /\ c = call.ctx /\ l = call.lvid /\ h = call.handle /\ meta[b].resident
    BY <1>1 DEF AccessConsistent
  <1> DEFINE m == [ctx |-> c, lvid |-> l, block |-> b, page |-> p, write |-> call.write]
  <1>3. /\ UNCHANGED <<live, table, l2>>
        /\ p \in L1PageFor(b) /\ l1' = [l1 EXCEPT ![b] = p] /\ mem' = [mem EXCEPT ![p] = L1Data(b)]
        /\ meta' = [meta EXCEPT ![b].pins = @ + 1]
        /\ handles' = [handles EXCEPT ![h] = m] /\ handles[h] = Nil /\ h \in Handle
    BY <1>1, <1>2 DEF Pin, InStage, names, MappingsExact, HandleIsFree
  <1>4. p # Nil /\ \A a \in Block \ {b} : l1[a] # p
    BY <1>3, PageIsOwn
  <1>5. meta'[b].resident /\ l1'[b] = p /\ mem'[p] = L1Data(b)
    BY <1>2, <1>3 DEF Consistent, TypeOK, Meta
  <1>6. Keeps(b)
    BY <1>2, <1>4, <1>5 DEF Keeps, Contents, L1Data
  <1>7. \A a \in Block \ {b} : Keeps(a)
    <2>1. \A a \in Block \ {b} : /\ meta'[a] = meta[a] /\ l1'[a] = l1[a] /\ l2'[a] = l2[a]
                                 /\ l1[a] # Nil => mem'[l1[a]] = mem[l1[a]]
      BY <1>3, <1>4 DEF Consistent, TypeOK
    <2> QED BY <2>1, UntouchedKeeps
  <1>8. Plain /\ Plain'
    BY <1>1, CallStaysPlain DEF Plain, CowRemap, InStage
  <1>9. Logical' = Logical
    BY <1>3, <1>6, <1>7, <1>8, PlainStays
  <1>10. m # Nil /\ m.write = call.write /\ m.ctx = c /\ m.lvid = l
    <2>1. m \in Mapping
      BY DEF Mapping, Consistent, TypeOK, Call
    <2> QED BY <2>1, NilIsNothing
  <1> HIDE DEF m
  <1>11. \A g \in Handle : handles'[g] = IF g = h THEN m ELSE handles[g]
    BY <1>3 DEF Consistent, TypeOK
  <1>12. CASE call.write
    <2>1. Writing' = Writing \cup {c} \X {l}
      <3>1. \A x : x \in Writing' <=> x \in Writing \/ x = <<c, l>>
        BY <1>3, <1>10, <1>11, <1>12 DEF Writing
      <3>2. \A x : x \in {c} \X {l} <=> x = <<c, l>>
        OBVIOUS
      <3> QED BY <3>1, <3>2
    <2>2. Memory!Allocated(c, l)
      <3>1. c \in live
        BY <1>2, NilAssumption DEF Counted, CallerLives
      <3>2. table[c][l] = b
        BY <1>2 DEF Current
      <3>3. Reads(c, l) = Contents(b)
        BY <1>8, <3>2, PlainReads, NilAssumption
      <3> QED BY <3>1, <3>3, ContentsAreValues, ReadsAllocated
    <2>3. Memory!Open(c, {l})
      BY <1>9, <2>1, <2>2 DEF Memory!Open
    <2>4. {l} \in SUBSET Lvid
      OBVIOUS
    <2> QED BY <2>3, <2>4 DEF Memory!Next, MemoryStep
  <1>13. CASE ~call.write
    <2>1. Writing' = Writing
      <3>1. \A x : x \in Writing' <=> x \in Writing
        BY <1>3, <1>10, <1>11, <1>13 DEF Writing, Consistent, TypeOK, Call
      <3> QED BY <3>1
    <2> QED BY <1>9, <2>1 DEF MemoryStep
  <1> QED BY <1>12, <1>13

\* The blocks of an allocation appear together, as zeroes, with the last of them.
LEMMA RegisterIsSeen ==
    ASSUME Consistent, Counted, Prepares, RegisterInL1 \/ RegisterInL2
    PROVE  MemoryStep
  <1>1. /\ Registering /\ AllocationConsistent /\ call.op = "allocate" /\ call.stage = "register"
        /\ Clean(Current) /\ l1' = l1 /\ l2' = l2
        /\ UNCHANGED <<live, table, mem, handles>>
    BY RegisteringFacts DEF RegisterInL1, RegisterInL2, names
  <1>2. PICK b \in Block, c \in Ctx, l \in Lvid : b = Current /\ c = call.ctx /\ l = call.lvid
    BY <1>1, RegisteringFacts DEF AllocationConsistent, Consistent, TypeOK, Call
  <1>3. PICK m : meta' = [meta EXCEPT ![b] = m]
    BY <1>2 DEF RegisterInL1, RegisterInL2
  <1>4. \A a \in Block : Keeps(a)
    <2>1. l1[b] = Nil /\ l2[b] = Nil
      BY <1>1, <1>2 DEF Clean
    <2>2. Keeps(b)
      BY <1>1, <2>1 DEF Keeps, Contents, L1Data, L2Data
    <2>3. \A a \in Block \ {b} : meta'[a] = meta[a]
      BY <1>3 DEF Consistent, TypeOK
    <2> QED BY <1>1, <2>2, <2>3, UntouchedKeeps
  <1>5. \A d \in Ctx, k \in Lvid :
           Reads(d, k) = IF (d = c /\ call.base <= k) \/ table[d][k] = Nil
                            THEN Nil ELSE Contents(table[d][k])
    BY <1>1, <1>2 DEF Reads, NotYetAllocated, Backing
  <1>6. CASE call' # Idle
    <2>1. call' = [call EXCEPT !.lvid = @ + 1]
      BY <1>1, <1>6 DEF Registering
    <2>2. call'.stage = "register" /\ call'.ctx = c /\ call'.base = call.base
      BY <1>1, <1>2, <2>1 DEF Consistent, TypeOK, Call
    <2> SUFFICES ASSUME NEW d \in Ctx, NEW k \in Lvid, d \in live
                 PROVE  Reads(d, k)' = Reads(d, k)
      BY <1>1, SameLogical, SameWriting DEF MemoryStep
    <2>3. PICK a \in Block \cup {Nil} : a = table[d][k]
      BY DEF Consistent, TypeOK
    <2>4. Reads(d, k)' = IF (d = c /\ call.base <= k) \/ a = Nil THEN Nil ELSE Contents(a)'
      BY <1>1, <2>2, <2>3 DEF Reads, NotYetAllocated, Backing
    <2> QED BY <1>4, <1>5, <2>3, <2>4 DEF Keeps
  <1>7. CASE call' = Idle
    <2> DEFINE S == {k \in Lvid : call.base <= k /\ k < call.goal}
    <2>1. call.lvid + 1 = call.goal /\ size[c] = call.goal /\ call.base \in Nat
          /\ call.lvid \in Nat /\ \A k \in Lvid : k \in Nat
      <3>1. call.stage # "idle"
        BY <1>1
      <3>2. [call EXCEPT !.lvid = @ + 1] # Idle
        <4>1. [call EXCEPT !.lvid = @ + 1].stage = "register" /\ Idle.stage = "idle"
          BY <1>1 DEF Consistent, TypeOK, Call, Idle
        <4> QED BY <4>1
      <3>3. call.lvid + 1 = call.goal
        BY <1>1, <1>7, <3>2 DEF Registering
      <3> QED BY <1>1, <1>2, <3>3 DEF AllocationConsistent, Consistent, TypeOK, Call, Lvid
    <2>2. c \in live
      BY <1>2, NilAssumption DEF Counted, CallerLives
    <2>3. Plain'
      BY <1>7 DEF Plain, Idle
    <2>4. ASSUME NEW d \in Ctx, NEW k \in Lvid
          PROVE  Reads(d, k)' = IF d = c /\ k \in S THEN Zero ELSE Reads(d, k)
      <3>1. PICK a \in Block \cup {Nil} : a = table[d][k]
        BY DEF Consistent, TypeOK
      <3>2. Reads(d, k)' = IF a = Nil THEN Nil ELSE Contents(a)'
        BY <1>1, <2>3, <3>1, PlainReads
      <3>3. CASE d = c /\ k \in S
        <4>1. a \in Block /\ l1[a] = Nil /\ l2[a] = Nil
          <5>1. CASE k = l
            BY <1>1, <1>2, <3>1, <3>3, <5>1 DEF Clean, Current
          <5>2. CASE k < call.lvid
            BY <1>1, <1>2, <3>1, <3>3, <5>2 DEF Prepares, NewAreBlank
          <5> QED BY <1>2, <2>1, <3>3, <5>1, <5>2
        <4>2. Contents(a) = Zero
          BY <4>1 DEF Contents, L1Data, L2Data
        <4> QED BY <1>4, <3>2, <3>3, <4>1, <4>2, NilAssumption DEF Keeps
      <3>4. CASE d = c /\ k \notin S /\ call.base <= k
        <4>1. a = Nil
          BY <2>1, <3>1, <3>4 DEF Counted, TablesTidy
        <4> QED BY <1>5, <3>1, <3>2, <3>4, <4>1
      <3>5. CASE d # c \/ ~(call.base <= k)
        BY <1>4, <1>5, <3>1, <3>2, <3>5 DEF Keeps
      <3> QED BY <3>3, <3>4, <3>5
    <2>5. Logical' = [Logical EXCEPT ![c] =
                         [k \in Lvid |-> IF k \in S THEN Zero ELSE Logical[c][k]]]
      <3>1. Logical[c] = [k \in Lvid |-> Reads(c, k)]
        BY <2>2, LogicalReads
      <3>2. Logical' = [d \in Ctx |-> IF d \notin live THEN Nil ELSE
                          [k \in Lvid |-> IF d = c /\ k \in S THEN Zero ELSE Reads(d, k)]]
        BY <1>1, <2>4, LogicalReads
      <3> HIDE DEF S
      <3> QED BY <2>2, <3>1, <3>2, LogicalReads
    <2>6. \A k \in S : ~Memory!Allocated(c, k)
      BY <1>5, <2>2, LogicalBlocks DEF Memory!Allocated
    <2>7. Memory!Live(c)
      BY <2>2, LogicalBlocks DEF Memory!Live
    <2>8. Memory!Grow(c, S)
      BY <1>1, <2>5, <2>6, <2>7, SameWriting DEF Memory!Grow
    <2>9. S \in SUBSET Lvid
      OBVIOUS
    <2> HIDE DEF S
    <2> QED BY <2>8, <2>9 DEF Memory!Next, MemoryStep
  <1> QED BY <1>6, <1>7

\* A store is seen in the one logical block it was meant for.
LEMMA StoreIsSeen ==
    ASSUME Consistent, Disciplined, NEW h \in Handle, NEW v \in Value, HostWrite(h, v)
    PROVE  MemoryStep
  <1>1. PICK b \in Block, c \in Ctx, l \in Lvid, p \in Page :
           handles[h].block = b /\ handles[h].ctx = c /\ handles[h].lvid = l /\ handles[h].page = p
    BY MappingFacts DEF Mapping, HostWrite, Disciplined
  <1>2. /\ handles[h] # Nil /\ handles[h].write /\ mem' = [mem EXCEPT ![p] = v]
        /\ UNCHANGED <<live, table, meta, l1, l2, handles, call>>
    BY <1>1 DEF HostWrite, names, blocks
  <1>3. c \in live /\ table[c][l] = b /\ l1[b] = p /\ p # Nil /\ meta[b].resident
    BY <1>1, <1>2, MappingFacts, WriterFacts DEF Disciplined, Steady
  <1>4. refs[b] = 1
    BY <1>1, <1>2 DEF Disciplined, Steady, Alone, WritersAreAlone
  <1>5. \A a \in Block \ {b} : Keeps(a)
    <2>1. \A a \in Block \ {b} : l1[a] # p
      BY <1>3 DEF Consistent, TestTiersAgree
    <2>2. \A a \in Block \ {b} : l1[a] # Nil => mem'[l1[a]] = mem[l1[a]]
      BY <1>2, <2>1 DEF Consistent, TypeOK
    <2> QED BY <1>2, <2>2, UntouchedKeeps
  <1>6. Contents(b)' = v
    BY <1>2, <1>3 DEF Contents, L1Data, Consistent, TypeOK
  <1>7. \A d \in Ctx, k \in Lvid : /\ NotYetAllocated(d, k)' <=> NotYetAllocated(d, k)
                                   /\ Backing(d, k)' = Backing(d, k)
    BY <1>2 DEF NotYetAllocated, Backing
  <1>8. Backing(c, l) = b
    <2>1. CASE call.stage = "clone" /\ call.ctx = c /\ call.lvid = l
      <3>1. Current \in Block /\ meta[Current].tier = "L2"
        BY <2>1, AccessFacts DEF AccessConsistent
      <3>2. ~meta[Current].resident
        BY <3>1 DEF Consistent, TestTiersAgree
      <3> QED BY <1>3, <2>1, <3>2 DEF Current
    <2>2. CASE ~(call.stage = "clone" /\ call.ctx = c /\ call.lvid = l)
      BY <1>3, <2>2 DEF Backing
    <2> QED BY <2>1, <2>2
  <1>9. ~NotYetAllocated(c, l)
    <2> SUFFICES ASSUME call.stage \in {"grow", "register"}, call.ctx = c, call.base <= l
                 PROVE  FALSE
      BY DEF NotYetAllocated
    <2>1. call.op = "allocate" /\ AllocationConsistent /\ call.lvid \in Nat /\ l \in Nat
      BY DEF Consistent, TypeOK, Call, Op, Lvid, CallConsistent, AccessConsistent
    <2>2. l < size[c]
      BY <1>3, NilAssumption DEF Disciplined, Counted, TablesTidy
    <2>3. CASE call.lvid <= l
      <3>1. l \in Pending
        BY <2>2, <2>3 DEF Pending
      <3> QED BY <1>3, <2>1, <3>1 DEF AllocationConsistent, Clean
    <2>4. CASE l < call.lvid
      BY <1>3, <2>1, <2>4 DEF Disciplined, Prepares, NewAreBlank
    <2> QED BY <2>1, <2>3, <2>4
  <1>10. Reads(c, l)' = v /\ Reads(c, l) # Nil
    <2>1. b # Nil /\ Contents(b) # Nil
      BY NilAssumption, ContentsAreValues
    <2>2. Backing(c, l)' = b /\ ~NotYetAllocated(c, l)'
      BY <1>7, <1>8, <1>9
    <2> QED BY <1>6, <1>8, <1>9, <2>1, <2>2 DEF Reads
  <1>11. ASSUME NEW d \in Ctx, NEW k \in Lvid, d \in live, ~(d = c /\ k = l)
         PROVE  Reads(d, k)' = Reads(d, k)
    <2>1. PICK a \in Block \cup {Nil} : a = Backing(d, k)
      BY DEF Backing, Consistent, TypeOK, Call
    <2>2. a # b
      <3>1. CASE call.stage = "clone" /\ call.ctx = d /\ call.lvid = k
        <4>1. a = call.src /\ ~BeingWritten(call.src)
          BY <2>1, <3>1 DEF Backing, Disciplined, Prepares, CopyPending
        <4>2. BeingWritten(b)
          BY <1>1, <1>2 DEF BeingWritten
        <4> QED BY <4>1, <4>2
      <3>2. CASE ~(call.stage = "clone" /\ call.ctx = d /\ call.lvid = k)
        <4>1. a = table[d][k]
          BY <2>1, <3>2 DEF Backing
        <4> QED BY <1>3, <1>4, <1>11, <4>1, NamedOnce DEF Disciplined
      <3> QED BY <3>1, <3>2
    <2>3. Reads(d, k) = IF NotYetAllocated(d, k) \/ a = Nil THEN Nil ELSE Contents(a)
      BY <2>1 DEF Reads
    <2>4. Reads(d, k)' = IF NotYetAllocated(d, k) \/ a = Nil THEN Nil ELSE Contents(a)'
      <3>1. Backing(d, k)' = a
        BY <1>7, <2>1
      <3> QED BY <1>7, <3>1 DEF Reads
    <2> QED BY <1>5, <2>1, <2>2, <2>3, <2>4 DEF Keeps
  <1>12. Logical' = [Logical EXCEPT ![c][l] = v]
    BY <1>2, <1>3, <1>10, <1>11, OneReadChanges
  <1>13. Memory!Allocated(c, l)
    BY <1>3, <1>10, ReadsAllocated
  <1>14. <<c, l>> \in Writing
    BY <1>1, <1>2 DEF Writing
  <1>15. Memory!Write(c, l, v)
    BY <1>2, <1>12, <1>13, <1>14, SameWriting DEF Memory!Write
  <1> QED BY <1>15 DEF Memory!Next, MemoryStep

\* Unmapping changes no contents, and closes what it leaves without a writer.
LEMMA UnmapIsSeen ==
    ASSUME Consistent, Disciplined, NEW h \in Handle, UnmapLogicalBlock(h)
    PROVE  MemoryStep
  <1>1. handles[h] # Nil
    BY DEF UnmapLogicalBlock, CanUnmap
  <1>2. PICK b \in Block, c \in Ctx, l \in Lvid :
           handles[h].block = b /\ handles[h].ctx = c /\ handles[h].lvid = l
    BY <1>1, MappingFacts DEF Mapping, Disciplined
  <1>3. /\ UNCHANGED <<live, table, l1, mem>> /\ handles' = [handles EXCEPT ![h] = Nil]
        /\ call.stage = "idle" /\ call' = Idle
        /\ UnmapRead(b) \/ UnmapWrite(b) \/ UnmapWriteFails(b) \/ UnmapWriteEvicted(b)
    BY <1>2 DEF UnmapLogicalBlock, Unmap, Starts, names
  <1>4. meta[b] \in Meta
    BY DEF Consistent, TypeOK
  <1>5. meta'[b].resident = meta[b].resident
    <2>1. /\ Unpinned(b).resident = meta[b].resident
          /\ [Unpinned(b) EXCEPT !.dirty = TRUE].resident = meta[b].resident
          /\ [Unpinned(b) EXCEPT !.dirty = FALSE, !.backed = TRUE].resident = meta[b].resident
      BY <1>4 DEF Unpinned, Meta
    <2> QED BY <1>3, <2>1 DEF UnmapRead, UnmapWrite, UnmapWriteFails, UnmapWriteEvicted,
                              Consistent, TypeOK
  <1>6. Keeps(b)
    <2>1. CASE handles[h].write
      <3>1. meta[b].resident /\ l1[b] # Nil
        BY <1>1, <1>2, <2>1, WriterFacts DEF Disciplined, Steady
      <3> QED BY <1>3, <1>5, <3>1 DEF Keeps, Contents, L1Data
    <2>2. CASE ~handles[h].write
      <3>1. l2' = l2
        BY <1>2, <2>2 DEF UnmapLogicalBlock, Unmap, UnmapRead
      <3> QED BY <1>3, <1>5, <3>1, UntouchedKeeps
    <2> QED BY <2>1, <2>2
  <1>7. \A a \in Block \ {b} : Keeps(a)
    <2>1. \A a \in Block \ {b} : meta'[a] = meta[a] /\ l2'[a] = l2[a]
      BY <1>3 DEF UnmapRead, UnmapWrite, UnmapWriteFails, UnmapWriteEvicted, Consistent, TypeOK
    <2> QED BY <1>3, <2>1, UntouchedKeeps
  <1>8. Logical' = Logical
    <2>1. Plain /\ Plain'
      BY <1>3 DEF Plain, Idle
    <2> QED BY <1>3, <1>6, <1>7, <2>1, PlainStays DEF Disciplined
  <1>9. \A g \in Handle : handles'[g] = IF g = h THEN Nil ELSE handles[g]
    BY <1>3 DEF Consistent, TypeOK
  <1>10. CASE <<c, l>> \in Writing'
    <2>1. \A x : x \in Writing' <=> x \in Writing
      BY <1>2, <1>9, <1>10 DEF Writing
    <2>2. Writing' = Writing
      BY <2>1
    <2> QED BY <1>8, <2>2 DEF MemoryStep
  <1>11. CASE <<c, l>> \notin Writing'
    <2>1. \A x : x \in Writing' <=> x \in Writing /\ x # <<c, l>>
      BY <1>2, <1>9, <1>11 DEF Writing
    <2>2. \A x : x \in {c} \X {l} <=> x = <<c, l>>
      OBVIOUS
    <2>3. Writing' = Writing \ ({c} \X {l})
      BY <2>1, <2>2
    <2>4. Memory!Close(c, {l}) /\ {l} \in SUBSET Lvid
      BY <1>8, <2>3 DEF Memory!Close
    <2> QED BY <2>4 DEF Memory!Next, MemoryStep
  <1> QED BY <1>10, <1>11

\* Contexts come empty, or as copies of their parents, and go with their memory.
LEMMA ContextIsSeen ==
    ASSUME Consistent, Disciplined, NEW c \in Ctx, NEW d \in Ctx,
           CreateContext(c) \/ DestroyContext(c) \/ ForkContext(c, d)
    PROVE  MemoryStep
  <1>1. UNCHANGED <<meta, l1, l2, mem, handles>> /\ call.stage = "idle"
        /\ call'.stage \in {"idle", "reclaim"}
    <2>1. CASE CreateContext(c) \/ ForkContext(c, d)
      BY <2>1 DEF CreateContext, ForkContext, Starts, Idle, blocks, pools
    <2>2. CASE DestroyContext(c)
      BY <2>2 DEF DestroyContext, Starts, Idle, blocks, pools
    <2> QED BY <2>1, <2>2
  <1>2. Plain /\ Plain'
    BY <1>1 DEF Plain
  <1>3. \A b \in Block : Keeps(b)
    BY <1>1, UntouchedKeeps
  <1>4. ASSUME NEW e \in Ctx, NEW f \in Ctx, table'[e] = table[f]
        PROVE  \A l \in Lvid : Reads(e, l)' = Reads(f, l)
    <2> SUFFICES ASSUME NEW l \in Lvid PROVE Reads(e, l)' = Reads(f, l)
      OBVIOUS
    <2>1. PICK b \in Block \cup {Nil} : b = table[f][l] /\ b = table'[e][l]
      BY <1>4 DEF Consistent, TypeOK
    <2>2. /\ Reads(f, l) = IF b = Nil THEN Nil ELSE Contents(b)
          /\ Reads(e, l)' = IF b = Nil THEN Nil ELSE Contents(b)'
      BY <1>2, <2>1, PlainReads
    <2> QED BY <1>3, <2>1, <2>2 DEF Keeps
  <1>5. Writing' = Writing
    BY <1>1, SameWriting
  <1>6. CASE CreateContext(c)
    <2>1. /\ c \notin live /\ live' = live \cup {c}
          /\ table' = [table EXCEPT ![c] = NoEntries]
      BY <1>6 DEF CreateContext
    <2>2. \A e \in Ctx \ {c} : table'[e] = table[e]
      BY <2>1 DEF Consistent, TypeOK
    <2>3. \A l \in Lvid : Reads(c, l)' = Nil
      <3>1. \A l \in Lvid : table'[c][l] = Nil
        BY <2>1 DEF NoEntries, Consistent, TypeOK
      <3> QED BY <1>2, <3>1, PlainReads
    <2>4. Logical' = [Logical EXCEPT ![c] = Memory!Empty]
      BY <1>4, <2>1, <2>2, <2>3, LogicalReads DEF Memory!Empty
    <2>5. Memory!Create(c)
      BY <1>5, <2>1, <2>4, NotLive DEF Memory!Create, Memory!Live
    <2> QED BY <2>5 DEF Memory!Next, MemoryStep
  <1>7. CASE DestroyContext(c)
    <2>1. /\ c \in live /\ live' = live \ {c}
          /\ table' = [table EXCEPT ![c] = NoEntries]
      BY <1>7 DEF DestroyContext
    <2>2. \A e \in Ctx \ {c} : table'[e] = table[e]
      BY <2>1 DEF Consistent, TypeOK
    <2>3. Logical' = [Logical EXCEPT ![c] = Nil]
      <3>1. ASSUME NEW e \in Ctx
            PROVE  Logical'[e] = IF e = c THEN Nil ELSE Logical[e]
        <4>1. CASE e = c
          BY <2>1, <4>1, LogicalReads
        <4>2. CASE e # c
          <5>1. \A l \in Lvid : Reads(e, l)' = Reads(e, l)
            BY <1>4, <2>2, <4>2
          <5>2. e \in live' <=> e \in live
            BY <2>1, <4>2
          <5> QED BY <4>2, <5>1, <5>2, LogicalReads
        <4> QED BY <4>1, <4>2
      <3> QED BY <3>1, LogicalReads
    <2>4. Memory!Destroy(c)
      BY <1>5, <2>1, <2>3, LogicalBlocks DEF Memory!Destroy, Memory!Live
    <2> QED BY <2>4 DEF Memory!Next, MemoryStep
  <1>8. CASE ForkContext(c, d)
    <2>1. /\ c \in live /\ d \notin live /\ live' = live \cup {d}
          /\ table' = [table EXCEPT ![d] = table[c]]
      BY <1>8 DEF ForkContext
    <2>2. table'[d] = table[c] /\ \A e \in Ctx \ {d} : table'[e] = table[e]
      BY <2>1 DEF Consistent, TypeOK
    <2>3. \A l \in Lvid : Reads(d, l)' = Reads(c, l)
      BY <1>4, <2>2
    <2>4. Logical[c] = [l \in Lvid |-> Reads(c, l)]
      BY <2>1, LogicalReads
    <2>5. Logical' = [Logical EXCEPT ![d] = Logical[c]]
      BY <1>4, <2>1, <2>2, <2>3, <2>4, LogicalReads
    <2>6. Memory!Fork(c, d)
      BY <1>5, <2>1, <2>5, LogicalBlocks, NotLive DEF Memory!Fork, Memory!Live
    <2> QED BY <2>6 DEF Memory!Next, MemoryStep
  <1> QED BY <1>6, <1>7, <1>8

\* Starting a call that has more stages changes nothing the host sees.
LEMMA StartingIsUnseen ==
    ASSUME Consistent, Disciplined, HostCall, UNCHANGED <<names, blocks, pools, handles>>
    PROVE  MemoryStep
  <1>1. Plain /\ Plain'
    BY HostCallStages DEF Plain
  <1>2. \A b \in Block : Keeps(b)
    BY UntouchedKeeps DEF blocks, pools
  <1> QED BY <1>1, <1>2, PlainStays, SameWriting DEF Disciplined, MemoryStep, names

\* No entry names a free block.
FreeUnnamed == \A b \in Block, c \in Ctx, l \in Lvid : refs[b] = 0 => table[c][l] # b

\* A release drops one logical block; what it scrubs, nobody else names.
LEMMA ReleaseIsSeen ==
    ASSUME Consistent, Disciplined, FreeUnnamed', NEW c \in Ctx, NEW l \in Lvid,
           ReleaseLogicalBlock(c, l)
    PROVE  MemoryStep
  <1>1. /\ c \in live /\ table[c][l] # Nil
        /\ call.stage = "idle" /\ call' = Idle /\ live' = live /\ handles' = handles
        /\ table' = [table EXCEPT ![c][l] = Nil]
    BY DEF ReleaseLogicalBlock, Resolves, Starts
  <1>2. PICK b \in Block : b = table[c][l] /\ refs[b] > 0
    BY <1>1, NamedInUse DEF Disciplined
  <1>3. refs' = [refs EXCEPT ![b] = Less(@, 1)] /\ Scrub(FreedByRelease(b))
    BY <1>2 DEF ReleaseLogicalBlock
  <1>4. \A a \in FreedByRelease(b) : a \in Block /\ refs'[a] = 0
    BY <1>3 DEF FreedByRelease, Less, Consistent, TypeOK
  <1>5. ASSUME NEW a \in Block, a \notin FreedByRelease(b) PROVE Keeps(a)
    <2>1. /\ meta'[a] = meta[a] /\ l1'[a] = l1[a] /\ l2'[a] = l2[a] /\ mem' = mem
      BY <1>3, <1>5 DEF Scrub
    <2> QED BY <2>1, UntouchedKeeps
  <1>6. Plain /\ Plain'
    BY <1>1 DEF Plain, Idle
  <1>7. Reads(c, l)' = Nil
    BY <1>1, <1>6, PlainReads DEF Consistent, TypeOK
  <1>8. ASSUME NEW d \in Ctx, NEW k \in Lvid, d \in live, ~(d = c /\ k = l)
        PROVE  Reads(d, k)' = Reads(d, k)
    <2>1. PICK a \in Block \cup {Nil} : a = table[d][k] /\ a = table'[d][k]
      BY <1>1, <1>8 DEF Consistent, TypeOK
    <2>2. /\ Reads(d, k) = IF a = Nil THEN Nil ELSE Contents(a)
          /\ Reads(d, k)' = IF a = Nil THEN Nil ELSE Contents(a)'
      BY <1>6, <2>1, PlainReads
    <2>3. a \notin FreedByRelease(b)
      BY <1>4, <2>1 DEF FreeUnnamed
    <2> QED BY <1>5, <2>1, <2>2, <2>3 DEF Keeps
  <1>9. Logical' = [Logical EXCEPT ![c][l] = Nil]
    BY <1>1, <1>7, <1>8, OneReadChanges
  <1>10. Memory!Allocated(c, l)
    <2>1. Reads(c, l) = Contents(b)
      BY <1>1, <1>2, <1>6, PlainReads
    <2> QED BY <1>1, <2>1, ContentsAreValues, ReadsAllocated
  <1>11. Memory!Drop(c, l)
    BY <1>1, <1>9, <1>10, SameWriting DEF Memory!Drop
  <1> QED BY <1>11 DEF Memory!Next, MemoryStep

\* Every step of a disciplined host is a step of its contexts' private memories.
LEMMA NextIsMemoryStep ==
    ASSUME Liberties = {}, Consistent, Disciplined, FreeUnnamed', [Next]_vars
    PROVE  MemoryStep
  <1>1. CASE HostCall
    <2>1. ASSUME NEW c \in Ctx, NEW n \in 1 .. MaxLvid, AllocateBlocks(c, n)
          PROVE  MemoryStep
      BY <1>1, <2>1, StartingIsUnseen DEF AllocateBlocks
    <2>2. ASSUME NEW c \in Ctx, NEW l \in Lvid, PrepareBlockForWrite(c, l)
          PROVE  MemoryStep
      BY <1>1, <2>2, StartingIsUnseen DEF PrepareBlockForWrite
    <2>3. ASSUME NEW c \in Ctx, NEW l \in Lvid, NEW write \in BOOLEAN, NEW h \in Handle,
                 MapLogicalBlock(c, l, write, h)
          PROVE  MemoryStep
      BY <1>1, <2>3, StartingIsUnseen DEF MapLogicalBlock
    <2>4. ASSUME NEW c \in Ctx, NEW l \in Lvid, NEW write \in BOOLEAN, StrayUnmap(c, l, write)
          PROVE  FALSE
      BY <2>4 DEF StrayUnmap, Permitted
    <2> QED BY <1>1, <2>1, <2>2, <2>3, <2>4, ContextIsSeen, ReleaseIsSeen, UnmapIsSeen
            DEF HostCall
  <1>2. CASE CallStep
    <2>1. ~GrowFails
      BY GrowthSucceeds DEF Disciplined
    <2> QED BY <1>2, <2>1, DecidingIsUnseen, ReclaimIsUnseen, GrowthIsUnseen, RegisterIsSeen,
               RemapIsUnseen, CloneIsUnseen, LostCopyIsSeen, EvictIsUnseen, PromoteIsUnseen,
               PinIsSeen
            DEF CallStep, Disciplined, Steady
  <1>3. CASE HostStep
    BY <1>3, StoreIsSeen DEF HostStep
  <1>4. CASE UNCHANGED vars
    <2>1. Logical' = Logical
      BY <1>4 DEF vars, Logical, NotYetAllocated, Backing, Contents, L1Data, L2Data
    <2>2. Writing' = Writing
      BY <1>4, SameWriting DEF vars
    <2> QED BY <2>1, <2>2 DEF MemoryStep
  <1> QED BY <1>1, <1>2, <1>3, <1>4 DEF Next

\* A step of the memory the host sees, when it uses the test API
TestMemoryStep ==
    [\/ Memory!Next
     \/ \E c \in Ctx, l \in Lvid :
           (Remaps(c, l) \/ LosesCopy(c, l)) /\ Memory!Replace(c, l)
    ]_<<Logical, Writing>>

\* A remapped logical block reads as zero, and every other one as before: the new block
\* is clean, and the old one is scrubbed only when nobody else names it.
LEMMA RemapIsSeen ==
    ASSUME Consistent, Disciplined, NEW c \in Ctx, NEW l \in Lvid, NEW b \in Block,
           NEW tier \in {"L0", "L1", "L2"}, UpdateMapping(c, l, b, tier)
    PROVE  TestMemoryStep
  <1> DEFINE freed == FreedByRelease(table[c][l])
  <1>1. PICK old \in Block : old = table[c][l]
    BY RemapFacts
  <1>2. /\ refs[old] > 0 /\ old # b /\ refs[b] = 0 /\ Clean(b) /\ call.stage = "idle"
        /\ c \in live /\ \A a \in Block : a \in freed <=> a = old /\ refs[a] = 1
    BY <1>1, RemapFacts
  <1>3. /\ table' = [table EXCEPT ![c][l] = b] /\ live' = live /\ handles' = handles
        /\ mem' = mem
        /\ meta' = [a \in Block |-> IF a = b THEN FreshMeta
                                   ELSE IF a \in freed THEN DefaultMeta ELSE meta[a]]
        /\ l1' = [a \in Block |-> IF a \in freed THEN Nil ELSE l1[a]]
        /\ l2' = [a \in Block |-> IF a \in freed THEN Nil ELSE l2[a]]
    BY DEF UpdateMapping
  <1> HIDE DEF freed
  <1>4. Plain /\ Plain'
    <2>1. call'.stage \in {"idle", "reclaim", "demote"}
      BY TestCallStages DEF TestCall, Idle
    <2> QED BY <1>2, <2>1 DEF Plain
  <1>5. Contents(b)' = Zero
    <2>1. ~meta'[b].resident /\ l2'[b] = Nil
      BY <1>2, <1>3 DEF FreshMeta, DefaultMeta, Clean
    <2> QED BY <2>1 DEF Contents, L2Data
  <1>6. ASSUME NEW a \in Block, a # b, a \notin freed PROVE Keeps(a)
    <2>1. meta'[a] = meta[a] /\ l1'[a] = l1[a] /\ l2'[a] = l2[a]
      BY <1>3, <1>6
    <2> QED BY <1>3, <2>1, UntouchedKeeps
  <1>7. Reads(c, l)' = Zero
    <2>1. table'[c][l] = b /\ b # Nil
      BY <1>3, NilAssumption DEF Consistent, TypeOK
    <2>2. Reads(c, l)' = Contents(b)'
      BY <1>4, <2>1, PlainReads
    <2> QED BY <1>5, <2>2
  <1>8. ASSUME NEW d \in Ctx, NEW k \in Lvid, d \in live, ~(d = c /\ k = l)
        PROVE  Reads(d, k)' = Reads(d, k)
    <2>1. PICK a \in Block \cup {Nil} : a = table[d][k] /\ a = table'[d][k]
      BY <1>3, <1>8 DEF Consistent, TypeOK
    <2>2. /\ Reads(d, k) = IF a = Nil THEN Nil ELSE Contents(a)
          /\ Reads(d, k)' = IF a = Nil THEN Nil ELSE Contents(a)'
      BY <1>4, <2>1, PlainReads
    <2>3. a # b
      BY <1>2, <2>1, FreeIsUnnamed DEF Disciplined
    <2>4. a \in Block => a \notin freed
      <3> SUFFICES ASSUME a \in Block, a \in freed
                   PROVE  FALSE
        OBVIOUS
      <3>1. a = old /\ refs[old] = 1
        BY <1>2
      <3>2. table[c][l] = old /\ table[d][k] = old
        BY <1>1, <2>1, <3>1
      <3>3. d = c /\ k = l
        BY <3>1, <3>2, NamedOnce DEF Disciplined
      <3> QED BY <1>8, <3>3
    <2> QED BY <1>6, <2>1, <2>2, <2>3, <2>4 DEF Keeps
  <1>9. Logical' = [Logical EXCEPT ![c][l] = Zero]
    BY <1>2, <1>3, <1>7, <1>8, OneReadChanges
  <1>10. Memory!Allocated(c, l)
    <2>1. Reads(c, l) = Contents(old)
      BY <1>1, <1>4, PlainReads, NilAssumption
    <2> QED BY <1>2, <2>1, ContentsAreValues, ReadsAllocated
  <1>11. Remaps(c, l) /\ Memory!Replace(c, l)
    BY <1>3, <1>9, <1>10, SameWriting DEF Remaps, Memory!Replace
  <1> QED BY <1>11 DEF TestMemoryStep

\* A block moved between the tiers reads as it did.
LEMMA MoveIsUnseen ==
    ASSUME Consistent, Disciplined,
           TestStep \/ \E c \in Ctx, l \in Lvid : \E tier \in {"L0", "L1", "L2"} :
                          MigrateBlock(c, l, tier)
    PROVE  TestMemoryStep
  <1>1. UNCHANGED <<live, table, handles>>
    BY DEF TestStep, DemoteResident, DemoteOther, DemoteFails, Promoted, MigrateBlock, names
  <1>2. Plain /\ Plain'
    <2>1. TestCall \/ TestStep
      BY DEF TestCall
    <2> QED BY <2>1, TestCallStages DEF Plain, Idle
  <1>3. \A b \in Block : Keeps(b)
    <2>1. CASE UNCHANGED <<meta, l1, mem, l2>>
      BY <2>1, UntouchedKeeps
    <2>2. CASE DemoteResident
      <3> DEFINE m == [meta[Current] EXCEPT !.resident = FALSE, !.tier = "L2", !.backed = TRUE]
      <3>1. PICK b \in Block : b = Current
        BY <2>2, AccessFacts DEF DemoteResident, InStage
      <3>2. /\ meta[b].resident /\ l2' = [l2 EXCEPT ![b] = L1Data(b)]
            /\ l1' = [l1 EXCEPT ![b] = Nil] /\ meta' = [meta EXCEPT ![b] = m] /\ mem' = mem
        BY <2>2, <3>1 DEF DemoteResident
      <3>3. ~m.resident
        BY <3>1 DEF Consistent, TypeOK, Meta
      <3> HIDE DEF m
      <3>4. ~meta'[b].resident /\ l2'[b] = L1Data(b) /\ L1Data(b) # Nil
        BY <3>2, <3>3, DataIsValue, NilAssumption DEF Consistent, TypeOK
      <3>5. Keeps(b)
        BY <3>2, <3>4 DEF Keeps, Contents, L2Data
      <3>6. \A a \in Block \ {b} : meta'[a] = meta[a] /\ l1'[a] = l1[a] /\ l2'[a] = l2[a]
        BY <3>2 DEF Consistent, TypeOK
      <3> QED BY <3>2, <3>5, <3>6, UntouchedKeeps
    <2>3. CASE DemoteOther
      <3>1. PICK b \in Block : b = Current
        BY <2>3, AccessFacts DEF DemoteOther, InStage
      <3>2. /\ ~meta[b].resident /\ l1' = [l1 EXCEPT ![b] = Nil] /\ l2' = l2 /\ mem' = mem
            /\ meta' = [meta EXCEPT ![b].tier = "L2"]
        BY <2>3, <3>1 DEF DemoteOther
      <3>3. \A a \in Block : meta'[a].resident = meta[a].resident /\ l1'[a] = l1[a]
        BY <3>2 DEF Consistent, TypeOK, Meta, TestTiersAgree
      <3> QED BY <3>2, <3>3, UntouchedKeeps
    <2> QED BY <2>1, <2>2, <2>3
            DEF TestStep, DemoteFails, Promoted, MigrateBlock, blocks, pools
  <1> QED BY <1>1, <1>2, <1>3, PlainStays, SameWriting DEF Disciplined, TestMemoryStep

\* A new runtime has no memory.
LEMMA InitIsMemoryInit == Init => Memory!Init
  <1> SUFFICES ASSUME Init PROVE Memory!Init
    OBVIOUS
  <1>1. Logical = [c \in Ctx |-> Nil]
    BY LogicalReads DEF Init
  <1>2. Writing = {}
    BY DEF Init, Writing
  <1> QED BY <1>1, <1>2 DEF Memory!Init

LEMMA DisciplinedFreeUnnamed == Consistent /\ Disciplined => FreeUnnamed
  BY FreeIsUnnamed DEF FreeUnnamed, Disciplined

\* The runtime gives every context a private memory: a fork copies it, a host finds
\* what it last wrote through its own mappings, and no eviction, promotion, write-back,
\* reclaim, shared block or copy on write underneath is ever seen.  The one exception
\* is the logical block whose copy CloneBlockDataForCow had no L2 page for, which
\* reads as zero from then on.
THEOREM ContextsAreIsolated ==
    ASSUME Liberties = {}
    PROVE  Spec => LosesOnlyFailedCopies
  <1>1. Init => Memory!Init
    BY InitIsMemoryInit
  <1>2. Consistent /\ Disciplined => FreeUnnamed
    BY DisciplinedFreeUnnamed
  <1>3. Consistent /\ Disciplined /\ FreeUnnamed' /\ [Next]_vars => MemoryStep
    BY NextIsMemoryStep
  <1>4. Spec => []Disciplined
    BY AlwaysDisciplined
  <1> QED BY <1>1, <1>2, <1>3, <1>4, AlwaysConsistent, PTL
          DEF Spec, LosesOnlyFailedCopies, MemoryStep

\* The memory stays private when blocks are moved by mmu_test_update_mapping: moving a
\* logical block to another block makes that logical block, and no other of any context,
\* read as zero, whether or not the change of tier that follows succeeds; moving a block
\* to another tier, even one that somebody reads through a pointer, is never seen.
THEOREM TestedMemoryIsPrivate ==
    ASSUME Liberties = {}
    PROVE  TestSpec => ImplementsTestedMemory
  <1>1. Init => Memory!Init
    BY InitIsMemoryInit
  <1>2. Consistent /\ Disciplined => FreeUnnamed
    BY DisciplinedFreeUnnamed
  <1>3. Consistent /\ Disciplined /\ FreeUnnamed' /\ [TestNext]_vars => TestMemoryStep
    <2> SUFFICES ASSUME Consistent, Disciplined, FreeUnnamed', [TestNext]_vars
                 PROVE  TestMemoryStep
      OBVIOUS
    <2>1. MemoryStep => TestMemoryStep
      BY DEF MemoryStep, TestMemoryStep
    <2>2. CASE [Next]_vars
      BY <2>1, <2>2, NextIsMemoryStep
    <2>3. CASE TestCall
      BY <2>3, RemapIsSeen, MoveIsUnseen DEF TestCall
    <2>4. CASE TestStep
      BY <2>4, MoveIsUnseen
    <2> QED BY <2>2, <2>3, <2>4 DEF TestNext
  <1>4. TestSpec => []Disciplined
    BY TestAlwaysDisciplined
  <1> QED BY <1>1, <1>2, <1>3, <1>4, TestApiConsistent, PTL
          DEF TestSpec, ImplementsTestedMemory, TestMemoryStep

\* A copy always finds an L2 page when there is one for every block.
LEMMA CopiesFindRoom ==
    ASSUME ~MallocMayFail, L2Limit = Cardinality(Block), Consistent, Prepares
    PROVE  ~CloneFails
  <1> SUFFICES ASSUME CloneFails PROVE FALSE
    OBVIOUS
  <1>1. call.stage = "clone" /\ L2AcquireMayFail(Current)
    BY DEF CloneFails, InStage
  <1>2. Current \in Block /\ Current \notin Stored
    BY <1>1, AccessFacts DEF Prepares, CopyPending, Stored
  <1>3. Stored \subseteq Block /\ Stored # Block
    BY <1>2 DEF Stored
  <1>4. Cardinality(Stored) < Cardinality(Block)
    BY <1>3, BlocksAreFinite, FS_Subset
  <1> QED BY <1>1, <1>3, <1>4, BlocksAreFinite, FS_Subset, FS_CardinalityType
          DEF L2AcquireMayFail, L2Full

\* With the L2 store mmu_init sets up by default, one page for every block, and host
\* memory to fill it, nothing is ever lost: the runtime is private, forkable memory.
THEOREM FullL2IsolatesContexts ==
    ASSUME Liberties = {}, ~MallocMayFail, L2Limit = Cardinality(Block)
    PROVE  Spec => ImplementsForkedMemory
  <1>1. Consistent /\ Disciplined => ~CloneFails
    BY CopiesFindRoom DEF Disciplined
  <1>2. ~CloneFails /\ MemoryStep => [Memory!Next]_(Memory!vars)
    BY DEF MemoryStep, LosesCopy, Memory!vars
  <1>3. Spec => Memory!Init /\ [][MemoryStep]_<<Logical, Writing>>
    BY ContextsAreIsolated, PTL DEF LosesOnlyFailedCopies, MemoryStep
  <1>4. Spec => []Disciplined
    BY AlwaysDisciplined
  <1>5. UNCHANGED <<Logical, Writing>> => [Memory!Next]_(Memory!vars)
    BY DEF Memory!vars
  <1> QED BY <1>1, <1>2, <1>3, <1>4, <1>5, AlwaysConsistent, PTL
          DEF ImplementsForkedMemory, Memory!Spec

\* An eviction finds a victim unless every resident block is pinned.
LEMMA SomeVictim ==
    ASSUME Consistent, NEW b \in Block, Evictable(b, Current)
    PROVE  \E v \in Block : IsVictim(v)
  <1> DEFINE Ages == {recency[a] : a \in {x \in Block : Evictable(x, Current)}}
  <1>1. Ages \in SUBSET Nat /\ recency[b] \in Ages
    BY DEF Consistent, TypeOK
  <1>2. PICK n \in Ages : \A k \in Ages : n <= k
    <2> DEFINE Below == OpToRel(<, Nat)
    <2> HIDE DEF Ages
    <2>1. IsWellFoundedOn(Below, Nat)
      BY NatLessThanWellFounded, Zenon
    <2>2. \A n, k \in Nat : <<k, n>> \in Below <=> k < n
      BY DEF OpToRel
    <2> HIDE DEF Below
    <2>3. PICK n \in Ages : \A k \in Ages : <<k, n>> \notin Below
      BY <1>1, <2>1, WFMin
    <2>4. ASSUME NEW k \in Ages PROVE n <= k
      <3>1. n \in Nat /\ k \in Nat /\ <<k, n>> \notin Below
        BY <1>1, <2>3
      <3>2. ~(k < n)
        BY <2>2, <3>1
      <3> QED BY <3>1, <3>2
    <2> QED BY <2>4
  <1>3. PICK v \in Block : Evictable(v, Current) /\ recency[v] = n
    BY <1>2
  <1>4. \A a \in Block : Evictable(a, Current) => recency[v] <= recency[a]
    BY <1>2, <1>3
  <1> QED BY <1>3, <1>4 DEF IsVictim

\* Without a victim, the host has mapped every block that is in L1.
LEMMA NoVictim ==
    ASSUME Consistent, Counted, MappingsExact, call.stage = "ensure", ~meta[Current].resident,
           residentCount >= ResidentLimit, \A v \in Block : ~IsVictim(v)
    PROVE  Cardinality(MappedBlocks) >= ResidentLimit
  <1>1. Resident \subseteq MappedBlocks
    <2> SUFFICES ASSUME NEW b \in Block, meta[b].resident PROVE b \in MappedBlocks
      BY DEF Resident
    <2>1. b # Current /\ meta[b].allocated /\ ~Evictable(b, Current)
      BY SomeVictim DEF Consistent, TestTiersAgree
    <2>2. meta[b].pins # 0
      BY <2>1 DEF Evictable
    <2> QED BY <2>2, UnmappedUnpinned DEF MappedBlocks
  <1>2. IsFiniteSet(MappedBlocks)
    <2>1. MappedBlocks \in SUBSET Block
      BY MappingFacts DEF MappedBlocks, Mapping
    <2> QED BY <2>1, BlocksAreFinite
  <1>3. Cardinality(Resident) <= Cardinality(MappedBlocks) /\ Cardinality(MappedBlocks) \in Nat
    BY <1>1, <1>2, FS_Subset, FS_CardinalityType
  <1>4. residentCount = Cardinality(Resident) /\ residentCount \in Nat /\ ResidentLimit \in Nat
    BY ConfigAssumption, BlocksAreFinite DEF Consistent, ResidencyAccounted, TypeOK
  <1> QED BY <1>3, <1>4

\* A block is refused a frame of L1 only when the host's own open mappings fill L1, or
\* when the L2 store is full and smaller than the block space: EnsureResidentInL1 never
\* gives up because of a pin nobody owns, or of frames kept by free blocks.  This holds
\* for the promotions of the test API as well.
THEOREM TestFramesRefusedOnlyWhenFull ==
    ASSUME Liberties \subseteq {"forkWhileWriting"}, ~MallocMayFail
    PROVE  TestSpec => RefusedOnlyWhenFull
  <1>1. ASSUME Consistent, Counted, MappingsExact, [TestNext]_vars, FrameRefused
        PROVE  \/ Cardinality(MappedBlocks) >= ResidentLimit
               \/ L2Full /\ L2Limit < Cardinality(Block)
    <2>1. call.stage = "ensure" /\ call'.stage = "idle"
      BY <1>1 DEF FrameRefused
    <2>2. EvictFails
      <3>1. CallStep
        BY <1>1, <2>1, HostCallStages, TestCallStages DEF TestNext, Next, HostStep, HostWrite, vars
      <3>2. ~PromoteFails
        BY DEF PromoteFails, L1AcquireMayFail
      <3>3. call' # call /\ call'.stage # "pin"
        BY <2>1
      <3>4. ~(AlreadyResident \/ \E p \in Page : Promote(p))
        BY <1>1, <3>3 DEF AlreadyResident, Promote, At, Consistent, TypeOK, Call
      <3>5. \A v \in Block : ~EvictVictim(v) /\ ~CowRemap(v) /\ ~GrowTable(v)
        BY <2>1, <3>3 DEF EvictVictim, CowRemap, GrowTable, InStage
      <3>6. ~(Reclaim \/ GrowFails \/ RegisterInL1 \/ RegisterInL2 \/ WriteInPlace)
        BY <2>1 DEF Reclaim, GrowFails, RegisterInL1, RegisterInL2, Registering, WriteInPlace,
                    InStage
      <3>7. ~(CowFails \/ CloneBlockData \/ CloneFails \/ PinFails \/ \E p \in Page : Pin(p))
        BY <2>1 DEF CowFails, CloneBlockData, CloneFails, PinFails, Pin, InStage
      <3> QED BY <3>1, <3>2, <3>4, <3>5, <3>6, <3>7 DEF CallStep
    <2>3. ~meta[Current].resident /\ residentCount >= ResidentLimit
      BY <2>2 DEF EvictFails, NeedsRoom
    <2>4. CASE \A v \in Block : ~IsVictim(v)
      BY <1>1, <2>1, <2>3, <2>4, NoVictim
    <2>5. CASE \E v \in Block : IsVictim(v)
      <3>1. PICK v \in Block : l2[v] = Nil /\ L2Full
        BY <2>2, <2>5 DEF EvictFails, L2AcquireMayFail
      <3>2. Stored \subseteq Block /\ Stored # Block
        BY <3>1 DEF Stored
      <3>3. Cardinality(Stored) < Cardinality(Block)
        BY <3>2, BlocksAreFinite, FS_Subset, FS_CardinalityType
      <3>4. Cardinality(Stored) \in Nat /\ Cardinality(Block) \in Nat /\ L2Limit \in Nat
        BY <3>2, BlocksAreFinite, ConfigAssumption
      <3> QED BY <3>1, <3>3, <3>4 DEF L2Full
    <2> QED BY <2>4, <2>5
  <1>2. TestSpec => [](Counted /\ MappingsExact)
    BY TestAlwaysMapped DEF MindsItsMappings
  <1> QED BY <1>1, <1>2, TestApiConsistent, PTL DEF TestSpec, RefusedOnlyWhenFull

\* The same without the test API.
THEOREM FramesRefusedOnlyWhenFull ==
    ASSUME Liberties \subseteq {"forkWhileWriting"}, ~MallocMayFail
    PROVE  Spec => RefusedOnlyWhenFull
  BY TestFramesRefusedOnlyWhenFull, TestSpecIsWeaker, PTL

\* Every mapping the host holds can be closed: mmu_unmap_logical_block finds the
\* logical block where the mapping left it, and does not answer BAD_HANDLE.
THEOREM MappingsAlwaysClosable ==
    ASSUME Liberties \subseteq {"forkWhileWriting"}
    PROVE  Spec => []MappingsCanBeUnmapped
  <1>1. Consistent /\ Counted /\ MappingsExact /\ PointersStayValid => MappingsCanBeUnmapped
    <2> SUFFICES ASSUME Consistent, Counted, MappingsExact, PointersStayValid,
                        NEW h \in Handle, handles[h] # Nil
                 PROVE  CanUnmap(h)
      BY DEF MappingsCanBeUnmapped
    <2>1. PICK b \in Block : b = handles[h].block
      BY MappingFacts DEF Mapping
    <2>2. l1[b] # Nil /\ b # Nil
      BY <2>1, MappingFacts, NilAssumption DEF PointersStayValid, Mapping
    <2>3. meta[b].allocated
      BY <2>2 DEF Consistent, TestTiersAgree
    <2> QED BY <2>1, <2>2, <2>3, MappingFacts DEF CanUnmap, Resolves
  <1>2. Spec => [](Counted /\ MappingsExact)
    BY AlwaysMapped DEF MindsItsMappings
  <1>3. Spec => []PointersStayValid
    BY PointersAlwaysValid
  <1> QED BY <1>1, <1>2, <1>3, AlwaysConsistent, PTL
=============================================================================
