-------------------------- MODULE MmuConfigProofs ---------------------------
(***************************************************************************)
(* What mmu_init establishes, for every width of the integers and every    *)
(* configuration: the constants that MmuRuntime and ChunkPool assume.      *)
(***************************************************************************)
EXTENDS MmuConfig, TLAPS

\* The inductive invariant: a runtime holds what the corrections make of an
\* acceptable configuration.
Established ==
    /\ config \in Config
    /\ \/ runtime = None
       \/ Acceptable /\ runtime = Resolved

\* Cutting to the number of blocks gives a count of blocks, for naturals.
LEMMA UpToL1Range ==
    ASSUME config \in Config, config.l1_block_count # 0, NEW n \in Nat
    PROVE  /\ UpToL1(n) \in 0 .. config.l1_block_count
           /\ n # 0 => UpToL1(n) \in 1 .. config.l1_block_count
           /\ n <= config.l1_block_count => UpToL1(n) = n
    BY SMT DEF UpToL1, Config, Word

\* The memory that sysconf reports is a natural number of bytes.
LEMMA AvailableIsNatural ==
    ASSUME memory \in PageCounts \X PageSizes
    PROVE  Available \in Nat
<1>1. memory[1] \in Int /\ memory[2] \in Int
  BY InputAssumption
<1>2. ASSUME memory[1] > 0, memory[2] > 0
      PROVE  memory[1] * memory[2] \in Nat
  BY <1>1, <1>2, SMT
<1> QED
  BY <1>1, <1>2, SMT DEF Available

\* The automatic limit is a count of blocks, whatever the memory.
LEMMA AutoLimitRange ==
    ASSUME config \in Config, Acceptable, memory \in PageCounts \X PageSizes
    PROVE  AutoResidentLimit \in 1 .. config.l1_block_count
<1>1. config.l1_block_count \in Nat /\ config.l1_block_count # 0
  BY SMT DEF Config, Word, Acceptable
<1>2. config.block_size_bytes \in Nat /\ config.block_size_bytes # 0
  BY SMT DEF Config, Word, Acceptable
<1>3. Budget \in Nat
  BY AvailableIsNatural, SMT DEF Budget
<1>4. Budget \div config.block_size_bytes \in Nat
  BY <1>2, <1>3, SMT
<1>5. AtLeastOne(Budget \div config.block_size_bytes) \in Nat \ {0}
  BY <1>4, SMT DEF AtLeastOne
<1>6. UpToL1(AtLeastOne(Budget \div config.block_size_bytes)) \in 1 .. config.l1_block_count
  BY <1>1, <1>5, UpToL1Range
<1> QED
  BY <1>1, <1>6, SMT DEF AutoResidentLimit

\* Every limit of the resolved configuration is a count of blocks, and one that
\* was in range is the one the caller asked for.
LEMMA ResolvedInRange ==
    ASSUME config \in Config, Acceptable, memory \in PageCounts \X PageSizes
    PROVE  LET All == 1 .. config.l1_block_count IN
           /\ ResidentLimit \in All
           /\ config.l1_resident_block_limit \in All
                 => ResidentLimit = config.l1_resident_block_limit
           /\ AllUnlessWithin(config.l2_block_count) \in All
           /\ config.l2_block_count \in All
                 => AllUnlessWithin(config.l2_block_count) = config.l2_block_count
           /\ ChunkCount \in All
           /\ config.chunk_block_count \in All => ChunkCount = config.chunk_block_count
<1>1. /\ config.l1_block_count \in Nat /\ config.l1_block_count # 0
      /\ config.l1_resident_block_limit \in Nat
      /\ config.l2_block_count \in Nat
      /\ config.chunk_block_count \in Nat
  BY SMT DEF Config, Word, Acceptable
<1>2. ASSUME NEW n \in Nat
      PROVE  /\ AllUnlessWithin(n) \in 1 .. config.l1_block_count
             /\ n \in 1 .. config.l1_block_count => AllUnlessWithin(n) = n
  BY <1>1, UpToL1Range, SMT DEF AllUnlessWithin
<1>3. AutoResidentLimit \in 1 .. config.l1_block_count
  BY AutoLimitRange
<1>4. /\ ResidentLimit \in 1 .. config.l1_block_count
      /\ config.l1_resident_block_limit \in 1 .. config.l1_block_count
            => ResidentLimit = config.l1_resident_block_limit
  <2>1. CASE config.l1_resident_block_limit = 0
    <3>1. ResidentLimit = AllUnlessWithin(AutoResidentLimit)
      BY <2>1 DEF ResidentLimit
    <3>2. AutoResidentLimit \in Nat
      BY <1>1, <1>3, SMT
    <3> QED BY <2>1, <3>1, <3>2, <1>2, <1>1, SMT
  <2>2. CASE config.l1_resident_block_limit # 0
    <3>1. ResidentLimit = AllUnlessWithin(config.l1_resident_block_limit)
      BY <2>2 DEF ResidentLimit
    <3> QED BY <3>1, <1>1, <1>2
  <2> QED BY <2>1, <2>2
<1>5. /\ ChunkCount \in 1 .. config.l1_block_count
      /\ config.chunk_block_count \in 1 .. config.l1_block_count
            => ChunkCount = config.chunk_block_count
  <2>1. DefaultChunk \in Nat /\ DefaultChunk # 0
    BY DefaultAssumption, SMT DEF Word
  <2>2. CASE config.chunk_block_count = 0
    <3>1. ChunkCount = UpToL1(DefaultChunk)
      BY <2>2 DEF ChunkCount
    <3> QED BY <2>1, <2>2, <3>1, <1>1, UpToL1Range, SMT
  <2>3. CASE config.chunk_block_count # 0
    <3>1. ChunkCount = UpToL1(config.chunk_block_count)
      BY <2>3 DEF ChunkCount
    <3> QED BY <2>3, <3>1, <1>1, UpToL1Range, SMT
  <2> QED BY <2>2, <2>3
<1> QED BY <1>1, <1>2, <1>4, <1>5

\* Before mmu_init there is no runtime to say anything about.
LEMMA InitEstablishes == Init => Established /\ memory \in PageCounts \X PageSizes
<1> SUFFICES ASSUME Init PROVE Established /\ memory \in PageCounts \X PageSizes
  OBVIOUS
<1>1. config \in Config
  BY InputAssumption, SMT DEF Init, Config
<1>2. runtime = None /\ memory \in PageCounts \X PageSizes
  BY DEF Init
<1> QED BY <1>1, <1>2 DEF Established

\* mmu_init computes the limits as Established says.
LEMMA StepKeepsEstablished ==
    ASSUME Established, [Next]_vars
    PROVE  Established'
<1>1. config' = config /\ memory' = memory
  BY DEF Next, MmuInit, MmuInitFails, vars
<1>2. Resolved' = Resolved /\ Acceptable' = Acceptable
  BY <1>1 DEF Resolved, Acceptable, ResidentLimit, AutoResidentLimit, Available, Budget,
              UpToL1, AtLeastOne, AllUnlessWithin, ChunkCount
<1>3. \/ runtime' = runtime
      \/ Acceptable /\ runtime' = Resolved
  BY DEF Next, MmuInit, MmuInitFails, vars
<1> QED BY <1>1, <1>2, <1>3 DEF Established

\* Limits computed so are within 1 .. l1_block_count.
LEMMA EstablishedMeansUsable ==
    ASSUME Established, memory \in PageCounts \X PageSizes
    PROVE  LimitsUsable /\ ValidSettingsKept
<1>1. CASE runtime = None
  BY <1>1 DEF LimitsUsable, ValidSettingsKept, Running
<1>2. CASE Acceptable /\ runtime = Resolved
  <2>1. /\ runtime.l1_block_count = config.l1_block_count
        /\ runtime.block_size_bytes = config.block_size_bytes
        /\ runtime.l1_resident_block_limit = ResidentLimit
        /\ runtime.l2_block_count = AllUnlessWithin(config.l2_block_count)
        /\ runtime.chunk_block_count = ChunkCount
    BY <1>2 DEF Established, Resolved, Config
  <2>2. LimitsUsable
    BY <1>2, <2>1, ResolvedInRange DEF LimitsUsable, Established
  <2>3. ValidSettingsKept
    BY <1>2, <2>1, ResolvedInRange DEF ValidSettingsKept, Established
  <2> QED BY <2>2, <2>3
<1> QED BY <1>1, <1>2 DEF Established

\* The limits of a new runtime are usable (mmu_init): ConfigAssumption of MmuRuntime
\* is not an assumption about the caller.
THEOREM LimitsAreUsable == Spec => []LimitsUsable
<1> DEFINE IInv == Established /\ memory \in PageCounts \X PageSizes
<1>1. Init => IInv
  BY InitEstablishes
<1>2. IInv /\ [Next]_vars => IInv'
  <2>1. [Next]_vars => memory' = memory
    BY DEF Next, MmuInit, MmuInitFails, vars
  <2> QED BY <2>1, StepKeepsEstablished
<1>3. IInv => LimitsUsable
  BY EstablishedMeansUsable
<1> QED BY <1>1, <1>2, <1>3, PTL DEF Spec

\* mmu_init corrects no setting that is valid.
THEOREM ValidSettingsAreKept == Spec => []ValidSettingsKept
<1> DEFINE IInv == Established /\ memory \in PageCounts \X PageSizes
<1>1. Init => IInv
  BY InitEstablishes
<1>2. IInv /\ [Next]_vars => IInv'
  <2>1. [Next]_vars => memory' = memory
    BY DEF Next, MmuInit, MmuInitFails, vars
  <2> QED BY <2>1, StepKeepsEstablished
<1>3. IInv => ValidSettingsKept
  BY EstablishedMeansUsable
<1> QED BY <1>1, <1>2, <1>3, PTL DEF Spec

-----------------------------------------------------------------------------
(* Division and overflow *)

\* n pages of size b fit a bytes when n is at most the quotient.
LEMMA FitsQuotient ==
    ASSUME NEW a \in Nat, NEW b \in Nat \ {0}, NEW n \in Nat
    PROVE  /\ a \div b \in Nat
           /\ n * b <= a <=> n <= a \div b
<1> DEFINE q == a \div b
<1>1. q \in Nat /\ q * b <= a /\ a < (q + 1) * b
  BY SMT
<1> HIDE DEF q
<1>2. ASSUME n <= q PROVE n * b <= a
  <2>1. n * b <= q * b
    BY <1>1, <1>2, SMT
  <2> QED BY <1>1, <2>1, SMT
<1>3. ASSUME ~(n <= q) PROVE ~(n * b <= a)
  <2>1. q + 1 <= n
    BY <1>1, <1>3, SMT
  <2>2. (q + 1) * b <= n * b
    BY <1>1, <2>1, SMT
  <2> QED BY <1>1, <2>2, SMT
<1> QED BY <1>1, <1>2, <1>3 DEF q

\* QueryAvailableHostMemoryBytes multiplies only when the product fits: what it returns
\* is the exact number of bytes when they are known, and zero otherwise.
LEMMA AvailableIsExact ==
    ASSUME memory \in PageCounts \X PageSizes
    PROVE  /\ Known => Available = Bytes /\ Bytes \in Nat \ {0}
           /\ ~Known => Available = 0
<1>1. memory[1] \in Int /\ memory[2] \in Int
  BY InputAssumption
<1>2. LongWordMax \in Nat
  BY PowerAssumption, SMT DEF LongWordMax
<1> HIDE DEF LongWordMax
<1>3. CASE memory[1] > 0 /\ memory[2] > 0
  <2>1. memory[1] * memory[2] <= LongWordMax <=> memory[1] <= LongWordMax \div memory[2]
    BY <1>1, <1>2, <1>3, FitsQuotient, SMT
  <2>2. memory[1] * memory[2] \in Nat \ {0}
    BY <1>1, <1>3, SMT
  <2>3. LongWordMax \div memory[2] \in Int
    BY <1>1, <1>2, <1>3, SMT
  <2> QED BY <1>1, <1>3, <2>1, <2>2, <2>3, SMT DEF Known, Bytes, Available
<1>4. CASE ~(memory[1] > 0 /\ memory[2] > 0)
  BY <1>1, <1>4, SMT DEF Known, Bytes, Available
<1> QED BY <1>3, <1>4

\* ResolveAutoResidentLimit finds the largest number of blocks that fit half of the
\* memory, one block apart, or that there are.
LEMMA AutoLimitFits ==
    ASSUME config \in Config, Acceptable, memory \in PageCounts \X PageSizes, Known
    PROVE  LET Fits(n) == 2 * n * config.block_size_bytes <= Bytes
               limit == AutoResidentLimit
           IN  /\ limit = 1 \/ Fits(limit)
               /\ limit = config.l1_block_count \/ ~Fits(limit + 1)
<1> DEFINE size == config.block_size_bytes
           blocks == config.l1_block_count
           q == Budget \div size
           limit == AutoResidentLimit
<1>1. /\ blocks \in Nat \ {0} /\ size \in Nat \ {0}
  BY SMT DEF Config, Word, Acceptable
<1>2. Bytes \in Nat \ {0} /\ Available = Bytes
  BY AvailableIsExact
<1>3. Budget = Bytes \div 2
  BY <1>2 DEF Budget
<1>4. limit = UpToL1(AtLeastOne(q))
  BY <1>2, SMT DEF AutoResidentLimit
<1> HIDE DEF limit, Bytes
<1>5. Budget \in Nat
  BY <1>2, <1>3, SMT
<1>6. ASSUME NEW n \in Nat
      PROVE  2 * n * size <= Bytes <=> n <= q
  <2>1. n * size \in Nat /\ 2 * n * size = (n * size) * 2
    BY <1>1, SMT
  <2>2. (n * size) * 2 <= Bytes <=> n * size <= Budget
    BY <1>2, <1>3, <2>1, FitsQuotient
  <2>3. n * size <= Budget <=> n <= q
    BY <1>1, <1>5, FitsQuotient
  <2> QED BY <2>1, <2>2, <2>3
<1>7. q \in Nat
  BY <1>1, <1>5, FitsQuotient
<1> HIDE DEF q
<1>8. /\ limit \in Nat \ {0}
      /\ limit = 1 \/ limit <= q
      /\ limit = blocks \/ ~(limit + 1 <= q)
  BY <1>1, <1>4, <1>7, SMT DEF UpToL1, AtLeastOne
<1>9. /\ 2 * limit * size <= Bytes <=> limit <= q
      /\ 2 * (limit + 1) * size <= Bytes <=> limit + 1 <= q
  <2>1. limit \in Nat /\ limit + 1 \in Nat
    BY <1>8, SMT
  <2> QED BY <1>6, <2>1
<1> QED BY <1>8, <1>9 DEF limit

\* A product that wrapped round is seen by dividing it again.
LEMMA OverflowIsSeen ==
    ASSUME NEW m \in Nat \ {0}, NEW n \in Nat \ {0}, NEW s \in Nat \ {0}
    PROVE  ((n * s) % m) \div n = s <=> n * s < m
<1> DEFINE p == n * s
           r == p % m
<1>1. p \in Nat /\ p = s * n
  BY SMT
<1> HIDE DEF p
<1>2. r \in Nat /\ r < m /\ (p < m => r = p)
  BY <1>1, SMT
<1> HIDE DEF r
<1>3. s * n <= r <=> s <= r \div n
  BY <1>2, FitsQuotient
<1>4. (s + 1) * n <= r <=> s + 1 <= r \div n
  <2>1. s + 1 \in Nat
    BY SMT
  <2> QED BY <1>2, <2>1, FitsQuotient
<1>5. r \div n \in Nat
  BY <1>2, FitsQuotient
<1>6. (s + 1) * n = p + n
  BY <1>1, SMT
<1>7. CASE p < m
  BY <1>1, <1>2, <1>3, <1>4, <1>5, <1>6, <1>7, SMT DEF p
<1>8. CASE ~(p < m)
  <2>1. ~(s * n <= r)
    BY <1>1, <1>2, <1>8, SMT
  <2>2. ~(s <= r \div n)
    BY <1>3, <2>1
  <2>3. r \div n # s
    BY <1>5, <2>2, SMT
  <2> QED BY <1>8, <2>3 DEF p, r
<1> QED BY <1>7, <1>8

\* What the invariant says of the memory budget and of the size of a chunk.
LEMMA EstablishedMeansBudgeted ==
    ASSUME Established, memory \in PageCounts \X PageSizes
    PROVE  AutoLimitIsHalfTheMemory /\ ChunkOverflowCaught
<1>1. CASE runtime = None
  BY <1>1 DEF AutoLimitIsHalfTheMemory, ChunkOverflowCaught, Running
<1>2. CASE Acceptable /\ runtime = Resolved
  <2>1. /\ runtime.l1_resident_block_limit = ResidentLimit
        /\ runtime.chunk_block_count = ChunkCount
    BY <1>2 DEF Established, Resolved, Config
  <2>2. ASSUME config.l1_resident_block_limit = 0
        PROVE  ResidentLimit = AutoResidentLimit
    <3>1. AutoResidentLimit \in 1 .. config.l1_block_count
      BY <1>2, AutoLimitRange DEF Established
    <3>2. ResidentLimit = AllUnlessWithin(AutoResidentLimit)
      BY <2>2 DEF ResidentLimit
    <3>3. config.l1_block_count \in Nat
      BY SMT DEF Established, Config, Word
    <3> HIDE DEF AutoResidentLimit
    <3> QED BY <3>1, <3>2, <3>3, SMT DEF AllUnlessWithin, UpToL1
  <2>3. AutoLimitIsHalfTheMemory
    <3> SUFFICES ASSUME config.l1_resident_block_limit = 0
                 PROVE  AutoLimitIsHalfTheMemory
      BY DEF AutoLimitIsHalfTheMemory
    <3>1. runtime.l1_resident_block_limit = AutoResidentLimit
      BY <2>1, <2>2
    <3>2. CASE Known
      BY <1>2, <3>1, <3>2, AutoLimitFits DEF AutoLimitIsHalfTheMemory, Established
    <3>3. CASE ~Known
      BY <3>1, <3>3, AvailableIsExact DEF AutoLimitIsHalfTheMemory, AutoResidentLimit
    <3> QED BY <3>2, <3>3
  <2>4. ChunkOverflowCaught
    <3> SUFFICES ASSUME NEW n \in 1 .. ChunkCount
                 PROVE  NotTooLarge(n) <=> n * config.block_size_bytes < 2 ^ SizeBits
      BY <2>1 DEF ChunkOverflowCaught
    <3>1. config.block_size_bytes \in Nat \ {0} /\ 2 ^ SizeBits \in Nat \ {0}
      BY <1>2, PowerAssumption, SMT DEF Established, Config, Word, Acceptable
    <3>2. n \in Nat \ {0}
      <4>1. ChunkCount \in Nat
        BY <1>2, ResolvedInRange, SMT DEF Established, Config, Word
      <4> HIDE DEF ChunkCount
      <4> QED BY <4>1, SMT
    <3> QED BY <3>1, <3>2, OverflowIsSeen DEF NotTooLarge, ChunkBytes
  <2> QED BY <2>3, <2>4
<1> QED BY <1>1, <1>2 DEF Established

\* The automatic limit of mmu_init is the number of blocks that fit half of the memory
\* (ResolveAutoResidentLimit), exactly, for every width of the integers and every
\* answer of sysconf: the product that QueryAvailableHostMemoryBytes forms never wraps.
THEOREM AutoLimitIsExact == Spec => []AutoLimitIsHalfTheMemory
<1> DEFINE IInv == Established /\ memory \in PageCounts \X PageSizes
<1>1. Init => IInv
  BY InitEstablishes
<1>2. IInv /\ [Next]_vars => IInv'
  <2>1. [Next]_vars => memory' = memory
    BY DEF Next, MmuInit, MmuInitFails, vars
  <2> QED BY <2>1, StepKeepsEstablished
<1>3. IInv => AutoLimitIsHalfTheMemory
  BY EstablishedMeansBudgeted
<1> QED BY <1>1, <1>2, <1>3, PTL DEF Spec

\* The test AllocateChunk makes after the multiplication refuses exactly the chunks that
\* do not fit size_t, whatever its width.
THEOREM OverflowIsAlwaysCaught == Spec => []ChunkOverflowCaught
<1> DEFINE IInv == Established /\ memory \in PageCounts \X PageSizes
<1>1. Init => IInv
  BY InitEstablishes
<1>2. IInv /\ [Next]_vars => IInv'
  <2>1. [Next]_vars => memory' = memory
    BY DEF Next, MmuInit, MmuInitFails, vars
  <2> QED BY <2>1, StepKeepsEstablished
<1>3. IInv => ChunkOverflowCaught
  BY EstablishedMeansBudgeted
<1> QED BY <1>1, <1>2, <1>3, PTL DEF Spec
=============================================================================
