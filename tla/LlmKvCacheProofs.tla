-------------------------- MODULE LlmKvCacheProofs --------------------------
(***************************************************************************)
(* For every shape of cache and every number of tokens: the layers never   *)
(* share a block, each token stays where its layer looks for it, the       *)
(* runtime is used as its contract allows, and a runtime that is large     *)
(* enough refuses nothing.                                                 *)
(***************************************************************************)
EXTENDS LlmKvCache, FiniteSetTheorems, SequenceTheorems, TLAPS

Building == phase \notin {"release", "destroy", "failed", "exit"}
Extended == phase \in {"read", "mapTails", "writeTails", "unmapTails"}

\* How many blocks every layer has: a token that starts a block gets it before it
\* is written.
Held == IF phase = "prefill" THEN 0
        ELSE IF phase \in {"map", "write"} THEN BlocksPerLayer
        ELSE IF Extended THEN total \div shape.perBlock + 1
        ELSE Ceiling(total)

LoopsInRange ==
    /\ layer \in Layers
    /\ phase \in {"prefill", "mapTails"} => layer = 0
    /\ phase = "write" => b <= BlocksPerLayer
    /\ total \in shape.prompt .. shape.prompt + shape.decode
    /\ phase \in {"prefill", "map", "write"} => total = shape.prompt
    /\ Extended => total < shape.prompt + shape.decode

\* The blocks of the context are the numbers below size, and their count is what the
\* program takes for the first number of the next allocation.
BlocksNumbered ==
    Building => /\ \A l \in Lvid : memory[l] # Nil <=> l < size
                /\ size = Held * shape.layers
                /\ size <= shape.blocks

\* The lists of the layers are as long as each other; together they name each block
\* once.
ListsPartition ==
    Building =>
        /\ \A y \in Layers : Len(caches[y]) = Held
        /\ \A y \in Layers : \A i \in 1 .. Held : caches[y][i] < size
        /\ \A y, z \in Layers : \A i, j \in 1 .. Held :
              caches[y][i] = caches[z][j] => y = z /\ i = j
        /\ \A l \in 0 .. size - 1 : \E y \in Layers : \E i \in 1 .. Held : caches[y][i] = l

InPlace(y, t) ==
    LET i == t \div shape.perBlock + 1 IN
    /\ i \in DOMAIN caches[y]
    /\ memory[caches[y][i]][t % shape.perBlock] = <<y, t>>

\* Of the layer that the prompt is being written to, the blocks so far
PrefixInPlace ==
    phase = "write" =>
        \A t \in 0 .. shape.prompt - 1 : t \div shape.perBlock < b => InPlace(layer, t)

\* A block is mapped for writing while it is written to.
MappedForWriting ==
    writing = IF phase = "write" THEN Blocks(layer)
              ELSE IF phase \in {"writeTails", "unmapTails"} THEN {LastBlock(l) : l \in Layers}
              ELSE {}

\* ReleaseAllBlocks releases blocks in the order of their numbers.
ReleasedBelow ==
    phase = "release" => /\ b <= end /\ end <= MaxLvid
                         /\ \A l \in Lvid : memory[l] # Nil <=> b <= l /\ l < end

IInv == /\ TypeOK
        /\ LoopsInRange
        /\ BlocksNumbered
        /\ ListsPartition
        /\ TokensInPlace
        /\ PrefixInPlace
        /\ MappedForWriting
        /\ ReleasedBelow
        /\ NothingLeftBehind
        /\ EnoughIsEnough

-----------------------------------------------------------------------------
(* Numbers: where a token falls, and how many blocks n tokens take *)

\* A token has a block and a slot, and no other token has both.
LEMMA DivisionFacts ==
    ASSUME NEW p \in Nat \ {0}, NEW t \in Nat
    PROVE  /\ t \div p \in Nat
           /\ t % p \in 0 .. p - 1
           /\ t = (t \div p) * p + (t % p)
BY SMT

LEMMA QuotientFacts ==
    ASSUME NEW p \in Nat, NEW q \in Nat, NEW r \in 0 .. p - 1
    PROVE  (q * p + r) \div p = q /\ (q * p + r) % p = r
BY SMT

\* Two runs of p numbers do not meet.
LEMMA RunsAreApart ==
    ASSUME NEW p \in Nat, NEW q \in Nat, NEW r \in Nat,
           NEW i \in 0 .. p - 1, NEW j \in 0 .. p - 1,
           q * p + i = r * p + j
    PROVE  q = r /\ i = j
BY SMT

LEMMA ProductFacts ==
    ASSUME NEW m \in Nat, NEW n \in Nat, NEW k \in Nat
    PROVE  /\ m * n \in Nat
           /\ m * n = n * m
           /\ (m + 1) * n = m * n + n
           /\ m <= k => m * n <= k * n
           /\ n # 0 => m <= m * n
BY SMT

\* The size of a list of blocks, as the program computes it
LEMMA CeilingFacts ==
    ASSUME NEW p \in Nat \ {0}, NEW t \in Nat
    PROVE  /\ (t + p - 1) \div p \in Nat
           /\ t % p = 0 => (t + p - 1) \div p = t \div p
           /\ t % p # 0 => (t + p - 1) \div p = t \div p + 1
           /\ (t + 1 + p - 1) \div p = t \div p + 1
           /\ \A u \in Nat : u < t => u \div p < (t + p - 1) \div p
           /\ \A u \in Nat : t <= u => (t + p - 1) \div p <= (u + p - 1) \div p
           /\ \A k \in Nat : k < (t + p - 1) \div p => k * p < t
<1>1. (t + p - 1) \div p \in Nat
  BY SMT
<1>2. (t + 1 + p - 1) \div p = t \div p + 1
  BY SMT
<1>3. t % p = 0 => (t + p - 1) \div p = t \div p
  BY SMT
<1>4. t % p # 0 => (t + p - 1) \div p = t \div p + 1
  BY SMT
<1>5. ASSUME NEW u \in Nat, u < t
      PROVE  u \div p < (t + p - 1) \div p
  BY <1>5, SMT
<1>6. ASSUME NEW u \in Nat, t <= u
      PROVE  (t + p - 1) \div p <= (u + p - 1) \div p
  BY <1>6, SMT
<1>7. ASSUME NEW k \in Nat, k < (t + p - 1) \div p
      PROVE  k * p < t
  BY <1>7, SMT
<1> QED BY <1>1, <1>2, <1>3, <1>4, <1>5, <1>6, <1>7

-----------------------------------------------------------------------------
(* What a state says *)

LEMMA ShapeFacts ==
    ASSUME shape \in Shape
    PROVE  /\ shape.layers \in Nat \ {0} /\ shape.layers <= MaxLayers
           /\ shape.perBlock \in Nat \ {0} /\ shape.perBlock <= MaxPerBlock
           /\ shape.prompt \in Nat /\ shape.prompt <= MaxPrompt
           /\ shape.decode \in Nat /\ shape.decode <= MaxDecode
           /\ shape.blocks \in Nat /\ shape.blocks <= MaxLvid
           /\ shape.resident \in Nat \ {0}
           /\ MaxLvid \in Nat /\ MaxPerBlock \in Nat /\ MaxLayers \in Nat
           /\ MaxPrompt \in Nat /\ MaxDecode \in Nat
           /\ BlocksPerLayer \in Nat
<1>1. /\ MaxLvid \in Nat /\ MaxPerBlock \in Nat /\ MaxLayers \in Nat
      /\ MaxPrompt \in Nat /\ MaxDecode \in Nat
  BY BoundsAssumption
<1>2. /\ shape.layers \in 1 .. MaxLayers /\ shape.perBlock \in 1 .. MaxPerBlock
      /\ shape.prompt \in 0 .. MaxPrompt /\ shape.decode \in 0 .. MaxDecode
      /\ shape.blocks \in 1 .. MaxLvid /\ shape.resident \in 1 .. MaxLvid
  BY DEF Shape
<1>3. /\ shape.layers \in Nat \ {0} /\ shape.layers <= MaxLayers
      /\ shape.perBlock \in Nat \ {0} /\ shape.perBlock <= MaxPerBlock
      /\ shape.prompt \in Nat /\ shape.prompt <= MaxPrompt
      /\ shape.decode \in Nat /\ shape.decode <= MaxDecode
      /\ shape.blocks \in Nat /\ shape.blocks <= MaxLvid
      /\ shape.resident \in Nat \ {0}
  BY <1>1, <1>2, SMT
<1>4. BlocksPerLayer \in Nat
  BY <1>3, CeilingFacts DEF BlocksPerLayer, Ceiling
<1> QED BY <1>1, <1>3, <1>4

\* How many blocks the layers have, and how many the next token needs
LEMMA HeldFacts ==
    ASSUME TypeOK, LoopsInRange
    PROVE  /\ Held \in Nat
           /\ \A t \in Nat : Ceiling(t) \in Nat
           /\ total \in Nat
<1>1. shape \in Shape /\ total \in Nat
  BY DEF TypeOK
<1>2. \A t \in Nat : Ceiling(t) \in Nat
  BY <1>1, ShapeFacts, CeilingFacts DEF Ceiling
<1>3. total \div shape.perBlock \in Nat
  BY <1>1, ShapeFacts, DivisionFacts
<1>4. total \div shape.perBlock + 1 \in Nat
  BY <1>3, SMT
<1> QED BY <1>1, <1>2, <1>4, ShapeFacts DEF Held

\* The count of the blocks is the number after the last one.
LEMMA CountIsSize ==
    ASSUME TypeOK, BlocksNumbered, Building
    PROVE  LogicalBlockCount = size /\ size \in 0 .. MaxLvid
<1>1. size \in 0 .. MaxLvid /\ MaxLvid \in Nat
  BY BoundsAssumption DEF TypeOK
<1>2. Allocated = 0 .. size - 1
  <2>1. \A l \in Lvid : memory[l] # Nil <=> l < size
    BY DEF BlocksNumbered
  <2>2. \A l : l \in 0 .. size - 1 <=> l \in Lvid /\ l < size
    BY <1>1, SMT DEF Lvid
  <2> QED BY <2>1, <2>2 DEF Allocated
<1>3. Cardinality(0 .. size - 1) = IF 0 > size - 1 THEN 0 ELSE size - 1 - 0 + 1
  BY <1>1, FS_Interval
<1>4. size \in Nat
  BY <1>1, SMT
<1>5. Cardinality(0 .. size - 1) = size
  BY <1>3, <1>4, SMT
<1> QED BY <1>1, <1>2, <1>5 DEF LogicalBlockCount

\* A set given by at most n elements one after the other has no more than n.
LEMMA ListedAtMost ==
    ASSUME NEW n \in Nat, NEW f, DOMAIN f = 1 .. n
    PROVE  /\ IsFiniteSet({f[i] : i \in 1 .. n})
           /\ Cardinality({f[i] : i \in 1 .. n}) \in Nat
           /\ Cardinality({f[i] : i \in 1 .. n}) <= n
<1> DEFINE S == {f[i] : i \in 1 .. n}
           g == [i \in 1 .. n |-> f[i]]
<1>1. g \in Surjection(1 .. n, S)
  BY DEF Surjection
<1>2. ExistsSurjection(1 .. n, S)
  BY <1>1 DEF ExistsSurjection
<1>3. IsFiniteSet(1 .. n)
  BY FS_Interval
<1>4. IsFiniteSet(S)
  BY <1>1, <1>3, FS_Surjection
<1> HIDE DEF S
<1>5. Cardinality(S) \in Nat /\ Cardinality(S) <= n
  BY <1>2, <1>4, FS_SurjCardinalityBound, FS_CardinalityType
<1> QED BY <1>4, <1>5 DEF S

\* A place in the list of a layer
LEMMA ListFacts ==
    ASSUME TypeOK, LoopsInRange, ListsPartition, Building, NEW y \in Layers
    PROVE  /\ caches[y] \in Seq(Lvid)
           /\ Len(caches[y]) = Held
           /\ DOMAIN caches[y] = 1 .. Held
           /\ \A i \in 1 .. Held : caches[y][i] \in Lvid /\ caches[y][i] < size
<1>1. caches[y] \in Seq(Lvid)
  BY DEF TypeOK
<1>2. Len(caches[y]) = Held
  BY DEF ListsPartition
<1>3. DOMAIN caches[y] = 1 .. Held
  BY <1>1, <1>2, LenProperties
<1>4. \A i \in 1 .. Held : caches[y][i] \in Lvid
  BY <1>1, <1>2, ElementOfSeq
<1> QED BY <1>1, <1>2, <1>3, <1>4 DEF ListsPartition

\* Where a token that a layer holds is: inside the list, in a slot of a block that
\* is allocated
LEMMA TokenFacts ==
    ASSUME NEW t \in Nat, shape \in Shape
    PROVE  /\ t \div shape.perBlock \in Nat
           /\ t % shape.perBlock \in Slot
           /\ t % shape.perBlock < shape.perBlock
           /\ t % shape.perBlock \in Nat
           /\ t = (t \div shape.perBlock) * shape.perBlock + (t % shape.perBlock)
<1>1. /\ shape.perBlock \in Nat \ {0} /\ shape.perBlock <= MaxPerBlock
      /\ MaxPerBlock \in Nat
  BY ShapeFacts
<1>2. /\ t \div shape.perBlock \in Nat
      /\ t % shape.perBlock \in 0 .. shape.perBlock - 1
      /\ t = (t \div shape.perBlock) * shape.perBlock + (t % shape.perBlock)
  BY <1>1, DivisionFacts
<1>3. ASSUME NEW p \in Nat \ {0}, NEW q \in Nat, p <= q, NEW r \in 0 .. p - 1
      PROVE  r \in 0 .. q - 1 /\ r < p /\ r \in Nat
  BY <1>3, SMT
<1>4. /\ t % shape.perBlock \in 0 .. MaxPerBlock - 1
      /\ t % shape.perBlock < shape.perBlock
      /\ t % shape.perBlock \in Nat
  <2> DEFINE r == t % shape.perBlock
  <2>1. r \in 0 .. shape.perBlock - 1
    BY <1>2
  <2> HIDE DEF r
  <2>2. r \in 0 .. MaxPerBlock - 1 /\ r < shape.perBlock /\ r \in Nat
    BY <1>1, <1>3, <2>1
  <2> QED BY <2>2 DEF r
<1> QED BY <1>2, <1>4 DEF Slot

-----------------------------------------------------------------------------
(* What a step that allocates nothing, or stores nothing, leaves as it is *)

LEMMA SameBlocks ==
    ASSUME BlocksNumbered, ListsPartition,
           Building' => Building /\ Held' = Held,
           UNCHANGED <<shape, caches, memory, size>>
    PROVE  BlocksNumbered' /\ ListsPartition'
<1>1. /\ shape' = shape /\ caches' = caches /\ memory' = memory /\ size' = size
      /\ Layers' = Layers
  BY DEF Layers
<1>2. BlocksNumbered'
  BY <1>1 DEF BlocksNumbered
<1>3. ListsPartition'
  BY <1>1 DEF ListsPartition
<1> QED BY <1>2, <1>3

LEMMA PlacedTokens ==
    TokensInPlace <=> \A y \in Layers : \A t \in 0 .. TokensOf(y) - 1 : InPlace(y, t)
BY DEF TokensInPlace, InPlace

LEMMA SameTokens ==
    ASSUME TokensInPlace, UNCHANGED <<shape, caches, memory>>,
           \A y \in Layers : TokensOf(y)' = TokensOf(y)
    PROVE  TokensInPlace'
<1>1. Layers' = Layers
  BY DEF Layers
<1> QED BY <1>1 DEF TokensInPlace

\* After the program has built its lists there are no tokens to look for.
LEMMA NoTokens ==
    ASSUME phase' \in {"release", "destroy", "failed", "exit"}
    PROVE  TokensInPlace'
<1>1. \A y \in Layers' : TokensOf(y)' = 0
  BY DEF TokensOf
<1>2. 0 .. 0 - 1 = {}
  BY SMT
<1> QED BY <1>1, <1>2 DEF TokensInPlace

-----------------------------------------------------------------------------
(* The first state *)

LEMMA InitHolds == Init => IInv
<1> SUFFICES ASSUME Init PROVE IInv
  OBVIOUS
<1>1. /\ shape \in Shape /\ phase = "prefill"
      /\ layer = 0 /\ b = 0 /\ total = shape.prompt /\ end = 0
      /\ caches = [l \in Layers |-> <<>>]
      /\ memory = [l \in Lvid |-> Nil] /\ size = 0
      /\ writing = {}
  BY DEF Init
<1>2. /\ shape.layers \in Nat \ {0} /\ shape.prompt \in Nat /\ shape.decode \in Nat
      /\ MaxLayers \in Nat /\ MaxLvid \in Nat /\ shape.blocks \in Nat
  BY <1>1, ShapeFacts
<1>3. 0 \in Layers /\ 0 \in 0 .. MaxLayers /\ 0 \in 0 .. MaxLvid
  BY <1>2, SMT DEF Layers
<1>4. TypeOK
  <2>1. caches \in [Layers -> Seq(Lvid)]
    BY <1>1, EmptySeq
  <2>2. memory \in [Lvid -> Content \cup {Nil}]
    BY <1>1
  <2> QED BY <1>1, <1>2, <1>3, <2>1, <2>2 DEF TypeOK
<1>5. LoopsInRange
  <2>1. total \in shape.prompt .. shape.prompt + shape.decode
    BY <1>1, <1>2, SMT
  <2> QED BY <1>1, <1>3, <2>1 DEF LoopsInRange, Extended
<1>6. Held = 0
  BY <1>1 DEF Held
<1>7. BlocksNumbered
  <2>1. \A l \in Lvid : memory[l] = Nil /\ ~(l < size)
    BY <1>1, <1>2, SMT DEF Lvid
  <2>2. size = Held * shape.layers /\ size <= shape.blocks
    BY <1>1, <1>2, <1>6, SMT
  <2> QED BY <2>1, <2>2 DEF BlocksNumbered
<1>8. ListsPartition
  <2>1. \A y \in Layers : Len(caches[y]) = 0
    BY <1>1, EmptySeq
  <2>2. 1 .. 0 = {} /\ 0 .. 0 - 1 = {}
    BY SMT
  <2> QED BY <1>1, <1>6, <2>1, <2>2 DEF ListsPartition
<1>9. TokensInPlace
  <2>1. \A y \in Layers : TokensOf(y) = 0
    BY <1>1 DEF TokensOf
  <2>2. 0 .. 0 - 1 = {}
    BY SMT
  <2> QED BY <2>1, <2>2 DEF TokensInPlace
<1>10. PrefixInPlace /\ MappedForWriting /\ ReleasedBelow /\ NothingLeftBehind
       /\ EnoughIsEnough
  BY <1>1 DEF PrefixInPlace, MappedForWriting, ReleasedBelow, NothingLeftBehind,
     EnoughIsEnough
<1> QED BY <1>4, <1>5, <1>7, <1>8, <1>9, <1>10 DEF IInv

-----------------------------------------------------------------------------
(* Allocating blocks *)

LEMMA ZeroFacts == Zero \in Content /\ Zero # Nil
<1>1. Zero \in Content
  BY DEF Zero, Content
<1> QED BY <1>1, NilAssumption

LEMMA AllocateFacts ==
    ASSUME TypeOK, BlocksNumbered, Building, NEW n \in Nat, AllocateBlocks(n)
    PROVE  /\ LogicalBlockCount = size
           /\ size' = size + n /\ size' \in 0 .. MaxLvid /\ size' <= shape.blocks
           /\ memory' \in [Lvid -> Content \cup {Nil}]
           /\ \A l \in Lvid : memory'[l] = IF size <= l /\ l < size + n THEN Zero ELSE memory[l]
           /\ \A l \in Lvid : memory'[l] # Nil <=> l < size'
           /\ \A l \in Lvid : l < size => memory'[l] = memory[l]
<1>1. LogicalBlockCount = size /\ size \in 0 .. MaxLvid
  BY CountIsSize
<1>2. /\ size + n <= shape.blocks /\ size' = size + n
      /\ memory' = [l \in Lvid |-> IF size <= l /\ l < size + n THEN Zero ELSE memory[l]]
  BY <1>1 DEF AllocateBlocks, CanAllocate
<1>3. shape.blocks \in Nat /\ shape.blocks <= MaxLvid /\ MaxLvid \in Nat
  BY ShapeFacts DEF TypeOK
<1>4. size' \in 0 .. MaxLvid /\ size \in Nat
  BY <1>1, <1>2, <1>3, SMT
<1>5. \A l \in Lvid : memory[l] \in Content \cup {Nil}
  BY DEF TypeOK
<1>6. \A l \in Lvid : memory[l] # Nil <=> l < size
  BY DEF BlocksNumbered
<1>7. memory' \in [Lvid -> Content \cup {Nil}]
  BY <1>2, <1>5, ZeroFacts
<1>8. \A l \in Lvid : memory'[l] = IF size <= l /\ l < size + n THEN Zero ELSE memory[l]
  BY <1>2
<1>9. ASSUME NEW l \in Lvid
      PROVE  /\ memory'[l] # Nil <=> l < size'
             /\ l < size => memory'[l] = memory[l]
  <2>1. l \in Nat
    BY <1>3, SMT DEF Lvid
  <2>2. CASE l < size
    <3>1. ~(size <= l) /\ l < size'
      BY <1>2, <1>4, <2>1, <2>2, SMT
    <3> QED BY <1>6, <1>8, <2>2, <3>1
  <2>3. CASE ~(l < size) /\ l < size + n
    <3>1. size <= l /\ l < size'
      BY <1>2, <1>4, <2>1, <2>3, SMT
    <3> QED BY <1>8, <2>3, <3>1, ZeroFacts
  <2>4. CASE ~(l < size) /\ ~(l < size + n)
    BY <1>2, <1>6, <1>8, <2>4
  <2> QED BY <2>2, <2>3, <2>4
<1> QED BY <1>1, <1>2, <1>3, <1>4, <1>7, <1>8, <1>9

\* The runs of m layers, n numbers in each, are the numbers up to n * m.
RunsPartition(n, m) ==
    /\ \A y \in 0 .. m - 1 : \A i \in 1 .. n : /\ y * n + i - 1 \in Nat
                                               /\ y * n + i - 1 < n * m
    /\ \A y, z \in 0 .. m - 1 : \A i, j \in 1 .. n :
          y * n + i - 1 = z * n + j - 1 => y = z /\ i = j
    /\ \A l \in 0 .. n * m - 1 :
          \E y \in 0 .. m - 1 : \E i \in 1 .. n : y * n + i - 1 = l

LEMMA RunFacts == \A n \in Nat : \A m \in Nat \ {0} : RunsPartition(n, m)
<1> SUFFICES ASSUME NEW n \in Nat, NEW m \in Nat \ {0}
             PROVE  RunsPartition(n, m)
  OBVIOUS
<1>1. ASSUME NEW y \in 0 .. m - 1, NEW i \in 1 .. n
      PROVE  y * n + i - 1 \in Nat /\ y * n + i - 1 < n * m
  <2>1. (y + 1) * n <= m * n /\ y * n \in Nat /\ (y + 1) * n = y * n + n /\ n * m = m * n
    BY ProductFacts, SMT
  <2>2. m * n \in Nat
    BY ProductFacts
  <2> QED BY <2>1, <2>2, SMT
<1>2. ASSUME NEW y \in 0 .. m - 1, NEW z \in 0 .. m - 1, NEW i \in 1 .. n, NEW j \in 1 .. n,
             y * n + i - 1 = z * n + j - 1
      PROVE  y = z /\ i = j
  <2>1. i - 1 \in 0 .. n - 1 /\ j - 1 \in 0 .. n - 1 /\ y \in Nat /\ z \in Nat
    BY SMT
  <2>2. y * n + (i - 1) = z * n + (j - 1)
    BY <1>2, <2>1, SMT
  <2>3. y = z /\ i - 1 = j - 1
    BY <2>1, <2>2, RunsAreApart
  <2> QED BY <2>3, SMT
<1>3. ASSUME NEW l \in 0 .. n * m - 1
      PROVE  \E y \in 0 .. m - 1 : \E i \in 1 .. n : y * n + i - 1 = l
  <2>1. n \in Nat \ {0} /\ l \in Nat
    BY SMT
  <2>2. l \div n \in Nat /\ l % n \in 0 .. n - 1 /\ l = (l \div n) * n + (l % n)
    BY <2>1, DivisionFacts
  <2>3. PICK q \in Nat, r \in 0 .. n - 1 : l = q * n + r
    BY <2>2
  <2>4. q \in 0 .. m - 1
    <3>1. ASSUME m <= q
          PROVE  FALSE
      <4>1. m * n <= q * n /\ m * n = n * m /\ m * n \in Nat /\ q * n \in Nat
        BY <3>1, ProductFacts
      <4> QED BY <2>3, <4>1, SMT
    <3> QED BY <3>1, SMT
  <2>5. r + 1 \in 1 .. n /\ q * n + (r + 1) - 1 = l
    BY <2>3, SMT
  <2> QED BY <2>4, <2>5
<1> QED BY <1>1, <1>2, <1>3 DEF RunsPartition

LEMMA PrefillAllocateKeeps ==
    ASSUME IInv, PrefillAllocate
    PROVE  IInv'
<1> DEFINE n == BlocksPerLayer
           m == shape.layers
<1>1. /\ TypeOK /\ LoopsInRange /\ BlocksNumbered /\ phase = "prefill" /\ Building
  BY DEF IInv, PrefillAllocate, Building
<1>2. /\ AllocateBlocks(n * m) /\ phase' = "map"
      /\ caches' = [l \in Layers |-> [i \in 1 .. n |-> FirstBlock(l) + i - 1]]
      /\ shape' = shape /\ layer' = layer /\ b' = b /\ total' = total /\ end' = end
      /\ writing' = writing
  BY DEF PrefillAllocate
<1>3. /\ m \in Nat \ {0} /\ n \in Nat /\ Layers = 0 .. m - 1 /\ Layers' = Layers
      /\ BlocksPerLayer' = n
  BY <1>1, <1>2, ShapeFacts DEF TypeOK, Layers, BlocksPerLayer, Ceiling
<1>4. Held = 0 /\ Held' = n
  BY <1>1, <1>2, <1>3 DEF Held
<1>5. size = 0
  <2>1. size = 0 * m
    BY <1>1, <1>4 DEF BlocksNumbered
  <2> QED BY <1>3, <2>1, SMT
<1>6. n * m \in Nat
  BY <1>3, ProductFacts
<1>7. /\ LogicalBlockCount = 0
      /\ size' = 0 + n * m /\ size' \in 0 .. MaxLvid /\ size' <= shape.blocks
      /\ memory' \in [Lvid -> Content \cup {Nil}]
      /\ \A l \in Lvid : memory'[l] # Nil <=> l < size'
  BY <1>1, <1>2, <1>5, <1>6, AllocateFacts
<1> HIDE DEF n, m
<1>8. size' = n * m
  BY <1>6, <1>7, SMT
<1>9. /\ \A y \in Layers : \A i \in 1 .. n : /\ y * n + i - 1 \in Nat
                                             /\ y * n + i - 1 < n * m
      /\ \A y, z \in Layers : \A i, j \in 1 .. n :
            y * n + i - 1 = z * n + j - 1 => y = z /\ i = j
      /\ \A l \in 0 .. n * m - 1 : \E y \in Layers : \E i \in 1 .. n : y * n + i - 1 = l
  <2>1. Layers = 0 .. m - 1 /\ n \in Nat /\ m \in Nat \ {0}
    BY <1>3
  <2>2. RunsPartition(n, m)
    BY <2>1, RunFacts
  <2> QED BY <2>1, <2>2 DEF RunsPartition
<1>10. \A y \in Layers : FirstBlock(y) = y * n
  <2>1. \A y \in Layers : FirstBlock(y) = 0 + y * n
    BY <1>7 DEF FirstBlock, n
  <2>2. \A y \in Layers : y * n \in Nat
    BY <1>3, ProductFacts
  <2>3. \A k \in Nat : 0 + k = k
    BY SMT
  <2> QED BY <2>1, <2>2, <2>3
<1>11. \A y \in Layers : caches'[y] = [i \in 1 .. n |-> y * n + i - 1]
  BY <1>2, <1>10
<1>12. \A y \in Layers : \A i \in 1 .. n : y * n + i - 1 \in Lvid
  <2>1. \A k \in Nat : k < n * m => k \in Lvid
    BY <1>6, <1>7, <1>8, BoundsAssumption, SMT DEF Lvid
  <2> QED BY <1>9, <2>1
<1>13. \A y \in Layers : caches'[y] \in Seq(Lvid) /\ Len(caches'[y]) = n
  <2> TAKE y \in Layers
  <2>1. caches'[y] \in [1 .. n -> Lvid]
    BY <1>11, <1>12
  <2>2. caches'[y] \in Seq(Lvid)
    BY <1>3, <2>1, SeqDef
  <2>3. Len(caches'[y]) \in Nat /\ DOMAIN caches'[y] = 1 .. Len(caches'[y])
    BY <2>2, LenProperties
  <2>4. 1 .. Len(caches'[y]) = 1 .. n
    BY <2>1, <2>3
  <2>5. \A k \in Nat : 1 .. k = 1 .. n => k = n
    BY <1>3, SMT
  <2> QED BY <2>2, <2>3, <2>4, <2>5
<1>14. TypeOK'
  <2>1. caches' \in [Layers -> Seq(Lvid)]
    <3>1. caches' = [y \in Layers |-> caches'[y]]
      BY <1>2
    <3> QED BY <1>13, <3>1
  <2> QED BY <1>1, <1>2, <1>3, <1>7, <2>1 DEF TypeOK
<1>15. LoopsInRange'
  BY <1>1, <1>2, <1>3 DEF LoopsInRange, Extended
<1>16. BlocksNumbered'
  BY <1>2, <1>4, <1>7, <1>8 DEF BlocksNumbered, m
<1>17. ListsPartition'
  <2>1. \A y \in Layers : \A i \in 1 .. n : caches'[y][i] = y * n + i - 1
    BY <1>11
  <2>2. /\ \A y \in Layers : \A i \in 1 .. n : caches'[y][i] < size'
        /\ \A y, z \in Layers : \A i, j \in 1 .. n :
              caches'[y][i] = caches'[z][j] => y = z /\ i = j
    BY <1>8, <1>9, <2>1
  <2>3. \A l \in 0 .. size' - 1 : \E y \in Layers : \E i \in 1 .. n : caches'[y][i] = l
    <3> TAKE l \in 0 .. size' - 1
    <3>1. PICK y \in Layers, i \in 1 .. n : y * n + i - 1 = l
      BY <1>8, <1>9
    <3> QED BY <2>1, <3>1
  <2>4. \A y \in Layers : Len(caches'[y]) = n
    BY <1>13
  <2>5. /\ \A y \in Layers' : Len(caches'[y]) = Held'
        /\ \A y \in Layers' : \A i \in 1 .. Held' : caches'[y][i] < size'
        /\ \A y, z \in Layers' : \A i, j \in 1 .. Held' :
              caches'[y][i] = caches'[z][j] => y = z /\ i = j
        /\ \A l \in 0 .. size' - 1 :
              \E y \in Layers' : \E i \in 1 .. Held' : caches'[y][i] = l
    BY <1>3, <1>4, <2>2, <2>3, <2>4
  <2> QED BY <2>5 DEF ListsPartition
<1>18. TokensInPlace'
  <2>1. layer = 0
    BY <1>1 DEF LoopsInRange
  <2>2. \A y \in Layers : ~(y < 0)
    BY <1>3, SMT
  <2>3. \A y \in Layers' : TokensOf(y)' = 0
    BY <1>2, <1>3, <2>1, <2>2 DEF TokensOf
  <2>4. 0 .. 0 - 1 = {}
    BY SMT
  <2> QED BY <2>3, <2>4 DEF TokensInPlace
<1>19. MappedForWriting'
  <2>1. writing = {}
    BY <1>1 DEF IInv, MappedForWriting
  <2> QED BY <1>2, <2>1 DEF MappedForWriting
<1>20. PrefixInPlace' /\ ReleasedBelow' /\ NothingLeftBehind' /\ EnoughIsEnough'
  BY <1>2 DEF PrefixInPlace, ReleasedBelow, NothingLeftBehind, EnoughIsEnough
<1> QED BY <1>14, <1>15, <1>16, <1>17, <1>18, <1>19, <1>20 DEF IInv

\* A new block at the end of every list: layer y gets the y-th of the new numbers.
LEMMA DecodeExtendKeeps ==
    ASSUME IInv, DecodeExtend
    PROVE  IInv'
<1> DEFINE m == shape.layers
           h == total \div shape.perBlock
<1>1. /\ TypeOK /\ LoopsInRange /\ BlocksNumbered /\ ListsPartition /\ TokensInPlace
      /\ phase = "decode" /\ Building /\ total < shape.prompt + shape.decode
      /\ total % shape.perBlock = 0
  BY DEF IInv, DecodeExtend, Building, Decoding, NeedsBlock, SlotInBlock
<1>2. /\ AllocateBlocks(m) /\ phase' = "read"
      /\ caches' = [l \in Layers |-> Append(caches[l], LogicalBlockCount + l)]
      /\ shape' = shape /\ layer' = layer /\ b' = b /\ total' = total /\ end' = end
      /\ writing' = writing
  BY DEF DecodeExtend
<1>3. /\ m \in Nat \ {0} /\ Layers = 0 .. m - 1 /\ Layers' = Layers
      /\ shape.perBlock \in Nat \ {0} /\ total \in Nat /\ h \in Nat /\ MaxLvid \in Nat
  BY <1>1, <1>2, ShapeFacts, DivisionFacts DEF TypeOK, Layers
<1>4. Held = h /\ Held' = h + 1
  <2>1. Held = Ceiling(total)
    BY <1>1 DEF Held, Extended
  <2>2. Ceiling(total) = h
    BY <1>1, <1>3, CeilingFacts DEF Ceiling
  <2> QED BY <1>2, <2>1, <2>2 DEF Held, Extended
<1>5. /\ LogicalBlockCount = size
      /\ size' = size + m /\ size' \in 0 .. MaxLvid /\ size' <= shape.blocks
      /\ memory' \in [Lvid -> Content \cup {Nil}]
      /\ \A l \in Lvid : memory'[l] # Nil <=> l < size'
      /\ \A l \in Lvid : l < size => memory'[l] = memory[l]
  BY <1>1, <1>2, <1>3, AllocateFacts
<1>6. size \in Nat /\ size = h * m
  BY <1>1, <1>3, <1>4, ProductFacts DEF BlocksNumbered
<1>7. \A y \in Layers :
         /\ caches[y] \in Seq(Lvid) /\ Len(caches[y]) = h
         /\ \A i \in 1 .. h : caches[y][i] \in Lvid /\ caches[y][i] < size
  BY <1>1, <1>4, ListFacts
<1> HIDE DEF m, h
<1>8. \A y \in Layers : size + y \in Lvid /\ size + y < size' /\ ~(size + y < size)
  BY <1>3, <1>5, <1>6, SMT DEF Lvid
<1>9. \A y \in Layers :
         /\ caches'[y] \in Seq(Lvid) /\ Len(caches'[y]) = h + 1
         /\ \A i \in 1 .. h : caches'[y][i] = caches[y][i]
         /\ caches'[y][h + 1] = size + y
  <2> TAKE y \in Layers
  <2>1. caches'[y] = Append(caches[y], size + y)
    BY <1>2, <1>5
  <2> QED BY <1>7, <1>8, <2>1, AppendProperties
<1>10. \A i \in 1 .. h + 1 : i \in 1 .. h \/ i = h + 1
  BY <1>3, SMT
<1>11. TypeOK'
  <2>1. caches' \in [Layers -> Seq(Lvid)]
    <3>1. caches' = [y \in Layers |-> caches'[y]]
      BY <1>2
    <3> QED BY <1>9, <3>1
  <2> QED BY <1>1, <1>2, <1>3, <1>5, <2>1 DEF TypeOK
<1>12. LoopsInRange'
  BY <1>1, <1>2, <1>3 DEF LoopsInRange, Extended
<1>13. BlocksNumbered'
  <2>1. size' = (h + 1) * m
    BY <1>3, <1>5, <1>6, ProductFacts
  <2> QED BY <1>2, <1>4, <1>5, <2>1 DEF BlocksNumbered, m
<1>14. ListsPartition'
  <2>1. \A y \in Layers : \A i \in 1 .. h + 1 : caches'[y][i] < size'
    <3> TAKE y \in Layers
    <3> TAKE i \in 1 .. h + 1
    <3>1. CASE i \in 1 .. h
      <4>1. caches'[y][i] \in Lvid /\ caches'[y][i] < size
        BY <1>7, <1>9, <3>1
      <4>2. \A k \in Lvid : k < size => k < size'
        BY <1>3, <1>5, <1>6, SMT DEF Lvid
      <4> QED BY <4>1, <4>2
    <3>2. CASE i = h + 1
      BY <1>8, <1>9, <3>2
    <3> QED BY <1>10, <3>1, <3>2
  <2>2. ASSUME NEW y \in Layers, NEW z \in Layers,
               NEW i \in 1 .. h + 1, NEW j \in 1 .. h + 1, caches'[y][i] = caches'[z][j]
        PROVE  y = z /\ i = j
    <3>1. CASE i \in 1 .. h /\ j \in 1 .. h
      <4>1. caches[y][i] = caches[z][j]
        BY <1>9, <2>2, <3>1
      <4> QED BY <1>1, <1>4, <3>1, <4>1 DEF ListsPartition
    <3>2. CASE i \in 1 .. h /\ j = h + 1
      <4>1. caches[y][i] = size + z /\ caches[y][i] < size
        BY <1>7, <1>9, <2>2, <3>2
      <4> QED BY <1>8, <4>1
    <3>3. CASE i = h + 1 /\ j \in 1 .. h
      <4>1. caches[z][j] = size + y /\ caches[z][j] < size
        BY <1>7, <1>9, <2>2, <3>3
      <4> QED BY <1>8, <4>1
    <3>4. CASE i = h + 1 /\ j = h + 1
      <4>1. size + y = size + z
        BY <1>9, <2>2, <3>4
      <4> QED BY <1>3, <1>6, <3>4, <4>1, SMT
    <3> QED BY <1>10, <3>1, <3>2, <3>3, <3>4
  <2>3. ASSUME NEW l \in 0 .. size' - 1
        PROVE  \E y \in Layers : \E i \in 1 .. h + 1 : caches'[y][i] = l
    <3>1. CASE l < size
      <4>1. l \in 0 .. size - 1
        BY <1>5, <1>6, <3>1, SMT
      <4>2. PICK y \in Layers, i \in 1 .. h : caches[y][i] = l
        BY <1>1, <1>4, <4>1 DEF ListsPartition
      <4>3. i \in 1 .. h + 1
        BY <1>3, SMT
      <4> QED BY <1>9, <4>2, <4>3
    <3>2. CASE ~(l < size)
      <4>1. l - size \in Layers /\ size + (l - size) = l /\ h + 1 \in 1 .. h + 1
        BY <1>3, <1>5, <1>6, <3>2, SMT
      <4> QED BY <1>9, <4>1
    <3> QED BY <3>1, <3>2
  <2> QED BY <1>3, <1>4, <1>9, <2>1, <2>2, <2>3 DEF ListsPartition
<1>15. TokensInPlace'
  <2>1. \A y \in Layers : TokensOf(y) = total /\ TokensOf(y)' = total
    BY <1>1, <1>2 DEF TokensOf
  <2>2. ASSUME NEW y \in Layers, NEW t \in 0 .. total - 1
        PROVE  InPlace(y, t)'
    <3>1. InPlace(y, t)
      BY <1>1, <2>1, PlacedTokens
    <3> DEFINE i == t \div shape.perBlock + 1
               s == t % shape.perBlock
    <3>2. i \in DOMAIN caches[y] /\ memory[caches[y][i]][s] = <<y, t>>
      BY <3>1 DEF InPlace
    <3> HIDE DEF i, s
    <3>3. i \in 1 .. h
      BY <1>7, <3>2, LenProperties
    <3>4. memory'[caches'[y][i]] = memory[caches[y][i]]
      BY <1>5, <1>7, <1>9, <3>3
    <3>5. i \in DOMAIN caches'[y]
      <4>1. i \in 1 .. h + 1
        BY <1>3, <3>3, SMT
      <4> QED BY <1>9, <4>1, LenProperties
    <3>6. i \in DOMAIN caches'[y] /\ memory'[caches'[y][i]][s] = <<y, t>>
      BY <3>2, <3>4, <3>5
    <3> QED BY <1>2, <3>6 DEF InPlace, i, s
  <2>3. \A y \in Layers' : \A t \in 0 .. TokensOf(y)' - 1 : InPlace(y, t)'
    BY <1>3, <2>1, <2>2
  <2> QED BY <2>3 DEF TokensInPlace, InPlace
<1>16. MappedForWriting'
  <2>1. writing = {}
    BY <1>1 DEF IInv, MappedForWriting
  <2> QED BY <1>2, <2>1 DEF MappedForWriting
<1>17. PrefixInPlace' /\ ReleasedBelow' /\ NothingLeftBehind' /\ EnoughIsEnough'
  BY <1>2 DEF PrefixInPlace, ReleasedBelow, NothingLeftBehind, EnoughIsEnough
<1> QED BY <1>11, <1>12, <1>13, <1>14, <1>15, <1>16, <1>17 DEF IInv

-----------------------------------------------------------------------------
(* Storing to blocks *)

LEMMA StoreFacts ==
    ASSUME TypeOK, BlocksNumbered, ListsPartition, Building, NEW k \in Lvid, k < size,
           NEW v \in Content, memory' = [memory EXCEPT ![k] = v],
           UNCHANGED <<shape, caches, size>>, Held' = Held
    PROVE  /\ memory' \in [Lvid -> Content \cup {Nil}]
           /\ memory'[k] = v
           /\ BlocksNumbered' /\ ListsPartition'
<1>1. /\ shape' = shape /\ caches' = caches /\ size' = size /\ Layers' = Layers
      /\ memory \in [Lvid -> Content \cup {Nil}]
  BY DEF Layers, TypeOK
<1>2. memory' \in [Lvid -> Content \cup {Nil}] /\ memory'[k] = v
  BY <1>1
<1>3. \A l \in Lvid : memory'[l] # Nil <=> l < size
  <2>1. v # Nil
    BY NilAssumption
  <2>2. \A l \in Lvid : memory[l] # Nil <=> l < size
    BY DEF BlocksNumbered
  <2>3. \A l \in Lvid : l # k => memory'[l] = memory[l]
    BY <1>1
  <2> QED BY <1>2, <2>1, <2>2, <2>3
<1>4. BlocksNumbered'
  BY <1>1, <1>3 DEF BlocksNumbered
<1>5. ListsPartition'
  BY <1>1 DEF ListsPartition
<1> QED BY <1>2, <1>4, <1>5

\* A token in another block, or in another slot of the block, stays.
LEMMA StoredElsewhere ==
    ASSUME TypeOK, NEW y, NEW t, InPlace(y, t), NEW k \in Lvid, NEW v,
           memory' = [memory EXCEPT ![k] = v], UNCHANGED <<shape, caches>>,
           \/ caches[y][t \div shape.perBlock + 1] # k
           \/ v[t % shape.perBlock] = memory[k][t % shape.perBlock],
           caches[y][t \div shape.perBlock + 1] \in Lvid
    PROVE  InPlace(y, t)'
<1> DEFINE i == t \div shape.perBlock + 1
           s == t % shape.perBlock
<1>1. i \in DOMAIN caches[y] /\ memory[caches[y][i]][s] = <<y, t>>
  BY DEF InPlace
<1>2. memory'[caches[y][i]] = IF caches[y][i] = k THEN v ELSE memory[caches[y][i]]
  BY DEF TypeOK
<1>3. memory'[caches[y][i]][s] = <<y, t>>
  BY <1>1, <1>2
<1> HIDE DEF i, s
<1>4. i \in DOMAIN caches'[y] /\ memory'[caches'[y][i]][s] = <<y, t>>
  BY <1>1, <1>3
<1> QED BY <1>4 DEF InPlace, i, s

\* The block that prefill writes to, and what it makes of it
LEMMA PrefillWriteFacts ==
    ASSUME IInv, PrefillWrite
    PROVE  /\ Held = BlocksPerLayer /\ b \in Nat /\ b + 1 \in 1 .. Held
           /\ caches[layer][b + 1] \in Lvid /\ caches[layer][b + 1] < size
           /\ \E v \in Content :
                 /\ memory' = [memory EXCEPT ![caches[layer][b + 1]] = v]
                 /\ \A slot \in Slot :
                       slot < ValidTokens => v[slot] = <<layer, b * shape.perBlock + slot>>
<1> DEFINE k == caches[layer][b + 1]
           v == [slot \in Slot |-> IF slot < ValidTokens
                                   THEN <<layer, b * shape.perBlock + slot>>
                                   ELSE memory[k][slot]]
<1>1. /\ TypeOK /\ LoopsInRange /\ BlocksNumbered /\ ListsPartition /\ Building
      /\ phase = "write" /\ b < BlocksPerLayer /\ layer \in Layers /\ b \in Nat
  BY DEF IInv, PrefillWrite, Building, LoopsInRange, TypeOK
<1>2. Held = BlocksPerLayer
  BY <1>1 DEF Held
<1>3. /\ shape.perBlock \in Nat \ {0} /\ shape.prompt \in Nat /\ shape.layers \in Nat
      /\ shape.prompt <= MaxPrompt /\ shape.layers <= MaxLayers
      /\ MaxPrompt \in Nat /\ MaxDecode \in Nat /\ MaxLayers \in Nat
      /\ BlocksPerLayer \in Nat
  BY <1>1, ShapeFacts DEF TypeOK
<1>4. b + 1 \in 1 .. Held
  BY <1>1, <1>2, <1>3, SMT
<1>5. k \in Lvid /\ k < size
  BY <1>1, <1>4, ListFacts
<1>6. memory[k] \in Content
  <2>1. memory[k] # Nil
    BY <1>1, <1>5 DEF BlocksNumbered
  <2> QED BY <1>1, <1>5, <2>1 DEF TypeOK
<1>7. memory' = [memory EXCEPT ![k] = v]
  BY DEF PrefillWrite
<1>8. v \in Content
  <2>1. \A slot \in Slot : memory[k][slot] \in Entry \cup {Nil}
    BY <1>6 DEF Content
  <2>2. ASSUME NEW slot \in Slot, slot < ValidTokens
        PROVE  <<layer, b * shape.perBlock + slot>> \in Entry
    <3>1. slot \in Nat /\ b * shape.perBlock \in Nat
      BY <1>1, <1>3, ProductFacts, BoundsAssumption, SMT DEF Slot
    <3>2. slot < shape.prompt - b * shape.perBlock
      BY <1>3, <2>2, <3>1, SMT DEF ValidTokens
    <3>3. b * shape.perBlock + slot \in 0 .. MaxPrompt + MaxDecode - 1
      BY <1>3, <3>1, <3>2, SMT
    <3>4. layer \in 0 .. MaxLayers - 1
      BY <1>1, <1>3, SMT DEF Layers
    <3> QED BY <3>3, <3>4 DEF Entry
  <2> QED BY <2>1, <2>2 DEF Content
<1>9. \A slot \in Slot :
         slot < ValidTokens => v[slot] = <<layer, b * shape.perBlock + slot>>
  OBVIOUS
<1> HIDE DEF v
<1> QED BY <1>1, <1>2, <1>4, <1>5, <1>7, <1>8, <1>9

LEMMA PrefillWriteKeeps ==
    ASSUME IInv, PrefillWrite
    PROVE  IInv'
<1> DEFINE k == caches[layer][b + 1]
<1>1. /\ TypeOK /\ LoopsInRange /\ BlocksNumbered /\ ListsPartition /\ TokensInPlace
      /\ PrefixInPlace /\ Building
      /\ phase = "write" /\ b < BlocksPerLayer /\ layer \in Layers
  BY DEF IInv, PrefillWrite, Building, LoopsInRange
<1>2. /\ shape' = shape /\ phase' = "write" /\ layer' = layer /\ b' = b + 1
      /\ total' = total /\ end' = end /\ caches' = caches /\ size' = size
      /\ writing' = writing
  BY DEF PrefillWrite
<1>3. PICK v \in Content :
         /\ memory' = [memory EXCEPT ![k] = v]
         /\ \A slot \in Slot :
               slot < ValidTokens => v[slot] = <<layer, b * shape.perBlock + slot>>
  BY PrefillWriteFacts
<1>4. /\ Held = BlocksPerLayer /\ b \in Nat /\ b + 1 \in 1 .. Held
      /\ k \in Lvid /\ k < size
  BY PrefillWriteFacts
<1>5. /\ shape.perBlock \in Nat \ {0} /\ shape.prompt \in Nat /\ shape.layers \in Nat
      /\ BlocksPerLayer \in Nat
  BY <1>1, ShapeFacts DEF TypeOK
<1>6. Layers' = Layers /\ BlocksPerLayer' = BlocksPerLayer /\ Held' = Held
  BY <1>1, <1>2 DEF Layers, BlocksPerLayer, Ceiling, Held
<1>7. /\ memory' \in [Lvid -> Content \cup {Nil}]
      /\ memory'[k] = v
      /\ BlocksNumbered' /\ ListsPartition'
  BY <1>1, <1>2, <1>3, <1>4, <1>6, StoreFacts
<1> HIDE DEF k
<1>8. TypeOK'
  <2>1. b' \in Nat
    BY <1>2, <1>4, SMT
  <2> QED BY <1>1, <1>2, <1>6, <1>7, <2>1 DEF TypeOK
<1>9. LoopsInRange'
  <2>1. b' <= BlocksPerLayer
    BY <1>1, <1>2, <1>4, <1>5, SMT
  <2> QED BY <1>1, <1>2, <1>6, <2>1 DEF LoopsInRange, Extended
\* a token that is in place elsewhere stays
<1>10. ASSUME NEW y \in Layers, NEW t \in Nat, InPlace(y, t),
              y # layer \/ t \div shape.perBlock < b
       PROVE  InPlace(y, t)'
  <2> DEFINE i == t \div shape.perBlock + 1
  <2>1. i \in 1 .. Held
    BY <1>1, <1>10, ListFacts DEF InPlace
  <2>2. t \div shape.perBlock \in Nat
    BY <1>1, TokenFacts DEF TypeOK
  <2>3. y # layer \/ i # b + 1
    BY <1>4, <1>10, <2>2, SMT
  <2>4. caches[y][i] # k /\ caches[y][i] \in Lvid
    <3> HIDE DEF i
    <3>1. caches[y][i] \in Lvid
      BY <1>1, <2>1, ListFacts
    <3>2. caches[y][i] # caches[layer][b + 1]
      BY <1>1, <1>4, <2>1, <2>3 DEF ListsPartition
    <3> QED BY <3>1, <3>2 DEF k
  <2> QED BY <1>1, <1>2, <1>3, <1>4, <1>10, <2>4, StoredElsewhere
<1>11. TokensInPlace'
  <2>1. \A y \in Layers : /\ TokensOf(y) = IF y < layer THEN shape.prompt ELSE 0
                          /\ TokensOf(y)' = TokensOf(y)
    BY <1>1, <1>2 DEF TokensOf
  <2>2. ASSUME NEW y \in Layers, NEW t \in 0 .. TokensOf(y) - 1
        PROVE  InPlace(y, t)'
    <3>1. InPlace(y, t)
      BY <1>1, PlacedTokens
    <3>2. y # layer /\ t \in Nat
      <4>1. y < layer
        <5>1. 0 .. 0 - 1 = {}
          BY SMT
        <5> QED BY <2>1, <2>2, <5>1
      <4>2. TokensOf(y) = shape.prompt
        BY <2>1, <4>1
      <4> QED BY <1>1, <1>5, <4>1, <4>2, SMT DEF Layers
    <3> QED BY <1>10, <3>1, <3>2
  <2>3. \A y \in Layers' : \A t \in 0 .. TokensOf(y)' - 1 : InPlace(y, t)'
    BY <1>6, <2>1, <2>2
  <2> QED BY <2>3 DEF TokensInPlace, InPlace
<1>12. PrefixInPlace'
  <2> PICK y \in Layers : y = layer
    BY <1>1
  <2>1. ASSUME NEW t \in 0 .. shape.prompt - 1, t \div shape.perBlock < b + 1
        PROVE  InPlace(y, t)'
    <3> DEFINE q == t \div shape.perBlock
               s == t % shape.perBlock
    <3>1. t \in Nat /\ t < shape.prompt
      BY <1>5, SMT
    <3>2. q \in Nat /\ s \in Slot /\ s < shape.perBlock /\ t = q * shape.perBlock + s
          /\ s \in Nat
      BY <1>1, <3>1, TokenFacts DEF TypeOK
    <3>3. CASE q < b
      <4>1. InPlace(y, t)
        BY <1>1, <3>3 DEF PrefixInPlace
      <4> QED BY <1>1, <1>10, <3>1, <3>3, <4>1
    <3>4. CASE ~(q < b)
      <4> HIDE DEF q, s
      <4>1. q = b
        BY <1>4, <2>1, <3>2, <3>4, SMT DEF q
      <4>2. s < ValidTokens
        <5>1. b * shape.perBlock \in Nat /\ t = b * shape.perBlock + s
          BY <1>4, <1>5, <3>2, <4>1, ProductFacts
        <5>2. s < shape.prompt - b * shape.perBlock
          BY <1>5, <3>1, <3>2, <5>1, SMT
        <5> QED BY <3>2, <5>2 DEF ValidTokens
      <4>3. memory'[caches'[y][q + 1]][s] = <<y, t>>
        <5>1. memory'[caches'[y][q + 1]] = v
          BY <1>2, <1>7, <4>1 DEF k
        <5> QED BY <1>3, <3>2, <4>1, <4>2, <5>1
      <4>4. q + 1 \in DOMAIN caches'[y]
        BY <1>1, <1>2, <1>4, <4>1, ListFacts
      <4> QED BY <1>2, <4>3, <4>4 DEF InPlace, q, s
    <3> QED BY <3>3, <3>4
  <2> QED BY <1>2, <2>1 DEF PrefixInPlace, InPlace
<1>13. MappedForWriting'
  <2>1. writing = Blocks(layer)
    BY <1>1 DEF IInv, MappedForWriting
  <2> QED BY <1>2, <2>1 DEF MappedForWriting, Blocks
<1>14. ReleasedBelow' /\ NothingLeftBehind' /\ EnoughIsEnough'
  BY <1>2 DEF ReleasedBelow, NothingLeftBehind, EnoughIsEnough
<1> QED BY <1>7, <1>8, <1>9, <1>11, <1>12, <1>13, <1>14 DEF IInv

\* The block that the next token goes to is the last of every list.
LEMMA TailFacts ==
    ASSUME IInv, Extended
    PROVE  /\ Building /\ Held = total \div shape.perBlock + 1 /\ Held \in Nat \ {0}
           /\ total \in Nat /\ total < shape.prompt + shape.decode
           /\ SlotInBlock \in Slot
           /\ \A y \in Layers : /\ LastBlock(y) = caches[y][Held]
                                /\ LastBlock(y) \in Lvid /\ LastBlock(y) < size
                                /\ memory[LastBlock(y)] \in Content
           /\ \A y \in Layers : \A i \in 1 .. Held :
                 caches[y][i] \in Lvid /\ caches[y][i] < size
<1>1. /\ TypeOK /\ LoopsInRange /\ BlocksNumbered /\ ListsPartition /\ Building
      /\ shape \in Shape
  BY DEF IInv, Building, Extended, TypeOK
<1>2. total \in Nat /\ total < shape.prompt + shape.decode
  BY <1>1 DEF TypeOK, LoopsInRange
<1>3. total \div shape.perBlock \in Nat /\ total % shape.perBlock \in Slot
  BY <1>1, <1>2, TokenFacts
<1>4. Held = total \div shape.perBlock + 1
  BY DEF Held, Extended
<1>5. Held \in Nat \ {0} /\ Held \in 1 .. Held
  BY <1>3, <1>4, SMT
<1>6. \A y \in Layers : \A i \in 1 .. Held : caches[y][i] \in Lvid /\ caches[y][i] < size
  BY <1>1, ListFacts
<1>7. \A y \in Layers : LastBlock(y) = caches[y][Held]
  BY <1>1, ListFacts DEF LastBlock
<1>8. \A l \in Lvid : l < size => memory[l] \in Content
  BY <1>1 DEF TypeOK, BlocksNumbered
<1> QED BY <1>1, <1>2, <1>3, <1>4, <1>5, <1>6, <1>7, <1>8 DEF SlotInBlock

LEMMA EntryFacts ==
    ASSUME TypeOK, NEW y \in Layers, total < shape.prompt + shape.decode
    PROVE  <<y, total>> \in Entry
<1>1. /\ shape.layers \in Nat /\ shape.layers <= MaxLayers /\ MaxLayers \in Nat
      /\ shape.prompt \in Nat /\ shape.prompt <= MaxPrompt /\ MaxPrompt \in Nat
      /\ shape.decode \in Nat /\ shape.decode <= MaxDecode /\ MaxDecode \in Nat
      /\ total \in Nat
  BY ShapeFacts DEF TypeOK
<1>2. y \in 0 .. MaxLayers - 1 /\ total \in 0 .. MaxPrompt + MaxDecode - 1
  BY <1>1, SMT DEF Layers
<1> QED BY <1>2 DEF Entry

LEMMA WriteTailFacts ==
    ASSUME IInv, WriteTail
    PROVE  \E v \in Content :
              /\ v = [memory[LastBlock(layer)] EXCEPT ![SlotInBlock] = <<layer, total>>]
              /\ memory' = [memory EXCEPT ![LastBlock(layer)] = v]
<1>1. TypeOK /\ Extended /\ layer \in Layers
  BY DEF IInv, WriteTail, Extended, LoopsInRange
<1>2. /\ LastBlock(layer) \in Lvid /\ memory[LastBlock(layer)] \in Content
      /\ SlotInBlock \in Slot /\ total < shape.prompt + shape.decode
  BY <1>1, TailFacts
<1>3. <<layer, total>> \in Entry
  BY <1>1, <1>2, EntryFacts
<1> DEFINE k == LastBlock(layer)
           v == [memory[k] EXCEPT ![SlotInBlock] = <<layer, total>>]
<1>4. v \in Content
  BY <1>2, <1>3 DEF Content
<1>5. memory' = [memory EXCEPT ![k] = v]
  BY DEF WriteTail
<1> HIDE DEF v
<1>6. \E w \in Content : w = v /\ memory' = [memory EXCEPT ![k] = w]
  BY <1>4, <1>5
<1> QED BY <1>6 DEF v, k

LEMMA NextLayerFacts ==
    ASSUME layer \in Layers, shape \in Shape, NEW body, NEW after, NextLayer(body, after),
           shape' = shape
    PROVE  /\ layer' \in Layers' /\ layer' \in 0 .. MaxLayers /\ Layers' = Layers
           /\ \/ layer + 1 < shape.layers /\ layer' = layer + 1 /\ phase' = body
              \/ /\ layer' = 0 /\ phase' = after
                 /\ \A y \in Layers : y < layer \/ y = layer
           /\ \A y \in Layers : y < layer + 1 <=> y < layer \/ y = layer
<1>1. /\ shape.layers \in Nat \ {0} /\ shape.layers <= MaxLayers /\ MaxLayers \in Nat
      /\ Layers = 0 .. shape.layers - 1 /\ Layers' = Layers
  BY ShapeFacts DEF Layers
<1>2. \A y \in Layers : y < layer + 1 <=> y < layer \/ y = layer
  BY <1>1, SMT
<1>3. CASE layer + 1 < shape.layers
  <2>1. layer' = layer + 1 /\ phase' = body
    BY <1>3 DEF NextLayer
  <2>2. layer' \in Layers /\ layer' \in 0 .. MaxLayers
    BY <1>1, <1>3, <2>1, SMT
  <2> QED BY <1>1, <1>2, <1>3, <2>1, <2>2
<1>4. CASE ~(layer + 1 < shape.layers)
  <2>1. layer' = 0 /\ phase' = after
    BY <1>4 DEF NextLayer
  <2>2. 0 \in Layers /\ 0 \in 0 .. MaxLayers
    BY <1>1, SMT
  <2>3. \A y \in Layers : y < layer \/ y = layer
    BY <1>1, <1>4, SMT
  <2> QED BY <1>1, <1>2, <2>1, <2>2, <2>3
<1> QED BY <1>3, <1>4

LEMMA WriteTailKeeps ==
    ASSUME IInv, WriteTail
    PROVE  IInv'
<1> DEFINE k == LastBlock(layer)
           h == total \div shape.perBlock
<1>1. /\ TypeOK /\ LoopsInRange /\ BlocksNumbered /\ ListsPartition /\ TokensInPlace
      /\ Building /\ Extended /\ phase = "writeTails" /\ layer \in Layers /\ shape \in Shape
  BY DEF IInv, WriteTail, Building, Extended, LoopsInRange, TypeOK
<1>2. /\ shape' = shape /\ b' = b /\ total' = total /\ end' = end /\ caches' = caches
      /\ size' = size /\ writing' = writing /\ NextLayer("writeTails", "unmapTails")
  BY DEF WriteTail
<1>3. PICK v \in Content :
         /\ v = [memory[k] EXCEPT ![SlotInBlock] = <<layer, total>>]
         /\ memory' = [memory EXCEPT ![k] = v]
  BY WriteTailFacts
<1>4. /\ Held = h + 1 /\ Held \in Nat \ {0} /\ total \in Nat
      /\ total < shape.prompt + shape.decode /\ SlotInBlock \in Slot
      /\ \A y \in Layers : LastBlock(y) = caches[y][Held]
      /\ \A y \in Layers : \A i \in 1 .. Held : caches[y][i] \in Lvid /\ caches[y][i] < size
      /\ k \in Lvid /\ k < size /\ memory[k] \in Content
  BY <1>1, TailFacts
<1>5. /\ layer' \in Layers /\ layer' \in 0 .. MaxLayers /\ Layers' = Layers
      /\ \/ layer' = layer + 1 /\ phase' = "writeTails"
         \/ /\ layer' = 0 /\ phase' = "unmapTails"
            /\ \A y \in Layers : y < layer \/ y = layer
      /\ \A y \in Layers : y < layer + 1 <=> y < layer \/ y = layer
  BY <1>1, <1>2, NextLayerFacts
<1>6. Held' = Held
  BY <1>1, <1>2, <1>5 DEF Held, Extended
<1>7. /\ memory' \in [Lvid -> Content \cup {Nil}]
      /\ memory'[k] = v
      /\ BlocksNumbered' /\ ListsPartition'
  BY <1>1, <1>2, <1>3, <1>4, <1>6, StoreFacts
<1>8. Held \in 1 .. Held
  BY <1>4, SMT
<1> HIDE DEF k
<1>9. TypeOK'
  BY <1>1, <1>2, <1>5, <1>7 DEF TypeOK
<1>10. LoopsInRange'
  BY <1>1, <1>2, <1>4, <1>5 DEF LoopsInRange, Extended
<1>11. ASSUME NEW y \in Layers, y = layer, NEW t \in Nat, t = total
       PROVE  InPlace(y, t)'
  <2>1. v[t % shape.perBlock] = <<y, t>>
    BY <1>3, <1>4, <1>11 DEF Content, SlotInBlock
  <2>2. memory'[caches'[y][h + 1]] = v
    BY <1>1, <1>2, <1>4, <1>7, <1>11 DEF k
  <2>3. h + 1 \in DOMAIN caches'[y]
    BY <1>1, <1>2, <1>4, <1>8, <1>11, ListFacts
  <2> QED BY <1>2, <1>11, <2>1, <2>2, <2>3 DEF InPlace
<1>12. ASSUME NEW y \in Layers, NEW t \in 0 .. total, InPlace(y, t), y # layer \/ t # total
       PROVE  InPlace(y, t)'
  <2> DEFINE i == t \div shape.perBlock + 1
             s == t % shape.perBlock
  <2>1. i \in 1 .. Held
    BY <1>1, <1>12, ListFacts DEF InPlace
  <2>2. t \in Nat
    BY <1>4, SMT
  <2>3. caches[y][i] \in Lvid
    BY <1>4, <2>1
  <2>4. \/ caches[y][i] # k
        \/ v[s] = memory[k][s]
    <3>1. CASE y # layer \/ i # Held
      <4> HIDE DEF i
      <4>1. caches[y][i] # caches[layer][Held]
        BY <1>1, <1>8, <2>1, <3>1 DEF ListsPartition
      <4> QED BY <1>1, <1>4, <4>1 DEF k
    <3>2. CASE y = layer /\ i = Held
      <4>1. /\ t \div shape.perBlock \in Nat /\ h \in Nat
            /\ t = (t \div shape.perBlock) * shape.perBlock + (t % shape.perBlock)
            /\ total = h * shape.perBlock + (total % shape.perBlock)
        BY <1>1, <1>4, <2>2, TokenFacts
      <4>2. t \div shape.perBlock = h
        BY <1>4, <3>2, <4>1, SMT
      <4>3. t # total
        BY <1>12, <3>2
      <4>4. s # SlotInBlock
        BY <4>1, <4>2, <4>3 DEF SlotInBlock
      <4>5. s \in Slot
        BY <1>1, <2>2, TokenFacts
      <4> HIDE DEF s
      <4> QED BY <1>3, <1>4, <4>4, <4>5 DEF Content
    <3> QED BY <3>1, <3>2
  <2> QED BY <1>1, <1>2, <1>3, <1>4, <1>12, <2>3, <2>4, StoredElsewhere
<1>13. TokensInPlace'
  <2>1. ASSUME NEW y \in Layers
        PROVE  /\ TokensOf(y) = IF y < layer THEN total + 1 ELSE total
               /\ TokensOf(y)' = IF y < layer \/ y = layer THEN total + 1 ELSE total
    <3>1. TokensOf(y) = IF y < layer THEN total + 1 ELSE total
      BY <1>1 DEF TokensOf
    <3>2. CASE layer' = layer + 1 /\ phase' = "writeTails"
      BY <1>2, <1>5, <3>1, <3>2 DEF TokensOf
    <3>3. CASE /\ layer' = 0 /\ phase' = "unmapTails"
               /\ \A z \in Layers : z < layer \/ z = layer
      BY <1>2, <3>1, <3>3 DEF TokensOf
    <3> QED BY <1>5, <3>2, <3>3
  <2>2. ASSUME NEW y \in Layers, NEW t \in 0 .. TokensOf(y)' - 1
        PROVE  InPlace(y, t)'
    <3>1. t \in 0 .. total
      BY <1>4, <2>1, SMT
    <3>2. CASE y = layer /\ t = total
      BY <1>4, <1>11, <3>2
    <3>3. CASE y # layer \/ t # total
      <4>1. t \in 0 .. TokensOf(y) - 1
        <5>1. CASE y < layer
          BY <1>4, <2>1, <3>1, <5>1, SMT
        <5>2. CASE y = layer /\ ~(y < layer)
          BY <1>4, <2>1, <3>1, <3>3, <5>2, SMT
        <5>3. CASE y # layer /\ ~(y < layer)
          <6>1. TokensOf(y)' = total /\ TokensOf(y) = total
            BY <2>1, <5>3
          <6> QED BY <6>1
        <5> QED BY <5>1, <5>2, <5>3
      <4>2. InPlace(y, t)
        BY <1>1, <4>1, PlacedTokens
      <4> QED BY <1>12, <3>1, <3>3, <4>2
    <3> QED BY <3>2, <3>3
  <2>3. \A y \in Layers' : \A t \in 0 .. TokensOf(y)' - 1 : InPlace(y, t)'
    BY <1>5, <2>2
  <2> QED BY <2>3 DEF TokensInPlace, InPlace
<1>14. MappedForWriting'
  <2>1. writing = {LastBlock(l) : l \in Layers}
    BY <1>1 DEF IInv, MappedForWriting
  <2>2. {LastBlock(l) : l \in Layers}' = {LastBlock(l) : l \in Layers}
    BY <1>2, <1>5 DEF LastBlock
  <2> QED BY <1>2, <1>5, <2>1, <2>2 DEF MappedForWriting
<1>15. PrefixInPlace' /\ ReleasedBelow' /\ NothingLeftBehind' /\ EnoughIsEnough'
  BY <1>5 DEF PrefixInPlace, ReleasedBelow, NothingLeftBehind, EnoughIsEnough
<1> QED BY <1>7, <1>9, <1>10, <1>13, <1>14, <1>15 DEF IInv

-----------------------------------------------------------------------------
(* Mapping, unmapping, and the loops over layers and tokens *)

LEMMA PrefillMapKeeps ==
    ASSUME IInv, PrefillMap
    PROVE  IInv'
<1>1. /\ TypeOK /\ LoopsInRange /\ BlocksNumbered /\ ListsPartition /\ TokensInPlace
      /\ phase = "map" /\ Building /\ layer \in Layers
  BY DEF IInv, PrefillMap, Building, LoopsInRange
<1>2. /\ shape' = shape /\ phase' = "write" /\ layer' = layer /\ b' = 0 /\ total' = total
      /\ end' = end /\ caches' = caches /\ memory' = memory /\ size' = size
      /\ writing' = Blocks(layer)
  BY DEF PrefillMap, MapToWrite
<1>3. /\ Layers' = Layers /\ BlocksPerLayer' = BlocksPerLayer /\ Held' = Held
      /\ Blocks(layer)' = Blocks(layer) /\ BlocksPerLayer \in Nat
      /\ shape.prompt \in Nat /\ Held \in Nat /\ Held = BlocksPerLayer
  BY <1>1, <1>2, ShapeFacts, HeldFacts
     DEF Layers, BlocksPerLayer, Ceiling, Held, Blocks, TypeOK
<1>4. TypeOK'
  <2>1. Blocks(layer) \subseteq Lvid
    BY <1>1, ListFacts DEF Blocks
  <2> QED BY <1>1, <1>2, <1>3, <2>1 DEF TypeOK
<1>5. LoopsInRange'
  BY <1>1, <1>2, <1>3 DEF LoopsInRange, Extended
<1>6. BlocksNumbered' /\ ListsPartition'
  BY <1>1, <1>2, <1>3, SameBlocks
<1>7. TokensInPlace'
  <2>1. \A y \in Layers : TokensOf(y)' = TokensOf(y)
    BY <1>1, <1>2 DEF TokensOf
  <2> QED BY <1>1, <1>2, <2>1, SameTokens
<1>8. PrefixInPlace'
  <2>1. \A t \in 0 .. shape.prompt - 1 : ~(t \div shape.perBlock < 0)
    <3> TAKE t \in 0 .. shape.prompt - 1
    <3>1. t \in Nat
      BY <1>3, SMT
    <3>2. t \div shape.perBlock \in Nat
      BY <1>1, <3>1, TokenFacts DEF TypeOK
    <3> QED BY <3>2, SMT
  <2> QED BY <1>2, <2>1 DEF PrefixInPlace
<1>9. MappedForWriting'
  BY <1>2, <1>3 DEF MappedForWriting
<1>10. ReleasedBelow' /\ NothingLeftBehind' /\ EnoughIsEnough'
  BY <1>2 DEF ReleasedBelow, NothingLeftBehind, EnoughIsEnough
<1> QED BY <1>4, <1>5, <1>6, <1>7, <1>8, <1>9, <1>10 DEF IInv

\* The prompt is in place in one more layer.
LEMMA PrefillUnmapKeeps ==
    ASSUME IInv, PrefillUnmap
    PROVE  IInv'
<1>1. /\ TypeOK /\ LoopsInRange /\ BlocksNumbered /\ ListsPartition /\ TokensInPlace
      /\ PrefixInPlace /\ phase = "write" /\ b = BlocksPerLayer /\ Building
      /\ layer \in Layers /\ shape \in Shape /\ total = shape.prompt
  BY DEF IInv, PrefillUnmap, Building, LoopsInRange, TypeOK
<1>2. /\ shape' = shape /\ b' = b /\ total' = total
      /\ end' = end /\ caches' = caches /\ memory' = memory /\ size' = size
      /\ writing' = {} /\ NextLayer("map", "decode")
  BY DEF PrefillUnmap, Unmap
<1>3. /\ layer' \in Layers /\ layer' \in 0 .. MaxLayers /\ Layers' = Layers
      /\ \/ layer' = layer + 1 /\ phase' = "map"
         \/ /\ layer' = 0 /\ phase' = "decode"
            /\ \A y \in Layers : y < layer \/ y = layer
      /\ \A y \in Layers : y < layer + 1 <=> y < layer \/ y = layer
  BY <1>1, <1>2, NextLayerFacts
<1>4. Held' = Held
  <2>1. Held = BlocksPerLayer
    BY <1>1 DEF Held
  <2>2. BlocksPerLayer' = BlocksPerLayer /\ Ceiling(total)' = BlocksPerLayer
    BY <1>1, <1>2 DEF BlocksPerLayer, Ceiling
  <2> QED BY <1>3, <2>1, <2>2 DEF Held, Extended
<1>5. TypeOK'
  BY <1>1, <1>2, <1>3 DEF TypeOK
<1>6. LoopsInRange'
  BY <1>1, <1>2, <1>3 DEF LoopsInRange, Extended
<1>7. BlocksNumbered' /\ ListsPartition'
  BY <1>1, <1>2, <1>4, SameBlocks
<1>8. TokensInPlace'
  <2>1. ASSUME NEW y \in Layers
        PROVE  /\ TokensOf(y) = IF y < layer THEN shape.prompt ELSE 0
               /\ TokensOf(y)' = IF y < layer \/ y = layer THEN shape.prompt ELSE 0
    <3>1. TokensOf(y) = IF y < layer THEN shape.prompt ELSE 0
      BY <1>1 DEF TokensOf
    <3>2. CASE layer' = layer + 1 /\ phase' = "map"
      BY <1>2, <1>3, <3>1, <3>2 DEF TokensOf
    <3>3. CASE /\ layer' = 0 /\ phase' = "decode"
               /\ \A z \in Layers : z < layer \/ z = layer
      BY <1>1, <1>2, <3>1, <3>3 DEF TokensOf
    <3> QED BY <1>3, <3>2, <3>3
  <2>2. ASSUME NEW y \in Layers, NEW t \in 0 .. TokensOf(y)' - 1
        PROVE  InPlace(y, t)
    <3>1. CASE y < layer
      <4>1. TokensOf(y)' = TokensOf(y)
        BY <2>1, <3>1
      <4> QED BY <1>1, <2>2, <4>1, PlacedTokens
    <3>2. CASE y = layer /\ ~(y < layer)
      <4>1. t \in 0 .. shape.prompt - 1
        BY <2>1, <3>2
      <4>2. t \in Nat /\ t < shape.prompt /\ shape.prompt \in Nat
        BY <1>1, <4>1, ShapeFacts, SMT
      <4>3. t \div shape.perBlock < b
        BY <1>1, <4>2, ShapeFacts, CeilingFacts DEF BlocksPerLayer, Ceiling
      <4> QED BY <1>1, <3>2, <4>1, <4>3 DEF PrefixInPlace
    <3>3. CASE y # layer /\ ~(y < layer)
      <4>1. TokensOf(y)' = 0
        BY <2>1, <3>3
      <4>2. 0 .. 0 - 1 = {}
        BY SMT
      <4> QED BY <2>2, <4>1, <4>2
    <3> QED BY <3>1, <3>2, <3>3
  <2>3. ASSUME NEW y, NEW t, InPlace(y, t)
        PROVE  InPlace(y, t)'
    BY <1>2, <2>3 DEF InPlace
  <2>4. \A y \in Layers' : \A t \in 0 .. TokensOf(y)' - 1 : InPlace(y, t)'
    BY <1>3, <2>2, <2>3
  <2> QED BY <2>4 DEF TokensInPlace, InPlace
<1>9. MappedForWriting'
  BY <1>2, <1>3 DEF MappedForWriting
<1>10. PrefixInPlace' /\ ReleasedBelow' /\ NothingLeftBehind' /\ EnoughIsEnough'
  BY <1>3 DEF PrefixInPlace, ReleasedBelow, NothingLeftBehind, EnoughIsEnough
<1> QED BY <1>5, <1>6, <1>7, <1>8, <1>9, <1>10 DEF IInv

LEMMA DecodeGoesOnKeeps ==
    ASSUME IInv, DecodeGoesOn
    PROVE  IInv'
<1>1. /\ TypeOK /\ LoopsInRange /\ BlocksNumbered /\ ListsPartition /\ TokensInPlace
      /\ phase = "decode" /\ total < shape.prompt + shape.decode
      /\ total % shape.perBlock # 0 /\ Building /\ writing = {} /\ shape \in Shape
  BY DEF IInv, DecodeGoesOn, Decoding, NeedsBlock, SlotInBlock, Building, TypeOK,
     MappedForWriting
<1>2. /\ shape' = shape /\ phase' = "read" /\ layer' = layer /\ b' = b /\ total' = total
      /\ end' = end /\ caches' = caches /\ memory' = memory /\ size' = size
      /\ writing' = writing
  BY DEF DecodeGoesOn
<1>3. Layers' = Layers
  BY <1>2 DEF Layers
<1>4. Held' = Held
  <2>1. Held = Ceiling(total)
    BY <1>1 DEF Held, Extended
  <2>2. Ceiling(total) = total \div shape.perBlock + 1
    BY <1>1, ShapeFacts, CeilingFacts DEF Ceiling, TypeOK
  <2> QED BY <1>2, <2>1, <2>2 DEF Held, Extended
<1>5. TypeOK' /\ LoopsInRange'
  BY <1>1, <1>2, <1>3 DEF TypeOK, LoopsInRange, Extended
<1>6. BlocksNumbered' /\ ListsPartition'
  BY <1>1, <1>2, <1>4, SameBlocks
<1>7. TokensInPlace'
  <2>1. \A y \in Layers : TokensOf(y)' = TokensOf(y)
    BY <1>1, <1>2 DEF TokensOf
  <2> QED BY <1>1, <1>2, <2>1, SameTokens
<1>8. MappedForWriting'
  BY <1>1, <1>2 DEF MappedForWriting
<1>9. PrefixInPlace' /\ ReleasedBelow' /\ NothingLeftBehind' /\ EnoughIsEnough'
  BY <1>2 DEF PrefixInPlace, ReleasedBelow, NothingLeftBehind, EnoughIsEnough
<1> QED BY <1>5, <1>6, <1>7, <1>8, <1>9 DEF IInv

LEMMA DecodeReadKeeps ==
    ASSUME IInv, DecodeRead
    PROVE  IInv'
<1>1. /\ TypeOK /\ LoopsInRange /\ BlocksNumbered /\ ListsPartition /\ TokensInPlace
      /\ phase = "read" /\ total < shape.prompt + shape.decode /\ Building
      /\ shape \in Shape /\ layer \in Layers
  BY DEF IInv, DecodeRead, Building, TypeOK, LoopsInRange, Extended
<1>2. /\ shape' = shape /\ b' = b /\ total' = total
      /\ end' = end /\ caches' = caches /\ memory' = memory /\ size' = size
      /\ writing' = {} /\ NextLayer("read", "mapTails")
  BY DEF DecodeRead, MapToRead
<1>3. /\ layer' \in Layers /\ layer' \in 0 .. MaxLayers /\ Layers' = Layers
      /\ \/ layer' = layer + 1 /\ phase' = "read"
         \/ layer' = 0 /\ phase' = "mapTails"
  BY <1>1, <1>2, NextLayerFacts
<1>4. Held' = Held
  BY <1>1, <1>2, <1>3 DEF Held, Extended
<1>5. TypeOK'
  BY <1>1, <1>2, <1>3 DEF TypeOK
<1>6. LoopsInRange'
  BY <1>1, <1>2, <1>3 DEF LoopsInRange, Extended
<1>7. BlocksNumbered' /\ ListsPartition'
  BY <1>1, <1>2, <1>4, SameBlocks
<1>8. TokensInPlace'
  <2>1. \A y \in Layers : TokensOf(y)' = TokensOf(y)
    BY <1>1, <1>2, <1>3 DEF TokensOf
  <2> QED BY <1>1, <1>2, <2>1, SameTokens
<1>9. MappedForWriting'
  BY <1>2, <1>3 DEF MappedForWriting
<1>10. PrefixInPlace' /\ ReleasedBelow' /\ NothingLeftBehind' /\ EnoughIsEnough'
  BY <1>3 DEF PrefixInPlace, ReleasedBelow, NothingLeftBehind, EnoughIsEnough
<1> QED BY <1>5, <1>6, <1>7, <1>8, <1>9, <1>10 DEF IInv

LEMMA MapTailsKeeps ==
    ASSUME IInv, MapTails
    PROVE  IInv'
<1> DEFINE S == {LastBlock(l) : l \in Layers}
<1>1. /\ TypeOK /\ LoopsInRange /\ BlocksNumbered /\ ListsPartition /\ TokensInPlace
      /\ phase = "mapTails" /\ layer = 0 /\ Building /\ Extended /\ shape \in Shape
  BY DEF IInv, MapTails, Building, TypeOK, LoopsInRange, Extended
<1>2. /\ shape' = shape /\ phase' = "writeTails" /\ layer' = layer /\ b' = b
      /\ total' = total /\ end' = end /\ caches' = caches /\ memory' = memory
      /\ size' = size /\ writing' = S
  BY DEF MapTails, MapToWrite
<1>3. Layers' = Layers /\ Held' = Held
  BY <1>1, <1>2 DEF Layers, Held, Extended
<1>4. TypeOK'
  <2>1. S \subseteq Lvid
    BY <1>1, TailFacts
  <2> QED BY <1>1, <1>2, <1>3, <2>1 DEF TypeOK
<1>5. LoopsInRange'
  BY <1>1, <1>2, <1>3 DEF LoopsInRange, Extended
<1>6. BlocksNumbered' /\ ListsPartition'
  BY <1>1, <1>2, <1>3, SameBlocks
<1>7. TokensInPlace'
  <2>1. \A y \in Layers : ~(y < 0)
    BY <1>1, ShapeFacts, SMT DEF Layers
  <2>2. \A y \in Layers : TokensOf(y)' = TokensOf(y)
    BY <1>1, <1>2, <2>1 DEF TokensOf
  <2> QED BY <1>1, <1>2, <2>2, SameTokens
<1>8. MappedForWriting'
  <2>1. {LastBlock(l) : l \in Layers}' = S
    BY <1>2, <1>3 DEF LastBlock
  <2> QED BY <1>2, <2>1 DEF MappedForWriting
<1>9. PrefixInPlace' /\ ReleasedBelow' /\ NothingLeftBehind' /\ EnoughIsEnough'
  BY <1>2 DEF PrefixInPlace, ReleasedBelow, NothingLeftBehind, EnoughIsEnough
<1> QED BY <1>4, <1>5, <1>6, <1>7, <1>8, <1>9 DEF IInv

\* total_tokens counts the token that has been stored in all of the layers.
LEMMA UnmapTailsKeeps ==
    ASSUME IInv, UnmapTails
    PROVE  IInv'
<1>1. /\ TypeOK /\ LoopsInRange /\ BlocksNumbered /\ ListsPartition /\ TokensInPlace
      /\ phase = "unmapTails" /\ Building /\ Extended /\ shape \in Shape /\ layer \in Layers
  BY DEF IInv, UnmapTails, Building, TypeOK, LoopsInRange, Extended
<1>2. /\ shape' = shape /\ phase' = "decode" /\ layer' = layer /\ b' = b
      /\ total' = total + 1 /\ end' = end /\ caches' = caches /\ memory' = memory
      /\ size' = size /\ writing' = {}
  BY DEF UnmapTails, Unmap, NextToken
<1>3. /\ shape.prompt \in Nat /\ shape.decode \in Nat /\ total \in Nat
      /\ shape.perBlock \in Nat \ {0}
      /\ total \in shape.prompt .. shape.prompt + shape.decode
      /\ total < shape.prompt + shape.decode
  BY <1>1, ShapeFacts DEF LoopsInRange, TypeOK
<1>4. Layers' = Layers /\ Held' = Held
  <2>1. Held = total \div shape.perBlock + 1
    BY <1>1 DEF Held, Extended
  <2>2. Held' = (total + 1 + shape.perBlock - 1) \div shape.perBlock
    BY <1>2 DEF Held, Extended, Ceiling
  <2> QED BY <1>2, <1>3, <2>1, <2>2, CeilingFacts DEF Layers
<1>5. total' \in Nat /\ total' \in shape.prompt .. shape.prompt + shape.decode
  BY <1>2, <1>3, SMT
<1>6. TypeOK'
  BY <1>1, <1>2, <1>4, <1>5 DEF TypeOK
<1>7. LoopsInRange'
  BY <1>1, <1>2, <1>4, <1>5 DEF LoopsInRange, Extended
<1>8. BlocksNumbered' /\ ListsPartition'
  BY <1>1, <1>2, <1>4, SameBlocks
<1>9. TokensInPlace'
  <2>1. \A y \in Layers : TokensOf(y)' = TokensOf(y)
    BY <1>1, <1>2 DEF TokensOf
  <2> QED BY <1>1, <1>2, <2>1, SameTokens
<1>10. MappedForWriting'
  BY <1>2 DEF MappedForWriting
<1>11. PrefixInPlace' /\ ReleasedBelow' /\ NothingLeftBehind' /\ EnoughIsEnough'
  BY <1>2 DEF PrefixInPlace, ReleasedBelow, NothingLeftBehind, EnoughIsEnough
<1> QED BY <1>6, <1>7, <1>8, <1>9, <1>10, <1>11 DEF IInv

-----------------------------------------------------------------------------
(* Releasing, failing and leaving *)

LEMMA DecodeDoneKeeps ==
    ASSUME IInv, DecodeDone
    PROVE  IInv'
<1>1. /\ TypeOK /\ LoopsInRange /\ BlocksNumbered /\ phase = "decode" /\ Building
      /\ writing = {} /\ LogicalBlockCount = size /\ size \in 0 .. MaxLvid
  BY CountIsSize DEF IInv, DecodeDone, Building, MappedForWriting
<1>2. /\ shape' = shape /\ phase' = "release" /\ layer' = layer /\ b' = 0 /\ end' = size
      /\ total' = total /\ caches' = caches /\ memory' = memory /\ size' = size
      /\ writing' = writing
  BY <1>1 DEF DecodeDone
<1>3. size \in Nat /\ size <= MaxLvid /\ Layers' = Layers /\ 0 <= size
  BY <1>1, <1>2, BoundsAssumption, SMT DEF Layers
<1>4. TypeOK' /\ LoopsInRange'
  BY <1>1, <1>2, <1>3 DEF TypeOK, LoopsInRange, Extended
<1>5. BlocksNumbered' /\ ListsPartition'
  BY <1>2 DEF BlocksNumbered, ListsPartition, Building
<1>6. TokensInPlace'
  BY <1>2, NoTokens
<1>7. MappedForWriting'
  BY <1>1, <1>2 DEF MappedForWriting
<1>8. ReleasedBelow'
  <2>1. \A l \in Lvid : 0 <= l
    BY BoundsAssumption, SMT DEF Lvid
  <2> QED BY <1>1, <1>2, <1>3, <2>1 DEF ReleasedBelow, BlocksNumbered
<1>9. PrefixInPlace' /\ NothingLeftBehind' /\ EnoughIsEnough'
  BY <1>2 DEF PrefixInPlace, NothingLeftBehind, EnoughIsEnough
<1> QED BY <1>4, <1>5, <1>6, <1>7, <1>8, <1>9 DEF IInv

LEMMA ReleaseBlockKeeps ==
    ASSUME IInv, ReleaseBlock
    PROVE  IInv'
<1>1. /\ TypeOK /\ LoopsInRange /\ ReleasedBelow /\ phase = "release" /\ writing = {}
      /\ b < end
  BY DEF IInv, ReleaseBlock, MappedForWriting, CountBefore
<1>2. /\ shape' = shape /\ phase' = "release" /\ layer' = layer /\ b' = b + 1
      /\ total' = total /\ end' = end /\ caches' = caches /\ size' = size
      /\ writing' = writing /\ memory' = [memory EXCEPT ![b] = Nil]
  BY <1>1 DEF ReleaseBlock
<1>3. b \in Nat /\ end \in Nat /\ end <= MaxLvid /\ MaxLvid \in Nat /\ Layers' = Layers
  BY <1>1, <1>2, BoundsAssumption DEF TypeOK, ReleasedBelow, Layers
<1>4. b' \in Nat /\ b' <= end
  BY <1>1, <1>2, <1>3, SMT
<1>5. memory' \in [Lvid -> Content \cup {Nil}]
  BY <1>1, <1>2 DEF TypeOK
<1>6. TypeOK' /\ LoopsInRange'
  BY <1>1, <1>2, <1>3, <1>4, <1>5 DEF TypeOK, LoopsInRange, Extended
<1>7. BlocksNumbered' /\ ListsPartition'
  BY <1>2 DEF BlocksNumbered, ListsPartition, Building
<1>8. TokensInPlace'
  BY <1>2, NoTokens
<1>9. MappedForWriting'
  BY <1>1, <1>2 DEF MappedForWriting
<1>10. ReleasedBelow'
  <2>1. \A l \in Lvid : memory'[l] # Nil <=> b' <= l /\ l < end
    <3> TAKE l \in Lvid
    <3>1. memory[l] # Nil <=> b <= l /\ l < end
      BY <1>1 DEF ReleasedBelow
    <3>2. memory'[l] = IF l = b THEN Nil ELSE memory[l]
      BY <1>1, <1>2 DEF TypeOK
    <3>3. b' <= l <=> b <= l /\ l # b
      BY <1>2, <1>3, SMT DEF Lvid
    <3> QED BY <3>1, <3>2, <3>3
  <2> QED BY <1>2, <1>3, <1>4, <2>1 DEF ReleasedBelow
<1>11. PrefixInPlace' /\ NothingLeftBehind' /\ EnoughIsEnough'
  BY <1>2 DEF PrefixInPlace, NothingLeftBehind, EnoughIsEnough
<1> QED BY <1>6, <1>7, <1>8, <1>9, <1>10, <1>11 DEF IInv

LEMMA AllReleasedKeeps ==
    ASSUME IInv, AllReleased
    PROVE  IInv'
<1>1. /\ TypeOK /\ LoopsInRange /\ ReleasedBelow /\ phase = "release" /\ writing = {}
      /\ b >= end
  BY DEF IInv, AllReleased, MappedForWriting, CountBefore
<1>2. /\ shape' = shape /\ phase' = "destroy" /\ layer' = layer /\ b' = b
      /\ total' = total /\ end' = end /\ caches' = caches /\ memory' = memory
      /\ size' = size /\ writing' = writing
  BY DEF AllReleased
<1>3. Layers' = Layers /\ b \in Nat /\ end \in Nat /\ MaxLvid \in Nat
  BY <1>1, <1>2, BoundsAssumption DEF Layers, TypeOK
<1>4. TypeOK' /\ LoopsInRange'
  BY <1>1, <1>2, <1>3 DEF TypeOK, LoopsInRange, Extended
<1>5. BlocksNumbered' /\ ListsPartition' /\ ReleasedBelow'
  BY <1>2 DEF BlocksNumbered, ListsPartition, Building, ReleasedBelow
<1>6. TokensInPlace'
  BY <1>2, NoTokens
<1>7. MappedForWriting'
  BY <1>1, <1>2 DEF MappedForWriting
<1>8. NothingLeftBehind'
  <2>1. \A l \in Lvid : ~(b <= l /\ l < end)
    BY <1>1, <1>3, SMT DEF Lvid
  <2>2. \A l \in Lvid : memory'[l] = Nil
    BY <1>1, <1>2, <2>1 DEF ReleasedBelow
  <2> QED BY <2>2 DEF NothingLeftBehind, Allocated
<1>9. PrefixInPlace' /\ EnoughIsEnough'
  BY <1>2 DEF PrefixInPlace, EnoughIsEnough
<1> QED BY <1>4, <1>5, <1>6, <1>7, <1>8, <1>9 DEF IInv

LEMMA DestroyContextKeeps ==
    ASSUME IInv, DestroyContext
    PROVE  IInv'
<1>1. TypeOK /\ LoopsInRange /\ writing = {}
  BY DEF IInv, DestroyContext, MappedForWriting
<1>2. /\ shape' = shape /\ phase' = "exit" /\ layer' = layer /\ b' = b
      /\ total' = total /\ end' = end /\ caches' = caches
      /\ memory' = [l \in Lvid |-> Nil] /\ size' = 0 /\ writing' = writing
  BY DEF DestroyContext
<1>3. Layers' = Layers /\ 0 \in 0 .. MaxLvid
  BY <1>2, BoundsAssumption, SMT DEF Layers
<1>4. memory' \in [Lvid -> Content \cup {Nil}]
  BY <1>2
<1>5. TypeOK' /\ LoopsInRange'
  BY <1>1, <1>2, <1>3, <1>4 DEF TypeOK, LoopsInRange, Extended
<1>6. BlocksNumbered' /\ ListsPartition' /\ ReleasedBelow'
  BY <1>2 DEF BlocksNumbered, ListsPartition, Building, ReleasedBelow
<1>7. TokensInPlace'
  BY <1>2, NoTokens
<1>8. MappedForWriting'
  BY <1>1, <1>2 DEF MappedForWriting
<1>9. PrefixInPlace' /\ NothingLeftBehind' /\ EnoughIsEnough'
  BY <1>2 DEF PrefixInPlace, NothingLeftBehind, EnoughIsEnough
<1> QED BY <1>5, <1>6, <1>7, <1>8, <1>9 DEF IInv

\* There is a call to refuse, and one of the conditions of Fits is not met.
LEMMA RefusedWhenTooSmall ==
    ASSUME IInv, Refused
    PROVE  ~Fits
<1> DEFINE all == Ceiling(shape.prompt + shape.decode)
<1>1. /\ TypeOK /\ LoopsInRange /\ BlocksNumbered /\ ListsPartition /\ shape \in Shape
      /\ layer \in Layers
  BY DEF IInv, TypeOK, LoopsInRange
<1>2. /\ shape.layers \in Nat \ {0} /\ shape.perBlock \in Nat \ {0}
      /\ shape.prompt \in Nat /\ shape.decode \in Nat /\ shape.blocks \in Nat
      /\ shape.resident \in Nat \ {0} /\ BlocksPerLayer \in Nat /\ total \in Nat
      /\ total \in shape.prompt .. shape.prompt + shape.decode
  BY <1>1, ShapeFacts DEF TypeOK, LoopsInRange
<1>3. all \in Nat
  BY <1>1, <1>2, HeldFacts
<1> SUFFICES ASSUME Fits
             PROVE  FALSE
  OBVIOUS
<1>4. /\ shape.layers * all <= shape.blocks
      /\ BlocksPerLayer <= shape.resident
      /\ shape.decode > 0 => /\ shape.layers <= shape.resident
                             /\ all < 2 \/ shape.resident >= 2
  BY DEF Fits
\* a decode step: the blocks of the next token are among all
<1>5. ASSUME total < shape.prompt + shape.decode
      PROVE  /\ total \div shape.perBlock \in Nat
             /\ total \div shape.perBlock + 1 <= all
             /\ shape.decode > 0
  <2>1. /\ (total + 1 + shape.perBlock - 1) \div shape.perBlock
               <= (shape.prompt + shape.decode + shape.perBlock - 1) \div shape.perBlock
        /\ (total + 1 + shape.perBlock - 1) \div shape.perBlock = total \div shape.perBlock + 1
    <3>1. /\ total + 1 \in Nat /\ shape.prompt + shape.decode \in Nat
          /\ total + 1 <= shape.prompt + shape.decode
      BY <1>2, <1>5, SMT
    <3> QED BY <1>2, <3>1, CeilingFacts
  <2>2. shape.decode > 0
    BY <1>2, <1>5, SMT
  <2>3. total \div shape.perBlock \in Nat
    BY <1>1, <1>2, TokenFacts
  <2> QED BY <2>1, <2>2, <2>3 DEF Ceiling
<1> HIDE DEF all
<1>6. CASE phase = "prefill" /\ ~CanAllocate(BlocksPerLayer * shape.layers)
  <2>1. Building /\ Held = 0
    BY <1>6 DEF Building, Held
  <2>2. LogicalBlockCount = 0
    <3>1. LogicalBlockCount = 0 * shape.layers
      BY <1>1, <2>1, CountIsSize DEF BlocksNumbered
    <3> QED BY <1>2, <3>1, SMT
  <2>3. ~(BlocksPerLayer * shape.layers <= shape.blocks)
    <3>1. BlocksPerLayer * shape.layers \in Nat
      BY <1>2, ProductFacts
    <3> QED BY <1>6, <2>2, <3>1, SMT DEF CanAllocate
  <2>4. BlocksPerLayer <= all
    <3>1. shape.prompt + shape.decode \in Nat /\ shape.prompt <= shape.prompt + shape.decode
      BY <1>2, SMT
    <3> QED BY <1>2, <3>1, CeilingFacts DEF BlocksPerLayer, Ceiling, all
  <2>5. /\ BlocksPerLayer * shape.layers <= all * shape.layers
        /\ all * shape.layers = shape.layers * all
        /\ all * shape.layers \in Nat /\ BlocksPerLayer * shape.layers \in Nat
    BY <1>2, <1>3, <2>4, ProductFacts
  <2> QED BY <1>2, <1>4, <2>3, <2>5, SMT
<1>7. CASE phase = "map" /\ ~CanMap(Blocks(layer))
  <2>1. Building /\ Held = BlocksPerLayer
    BY <1>7 DEF Building, Held
  <2>2. DOMAIN caches[layer] = 1 .. BlocksPerLayer
    BY <1>1, <2>1, ListFacts
  <2>3. Cardinality(Blocks(layer)) \in Nat /\ Cardinality(Blocks(layer)) <= BlocksPerLayer
    BY <1>2, <2>2, ListedAtMost DEF Blocks
  <2> QED BY <1>2, <1>4, <1>7, <2>3, SMT DEF CanMap
<1>8. CASE Decoding /\ NeedsBlock /\ ~CanAllocate(shape.layers)
  <2> DEFINE h == total \div shape.perBlock
  <2>1. /\ phase = "decode" /\ total < shape.prompt + shape.decode
        /\ total % shape.perBlock = 0
    BY <1>8 DEF Decoding, NeedsBlock, SlotInBlock
  <2>2. Building /\ Held = Ceiling(total)
    BY <2>1 DEF Building, Held, Extended
  <2>3. Held = h
    BY <1>2, <2>1, <2>2, CeilingFacts DEF Ceiling
  <2>4. h \in Nat /\ h + 1 <= all
    BY <1>5, <2>1
  <2>5. LogicalBlockCount = h * shape.layers
    BY <1>1, <2>2, <2>3, CountIsSize DEF BlocksNumbered
  <2> HIDE DEF h
  <2>6. ~(h * shape.layers + shape.layers <= shape.blocks)
    BY <1>8, <2>5 DEF CanAllocate
  <2>7. /\ (h + 1) * shape.layers = h * shape.layers + shape.layers
        /\ (h + 1) * shape.layers <= all * shape.layers
        /\ all * shape.layers = shape.layers * all
        /\ all * shape.layers \in Nat /\ h * shape.layers \in Nat
    <3>1. h + 1 \in Nat
      BY <2>4, SMT
    <3> QED BY <1>2, <1>3, <2>4, <3>1, ProductFacts
  <2> QED BY <1>2, <1>4, <2>6, <2>7, SMT
<1>9. CASE phase = "read" /\ ~CanMap(Recent(layer))
  <2> DEFINE h == total \div shape.perBlock
  <2>1. Building /\ Held = h + 1 /\ total < shape.prompt + shape.decode
    BY <1>1, <1>9 DEF Building, Held, Extended, LoopsInRange
  <2>2. h \in Nat /\ h + 1 <= all /\ shape.decode > 0
    BY <1>5, <2>1
  <2>3. /\ DOMAIN caches[layer] = 1 .. h + 1 /\ Len(caches[layer]) = h + 1
        /\ \A i \in 1 .. h + 1 : caches[layer][i] \in Lvid
    BY <1>1, <2>1, ListFacts
  <2> HIDE DEF h
  <2> DEFINE last == [k \in 1 .. 2 |-> IF k = 1 THEN caches[layer][h + 1] ELSE caches[layer][h]]
             one == [k \in 1 .. 1 |-> caches[layer][h + 1]]
  <2>4. /\ \A j \in 1 .. h + 1 : j + 2 > h + 1 => j = h + 1 \/ j = h
        /\ h = 0 => \A j \in 1 .. h + 1 : j = h + 1
    BY <2>2, SMT
  <2>5. Recent(layer) \subseteq {last[k] : k \in 1 .. 2}
    <3>1. last[1] = caches[layer][h + 1] /\ last[2] = caches[layer][h]
      BY SMT
    <3>2. 1 \in 1 .. 2 /\ 2 \in 1 .. 2
      BY SMT
    <3> HIDE DEF last
    <3> QED BY <2>3, <2>4, <3>1, <3>2 DEF Recent
  <2>6. h = 0 => Recent(layer) \subseteq {one[k] : k \in 1 .. 1}
    <3>1. one[1] = caches[layer][h + 1] /\ 1 \in 1 .. 1
      BY SMT
    <3> HIDE DEF one
    <3> QED BY <2>3, <2>4, <3>1 DEF Recent
  <2>7. /\ IsFiniteSet({last[k] : k \in 1 .. 2})
        /\ Cardinality({last[k] : k \in 1 .. 2}) \in Nat
        /\ Cardinality({last[k] : k \in 1 .. 2}) <= 2
    <3>1. DOMAIN last = 1 .. 2
      OBVIOUS
    <3> HIDE DEF last
    <3> QED BY <3>1, ListedAtMost
  <2>8. /\ IsFiniteSet({one[k] : k \in 1 .. 1})
        /\ Cardinality({one[k] : k \in 1 .. 1}) \in Nat
        /\ Cardinality({one[k] : k \in 1 .. 1}) <= 1
    <3>1. DOMAIN one = 1 .. 1
      OBVIOUS
    <3> HIDE DEF one
    <3> QED BY <3>1, ListedAtMost
  <2> HIDE DEF last, one
  <2>9. /\ Cardinality(Recent(layer)) \in Nat /\ Cardinality(Recent(layer)) <= 2
        /\ h = 0 => Cardinality(Recent(layer)) <= 1
    <3>1. /\ IsFiniteSet(Recent(layer))
          /\ Cardinality(Recent(layer)) <= Cardinality({last[k] : k \in 1 .. 2})
      BY <2>5, <2>7, FS_Subset
    <3>2. h = 0 => Cardinality(Recent(layer)) <= Cardinality({one[k] : k \in 1 .. 1})
      BY <2>6, <2>8, FS_Subset
    <3>3. Cardinality(Recent(layer)) \in Nat
      BY <3>1, FS_CardinalityType
    <3> QED BY <2>7, <2>8, <3>1, <3>2, <3>3, SMT
  <2>10. ~(Cardinality(Recent(layer)) <= shape.resident)
    BY <1>9 DEF CanMap
  <2> QED BY <1>2, <1>3, <1>4, <2>2, <2>9, <2>10, SMT
<1>10. CASE phase = "mapTails" /\ ~CanMap({LastBlock(l) : l \in Layers})
  <2> DEFINE m == shape.layers
             tails == [k \in 1 .. m |-> LastBlock(k - 1)]
             S == {LastBlock(l) : l \in Layers}
  <2>1. shape.decode > 0
    BY <1>1, <1>5, <1>10 DEF LoopsInRange, Extended
  <2>2. S = {tails[k] : k \in 1 .. m}
    <3>1. /\ \A k \in 1 .. m : k - 1 \in Layers
          /\ \A l \in Layers : l + 1 \in 1 .. m /\ (l + 1) - 1 = l
      BY <1>2, SMT DEF Layers
    <3>2. \A k \in 1 .. m : tails[k] = LastBlock(k - 1)
      OBVIOUS
    <3> HIDE DEF tails, m
    <3>3. \A l \in Layers : tails[l + 1] = LastBlock(l)
      BY <3>1, <3>2
    <3> QED BY <3>1, <3>2, <3>3
  <2>3. DOMAIN tails = 1 .. m
    OBVIOUS
  <2> HIDE DEF tails
  <2>4. Cardinality(S) \in Nat /\ Cardinality(S) <= m
    <3>1. m \in Nat
      BY <1>2
    <3> HIDE DEF S, m
    <3>2. /\ Cardinality({tails[k] : k \in 1 .. m}) \in Nat
          /\ Cardinality({tails[k] : k \in 1 .. m}) <= m
      BY <2>3, <3>1, ListedAtMost
    <3> QED BY <2>2, <3>2
  <2> HIDE DEF S
  <2>5. ~(Cardinality(S) <= shape.resident)
    BY <1>10 DEF CanMap, S
  <2> QED BY <1>2, <1>4, <2>1, <2>4, <2>5, SMT
<1> QED BY <1>6, <1>7, <1>8, <1>9, <1>10 DEF Refused

LEMMA FailKeeps ==
    ASSUME IInv, Fail
    PROVE  IInv'
<1>1. TypeOK /\ LoopsInRange /\ Refused /\ ~Fits
  BY RefusedWhenTooSmall DEF IInv, Fail
<1>2. writing = {}
  BY <1>1 DEF IInv, MappedForWriting, Refused, Decoding
<1>3. /\ shape' = shape /\ phase' = "failed" /\ layer' = layer /\ b' = b
      /\ total' = total /\ end' = end /\ caches' = caches /\ memory' = memory
      /\ size' = size /\ writing' = writing
  BY DEF Fail
<1>4. Layers' = Layers
  BY <1>3 DEF Layers
<1>5. TypeOK' /\ LoopsInRange'
  BY <1>1, <1>3, <1>4 DEF TypeOK, LoopsInRange, Extended
<1>6. BlocksNumbered' /\ ListsPartition' /\ ReleasedBelow'
  BY <1>3 DEF BlocksNumbered, ListsPartition, Building, ReleasedBelow
<1>7. TokensInPlace'
  BY <1>3, NoTokens
<1>8. MappedForWriting'
  BY <1>2, <1>3 DEF MappedForWriting
<1>9. EnoughIsEnough'
  BY <1>1, <1>3 DEF EnoughIsEnough, Fits, BlocksPerLayer, Ceiling
<1>10. PrefixInPlace' /\ NothingLeftBehind'
  BY <1>3 DEF PrefixInPlace, NothingLeftBehind
<1> QED BY <1>5, <1>6, <1>7, <1>8, <1>9, <1>10 DEF IInv

-----------------------------------------------------------------------------
(* The steps as calls of the contract *)

LEMMA LogicalFacts ==
    ASSUME TypeOK, phase # "exit"
    PROVE  /\ Logical = [c \in {Ctx} |-> memory] /\ Logical[Ctx] = memory
           /\ Memory!Live(Ctx)
           /\ \A l \in Lvid : Memory!Allocated(Ctx, l) <=> memory[l] # Nil
<1>1. Logical = [c \in {Ctx} |-> memory] /\ Logical[Ctx] = memory
  BY DEF Logical
<1>2. memory # Nil
  BY NilAssumption DEF TypeOK
<1>3. Memory!Live(Ctx)
  BY <1>1, <1>2 DEF Memory!Live
<1> QED BY <1>1, <1>3 DEF Memory!Allocated

LEMMA NextLogical ==
    ASSUME phase' # "exit"
    PROVE  Logical' = [c \in {Ctx} |-> memory']
BY DEF Logical

LEMMA StutterStep ==
    ASSUME phase # "exit", phase' # "exit", memory' = memory, writing' = writing
    PROVE  UNCHANGED Memory!vars
<1>1. Logical = [c \in {Ctx} |-> memory] /\ Logical' = [c \in {Ctx} |-> memory']
  BY DEF Logical
<1> QED BY <1>1 DEF Memory!vars

\* mmu_allocate_blocks
LEMMA GrowStep ==
    ASSUME TypeOK, BlocksNumbered, Building, NEW n \in Nat, AllocateBlocks(n),
           phase' # "exit", writing' = writing
    PROVE  Memory!Next
<1> DEFINE S == {l \in Lvid : size <= l /\ l < size + n}
<1>1. \A l \in Lvid : memory'[l] = IF l \in S THEN Zero ELSE memory[l]
  BY AllocateFacts
<1>2. memory' \in [Lvid -> Content \cup {Nil}]
  BY AllocateFacts
<1>3. \A l \in S : memory[l] = Nil
  <2>1. \A l \in S : ~(l < size)
    BY CountIsSize, BoundsAssumption, SMT DEF Lvid
  <2> QED BY <2>1 DEF BlocksNumbered
<1>4. phase # "exit"
  BY DEF Building
<1>5. S \in SUBSET Lvid
  OBVIOUS
<1> HIDE DEF S
<1>6. \A l \in S : ~Memory!Allocated(Ctx, l)
  BY <1>3, <1>4, <1>5, LogicalFacts
<1>7. Logical' = [Logical EXCEPT ![Ctx] = [l \in Lvid |-> IF l \in S THEN Zero ELSE Logical[Ctx][l]]]
  <2>1. memory' = [l \in Lvid |-> IF l \in S THEN Zero ELSE memory[l]]
    BY <1>1, <1>2
  <2> QED BY <1>4, <2>1, LogicalFacts, NextLogical
<1>8. Memory!Grow(Ctx, S)
  BY <1>4, <1>6, <1>7, LogicalFacts DEF Memory!Grow
<1> QED BY <1>5, <1>8 DEF Memory!Next

\* mmu_map_logical_blocks for writing
LEMMA OpenStep ==
    ASSUME TypeOK, phase # "exit", phase' # "exit", writing = {}, memory' = memory,
           writing' \subseteq Lvid, \A l \in writing' : memory[l] # Nil
    PROVE  Memory!Next
<1>1. PICK S \in SUBSET Lvid : S = writing'
  OBVIOUS
<1>2. \A l \in S : Memory!Allocated(Ctx, l)
  BY <1>1, LogicalFacts
<1>3. ({Ctx} \X writing)' = ({Ctx} \X writing) \cup ({Ctx} \X S)
  BY <1>1
<1>4. Logical' = Logical
  BY LogicalFacts, NextLogical
<1>5. Memory!Open(Ctx, S)
  BY <1>2, <1>3, <1>4 DEF Memory!Open
<1> QED BY <1>5 DEF Memory!Next

\* mmu_unmap_logical_blocks
LEMMA CloseStep ==
    ASSUME TypeOK, phase # "exit", phase' # "exit", memory' = memory, writing' = {}
    PROVE  Memory!Next
<1>1. PICK S \in SUBSET Lvid : S = writing
  BY DEF TypeOK
<1>2. ({Ctx} \X writing)' = ({Ctx} \X writing) \ ({Ctx} \X S)
  BY <1>1
<1>3. Logical' = Logical
  BY LogicalFacts, NextLogical
<1>4. Memory!Close(Ctx, S)
  BY <1>2, <1>3 DEF Memory!Close
<1> QED BY <1>4 DEF Memory!Next

\* a store through a mapping
LEMMA WriteStep ==
    ASSUME TypeOK, phase # "exit", phase' # "exit", NEW k \in writing, memory[k] # Nil,
           NEW v \in Content, memory' = [memory EXCEPT ![k] = v], writing' = writing
    PROVE  Memory!Next
<1>1. k \in Lvid
  BY DEF TypeOK
<1>2. Memory!Allocated(Ctx, k)
  BY <1>1, LogicalFacts
<1>3. Logical' = [Logical EXCEPT ![Ctx][k] = v]
  BY LogicalFacts, NextLogical
<1>4. <<Ctx, k>> \in {Ctx} \X writing /\ UNCHANGED ({Ctx} \X writing)
  OBVIOUS
<1>5. Memory!Write(Ctx, k, v)
  BY <1>2, <1>3, <1>4 DEF Memory!Write
<1> QED BY <1>1, <1>5 DEF Memory!Next

\* mmu_release_logical_block
LEMMA DropStep ==
    ASSUME TypeOK, phase # "exit", phase' # "exit", NEW k \in Lvid, memory[k] # Nil,
           memory' = [memory EXCEPT ![k] = Nil], writing' = writing
    PROVE  Memory!Next
<1>1. Memory!Allocated(Ctx, k)
  BY LogicalFacts
<1>2. Logical' = [Logical EXCEPT ![Ctx][k] = Nil]
  BY LogicalFacts, NextLogical
<1>3. Memory!Drop(Ctx, k)
  BY <1>1, <1>2 DEF Memory!Drop
<1> QED BY <1>3 DEF Memory!Next

\* mmu_destroy_context
LEMMA DestroyStep ==
    ASSUME TypeOK, phase # "exit", phase' = "exit", writing' = writing
    PROVE  Memory!Next
<1>1. Logical' = [Logical EXCEPT ![Ctx] = Nil]
  <2>1. Logical' = [c \in {Ctx} |-> Nil]
    BY DEF Logical
  <2> QED BY <2>1, LogicalFacts
<1>2. Memory!Destroy(Ctx)
  BY <1>1, LogicalFacts DEF Memory!Destroy
<1> QED BY <1>2 DEF Memory!Next

LEMMA StepKeepsToContract ==
    ASSUME IInv, Next
    PROVE  Memory!Next \/ UNCHANGED Memory!vars
<1>1. /\ TypeOK /\ LoopsInRange /\ BlocksNumbered /\ ListsPartition /\ shape \in Shape
      /\ MappedForWriting /\ ReleasedBelow /\ layer \in Layers
  BY DEF IInv, TypeOK, LoopsInRange
<1>2. shape.layers \in Nat /\ BlocksPerLayer \in Nat /\ BlocksPerLayer * shape.layers \in Nat
  BY <1>1, ShapeFacts, ProductFacts
<1>3. CASE PrefillAllocate
  BY <1>1, <1>2, <1>3, GrowStep DEF PrefillAllocate, Building
<1>4. CASE DecodeExtend
  BY <1>1, <1>2, <1>4, GrowStep DEF DecodeExtend, Decoding, Building
<1>5. CASE PrefillMap
  <2>1. /\ phase = "map" /\ phase' = "write" /\ writing' = Blocks(layer) /\ memory' = memory
        /\ Building /\ writing = {}
    BY <1>1, <1>5 DEF PrefillMap, MapToWrite, Building, MappedForWriting
  <2>2. \A l \in Blocks(layer) : l \in Lvid /\ memory[l] # Nil
    BY <1>1, <2>1, ListFacts DEF Blocks, BlocksNumbered
  <2> QED BY <1>1, <2>1, <2>2, OpenStep
<1>6. CASE PrefillWrite
  <2>1. /\ phase = "write" /\ phase' = "write" /\ writing' = writing /\ Building
        /\ writing = Blocks(layer)
    BY <1>1, <1>6 DEF PrefillWrite, Building, MappedForWriting
  <2>2. /\ b + 1 \in 1 .. Held /\ caches[layer][b + 1] \in Lvid
        /\ caches[layer][b + 1] < size
    BY <1>6, PrefillWriteFacts
  <2>3. PICK v \in Content : memory' = [memory EXCEPT ![caches[layer][b + 1]] = v]
    BY <1>6, PrefillWriteFacts
  <2>4. caches[layer][b + 1] \in writing /\ memory[caches[layer][b + 1]] # Nil
    BY <1>1, <2>1, <2>2, ListFacts DEF Blocks, BlocksNumbered
  <2> QED BY <1>1, <2>1, <2>3, <2>4, WriteStep
<1>7. CASE PrefillUnmap
  <2>1. phase = "write" /\ writing' = {} /\ memory' = memory /\ phase' # "exit"
    BY <1>7 DEF PrefillUnmap, Unmap, NextLayer
  <2> QED BY <1>1, <2>1, CloseStep
<1>8. CASE DecodeGoesOn
  BY <1>8, StutterStep DEF DecodeGoesOn, Decoding
<1>9. CASE DecodeRead
  <2>1. phase = "read" /\ writing' = {} /\ memory' = memory /\ phase' # "exit"
    BY <1>9 DEF DecodeRead, MapToRead, NextLayer
  <2>2. writing = {}
    BY <1>1, <2>1 DEF MappedForWriting
  <2> QED BY <2>1, <2>2, StutterStep
<1>10. CASE MapTails
  <2>1. /\ phase = "mapTails" /\ phase' = "writeTails" /\ memory' = memory
        /\ writing' = {LastBlock(l) : l \in Layers} /\ Extended /\ writing = {}
    BY <1>1, <1>10 DEF MapTails, MapToWrite, Extended, MappedForWriting
  <2>2. \A y \in Layers : LastBlock(y) \in Lvid /\ memory[LastBlock(y)] # Nil
    BY <2>1, TailFacts, NilAssumption
  <2> QED BY <1>1, <2>1, <2>2, OpenStep
<1>11. CASE WriteTail
  <2>1. /\ phase = "writeTails" /\ phase' # "exit" /\ writing' = writing /\ Extended
        /\ writing = {LastBlock(l) : l \in Layers}
    BY <1>1, <1>11 DEF WriteTail, NextLayer, Extended, MappedForWriting
  <2>2. PICK v \in Content : memory' = [memory EXCEPT ![LastBlock(layer)] = v]
    BY <1>11, WriteTailFacts
  <2>3. LastBlock(layer) \in writing /\ memory[LastBlock(layer)] # Nil
    BY <1>1, <2>1, TailFacts, NilAssumption
  <2> QED BY <1>1, <2>1, <2>2, <2>3, WriteStep
<1>12. CASE UnmapTails
  <2>1. phase = "unmapTails" /\ writing' = {} /\ memory' = memory /\ phase' = "decode"
    BY <1>12 DEF UnmapTails, Unmap
  <2> QED BY <1>1, <2>1, CloseStep
<1>13. CASE DecodeDone
  BY <1>13, StutterStep DEF DecodeDone
<1>14. CASE ReleaseBlock
  <2>1. /\ phase = "release" /\ phase' = "release" /\ writing' = writing
        /\ memory' = [memory EXCEPT ![b] = Nil] /\ b < end
    BY <1>14 DEF ReleaseBlock, CountBefore
  <2>2. b \in Lvid
    BY <1>1, <2>1, BoundsAssumption, SMT DEF ReleasedBelow, Lvid, TypeOK
  <2>3. memory[b] # Nil
    <3>1. b <= b
      BY <1>1, SMT DEF TypeOK
    <3> QED BY <1>1, <2>1, <2>2, <3>1 DEF ReleasedBelow
  <2> QED BY <1>1, <2>1, <2>2, <2>3, DropStep
<1>15. CASE AllReleased
  BY <1>15, StutterStep DEF AllReleased
<1>16. CASE Fail
  BY <1>16, StutterStep DEF Fail, Refused, Decoding
<1>17. CASE DestroyContext
  BY <1>1, <1>17, DestroyStep DEF DestroyContext
<1> QED BY <1>3, <1>4, <1>5, <1>6, <1>7, <1>8, <1>9, <1>10, <1>11, <1>12, <1>13, <1>14,
           <1>15, <1>16, <1>17 DEF Next

-----------------------------------------------------------------------------
(* The theorems *)

LEMMA StepHolds == IInv /\ [Next]_vars => IInv'
<1> SUFFICES ASSUME IInv, [Next]_vars
             PROVE  IInv'
  OBVIOUS
<1>1. CASE Next
  BY <1>1, PrefillAllocateKeeps, PrefillMapKeeps, PrefillWriteKeeps, PrefillUnmapKeeps,
     DecodeExtendKeeps, DecodeGoesOnKeeps, DecodeReadKeeps, MapTailsKeeps, WriteTailKeeps,
     UnmapTailsKeeps, DecodeDoneKeeps, ReleaseBlockKeeps, AllReleasedKeeps, FailKeeps,
     DestroyContextKeeps DEF Next
<1>2. CASE UNCHANGED vars
  <2>1. /\ shape' = shape /\ phase' = phase /\ layer' = layer /\ b' = b
        /\ total' = total /\ end' = end /\ caches' = caches /\ memory' = memory
        /\ size' = size /\ writing' = writing
    BY <1>2 DEF vars
  <2>2. /\ Layers' = Layers /\ BlocksPerLayer' = BlocksPerLayer /\ Building' = Building
        /\ Extended' = Extended /\ Held' = Held /\ Fits' = Fits
    BY <2>1 DEF Layers, BlocksPerLayer, Building, Extended, Held, Ceiling, Fits
  <2>3. TypeOK' /\ LoopsInRange'
    BY <2>1, <2>2 DEF IInv, TypeOK, LoopsInRange
  <2>4. BlocksNumbered' /\ ListsPartition'
    BY <2>1, <2>2, SameBlocks DEF IInv
  <2>5. TokensInPlace'
    <3>1. \A y \in Layers : TokensOf(y)' = TokensOf(y)
      BY <2>1 DEF TokensOf
    <3> QED BY <2>1, <3>1, SameTokens DEF IInv
  <2>6. PrefixInPlace' /\ MappedForWriting'
    BY <2>1, <2>2 DEF IInv, PrefixInPlace, InPlace, MappedForWriting, Blocks, LastBlock
  <2>7. ReleasedBelow' /\ NothingLeftBehind' /\ EnoughIsEnough'
    BY <2>1, <2>2 DEF IInv, ReleasedBelow, NothingLeftBehind, Allocated, EnoughIsEnough
  <2> QED BY <2>3, <2>4, <2>5, <2>6, <2>7 DEF IInv
<1> QED BY <1>1, <1>2

LEMMA InvariantHolds == Spec => []IInv
BY InitHolds, StepHolds, PTL DEF Spec

LEMMA PartitionOwnsOnce == IInv => BlocksOwnedOnce
<1> SUFFICES ASSUME IInv, Building, NEW l \in Lvid
             PROVE  Cardinality({p \in Layers \X (1 .. MaxLvid) :
                                    p[2] \in DOMAIN caches[p[1]] /\ caches[p[1]][p[2]] = l})
                    = IF l \in Allocated THEN 1 ELSE 0
  BY DEF BlocksOwnedOnce, Building
<1> DEFINE places == {p \in Layers \X (1 .. MaxLvid) :
                         p[2] \in DOMAIN caches[p[1]] /\ caches[p[1]][p[2]] = l}
<1>1. /\ TypeOK /\ LoopsInRange /\ BlocksNumbered /\ ListsPartition /\ shape \in Shape
  BY DEF IInv, TypeOK
<1>2. \A y \in Layers : /\ DOMAIN caches[y] = 1 .. Held
                        /\ \A i \in 1 .. Held : caches[y][i] \in Lvid /\ caches[y][i] < size
  BY <1>1, ListFacts
<1>3. Held \in Nat /\ Held <= MaxLvid /\ MaxLvid \in Nat
  <2>1. /\ Held \in Nat /\ shape.layers \in Nat \ {0} /\ MaxLvid \in Nat
        /\ shape.blocks \in Nat /\ shape.blocks <= MaxLvid
    BY <1>1, HeldFacts, ShapeFacts
  <2>2. Held <= Held * shape.layers /\ Held * shape.layers \in Nat
    BY <2>1, ProductFacts
  <2>3. size = Held * shape.layers /\ size <= shape.blocks
    BY <1>1 DEF BlocksNumbered
  <2> QED BY <2>1, <2>2, <2>3, SMT
<1>4. l \in Nat
  BY <1>3, SMT DEF Lvid
<1>5. l \in Allocated <=> l < size
  BY <1>1 DEF BlocksNumbered, Allocated
<1>6. CASE l < size
  <2>1. l \in 0 .. size - 1
    BY <1>3, <1>4, <1>6, SMT DEF TypeOK, IInv
  <2>2. PICK y \in Layers, i \in 1 .. Held : caches[y][i] = l
    BY <1>1, <2>1 DEF ListsPartition
  <2>3. i \in 1 .. MaxLvid
    BY <1>3, SMT
  <2>4. <<y, i>> \in places
    BY <1>2, <2>2, <2>3
  <2>5. ASSUME NEW p \in places
        PROVE  p = <<y, i>>
    <3>1. PICK z \in Layers, j \in 1 .. MaxLvid : p = <<z, j>>
      OBVIOUS
    <3>2. j \in DOMAIN caches[z] /\ caches[z][j] = l
      BY <3>1
    <3>3. j \in 1 .. Held
      BY <1>2, <3>2
    <3>4. z = y /\ j = i
      BY <1>1, <2>2, <3>2, <3>3 DEF ListsPartition
    <3> QED BY <3>1, <3>4
  <2>6. places = {<<y, i>>}
    BY <2>4, <2>5
  <2>7. Cardinality(places) = 1
    BY <2>6, FS_Singleton
  <2> QED BY <1>5, <1>6, <2>7
<1>7. CASE ~(l < size)
  <2>1. places = {}
    BY <1>2, <1>7
  <2>2. Cardinality(places) = 0
    BY <2>1, FS_EmptySet
  <2> QED BY <1>5, <1>7, <2>2
<1> QED BY <1>6, <1>7

\* The layers share no block, and the lists name all of the blocks that the context
\* has, so the count that Prefill and DecodeExtend start from is the number of the
\* next block.
THEOREM LayersShareNoBlock == Spec => []BlocksOwnedOnce
BY InvariantHolds, PartitionOwnsOnce, PTL

\* A token that has been written stays, in the block and slot where the attention of
\* its layer looks for it, for every number of tokens, of tokens per block, and layers.
THEOREM TokensStayInPlace == Spec => []TokensInPlace
<1>1. IInv => TokensInPlace
  BY DEF IInv
<1> QED BY <1>1, InvariantHolds, PTL

\* ReleaseAllBlocks leaves no block behind, although it reads the count only once.
THEOREM ReleasesAllBlocks == Spec => []NothingLeftBehind
<1>1. IInv => NothingLeftBehind
  BY DEF IInv
<1> QED BY <1>1, InvariantHolds, PTL

\* When Fits holds, no call of the program is refused.
THEOREM NeverRefusedWhenItFits == Spec => []EnoughIsEnough
<1>1. IInv => EnoughIsEnough
  BY DEF IInv
<1> QED BY <1>1, InvariantHolds, PTL

\* The program is a client that the contract of the runtime is about: every step of it
\* is a call that ForkedMemory allows, or changes nothing there.
THEOREM ClientKeepsToContract == Spec => KeepsToContract
<1>1. IInv /\ [Next]_vars => [Memory!Next]_(Memory!vars)
  <2> SUFFICES ASSUME IInv, [Next]_vars
               PROVE  Memory!Next \/ UNCHANGED Memory!vars
    OBVIOUS
  <2>1. CASE Next
    BY <2>1, StepKeepsToContract
  <2>2. CASE UNCHANGED vars
    BY <2>2 DEF vars, Memory!vars, Logical
  <2> QED BY <2>1, <2>2
<1> QED BY <1>1, InvariantHolds, PTL DEF Spec, KeepsToContract
=============================================================================
