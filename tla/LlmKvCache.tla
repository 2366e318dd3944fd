----------------------------- MODULE LlmKvCache -----------------------------
(***************************************************************************)
(* A client of the runtime: src/examples/llm_kv_prefill_decode.cpp, a      *)
(* key-value cache for the layers of a language model.  Each layer has a   *)
(* list of logical blocks of one context and each block a slot for each of *)
(* tokens_per_block tokens; a prompt fills blocks at once, and every       *)
(* decoded token goes to the last block of each layer.                     *)
(*                                                                         *)
(* The runtime below is what its contract says (ForkedMemory), and refuses *)
(* a call in two cases: there is no free block, or L1 has no room for all  *)
(* the blocks to be mapped at once (RefusedOnlyWhenFull in MmuRuntime).    *)
(* The branches in which an unmap or a release fails are left out.         *)
(***************************************************************************)
EXTENDS Integers, FiniteSets, Sequences

CONSTANTS
    MaxLayers,    \* bounds on the shape of the cache,
    MaxPerBlock,
    MaxPrompt,    \* on the tokens,
    MaxDecode,
    MaxLvid,      \* and on the blocks of the context
    Nil           \* no block, or no token in a slot

ASSUME BoundsAssumption ==
    {MaxLayers, MaxPerBlock, MaxPrompt, MaxDecode, MaxLvid} \subseteq Nat \ {0}

Ctx == "ctx"
Lvid == 0 .. MaxLvid - 1
Slot == 0 .. MaxPerBlock - 1
\* What is written for a token in a layer: a tag made of the two numbers
Entry == (0 .. MaxLayers - 1) \X (0 .. MaxPrompt + MaxDecode - 1)
Content == [Slot -> Entry \cup {Nil}]
Zero == [slot \in Slot |-> Nil]

ASSUME NilAssumption == Nil \notin Content \cup [Lvid -> Content \cup {Nil}]

VARIABLES
    shape,    \* KvShape, the numbers of tokens, two limits of mmu_config_t
    phase,    \* the call that the program is about to make
    layer,    \* the loop variables of these names
    b,
    total,    \* total_tokens
    end,      \* `total' of ReleaseAllBlocks
    caches,   \* LayerCache::logical_blocks of each layer
    memory,   \* the logical blocks of the context, Nil when not allocated
    size,     \* how many entries its page table has
    writing   \* the blocks that are mapped for writing

vars == <<shape, phase, layer, b, total, end, caches, memory, size, writing>>

Shape == [layers : 1 .. MaxLayers, perBlock : 1 .. MaxPerBlock,
          prompt : 0 .. MaxPrompt, decode : 0 .. MaxDecode,
          blocks : 1 .. MaxLvid, resident : 1 .. MaxLvid]
Layers == 0 .. shape.layers - 1

TypeOK == /\ shape \in Shape
          /\ phase \in {"prefill", "map", "write", "decode", "read", "mapTails",
                        "writeTails", "unmapTails", "release", "destroy",
                        "failed", "exit"}
          /\ layer \in 0 .. MaxLayers /\ b \in Nat /\ total \in Nat /\ end \in Nat
          /\ caches \in [Layers -> Seq(Lvid)]
          /\ memory \in [Lvid -> Content \cup {Nil}]
          /\ size \in 0 .. MaxLvid
          /\ writing \subseteq Lvid

-----------------------------------------------------------------------------
(* The calls of the runtime *)

Allocated == {l \in Lvid : memory[l] # Nil}

\* mmu_get_logical_block_count: the entries in use, not the entries there are
LogicalBlockCount == Cardinality(Allocated)

CanAllocate(n) == LogicalBlockCount + n <= shape.blocks
AllocateBlocks(n) ==
    /\ CanAllocate(n)
    /\ memory' = [l \in Lvid |-> IF size <= l /\ l < size + n THEN Zero ELSE memory[l]]
    /\ size' = size + n

CanMap(S) == Cardinality(S) <= shape.resident
\* with and without MMU_MAP_WRITE
MapToRead(S) == CanMap(S) /\ writing' = {}
MapToWrite(S) == CanMap(S) /\ writing' = S
Unmap == writing' = {}

-----------------------------------------------------------------------------
(* Prefill *)

Blocks(l) == {caches[l][i] : i \in DOMAIN caches[l]}

\* How many blocks n tokens take in a layer
Ceiling(n) == (n + shape.perBlock - 1) \div shape.perBlock
BlocksPerLayer == Ceiling(shape.prompt)

\* The layers take the new blocks in turn, each of them a run of its own; and runs
\* that overlap
FirstBlockOverlapping(l) == LogicalBlockCount + l
FirstBlock(l) == LogicalBlockCount + l * BlocksPerLayer

PrefillAllocate ==
    /\ phase = "prefill"
    /\ AllocateBlocks(BlocksPerLayer * shape.layers)
    /\ caches' = [l \in Layers |-> [i \in 1 .. BlocksPerLayer |-> FirstBlock(l) + i - 1]]
    /\ phase' = "map"
    /\ UNCHANGED <<shape, layer, b, total, end, writing>>

PrefillMap ==
    /\ phase = "map"
    /\ MapToWrite(Blocks(layer))
    /\ phase' = "write" /\ b' = 0
    /\ UNCHANGED <<shape, layer, total, end, caches, memory, size>>

\* valid_tokens: all of the slots, or those the prompt still fills
ValidTokens == IF shape.perBlock < shape.prompt - b * shape.perBlock
               THEN shape.perBlock ELSE shape.prompt - b * shape.perBlock
PrefillWrite ==
    /\ phase = "write" /\ b < BlocksPerLayer
    /\ memory' = [memory EXCEPT ![caches[layer][b + 1]] =
                     [slot \in Slot |-> IF slot < ValidTokens
                                        THEN <<layer, b * shape.perBlock + slot>>
                                        ELSE @[slot]]]
    /\ b' = b + 1
    /\ UNCHANGED <<shape, phase, layer, total, end, caches, size, writing>>

\* The loop over the layers goes on, or is over.
NextLayer(body, after) ==
    IF layer + 1 < shape.layers THEN layer' = layer + 1 /\ phase' = body
                                ELSE layer' = 0 /\ phase' = after

PrefillUnmap ==
    /\ phase = "write" /\ b = BlocksPerLayer
    /\ Unmap
    /\ NextLayer("map", "decode")
    /\ UNCHANGED <<shape, b, total, end, caches, memory, size>>

-----------------------------------------------------------------------------
(* Decode *)

SlotInBlock == total % shape.perBlock
\* A token starts a new block in every layer when it comes first in its block.
AlwaysNeedsBlock == TRUE
NeedsBlock == SlotInBlock = 0
Decoding == phase = "decode" /\ total < shape.prompt + shape.decode

DecodeExtend ==
    /\ Decoding /\ NeedsBlock
    /\ AllocateBlocks(shape.layers)
    /\ caches' = [l \in Layers |-> Append(caches[l], LogicalBlockCount + l)]
    /\ phase' = "read"
    /\ UNCHANGED <<shape, layer, b, total, end, writing>>

DecodeGoesOn ==
    /\ Decoding /\ ~NeedsBlock
    /\ phase' = "read"
    /\ UNCHANGED <<shape, layer, b, total, end, caches, memory, size, writing>>

\* Two most recent blocks of a layer, mapped, read and unmapped
Recent(l) == {caches[l][i] : i \in {j \in DOMAIN caches[l] : j + 2 > Len(caches[l])}}
DecodeRead ==
    /\ phase = "read"
    /\ MapToRead(Recent(layer))
    /\ NextLayer("read", "mapTails")
    /\ UNCHANGED <<shape, b, total, end, caches, memory, size>>

\* The block that takes the next token, and the front() of the list
FrontBlock(l) == caches[l][1]
LastBlock(l) == caches[l][Len(caches[l])]
MapTails ==
    /\ phase = "mapTails"
    /\ MapToWrite({LastBlock(l) : l \in Layers})
    /\ phase' = "writeTails"
    /\ UNCHANGED <<shape, layer, b, total, end, caches, memory, size>>

WriteTail ==
    /\ phase = "writeTails"
    /\ memory' = [memory EXCEPT ![LastBlock(layer)][SlotInBlock] = <<layer, total>>]
    /\ NextLayer("writeTails", "unmapTails")
    /\ UNCHANGED <<shape, b, total, end, caches, size, writing>>

SameToken == total
NextToken == total + 1
UnmapTails ==
    /\ phase = "unmapTails"
    /\ Unmap
    /\ total' = NextToken
    /\ phase' = "decode"
    /\ UNCHANGED <<shape, layer, b, end, caches, memory, size>>

-----------------------------------------------------------------------------
(* ReleaseAllBlocks, and what main does around it *)

DecodeDone ==
    /\ phase = "decode" /\ total = shape.prompt + shape.decode
    /\ b' = 0 /\ end' = LogicalBlockCount
    /\ phase' = "release"
    /\ UNCHANGED <<shape, layer, total, caches, memory, size, writing>>

\* The count is read once, before the releases that change it.
CountLeft == LogicalBlockCount
CountBefore == end
ReleaseBlock ==
    /\ phase = "release" /\ b < CountBefore
    /\ memory' = [memory EXCEPT ![b] = Nil]
    /\ b' = b + 1
    /\ UNCHANGED <<shape, phase, layer, total, end, caches, size, writing>>

AllReleased ==
    /\ phase = "release" /\ b >= CountBefore
    /\ phase' = "destroy"
    /\ UNCHANGED <<shape, layer, b, total, end, caches, memory, size, writing>>

\* A call is refused: Prefill and Decode return false.
Refused ==
    \/ phase = "prefill" /\ ~CanAllocate(BlocksPerLayer * shape.layers)
    \/ phase = "map" /\ ~CanMap(Blocks(layer))
    \/ Decoding /\ NeedsBlock /\ ~CanAllocate(shape.layers)
    \/ phase = "read" /\ ~CanMap(Recent(layer))
    \/ phase = "mapTails" /\ ~CanMap({LastBlock(l) : l \in Layers})
Fail ==
    /\ Refused
    /\ phase' = "failed"
    /\ UNCHANGED <<shape, layer, b, total, end, caches, memory, size, writing>>

DestroyContext ==
    /\ phase \in {"destroy", "failed"}
    /\ memory' = [l \in Lvid |-> Nil] /\ size' = 0
    /\ phase' = "exit"
    /\ UNCHANGED <<shape, layer, b, total, end, caches, writing>>

-----------------------------------------------------------------------------
Init == /\ shape \in Shape
        /\ phase = "prefill"
        /\ layer = 0 /\ b = 0 /\ total = shape.prompt /\ end = 0
        /\ caches = [l \in Layers |-> <<>>]
        /\ memory = [l \in Lvid |-> Nil] /\ size = 0
        /\ writing = {}

Next == \/ PrefillAllocate \/ PrefillMap \/ PrefillWrite \/ PrefillUnmap
        \/ DecodeExtend \/ DecodeGoesOn \/ DecodeRead
        \/ MapTails \/ WriteTail \/ UnmapTails
        \/ DecodeDone \/ ReleaseBlock \/ AllReleased
        \/ Fail \/ DestroyContext

\* One thread, which runs until it exits
Spec == Init /\ [][Next]_vars /\ WF_vars(Next)

-----------------------------------------------------------------------------
\* Every block the program has is in one place of one layer's list: layers never
\* write over each other, and a block number is not made up from a wrong count.
BlocksOwnedOnce ==
    phase \notin {"release", "destroy", "failed", "exit"} =>
        \A l \in Lvid :
            Cardinality({p \in Layers \X (1 .. MaxLvid) :
                            p[2] \in DOMAIN caches[p[1]] /\ caches[p[1]][p[2]] = l})
            = IF l \in Allocated THEN 1 ELSE 0

\* How many tokens layer y holds so far
TokensOf(y) == CASE phase \in {"map", "write"} -> IF y < layer THEN shape.prompt ELSE 0
                 [] phase \in {"decode", "read", "mapTails"} -> total
                 [] phase = "writeTails" -> IF y < layer THEN total + 1 ELSE total
                 [] phase = "unmapTails" -> total + 1
                 [] OTHER -> 0

\* Each token stays where the attention of its layer looks for it: block number
\* t div tokens_per_block of the list, slot t mod tokens_per_block.
TokensInPlace ==
    \A y \in Layers : \A t \in 0 .. TokensOf(y) - 1 :
        LET i == t \div shape.perBlock + 1 IN
        /\ i \in DOMAIN caches[y]
        /\ memory[caches[y][i]][t % shape.perBlock] = <<y, t>>

\* ReleaseAllBlocks releases all blocks.
NothingLeftBehind == phase = "destroy" => Allocated = {}

\* No call is refused when there is a block for every token, and L1 holds the
\* prompt of one layer, two blocks to read, and the last blocks of all layers.
Fits ==
    LET all == Ceiling(shape.prompt + shape.decode) IN
    /\ shape.layers * all <= shape.blocks
    /\ BlocksPerLayer <= shape.resident
    /\ shape.decode > 0 => /\ shape.layers <= shape.resident
                           /\ all < 2 \/ shape.resident >= 2
EnoughIsEnough == phase = "failed" => ~Fits

Logical == [c \in {Ctx} |-> IF phase = "exit" THEN Nil ELSE memory]
Memory == INSTANCE ForkedMemory
    WITH Ctx <- {Ctx}, Value <- Content, logical <- Logical, writing <- {Ctx} \X writing

\* The program uses the memory as the contract allows: it stores to allocated
\* blocks that it has mapped for writing, and releases what is allocated.
KeepsToContract == [][Memory!Next]_(Memory!vars)

\* The program exits.
Exits == <>(phase = "exit")
=============================================================================
