---------------------------- MODULE BlockManager ----------------------------
(***************************************************************************)
(* core/block_manager.cpp: reference counts and the stack of free blocks.  *)
(* A block is on the stack, once, exactly while nobody refers to it.  The  *)
(* stack and the counts are two records of the same thing, changed one     *)
(* after the other by four operations that different callers combine:      *)
(* allocation with its rollback, fork, copy on write, release, and the     *)
(* remapping of the test API, which takes a block out of the middle.       *)
(***************************************************************************)
EXTENDS Integers, FiniteSets, SequencesExt

CONSTANTS
    Total,    \* config.l1_block_count
    MaxRefs,  \* bound on a reference count
    None      \* no id, no answer: false, or -1 for ref_count

ASSUME TotalAssumption == Total \in Nat
ASSUME MaxRefsAssumption == MaxRefs \in Nat
ASSUME NoneAssumption == None \notin Int

Block == 0 .. Total - 1

\* What callers pass: blocks, kInvalidBlockId, and one id past the end
Id == -1 .. Total

VARIABLES
    freeList,   \* free_list_; back() is the last element
    refCounts,  \* ref_counts_
    answer      \* the last call, its argument and its answer

vars == <<freeList, refCounts, answer>>

TypeOK ==
    /\ freeList \in Seq(Block)
    /\ refCounts \in [Block -> Nat]

Init ==
    /\ freeList = [i \in 1 .. Total |-> Total - i]
    /\ refCounts = [b \in Block |-> 0]
    /\ answer = <<"none", None, None>>

Refuse(call, id) == answer' = <<call, id, None>> /\ UNCHANGED <<freeList, refCounts>>

Allocate ==
    IF freeList = <<>> THEN Refuse("allocate", None)
    ELSE /\ freeList' = Front(freeList)
         /\ refCounts' = [refCounts EXCEPT ![Last(freeList)] = 1]
         /\ answer' = <<"allocate", None, Last(freeList)>>

\* std::find, then erase at the place found
LeftOnList(i) == freeList
Erased(i) == RemoveAt(freeList, i)
AllocateSpecific(id) ==
    \/ \E i \in 1 .. Len(freeList) :
          /\ freeList[i] = id
          /\ freeList' = Erased(i)
          /\ refCounts' = [refCounts EXCEPT ![id] = 1]
          /\ answer' = <<"allocate_specific", id, id>>
    \/ id \notin ToSet(freeList) /\ Refuse("allocate_specific", id)

\* is_valid and ref_count: neither retain nor release touches a free block.
HasRefs(id) == id \in Block /\ refCounts[id] > 0

Retain(id) ==
    \/ /\ HasRefs(id)
       /\ refCounts[id] < MaxRefs
       /\ refCounts' = [refCounts EXCEPT ![id] = @ + 1]
       /\ answer' = <<"retain", id, refCounts'[id]>>
       /\ UNCHANGED freeList
    \/ ~HasRefs(id) /\ Refuse("retain", id)

\* The block goes back to the stack with its last reference.
ListedAtOnce(id) == Append(freeList, id)
Listed(id) == IF refCounts[id] = 1 THEN Append(freeList, id) ELSE freeList
Release(id) ==
    \/ /\ HasRefs(id)
       /\ freeList' = Listed(id)
       /\ refCounts' = [refCounts EXCEPT ![id] = @ - 1]
       /\ answer' = <<"release", id, refCounts'[id]>>
    \/ ~HasRefs(id) /\ Refuse("release", id)

\* free_blocks, which mmu_get_free_block_count returns
FreeBlocks ==
    /\ answer' = <<"free_blocks", None, Len(freeList)>>
    /\ UNCHANGED <<freeList, refCounts>>

Next == \/ Allocate \/ FreeBlocks
        \/ \E id \in Id : AllocateSpecific(id) \/ Retain(id) \/ Release(id)

Spec == Init /\ [][Next]_vars

-----------------------------------------------------------------------------
\* The stack holds each unreferenced block once and no other block, whatever the
\* order in which allocate, allocate_specific and release took and returned them
\* (free_list_ against ref_counts_).
ListExact ==
    /\ \A i, j \in 1 .. Len(freeList) : freeList[i] = freeList[j] => i = j
    /\ \A i \in 1 .. Len(freeList) : refCounts[freeList[i]] = 0
    /\ \A b \in Block : refCounts[b] = 0 => \E i \in 1 .. Len(freeList) : freeList[i] = b

Pool == INSTANCE BlockPool WITH refs <- refCounts

\* The stack implements the pool MmuRuntime is written against: an allocation
\* never hands out a block in use, is refused only when every block is, and
\* free_blocks is the number of blocks with count zero.
ImplementsBlockPool == Pool!Spec
=============================================================================
