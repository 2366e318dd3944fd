---------------------------- MODULE ForkedMemory ----------------------------
(***************************************************************************)
(* What the memory runtime promises its callers, with no blocks, tiers,    *)
(* pins or reference counts in it: every live context owns a private array *)
(* of logical blocks.  A fork copies the parent's array, after which the   *)
(* two arrays evolve independently; an allocated logical block reads as    *)
(* zero until its context writes it, and only the host writes, through a   *)
(* mapping it has open for writing.                                        *)
(*                                                                         *)
(* The module states the contract of the public API (src/include/dsf_mmu/  *)
(* mmu_api.h); MmuRuntime implements it.                                   *)
(***************************************************************************)
CONSTANTS Ctx,    \* context handles
          Lvid,   \* logical block numbers
          Value,  \* contents of a block
          Zero,   \* the contents of a block nobody has written
          Nil     \* no context, or no block at a logical number

VARIABLES logical,  \* logical[c][l]: what context c finds in logical block l
          writing   \* the <<context, number>> pairs mapped for writing

vars == <<logical, writing>>

Empty == [l \in Lvid |-> Nil]

TypeOK == /\ logical \in [Ctx -> [Lvid -> Value \cup {Nil}] \cup {Nil}]
          /\ writing \subseteq Ctx \X Lvid

Init == logical = [c \in Ctx |-> Nil] /\ writing = {}

Live(c) == logical[c] # Nil

Allocated(c, l) == Live(c) /\ logical[c][l] # Nil

\* mmu_create_context
Create(c) ==
    /\ ~Live(c)
    /\ logical' = [logical EXCEPT ![c] = Empty]
    /\ UNCHANGED writing

\* mmu_destroy_context
Destroy(c) ==
    /\ Live(c)
    /\ logical' = [logical EXCEPT ![c] = Nil]
    /\ UNCHANGED writing

\* mmu_fork_context: the child starts with what the parent has now
Fork(c, d) ==
    /\ Live(c) /\ ~Live(d)
    /\ logical' = [logical EXCEPT ![d] = logical[c]]
    /\ UNCHANGED writing

\* mmu_allocate_blocks: unused numbers become zero-filled blocks
Grow(c, S) ==
    /\ Live(c)
    /\ \A l \in S : ~Allocated(c, l)
    /\ logical' = [logical EXCEPT ![c] =
                      [l \in Lvid |-> IF l \in S THEN Zero ELSE logical[c][l]]]
    /\ UNCHANGED writing

\* mmu_release_logical_block
Drop(c, l) ==
    /\ Allocated(c, l)
    /\ logical' = [logical EXCEPT ![c][l] = Nil]
    /\ UNCHANGED writing

\* mmu_map_logical_blocks and mmu_unmap_logical_blocks with MMU_MAP_WRITE
Open(c, S) ==
    /\ \A l \in S : Allocated(c, l)
    /\ writing' = writing \cup {c} \X S
    /\ UNCHANGED logical
Close(c, S) == writing' = writing \ ({c} \X S) /\ UNCHANGED logical

\* a store through the pointer of an open mapping
Write(c, l, v) ==
    /\ Allocated(c, l)
    /\ <<c, l>> \in writing
    /\ logical' = [logical EXCEPT ![c][l] = v]
    /\ UNCHANGED writing

Next ==
    \E c \in Ctx :
        \/ Create(c)
        \/ Destroy(c)
        \/ \E d \in Ctx : Fork(c, d)
        \/ \E S \in SUBSET Lvid : Grow(c, S) \/ Open(c, S) \/ Close(c, S)
        \/ \E l \in Lvid : Drop(c, l)
        \/ \E l \in Lvid, v \in Value : Write(c, l, v)

Spec == Init /\ [][Next]_vars

\* mmu_test_update_mapping to another physical block: nothing is copied
Replace(c, l) ==
    /\ Allocated(c, l)
    /\ logical' = [logical EXCEPT ![c][l] = Zero]
    /\ UNCHANGED writing
=============================================================================
