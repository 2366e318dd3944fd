----------------------------- MODULE BlockPool ------------------------------
(***************************************************************************)
(* What the runtime expects of BlockManager, with no list in it: a count   *)
(* for every block, a block that is free whenever its count is zero, and   *)
(* refusals only for a reason.  MmuRuntime is written against this view:   *)
(* its FreeBlocks is Free below, and it takes any member of it.            *)
(*                                                                         *)
(* `answer' is the last call with its argument (None when it has none) and *)
(* what it returned: a block, a number, or None for false.                 *)
(***************************************************************************)
EXTENDS Naturals, FiniteSets

CONSTANTS Block,  \* the blocks
          Id,     \* the ids callers may pass, blocks or not
          None    \* no id, no answer

VARIABLES refs, answer
vars == <<refs, answer>>

Free == {b \in Block : refs[b] = 0}
InUse == Block \ Free

Init == refs = [b \in Block |-> 0] /\ answer = <<"none", None, None>>

Refuse(call, id) == answer' = <<call, id, None>> /\ UNCHANGED refs

Take(call, id, b) ==
    /\ b \in Free
    /\ refs' = [refs EXCEPT ![b] = 1]
    /\ answer' = <<call, id, b>>

Allocate ==
    \/ \E b \in Free : Take("allocate", None, b)
    \/ Free = {} /\ Refuse("allocate", None)

AllocateSpecific(id) ==
    \/ Take("allocate_specific", id, id)
    \/ id \notin Free /\ Refuse("allocate_specific", id)

Retain(id) ==
    \/ /\ id \in InUse
       /\ refs' = [refs EXCEPT ![id] = @ + 1]
       /\ answer' = <<"retain", id, refs'[id]>>
    \/ id \notin InUse /\ Refuse("retain", id)

Release(id) ==
    \/ /\ id \in InUse
       /\ refs' = [refs EXCEPT ![id] = @ - 1]
       /\ answer' = <<"release", id, refs'[id]>>
    \/ id \notin InUse /\ Refuse("release", id)

FreeBlocks ==
    /\ answer' = <<"free_blocks", None, Cardinality(Free)>>
    /\ UNCHANGED refs

Next == \/ Allocate \/ FreeBlocks
        \/ \E id \in Id : AllocateSpecific(id) \/ Retain(id) \/ Release(id)

Spec == Init /\ [][Next]_vars
=============================================================================
