------------------------------ MODULE PagePool ------------------------------
(***************************************************************************)
(* What the runtime expects of a pool of pages, with no pages in it: a     *)
(* block has private memory from its first acquisition to its release, it  *)
(* starts as zeros, and a pool with a limit refuses beyond that number of  *)
(* blocks.  MmuRuntime's L2CanAcquire and L2AcquireMayFail are Acquire and *)
(* Refuse below with its L2Limit, its L1AcquireMayFail is Refuse without a *)
(* limit.                                                                  *)
(***************************************************************************)
EXTENDS Naturals, FiniteSets

CONSTANTS Block,         \* the owners
          Limit,         \* how many may own memory at once; zero for no limit
          MallocMayFail  \* whether memory may run out before the limit

VARIABLES data,    \* data[b]: "none", "zero", or "used" once b was written to
          refused  \* whether the last acquisition was refused

vars == <<data, refused>>

Holders == {b \in Block : data[b] # "none"}
Full == Limit > 0 /\ Cardinality(Holders) >= Limit

Init == data = [b \in Block |-> "none"] /\ refused = FALSE

Acquire(b) ==
    /\ refused' = FALSE
    /\ IF data[b] # "none" THEN UNCHANGED data
       ELSE ~Full /\ data' = [data EXCEPT ![b] = "zero"]

Refuse(b) ==
    /\ data[b] = "none"
    /\ Full \/ MallocMayFail
    /\ refused' = TRUE
    /\ UNCHANGED data

Release(b) == data' = [data EXCEPT ![b] = "none"] /\ UNCHANGED refused

Use(b) ==
    /\ b \in Holders
    /\ data' = [data EXCEPT ![b] = "used"]
    /\ UNCHANGED refused

Next == \E b \in Block : Acquire(b) \/ Refuse(b) \/ Release(b) \/ Use(b)

Spec == Init /\ [][Next]_vars
=============================================================================
