----------------------------- MODULE MmuThreads -----------------------------
(***************************************************************************)
(* The threads of a host inside the API of src/src/mmu_api.cpp: every      *)
(* function locks the recursive mutex api_mutex and unlocks it when it     *)
(* returns, some functions call others, and mmu_shutdown deletes the       *)
(* runtime, mutex included, after it has unlocked it.                      *)
(*                                                                         *)
(* What a call does to the blocks is MmuRuntime's and MmuBatch's subject;  *)
(* those modules take for granted that calls do not overlap, and this one  *)
(* is about why.                                                           *)
(***************************************************************************)
EXTENDS Naturals, SequencesExt

CONSTANTS Thread,    \* the host's threads
          Nil,       \* no thread
          MaxItems,  \* bound on the calls that a batch function makes
          MaxCalls   \* bound on the calls that a thread makes

ASSUME ThreadsAssumption == Nil \notin Thread /\ MaxItems \in Nat /\ MaxCalls \in Nat

VARIABLES
    owner,    \* the thread that has api_mutex
    depth,    \* how many times it has locked it
    stack,    \* the API functions each thread is in, the innermost last
    waiting,  \* the threads whose innermost function has yet to lock
    alive,    \* whether the runtime has not been deleted
    calls     \* how many calls each thread has made

vars == <<owner, depth, stack, waiting, alive, calls>>

(***************************************************************************)
(* The functions by the calls they make themselves: a batch maps and       *)
(* unmaps, and a map for writing prepares the block.  A leaf calls none:   *)
(* mmu_prepare_block_for_write, mmu_unmap_logical_block and the others.    *)
(***************************************************************************)
Kind == {"leaf", "map", "batch", "shutdown", "delete"}
Callees == [kind \in Kind |->
               CASE kind = "batch" -> {"map", "leaf"}
                 [] kind = "map"   -> {"leaf"}
                 [] OTHER          -> {}]
CallsLeft(kind) == CASE kind = "batch" -> MaxItems [] kind = "map" -> 1 [] OTHER -> 0
Frame == [kind : Kind, left : Nat]
Enter(kind) == [kind |-> kind, left |-> CallsLeft(kind)]

TypeOK == /\ owner \in Thread \cup {Nil}
          /\ depth \in Nat
          /\ stack \in [Thread -> Seq(Frame)]
          /\ waiting \in SUBSET Thread
          /\ alive \in BOOLEAN
          /\ calls \in [Thread -> Nat]

InCall(t) == stack[t] # <<>>
Top(t) == Last(stack[t])
Runs(t, kind) == InCall(t) /\ t \notin waiting /\ Top(t).kind = kind

\* How many lock_guards thread t has: one for each function it is in, except
\* one that waits for the mutex and a shutdown that has unlocked it.
Guards(t) == IF t \in waiting \/ Runs(t, "delete") THEN Len(stack[t]) - 1
                                                   ELSE Len(stack[t])
Inside(t) == InCall(t) /\ Guards(t) > 0

-----------------------------------------------------------------------------
(* The host.  It calls nothing once it has called mmu_shutdown, and calls that *)
(* when no other thread waits for the mutex; one thread may be inside a call.  *)

Closing == \/ ~alive
           \/ \E t \in Thread : InCall(t) /\ Top(t).kind \in {"shutdown", "delete"}

Call(t, kind) ==
    /\ ~InCall(t) /\ calls[t] < MaxCalls
    /\ ~Closing
    /\ kind = "shutdown" => \A u \in Thread : InCall(u) => Inside(u)
    /\ stack' = [stack EXCEPT ![t] = <<Enter(kind)>>]
    /\ waiting' = waiting \cup {t}
    /\ calls' = [calls EXCEPT ![t] = @ + 1]
    /\ UNCHANGED <<owner, depth, alive>>

-----------------------------------------------------------------------------
(* Inside the API *)

\* A recursive mutex lets its owner in again; one that does not; and a shutdown
\* that does not lock at all
MayLockOnce(t) == owner = Nil
MayLockOrShutDown(t) == owner \in {Nil, t} \/ Top(t).kind = "shutdown"
MayLock(t) == owner \in {Nil, t}

\* The mutex counts how often it was locked.
Lock(t) ==
    /\ t \in waiting
    /\ MayLock(t)
    /\ owner' = t
    /\ depth' = depth + 1
    /\ waiting' = waiting \ {t}
    /\ UNCHANGED <<stack, alive, calls>>

\* A function calls another one, which locks again.
OneLessToCall(s) == [s EXCEPT ![Len(s)].left = @ - 1]
CallNested(t, kind) ==
    /\ InCall(t) /\ t \notin waiting
    /\ Top(t).left > 0
    /\ kind \in Callees[Top(t).kind]
    /\ stack' = [stack EXCEPT ![t] = Append(OneLessToCall(@), Enter(kind))]
    /\ waiting' = waiting \cup {t}
    /\ UNCHANGED <<owner, depth, alive, calls>>

\* The lock_guard is destroyed; the mutex is free when it was the last one.
Unguarded == 0
Unlocked == depth - 1
Unlock == depth' = Unlocked /\ owner' = IF Unlocked = 0 THEN Nil ELSE owner

\* Any function may return early, with an error.
Return(t) ==
    /\ InCall(t) /\ t \notin waiting
    /\ Top(t).kind \notin {"shutdown", "delete"}
    /\ Unlock
    /\ stack' = [stack EXCEPT ![t] = Front(@)]
    /\ UNCHANGED <<waiting, alive, calls>>

\* mmu_shutdown clears the contexts and unlocks ...
ShutdownUnlocks(t) ==
    /\ Runs(t, "shutdown")
    /\ Unlock
    /\ stack' = [stack EXCEPT ![t] = <<Enter("delete")>>]
    /\ UNCHANGED <<waiting, alive, calls>>

\* ... and deletes the runtime.
Delete(t) ==
    /\ Runs(t, "delete")
    /\ alive' = FALSE
    /\ stack' = [stack EXCEPT ![t] = <<>>]
    /\ UNCHANGED <<owner, depth, waiting, calls>>

-----------------------------------------------------------------------------
Init == /\ owner = Nil /\ depth = 0
        /\ stack = [t \in Thread |-> <<>>]
        /\ waiting = {}
        /\ alive = TRUE
        /\ calls = [t \in Thread |-> 0]

Step(t) == \/ Lock(t)
           \/ \E kind \in Kind : CallNested(t, kind)
           \/ Return(t)
           \/ ShutdownUnlocks(t)
           \/ Delete(t)

Next == \E t \in Thread : Step(t) \/ \E kind \in Kind \ {"delete"} : Call(t, kind)

Spec == Init /\ [][Next]_vars

\* Every thread in a call is scheduled; a host need not make calls.  The mutex
\* is not fair, but MaxCalls calls cannot keep a thread out of it for ever.
FairSpec == Spec /\ \A t \in Thread : WF_vars(Step(t))

-----------------------------------------------------------------------------
\* Calls do not overlap: a batch call or a write map keeps other threads out until
\* it returns, over all the locking and unlocking of the functions it calls
\* (docs/phase1_unified_memory_blueprint.md, section 12.1).
CallsAreSerial == \A t, u \in Thread : Inside(t) /\ Inside(u) => t = u

\* The runtime is deleted when nobody is inside: mmu_shutdown waits for the call
\* in progress, and nobody finds the mutex gone.
RuntimeOutlivesCalls == ~alive => \A t \in Thread : ~InCall(t)

\* Every call returns, mmu_shutdown included: a function that calls another does
\* not wait for the mutex its own thread has.
EveryCallReturns == \A t \in Thread : InCall(t) ~> ~InCall(t)
=============================================================================
