-------------------------- MODULE MmuThreadsProofs --------------------------
(***************************************************************************)
(* For any number of threads and calls: the recursive mutex keeps calls    *)
(* apart, nested calls included, and mmu_shutdown deletes the runtime when *)
(* nobody is inside it.                                                    *)
(***************************************************************************)
EXTENDS MmuThreads, SequenceTheorems, TLAPS

Closer == {"shutdown", "delete"}

\* mmu_shutdown neither calls an API function nor is called by one.
StackOK(s) ==
    /\ s \in Seq(Frame)
    /\ \A i \in 1 .. Len(s) : s[i].kind \in Closer => Len(s) = 1

\* A thread waits at its innermost function; deleting waits for nothing.
WaitersInCall ==
    \A t \in waiting : InCall(t) /\ Top(t).kind # "delete"

\* api_mutex counts the lock_guards of its owner, and nobody else has any.
MutexCountsGuards ==
    /\ owner = Nil => depth = 0
    /\ owner # Nil => Inside(owner) /\ depth = Guards(owner)
    /\ \A t \in Thread : Inside(t) => owner = t

\* While a shutdown waits, whoever is in a call is inside; once it has unlocked
\* the mutex, and after it, nobody is.
ShutdownIsLast ==
    /\ \A t, u \in Thread :
          InCall(t) /\ InCall(u) /\ t # u /\ Top(t).kind = "shutdown" => Inside(u)
    /\ \A t, u \in Thread :
          InCall(t) /\ Top(t).kind = "delete" /\ InCall(u) => t = u
    /\ RuntimeOutlivesCalls

Inv == /\ TypeOK
       /\ \A t \in Thread : StackOK(stack[t])
       /\ WaitersInCall
       /\ MutexCountsGuards
       /\ ShutdownIsLast

-----------------------------------------------------------------------------
(* What entering, calling and returning do to a stack *)

\* A list of elements of S, given as a function, is a sequence of S.
LEMMA FunctionIsSeq ==
    ASSUME NEW S, NEW n \in Nat, NEW s \in [1 .. n -> S]
    PROVE  s \in Seq(S) /\ Len(s) = n
BY SeqDef, LenProperties

\* pop_back: everything but the last element, in place
LEMMA FrontFacts ==
    ASSUME NEW S, NEW s \in Seq(S), s # <<>>
    PROVE  /\ Len(s) \in Nat \ {0}
           /\ Front(s) \in Seq(S)
           /\ Len(Front(s)) = Len(s) - 1
           /\ \A i \in 1 .. Len(s) - 1 : Front(s)[i] = s[i]
           /\ Last(s) \in S /\ Last(s) = s[Len(s)]
<1>1. Len(s) \in Nat \ {0} /\ Len(s) \in 1 .. Len(s)
  BY EmptySeq, LenProperties, SMT
<1>2. Front(s) = SubSeq(s, 1, Len(s) - 1) /\ Last(s) = s[Len(s)]
  BY DEF Front, Last
<1>3. /\ Front(s) \in Seq(S)
      /\ Len(Front(s)) = IF 1 <= Len(s) - 1 THEN Len(s) - 1 - 1 + 1 ELSE 0
  <2>1. \A i \in 1 .. Len(s) - 1 : s[i] \in S
    BY <1>1, ElementOfSeq, SMT
  <2> QED BY <1>1, <1>2, <2>1, SubSeqProperties
<1>4. Len(Front(s)) = Len(s) - 1
  <2>1. \A n \in Nat \ {0} : (IF 1 <= n - 1 THEN n - 1 - 1 + 1 ELSE 0) = n - 1
    BY SMT
  <2> QED BY <1>1, <1>3, <2>1
<1>5. \A i \in 1 .. Len(s) - 1 : Front(s)[i] = s[i]
  BY <1>1, <1>2, SMT
<1> QED BY <1>1, <1>2, <1>3, <1>4, <1>5, ElementOfSeq

\* The frame of a function that has just been entered
LEMMA EnterFacts ==
    ASSUME NEW kind \in Kind
    PROVE  Enter(kind) \in Frame /\ Enter(kind).kind = kind
BY ThreadsAssumption, SMT DEF Enter, Frame, CallsLeft

\* A count of guards, and one less
LEMMA CountFacts ==
    ASSUME NEW n \in Nat \ {0}
    PROVE  /\ n - 1 \in Nat
           /\ n # 1 => n - 1 > 0
           /\ ~(n - 1 > 0) => n = 1 /\ n - 1 = 0
BY SMT

\* A call into the API: one function on the stack
LEMMA SingleFacts ==
    ASSUME NEW kind \in Kind
    PROVE  /\ StackOK(<<Enter(kind)>>) /\ Len(<<Enter(kind)>>) = 1
           /\ <<Enter(kind)>> # <<>> /\ Last(<<Enter(kind)>>) = Enter(kind)
BY EnterFacts, SMT DEF StackOK, Last

\* A stack that is not empty
LEMMA TopFacts ==
    ASSUME NEW s \in Seq(Frame), s # <<>>
    PROVE  Len(s) \in Nat \ {0} /\ Last(s) = s[Len(s)] /\ Last(s) \in Frame
BY FrontFacts

\* A nested call: one function more, above one that is no shutdown
LEMMA PushFacts ==
    ASSUME NEW s, StackOK(s), s # <<>>, Last(s).left > 0,
           Last(s).kind \notin Closer, NEW kind \in Kind \ Closer
    PROVE  LET p == Append(OneLessToCall(s), Enter(kind)) IN
           /\ StackOK(p) /\ Len(p) = Len(s) + 1
           /\ p # <<>> /\ Last(p) = Enter(kind)
<1> DEFINE q == OneLessToCall(s)
           p == Append(q, Enter(kind))
<1>1. s \in Seq(Frame) /\ Len(s) \in Nat \ {0} /\ Last(s) = s[Len(s)]
  BY TopFacts DEF StackOK
<1>2. /\ s \in [1 .. Len(s) -> Frame]
      /\ Len(s) \in 1 .. Len(s)
      /\ \A i \in 1 .. Len(s) : s[i] \in Frame
  BY <1>1, LenProperties, ElementOfSeq, SMT
<1>3. s[Len(s)].left - 1 \in Nat
  BY <1>1, <1>2, SMT DEF Frame
<1>4. q \in [1 .. Len(s) -> Frame] /\ \A i \in 1 .. Len(s) : q[i].kind = s[i].kind
  BY <1>2, <1>3, SMT DEF OneLessToCall, Frame
<1>5. q \in Seq(Frame) /\ Len(q) = Len(s)
  BY <1>1, <1>4, FunctionIsSeq
<1> HIDE DEF q
<1>6. /\ p \in Seq(Frame) /\ Len(p) = Len(s) + 1
      /\ \A i \in 1 .. Len(s) : p[i] = q[i]
      /\ p[Len(s) + 1] = Enter(kind)
  BY <1>1, <1>5, EnterFacts, AppendProperties
<1> HIDE DEF p
<1>7. p # <<>> /\ Last(p) = Enter(kind)
  <2>1. p # <<>>
    BY <1>1, <1>6, EmptySeq
  <2> QED BY <2>1, <1>6, TopFacts
<1>8. ASSUME NEW i \in 1 .. Len(p) PROVE p[i].kind \notin Closer
  <2>1. CASE i = Len(s) + 1
    BY <1>6, <2>1, EnterFacts
  <2>2. CASE i # Len(s) + 1
    <3>1. i \in 1 .. Len(s) /\ (Len(s) = 1 => i = Len(s))
      BY <1>1, <1>6, <2>2, SMT
    <3>2. p[i].kind = s[i].kind
      BY <1>4, <1>6, <3>1
    <3> QED BY <1>1, <3>1, <3>2 DEF StackOK
  <2> QED BY <2>1, <2>2
<1> QED BY <1>6, <1>7, <1>8 DEF StackOK, p, q

\* A return: the function below, if there is one, is no shutdown
LEMMA PopFacts ==
    ASSUME NEW s, StackOK(s), s # <<>>
    PROVE  /\ StackOK(Front(s)) /\ Len(Front(s)) = Len(s) - 1
           /\ Front(s) # <<>> => Last(Front(s)).kind \notin Closer
           /\ Front(s) = <<>> <=> Len(s) = 1
<1>1. /\ Len(s) \in Nat \ {0}
      /\ Front(s) \in Seq(Frame)
      /\ Len(Front(s)) = Len(s) - 1
      /\ \A i \in 1 .. Len(s) - 1 : Front(s)[i] = s[i]
  BY FrontFacts DEF StackOK
<1>2. Front(s) = <<>> <=> Len(s) = 1
  BY <1>1, EmptySeq, SMT
<1>3. ASSUME NEW i \in 1 .. Len(s) - 1 PROVE Front(s)[i].kind \notin Closer
  <2>1. i \in 1 .. Len(s) /\ Len(s) # 1
    BY <1>1, <1>3, SMT
  <2> QED BY <1>1, <2>1 DEF StackOK
<1>4. ASSUME Front(s) # <<>> PROVE Last(Front(s)).kind \notin Closer
  <2>1. Last(Front(s)) = Front(s)[Len(s) - 1] /\ Len(s) - 1 \in Nat \ {0}
    BY <1>1, <1>4, TopFacts
  <2>2. Len(s) - 1 \in 1 .. Len(s) - 1
    BY <1>1, <2>1, SMT
  <2> QED BY <1>3, <2>1, <2>2
<1> QED BY <1>1, <1>2, <1>3, <1>4 DEF StackOK

-----------------------------------------------------------------------------
(* The steps *)

\* A step of thread t changes nothing of the others.
OthersUnchanged(t) ==
    \A u \in Thread : u # t =>
       /\ stack'[u] = stack[u]
       /\ (InCall(u)' <=> InCall(u)) /\ Top(u)' = Top(u)
       /\ Guards(u)' = Guards(u) /\ (Inside(u)' <=> Inside(u))
       /\ (u \in waiting') = (u \in waiting)

\* A step that touches only the stack of t, and whether it waits, is of that kind.
LEMMA OthersStay ==
    ASSUME Inv, NEW t \in Thread, NEW s, stack' = [stack EXCEPT ![t] = s],
           waiting' \in {waiting, waiting \cup {t}, waiting \ {t}}
    PROVE  stack'[t] = s /\ OthersUnchanged(t)
<1>1. stack'[t] = s
  BY DEF Inv, TypeOK
<1>2. ASSUME NEW u \in Thread, u # t
      PROVE  stack'[u] = stack[u] /\ (u \in waiting') = (u \in waiting)
  BY <1>2 DEF Inv, TypeOK
<1> QED BY <1>1, <1>2 DEF OthersUnchanged, InCall, Top, Guards, Inside, Runs

\* The guards of a thread, by the state it is in
LEMMA GuardFacts ==
    ASSUME Inv, NEW t \in Thread
    PROVE  /\ InCall(t) => Len(stack[t]) \in Nat \ {0}
           /\ ~InCall(t) => Len(stack[t]) = 0
           /\ t \in waiting => Guards(t) = Len(stack[t]) - 1
           /\ InCall(t) /\ t \notin waiting /\ Top(t).kind # "delete" =>
                 Guards(t) = Len(stack[t]) /\ Inside(t)
<1>1. stack[t] \in Seq(Frame)
  BY DEF Inv, TypeOK
<1>2. InCall(t) => Len(stack[t]) \in Nat \ {0}
  BY <1>1, TopFacts DEF InCall
<1>3. ~InCall(t) => Len(stack[t]) = 0
  BY EmptySeq DEF InCall
<1> QED BY <1>2, <1>3, SMT DEF Guards, Inside, Runs

\* At the start no thread is in a call.
LEMMA InitInv == Init => Inv
<1> SUFFICES ASSUME Init PROVE Inv
  OBVIOUS
<1>1. \A t \in Thread : stack[t] = <<>> /\ ~InCall(t) /\ ~Inside(t)
  BY DEF Init, InCall, Inside
<1>2. <<>> \in Seq(Frame) /\ Len(<<>>) = 0
  BY EmptySeq
<1>3. \A t \in Thread : StackOK(stack[t])
  <2>1. 1 .. Len(<<>>) = {}
    BY <1>2, SMT
  <2> QED BY <1>1, <1>2, <2>1 DEF StackOK
<1>4. TypeOK
  BY <1>2, SMT DEF Init, TypeOK
<1> QED BY <1>1, <1>3, <1>4, SMT
        DEF Inv, Init, WaitersInCall, MutexCountsGuards, ShutdownIsLast, RuntimeOutlivesCalls

\* Entering the API disturbs nobody: the caller has no guard yet.
LEMMA CallStep ==
    ASSUME Inv, NEW t \in Thread, NEW kind \in Kind \ {"delete"}, Call(t, kind)
    PROVE  Inv'
<1> DEFINE s == <<Enter(kind)>>
<1>1. /\ stack' = [stack EXCEPT ![t] = s] /\ waiting' = waiting \cup {t}
      /\ owner' = owner /\ depth' = depth /\ alive' = alive
      /\ calls' = [calls EXCEPT ![t] = @ + 1]
      /\ ~InCall(t) /\ ~Closing
      /\ kind = "shutdown" => \A u \in Thread : InCall(u) => Inside(u)
  BY DEF Call
<1>2. /\ StackOK(s) /\ Len(s) = 1 /\ s # <<>> /\ Last(s) = Enter(kind)
      /\ Enter(kind).kind = kind
  BY SingleFacts, EnterFacts
<1> HIDE DEF s
<1>3. stack'[t] = s /\ OthersUnchanged(t)
  BY <1>1, OthersStay
<1>4. InCall(t)' /\ Top(t)'.kind = kind /\ ~Inside(t)'
  <2>1. InCall(t)' /\ Top(t)'.kind = kind
    BY <1>2, <1>3 DEF InCall, Top
  <2>2. Guards(t)' = 1 - 1
    BY <1>1, <1>2, <1>3 DEF Guards
  <2>3. ~(1 - 1 > 0)
    BY SMT
  <2> QED BY <2>1, <2>2, <2>3 DEF Inside
<1>5. ~Inside(t)
  BY <1>1 DEF Inside
<1>6. TypeOK'
  BY <1>1, <1>2, SMT DEF Inv, TypeOK, StackOK
<1>7. \A u \in Thread : StackOK(stack'[u])
  BY <1>2, <1>3 DEF Inv, OthersUnchanged
<1>8. WaitersInCall'
  BY <1>1, <1>3, <1>4 DEF Inv, OthersUnchanged, WaitersInCall, TypeOK
<1>9. MutexCountsGuards'
  <2>1. owner # Nil => owner \in Thread /\ owner # t
    BY <1>5 DEF Inv, TypeOK, MutexCountsGuards
  <2> QED BY <1>1, <1>3, <1>4, <2>1 DEF Inv, OthersUnchanged, MutexCountsGuards
<1>10. ShutdownIsLast'
  <2>1. alive /\ \A u \in Thread : InCall(u) => Top(u).kind \notin Closer
    BY <1>1 DEF Closing, Closer
  <2> QED BY <1>1, <1>3, <1>4, <2>1
        DEF Closer, OthersUnchanged, ShutdownIsLast, RuntimeOutlivesCalls
<1> QED BY <1>6, <1>7, <1>8, <1>9, <1>10 DEF Inv

\* The mutex is free or the thread's own: it has one guard more.
LEMMA LockStep ==
    ASSUME Inv, NEW t \in Thread, Lock(t)
    PROVE  Inv'
<1>1. /\ t \in waiting /\ owner \in {Nil, t}
      /\ owner' = t /\ depth' = depth + 1 /\ waiting' = waiting \ {t}
      /\ stack' = stack /\ alive' = alive /\ calls' = calls
  BY DEF Lock, MayLock
<1>2. stack' = [stack EXCEPT ![t] = stack[t]]
  BY <1>1 DEF Inv, TypeOK
<1>3. stack'[t] = stack[t] /\ OthersUnchanged(t)
  BY <1>1, <1>2, OthersStay
<1>4. InCall(t) /\ Top(t).kind # "delete"
  BY <1>1 DEF Inv, WaitersInCall
<1>5. Len(stack[t]) \in Nat \ {0} /\ Guards(t) = Len(stack[t]) - 1
  BY <1>1, <1>4, GuardFacts
<1>6. InCall(t)' /\ Top(t)' = Top(t) /\ Guards(t)' = Len(stack[t])
  BY <1>1, <1>4 DEF InCall, Top, Guards, Runs
<1>7. Inside(t)'
  BY <1>5, <1>6, SMT DEF Inside
<1>8. depth = Guards(t)
  <2>1. CASE owner = Nil
    <3>1. depth = 0 /\ ~Inside(t)
      BY <2>1, ThreadsAssumption DEF Inv, MutexCountsGuards
    <3>2. ~(Len(stack[t]) - 1 > 0)
      BY <3>1, <1>4, <1>5 DEF Inside
    <3>3. Len(stack[t]) - 1 = 0
      BY <3>2, <1>5, CountFacts
    <3> QED BY <3>1, <3>3, <1>5
  <2>2. CASE owner = t
    BY <2>2, ThreadsAssumption DEF Inv, MutexCountsGuards
  <2> QED BY <1>1, <2>1, <2>2
<1>9. TypeOK'
  BY <1>1, SMT DEF Inv, TypeOK
<1>10. WaitersInCall'
  BY <1>1, <1>3 DEF Inv, OthersUnchanged, WaitersInCall, TypeOK
<1>11. MutexCountsGuards'
  <2>1. depth' = Guards(t)'
    BY <1>1, <1>5, <1>6, <1>8, SMT
  <2>2. ASSUME NEW u \in Thread, Inside(u)' PROVE u = t
    <3>1. CASE u # t
      <4>1. owner = u
        BY <2>2, <3>1, <1>3 DEF Inv, OthersUnchanged, MutexCountsGuards
      <4> QED BY <4>1, <1>1, ThreadsAssumption
    <3> QED BY <3>1
  <2> QED BY <1>1, <1>7, <2>1, <2>2, ThreadsAssumption DEF MutexCountsGuards
<1>12. ShutdownIsLast'
  BY <1>1, <1>3, <1>4, <1>6, <1>7
     DEF Inv, OthersUnchanged, ShutdownIsLast, RuntimeOutlivesCalls
<1>13. \A u \in Thread : StackOK(stack'[u])
  BY <1>1 DEF Inv
<1> QED BY <1>9, <1>10, <1>11, <1>12, <1>13 DEF Inv

\* A nested call leaves the guards as they are.
LEMMA CallNestedStep ==
    ASSUME Inv, NEW t \in Thread, NEW kind \in Kind, CallNested(t, kind)
    PROVE  Inv'
<1> DEFINE s == Append(OneLessToCall(stack[t]), Enter(kind))
<1>1. /\ stack' = [stack EXCEPT ![t] = s] /\ waiting' = waiting \cup {t}
      /\ owner' = owner /\ depth' = depth /\ alive' = alive /\ calls' = calls
      /\ InCall(t) /\ t \notin waiting /\ Top(t).left > 0
      /\ kind \in Callees[Top(t).kind]
  BY DEF CallNested
<1>2. stack[t] \in Seq(Frame) /\ stack[t] # <<>> /\ StackOK(stack[t])
  BY <1>1 DEF Inv, TypeOK, InCall
<1>3. Top(t).kind \in Kind
  BY <1>2, TopFacts DEF Top, Frame
<1>4. Top(t).kind \notin Closer /\ kind \notin Closer
  BY <1>1, <1>3, SMT DEF Callees, Closer, Kind
<1>5. /\ StackOK(s) /\ Len(s) = Len(stack[t]) + 1
      /\ s # <<>> /\ Last(s) = Enter(kind) /\ Enter(kind).kind = kind
  BY <1>1, <1>2, <1>4, PushFacts, EnterFacts DEF Top
<1> HIDE DEF s
<1>6. stack'[t] = s /\ OthersUnchanged(t)
  BY <1>1, OthersStay
<1>7. Len(stack[t]) \in Nat \ {0} /\ Guards(t) = Len(stack[t]) /\ Inside(t)
  BY <1>1, <1>4, GuardFacts DEF Closer
<1>8. InCall(t)' /\ Top(t)'.kind = kind
  BY <1>5, <1>6 DEF InCall, Top
<1>9. Guards(t)' = Guards(t) /\ Inside(t)'
  <2>1. Guards(t)' = Len(stack[t]) + 1 - 1
    BY <1>1, <1>5, <1>6 DEF Guards
  <2>2. Guards(t)' = Guards(t)
    BY <1>7, <2>1, SMT
  <2> QED BY <1>7, <1>8, <2>2 DEF Inside
<1>10. TypeOK'
  BY <1>1, <1>5, SMT DEF Inv, TypeOK, StackOK
<1>11. \A u \in Thread : StackOK(stack'[u])
  BY <1>5, <1>6 DEF Inv, OthersUnchanged
<1>12. WaitersInCall'
  BY <1>1, <1>4, <1>6, <1>8 DEF Inv, Closer, OthersUnchanged, WaitersInCall, TypeOK
<1>13. MutexCountsGuards'
  <2>1. \A u \in Thread : Guards(u)' = Guards(u) /\ (Inside(u)' <=> Inside(u))
    BY <1>6, <1>7, <1>9 DEF OthersUnchanged
  <2> QED BY <1>1, <2>1 DEF Inv, TypeOK, MutexCountsGuards
<1>14. ShutdownIsLast'
  BY <1>1, <1>4, <1>6, <1>8, <1>9
     DEF Inv, Closer, OthersUnchanged, ShutdownIsLast, RuntimeOutlivesCalls
<1> QED BY <1>10, <1>11, <1>12, <1>13, <1>14 DEF Inv

\* The two steps that unlock: the thread was the owner, with as many guards as
\* functions on its stack.
LEMMA UnlockFacts ==
    ASSUME Inv, NEW t \in Thread, InCall(t), t \notin waiting,
           Top(t).kind # "delete", Unlock
    PROVE  /\ owner = t /\ depth = Len(stack[t]) /\ Len(stack[t]) \in Nat \ {0}
           /\ depth' = Len(stack[t]) - 1
           /\ owner' = IF Len(stack[t]) = 1 THEN Nil ELSE t
           /\ \A u \in Thread : Inside(u) => u = t
<1>1. Len(stack[t]) \in Nat \ {0} /\ Guards(t) = Len(stack[t]) /\ Inside(t)
  BY GuardFacts
<1>2. owner = t /\ depth = Len(stack[t])
  BY <1>1, ThreadsAssumption DEF Inv, MutexCountsGuards
<1>3. depth' = Len(stack[t]) - 1 /\ owner' = IF Len(stack[t]) - 1 = 0 THEN Nil ELSE t
  BY <1>2 DEF Unlock, Unlocked
<1>4. Len(stack[t]) - 1 = 0 <=> Len(stack[t]) = 1
  BY <1>1, SMT
<1> QED BY <1>1, <1>2, <1>3, <1>4 DEF Inv, MutexCountsGuards

\* A function returns, to its caller or to the host.
LEMMA ReturnStep ==
    ASSUME Inv, NEW t \in Thread, Return(t)
    PROVE  Inv'
<1>1. /\ stack' = [stack EXCEPT ![t] = Front(stack[t])] /\ waiting' = waiting
      /\ alive' = alive /\ calls' = calls
      /\ InCall(t) /\ t \notin waiting /\ Top(t).kind \notin Closer /\ Unlock
  BY DEF Return, Closer
<1>2. StackOK(stack[t]) /\ stack[t] # <<>>
  BY <1>1 DEF Inv, InCall
<1>3. /\ StackOK(Front(stack[t])) /\ Len(Front(stack[t])) = Len(stack[t]) - 1
      /\ Front(stack[t]) # <<>> => Last(Front(stack[t])).kind \notin Closer
      /\ Front(stack[t]) = <<>> <=> Len(stack[t]) = 1
  BY <1>2, PopFacts
<1>4. stack'[t] = Front(stack[t]) /\ OthersUnchanged(t)
  BY <1>1, OthersStay
<1>5. /\ owner = t /\ Len(stack[t]) \in Nat \ {0}
      /\ depth' = Len(stack[t]) - 1
      /\ owner' = IF Len(stack[t]) = 1 THEN Nil ELSE t
      /\ \A u \in Thread : Inside(u) => u = t
  BY <1>1, UnlockFacts DEF Closer
<1>6. InCall(t)' <=> Len(stack[t]) # 1
  BY <1>3, <1>4 DEF InCall
<1>7. InCall(t)' => Top(t)'.kind \notin Closer
  BY <1>3, <1>4 DEF InCall, Top
<1>8. InCall(t)' => Guards(t)' = Len(stack[t]) - 1 /\ Inside(t)'
  <2> SUFFICES ASSUME InCall(t)' PROVE Guards(t)' = Len(stack[t]) - 1 /\ Inside(t)'
    OBVIOUS
  <2>1. Guards(t)' = Len(stack[t]) - 1
    BY <1>1, <1>3, <1>4, <1>7 DEF Guards, Runs, Closer
  <2>2. Len(stack[t]) - 1 > 0
    BY <1>5, <1>6, CountFacts
  <2> QED BY <2>1, <2>2 DEF Inside
<1>9. TypeOK'
  <2>1. Len(stack[t]) - 1 \in Nat
    BY <1>5, SMT
  <2>2. depth' \in Nat /\ owner' \in Thread \cup {Nil}
    BY <1>5, <2>1
  <2> QED BY <1>1, <1>3, <2>2 DEF Inv, TypeOK, StackOK
<1>10. \A u \in Thread : StackOK(stack'[u])
  BY <1>3, <1>4 DEF Inv, OthersUnchanged
<1>11. WaitersInCall'
  BY <1>1, <1>4 DEF Inv, OthersUnchanged, WaitersInCall, TypeOK
<1>12. MutexCountsGuards'
  <2>1. \A u \in Thread : Inside(u)' => u = t /\ InCall(t)'
    BY <1>4, <1>5 DEF OthersUnchanged, Inside
  <2>2. CASE Len(stack[t]) = 1
    <3>1. owner' = Nil /\ depth' = 0
      BY <1>5, <2>2
    <3> QED BY <1>6, <2>1, <2>2, <3>1 DEF MutexCountsGuards
  <2>3. CASE Len(stack[t]) # 1
    BY <1>5, <1>6, <1>8, <2>1, <2>3, ThreadsAssumption DEF MutexCountsGuards
  <2> QED BY <2>2, <2>3
<1>13. ShutdownIsLast'
  BY <1>1, <1>4, <1>7, <1>8
     DEF Inv, Closer, OthersUnchanged, ShutdownIsLast, RuntimeOutlivesCalls
<1> QED BY <1>9, <1>10, <1>11, <1>12, <1>13 DEF Inv

\* mmu_shutdown has the mutex, so whoever was in a call has returned.
LEMMA ShutdownUnlocksStep ==
    ASSUME Inv, NEW t \in Thread, ShutdownUnlocks(t)
    PROVE  Inv'
<1> DEFINE s == <<Enter("delete")>>
<1>1. /\ stack' = [stack EXCEPT ![t] = s] /\ waiting' = waiting
      /\ alive' = alive /\ calls' = calls
      /\ InCall(t) /\ t \notin waiting /\ Top(t).kind = "shutdown" /\ Unlock
  BY DEF ShutdownUnlocks, Runs
<1>2. /\ StackOK(s) /\ Len(s) = 1 /\ s # <<>>
      /\ Last(s) = Enter("delete") /\ Enter("delete").kind = "delete"
  BY SingleFacts, EnterFacts DEF Kind
<1> HIDE DEF s
<1>3. stack'[t] = s /\ OthersUnchanged(t)
  BY <1>1, OthersStay
<1>4. /\ owner = t /\ depth = Len(stack[t]) /\ Len(stack[t]) \in Nat \ {0}
      /\ depth' = Len(stack[t]) - 1
      /\ owner' = IF Len(stack[t]) = 1 THEN Nil ELSE t
      /\ \A u \in Thread : Inside(u) => u = t
  BY <1>1, UnlockFacts
<1>5. Len(stack[t]) = 1
  <2>1. stack[t] \in Seq(Frame) /\ stack[t] # <<>> /\ StackOK(stack[t])
    BY <1>1 DEF Inv, TypeOK, InCall
  <2>2. Len(stack[t]) \in 1 .. Len(stack[t]) /\ Top(t) = stack[t][Len(stack[t])]
    BY <1>4, <2>1, TopFacts, SMT DEF Top
  <2> QED BY <1>1, <2>1, <2>2 DEF StackOK, Closer
<1>6. InCall(t)' /\ Top(t)'.kind = "delete" /\ ~Inside(t)'
  <2>1. InCall(t)' /\ Top(t)'.kind = "delete"
    BY <1>2, <1>3 DEF InCall, Top
  <2>2. Guards(t)' = 1 - 1
    BY <1>1, <1>2, <1>3, <2>1 DEF Guards, Runs
  <2>3. ~(1 - 1 > 0)
    BY SMT
  <2> QED BY <2>1, <2>2, <2>3 DEF Inside
<1>7. owner' = Nil /\ depth' = 0
  BY <1>4, <1>5
<1>8. \A u \in Thread : InCall(u)' => u = t
  <2>1. \A u \in Thread : InCall(u) /\ u # t => Inside(u)
    BY <1>1 DEF Inv, ShutdownIsLast
  <2> QED BY <1>3, <1>4, <2>1 DEF OthersUnchanged
<1>9. TypeOK'
  BY <1>1, <1>2, <1>7, SMT DEF Inv, TypeOK, StackOK
<1>10. \A u \in Thread : StackOK(stack'[u])
  BY <1>2, <1>3 DEF Inv, OthersUnchanged
<1>11. WaitersInCall'
  BY <1>1, <1>3 DEF Inv, OthersUnchanged, WaitersInCall, TypeOK
<1>12. MutexCountsGuards'
  BY <1>3, <1>4, <1>6, <1>7 DEF OthersUnchanged, MutexCountsGuards
<1>13. ShutdownIsLast'
  BY <1>1, <1>6, <1>8 DEF Inv, ShutdownIsLast, RuntimeOutlivesCalls
<1> QED BY <1>9, <1>10, <1>11, <1>12, <1>13 DEF Inv

\* The runtime goes when the deleting thread is the only one in a call.
LEMMA DeleteStep ==
    ASSUME Inv, NEW t \in Thread, Delete(t)
    PROVE  Inv'
<1>1. /\ stack' = [stack EXCEPT ![t] = <<>>] /\ waiting' = waiting
      /\ owner' = owner /\ depth' = depth /\ alive' = FALSE /\ calls' = calls
      /\ InCall(t) /\ t \notin waiting /\ Top(t).kind = "delete"
  BY DEF Delete, Runs
<1>2. <<>> \in Seq(Frame) /\ StackOK(<<>>)
  <2>1. <<>> \in Seq(Frame) /\ Len(<<>>) = 0
    BY EmptySeq
  <2>2. 1 .. Len(<<>>) = {}
    BY <2>1, SMT
  <2> QED BY <2>1, <2>2 DEF StackOK
<1>3. stack'[t] = <<>> /\ OthersUnchanged(t)
  BY <1>1, OthersStay
<1>4. \A u \in Thread : InCall(u) => u = t
  BY <1>1 DEF Inv, ShutdownIsLast
<1>5. \A u \in Thread : ~InCall(u)'
  BY <1>3, <1>4 DEF OthersUnchanged, InCall
<1>6. \A u \in Thread : ~Inside(u)'
  BY <1>5 DEF Inside
<1>7. \A u \in Thread : ~Inside(u)
  <2>1. Guards(t) = Len(stack[t]) - 1
    BY <1>1 DEF Guards, Runs
  <2>2. Len(stack[t]) = 1
    <3>1. stack[t] \in Seq(Frame) /\ stack[t] # <<>> /\ StackOK(stack[t])
      BY <1>1 DEF Inv, TypeOK, InCall
    <3>2. Len(stack[t]) \in 1 .. Len(stack[t]) /\ Top(t) = stack[t][Len(stack[t])]
      BY <3>1, TopFacts, SMT DEF Top
    <3> QED BY <1>1, <3>1, <3>2 DEF StackOK, Closer
  <2>3. ~(1 - 1 > 0)
    BY SMT
  <2>4. ~Inside(t)
    BY <2>1, <2>2, <2>3 DEF Inside
  <2> QED BY <1>4, <2>4 DEF Inside
<1>8. owner = Nil /\ depth = 0
  BY <1>7 DEF Inv, TypeOK, MutexCountsGuards
<1>9. TypeOK'
  BY <1>1, <1>2 DEF Inv, TypeOK
<1>10. \A u \in Thread : StackOK(stack'[u])
  BY <1>2, <1>3 DEF Inv, OthersUnchanged
<1>11. WaitersInCall'
  BY <1>1, <1>3 DEF Inv, OthersUnchanged, WaitersInCall, TypeOK
<1>12. MutexCountsGuards'
  BY <1>1, <1>6, <1>8 DEF MutexCountsGuards
<1>13. ShutdownIsLast'
  BY <1>5 DEF ShutdownIsLast, RuntimeOutlivesCalls
<1> QED BY <1>9, <1>10, <1>11, <1>12, <1>13 DEF Inv

-----------------------------------------------------------------------------
\* The invariant holds in every state of every host of this kind.
THEOREM MutexKept == Spec => []Inv
<1>1. Init => Inv
  BY InitInv
<1>2. Inv /\ [Next]_vars => Inv'
  <2> SUFFICES ASSUME Inv, [Next]_vars PROVE Inv'
    OBVIOUS
  <2>1. CASE UNCHANGED vars
    BY <2>1 DEF vars, Inv, TypeOK, StackOK, WaitersInCall, MutexCountsGuards,
                ShutdownIsLast, RuntimeOutlivesCalls, Inside, Guards, Runs, InCall, Top
  <2>2. ASSUME NEW t \in Thread, Step(t) PROVE Inv'
    BY <2>2, LockStep, CallNestedStep, ReturnStep, ShutdownUnlocksStep, DeleteStep
       DEF Step
  <2>3. ASSUME NEW t \in Thread, NEW kind \in Kind \ {"delete"}, Call(t, kind)
        PROVE  Inv'
    BY <2>3, CallStep
  <2> QED BY <2>1, <2>2, <2>3 DEF Next
<1> QED BY <1>1, <1>2, PTL DEF Spec

\* The variables have their types: no thread runs off its call stack.
THEOREM ThreadsTypeCorrect == Spec => []TypeOK
<1>1. Inv => TypeOK
  BY DEF Inv
<1> QED BY <1>1, MutexKept, PTL

\* Calls to the API never overlap, nor do the calls inside a batch with others.
THEOREM CallsStaySerial == Spec => []CallsAreSerial
<1>1. Inv => CallsAreSerial
  BY DEF Inv, MutexCountsGuards, CallsAreSerial
<1> QED BY <1>1, MutexKept, PTL

\* mmu_shutdown deletes the runtime only when nobody is in a call.
THEOREM RuntimeIsDeletedLast == Spec => []RuntimeOutlivesCalls
<1>1. Inv => RuntimeOutlivesCalls
  BY DEF Inv, ShutdownIsLast
<1> QED BY <1>1, MutexKept, PTL
=============================================================================
