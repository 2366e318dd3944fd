------------------------- MODULE BlockManagerProofs -------------------------
(***************************************************************************)
(* For any number of blocks: the stack of free blocks is exact, and        *)
(* BlockManager implements BlockPool, the view of it that MmuRuntime is    *)
(* written against.                                                        *)
(***************************************************************************)
EXTENDS BlockManager, FiniteSetTheorems, SequenceTheorems, TLAPS

Inv == TypeOK /\ ListExact

-----------------------------------------------------------------------------
(* The list of free blocks as a stack, and erase in the middle of it *)

\* A list of elements of S, given as a function, is a sequence of S.
LEMMA FunctionIsSeq ==
    ASSUME NEW S, NEW n \in Nat, NEW s \in [1 .. n -> S]
    PROVE  s \in Seq(S) /\ Len(s) = n
BY SeqDef, LenProperties

\* pop_back: everything but the last element, in place
LEMMA FrontFacts ==
    ASSUME NEW S, NEW s \in Seq(S), s # <<>>
    PROVE  /\ Len(s) \in Nat \ {0}
           /\ Front(s) \in Seq(S)
           /\ Len(Front(s)) = Len(s) - 1
           /\ \A i \in 1 .. Len(s) - 1 : Front(s)[i] = s[i]
           /\ Last(s) \in S /\ Last(s) = s[Len(s)]
<1>1. Len(s) \in Nat \ {0} /\ Len(s) \in 1 .. Len(s)
  BY EmptySeq, LenProperties, SMT
<1>2. Front(s) = SubSeq(s, 1, Len(s) - 1) /\ Last(s) = s[Len(s)]
  BY DEF Front, Last
<1>3. /\ Front(s) \in Seq(S)
      /\ Len(Front(s)) = IF 1 <= Len(s) - 1 THEN Len(s) - 1 - 1 + 1 ELSE 0
  <2>1. \A i \in 1 .. Len(s) - 1 : s[i] \in S
    BY <1>1, ElementOfSeq, SMT
  <2> QED BY <1>1, <1>2, <2>1, SubSeqProperties
<1>4. Len(Front(s)) = Len(s) - 1
  <2>1. \A n \in Nat \ {0} : (IF 1 <= n - 1 THEN n - 1 - 1 + 1 ELSE 0) = n - 1
    BY SMT
  <2> QED BY <1>1, <1>3, <2>1
<1>5. \A i \in 1 .. Len(s) - 1 : Front(s)[i] = s[i]
  BY <1>1, <1>2, SMT
<1> QED BY <1>1, <1>2, <1>3, <1>4, <1>5, ElementOfSeq

\* erase: the elements behind the erased one move up
LEMMA RemoveAtFacts ==
    ASSUME NEW S, NEW s \in Seq(S), NEW k \in 1 .. Len(s)
    PROVE  /\ Len(s) \in Nat
           /\ RemoveAt(s, k) \in Seq(S)
           /\ Len(RemoveAt(s, k)) = Len(s) - 1
           /\ \A i \in 1 .. Len(s) - 1 :
                 RemoveAt(s, k)[i] = IF i < k THEN s[i] ELSE s[i + 1]
<1> DEFINE L == SubSeq(s, 1, k - 1)
           R == SubSeq(s, k + 1, Len(s))
<1>1. Len(s) \in Nat
  BY LenProperties
<1>2. \A i \in 1 .. Len(s) : s[i] \in S
  BY ElementOfSeq
<1>3. /\ L \in Seq(S)
      /\ Len(L) = k - 1
      /\ \A i \in 1 .. k - 1 : L[i] = s[i]
  <2>1. k - 1 \in Int /\ \A i \in 1 .. k - 1 : s[i] \in S
    BY <1>1, <1>2, SMT
  <2>2. /\ L \in Seq(S)
        /\ Len(L) = IF 1 <= k - 1 THEN k - 1 - 1 + 1 ELSE 0
        /\ \A i \in 1 .. k - 1 - 1 + 1 : L[i] = s[1 + i - 1]
    BY <2>1, SubSeqProperties
  <2> HIDE DEF L
  <2>3. Len(L) = k - 1
    BY <1>1, <2>2, SMT
  <2>4. k - 1 - 1 + 1 = k - 1 /\ \A i \in 1 .. k - 1 : 1 + i - 1 = i
    BY <1>1, SMT
  <2> QED BY <2>2, <2>3, <2>4
<1>4. /\ R \in Seq(S)
      /\ Len(R) = Len(s) - k
      /\ \A i \in 1 .. Len(s) - k : R[i] = s[k + i]
  <2>1. k + 1 \in Int /\ Len(s) \in Int /\ \A i \in k + 1 .. Len(s) : s[i] \in S
    BY <1>1, <1>2, SMT
  <2>2. /\ R \in Seq(S)
        /\ Len(R) = IF k + 1 <= Len(s) THEN Len(s) - (k + 1) + 1 ELSE 0
        /\ \A i \in 1 .. Len(s) - (k + 1) + 1 : R[i] = s[k + 1 + i - 1]
    BY <2>1, SubSeqProperties
  <2> HIDE DEF R
  <2>3. Len(R) = Len(s) - k
    <3>1. \A n \in Nat : \A j \in 1 .. n :
             (IF j + 1 <= n THEN n - (j + 1) + 1 ELSE 0) = n - j
      BY SMT
    <3> QED BY <1>1, <2>2, <3>1
  <2>4. Len(s) - (k + 1) + 1 = Len(s) - k /\ \A i \in 1 .. Len(s) - k : k + 1 + i - 1 = k + i
    BY <1>1, SMT
  <2> QED BY <2>2, <2>3, <2>4
<1>5. RemoveAt(s, k) = L \o R
  BY DEF RemoveAt
<1> HIDE DEF L, R
<1>6. /\ L \o R \in Seq(S)
      /\ Len(L \o R) = Len(L) + Len(R)
      /\ \A i \in 1 .. Len(L) + Len(R) :
            (L \o R)[i] = IF i <= Len(L) THEN L[i] ELSE R[i - Len(L)]
  BY <1>3, <1>4, ConcatProperties
<1>7. Len(L) + Len(R) = Len(s) - 1
  BY <1>1, <1>3, <1>4, SMT
<1>8. ASSUME NEW i \in 1 .. Len(s) - 1
      PROVE  RemoveAt(s, k)[i] = IF i < k THEN s[i] ELSE s[i + 1]
  <2>1. RemoveAt(s, k)[i] = IF i <= k - 1 THEN L[i] ELSE R[i - (k - 1)]
    BY <1>3, <1>5, <1>6, <1>7
  <2>2. CASE i < k
    BY <1>1, <1>3, <2>1, <2>2, SMT
  <2>3. CASE ~(i < k)
    <3>1. /\ i - (k - 1) \in 1 .. Len(s) - k
          /\ k + (i - (k - 1)) = i + 1
          /\ ~(i <= k - 1)
      BY <1>1, <2>3, SMT
    <3> QED BY <1>4, <2>1, <2>3, <3>1
  <2> QED BY <2>2, <2>3
<1> QED BY <1>1, <1>5, <1>6, <1>7, <1>8

-----------------------------------------------------------------------------
\* The new stack of the constructor holds every block once.
LEMMA InitExact == Init => Inv
<1> SUFFICES ASSUME Init PROVE Inv
  OBVIOUS
<1> DEFINE F == [i \in 1 .. Total |-> Total - i]
<1>1. F \in [1 .. Total -> Block]
  BY TotalAssumption, SMT DEF Block
<1>2. freeList = F
  BY DEF Init
<1>3. freeList \in Seq(Block) /\ Len(freeList) = Total
  BY <1>1, <1>2, FunctionIsSeq, TotalAssumption
<1>4. refCounts = [b \in Block |-> 0]
  BY DEF Init
<1>5. TypeOK
  BY <1>3, <1>4, SMT DEF TypeOK
<1>6. \A i \in 1 .. Total : freeList[i] = Total - i
  BY <1>2
<1>7. \A i, j \in 1 .. Len(freeList) : freeList[i] = freeList[j] => i = j
  BY <1>3, <1>6, TotalAssumption, SMT
<1>8. \A i \in 1 .. Len(freeList) : refCounts[freeList[i]] = 0
  BY <1>1, <1>2, <1>3, <1>4
<1>9. ASSUME NEW b \in Block PROVE \E i \in 1 .. Len(freeList) : freeList[i] = b
  <2>1. Total - b \in 1 .. Total /\ Total - (Total - b) = b
    BY TotalAssumption, SMT DEF Block
  <2> QED BY <2>1, <1>3, <1>6
<1> QED BY <1>5, <1>7, <1>8, <1>9 DEF Inv, ListExact

-----------------------------------------------------------------------------
(* What taking a block off the stack and putting one back do to it *)

\* allocate takes the last element, allocate_specific the one at k.
LEMMA TakenOff ==
    ASSUME Inv, NEW k \in 1 .. Len(freeList), NEW list \in Seq(Block),
           Len(list) = Len(freeList) - 1,
           \A i \in 1 .. Len(freeList) - 1 :
               list[i] = IF i < k THEN freeList[i] ELSE freeList[i + 1],
           freeList' = list,
           refCounts' = [refCounts EXCEPT ![freeList[k]] = 1]
    PROVE  Inv'
<1> DEFINE n == Len(freeList)
           At(i) == IF i < k THEN i ELSE i + 1
<1>1. n \in Nat /\ freeList[k] \in Block
  BY LenProperties, ElementOfSeq DEF Inv, TypeOK
<1>2. \A i \in 1 .. n - 1 : At(i) \in 1 .. n /\ At(i) # k /\ list[i] = freeList[At(i)]
  BY <1>1, SMT
<1>3. \A i, j \in 1 .. n - 1 : At(i) = At(j) => i = j
  BY <1>1, SMT
<1>4. ASSUME NEW m \in 1 .. n, m # k
      PROVE  \E i \in 1 .. n - 1 : At(i) = m
  <2>1. CASE m < k
    <3>1. m \in 1 .. n - 1 /\ At(m) = m
      BY <1>1, <2>1, SMT
    <3> QED BY <3>1
  <2>2. CASE ~(m < k)
    <3>1. m - 1 \in 1 .. n - 1 /\ At(m - 1) = m
      BY <1>1, <1>4, <2>2, SMT
    <3> QED BY <3>1
  <2> QED BY <2>1, <2>2
<1> HIDE DEF At
<1>5. \A i, j \in 1 .. n : freeList[i] = freeList[j] => i = j
  BY DEF Inv, ListExact
<1>6. TypeOK'
  BY <1>1, SMT DEF Inv, TypeOK
<1>7. Len(freeList') = n - 1
  OBVIOUS
<1>8. ASSUME NEW i \in 1 .. n - 1, NEW j \in 1 .. n - 1, list[i] = list[j]
      PROVE  i = j
  <2>1. freeList[At(i)] = freeList[At(j)]
    BY <1>2, <1>8
  <2>2. At(i) \in 1 .. n /\ At(j) \in 1 .. n
    BY <1>2
  <2>3. At(i) = At(j)
    BY <1>5, <2>1, <2>2
  <2> QED BY <1>3, <2>3
<1>9. ASSUME NEW i \in 1 .. n - 1 PROVE refCounts'[list[i]] = 0
  <2>1. list[i] = freeList[At(i)] /\ At(i) \in 1 .. n /\ At(i) # k
    BY <1>2
  <2>2. refCounts[list[i]] = 0 /\ list[i] # freeList[k] /\ list[i] \in Block
    BY <2>1, <1>5, ElementOfSeq DEF Inv, ListExact, TypeOK
  <2> QED BY <2>2 DEF Inv, TypeOK
<1>10. ASSUME NEW b \in Block, refCounts'[b] = 0
       PROVE  \E i \in 1 .. n - 1 : list[i] = b
  <2>1. b # freeList[k] /\ refCounts[b] = 0
    BY <1>1, <1>10, SMT DEF Inv, TypeOK
  <2>2. PICK m \in 1 .. n : freeList[m] = b
    BY <2>1 DEF Inv, ListExact
  <2>3. PICK i \in 1 .. n - 1 : At(i) = m
    BY <1>4, <2>1, <2>2
  <2> QED BY <1>2, <2>2, <2>3
<1> QED BY <1>6, <1>7, <1>8, <1>9, <1>10 DEF Inv, ListExact

\* release puts back a block that nobody refers to any more.
LEMMA PutBack ==
    ASSUME Inv, NEW b \in Block, refCounts[b] = 1,
           freeList' = Append(freeList, b),
           refCounts' = [refCounts EXCEPT ![b] = 0]
    PROVE  Inv'
<1> DEFINE n == Len(freeList)
<1>1. /\ n \in Nat /\ freeList' \in Seq(Block) /\ Len(freeList') = n + 1
      /\ \A i \in 1 .. n : freeList'[i] = freeList[i]
      /\ freeList'[n + 1] = b
  BY AppendProperties, LenProperties DEF Inv, TypeOK
<1>2. \A i \in 1 .. n : freeList[i] # b
  BY SMT DEF Inv, ListExact
<1>3. TypeOK'
  BY <1>1, SMT DEF Inv, TypeOK
<1>4. \A i, j \in 1 .. n : freeList[i] = freeList[j] => i = j
  BY DEF Inv, ListExact
<1>5. \A i \in 1 .. n + 1 : i \in 1 .. n \/ i = n + 1
  BY <1>1, SMT
<1>6. \A i, j \in 1 .. n + 1 : freeList'[i] = freeList'[j] => i = j
  BY <1>1, <1>2, <1>4, <1>5
<1>7. ASSUME NEW i \in 1 .. n + 1 PROVE refCounts'[freeList'[i]] = 0
  <2>1. CASE i = n + 1
    BY <1>1, <2>1 DEF Inv, TypeOK
  <2>2. CASE i \in 1 .. n
    BY <1>1, <1>2, <2>2, ElementOfSeq DEF Inv, TypeOK, ListExact
  <2> QED BY <1>5, <2>1, <2>2
<1>8. ASSUME NEW a \in Block, refCounts'[a] = 0
      PROVE  \E i \in 1 .. n + 1 : freeList'[i] = a
  <2>1. CASE a = b
    <3>1. n + 1 \in 1 .. n + 1
      BY <1>1, SMT
    <3> QED BY <1>1, <2>1, <3>1
  <2>2. CASE a # b
    <3>1. refCounts[a] = 0
      BY <1>8, <2>2 DEF Inv, TypeOK
    <3>2. PICK i \in 1 .. n : freeList[i] = a
      BY <3>1 DEF Inv, ListExact
    <3>3. i \in 1 .. n + 1
      BY <1>1, SMT
    <3> QED BY <1>1, <3>2, <3>3
  <2> QED BY <2>1, <2>2
<1> QED BY <1>1, <1>3, <1>6, <1>7, <1>8 DEF Inv, ListExact

\* The list stays, and no count becomes or stops being zero.
LEMMA CountsChanged ==
    ASSUME Inv, UNCHANGED freeList, refCounts' \in [Block -> Nat],
           \A b \in Block : refCounts'[b] = 0 <=> refCounts[b] = 0
    PROVE  Inv'
<1>1. \A i \in 1 .. Len(freeList) : freeList[i] \in Block
  BY ElementOfSeq DEF Inv, TypeOK
<1> QED BY <1>1 DEF Inv, TypeOK, ListExact

\* Every call of BlockManager keeps the stack and the counts in step.
LEMMA StepExact ==
    ASSUME Inv, [Next]_vars
    PROVE  Inv'
<1>1. refCounts \in [Block -> Nat] /\ freeList \in Seq(Block)
  BY DEF Inv, TypeOK
<1>2. CASE Allocate
  <2>1. CASE freeList = <<>>
    <3>1. UNCHANGED <<freeList, refCounts>>
      BY <1>2, <2>1 DEF Allocate, Refuse
    <3> QED BY <1>1, <3>1, CountsChanged
  <2>2. CASE freeList # <<>>
    <3>1. /\ Len(freeList) \in Nat \ {0}
          /\ Front(freeList) \in Seq(Block)
          /\ Len(Front(freeList)) = Len(freeList) - 1
          /\ \A i \in 1 .. Len(freeList) - 1 : Front(freeList)[i] = freeList[i]
          /\ Last(freeList) = freeList[Len(freeList)]
      BY <1>1, <2>2, FrontFacts
    <3>2. /\ Len(freeList) \in 1 .. Len(freeList)
          /\ \A i \in 1 .. Len(freeList) - 1 : i < Len(freeList)
      BY <3>1, SMT
    <3>3. /\ freeList' = Front(freeList)
          /\ refCounts' = [refCounts EXCEPT ![freeList[Len(freeList)]] = 1]
      BY <1>2, <2>2, <3>1 DEF Allocate
    <3> QED BY <3>1, <3>2, <3>3, TakenOff
  <2> QED BY <2>1, <2>2
<1>3. ASSUME NEW id \in Id, AllocateSpecific(id) PROVE Inv'
  <2>1. CASE Refuse("allocate_specific", id)
    BY <1>1, <2>1, CountsChanged DEF Refuse
  <2>2. ASSUME NEW k \in 1 .. Len(freeList), freeList[k] = id, freeList' = Erased(k),
               refCounts' = [refCounts EXCEPT ![id] = 1]
        PROVE  Inv'
    <3>1. /\ RemoveAt(freeList, k) \in Seq(Block)
          /\ Len(RemoveAt(freeList, k)) = Len(freeList) - 1
          /\ \A i \in 1 .. Len(freeList) - 1 :
                RemoveAt(freeList, k)[i] = IF i < k THEN freeList[i] ELSE freeList[i + 1]
      BY <1>1, RemoveAtFacts
    <3> QED BY <2>2, <3>1, TakenOff DEF Erased
  <2> QED BY <1>3, <2>1, <2>2 DEF AllocateSpecific
<1>4. ASSUME NEW id \in Id, Retain(id) PROVE Inv'
  <2>1. CASE Refuse("retain", id)
    BY <1>1, <2>1, CountsChanged DEF Refuse
  <2>2. CASE /\ HasRefs(id)
             /\ refCounts' = [refCounts EXCEPT ![id] = @ + 1]
             /\ UNCHANGED freeList
    <3>1. /\ refCounts' \in [Block -> Nat]
          /\ \A b \in Block : refCounts'[b] = 0 <=> refCounts[b] = 0
      BY <1>1, <2>2, SMT DEF HasRefs
    <3> QED BY <2>2, <3>1, CountsChanged
  <2> QED BY <1>4, <2>1, <2>2 DEF Retain
<1>5. ASSUME NEW id \in Id, Release(id) PROVE Inv'
  <2>1. CASE Refuse("release", id)
    BY <1>1, <2>1, CountsChanged DEF Refuse
  <2>2. CASE /\ HasRefs(id)
             /\ freeList' = Listed(id)
             /\ refCounts' = [refCounts EXCEPT ![id] = @ - 1]
    <3>1. CASE refCounts[id] = 1
      <4>1. /\ id \in Block
            /\ freeList' = Append(freeList, id)
            /\ refCounts' = [refCounts EXCEPT ![id] = 0]
        BY <1>1, <2>2, <3>1, SMT DEF HasRefs, Listed
      <4> QED BY <3>1, <4>1, PutBack
    <3>2. CASE refCounts[id] # 1
      <4>1. /\ refCounts' \in [Block -> Nat]
            /\ \A b \in Block : refCounts'[b] = 0 <=> refCounts[b] = 0
        BY <1>1, <2>2, <3>2, SMT DEF HasRefs
      <4>2. freeList' = freeList
        BY <2>2, <3>2 DEF Listed
      <4> QED BY <4>1, <4>2, CountsChanged
    <3> QED BY <3>1, <3>2
  <2> QED BY <1>5, <2>1, <2>2 DEF Release
<1>6. CASE FreeBlocks \/ UNCHANGED vars
  <2>1. UNCHANGED <<freeList, refCounts>>
    BY <1>6 DEF FreeBlocks, vars
  <2> QED BY <1>1, <2>1, CountsChanged
<1> QED BY <1>2, <1>3, <1>4, <1>5, <1>6 DEF Next

\* The stack and the counts agree after any sequence of allocate, allocate_specific,
\* retain and release (free_list_ and ref_counts_ of core/block_manager.cpp).
THEOREM ListStaysExact == Spec => []ListExact
<1>1. Inv /\ [Next]_vars => Inv'
  BY StepExact
<1>2. Inv => ListExact
  BY DEF Inv
<1> QED BY InitExact, <1>1, <1>2, PTL DEF Spec

-----------------------------------------------------------------------------
(* BlockManager implements BlockPool *)

\* The blocks on the stack are the free blocks of BlockPool.
LEMMA ListIsFree ==
    ASSUME Inv
    PROVE  /\ \A i \in 1 .. Len(freeList) : freeList[i] \in Pool!Free
           /\ \A b \in Pool!Free : \E i \in 1 .. Len(freeList) : freeList[i] = b
           /\ Len(freeList) = Cardinality(Pool!Free)
<1>1. \A i \in 1 .. Len(freeList) : freeList[i] \in Pool!Free
  BY ElementOfSeq DEF Inv, TypeOK, ListExact, Pool!Free
<1>2. \A b \in Pool!Free : \E i \in 1 .. Len(freeList) : freeList[i] = b
  BY DEF Inv, ListExact, Pool!Free
<1>3. Len(freeList) \in Nat /\ freeList \in [1 .. Len(freeList) -> Pool!Free]
  BY <1>1, LenProperties DEF Inv, TypeOK
<1>4. freeList \in Bijection(1 .. Len(freeList), Pool!Free)
  BY <1>2, <1>3 DEF Inv, ListExact, Bijection, Injection, Surjection, IsInjective
<1>5. ExistsBijection(1 .. Len(freeList), Pool!Free)
  BY <1>4 DEF ExistsBijection
<1> QED BY <1>1, <1>2, <1>3, <1>5, FS_CountingElements

\* Every call of BlockManager is a call of BlockPool with the same answer.
LEMMA StepImplements ==
    ASSUME Inv, [Next]_vars
    PROVE  [Pool!Next]_<<refCounts, answer>>
<1> DEFINE n == Len(freeList)
<1>1. refCounts \in [Block -> Nat] /\ freeList \in Seq(Block) /\ n \in Nat
  BY LenProperties DEF Inv, TypeOK
<1>2. CASE Allocate
  <2>1. CASE freeList = <<>>
    <3>1. n = 0
      BY <2>1, EmptySeq
    <3>2. Pool!Free = {}
      BY <3>1, ListIsFree, SMT
    <3> QED BY <1>2, <2>1, <3>2 DEF Allocate, Refuse, Pool!Next, Pool!Allocate, Pool!Refuse
  <2>2. CASE freeList # <<>>
    <3>1. n \in 1 .. n /\ Last(freeList) = freeList[n]
      <4>1. n \in Nat \ {0} /\ Last(freeList) = freeList[n]
        BY <1>1, <2>2, FrontFacts
      <4> QED BY <4>1, SMT
    <3>2. Last(freeList) \in Pool!Free
      BY <3>1, ListIsFree
    <3>3. Pool!Take("allocate", None, Last(freeList))
      BY <1>2, <2>2, <3>2 DEF Allocate, Pool!Take
    <3> QED BY <3>2, <3>3 DEF Pool!Next, Pool!Allocate
  <2> QED BY <2>1, <2>2
<1>3. ASSUME NEW id \in Id, AllocateSpecific(id) PROVE Pool!Next
  <2>1. ASSUME NEW k \in 1 .. Len(freeList), freeList[k] = id,
               refCounts' = [refCounts EXCEPT ![id] = 1],
               answer' = <<"allocate_specific", id, id>>
        PROVE  Pool!AllocateSpecific(id)
    <3>1. id \in Pool!Free
      BY <2>1, ListIsFree
    <3> QED BY <2>1, <3>1 DEF Pool!AllocateSpecific, Pool!Take
  <2>2. ASSUME id \notin ToSet(freeList), Refuse("allocate_specific", id)
        PROVE  Pool!AllocateSpecific(id)
    <3>1. DOMAIN freeList = 1 .. n
      BY <1>1, LenProperties
    <3>2. id \notin Pool!Free
      BY <2>2, <3>1, ListIsFree DEF ToSet
    <3> QED BY <2>2, <3>2 DEF Refuse, Pool!AllocateSpecific, Pool!Refuse
  <2>3. Pool!AllocateSpecific(id)
    BY <1>3, <2>1, <2>2 DEF AllocateSpecific
  <2> QED BY <2>3 DEF Pool!Next
<1>4. ASSUME NEW id \in Id PROVE HasRefs(id) <=> id \in Pool!InUse
  BY <1>1, SMT DEF HasRefs, Pool!InUse, Pool!Free
<1>5. ASSUME NEW id \in Id, Retain(id) PROVE Pool!Next
  <2>1. Pool!Retain(id)
    BY <1>4, <1>5 DEF Retain, Refuse, Pool!Retain, Pool!Refuse
  <2> QED BY <2>1 DEF Pool!Next
<1>6. ASSUME NEW id \in Id, Release(id) PROVE Pool!Next
  <2>1. Pool!Release(id)
    BY <1>4, <1>6 DEF Release, Refuse, Pool!Release, Pool!Refuse
  <2> QED BY <2>1 DEF Pool!Next
<1>7. CASE FreeBlocks
  <2>1. Pool!Cardinality(Pool!Free) = Cardinality(Pool!Free)
    BY DEF Pool!Cardinality, Cardinality
  <2> QED BY <1>7, <2>1, ListIsFree DEF FreeBlocks, Pool!Next, Pool!FreeBlocks
<1>8. CASE UNCHANGED vars
  BY <1>8 DEF vars
<1> QED BY <1>2, <1>3, <1>5, <1>6, <1>7, <1>8 DEF Next

\* The variables have their types: the free stack only holds ids of blocks.
THEOREM ManagerTypeCorrect == Spec => []TypeOK
<1>1. Inv /\ [Next]_vars => Inv'
  BY StepExact
<1>2. Inv => TypeOK
  BY DEF Inv
<1> QED BY InitExact, <1>1, <1>2, PTL DEF Spec

\* A free block, and only a free block, is handed out by the stack of BlockManager;
\* refusals and the number of free blocks are those of the counts alone.
THEOREM ManagerImplementsPool == Spec => ImplementsBlockPool
<1>1. Init => Pool!Init
  BY DEF Init, Pool!Init
<1>2. Inv /\ [Next]_vars => Inv'
  BY StepExact
<1>3. Inv /\ [Next]_vars => [Pool!Next]_Pool!vars
  BY StepImplements DEF Pool!vars
<1> QED BY InitExact, <1>1, <1>2, <1>3, PTL DEF Spec, ImplementsBlockPool, Pool!Spec
=============================================================================
