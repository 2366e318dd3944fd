-------------------------- MODULE ChunkPoolProofs ---------------------------
(***************************************************************************)
(* For any number of blocks and any chunk size: pages of a pool are never  *)
(* shared and its memory stays within bounds.                              *)
(***************************************************************************)
EXTENDS ChunkPool, FiniteSetTheorems, SequenceTheorems, TLAPS

Inv == TypeOK /\ PagesExclusive

\* What a list of free pages must be next to the pages that have owners.
Available(list, pages) ==
    /\ list \in Seq(1 .. pages)
    /\ \A i, j \in 1 .. Len(list) : list[i] = list[j] => i = j
    /\ \A b \in Holders, i \in 1 .. Len(list) : list[i] # owner[b]

-----------------------------------------------------------------------------
(* A list of pages as a stack *)

\* A list of elements of S, given as a function, is a sequence of S.
LEMMA FunctionIsSeq ==
    ASSUME NEW S, NEW n \in Nat, NEW s \in [1 .. n -> S]
    PROVE  s \in Seq(S) /\ Len(s) = n
BY SeqDef, LenProperties

\* pop_back: everything but the last element, in place
LEMMA FrontFacts ==
    ASSUME NEW S, NEW s \in Seq(S), s # <<>>
    PROVE  /\ Len(s) \in Nat \ {0}
           /\ Front(s) \in Seq(S)
           /\ Len(Front(s)) = Len(s) - 1
           /\ \A i \in 1 .. Len(s) - 1 : Front(s)[i] = s[i]
           /\ Last(s) \in S /\ Last(s) = s[Len(s)]
<1>1. Len(s) \in Nat \ {0} /\ Len(s) \in 1 .. Len(s)
  BY EmptySeq, LenProperties, SMT
<1>2. Front(s) = SubSeq(s, 1, Len(s) - 1) /\ Last(s) = s[Len(s)]
  BY DEF Front, Last
<1>3. /\ Front(s) \in Seq(S)
      /\ Len(Front(s)) = IF 1 <= Len(s) - 1 THEN Len(s) - 1 - 1 + 1 ELSE 0
  <2>1. \A i \in 1 .. Len(s) - 1 : s[i] \in S
    BY <1>1, ElementOfSeq, SMT
  <2> QED BY <1>1, <1>2, <2>1, SubSeqProperties
<1>4. Len(Front(s)) = Len(s) - 1
  <2>1. \A n \in Nat \ {0} : (IF 1 <= n - 1 THEN n - 1 - 1 + 1 ELSE 0) = n - 1
    BY SMT
  <2> QED BY <1>1, <1>3, <2>1
<1>5. \A i \in 1 .. Len(s) - 1 : Front(s)[i] = s[i]
  BY <1>1, <1>2, SMT
<1> QED BY <1>1, <1>2, <1>3, <1>4, <1>5, ElementOfSeq

-----------------------------------------------------------------------------
\* The constants are natural numbers.
LEMMA ConstantsNatural ==
    /\ IsFiniteSet(Block) /\ Cardinality(Block) \in Nat
    /\ Limit \in Nat /\ Limit <= Cardinality(Block)
    /\ Chunk \in Nat /\ Chunk # 0 /\ Chunk <= Cardinality(Block)
<1>1. IsFiniteSet(Block) /\ Cardinality(Block) \in Nat
  BY BlockAssumption, FS_CardinalityType
<1> QED BY <1>1, LimitAssumption, ChunkAssumption, SMT

\* Only finitely many blocks own pages.
LEMMA HoldersFinite ==
    /\ IsFiniteSet(Holders)
    /\ Cardinality(Holders) \in Nat
    /\ Cardinality(Holders) <= Cardinality(Block)
<1>1. Holders \subseteq Block
  BY DEF Holders
<1> QED BY <1>1, BlockAssumption, FS_Subset, FS_CardinalityType

\* A chunk has at least one page, and no more than the limit leaves.
LEMMA ChunkSizeRange ==
    ASSUME committed \in Nat, ~LimitReached
    PROVE  /\ ChunkSize \in Nat \ {0} /\ ChunkSize <= Chunk
           /\ Limit > 0 => committed + ChunkSize <= Limit
<1>1. Limit \in Nat /\ Chunk \in Nat /\ Chunk # 0
  BY ConstantsNatural
<1> QED BY <1>1, SMT DEF ChunkSize, LimitReached

\* A new chunk brings pages that nobody has seen.
LEMMA NewPagesAvailable ==
    ASSUME Inv, NEW n \in Nat
    PROVE  /\ Available(NewPages(n), total + n)
           /\ Len(NewPages(n)) = n
           /\ n # 0 => NewPages(n) # <<>>
<1>1. total \in Nat /\ owner \in [Block -> 0 .. total]
  BY DEF Inv, TypeOK
<1>2. NewPages(n) \in [1 .. n -> 1 .. total + n]
  BY <1>1, SMT DEF NewPages
<1>3. NewPages(n) \in Seq(1 .. total + n) /\ Len(NewPages(n)) = n
  BY <1>2, FunctionIsSeq
<1>5. \A i \in 1 .. n : NewPages(n)[i] = total + i
  BY DEF NewPages
<1>6. \A i, j \in 1 .. n : NewPages(n)[i] = NewPages(n)[j] => i = j
  BY <1>1, <1>5, SMT
<1>7. ASSUME NEW b \in Holders, NEW i \in 1 .. n PROVE NewPages(n)[i] # owner[b]
  <2>1. owner[b] \in 0 .. total /\ NewPages(n)[i] = total + i
    BY <1>1, <1>5 DEF Holders
  <2> QED BY <1>1, <2>1, SMT
<1>8. n # 0 => NewPages(n) # <<>>
  BY <1>3, EmptySeq
<1> QED BY <1>3, <1>6, <1>7, <1>8 DEF Available

\* The pages of a new chunk are new ones, and the pages there are stay.
LEMMA UninitialisedFacts ==
    ASSUME Inv, NEW n \in Nat
    PROVE  /\ used \cup Uninitialised(n) \in SUBSET (1 .. total + n)
           /\ \A q \in 0 .. total : q \notin Uninitialised(n)
<1>1. total \in Nat /\ used \subseteq 1 .. total
  BY DEF Inv, TypeOK
<1>2. \A q \in 1 .. total : q \in 1 .. total + n
  BY <1>1, SMT
<1>3. /\ \A q \in Uninitialised(n) : q \in 1 .. total + n
      /\ \A q \in 0 .. total : q \notin Uninitialised(n)
  BY <1>1, SMT DEF Uninitialised
<1> QED BY <1>1, <1>2, <1>3

\* The end of AcquirePage: b gets the last of a list of available pages.
LEMMA TakenKeepsInv ==
    ASSUME Inv, NEW b \in Block, owner[b] = 0,
           NEW list, NEW clear, NEW pages \in Nat, total <= pages,
           NEW written \in SUBSET (1 .. pages),
           Available(list, pages), list # <<>>,
           Taken(b, list, written, clear), total' = pages
    PROVE  /\ Inv' /\ Len(freePages') = Len(list) - 1
           /\ committed' = committed + 1
           /\ Holders' = Holders \cup {b}
<1> DEFINE n == Len(list)
           p == Last(list)
<1>1. /\ n \in Nat \ {0}
      /\ Front(list) \in Seq(1 .. pages)
      /\ Len(Front(list)) = n - 1
      /\ \A i \in 1 .. n - 1 : Front(list)[i] = list[i]
      /\ p \in 1 .. pages /\ p = list[n]
  BY FrontFacts DEF Available
<1>2. /\ total \in Nat /\ committed \in Nat
      /\ owner \in [Block -> 0 .. total]
  BY DEF Inv, TypeOK
<1>3. /\ owner' = [owner EXCEPT ![b] = p]
      /\ freePages' = Front(list)
      /\ used' = written \ clear
      /\ committed' = committed + 1
      /\ refused' = FALSE
  BY DEF Taken
<1>4. p # 0
  BY <1>1, SMT
<1>5. Holders' = Holders \cup {b}
  BY <1>2, <1>3, <1>4 DEF Holders
<1>6. TypeOK'
  <2>1. owner' \in [Block -> 0 .. pages]
    <3>1. \A a \in Block : owner'[a] \in 0 .. pages
      BY <1>1, <1>2, <1>3, SMT
    <3> QED BY <1>2, <1>3, <3>1
  <2>2. used' \subseteq 1 .. pages
    BY <1>3
  <2>3. committed' \in Nat
    BY <1>2, <1>3, SMT
  <2> QED BY <1>1, <1>3, <2>1, <2>2, <2>3 DEF TypeOK
<1> HIDE DEF p
<1>7. \A i \in 1 .. n - 1 : i \in 1 .. n /\ i # n /\ n \in 1 .. n
  BY <1>1, SMT
<1>8. \A i, j \in 1 .. n : list[i] = list[j] => i = j
  BY DEF Available
<1>9. \A i, j \in 1 .. n - 1 : freePages'[i] = freePages'[j] => i = j
  BY <1>1, <1>3, <1>7, <1>8
<1>10. n \in 1 .. n
  BY <1>1, SMT
<1>11. \A a \in Holders : owner[a] # p /\ a # b /\ owner'[a] = owner[a]
  BY <1>1, <1>2, <1>3, <1>10 DEF Available, Holders
<1>12. owner'[b] = p
  BY <1>2, <1>3
<1>13. \A a, c \in Holders' : owner'[a] = owner'[c] => a = c
  BY <1>5, <1>11, <1>12 DEF Inv, PagesExclusive
<1>14. ASSUME NEW a \in Holders', NEW i \in 1 .. n - 1 PROVE freePages'[i] # owner'[a]
  <2>1. freePages'[i] = list[i] /\ i \in 1 .. n /\ i # n
    BY <1>1, <1>3, <1>7
  <2>2. CASE a = b
    <3>1. list[i] # list[n]
      BY <1>8, <1>10, <2>1
    <3> QED BY <1>1, <1>12, <2>1, <2>2, <3>1
  <2>3. CASE a \in Holders
    BY <1>11, <2>1, <2>3 DEF Available
  <2> QED BY <1>5, <2>2, <2>3
<1>15. Len(freePages') = n - 1
  BY <1>1, <1>3
<1>16. committed' = Cardinality(Holders')
  <2>1. b \notin Holders /\ committed = Cardinality(Holders)
    BY DEF Holders, Inv, PagesExclusive
  <2>2. Cardinality(Holders \cup {b}) = Cardinality(Holders) + 1
    BY <2>1, HoldersFinite, FS_AddElement
  <2> QED BY <1>3, <1>5, <2>1, <2>2
<1>17. PagesExclusive'
  BY <1>9, <1>13, <1>14, <1>15, <1>16 DEF PagesExclusive
<1> QED BY <1>3, <1>5, <1>6, <1>15, <1>17 DEF Inv

-----------------------------------------------------------------------------
\* An empty pool shares no page.
LEMMA InitExclusive == Init => Inv
<1> SUFFICES ASSUME Init PROVE Inv
  OBVIOUS
<1>1. freePages = <<>> /\ Len(freePages) = 0 /\ freePages \in Seq(1 .. 0)
  BY EmptySeq DEF Init
<1>2. Holders = {}
  BY DEF Init, Holders
<1>3. committed = Cardinality(Holders)
  BY <1>2, FS_EmptySet DEF Init
<1>4. TypeOK
  <2>1. owner \in [Block -> 0 .. 0]
    BY SMT DEF Init
  <2> QED BY <1>1, <2>1 DEF Init, TypeOK
<1>5. \A i \in 1 .. Len(freePages) : FALSE
  BY <1>1, SMT
<1>6. PagesExclusive
  BY <1>2, <1>3, <1>5 DEF PagesExclusive
<1> QED BY <1>4, <1>6 DEF Inv

\* The free list the pool has is one of available pages.
LEMMA FreePagesAvailable ==
    ASSUME Inv
    PROVE  Available(freePages, total)
    BY DEF Inv, TypeOK, PagesExclusive, Available

\* free_blocks and chunks have grown; nothing has been handed out.
LEMMA ListedKeepsInv ==
    ASSUME Inv, NEW pages \in Nat, total <= pages, total' = pages,
           Available(freePages', pages), UNCHANGED <<owner, committed>>,
           used' \subseteq 1 .. pages, refused' \in BOOLEAN
    PROVE  Inv'
<1>1. total \in Nat /\ committed \in Nat /\ owner \in [Block -> 0 .. total]
  BY DEF Inv, TypeOK
<1>2. \A q \in 0 .. total : q \in 0 .. pages
  BY <1>1, SMT
<1>3. owner' \in [Block -> 0 .. pages]
  BY <1>1, <1>2
<1>4. TypeOK'
  BY <1>1, <1>3 DEF TypeOK, Available
<1>5. Holders' = Holders
  BY DEF Holders
<1>6. PagesExclusive'
  BY <1>5 DEF Inv, PagesExclusive, Available
<1> QED BY <1>4, <1>6 DEF Inv

\* Giving a page back
LEMMA ReleaseKeepsInv ==
    ASSUME Inv, NEW b \in Block, ReleasePage(b)
    PROVE  /\ Inv' /\ Len(freePages') = Len(freePages) + 1
           /\ committed' = committed - 1 /\ committed # 0
           /\ total' = total
<1> DEFINE n == Len(freePages)
           p == owner[b]
<1>1. /\ total \in Nat /\ committed \in Nat /\ used \subseteq 1 .. total
      /\ owner \in [Block -> 0 .. total] /\ freePages \in Seq(1 .. total)
      /\ refused \in BOOLEAN
  BY DEF Inv, TypeOK
<1>2. p # 0 /\ b \in Holders
  BY DEF ReleasePage, Holders
<1>3. p \in 1 .. total
  <2>1. p \in 0 .. total
    BY <1>1
  <2> QED BY <1>1, <1>2, <2>1, SMT
<1>4. /\ freePages' = Append(freePages, p)
      /\ owner' = [owner EXCEPT ![b] = 0]
      /\ committed' = OneLess
      /\ total' = total /\ used' = used /\ refused' = refused
  BY DEF ReleasePage
<1> HIDE DEF p
<1>5. /\ n \in Nat /\ freePages' \in Seq(1 .. total) /\ Len(freePages') = n + 1
      /\ \A i \in 1 .. n : freePages'[i] = freePages[i]
      /\ freePages'[n + 1] = p
  BY <1>1, <1>3, <1>4, AppendProperties, LenProperties
<1>6. Holders' = Holders \ {b}
  BY <1>1, <1>4 DEF Holders
<1>7. committed = Cardinality(Holders) /\ committed # 0
  <2>1. committed = Cardinality(Holders)
    BY DEF Inv, PagesExclusive
  <2>2. Holders # {}
    BY <1>2
  <2> QED BY <2>1, <2>2, HoldersFinite, FS_EmptySet
<1>8. committed' = committed - 1
  BY <1>1, <1>4, <1>7, SMT DEF OneLess
<1>9. committed' = Cardinality(Holders')
  <2>1. Cardinality(Holders \ {b}) = Cardinality(Holders) - 1
    BY <1>2, HoldersFinite, FS_RemoveElement
  <2> QED BY <1>6, <1>7, <1>8, <2>1
<1>10. TypeOK'
  <2>1. owner' \in [Block -> 0 .. total]
    <3>1. 0 \in 0 .. total
      BY <1>1, SMT
    <3> QED BY <1>1, <1>4, <3>1
  <2>2. committed' \in Nat
    BY <1>1, <1>7, <1>8, SMT
  <2> QED BY <1>1, <1>4, <1>5, <2>1, <2>2 DEF TypeOK
<1>11. \A i \in 1 .. n : freePages[i] # p
  BY <1>2 DEF Inv, PagesExclusive, p
<1>12. \A i \in 1 .. n + 1 : i \in 1 .. n \/ i = n + 1
  BY <1>5, SMT
<1>13. \A i, j \in 1 .. n : freePages[i] = freePages[j] => i = j
  BY DEF Inv, PagesExclusive
<1>14. \A i, j \in 1 .. n + 1 : freePages'[i] = freePages'[j] => i = j
  BY <1>5, <1>11, <1>12, <1>13
<1>15. \A a \in Holders' : a \in Holders /\ a # b /\ owner'[a] = owner[a]
  BY <1>1, <1>4, <1>6 DEF Holders
<1>16. \A a, c \in Holders' : owner'[a] = owner'[c] => a = c
  BY <1>15 DEF Inv, PagesExclusive
<1>17. ASSUME NEW a \in Holders', NEW i \in 1 .. n + 1 PROVE freePages'[i] # owner'[a]
  <2>1. CASE i = n + 1
    BY <1>2, <1>5, <1>15, <2>1 DEF Inv, PagesExclusive, p
  <2>2. CASE i \in 1 .. n
    BY <1>5, <1>15, <2>2 DEF Inv, PagesExclusive
  <2> QED BY <1>12, <2>1, <2>2
<1>18. PagesExclusive'
  BY <1>5, <1>9, <1>14, <1>16, <1>17 DEF PagesExclusive
<1> QED BY <1>4, <1>5, <1>7, <1>8, <1>10, <1>18 DEF Inv

-----------------------------------------------------------------------------
(* The actions *)

\* A page taken from the free list keeps the invariant.
LEMMA AcquireListedStep ==
    ASSUME Inv, NEW b \in Block, AcquireListed(b)
    PROVE  /\ Inv' /\ Len(freePages') = Len(freePages) - 1
           /\ committed' = committed + 1 /\ total' = total
           /\ Holders' = Holders \cup {b}
<1>1. total \in Nat /\ total <= total
  BY SMT DEF Inv, TypeOK
<1>2. /\ owner[b] = 0 /\ freePages # <<>> /\ total' = total
      /\ Taken(b, freePages, used, Cleared(Last(freePages)))
  BY DEF AcquireListed
<1>3. used \in SUBSET (1 .. total)
  BY DEF Inv, TypeOK
<1> QED BY <1>1, <1>2, <1>3, FreePagesAvailable, TakenKeepsInv

\* A new chunk, and a page taken from it, keep the invariant.
LEMMA AcquireFromChunkStep ==
    ASSUME Inv, NEW b \in Block, AcquireFromChunk(b)
    PROVE  /\ Inv' /\ Len(freePages') = ChunkSize - 1 /\ freePages = <<>>
           /\ committed' = committed + 1 /\ total' = total + ChunkSize
           /\ Holders' = Holders \cup {b}
           /\ ChunkSize \in Nat \ {0} /\ ~LimitReached
<1>1. /\ owner[b] = 0 /\ freePages = <<>> /\ ~LimitReached /\ total' = total + ChunkSize
      /\ Taken(b, NewPages(ChunkSize), used \cup Uninitialised(ChunkSize),
               Cleared(total + ChunkSize))
  BY DEF AcquireFromChunk
<1>2. ChunkSize \in Nat /\ ChunkSize # 0
  BY <1>1, ChunkSizeRange DEF Inv, TypeOK
<1>3. total + ChunkSize \in Nat /\ total <= total + ChunkSize
  BY <1>2, SMT DEF Inv, TypeOK
<1>4. /\ Available(NewPages(ChunkSize), total + ChunkSize)
      /\ Len(NewPages(ChunkSize)) = ChunkSize
      /\ NewPages(ChunkSize) # <<>>
  BY <1>2, NewPagesAvailable
<1>5. used \cup Uninitialised(ChunkSize) \in SUBSET (1 .. total + ChunkSize)
  BY <1>2, UninitialisedFacts
<1> QED BY <1>1, <1>2, <1>3, <1>4, <1>5, TakenKeepsInv

\* A chunk of which only the first pages were listed keeps the invariant.
LEMMA ChunkHalfListedStep ==
    ASSUME Inv, NEW b \in Block, NEW n \in 0 .. ChunkSize - 1, ChunkHalfListed(b, n)
    PROVE  Inv'
<1>1. ChunkSize \in Nat /\ ChunkSize # 0
  BY ChunkSizeRange DEF ChunkHalfListed, Inv, TypeOK
<1>2. /\ n \in Nat /\ total + ChunkSize \in Nat /\ total <= total + ChunkSize
      /\ total + n <= total + ChunkSize /\ total + n \in Nat
  BY <1>1, SMT DEF Inv, TypeOK
<1>3. Available(NewPages(n), total + n)
  BY <1>2, NewPagesAvailable
<1>4. \A q \in 1 .. total + n : q \in 1 .. total + ChunkSize
  BY <1>2, SMT
<1>5. Seq(1 .. total + n) \subseteq Seq(1 .. total + ChunkSize)
  BY <1>4, SeqMonotonic
<1>6. Available(NewPages(n), total + ChunkSize)
  BY <1>3, <1>5 DEF Available
<1>7. /\ total' = total + ChunkSize /\ freePages' = NewPages(n) /\ refused' \in BOOLEAN
      /\ used' = used \cup Uninitialised(ChunkSize) /\ UNCHANGED <<owner, committed>>
  BY DEF ChunkHalfListed
<1>8. used' \subseteq 1 .. total + ChunkSize
  BY <1>1, <1>7, UninitialisedFacts
<1> QED BY <1>2, <1>6, <1>7, <1>8, ListedKeepsInv

\* Calls that move no page keep the invariant.
LEMMA UnmovedStep ==
    ASSUME Inv, UNCHANGED <<freePages, owner, committed, total>>,
           used' \subseteq 1 .. total, refused' \in BOOLEAN
    PROVE  Inv'
<1>1. Holders' = Holders
  BY DEF Holders
<1> QED BY <1>1 DEF Inv, TypeOK, PagesExclusive

\* Writing to a page keeps the invariant.
LEMMA UseStep ==
    ASSUME Inv, NEW b \in Block, Use(b)
    PROVE  Inv'
<1>1. owner[b] \in 0 .. total /\ owner[b] # 0 /\ total \in Nat
  BY DEF Use, Inv, TypeOK
<1>2. owner[b] \in 1 .. total
  BY <1>1, SMT
<1>3. used' \subseteq 1 .. total
  BY <1>2 DEF Use, Inv, TypeOK
<1> QED BY <1>3, UnmovedStep DEF Use, Inv, TypeOK

\* Every step of a pool keeps its pages exclusive and counted.
LEMMA StepExclusive ==
    ASSUME Inv, [Next]_vars
    PROVE  Inv'
<1>1. ASSUME NEW b \in Block,
             \/ AcquireListed(b) \/ AcquireFromChunk(b)
             \/ \E n \in 0 .. ChunkSize - 1 : ChunkHalfListed(b, n)
             \/ ReleasePage(b) \/ Use(b)
      PROVE  Inv'
  BY <1>1, AcquireListedStep, AcquireFromChunkStep, ChunkHalfListedStep,
     ReleaseKeepsInv, UseStep
<1>2. ASSUME NEW b \in Block, AcquireOwned(b) \/ AcquireRefused(b)
      PROVE  Inv'
  BY <1>2, UnmovedStep DEF AcquireOwned, AcquireRefused, Inv, TypeOK
<1>3. CASE UNCHANGED vars
  BY <1>3, UnmovedStep DEF vars, Inv, TypeOK
<1> QED BY <1>1, <1>2, <1>3 DEF Next

\* The variables have their types: the free list and the owners only name pages that
\* were allocated.
THEOREM PoolTypeCorrect == Spec => []TypeOK
<1>1. Inv /\ [Next]_vars => Inv'
  BY StepExclusive
<1>2. Inv => TypeOK
  BY DEF Inv
<1> QED BY InitExclusive, <1>1, <1>2, PTL DEF Spec

\* No page has two owners, and no page in use waits to be handed out again
\* (owner_pages and free_blocks of ChunkPool, even when a chunk is only partly
\* listed); committed_pages counts the pages in use.
THEOREM PagesStayExclusive == Spec => []PagesExclusive
<1>1. Inv /\ [Next]_vars => Inv'
  BY StepExclusive
<1>2. Inv => PagesExclusive
  BY DEF Inv
<1> QED BY InitExclusive, <1>1, <1>2, PTL DEF Spec

-----------------------------------------------------------------------------
(* Memory *)

\* A block without a page leaves room for one page more.
LEMMA RoomForOne ==
    ASSUME Inv, NEW b \in Block, owner[b] = 0
    PROVE  committed \in Nat /\ committed < Cardinality(Block)
<1>1. b \notin Holders /\ Holders \subseteq Block
  BY DEF Holders
<1>2. Holders # Block
  BY <1>1
<1>3. Cardinality(Holders) # Cardinality(Block) /\ Cardinality(Holders) <= Cardinality(Block)
  BY <1>1, <1>2, BlockAssumption, FS_Subset
<1> QED BY <1>3, HoldersFinite, ConstantsNatural, SMT DEF Inv, PagesExclusive

\* The pages in use or on the free list
Usable == committed + Len(freePages)

\* A new chunk of which n pages become usable, when all others are in use, fits.
LEMMA NewChunkFits ==
    ASSUME Inv, MemoryBounded, NEW b \in Block, owner[b] = 0, ~LimitReached,
           freePages = <<>>, total' = total + ChunkSize,
           NEW n \in 0 .. ChunkSize, Usable' = committed + n,
           ~BookkeepingMayFail => n = ChunkSize
    PROVE  MemoryBounded'
<1>1. total \in Nat /\ committed \in Nat /\ Usable = committed
  <2>1. Len(freePages) = 0
    BY EmptySeq
  <2> QED BY <2>1, SMT DEF Inv, TypeOK, Usable
<1>2. /\ ChunkSize \in Nat \ {0} /\ ChunkSize <= Chunk
      /\ Limit > 0 => committed + ChunkSize <= Limit
  BY <1>1, ChunkSizeRange
<1>3. committed < Cardinality(Block) /\ Cardinality(Block) \in Nat /\ Limit \in Nat
      /\ Chunk \in Nat
  BY RoomForOne, ConstantsNatural
<1>4. committed <= total /\ (~BookkeepingMayFail => committed = total)
  BY <1>1 DEF MemoryBounded, Usable
<1> HIDE DEF ChunkSize, Usable
<1>5. Usable' <= total' /\ (~BookkeepingMayFail => Usable' = total')
  BY <1>1, <1>2, <1>4, SMT
<1>6. Usable' < Cardinality(Block) + Chunk /\ (Limit > 0 => Usable' <= Limit)
  BY <1>1, <1>2, <1>3, SMT
<1> QED BY <1>5, <1>6 DEF MemoryBounded, Usable

\* Neither total nor the number of usable pages changes.
LEMMA SameMemory ==
    ASSUME MemoryBounded, total' = total, Usable' = Usable
    PROVE  MemoryBounded'
BY DEF MemoryBounded, Usable

\* Every step keeps the pool within its memory.
LEMMA StepBounded ==
    ASSUME Inv, MemoryBounded, [Next]_vars
    PROVE  MemoryBounded'
<1>1. committed \in Nat /\ Len(freePages) \in Nat
  BY LenProperties DEF Inv, TypeOK
<1>2. ASSUME NEW b \in Block, AcquireListed(b) PROVE MemoryBounded'
  <2>1. Usable' = Usable /\ total' = total
    BY <1>1, <1>2, AcquireListedStep, SMT DEF Usable
  <2> QED BY <2>1, SameMemory
<1>3. ASSUME NEW b \in Block, AcquireFromChunk(b) PROVE MemoryBounded'
  <2>1. /\ owner[b] = 0 /\ freePages = <<>> /\ ~LimitReached
        /\ total' = total + ChunkSize /\ ChunkSize \in Nat \ {0}
        /\ Len(freePages') = ChunkSize - 1 /\ committed' = committed + 1
    BY <1>3, AcquireFromChunkStep DEF AcquireFromChunk
  <2> HIDE DEF ChunkSize
  <2>2. Usable' = committed + ChunkSize /\ ChunkSize \in 0 .. ChunkSize
    BY <1>1, <2>1, SMT DEF Usable
  <2> QED BY <2>1, <2>2, NewChunkFits
<1>4. ASSUME NEW b \in Block, NEW n \in 0 .. ChunkSize - 1, ChunkHalfListed(b, n)
      PROVE  MemoryBounded'
  <2>1. /\ owner[b] = 0 /\ freePages = <<>> /\ ~LimitReached /\ BookkeepingMayFail
        /\ total' = total + ChunkSize /\ committed' = committed
        /\ freePages' = NewPages(n)
    BY <1>4 DEF ChunkHalfListed
  <2>2. ChunkSize \in Nat
    BY <1>1, <2>1, ChunkSizeRange
  <2> HIDE DEF ChunkSize
  <2>3. n \in Nat /\ n \in 0 .. ChunkSize
    BY <2>2, SMT
  <2>4. Len(freePages') = n
    BY <2>1, <2>3, NewPagesAvailable
  <2>5. Usable' = committed + n
    BY <2>1, <2>4 DEF Usable
  <2> QED BY <2>1, <2>3, <2>5, NewChunkFits
<1>5. ASSUME NEW b \in Block, ReleasePage(b) PROVE MemoryBounded'
  <2>1. Usable' = Usable /\ total' = total
    BY <1>1, <1>5, ReleaseKeepsInv, SMT DEF Usable
  <2> QED BY <2>1, SameMemory
<1>6. ASSUME NEW b \in Block, AcquireOwned(b) \/ AcquireRefused(b) \/ Use(b)
      PROVE  MemoryBounded'
  BY <1>6, SameMemory DEF AcquireOwned, AcquireRefused, Use, Usable
<1>7. CASE UNCHANGED vars
  BY <1>7, SameMemory DEF vars, Usable
<1> QED BY <1>2, <1>3, <1>4, <1>5, <1>6, <1>7 DEF Next

\* The pages a pool has in use or ready (free_blocks and committed_pages of
\* ChunkPool) never exceed its limit, nor one page per block and the rest of one
\* chunk, even when AllocateChunk leaves chunks half listed; when it never does, no
\* page is lost.
THEOREM MemoryStaysBounded == Spec => []MemoryBounded
<1>1. Init => MemoryBounded
  <2>1. /\ Cardinality(Block) \in Nat /\ Limit \in Nat /\ Chunk \in Nat /\ Chunk # 0
    BY ConstantsNatural
  <2>2. Init => total = 0 /\ committed = 0 /\ Len(freePages) = 0
    BY EmptySeq DEF Init
  <2> QED BY <2>1, <2>2, SMT DEF MemoryBounded
<1>2. Inv /\ [Next]_vars => Inv'
  BY StepExclusive
<1>3. Inv /\ MemoryBounded /\ [Next]_vars => MemoryBounded'
  BY StepBounded
<1> QED BY InitExclusive, <1>1, <1>2, <1>3, PTL DEF Spec

-----------------------------------------------------------------------------
(* The pool implements PagePool *)

\* A block's memory is private: blocks that own pages own different ones, so what is
\* done to the page p changes the data of no other block.
LEMMA DataOfOthers ==
    ASSUME NEW a \in Block, NEW p, NEW written, owner[a] \in written <=> owner[a] \in used,
           owner'[a] = owner[a], owner[a] # p,
           used' = written \ {p}
    PROVE  Data(a)' = Data(a)
BY DEF Data

\* Who has data owns a page.
LEMMA SameHolders == Pages!Holders = Holders
<1>1. ASSUME NEW b \in Block PROVE Data(b) # "none" <=> owner[b] # 0
  BY DEF Data
<1> QED BY <1>1 DEF Pages!Holders, Holders

\* committed_pages reaches the limit when the holders do.
LEMMA SameLimit ==
    ASSUME Inv
    PROVE  Pages!Full <=> LimitReached
<1>1. Pages!Cardinality(Pages!Holders) = Cardinality(Holders)
  BY SameHolders DEF Pages!Cardinality, Cardinality
<1>2. Cardinality(Holders) = committed
  BY DEF Inv, PagesExclusive
<1>3. ASSUME NEW n, n = committed
      PROVE  (Limit > 0 /\ n >= Limit) <=> LimitReached
  BY <1>3 DEF LimitReached
<1> QED BY <1>1, <1>2, <1>3 DEF Pages!Full

\* The end of AcquirePage gives b the last of a list of available pages, cleared.
LEMMA TakenIsAcquire ==
    ASSUME Inv, NEW b \in Block, owner[b] = 0, ~LimitReached,
           NEW list, NEW pages \in Nat, Available(list, pages), list # <<>>,
           NEW written, \A q \in 0 .. total : q \in written <=> q \in used,
           Taken(b, list, written, Cleared(Last(list)))
    PROVE  Pages!Acquire(b)
<1> DEFINE p == Last(list)
<1>1. /\ Len(list) \in Nat \ {0} /\ p \in 1 .. pages /\ p = list[Len(list)]
  BY FrontFacts DEF Available
<1>2. Len(list) \in 1 .. Len(list) /\ p # 0
  BY <1>1, SMT
<1>3. /\ owner' = [owner EXCEPT ![b] = p] /\ used' = written \ {p} /\ refused' = FALSE
      /\ owner \in [Block -> 0 .. total]
  BY DEF Taken, Cleared, Inv, TypeOK
<1> HIDE DEF p
<1>4. ASSUME NEW a \in Block, a # b PROVE Data(a)' = Data(a)
  <2>1. owner'[a] = owner[a]
    BY <1>3, <1>4
  <2>2. CASE owner[a] = 0
    BY <2>1, <2>2 DEF Data
  <2>3. CASE owner[a] # 0
    <3>1. owner[a] # p
      BY <1>1, <1>2, <2>3 DEF Available, Holders
    <3> QED BY <1>3, <2>1, <3>1, DataOfOthers
  <2> QED BY <2>2, <2>3
<1>5. Data(b)' = "zero" /\ Data(b) = "none"
  BY <1>2, <1>3 DEF Data
<1>6. [a \in Block |-> Data(a)]' = [[a \in Block |-> Data(a)] EXCEPT ![b] = "zero"]
  BY <1>4, <1>5
<1>7. ~Pages!Full
  BY SameLimit
<1> QED BY <1>3, <1>5, <1>6, <1>7 DEF Pages!Acquire

\* AcquirePage acquires or is refused, as the limit and malloc allow.
LEMMA AcquireImplements ==
    ASSUME Inv, NEW b \in Block,
           \/ AcquireListed(b) \/ AcquireFromChunk(b) \/ AcquireOwned(b)
           \/ AcquireRefused(b) \/ \E n \in 0 .. ChunkSize - 1 : ChunkHalfListed(b, n)
    PROVE  Pages!Acquire(b) \/ Pages!Refuse(b)
<1>1. total \in Nat /\ committed \in Nat
  BY DEF Inv, TypeOK
<1>2. CASE AcquireListed(b)
  BY <1>1, <1>2, FreePagesAvailable, TakenIsAcquire DEF AcquireListed
<1>3. CASE AcquireFromChunk(b)
  <2>1. /\ owner[b] = 0 /\ ~LimitReached
        /\ Taken(b, NewPages(ChunkSize), used \cup Uninitialised(ChunkSize),
                 Cleared(total + ChunkSize))
    BY <1>3 DEF AcquireFromChunk
  <2>2. ChunkSize \in Nat /\ ChunkSize # 0
    BY <1>1, <2>1, ChunkSizeRange
  <2> HIDE DEF ChunkSize
  <2>3. /\ Available(NewPages(ChunkSize), total + ChunkSize)
        /\ Len(NewPages(ChunkSize)) = ChunkSize
        /\ NewPages(ChunkSize) # <<>>
    BY <2>2, NewPagesAvailable
  <2>4. total + ChunkSize \in Nat /\ ChunkSize \in 1 .. ChunkSize
    BY <1>1, <2>2, SMT
  <2>5. Last(NewPages(ChunkSize)) = total + ChunkSize
    <3>1. Last(NewPages(ChunkSize)) = NewPages(ChunkSize)[ChunkSize]
      BY <2>3, FrontFacts DEF Available
    <3> QED BY <2>4, <3>1 DEF NewPages
  <2>6. \A q \in 0 .. total : q \in used \cup Uninitialised(ChunkSize) <=> q \in used
    BY <2>2, UninitialisedFacts
  <2> QED BY <2>1, <2>3, <2>4, <2>5, <2>6, TakenIsAcquire
<1>4. CASE AcquireOwned(b)
  <2>1. owner[b] # 0 /\ refused' = FALSE /\ owner' = owner /\ used' = used
    BY <1>4 DEF AcquireOwned
  <2>2. [a \in Block |-> Data(a)]' = [a \in Block |-> Data(a)] /\ Data(b) # "none"
    BY <2>1 DEF Data
  <2> QED BY <2>1, <2>2 DEF Pages!Acquire
<1>5. ASSUME owner[b] = 0, LimitReached \/ MallocMayFail, refused' = TRUE,
             owner' = owner, \A q \in 0 .. total : q \in used' <=> q \in used
      PROVE  Pages!Refuse(b)
  <2>1. /\ \A a \in Block : Data(a)' = Data(a)
        /\ Data(b) = "none"
    BY <1>5 DEF Data, Inv, TypeOK
  <2>2. Pages!Full \/ MallocMayFail
    BY <1>5, SameLimit
  <2> QED BY <1>5, <2>1, <2>2 DEF Pages!Refuse
<1>6. CASE AcquireRefused(b)
  BY <1>5, <1>6 DEF AcquireRefused
<1>7. CASE \E n \in 0 .. ChunkSize - 1 : ChunkHalfListed(b, n)
  <2>1. /\ owner[b] = 0 /\ ~LimitReached /\ BookkeepingMayFail /\ refused' = TRUE
        /\ owner' = owner /\ used' = used \cup Uninitialised(ChunkSize)
    BY <1>7 DEF ChunkHalfListed
  <2>2. ChunkSize \in Nat
    BY <1>1, <2>1, ChunkSizeRange
  <2>3. \A q \in 0 .. total : q \in used' <=> q \in used
    BY <2>1, <2>2, UninitialisedFacts
  <2> QED BY <1>5, <2>1, <2>3, FailureAssumption
<1> QED BY <1>2, <1>3, <1>4, <1>6, <1>7

\* ReleasePage takes the memory of its owner and of nobody else.
LEMMA ReleaseImplements ==
    ASSUME Inv, NEW b \in Block, ReleasePage(b)
    PROVE  Pages!Release(b)
<1>1. /\ owner' = [owner EXCEPT ![b] = 0] /\ used' = used /\ refused' = refused
      /\ owner \in [Block -> 0 .. total]
  BY DEF ReleasePage, Inv, TypeOK
<1>2. Data(b)' = "none"
  BY <1>1 DEF Data
<1>3. \A a \in Block : a # b => Data(a)' = Data(a)
  BY <1>1 DEF Data
<1> QED BY <1>1, <1>2, <1>3 DEF Pages!Release

\* A store goes to the page of one block.
LEMMA UseImplements ==
    ASSUME Inv, NEW b \in Block, Use(b)
    PROVE  Pages!Use(b)
<1>1. owner[b] # 0 /\ used' = used \cup {owner[b]} /\ owner' = owner /\ refused' = refused
  BY DEF Use
<1>2. Data(b)' = "used"
  BY <1>1 DEF Data
<1>3. ASSUME NEW a \in Block, a # b PROVE Data(a)' = Data(a)
  <2>1. CASE owner[a] = 0
    BY <1>1, <2>1 DEF Data
  <2>2. CASE owner[a] # 0
    <3>1. owner[a] # owner[b]
      BY <1>1, <1>3, <2>2 DEF Inv, PagesExclusive, Holders
    <3> QED BY <1>1, <3>1 DEF Data
  <2> QED BY <2>1, <2>2
<1>4. b \in Pages!Holders
  BY <1>1, SameHolders DEF Holders
<1> QED BY <1>1, <1>2, <1>3, <1>4 DEF Pages!Use

\* A block of either tier has private memory that starts as zeros, whatever a new chunk
\* or the last owner left in its page, and is refused it only at the pool's limit or
\* when malloc fails (AcquirePage and ReleasePage of ChunkPool), however chunks are cut
\* or half listed: L2CanAcquire and L1AcquireMayFail of MmuRuntime say what the pools
\* do.
THEOREM PoolImplementsPages == Spec => ImplementsPagePool
<1>1. Init => Pages!Init
  <2>1. Init => \A b \in Block : Data(b) = "none"
    BY DEF Init, Data
  <2> QED BY <2>1 DEF Init, Pages!Init
<1>2. Inv /\ [Next]_vars => [Pages!Next]_(Pages!vars)
  <2> SUFFICES ASSUME Inv, [Next]_vars PROVE [Pages!Next]_(Pages!vars)
    OBVIOUS
  <2>1. CASE UNCHANGED vars
    BY <2>1 DEF vars, Pages!vars, Data
  <2>2. ASSUME NEW b \in Block,
               \/ AcquireListed(b) \/ AcquireFromChunk(b) \/ AcquireOwned(b)
               \/ AcquireRefused(b) \/ \E n \in 0 .. ChunkSize - 1 : ChunkHalfListed(b, n)
        PROVE  Pages!Next
    BY <2>2, AcquireImplements DEF Pages!Next
  <2>3. ASSUME NEW b \in Block, ReleasePage(b) PROVE Pages!Next
    BY <2>3, ReleaseImplements DEF Pages!Next
  <2>4. ASSUME NEW b \in Block, Use(b) PROVE Pages!Next
    BY <2>4, UseImplements DEF Pages!Next
  <2> QED BY <2>1, <2>2, <2>3, <2>4 DEF Next
<1>3. Inv /\ [Next]_vars => Inv'
  BY StepExclusive
<1> QED BY InitExclusive, <1>1, <1>2, <1>3, PTL DEF Spec, ImplementsPagePool, Pages!Spec
=============================================================================
