-------------------------- MODULE NumaMemoryProofs --------------------------
(***************************************************************************)
(* Theorems of NumaMemory, for every page size, width of size_t, set of    *)
(* nodes and amount of memory.                                             *)
(***************************************************************************)
EXTENDS NumaMemory, DivisionLemmas

MemoryInv == TypeOK /\ BlocksBacked /\ BytesWhereSent

-----------------------------------------------------------------------------
(* Pages and bytes *)

LEMMA Constants ==
  /\ WordSize \in Nat /\ PageSize \in Nat \ {0} /\ PageCount \in Nat
  /\ PageSize * PageCount \in Nat /\ PageSize * PageCount <= WordSize
  /\ WordSize = PageSize * (WordSize \div PageSize) /\ WordSize \div PageSize \in Nat
<1>1. /\ WordSize \in Nat /\ PageSize \in Nat \ {0} /\ PageCount \in Nat
      /\ WordSize % PageSize = 0 /\ PageSize * PageCount <= WordSize
  BY MemoryAssumption
<1>2. PageSize * PageCount \in Nat
  BY <1>1
<1>3. /\ WordSize = PageSize * (WordSize \div PageSize) + (WordSize % PageSize)
      /\ WordSize \div PageSize \in Nat
  BY <1>1, DivFacts
<1> QED BY <1>1, <1>2, <1>3

LEMMA Monotone ==
  ASSUME NEW a \in Int, NEW b \in Int, NEW p \in Nat, a <= b
  PROVE  p * a <= p * b
OBVIOUS

LEMMA PageFacts ==
  ASSUME NEW b \in Nat
  PROVE  /\ PageOf(b) \in Nat
         /\ PageSize * PageOf(b) \in Nat
         /\ PageSize * PageOf(b) <= b /\ b < PageSize * PageOf(b) + PageSize
<1>1. /\ b \div PageSize \in Nat /\ b % PageSize \in 0 .. PageSize - 1
      /\ b = PageSize * (b \div PageSize) + (b % PageSize)
  BY DivFacts, Constants
<1>2. PageSize * PageOf(b) \in Nat
  BY <1>1, Constants DEF PageOf
<1> QED BY <1>1, <1>2, Constants DEF PageOf

(* The page of a byte, from its bounds. *)
LEMMA PageIs ==
  ASSUME NEW b \in Nat, NEW g \in Nat, PageSize * g <= b, b < PageSize * g + PageSize
  PROVE  PageOf(b) = g
<1>1. PICK q \in Nat : /\ q = PageOf(b) /\ PageSize * q \in Nat
                       /\ PageSize * q <= b /\ b < PageSize * q + PageSize
  BY PageFacts
<1>2. PageSize * g \in Nat /\ PageSize \in Nat \ {0}
  BY Constants
<1>3. PageSize * q < PageSize * g + PageSize /\ PageSize * g < PageSize * q + PageSize
  BY <1>1, <1>2
<1>4. q <= g /\ g <= q
  BY <1>2, <1>3, AtLeast
<1> QED BY <1>1, <1>4

LEMMA BytesHavePages ==
  ASSUME NEW b \in Bytes
  PROVE  b \in Nat /\ PageOf(b) \in Pages
<1>1. b \in Nat /\ b < PageSize * PageCount
  BY Constants DEF Bytes
<1>2. PageSize * PageCount = PageSize * (PageCount - 1) + PageSize
  BY Constants, Distributes
<1>3. PICK q \in Nat : q = PageOf(b) /\ PageSize * q \in Nat /\ PageSize * q <= b
  BY <1>1, PageFacts
<1>4. PageSize * q < PageSize * (PageCount - 1) + PageSize
  BY <1>1, <1>2, <1>3, Constants
<1>5. q <= PageCount - 1
  BY <1>4, Constants, AtLeast
<1> QED BY <1>1, <1>3, <1>5, Constants DEF Pages

(* A range that starts and ends at a page touches no byte of its pages     *)
(* beyond itself.                                                          *)
LEMMA WholePages ==
  ASSUME NEW g \in Nat, NEW m \in Nat, NEW b \in Nat,
         PageOf(b) \in Touched(PageSize * g, PageSize * m)
  PROVE  b \in Range(PageSize * g, PageSize * m)
<1> DEFINE q == PageOf(b)
<1>1. PICK x \in Range(PageSize * g, PageSize * m) : PageOf(x) = q
  BY DEF Touched
<1>2. /\ PageSize * g \in Nat /\ PageSize * m \in Nat /\ q \in Nat /\ PageSize * q \in Nat
      /\ PageSize * (g + m) = PageSize * g + PageSize * m
  BY Constants, PageFacts, Distributes
<1>3. x \in Nat /\ PageSize * g <= x /\ x < PageSize * g + PageSize * m
  BY <1>1, <1>2 DEF Range
<1>4. PageSize * q <= x /\ x < PageSize * q + PageSize
  BY <1>1, <1>3, PageFacts
<1>5. g <= q
  BY <1>2, <1>3, <1>4, Constants, AtLeast
<1>6. PageSize * (g + m) = PageSize * (g + m - 1) + PageSize
  BY Constants, Distributes
<1>7. q <= g + m - 1
  BY <1>2, <1>3, <1>4, <1>6, Constants, AtLeast
<1>8. PageSize * g <= PageSize * q /\ PageSize * q <= PageSize * (g + m - 1)
  BY <1>2, <1>5, <1>7, Monotone, Constants
<1>9. PageSize * q <= b /\ b < PageSize * q + PageSize
  BY PageFacts
<1> QED BY <1>2, <1>6, <1>8, <1>9, Constants DEF Range

-----------------------------------------------------------------------------
(* Rounding *)

(* A size that is accepted, and whose rounded size is not 0, has not       *)
(* wrapped: the rounded size is the next whole number of pages.            *)
LEMMA Rounding ==
  ASSUME NEW size \in Sizes, RoundUpToPageSize(size) # 0, size # 0
  PROVE  \E m \in Nat : /\ RoundUpToPageSize(size) = PageSize * m
                        /\ size <= PageSize * m /\ PageSize * m < size + PageSize
<1> DEFINE whole == size + PageSize - 1
           sum == whole % WordSize
<1>1. /\ size \in Nat /\ 0 < size /\ size < WordSize /\ whole \in Nat
      /\ WordSize \in Nat \ {0}
  BY Constants DEF Sizes
<1>2. PageSize <= WordSize
  <2>1. WordSize \div PageSize # 0
    BY <1>1, Constants
  <2>2. PageSize * 1 <= PageSize * (WordSize \div PageSize)
    BY <2>1, Constants, Monotone
  <2> QED BY <2>2, Constants
<1>3. /\ whole \div WordSize \in Nat /\ sum \in 0 .. WordSize - 1
      /\ whole = WordSize * (whole \div WordSize) + sum
  BY <1>1, DivFacts
<1>4. whole < WordSize * 1 + WordSize
  BY <1>1, <1>2, Constants
<1>5. /\ sum \div PageSize \in Nat /\ sum % PageSize \in 0 .. PageSize - 1
      /\ sum = PageSize * (sum \div PageSize) + (sum % PageSize)
  <2> sum \in Nat
    BY <1>1, <1>3
  <2> HIDE DEF sum
  <2> QED BY DivFacts, Constants
<1>6. RoundUpToPageSize(size) = PageSize * (sum \div PageSize)
  <2>1. RoundUpToPageSize(size) = sum - (sum % PageSize)
    BY DEF RoundUpToPageSize
  <2>2. PageSize * (sum \div PageSize) \in Nat
    BY <1>5, Constants
  <2> HIDE DEF sum
  <2> QED BY <1>5, <2>1, <2>2, Constants
<1>7. whole \div WordSize = 0
  <2>1. whole \div WordSize <= 1
    <3>1. PICK q \in Nat : q = whole \div WordSize
      BY <1>3
    <3>2. WordSize * q < WordSize * 1 + WordSize
      <4> HIDE DEF sum, whole
      <4>1. sum >= 0 /\ sum \in Int /\ whole = WordSize * q + sum /\ WordSize * q \in Int
        BY <1>1, <1>3, <3>1
      <4> QED BY <1>1, <1>4, <4>1
    <3> QED BY <1>1, <3>1, <3>2, AtLeast
  <2>2. whole \div WordSize # 1
    <3>1. SUFFICES ASSUME whole \div WordSize = 1 PROVE FALSE
      OBVIOUS
    <3>2. sum < PageSize - 1
      BY <1>1, <1>3, <3>1, Constants
    <3>3. sum \div PageSize = 0
      BY <1>3, <3>2, PageIs, Constants DEF PageOf
    <3> QED BY <1>6, <3>3, Constants
  <2> QED BY <1>3, <2>1, <2>2
<1>8. sum = whole
  BY <1>1, <1>3, <1>7
<1> HIDE DEF sum
<1>9. PageSize * (sum \div PageSize) \in Nat
  BY <1>5, Constants
<1>10. size <= PageSize * (sum \div PageSize) /\ PageSize * (sum \div PageSize) < size + PageSize
  BY <1>1, <1>5, <1>8, <1>9, Constants
<1> QED BY <1>5, <1>6, <1>10

(* The pages that are mapped are those that the size asked for touches.    *)
LEMMA RoundedPages ==
  ASSUME NEW size \in Sizes, RoundUpToPageSize(size) # 0, size # 0, NEW g \in Nat
  PROVE  /\ RoundUpToPageSize(size) \in Nat /\ size <= RoundUpToPageSize(size)
         /\ Touched(PageSize * g, RoundUpToPageSize(size)) = Touched(PageSize * g, size)
<1>1. PICK m \in Nat : /\ RoundUpToPageSize(size) = PageSize * m
                       /\ size <= PageSize * m /\ PageSize * m < size + PageSize
  BY Rounding
<1> DEFINE ptr == PageSize * g
           rounded == PageSize * m
<1>2. /\ ptr \in Nat /\ rounded \in Nat /\ size \in Nat /\ PageSize * (g + m) = ptr + rounded
      /\ PageSize * (g + m) = PageSize * (g + m - 1) + PageSize
  BY Constants, Distributes DEF Sizes
<1>3. Touched(ptr, size) \subseteq Touched(ptr, rounded)
  <2>1. Range(ptr, size) \subseteq Range(ptr, rounded)
    BY <1>1, <1>2 DEF Range
  <2> QED BY <2>1 DEF Touched
<1>4. ASSUME NEW p \in Touched(ptr, rounded) PROVE p \in Touched(ptr, size)
  <2>1. PICK b \in Range(ptr, rounded) : PageOf(b) = p /\ p \in Pages
    BY DEF Touched
  <2>2. b \in Nat /\ ptr <= b /\ b < ptr + rounded
    BY <2>1, <1>2 DEF Range
  <2>3. /\ p \in Nat /\ PageSize * p \in Nat
        /\ PageSize * p <= b /\ b < PageSize * p + PageSize
    BY <2>1, <2>2, PageFacts
  <2>4. g <= p /\ p <= g + m - 1
    BY <1>2, <2>2, <2>3, Constants, AtLeast
  <2>5. ptr <= PageSize * p /\ PageSize * p <= PageSize * (g + m - 1)
    BY <2>3, <2>4, Monotone, Constants
  <2>6. PageSize * p \in Range(ptr, size)
    BY <1>1, <1>2, <2>3, <2>5, Constants DEF Range
  <2>7. PageOf(PageSize * p) = p
    BY <2>3, PageIs, Constants
  <2> QED BY <2>1, <2>6, <2>7 DEF Touched
<1> HIDE DEF ptr, rounded
<1>5. Touched(ptr, rounded) = Touched(ptr, size)
  BY <1>3, <1>4
<1> QED BY <1>1, <1>2, <1>5 DEF ptr, rounded

(* A size in whole pages is not changed. *)
LEMMA RoundedAlready ==
  ASSUME NEW size \in Sizes, size % PageSize = 0
  PROVE  RoundUpToPageSize(size) = size
<1> DEFINE n == size \div PageSize
           k == WordSize \div PageSize
           whole == size + PageSize - 1
<1>1. size \in Nat /\ n \in Nat /\ size = PageSize * n
  BY DivFacts, Constants DEF Sizes
<1>2. k \in Nat /\ WordSize = PageSize * k /\ size < WordSize /\ WordSize \in Nat \ {0}
  BY <1>1, Constants DEF Sizes
<1> HIDE DEF n, k
<1>3. n <= k - 1
  <2>1. PageSize * k = PageSize * (k - 1) + PageSize
    BY <1>2, Constants, Distributes
  <2> QED BY <1>1, <1>2, <2>1, AtLeast, Constants
<1>4. size <= WordSize - PageSize
  <2>1. PageSize * n <= PageSize * (k - 1)
    BY <1>1, <1>2, <1>3, Monotone, Constants
  <2>2. PageSize * (k - 1) = PageSize * k - PageSize
    BY <1>2, Constants, Distributes
  <2> QED BY <1>1, <1>2, <2>1, <2>2, Constants
<1>5. whole \in Nat /\ whole < WordSize
  BY <1>1, <1>2, <1>4, Constants
<1>6. whole % WordSize = whole
  BY <1>2, <1>5
<1>7. whole \div PageSize = n
  <2>1. PageOf(whole) = n
    BY <1>1, <1>5, PageIs, Constants
  <2> QED BY <2>1 DEF PageOf
<1>8. whole = PageSize * n + (whole % PageSize) /\ whole % PageSize \in Nat
  <2> HIDE DEF whole
  <2>1. /\ whole = PageSize * (whole \div PageSize) + (whole % PageSize)
        /\ whole % PageSize \in 0 .. PageSize - 1
    BY <1>5, DivFacts, Constants
  <2> QED BY <1>7, <2>1, Constants
<1> QED BY <1>1, <1>5, <1>6, <1>8 DEF RoundUpToPageSize

-----------------------------------------------------------------------------
(* The steps *)

Places == (AskedNodes \cap (0 .. NodeCount - 1) \cap Allowed \cap Populated)
            \cup {Unmapped, Interleaved}

LEMMA MemoryTypes ==
  ASSUME TypeOK
  PROVE  /\ place \in [Pages -> Places] /\ blocks \subseteq [ptr : Bytes, size : Sizes \ {0}]
         /\ sent \in [Bytes -> AskedNodes \cup {Unmapped, Interleaved}]
BY DEF TypeOK, Places

(* The places of a new block, and of the pages that are migrated. *)
LEMMA NodesArePlaces ==
  /\ \A node \in AskedNodes : IsNumaNodeAvailable(node) =>
       node \in Places /\ node \in AskedNodes \cup {Interleaved} /\ node # Unmapped
  /\ Interleaved \in Places /\ Interleaved # Unmapped
BY MemoryAssumption DEF IsNumaNodeAvailable, IsNumaNodeOnline, Places

LEMMA InitMemory == ASSUME Init PROVE MemoryInv
BY DEF Init, MemoryInv, TypeOK, BlocksBacked, BytesWhereSent

(* A byte of a range in Bytes touches its page. *)
LEMMA Touches ==
  ASSUME NEW ptr, NEW size, NEW b \in Range(ptr, size), b \in Bytes
  PROVE  PageOf(b) \in Touched(ptr, size)
BY BytesHavePages DEF Touched

(* A new block takes pages that were free, one behind each of its bytes.   *)
LEMMA AllocateKeeps ==
  ASSUME MemoryInv, NEW size \in Sizes, NEW where \in Places \ {Unmapped},
         where \in AskedNodes \cup {Interleaved}, Allocate(size, where)
  PROVE  MemoryInv'
<1> DEFINE rounded == RoundUpToPageSize(size)
<1>1. PICK g \in Pages :
        /\ g * PageSize + rounded <= PageSize * PageCount
        /\ \A p \in Touched(g * PageSize, rounded) : place[p] = Unmapped
        /\ place' = [p \in Pages |-> IF p \in Touched(g * PageSize, rounded)
                                       THEN where ELSE place[p]]
        /\ blocks' = blocks \cup {[ptr |-> g * PageSize, size |-> size]}
        /\ sent' = [b \in Bytes |-> IF b \in Range(g * PageSize, size) THEN where ELSE sent[b]]
  BY DEF Allocate
<1>2. rounded # 0 /\ size # 0
  BY DEF Allocate, Refused
<1>3. g \in Nat /\ size \in Nat
  BY Constants DEF Pages, Sizes
<1>4. PICK ptr \in Nat : ptr = g * PageSize /\ ptr = PageSize * g
  BY <1>3, Constants, Distributes
<1>5. rounded \in Nat /\ size <= rounded /\ Touched(ptr, rounded) = Touched(ptr, size)
  BY <1>2, <1>3, <1>4, RoundedPages
<1> DEFINE T == Touched(ptr, size)
           k == [ptr |-> ptr, size |-> size]
<1>6. /\ \A p \in T : place[p] = Unmapped
      /\ place' = [p \in Pages |-> IF p \in T THEN where ELSE place[p]]
      /\ blocks' = blocks \cup {k}
      /\ sent' = [b \in Bytes |-> IF b \in Range(ptr, size) THEN where ELSE sent[b]]
  BY <1>1, <1>4, <1>5
<1>7. ptr + size <= PageSize * PageCount
  <2>1. ptr + rounded <= PageSize * PageCount
    BY <1>1, <1>4
  <2> HIDE DEF rounded
  <2> QED BY <1>3, <1>5, <2>1, Constants
<1> HIDE DEF rounded
<1>8. ptr \in Bytes /\ Range(ptr, size) \subseteq Bytes
  BY <1>2, <1>3, <1>7, Constants DEF Bytes, Range
<1>9. TypeOK'
  <2>1. place' \in [Pages -> Places]
    BY <1>6, MemoryTypes DEF MemoryInv
  <2>2. blocks' \subseteq [ptr : Bytes, size : Sizes \ {0}]
    BY <1>2, <1>6, <1>8, MemoryTypes DEF MemoryInv
  <2>3. sent' \in [Bytes -> AskedNodes \cup {Unmapped, Interleaved}]
    BY <1>6, MemoryTypes DEF MemoryInv
  <2> QED BY <2>1, <2>2, <2>3 DEF TypeOK, Places
<1>10. \A j \in blocks : Touched(j.ptr, j.size) \cap T = {}
  BY <1>6 DEF MemoryInv, BlocksBacked, Touched
<1>11. k.ptr = ptr /\ k.size = size /\ T \subseteq Pages
  BY DEF Touched
<1> HIDE DEF T, k
<1>12. BlocksBacked'
  <2>1. ASSUME NEW p \in Pages
        PROVE  place'[p] # Unmapped <=> \E j \in blocks' : p \in Touched(j.ptr, j.size)
    <3>1. place[p] # Unmapped <=> \E j \in blocks : p \in Touched(j.ptr, j.size)
      BY DEF MemoryInv, BlocksBacked
    <3>2. place'[p] # Unmapped <=> p \in T \/ place[p] # Unmapped
      BY <1>6
    <3>3. p \in Touched(k.ptr, k.size) <=> p \in T
      BY <1>11 DEF T
    <3> QED BY <1>6, <3>1, <3>2, <3>3
  <2>2. ASSUME NEW j \in blocks' PROVE Range(j.ptr, j.size) \subseteq Bytes
    BY <1>6, <1>8, <1>11, <2>2 DEF MemoryInv, BlocksBacked
  <2>3. ASSUME NEW i \in blocks', NEW j \in blocks',
               Touched(i.ptr, i.size) \cap Touched(j.ptr, j.size) # {}
        PROVE  i = j
    <3>1. Touched(k.ptr, k.size) = T
      BY <1>11 DEF T
    <3>2. CASE i \in blocks /\ j \in blocks
      BY <2>3, <3>2 DEF MemoryInv, BlocksBacked
    <3>3. CASE i = k \/ j = k
      BY <1>6, <1>10, <2>3, <3>1, <3>3
    <3> QED BY <1>6, <2>3, <3>2, <3>3
  <2> QED BY <2>1, <2>2, <2>3 DEF BlocksBacked
<1>13. BytesWhereSent'
  <2>1. ASSUME NEW j \in blocks', NEW b \in Range(j.ptr, j.size) PROVE place'[PageOf(b)] = sent'[b]
    <3>1. CASE j = k
      <4>1. b \in Range(ptr, size) /\ b \in Bytes
        BY <1>8, <1>11, <2>1, <3>1
      <4>2. PageOf(b) \in T
        BY <4>1, Touches DEF T
      <4> QED BY <1>6, <1>11, <4>1, <4>2
    <3>2. CASE j \in blocks
      <4>1. b \in Bytes
        BY <2>1, <3>2 DEF MemoryInv, BlocksBacked
      <4>2. PageOf(b) \in Touched(j.ptr, j.size) /\ PageOf(b) \in Pages
        BY <2>1, <4>1, Touches, BytesHavePages
      <4>3. PageOf(b) \notin T
        BY <1>10, <3>2, <4>2
      <4>4. b \notin Range(ptr, size)
        BY <4>1, <4>3, Touches DEF T
      <4>5. place[PageOf(b)] = sent[b]
        BY <2>1, <3>2 DEF MemoryInv, BytesWhereSent
      <4> QED BY <1>6, <4>1, <4>2, <4>3, <4>4, <4>5
    <3> QED BY <1>6, <2>1, <3>1, <3>2
  <2> QED BY <2>1 DEF BytesWhereSent
<1> QED BY <1>9, <1>12, <1>13 DEF MemoryInv

(* What is freed belongs to no other block. *)
LEMMA FreeKeeps ==
  ASSUME MemoryInv, NEW k \in blocks, FreeMemory(k)
  PROVE  MemoryInv'
<1> DEFINE T == Touched(k.ptr, k.size)
<1>1. /\ place' = [p \in Pages |-> IF p \in T THEN Unmapped ELSE place[p]]
      /\ blocks' = blocks \ {k}
      /\ sent' = [b \in Bytes |-> IF b \in Range(k.ptr, k.size) THEN Unmapped ELSE sent[b]]
  BY DEF FreeMemory
<1>2. \A j \in blocks' : Touched(j.ptr, j.size) \cap T = {}
  BY <1>1 DEF MemoryInv, BlocksBacked
<1> HIDE DEF T
<1>3. TypeOK'
  <2>1. place' \in [Pages -> Places]
    BY <1>1, MemoryTypes DEF MemoryInv, Places
  <2>2. blocks' \subseteq [ptr : Bytes, size : Sizes \ {0}]
    BY <1>1, MemoryTypes DEF MemoryInv
  <2>3. sent' \in [Bytes -> AskedNodes \cup {Unmapped, Interleaved}]
    BY <1>1, MemoryTypes DEF MemoryInv
  <2> QED BY <2>1, <2>2, <2>3 DEF TypeOK, Places
<1>4. BlocksBacked'
  <2>1. ASSUME NEW p \in Pages
        PROVE  place'[p] # Unmapped <=> \E j \in blocks' : p \in Touched(j.ptr, j.size)
    <3>1. place[p] # Unmapped <=> \E j \in blocks : p \in Touched(j.ptr, j.size)
      BY DEF MemoryInv, BlocksBacked
    <3>2. p \in Touched(k.ptr, k.size) <=> p \in T
      BY DEF T
    <3> QED BY <1>1, <1>2, <3>1, <3>2
  <2> QED BY <1>1, <2>1 DEF MemoryInv, BlocksBacked
<1>5. BytesWhereSent'
  <2>1. ASSUME NEW j \in blocks', NEW b \in Range(j.ptr, j.size) PROVE place'[PageOf(b)] = sent'[b]
    <3>1. b \in Bytes /\ j \in blocks
      BY <1>1, <2>1 DEF MemoryInv, BlocksBacked
    <3>2. PageOf(b) \in Touched(j.ptr, j.size) /\ PageOf(b) \in Pages
      BY <2>1, <3>1, Touches, BytesHavePages
    <3>3. PageOf(b) \notin T
      BY <1>2, <2>1, <3>2
    <3>4. b \notin Range(k.ptr, k.size)
      BY <3>1, <3>3, Touches DEF T
    <3>5. place[PageOf(b)] = sent[b]
      BY <2>1, <3>1 DEF MemoryInv, BytesWhereSent
    <3> QED BY <1>1, <3>1, <3>2, <3>3, <3>4, <3>5
  <2> QED BY <2>1 DEF BytesWhereSent
<1> QED BY <1>3, <1>4, <1>5 DEF MemoryInv

(* Of a block, exactly the bytes that were asked for move. *)
LEMMA MigrateKeeps ==
  ASSUME MemoryInv, NEW k \in blocks, NEW ptr \in Range(k.ptr, k.size), NEW size \in Sizes,
         NEW node \in AskedNodes, ptr + size <= k.ptr + k.size,
         MigrateMemoryToNode(ptr, size, node)
  PROVE  MemoryInv'
<1> DEFINE T == Touched(ptr, size)
<1>1. ptr % PageSize = 0 /\ size % PageSize = 0 /\ IsNumaNodeAvailable(node)
  BY DEF MigrateMemoryToNode, Aligned
<1>2. /\ place' = [p \in Pages |-> IF p \in T THEN node ELSE place[p]]
      /\ sent' = [b \in Bytes |-> IF b \in Range(ptr, size) THEN node ELSE sent[b]]
      /\ blocks' = blocks
  BY <1>1, RoundedAlready DEF MigrateMemoryToNode
<1>3. /\ node \in Places /\ node # Unmapped
      /\ node \in AskedNodes \cup {Unmapped, Interleaved}
  BY <1>1, NodesArePlaces
<1>4. Range(k.ptr, k.size) \subseteq Bytes
  BY DEF MemoryInv, BlocksBacked
<1>5. k.ptr \in Nat /\ k.size \in Nat /\ size \in Nat /\ ptr \in Nat /\ ptr \in Bytes
  BY <1>4, MemoryTypes, Constants DEF MemoryInv, Bytes, Sizes
<1>6. Range(ptr, size) \subseteq Range(k.ptr, k.size)
  BY <1>5 DEF Range
<1>7. T \subseteq Touched(k.ptr, k.size) /\ T \subseteq Pages
  BY <1>6 DEF Touched
<1>8. PICK g \in Nat, m \in Nat : ptr = PageSize * g /\ size = PageSize * m
  <2>1. /\ ptr \div PageSize \in Nat /\ size \div PageSize \in Nat
        /\ ptr = PageSize * (ptr \div PageSize) + 0
        /\ size = PageSize * (size \div PageSize) + 0
    BY <1>1, <1>5, DivFacts, Constants
  <2>2. /\ PageSize * (ptr \div PageSize) \in Nat /\ PageSize * (size \div PageSize) \in Nat
    BY <2>1, Constants
  <2> QED BY <2>1, <2>2
<1>9. ASSUME NEW b \in Bytes PROVE PageOf(b) \in T <=> b \in Range(ptr, size)
  <2>1. PageOf(b) \in T => b \in Range(ptr, size)
    BY <1>8, BytesHavePages, WholePages
  <2> QED BY <2>1, Touches
<1> HIDE DEF T
<1>10. TypeOK'
  <2>1. place' \in [Pages -> Places]
    BY <1>2, <1>3, MemoryTypes DEF MemoryInv
  <2>2. sent' \in [Bytes -> AskedNodes \cup {Unmapped, Interleaved}]
    BY <1>2, <1>3, MemoryTypes DEF MemoryInv
  <2> QED BY <1>2, <2>1, <2>2, MemoryTypes DEF MemoryInv, TypeOK, Places
<1>11. BlocksBacked'
  <2>1. ASSUME NEW p \in Pages PROVE place'[p] # Unmapped <=> place[p] # Unmapped
    <3>1. p \in T => place[p] # Unmapped
      BY <1>7 DEF MemoryInv, BlocksBacked
    <3> QED BY <1>2, <1>3, <3>1
  <2> QED BY <1>2, <2>1 DEF MemoryInv, BlocksBacked
<1>12. BytesWhereSent'
  <2>1. ASSUME NEW j \in blocks', NEW b \in Range(j.ptr, j.size) PROVE place'[PageOf(b)] = sent'[b]
    <3>1. b \in Bytes /\ j \in blocks
      BY <1>2, <2>1 DEF MemoryInv, BlocksBacked
    <3>2. PageOf(b) \in Pages
      BY <3>1, BytesHavePages
    <3>3. place[PageOf(b)] = sent[b]
      BY <2>1, <3>1 DEF MemoryInv, BytesWhereSent
    <3> QED BY <1>2, <1>9, <3>1, <3>2, <3>3
  <2> QED BY <2>1 DEF BytesWhereSent
<1> QED BY <1>10, <1>11, <1>12 DEF MemoryInv

LEMMA MemoryStep == ASSUME MemoryInv, [Next]_vars PROVE MemoryInv'
<1>1. ASSUME NEW size \in Sizes, AllocateMemoryInterleaved(size) PROVE MemoryInv'
  BY <1>1, NodesArePlaces, AllocateKeeps DEF AllocateMemoryInterleaved
<1>2. ASSUME NEW size \in Sizes, NEW node \in AskedNodes, AllocateMemoryOnNode(size, node)
      PROVE  MemoryInv'
  BY <1>2, NodesArePlaces, AllocateKeeps DEF AllocateMemoryOnNode
<1>3. ASSUME NEW k \in blocks, FreeMemory(k) PROVE MemoryInv'
  BY <1>3, FreeKeeps
<1>4. ASSUME NEW k \in blocks, NEW ptr \in Range(k.ptr, k.size), NEW size \in Sizes,
             NEW node \in AskedNodes, ptr + size <= k.ptr + k.size,
             MigrateMemoryToNode(ptr, size, node)
      PROVE  MemoryInv'
  BY <1>4, MigrateKeeps
<1>5. CASE UNCHANGED vars
  BY <1>5 DEF vars, MemoryInv, TypeOK, BlocksBacked, BytesWhereSent
<1> QED BY <1>1, <1>2, <1>3, <1>4, <1>5 DEF Next

-----------------------------------------------------------------------------
(* The conjuncts of MemoryInv are inductive together. *)
THEOREM MemoryInvHolds == Spec => []MemoryInv
<1>1. MemoryInv /\ [Next]_vars => MemoryInv'
  BY MemoryStep
<1> QED BY InitMemory, <1>1, PTL DEF Spec

(* Memory is taken only from nodes that have memory and that the process   *)
(* may use.                                                                *)
THEOREM MemoryTypeCorrect == Spec => []TypeOK
<1>1. MemoryInv => TypeOK
  BY DEF MemoryInv
<1> QED BY MemoryInvHolds, <1>1, PTL

(* AllocateMemory* and FreeMemory agree about the pages of a block although*)
(* one rounds its size and the other does not, whatever the width of       *)
(* size_t in which the rounding wraps.                                     *)
THEOREM BlocksStayBacked == Spec => []BlocksBacked
<1>1. MemoryInv => BlocksBacked
  BY DEF MemoryInv
<1> QED BY MemoryInvHolds, <1>1, PTL

(* MigrateMemoryToNode moves the bytes that it was given and no other.     *)
THEOREM BytesStayWhereSent == Spec => []BytesWhereSent
<1>1. MemoryInv => BytesWhereSent
  BY DEF MemoryInv
<1> QED BY MemoryInvHolds, <1>1, PTL
=============================================================================
