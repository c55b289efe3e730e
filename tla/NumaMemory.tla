----------------------------- MODULE NumaMemory -----------------------------
(***************************************************************************)
(* The memory functions of numa_namespace.hpp: sizes are rounded up to     *)
(* whole pages in size_t arithmetic, blocks are allocated on a node or     *)
(* interleaved, migrated to another node, and freed with the size that the *)
(* caller asked for.  libnuma and the kernel are modelled from these       *)
(* calls: numa_alloc_* maps fresh pages and fails for no bytes,            *)
(* numa_tonode_memory sets the node of every page that the range touches,  *)
(* numa_free unmaps them.  The node of a page is its policy: where it goes *)
(* when it is used first.                                                  *)
(***************************************************************************)
EXTENDS Integers, FiniteSets

CONSTANTS
  WordSize,           \* 2 ^ (8 * sizeof(size_t)), small here
  PageSize,           \* sysconf(_SC_PAGESIZE), a power of two
  PageCount,          \* bound: the pages the kernel can hand out
  NodeCount,          \* NumaNodeCount()
  Allowed,            \* the nodes of numa_get_mems_allowed()
  Populated,          \* the nodes of a positive numa_node_size64()
  AskedNodes,         \* the node indices that callers pass
  Unmapped, Interleaved

ASSUME MemoryAssumption ==
  /\ WordSize \in Nat /\ PageSize \in Nat \ {0} /\ PageCount \in Nat
  /\ WordSize % PageSize = 0 /\ PageSize * PageCount <= WordSize
  /\ NodeCount \in Nat /\ AskedNodes \subseteq Int
  /\ Unmapped \notin AskedNodes /\ Interleaved \notin AskedNodes
  /\ Unmapped # Interleaved

Sizes == 0 .. WordSize - 1
Pages == 0 .. PageCount - 1
Bytes == 0 .. PageSize * PageCount - 1

VARIABLES
  place,   \* the node of each page, Unmapped, or Interleaved
  blocks,  \* the allocations that callers hold
  sent     \* history: where each byte was asked to be

vars == <<place, blocks, sent>>

Init == /\ place = [g \in Pages |-> Unmapped]
        /\ blocks = {}
        /\ sent = [b \in Bytes |-> Unmapped]

-----------------------------------------------------------------------------
IsNumaNodeOnline(node) == node >= 0 /\ node < NodeCount /\ node \in Allowed

(* Mutant: a node without memory is taken for available. *)
OnlineIsEnough(node) == IsNumaNodeOnline(node)
IsNumaNodeAvailable(node) == IsNumaNodeOnline(node) /\ node \in Populated

(* size & (bit != 0): the test meant for the top bit looks at the lowest.  *)
Refused(size) == size % 2 = 1 \/ size = 0

(* Mutant: the page size is not added before the mask is applied. *)
RoundDown(size) == size - (size % PageSize)

(* (size + page - 1) & ~(page - 1), which wraps to 0 near the top *)
RoundUpToPageSize(size) ==
  LET sum == (size + PageSize - 1) % WordSize IN sum - (sum % PageSize)

(* The bytes of a range, and the pages that it touches. *)
Range(ptr, size) == ptr .. ptr + size - 1
PageOf(b) == b \div PageSize
Touched(ptr, size) == {g \in Pages : \E b \in Range(ptr, size) : PageOf(b) = g}

-----------------------------------------------------------------------------
(* numa_alloc_onnode, numa_alloc_interleaved: null unless there is room.   *)
Allocate(size, where) ==
  LET rounded == RoundUpToPageSize(size) IN
  /\ ~Refused(size) /\ rounded # 0
  /\ \E g \in Pages :
       LET ptr == g * PageSize IN
       /\ ptr + rounded <= PageSize * PageCount
       /\ \A p \in Touched(ptr, rounded) : place[p] = Unmapped
       /\ place' = [p \in Pages |-> IF p \in Touched(ptr, rounded) THEN where ELSE place[p]]
       /\ blocks' = blocks \cup {[ptr |-> ptr, size |-> size]}
       /\ sent' = [b \in Bytes |-> IF b \in Range(ptr, size) THEN where ELSE sent[b]]

AllocateMemoryOnNode(size, node) == IsNumaNodeAvailable(node) /\ Allocate(size, node)

AllocateMemoryInterleaved(size) == Allocate(size, Interleaved)

FreeMemory(k) ==
  /\ place' = [p \in Pages |-> IF p \in Touched(k.ptr, k.size) THEN Unmapped ELSE place[p]]
  /\ blocks' = blocks \ {k}
  /\ sent' = [b \in Bytes |-> IF b \in Range(k.ptr, k.size) THEN Unmapped ELSE sent[b]]

(* Mutant: the size need not be a multiple of the page size. *)
PointerAligned(ptr, size) == ptr % PageSize = 0

Aligned(ptr, size) == ptr % PageSize = 0 /\ size % PageSize = 0

(* The caller passes any part of a block that it holds. *)
MigrateMemoryToNode(ptr, size, node) ==
  /\ IsNumaNodeAvailable(node)
  /\ ~Refused(size) /\ Aligned(ptr, size)
  /\ place' = [p \in Pages |-> IF p \in Touched(ptr, RoundUpToPageSize(size))
                                 THEN node ELSE place[p]]
  /\ sent' = [b \in Bytes |-> IF b \in Range(ptr, size) THEN node ELSE sent[b]]
  /\ UNCHANGED blocks

Next ==
  \/ \E size \in Sizes : \/ AllocateMemoryInterleaved(size)
                         \/ \E node \in AskedNodes : AllocateMemoryOnNode(size, node)
  \/ \E k \in blocks :
       \/ FreeMemory(k)
       \/ \E ptr \in Range(k.ptr, k.size), size \in Sizes, node \in AskedNodes :
            ptr + size <= k.ptr + k.size /\ MigrateMemoryToNode(ptr, size, node)

Spec == Init /\ [][Next]_vars

-----------------------------------------------------------------------------
(* Pages lie on nodes that have memory and that the process may use.       *)
TypeOK ==
  /\ place \in [Pages -> (AskedNodes \cap (0 .. NodeCount - 1) \cap Allowed \cap Populated)
                           \cup {Unmapped, Interleaved}]
  /\ blocks \subseteq [ptr : Bytes, size : Sizes \ {0}]
  /\ sent \in [Bytes -> AskedNodes \cup {Unmapped, Interleaved}]

(* The pages mapped are those of the live blocks, each of one block only:  *)
(* a block has a page behind each of its bytes although the size that is   *)
(* mapped was rounded, in arithmetic that wraps, and the size that is freed*)
(* was not, so nothing stays mapped and nothing is freed twice.            *)
BlocksBacked ==
  /\ \A g \in Pages : place[g] # Unmapped <=> \E k \in blocks : g \in Touched(k.ptr, k.size)
  /\ \A k \in blocks : Range(k.ptr, k.size) \subseteq Bytes
  /\ \A j, k \in blocks : Touched(j.ptr, j.size) \cap Touched(k.ptr, k.size) # {} => j = k

(* Every byte of a block lies where it was last sent: migrating a part of  *)
(* a block moves no byte outside of that part.                             *)
BytesWhereSent ==
  \A k \in blocks : \A b \in Range(k.ptr, k.size) : place[PageOf(b)] = sent[b]
=============================================================================
