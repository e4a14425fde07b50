----------------------------- MODULE JitMemory -----------------------------
(***************************************************************************)
(* The registry of executable memory of Horizon/JitMemory.cpp.  Horizon    *)
(* limits the number of CodeMemory kernel objects, so small emitters share *)
(* a few pools, cut into pages, while large caches get an object each.     *)
(* Every object is mapped twice: code pointers are RX addresses, and only  *)
(* an emitter's stores are translated to the RW alias.                     *)
(*                                                                         *)
(* Every public operation runs under region_mutex and is one action.  What *)
(* can go wrong inside it (the kernel refuses jitCreate or jitClose, hands *)
(* out memory of the wrong type, the heap is exhausted) is a choice.       *)
(*                                                                         *)
(* regions is a vector with holes: the first unused entry is reused, and   *)
(* one is appended only when there is none.  An array of MAX_JIT_REGIONS   *)
(* entries, unused at first, behaves the same.  Addresses are integers.    *)
(* The counters that only telemetry reads are left out.                    *)
(***************************************************************************)
EXTENDS Integers, Sequences, FiniteSets, FiniteSetsExt, Functions

CONSTANTS
  PAGE_SIZE,                \* bytes of a page
  SIZE_MAX,                 \* the largest size_t
  MAX_JIT_REGIONS,          \* entries of the registry
  MAX_JIT_ALLOCATIONS,      \* live allocations
  SMALL_JIT_POOL_SIZE,      \* bytes of a pool
  MAX_SMALL_JIT_POOLS,      \* pools
  SMALL_JIT_MAX_ALLOCATION, \* bytes of the largest pooled allocation
  KernelObjects,            \* how many CodeMemory objects the kernel allows
  Window,                   \* distance between two mappings of the kernel
  Sizes,                    \* the sizes that callers pass
  Faults                    \* what may fail: see FaultKinds

FaultKinds == {"create", "type", "close", "pages", "allocations"}

ASSUME PageAssumption ==
  /\ PAGE_SIZE \in Nat \ {0} /\ SIZE_MAX \in Nat
  /\ (SIZE_MAX + 1) % PAGE_SIZE = 0
ASSUME LimitAssumption ==
  /\ {MAX_JIT_REGIONS, MAX_JIT_ALLOCATIONS, MAX_SMALL_JIT_POOLS} \subseteq Nat \ {0}
  /\ SMALL_JIT_MAX_ALLOCATION \in 1 .. SMALL_JIT_POOL_SIZE
  /\ SMALL_JIT_POOL_SIZE \in 1 .. Window
  /\ SMALL_JIT_POOL_SIZE % PAGE_SIZE = 0 /\ SMALL_JIT_MAX_ALLOCATION % PAGE_SIZE = 0
ASSUME InputAssumption ==
  /\ KernelObjects \in Nat /\ Window \in Nat
  /\ Sizes \subseteq 0 .. SIZE_MAX
  /\ Faults \subseteq FaultKinds

VARIABLES
  regions,               \* the registry
  small_pooling_enabled, \* the policy for small allocations
  stats,                 \* the counters of JitMemoryStats that agree with live state
  code_memory,           \* the kernel: the CodeMemory objects that are open
  live                   \* history: what callers hold, as address and aligned size

vars == <<regions, small_pooling_enabled, stats, code_memory, live>>

RegionIds == 1 .. MAX_JIT_REGIONS
PoolPages == SMALL_JIT_POOL_SIZE \div PAGE_SIZE

-----------------------------------------------------------------------------
(* The kernel (external): object k maps its memory at RX(k) and at RW(k).  *)
(* Mappings of neighbouring objects touch when they fill their window.     *)

Objects   == 0 .. KernelObjects - 1
RX(k)     == 2 * k * Window
RW(k)     == (2 * k + 1) * Window
Addresses == 0 .. 2 * KernelObjects * Window - 1

-----------------------------------------------------------------------------
(* Helpers of the registry. *)

NoPages == [page \in {} |-> 0]

Unused == [offset |-> 0, size |-> 0, used |-> FALSE]

NoRegion == [used |-> FALSE, pooled |-> FALSE, quarantined |-> FALSE, rx |-> 0, rw |-> 0,
             size |-> 0, active_allocations |-> 0, pages |-> NoPages, allocations |-> <<>>]

Contains(base, capacity, pointer, size) ==
  /\ pointer >= base
  /\ pointer - base <= capacity
  /\ size <= capacity - (pointer - base)

\* AlignSize throws for the sizes that are not Alignable.
Alignable(size) == size # 0 /\ size <= SIZE_MAX - (PAGE_SIZE - 1)

AlignSize(size) == (((size + PAGE_SIZE - 1) % (SIZE_MAX + 1)) \div PAGE_SIZE) * PAGE_SIZE

\* The kernel never maps two objects over one another.
ASSUME WindowAssumption == \A size \in Sizes : Alignable(size) => AlignSize(size) <= Window

Pools == {i \in RegionIds : regions[i].used /\ regions[i].pooled /\ ~regions[i].quarantined}

CountPoolRegions == Cardinality(Pools)

\* Mutant: a run may be as long as needed without its last page being free.
FreeRunsOffByOne(region, pages_needed) ==
  {page \in DOMAIN region.pages :
     \A q \in page .. page + pages_needed - 2 :
        q \in DOMAIN region.pages /\ region.pages[q] = 0}

\* The first page of every run of free pages that is long enough.
FreeRuns(region, pages_needed) ==
  {page \in DOMAIN region.pages :
     \A q \in page .. page + pages_needed - 1 :
        q \in DOMAIN region.pages /\ region.pages[q] = 0}

FindFreePages(region, pages_needed) == Min(FreeRuns(region, pages_needed))

\* Mutant: only the first page has to belong to the allocation.
FindPoolAllocationFirstPage(region, pointer, size) ==
  LET owner == region.pages[(pointer - region.rx) \div PAGE_SIZE] IN
  IF size # 0 /\ Contains(region.rx, region.size, pointer, size) /\
     owner \in DOMAIN region.allocations
  THEN owner ELSE 0

\* The index of the allocation that holds [pointer, pointer + size), or 0.
FindPoolAllocation(region, pointer, size) ==
  LET offset     == pointer - region.rx
      first_page == offset \div PAGE_SIZE
      last_page  == (offset + size - 1) \div PAGE_SIZE
      owner      == region.pages[first_page]
      Holds      ==
        /\ size # 0
        /\ Contains(region.rx, region.size, pointer, size)
        /\ owner \in DOMAIN region.allocations
        /\ \A page \in first_page + 1 .. last_page : region.pages[page] = owner
        /\ region.allocations[owner].used
        /\ Contains(region.rx + region.allocations[owner].offset,
                    region.allocations[owner].size, pointer, size)
  IN IF Holds THEN owner ELSE 0

\* The regions in which Find accepts a range; it throws when there is none.
Find(rx, size) ==
  {i \in RegionIds :
     /\ regions[i].used /\ ~regions[i].quarantined
     /\ Contains(regions[i].rx, regions[i].size, rx, size)
     /\ regions[i].pooled => FindPoolAllocation(regions[i], rx, size) # 0}

Writable(region, rx) == region.rw + (rx - region.rx)

-----------------------------------------------------------------------------
Init ==
  /\ regions = [i \in RegionIds |-> NoRegion]
  /\ small_pooling_enabled = TRUE
  /\ stats = [active |-> 0, kernel_regions_active |-> 0, pooled_pages_active |-> 0]
  /\ code_memory = {}
  /\ live = {}

-----------------------------------------------------------------------------
(* AllocateJitMemory. *)

Slot == Min({i \in RegionIds : ~regions[i].used})

\* What jitCreate and OpenRegion fill in when object k is created.
Opened(k, size, pooled) ==
  [NoRegion EXCEPT !.used = TRUE, !.pooled = pooled, !.rx = RX(k), !.rw = RW(k), !.size = size]

CanCreate == \E i \in RegionIds : ~regions[i].used

OneMoreObject == [stats EXCEPT !.kernel_regions_active = @ + 1]

\* Region r now occupies the free slot, over object k of the kernel.
Occupy(r, k) ==
  /\ CanCreate
  /\ k \in Objects \ code_memory
  /\ regions' = [regions EXCEPT ![Slot] = r]
  /\ code_memory' = code_memory \union {k}

\* OpenRegion throws and leaves nothing behind: the registry is full, or the
\* kernel refuses, or what was created could be closed again.
OpenRegionThrows ==
  /\ \/ ~CanCreate
     \/ code_memory = Objects
     \/ Faults \intersect {"create", "type", "pages"} # {}
  /\ UNCHANGED vars

\* Mutant: the entry of a region that could not be closed is reused.
OpenRegionForgets(size) ==
  /\ {"type", "close"} \subseteq Faults /\ CanCreate
  /\ \E k \in Objects \ code_memory : code_memory' = code_memory \union {k}
  /\ UNCHANGED <<regions, stats, small_pooling_enabled, live>>

\* Memory of the wrong type could not be closed: the region is quarantined.
OpenRegionQuarantines(size) ==
  /\ {"type", "close"} \subseteq Faults
  /\ \E k \in Objects :
       Occupy([Opened(k, size, FALSE) EXCEPT !.quarantined = TRUE], k)
  /\ stats' = OneMoreObject
  /\ UNCHANGED <<small_pooling_enabled, live>>

\* The page table of a new pool could not be allocated, nor the pool be closed:
\* the region stays, a pool without pages.
OpenRegionStrands ==
  /\ {"pages", "close"} \subseteq Faults
  /\ \E k \in Objects : Occupy(Opened(k, SMALL_JIT_POOL_SIZE, TRUE), k)
  /\ stats' = OneMoreObject
  /\ UNCHANGED <<small_pooling_enabled, live>>

EmptyPool(k) ==
  [Opened(k, SMALL_JIT_POOL_SIZE, TRUE) EXCEPT !.pages = [page \in 0 .. PoolPages - 1 |-> 0]]

RecordAllocation(s, pages) ==
  [s EXCEPT !.active = @ + 1, !.pooled_pages_active = @ + pages]

\* Fill the pages of a range of bytes with an owner.
FillPages(pages, offset, size, owner) ==
  [page \in DOMAIN pages |->
     IF page \in offset \div PAGE_SIZE .. (offset + size) \div PAGE_SIZE - 1
     THEN owner ELSE pages[page]]

\* The first unused entry of the allocation list, or the one to append.
NewIndex(region) ==
  Min({n \in DOMAIN region.allocations : ~region.allocations[n].used}
        \union {Len(region.allocations) + 1})

\* AddPoolAllocation also refuses an index that does not fit 16 bits; a pool has
\* fewer pages than that, and OwnersFitPages shows that the test never fails.
AddPoolAllocation(region, offset, size) ==
  LET index      == NewIndex(region)
      allocation == [offset |-> offset, size |-> size, used |-> TRUE]
  IN [region EXCEPT
        !.allocations = IF index \in DOMAIN @ THEN [@ EXCEPT ![index] = allocation]
                                              ELSE Append(@, allocation),
        !.pages = FillPages(@, offset, size, index),
        !.active_allocations = @ + 1]

\* The pools with room for an allocation of size bytes.
Roomy(size) == {i \in Pools : FreeRuns(regions[i], size \div PAGE_SIZE) # {}}

\* A small allocation takes the first free run of the first pool that has one.
AllocateInPool(size) ==
  /\ Roomy(size) # {}
  /\ LET i      == Min(Roomy(size))
         offset == FindFreePages(regions[i], size \div PAGE_SIZE) * PAGE_SIZE
     IN /\ regions' = [regions EXCEPT ![i] = AddPoolAllocation(regions[i], offset, size)]
        /\ live' = live \union {[address |-> regions[i].rx + offset, size |-> size]}
  /\ stats' = RecordAllocation(stats, size \div PAGE_SIZE)
  /\ UNCHANGED <<small_pooling_enabled, code_memory>>

\* The allocation list has no unused entry and could not grow.
AllocateInPoolThrows(size) ==
  /\ "allocations" \in Faults
  /\ Roomy(size) # {}
  /\ LET region == regions[Min(Roomy(size))] IN NewIndex(region) > Len(region.allocations)
  /\ UNCHANGED vars

AllocateInNewPool(size) ==
  /\ Roomy(size) = {}
  /\ CountPoolRegions < MAX_SMALL_JIT_POOLS
  /\ \/ OpenRegionThrows
     \/ OpenRegionQuarantines(SMALL_JIT_POOL_SIZE)
     \/ OpenRegionStrands
     \/ /\ \E k \in Objects :
             /\ Occupy(AddPoolAllocation(EmptyPool(k), 0, size), k)
             /\ live' = live \union {[address |-> RX(k), size |-> size]}
        /\ stats' = RecordAllocation(OneMoreObject, size \div PAGE_SIZE)
        /\ UNCHANGED small_pooling_enabled
     \/ \* the allocation list could not grow: the new pool stays open
        /\ "allocations" \in Faults
        /\ \E k \in Objects : Occupy(EmptyPool(k), k)
        /\ stats' = OneMoreObject
        /\ UNCHANGED <<small_pooling_enabled, live>>

PoolsExhausted(size) ==
  /\ Roomy(size) = {}
  /\ CountPoolRegions >= MAX_SMALL_JIT_POOLS
  /\ UNCHANGED vars

AllocateDedicated(size) ==
  \/ OpenRegionThrows
  \/ OpenRegionQuarantines(size)
  \/ /\ \E k \in Objects :
          /\ Occupy(Opened(k, size, FALSE), k)
          /\ live' = live \union {[address |-> RX(k), size |-> size]}
     /\ stats' = RecordAllocation(OneMoreObject, 0)
     /\ UNCHANGED small_pooling_enabled

AllocateJitMemory(size) ==
  IF ~Alignable(size) \/ stats.active >= MAX_JIT_ALLOCATIONS
  THEN UNCHANGED vars
  ELSE LET aligned_size == AlignSize(size) IN
       IF small_pooling_enabled /\ aligned_size <= SMALL_JIT_MAX_ALLOCATION
       THEN \/ AllocateInPool(aligned_size)
            \/ AllocateInPoolThrows(aligned_size)
            \/ AllocateInNewPool(aligned_size)
            \/ PoolsExhausted(aligned_size)
       ELSE AllocateDedicated(aligned_size)

-----------------------------------------------------------------------------
(* FreeJitMemory. *)

\* The regions one of whose aliases contains the address.
Holders(address) ==
  {i \in RegionIds :
     /\ regions[i].used /\ ~regions[i].quarantined
     /\ \/ Contains(regions[i].rx, regions[i].size, address, 1)
        \/ Contains(regions[i].rw, regions[i].size, address, 1)}

\* A free is accepted for exactly the start and the size of an allocation.
Accepts(region, rx, size) ==
  /\ Alignable(size)
  /\ IF region.pooled
     THEN LET owner == FindPoolAllocation(region, rx, 1) IN
          /\ owner # 0
          /\ rx = region.rx + region.allocations[owner].offset
          /\ AlignSize(size) = region.allocations[owner].size
     ELSE rx = region.rx /\ AlignSize(size) = region.size

\* jitClose succeeds: the entry is reset and the kernel object is gone.
CloseRegion(i) ==
  /\ regions' = [regions EXCEPT ![i] = NoRegion]
  /\ code_memory' = {k \in code_memory : RX(k) # regions[i].rx}

ReleasePages(region, owner) ==
  LET allocation == region.allocations[owner] IN
  [region EXCEPT
     !.pages = FillPages(@, allocation.offset, allocation.size, 0),
     !.allocations[owner] = Unused,
     !.active_allocations = @ - 1]

Released(rx, size, closed, pages) ==
  /\ stats' = [stats EXCEPT !.active = @ - 1, !.kernel_regions_active = @ - closed,
                            !.pooled_pages_active = @ - pages]
  /\ live' = live \ {[address |-> rx, size |-> size]}
  /\ UNCHANGED small_pooling_enabled

IsLast(region) == region.pooled => region.active_allocations = 1

\* Mutant: the pages are released before the close is known to succeed.
FreeLastReleasesFirst(i, rx, size) ==
  /\ IsLast(regions[i])
  /\ \/ /\ CloseRegion(i)
        /\ Released(rx, size, 1, IF regions[i].pooled THEN size \div PAGE_SIZE ELSE 0)
     \/ /\ "close" \in Faults /\ regions[i].pooled
        /\ regions' = [regions EXCEPT ![i] = ReleasePages(@, FindPoolAllocation(@, rx, 1))]
        /\ UNCHANGED <<small_pooling_enabled, stats, code_memory, live>>

\* The last allocation of a pool goes with the pool, or stays when the close fails.
FreeLast(i, rx, size) ==
  /\ IsLast(regions[i])
  /\ \/ /\ CloseRegion(i)
        /\ Released(rx, size, 1, IF regions[i].pooled THEN size \div PAGE_SIZE ELSE 0)
     \/ "close" \in Faults /\ UNCHANGED vars

FreeInPool(i, rx, size) ==
  /\ ~IsLast(regions[i])
  /\ regions' = [regions EXCEPT
                   ![i] = ReleasePages(@, FindPoolAllocation(@, rx, 1))]
  /\ Released(rx, size, 0, size \div PAGE_SIZE)
  /\ UNCHANGED code_memory

FreeJitMemory(rx, size) ==
  IF Holders(rx) = {} \/ ~Accepts(regions[Min(Holders(rx))], rx, size)
  THEN UNCHANGED vars   \* NotJit, or refused
  ELSE LET i == Min(Holders(rx)) IN
       \/ FreeLast(i, rx, AlignSize(size))
       \/ FreeInPool(i, rx, AlignSize(size))

\* An address inside a pool that has no allocation was never handed out.
WasHandedOut(address) ==
  \A i \in Pools \intersect Holders(address) : regions[i].active_allocations # 0

-----------------------------------------------------------------------------
SetSmallJitPoolingEnabled(enabled) ==
  /\ small_pooling_enabled' =
       IF stats.active # 0 /\ small_pooling_enabled # enabled
       THEN small_pooling_enabled ELSE enabled
  /\ UNCHANGED <<regions, stats, code_memory, live>>

Next ==
  \/ \E size \in Sizes : AllocateJitMemory(size)
  \/ \E rx \in {address \in Addresses : WasHandedOut(address)}, size \in Sizes :
        FreeJitMemory(rx, size)
  \/ \E enabled \in BOOLEAN : SetSmallJitPoolingEnabled(enabled)

Spec == Init /\ [][Next]_vars

-----------------------------------------------------------------------------
(* Properties. *)

Allocation == [offset : Nat, size : Nat, used : BOOLEAN]

Region == [used : BOOLEAN, pooled : BOOLEAN, quarantined : BOOLEAN, rx : Nat, rw : Nat,
           size : Nat, active_allocations : Nat,
           pages : [{} -> Nat] \union [0 .. PoolPages - 1 -> Nat],
           allocations : Seq(Allocation)]

\* Types: counters never wrap below zero, and a live allocation has a size,
\* whatever size its caller asked for (AlignSize).
TypeOK ==
  /\ regions \in [RegionIds -> Region]
  /\ small_pooling_enabled \in BOOLEAN
  /\ stats \in [active : Nat, kernel_regions_active : Nat, pooled_pages_active : Nat]
  /\ code_memory \subseteq Objects
  /\ live \subseteq [address : Nat, size : Nat \ {0}]

Overlap(a, b) == a.address < b.address + b.size /\ b.address < a.address + a.size

Backs(i, a) ==
  /\ regions[i].used /\ ~regions[i].quarantined
  /\ Contains(regions[i].rx, regions[i].size, a.address, a.size)

\* Live code is private: however AllocateJitMemory and FreeJitMemory alternate,
\* fragment and reuse pools and kernel objects, no two live allocations overlap,
\* and each lies in a region that is still open.
CodeIsPrivate ==
  /\ \A a, b \in live : a # b => ~Overlap(a, b)
  /\ \A a \in live : \E i \in RegionIds : Backs(i, a)

\* An emitter reaches exactly live code: GetWritableJitAddress and FlushJitCode
\* accept a range if and only if it lies within one live allocation, never one
\* that spans two of them or reaches released pages, and they translate it into
\* the RW alias of an object that is open.
EmitterReachesExactlyLive ==
  \A rx \in {address \in Addresses : WasHandedOut(address)}, size \in Sizes \ {0, SIZE_MAX} :
     /\ Find(rx, size) # {} <=> \E a \in live : Contains(a.address, a.size, rx, size)
     /\ \A i \in Find(rx, size) :
          \E k \in code_memory : Contains(RW(k), Window, Writable(regions[i], rx), size)

\* A failed release loses nothing: whatever failed before, FreeJitMemory accepts
\* every live allocation, so that only the kernel can keep it from being released.
ReleaseCanBeRetried ==
  \A a \in live :
     /\ Holders(a.address) # {}
     /\ Accepts(regions[Min(Holders(a.address))], a.address, a.size)

PooledLive == {a \in live : \E i \in Pools : Backs(i, a)}
PooledBytes == UNION {a.address .. a.address + a.size - 1 : a \in PooledLive}

\* The counters of JitMemoryStats, which decide the allocation limit and whether
\* the pooling policy may change, agree with what is live and what is open.
LedgerAgrees ==
  /\ stats.active = Cardinality(live)
  /\ stats.kernel_regions_active = Cardinality(code_memory)
  /\ stats.pooled_pages_active * PAGE_SIZE = Cardinality(PooledBytes)
  /\ \A i \in Pools :
       regions[i].active_allocations = Cardinality({a \in live : Backs(i, a)})

\* The registry owns exactly the open kernel objects, one per used entry: none is
\* leaked, and none is closed while an entry still points at it.
RegistryOwnsObjects ==
  /\ \A k \in Objects :
       k \in code_memory <=> \E i \in RegionIds : regions[i].used /\ regions[i].rx = RX(k)
  /\ \A i, j \in RegionIds :
       regions[i].used /\ regions[j].used /\ regions[i].rx = regions[j].rx => i = j

\* A kernel object is kept only for live code, in quarantine, or as a pool that no
\* allocation has entered because the heap was exhausted: the release of the last
\* allocation takes its object along.
ObjectsServeLiveCode ==
  \A i \in RegionIds :
     regions[i].used /\ ~regions[i].quarantined =>
       \/ \E a \in live : Backs(i, a)
       \/ regions[i].pooled /\ regions[i].allocations = <<>>

\* Small allocations that are live together are all pooled or all dedicated: the
\* policy changes only between boots (SetSmallJitPoolingEnabled).
PolicyIsUniform ==
  \A a \in live :
     a.size <= SMALL_JIT_MAX_ALLOCATION => (a \in PooledLive <=> small_pooling_enabled)

\* The owner that a page stores is an index into the allocation list plus one and
\* fits 16 bits: the list never has more entries than a pool has pages, however
\* long allocations come and go.
OwnersFitPages ==
  \A i \in RegionIds : Len(regions[i].allocations) <= PoolPages

\* The books are sound whatever failed before: the counters, the registry, the
\* kernel's objects and the pages' owners describe the same live allocations, so
\* that the limits AllocateJitMemory enforces and the last release of a pool, which
\* FreeJitMemory recognises by a counter, rest on true numbers.
RegistryIsSound ==
  /\ TypeOK
  /\ LedgerAgrees
  /\ RegistryOwnsObjects
  /\ ObjectsServeLiveCode
  /\ PolicyIsUniform
  /\ OwnersFitPages
=============================================================================
