------------------------------ MODULE MemArena ------------------------------
(***************************************************************************)
(* The emulated RAM on Horizon (Horizon/MemArena.cpp): one backing buffer, *)
(* a canonical alias of it, and aliases of the canonical one in a reserved *)
(* range of addresses.  Every system call can be refused.  The operators   *)
(* take and return the whole state of the arena, as the calls of a class   *)
(* do; MemoryMap calls them.  The unit of addresses is a page.             *)
(***************************************************************************)
EXTENDS Integers, SequencesExt

CONSTANTS
  ArenaPages,   \* pages of the reserved range
  Faults        \* what may be refused, of "alloc", "aligned", "canonical", "reserve", "map",
                \* "later", "stuck", "unmap", "canonical_unmap"

NONE == -1

\* No backing, no alias, no reservation.  alias and rw are the kernel's, for the reserved range;
\* stray are the pages whose rollback was refused, so that no record was made for their alias.
\* orphan: the kernel keeps an alias that nothing names any more, the canonical one or one in
\* a range that is no longer reserved.
Empty ==
  [shm |-> "none", mirror |-> FALSE, region |-> FALSE, records |-> <<>>,
   alias |-> [p \in ArenaPages |-> NONE], rw |-> {}, stray |-> {},
   orphan |-> FALSE]

PagesOf(v) == v.base .. v.base + v.size - 1

Free(m, v) == \A p \in PagesOf(v) : m.alias[p] = NONE

-----------------------------------------------------------------------------
(* The kernel's side.                                                      *)

\* svcMapProcessMemory: an alias of the pages from r.offset on, writable at first.
KernelMap(m, r) ==
  [m EXCEPT !.alias = [p \in ArenaPages |->
                         IF p \in PagesOf(r) THEN r.offset + p - r.base ELSE m.alias[p]],
            !.rw = @ \union PagesOf(r)]

\* svcUnmapProcessMemory wants the exact source of every page.
Unmappable(m, r) == \A p \in PagesOf(r) : m.alias[p] = r.offset + p - r.base

KernelUnmap(m, r) ==
  [m EXCEPT !.alias = [p \in ArenaPages |-> IF p \in PagesOf(r) THEN NONE ELSE m.alias[p]],
            !.rw = @ \ PagesOf(r), !.stray = @ \ PagesOf(r)]

-----------------------------------------------------------------------------
(* Mutant: an alias that cannot be protected or recorded is left behind.   *)
MapInMemoryRegionNoRollback(m, r, writeable, readOnly, fault) ==
  LET mapped == IF Free(m, r) /\ fault # "map" THEN KernelMap(m, r) ELSE m
      shown  == IF writeable THEN mapped ELSE [mapped EXCEPT !.rw = @ \ PagesOf(r)]
  IN IF ~m.region \/ ~m.mirror \/ ~(writeable \/ readOnly) THEN m
     ELSE IF Free(m, r) /\ fault = "none" THEN [shown EXCEPT !.records = Append(@, r)]
     ELSE mapped

(* MapInMemoryRegion: alias, protect, record; what fails is rolled back by *)
(* an unmap whose result nobody looks at.  fault is "none" or the step     *)
(* that is refused: "map", or a "later" one, or a later one and then the   *)
(* rollback as well ("stuck").                                             *)
MapInMemoryRegion(m, r, writeable, readOnly, fault) ==
  LET mapped == IF Free(m, r) /\ fault # "map" THEN KernelMap(m, r) ELSE m
      shown  == IF writeable THEN mapped ELSE [mapped EXCEPT !.rw = @ \ PagesOf(r)]
  IN IF ~m.region \/ ~m.mirror \/ ~(writeable \/ readOnly) THEN m
     ELSE IF Free(m, r) /\ fault = "none" THEN [shown EXCEPT !.records = Append(@, r)]
     ELSE IF Unmappable(mapped, r) /\ fault # "stuck" THEN KernelUnmap(mapped, r)
     ELSE [mapped EXCEPT !.stray = IF Free(m, r) /\ fault # "map" THEN @ \union PagesOf(r) ELSE @]

\* Whether the call that led from m to n returned the address.
Returned(m, n) == Len(n.records) > Len(m.records)

(* UnmapFromMemoryRegion: the first record with the address decides.       *)
UnmapFromMemoryRegion(m, v, refused) ==
  LET i == SelectInSeq(m.records, LAMBDA r : r.base = v.base)
  IN IF i = 0 \/ refused THEN m
     ELSE IF m.records[i].size # v.size \/ ~Unmappable(m, m.records[i]) THEN m
     ELSE [KernelUnmap(m, m.records[i]) EXCEPT !.records = RemoveAt(@, i)]

\* The views in some order, those at the addresses in refused in vain.
UnmapViews(m, views, refused) ==
  FoldLeft(LAMBDA n, v : UnmapFromMemoryRegion(n, v, v.base \in refused), m, SetToSeq(views))

(* ChangeMappingProtection.                                                *)
ChangeMappingProtection(m, v, writeable, readOnly, refused) ==
  IF ~readOnly \/ refused THEN m
  ELSE [m EXCEPT !.rw = IF writeable THEN @ \union PagesOf(v) ELSE @ \ PagesOf(v)]

(* ReserveMemoryRegion.                                                    *)
ReserveMemoryRegion(m, fault) == [m EXCEPT !.region = m.mirror /\ fault # "reserve"]

(* One alias of ReleaseMemoryRegion: a refused one stays recorded.         *)
ReleaseRecord(m, i, refused) ==
  IF m.records[i].base \in refused \/ ~Unmappable(m, m.records[i]) THEN m
  ELSE [KernelUnmap(m, m.records[i]) EXCEPT !.records = RemoveAt(@, i)]

(* ReleaseMemoryRegion: the newest alias first; the reservation goes with  *)
(* the last record, and the next one is where nothing is mapped.           *)
ReleaseMemoryRegion(m, refused) ==
  LET left == FoldRightDomain(LAMBDA i, n : ReleaseRecord(n, i, refused), m.records, m)
  IN IF left.records # <<>> THEN left
     ELSE [left EXCEPT !.region = FALSE, !.alias = Empty.alias, !.rw = {}, !.stray = {},
                       !.orphan = @ \/ left.stray # {}]

(* Mutant: the backing goes although aliases are left.                     *)
ReleaseSHMSegmentAlways(m, refused, fault) ==
  [ReleaseMemoryRegion(m, refused) EXCEPT !.shm = "none", !.mirror = FALSE]

(* ReleaseSHMSegment: the backing is kept while an alias is recorded.      *)
ReleaseSHMSegment(m, refused, fault) ==
  LET left == ReleaseMemoryRegion(m, refused)
  IN IF left.records # <<>> THEN left
     ELSE [left EXCEPT !.shm = "none", !.mirror = FALSE,
                       !.orphan = @ \/ (left.mirror /\ fault = "canonical_unmap")]

(* GrabSHMSegment when its ReleaseSHMSegment left nothing: aligned memory  *)
(* with a canonical alias where fastmem can be had, plain pages otherwise; *)
(* shm = "none" means that it throws.                                      *)
AllocateSegment(m, fast, fault) ==
  IF fault = "alloc" THEN m
  ELSE IF ~fast \/ fault = "aligned" THEN [m EXCEPT !.shm = "pages"]
  ELSE [m EXCEPT !.shm = "aligned", !.mirror = fault \notin {"canonical", "stuck"},
                 !.orphan = @ \/ fault = "stuck"]
=============================================================================
