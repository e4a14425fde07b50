----------------------------- MODULE MemoryMap ------------------------------
(***************************************************************************)
(* The fastmem views of the emulated address space (Core/HW/Memmap.cpp)    *)
(* over the arena of MemArena, from the start of a game's memory to its    *)
(* end, game after game.  The reserved range holds two views: the physical *)
(* addresses first, then the logical ones, which follow the DBATs and the  *)
(* page table of the guest.                                                *)
(***************************************************************************)
EXTENDS MemArena

CONSTANTS
  Regions,        \* m_physical_regions in order: [physical, size]
  ViewSize,       \* pages of a view
  LogicalPages,   \* logical pages the guest maps, from 0 on
  Tables,         \* DBAT tables of the guest: logical pages to backed pages or NONE
  TablePages,     \* physical pages in the guest's page table
  MaxFaults,      \* bound: refusals in a behaviour
  MaxRecords      \* bound: aliases the arena remembers

VARIABLES
  arena,          \* m_arena, with the kernel's aliases
  phase,          \* "off", "ram", "game", "end"
  machine,        \* [requested, arena, readOnly]: the setting and what the probe found
  fastmem,        \* m_is_fastmem_arena_initialized
  active,         \* s_arena_active
  dbat,           \* m_dbat_table of the MMU: the physical page of a logical one, or NONE
  pages,          \* page table entries of the guest with R set: [physical, writeable], or NoPage
  dbatEntries,    \* m_dbat_mapped_entries
  pageEntries,    \* m_page_table_mapped_entries
  lookup,         \* m_logical_page_mappings
  faults,         \* refusals so far
  kept            \* an unmap was refused since the arena was set up

mapVars == <<dbat, pages, dbatEntries, pageEntries, lookup>>
vars == <<arena, phase, machine, fastmem, active, mapVars, faults, kept>>

\* Memory::Init lays the regions out one after the other.
Position(k) == FoldLeft(LAMBDA n, r : n + r.size, 0, SubSeq(Regions, 1, k - 1))

RegionPages(k) == Regions[k].physical .. Regions[k].physical + Regions[k].size - 1

Backed == UNION {RegionPages(k) : k \in DOMAIN Regions}

\* Where a backed physical page is in the segment.
Offset(p) == LET k == CHOOSE j \in DOMAIN Regions : p \in RegionPages(j)
             IN Position(k) + p - Regions[k].physical

NoTable == [l \in LogicalPages |-> NONE]

NoPage == [physical |-> NONE, writeable |-> FALSE]
NoPages == [l \in LogicalPages |-> NoPage]

Supported == machine.requested /\ machine.arena
ReadOnlySupported == Supported /\ machine.readOnly

ASSUME GuestAssumption ==
  Tables \subseteq [LogicalPages -> Backed \union {NONE}] /\ TablePages \subseteq Backed

\* The regions lie in the first view, and no two of them touch (Memmap.cpp:120-127).
ASSUME LayoutAssumption ==
  /\ Backed \subseteq ArenaPages \intersect 0 .. ViewSize - 1
  /\ {ViewSize + l : l \in LogicalPages} \subseteq ArenaPages
  /\ \A j, k \in DOMAIN Regions : \A p \in RegionPages(j) :
       {p, p + 1} \intersect RegionPages(k) # {} => j = k

Init ==
  /\ arena = Empty
  /\ phase = "off"
  /\ machine \in [requested : BOOLEAN, arena : BOOLEAN, readOnly : BOOLEAN]
  /\ machine.readOnly => machine.arena
  /\ fastmem = FALSE /\ active = FALSE
  /\ dbat = NoTable /\ pages = NoPages /\ lookup = NoTable
  /\ dbatEntries = {} /\ pageEntries = {}
  /\ faults = 0 /\ kept = FALSE

\* n calls are refused.
Refuse(n) == faults + n <= MaxFaults /\ faults' = faults + n

\* The addresses at which an unmap is refused.
RefusedIn(bases) ==
  {S \in SUBSET bases : Cardinality(S) <= MaxFaults - faults /\ (S # {} => "unmap" \in Faults)}

RecordBases == {arena.records[i].base : i \in DOMAIN arena.records}

-----------------------------------------------------------------------------
(* ApplySettings, between games.                                           *)
ApplySettings ==
  /\ phase = "off"
  /\ \E requested \in BOOLEAN :
       /\ machine' = [machine EXCEPT !.requested = requested]
       /\ active' = (active /\ requested)
  /\ UNCHANGED <<arena, phase, fastmem, mapVars, faults, kept>>

(* MemoryManager::Init with MemArena::GrabSHMSegment: what an earlier game *)
(* left is released first, or nothing is allocated and it throws.          *)
MemoryInit ==
  /\ phase = "off"
  /\ \E refused \in RefusedIn(RecordBases),
        fault \in {"none"} \union (Faults \intersect {"alloc", "aligned", "canonical", "stuck",
                                                       "canonical_unmap"}) :
       LET left == ReleaseSHMSegment(arena, refused, fault)
           m == IF left.shm = "none" THEN AllocateSegment(left, Supported, fault) ELSE left
       IN /\ Refuse(Cardinality(refused) + IF fault = "none" THEN 0 ELSE 1)
          /\ arena' = m
          /\ phase' = IF left.shm = "none" /\ m.shm # "none" THEN "ram" ELSE "off"
          /\ kept' = (left.records # <<>>)
  /\ active' = FALSE
  /\ UNCHANGED <<machine, fastmem, mapVars>>

\* The fastmem views of the physical regions, in order; a failure ends the attempt.
PhysicalViews ==
  [k \in DOMAIN Regions |->
     [base |-> Regions[k].physical, offset |-> Position(k), size |-> Regions[k].size]]

(* PowerPCManager::Init resets the MMU's tables; then JitBase's and        *)
(* MemoryManager's InitFastmemArena: all the regions are aliased or the    *)
(* range is released.                                                      *)
InitFastmemArena ==
  /\ phase = "ram" /\ phase' = "game"
  /\ \E fault \in {"none"} \union (Faults \intersect {"reserve", "map", "later", "stuck"}),
        at \in DOMAIN Regions, refused \in RefusedIn({Regions[k].physical : k \in DOMAIN Regions}) :
       LET reserved == ReserveMemoryRegion(arena, fault)
           Map(m, k) == MapInMemoryRegion(m, PhysicalViews[k], TRUE, ReadOnlySupported,
                                          IF k = at THEN fault ELSE "none")
           tried == IF fault \in {"map", "later", "stuck"} THEN at ELSE Len(Regions)
           mapped == FoldLeft(Map, reserved, [k \in 1 .. tried |-> k])
           ok == Supported /\ reserved.region /\ Len(mapped.records) = Len(Regions)
       IN /\ fault \in {"none", "reserve"} => at = 1
          /\ refused # {} => Supported /\ reserved.region /\ ~ok
          /\ Refuse(Cardinality(refused) + IF fault = "none" THEN 0 ELSE 1)
          /\ arena' = IF ~Supported THEN arena
                      ELSE IF ~reserved.region THEN reserved
                      ELSE IF ok THEN mapped ELSE ReleaseMemoryRegion(mapped, refused)
          /\ fastmem' = ok /\ active' = ok
          /\ kept' = (kept \/ refused # {})
  /\ dbat' = NoTable /\ pages' = NoPages /\ lookup' = NoTable
  /\ UNCHANGED <<machine, dbatEntries, pageEntries>>

-----------------------------------------------------------------------------
(* The maximal runs of consecutive logical pages of a DBAT table that are  *)
(* consecutive in a region, in the order of the table.                     *)
RunsOf(table) ==
  LET Joined(l) == l \in LogicalPages /\ l - 1 \in LogicalPages /\ table[l] # NONE
                     /\ table[l - 1] # NONE /\ table[l] = table[l - 1] + 1
      Starts == {l \in LogicalPages : table[l] # NONE /\ ~Joined(l)}
      Run(l) == LET n == CHOOSE k \in 1 .. Cardinality(LogicalPages) :
                           ~Joined(l + k) /\ \A i \in 1 .. k - 1 : Joined(l + i)
                IN [base |-> ViewSize + l, offset |-> Offset(table[l]), size |-> n]
  IN SetToSortSeq({Run(l) : l \in Starts}, LAMBDA r, q : r.base < q.base)

ViewOf(r) == [base |-> r.base, size |-> r.size]

Entries == dbatEntries \union pageEntries

Bases(views) == {v.base : v \in views}

(* UpdateDBATMappings: everything logical is unmapped, then the runs of    *)
(* the new table are mapped; a run that cannot be mapped is left to the    *)
(* slow path.                                                              *)
UpdateDBATMappings ==
  /\ phase = "game"
  /\ \E table \in Tables, refused \in RefusedIn(Bases(Entries)),
        fault \in {"none"} \union (Faults \intersect {"map", "later", "stuck"}) :
     \E at \in DOMAIN RunsOf(table) \union {0} :
       LET cleared == UnmapViews(UnmapViews(arena, dbatEntries, refused), pageEntries, refused)
           runs == RunsOf(table)
           Step(s, i) ==
             LET m == MapInMemoryRegion(s.m, runs[i], TRUE, ReadOnlySupported,
                                        IF i = at THEN fault ELSE "none")
             IN [m |-> m, done |-> IF Returned(s.m, m) THEN s.done \union {i} ELSE s.done]
           mapped == IF fastmem
                     THEN FoldLeft(Step, [m |-> cleared, done |-> {}], [i \in DOMAIN runs |-> i])
                     ELSE [m |-> cleared, done |-> DOMAIN runs]
           views == {ViewOf(runs[i]) : i \in mapped.done}
       IN /\ (fault = "none") = (at = 0)
          /\ fault # "none" => fastmem
          /\ Refuse(Cardinality(refused) + IF fault = "none" THEN 0 ELSE 1)
          /\ Len(mapped.m.records) <= MaxRecords
          /\ arena' = mapped.m
          /\ dbat' = table
          /\ dbatEntries' = IF fastmem THEN views ELSE {}
          /\ lookup' = [l \in LogicalPages |->
                          IF \E v \in views : ViewSize + l \in PagesOf(v) THEN table[l] ELSE NONE]
          /\ kept' = (kept \/ refused # {})
  /\ pages' = NoPages /\ pageEntries' = {}
  /\ UNCHANGED <<phase, machine, fastmem, active>>

(* AddPageTableMapping, which the MMU calls for a page outside the DBATs   *)
(* when its R or C bit is set: a known page changes its protection only.   *)
AddPageTableMapping ==
  /\ phase = "game" /\ fastmem /\ ReadOnlySupported
  /\ \E l \in LogicalPages, p \in TablePages, writeable \in BOOLEAN,
        fault \in {"none"} \union (Faults \intersect {"map", "later", "stuck"}) :
       LET r == [base |-> ViewSize + l, offset |-> Offset(p), size |-> 1]
           m == IF ViewOf(r) \in pageEntries
                THEN ChangeMappingProtection(arena, r, writeable, TRUE, fault # "none")
                ELSE MapInMemoryRegion(arena, r, writeable, TRUE, fault)
       IN /\ dbat[l] = NONE
          /\ pages[l] # NoPage => pages[l] = [physical |-> p, writeable |-> FALSE] /\ writeable
          /\ Refuse(IF fault = "none" THEN 0 ELSE 1)
          /\ Len(m.records) <= MaxRecords
          /\ arena' = m
          /\ pages' = [pages EXCEPT ![l] = [physical |-> p, writeable |-> writeable]]
          /\ pageEntries' = IF Returned(arena, m) THEN pageEntries \union {ViewOf(r)}
                            ELSE pageEntries
  /\ UNCHANGED <<phase, machine, fastmem, active, dbat, dbatEntries, lookup, kept>>

(* RemovePageTableMappings and RemoveAllPageTableMappings.                 *)
RemovePageTableMappings ==
  /\ phase = "game"
  /\ \E removed \in SUBSET LogicalPages \ {{}} :
       LET views == {v \in pageEntries : v.base - ViewSize \in removed}
       IN /\ \A l \in removed : pages[l] # NoPage
          /\ \E refused \in RefusedIn(Bases(views)) :
               /\ arena' = UnmapViews(arena, views, refused)
               /\ Refuse(Cardinality(refused))
               /\ kept' = (kept \/ refused # {})
          /\ pageEntries' = pageEntries \ views
          /\ pages' = [l \in LogicalPages |-> IF l \in removed THEN NoPage ELSE pages[l]]
  /\ UNCHANGED <<phase, machine, fastmem, active, dbat, dbatEntries, lookup>>

-----------------------------------------------------------------------------
(* The JIT's Shutdown with ShutdownFastmemArena.                           *)
ShutdownFastmemArena ==
  /\ phase = "game" /\ phase' = "end"
  /\ \E once \in RefusedIn(RecordBases), again \in RefusedIn(RecordBases) :
       LET physical == {ViewOf(PhysicalViews[k]) : k \in DOMAIN Regions}
           unmapped == UnmapViews(UnmapViews(UnmapViews(arena, physical, once), dbatEntries, once),
                                  pageEntries, once)
       IN /\ ~fastmem => once = {} /\ again = {}
          /\ Refuse(Cardinality(once) + Cardinality(again))
          /\ arena' = IF fastmem THEN ReleaseMemoryRegion(unmapped, again) ELSE arena
          /\ kept' = (kept \/ once # {} \/ again # {})
  /\ IF fastmem THEN dbatEntries' = {} /\ pageEntries' = {} ELSE UNCHANGED <<dbatEntries, pageEntries>>
  /\ active' = (active /\ ~fastmem)
  /\ fastmem' = FALSE
  /\ UNCHANGED <<machine, dbat, pages, lookup>>

(* MemoryManager::Shutdown.                                                *)
MemoryShutdown ==
  /\ phase = "end" /\ phase' = "off"
  /\ \E refused \in RefusedIn(RecordBases),
        fault \in {"none"} \union (Faults \intersect {"canonical_unmap"}) :
       /\ arena' = ReleaseSHMSegment(arena, refused, fault)
       /\ Refuse(Cardinality(refused) + IF fault = "none" THEN 0 ELSE 1)
       /\ kept' = (arena'.records # <<>>)
  /\ active' = FALSE
  /\ UNCHANGED <<machine, fastmem, mapVars>>

Next ==
  \/ ApplySettings \/ MemoryInit \/ InitFastmemArena
  \/ UpdateDBATMappings \/ AddPageTableMapping \/ RemovePageTableMappings
  \/ ShutdownFastmemArena \/ MemoryShutdown

Spec == Init /\ [][Next]_vars

-----------------------------------------------------------------------------
(* Properties.                                                             *)

\* The physical page the guest's tables give a logical page.
Translation(l) == IF dbat[l] # NONE THEN dbat[l] ELSE pages[l].physical

(* The aliases the arena answers for: an alias the kernel shows in the     *)
(* reserved range has a record with its exact source, or its own rollback  *)
(* was refused; and while there is a record, also one that no unmap        *)
(* matches any more, the backing buffer, its canonical alias and the       *)
(* reservation are kept, from game to game (MemArena.cpp:222-231, 362).    *)
RecordedAliasesKeepBacking ==
  /\ \A p \in ArenaPages : arena.alias[p] # NONE =>
       \/ p \in arena.stray
       \/ \E i \in DOMAIN arena.records : LET r == arena.records[i]
            IN p \in PagesOf(r) /\ arena.alias[p] = r.offset + p - r.base
  /\ arena.records # <<>> => arena.shm = "aligned" /\ arena.mirror /\ arena.region

(* The same for every alias, which the code does not keep to (no run;      *)
(* README, section 5): the backing is not freed while the kernel still     *)
(* has an alias of it, wherever that comes from: "Retain the canonical     *)
(* mapping and backing allocation rather than freeing memory which the     *)
(* kernel still aliases" (MemArena.cpp:225).                               *)
BackingOutlivesAliases ==
  arena.orphan \/ (\E p \in ArenaPages : arena.alias[p] # NONE) => arena.shm # "none"

(* What the JIT reaches by a plain load at a logical address is what the   *)
(* guest's tables say, and it can write only what they let it write,       *)
(* whatever was refused, for every page the memory manager believes to be  *)
(* mapped; as long as no unmap has been refused no other page is           *)
(* reachable, except one whose rollback was refused.  And the fault        *)
(* handler recovers from the accesses to the other pages exactly while     *)
(* the views are there (Memmap.cpp:271-461).                               *)
FastmemFollowsTables ==
  /\ fastmem = active
  /\ fastmem => \A l \in LogicalPages :
       LET a == ViewSize + l
           known == \E v \in Entries : a \in PagesOf(v)
       IN /\ known => Translation(l) # NONE /\ arena.alias[a] = Offset(Translation(l))
          /\ known /\ a \in arena.rw => dbat[l] # NONE \/ pages[l].writeable
          /\ ~known /\ ~kept /\ a \notin arena.stray => arena.alias[a] = NONE
          /\ lookup[l] \in {NONE, dbat[l]}
=============================================================================
