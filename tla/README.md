# Phocoena: verification project

Phocoena is a port of the Dolphin GameCube emulator to the Nintendo Switch
(Horizon OS).  The code that is its own lives in
`upstream/dolphin/Source/Core/Horizon/` and in changes to a few upstream files;
paths below are relative to `upstream/dolphin/Source/Core/`.  This project keeps
TLA+ models of the parts whose correctness rests on interleavings, failures and
long sequences of calls, the TLC runs that check them, and TLAPS proofs.

## 1. Inventory

| Part | State | Operations | Hard because | Correct when |
|---|---|---|---|---|
| Command FIFO: `VideoCommon/Fifo.cpp`, `FifoBatch.h`, `CommandProcessor.cpp` | read and write pointer, distance, breakpoint, control bits, interrupt flags, each an atomic of its own | CPU thread: gather pipe bursts, register writes, interrupt events; GPU thread: `RunGpuLoop` | two threads without a lock, relaxed loads, batches of several blocks (this port's change) | every block is decoded once, in order, after it was published and before an enabled breakpoint; the interrupt line settles; nobody waits for ever |
| `Common/BlockingLoop.h` | a four-valued state, stop and shutdown flags, two events, a mutex | `Prepare`, `Run`, `Wakeup`, `Wait`, `WaitYield`, `AllowSleep`, `Stop` | lock-free handshake, sleep against wakeup | no wakeup is lost; `Wait` and `Stop` return, and mean what they say |
| JIT code memory: `Horizon/JitMemory.cpp` | registry of CodeMemory objects, page tables of the pools, counters | allocate, free, translate RX to RW, switch the policy | every kernel or heap call may fail in the middle; page tables, lists and counters must agree | live code never overlaps, stays reachable and releasable, nothing leaks |
| `VideoCommon/AsyncRequests.cpp` | queue of requests from the CPU thread | push, push and wait, pull | callers wait for the GPU thread | each request runs once, in order; waiting callers are released |
| RAM arena and fastmem views: `Horizon/MemArena.cpp`, `Fastmem.cpp`, `MemTools.cpp`, `Core/HW/Memmap.cpp` | backing, canonical alias, reservation, list of aliases; the views of the DBATs and page tables | grab, release, map, unmap, update | partial failure of kernel calls | the backing is never freed under an alias; the JIT reaches what the guest's tables say |
| Clock session: `Horizon/ClockPolicy.cpp`, `ClockControl.cpp` | previous and requested overrides per domain | start, stop, roll back | an external manager writes the same overrides | what was changed is restored, what others changed is left alone |
| Audio: `Horizon/Audio.cpp` | device state, buffers queued, run and stop flags | worker thread, `SetRunning`, destructor | thread against caller, failed appends | no buffer is freed while queued; stopping ends |
| Console and display: `Horizon/Console.cpp`, `Display.cpp` | the owner of the one native window | suspend, resume, shut down | failure during a handoff | at most one owner |
| `Horizon/FileReplace.h` | a file, its replacement, a backup | `ReplaceFile` | power loss between renames | one complete version always survives |
| Support diagnostics: `Horizon/SupportDiagnostics.cpp` | marker, summary, checkpoint and bundles on the SD card | begin, telemetry, end, recover, bundle | crashes between writes and renames | an interrupted session is recovered; no unsent bundle is lost |
| Vulkan command buffers: `VideoBackends/Vulkan/CommandBufferManager.cpp`, `VKGfx.cpp` | ring of command buffers, fence counters, frame slots, submission thread, present tracker | record, submit, wait, reuse, acquire, present | reuse against a worker and the GPU, acquire against a late present | nothing is reset, reused or destroyed before its fence; acquire and present do not overlap |
| Vulkan stream buffers and queries: `VKStreamBuffer.cpp`, `VKVertexManager.cpp`, `VKPerfQuery.cpp` | offsets, tracked fences; a ring of queries | reserve, commit; open, close, flush | decide from fence counters alone what the GPU still uses | nothing the GPU reads is overwritten; no query is lost |
| Boot and front end: `Horizon/Main.cpp`, `Safety.cpp` | what the session has acquired | `BootGame`, menu | early exits | everything acquired is given back |
| Telemetry, platform glue, upstream core | counters, thin adapters, the emulator itself | | | no protocol of their own, or not this port's code |

How they meet: the guest CPU thread writes gather blocks, calls `RunGpu`, which
wakes the `BlockingLoop` whose payload is the FIFO loop; that loop also pulls
`AsyncRequests` and decodes into the video backend, which submits Vulkan command
buffers.  Emitters of the CPU thread and of the vertex loaders take their memory
from the JIT registry.  `BootGame` starts the clock session, the support session
and the display handoff around an emulation run, and undoes them in reverse.

The hazards of each part, with the line where they bite and the properties that
would catch them, are listed in `PROJECT.json`.

## 2. Plan

Done: FifoBatch, CommandStream, Fifo, BlockingLoop, JitMemory; FenceClock with
CommandBuffers below it and StreamBuffer and PerfQuery above it; ClockSession,
SupportSession and SupportBundle, composed by BootSession; MemArena below MemoryMap;
the proofs of the planner, Fifo, BlockingLoop, BootSession with its three parts, CommandBuffers and
its refinement, the clients of the fence clock, and JitMemory.  Next, in this order:

1. `AudioOutput`; `AsyncRequests`, composed with BlockingLoop.
2. The ticks of sync_gpu; `FileReplace`.

Abstract specifications: CommandStream and FenceClock are stated and implemented; a
set of owned ranges would serve the two memory managers.

## 3. Modules

### FifoBatch, MCFifoBatch

`FifoBatch` is the arithmetic of `FifoBatch.h`: `NormalizeFifoBatchBlocks`,
`EffectiveFifoBatchBlocks` and `PlanFifoBatch`, in bytes.  `MCFifoBatch` drains a ring
with it and compares every plan with the one-block loop that batching replaces.

### CommandStream

The abstract specification: a sequence of published blocks, a prefix of which is
decoded, never beyond a limit while there is one.

### Fifo, MCFifo

The two threads at the granularity of their accesses to shared registers.  The
unit of addresses and distances is the gather block: every register write masks
the bits below it.  A block is its number in the order of the guest's writes, so
the decoded sequence shows loss, duplication and reordering.

| Code | Model |
|---|---|
| `GatherPipeBursted` up to the fetch_add; the fetch_add | `GatherPipeBursted`; `PublishDistance` |
| breakpoint registers | `WriteBreakpoint`: the guest puts a disabled breakpoint at its write pointer, and the next control register write enables it; `MoveBreakpoint`: it moves an enabled breakpoint forward, over blocks that may already be published. A register write is one step: the HI and LO halves are not told apart |
| control register write: GPReadEnable is stored first, then the rest | `WriteControl`, `SetCpControlRegister` |
| CPInterrupt event on the CPU thread | `UpdateInterrupts` |
| the guest sets the FIFO up again when it takes it for empty | `RelinkFifo`, with `RelinkWhen` as the guest's test |
| one payload run of `RunGpuLoop` | `StartPayload` ... `StoreSafeReadPointer`, one action per access |
| `SetCPStatusFromGPU` | `SetCPStatusFromGPU`, `CompareInterrupt`, `SetInterruptWaiting`, `UpdateInterruptsFromVideoBackend`: the flag is raised before the event exists |

`CommandEnds` says which blocks end on a command: only then does
SafeCPReadPointer, from which the guest's distance is computed, follow.
`RelaxedLoads` lets the loads of one iteration happen in any order, as AArch64
allows for relaxed atomics without a dependency.  Wakeups are abstracted: the
payload may start at any time, as it does every 100 ms.  `FlowLimit` is the
guest's own flow control, without which the code's overflow assertion fails.
Both watermark flags are computed in one step, and `UpdateInterrupts` is one step.

### BlockingLoop, MCBlockingLoop

One worker, which calls `Run`, and a set of clients that publish work and call
`Wakeup`, `Wait`, `AllowSleep` and `Stop`.  Every load, exchange, decrement, event
and mutex operation is a step.  `Common::Event` is an auto-reset flag.  A payload
run covers the work that was published when it started; `WaitYield` differs from
`Wait` by its timeout, which only `Stop(BlockAndGiveUp)` uses to give up.  The
worker of an earlier run has returned before `Run` is called again.  MCBlockingLoop
adds the symmetry of the clients, used for invariants only.  `program` fixes at
the start what the clients do: publish work, stop, or both; anyone may wait.

### JitMemory, MCJitMemory

The registry, one action per public operation, since all of them run under
`region_mutex`.  Regions, page tables and allocation lists are those of the code;
addresses are integers, and the kernel maps object k at two fixed windows that
touch, so that off-by-one errors at their ends show.  `Faults` selects what may
fail: jitCreate, the type of the memory, jitClose, the page table, the allocation
list.  Callers pass any address and any of `Sizes`, except an address inside a
pool that has never held an allocation: nobody was ever given one.  `live` is the
callers' view.  The vector of regions is an array of MAX_JIT_REGIONS entries: the
code reuses the first unused entry and appends only when there is none, which is
the same.  Counters that only telemetry reads are left out.  `RegistryIsSound` is
the registry's own consistency: types, counters that agree with the kernel's
objects, every object owned by one entry and serving live code, one policy, and
owners that fit their 16 bits.

### FenceClock, CommandBuffers, MCCommandBuffers

`FenceClock` is what the command buffer manager promises to the code that records
commands: counters that are submitted, executed in order, and known to be
completed only after that, with at most NUM_COMMAND_BUFFERS in use.
`CommandBuffers` is the detailed model, three processes:

| Code | Model |
|---|---|
| `SubmitCommandBuffer` on the recording thread | `Submit` or a caller, then `SubmitHere`, `PresentHere`, `Account`, `WaitForFrameUser`, `ResetDescriptorPools`, `WaitForReuse`, `BeginCommandBuffer`, one action per blocking point; `Op` is its argument list |
| `WaitForCommandBufferCompletion`, from four callers | `CallWait`, `WaitForWorkerThreadIdle`, `FenceSignalled`; `vt.ret` is where it returns to |
| the five `Defer...Destruction` | `DeferDestruction`: the object is named by the counter it was deferred under |
| `BindBackbuffer`, `PresentBackbuffer` | `BindBackbuffer` ... `ReacquireFailed`, `PresentBackbuffer` |
| the worker's function and the queue's pop | `WorkerBegin` ... `WorkerPop` |
| the GPU (external) | `GpuFinishes`: submissions finish in order and signal their fence |

`config` chooses threaded submission, two or three frames in flight, and the
acquire mode (drained, or guarded by the present tracker).  `stale` records that a
present found the swap chain out of date, until it is rebuilt: the model's own
knowledge, against which the published result is judged.  Swap chain errors are
one error.  Waiting for the buffer that is being submitted (wait_for_completion)
skips that buffer's own cleanup list, which then runs one lap later: late, not
unsafe.

### FenceClient, StreamBuffer, PerfQuery, FenceClients, MCFenceClients

The users of the clock, in terms of FenceClock alone: `FenceClient` makes
ExecuteCommandBuffer one step and lets other code of the thread execute and wait
in between.  `StreamBuffer` is the ring of bytes with its tracked fences and the
callers in VKVertexManager: those that reserve again after executing the command
buffer ("retry"), and UploadUtilityUniforms ("utility"), which does not.  `usedBy`
remembers the last command buffer that reads each byte.  `PerfQuery` is the ring of
occlusion queries; results are left out, which queries are read is kept.
`FenceClients` runs one of the two at a time, since they share only the clock.

### ClockSession, SupportSession, SupportBundle, BootSession, MCBootSession

`ClockSession`: Start, Stop and FailAndRelease over either backend.  Any call may
fail, a failed write may have been applied, and `ManagerWrites` is another clock
manager.  `ours` is the truth about who wrote an override last; the session only
compares values.  The choice among supported rates is one `Target`.

`SupportSession`: the card as a function from files to contents.  `WriteTextAtomic`
is two steps, because it removes the old file before it renames the new one.
`begun` are the sessions BeginSupportSession returned true for, `excused` those
whose final summary or marker removal failed.  `SupportBundle`: the archive, the
renames, the publication, the roll back and the marks, each step with its failure.

`BootSession` composes them with the console and the native window in the order of
`Run` and `BootGame`.  `Crash` ends the process at any step; only the card and the
overrides survive.  `MaxDisturbances` bounds failures, crashes and interference
together.  Left out: a console that cannot be initialised at launch, an unreadable
marker, and the superseded session of BeginSupportSession, which no caller reaches.

### MemArena, MemoryMap, MCMemoryMap

`MemArena` is the class of `Horizon/MemArena.cpp` as operators from the arena's state
to its next state, together with the kernel's side: `alias` is what each page of the
reserved range shows, `rw` which pages can be written, `records` is
m_fastmem_mappings.  A mapping is refused where something is mapped already, and an
unmapping wants the exact source, as the kernel does.  `MemoryMap` calls it from the
memory manager, one action per operation, all on one thread:

| Code | Model |
|---|---|
| `SetPpcFastmemRequested` between games | `ApplySettings`; what the probe of the kernel found is chosen in `Init` |
| `MemoryManager::Init`, `GrabSHMSegment` | `MemoryInit`: a throw leaves phase "off" |
| `InitFastmemArena` and its caller `JitBase::InitFastmemArena` | `InitFastmemArena`; PowerPCManager::Init has reset the tables before |
| `UpdateDBATMappings` | `UpdateDBATMappings`, for any of `Tables` |
| `AddPageTableMapping`, for a page whose R or C bit is set | `AddPageTableMapping`; the JIT wants page table mappings only where read-only mappings work |
| `RemovePageTableMappings`, `RemoveAllPageTableMappings` | `RemovePageTableMappings` |
| `ShutdownFastmemArena`; `Shutdown` | `ShutdownFastmemArena`; `MemoryShutdown` |

`Faults` selects what the kernel or the heap refuses, `MaxFaults` how often in a
behaviour.  A refused rollback leaves its pages in `stray`: aliases without a record.
When the reservation is given up they, like a canonical alias that could not be
unmapped, become an `orphan`, which nothing names; the next range is reserved where
nothing is mapped.  `kept` says that an unmap was refused and its alias may be left.  The unit
is a page, for DBAT and page table mappings alike; host pages have the size of guest
pages on Horizon, so the code for larger ones is left out.  `MaxRecords` bounds the
list of records, which grows without bound after a refused unmap (see Findings).

## 4. Runs

| Run | Shows | Bounds |
|---|---|---|
| fifo_batch | a batch is a contiguous run of one-block iterations and never shorter than it could be | rings of 2, 5 and 11 blocks, block sizes 1 and 4, limits 1, 5, 9, breakpoints on and off the ring |
| fifo_stream | accounting, breakpoint, interrupt handshake, re-initialisation by a guest that trusts FIFO_RW_DISTANCE, refinement of CommandStream | ring of 7, nine blocks: it wraps, and batches end at the wrap, at the breakpoint and at the distance |
| fifo_live | a quiet guest is drained, the interrupt line settles | ring of 3, breakpoint and both watermark interrupts |
| fifo_relaxed (violated) | reordered loads let a batch cross the breakpoint | ring of 4 |
| jit_memory | private, reachable, releasable code; a registry that is consistent in itself and with the kernel | 3 regions and objects, pools of 3 pages of 2 bytes, 3 live allocations, sizes 0, 1, 4, 5 and SIZE_MAX, all faults |
| loop_safety | no lost wakeup, nobody sleeps over an event, Stop(Block) is a barrier | two clients, two items of work |
| loop_live | work is run, Wait, Stop and the destructor return | two clients, which either publish work and wait or stop and wait, two items of work, all stop modes; without the 100 ms timeout, which would hide lost wakeups |
| command_buffers | safe reuse of slots, pools and deferred objects; one user of the window; failures seen in time; every operation returns; refinement of FenceClock | 3 buffers, 2 or 3 frames, five counters: the ring and the frames come round; the code has 8 buffers |
| fence_clients | memory that is written is idle, a second attempt succeeds, queries are exact, a flush is complete | buffer of 6 bytes with requests of 1, 2 (aligned) and 4; 4 queries; five counters |
| stream_utility (violated) | UploadUtilityUniforms commits behind the end of the buffer | the same, six counters |
| boot_session | clocks handed back, sessions accounted for, bundles delivered, the window's owner | two sessions, two bundles, two disturbances (three pass as well: 3.9 million states) |
| memory_map | the RAM outlives its recorded aliases, and fastmem follows the guest's tables, whatever is refused | regions of two and one pages with a hole between them, two logical pages, four DBAT tables, two pages in page tables, two refusals of any kind, six records |

Two clients are enough for the interleavings of the loop: its protocol is between
the worker and any one client, with a second one to interfere.  Three pages allow
fragmentation, two pools allow a choice, three regions leave room for a dedicated
object or a quarantined one beside them.  SafeCPReadPointer moves only when a
batch ends on a command boundary, and the visible distance is computed modulo the
ring: the ring of seven holds the flow limit and the longest lag that the command
boundaries of the run allow, as a ring of megabytes does for real command lists.
A loop that is stopped and prepared again for ever can keep a Wait() that never
sees it stopped, so Wait is claimed unless the loop is being prepared again.  Three command buffers are the
fewest for which the cleanup loop passes over a slot in the middle; two
disturbances are a failure followed by a crash in the recovery from it.  Two refusals are an unmap that
fails and a mapping or release that fails because of it or after it; the four tables
map a page alone, the same page in a run, and other pages at the same address.
That a later game releases what an earlier one had to keep takes three refusals of the same
alias; with three, of unmaps and the canonical unmap only, both invariants hold as well
(356 thousand states).

Deadlock checking is off in fifo_batch, whose ring is drained and stays empty, and
in command_buffers and fence_clients, which stop at a shutdown or at the last
counter.

Fairness.  Both threads are scheduled by the operating system: weak fairness of
the GPU thread's next step, of the worker, and of the step a client or the CPU
thread is in the middle of.  CoreTiming runs a due event at the end of the time
slice whatever the guest does: strong fairness of `UpdateInterrupts`.  A mutex is
eventually granted: strong fairness of `WaitLock`.  What the guest program or a
client decides to call has no fairness.  In CommandBuffers the worker thread, the
GPU and an operation that was started go on (weak fairness each); which operation
is started is free.  A guest that toggles watermark enables
for ever may starve the GPU loop, so that draining is claimed for a guest that
goes quiet.

## 5. Findings

* fifo_relaxed: `Fifo.cpp` 333 and 344-345 are relaxed and independent.  A load
  of the breakpoint registers that is performed before the load of the distance
  plans a batch across a breakpoint that was enabled before those blocks were
  published, although `FifoBatch.h` 46 promises the opposite.  With the loads in
  program order the property is proved.
* stream_utility: `VKVertexManager.cpp` 376 executes the command buffer when the
  uniform buffer is full and then writes and commits without a reservation, at an
  offset that may leave too little space; `VKStreamBuffer.cpp` 156 asserts the
  opposite.  Every other caller reserves again.

Noted on the way, without a run of their own:

* With `RelinkWhen = "read_idle"` a guest that takes ReadIdle for an empty FIFO can
  re-initialise it between the store of CPReadPointer (`Fifo.cpp` 363) and the
  fetch_sub of the distance, which then wraps below zero.  fifo_stream uses a guest
  that trusts FIFO_RW_DISTANCE.
* With `StopDuringPrepare = TRUE` a Stop that overlaps another thread's Prepare is
  erased, since `Prepare` clears `m_shutdown` after `m_stopped`.
* A crash between the renames to SENT and the publication leaves every bundle
  marked as sent, and so does a failed generation whose roll back fails: its errors
  are ignored (`rollback_ec`, `SupportDiagnostics.cpp` 1413 and 1433).  `torn` marks
  both, and NewestBundleIsUnsent excuses both.  The comment at 1235 speaks of a failed
  generation only.
* EndSupportSession removes the marker although the final summary may not have been
  written; such a session stays "running" (`excused`).  A crash after the final
  summary and before the removal turns a clean exit into an abnormal one.  A crash
  inside the marker's own WriteTextAtomic leaves a session that nobody recovers; it
  had not begun.
* A crash leaves raised clock overrides in place, and the next session takes them
  for the previous ones.  A foreign override written between the comparison and the
  restore (`ClockControl.cpp` 301), or equal to the requested rate, is overwritten.
* `MemArena.cpp` 239-246 logs that the canonical alias could not be unmapped, forgets it
  and frees the backing; the comment at 225 says "Retain the canonical mapping and
  backing allocation rather than freeing memory which the kernel still aliases."  A
  refused rollback (185, 354, 366) leaves an alias without a record and ends the same
  way.  `BackingOutlivesAliases` states the comment for every alias; as the invariant of
  MCMemoryMap.cfg TLC violates it, with "canonical_unmap" or with "stuck" as the only
  fault.  The code keeps to the comment for recorded aliases: that is
  RecordedAliasesKeepBacking, which memory_map checks with all these refusals.
* After one refused unmap a mapping of the same page is refused; the rollback of that
  mapping removes the earlier alias, whose record stays.  The next mapping succeeds and
  has a second record; `UnmapFromMemoryRegion` finds the stale one first, with another
  offset or size, and leaves the alias, so the list grows with every update.  The
  stale record can never be unmapped: the release at the end of the game keeps the
  backing, and every later `GrabSHMSegment` throws until the process ends.
* After a power loss between the renames of `FileReplace.h` the backup that is left
  makes every later replacement of the file fail.  Not modelled.

## 6. Proofs

The theorems hold for every value of the constants: any ring, batch size, flow
limit, set of control values, any number of clients and amount of work, any set of
clock rates and of session names, any ring of command buffers, any stream buffer and
query ring, any number of regions and size of a pool, under the named assumptions of
the modules.

FifoBatchProofs.  `PlanInv` says that the planner's registers are whole blocks inside
the ring; BlockFacts says what a plan is when it is counted in blocks: bounded by the
limit, the data, the ring's end and an enabled breakpoint ahead, one of which it
reaches.  The one-block loop is a recursive function; that it goes straight through a
batch is shown with a least counterexample.  Theorems: BatchIsRun, BatchIsFull.

FifoProofs.  `FifoInv` joins the types; the counts (decoded <= sent <= written and
the flow limit); DistanceAccounts; what the local variables of an iteration mean
at each program point; MemoryInv (the unread part of the ring holds the blocks in
order); FenceInv (where the breakpoint register points, relative to the blocks);
LoadedInv; and StreamInv (what was decoded is 1, 2, 3, ...).  LoadedInv is the
strengthening that NeverPastBreakpoint needs: a loaded distance ends before the
fence, or the loaded breakpoint is on the way, or the guest has since moved it.
Lemmas on the planner (BatchBounds, PlanFacts) bound a batch by the distance, the
ring end and the breakpoint; lemmas on the ring (RingFacts, RingMoves,
RingBreakpoint) relate addresses to block numbers.

`SafeInv` is about the pointer the guest sees.  SafeCPReadPointer follows only when a
batch ends on a command, so it may lag behind by whole commands; VisibleDistance is
computed modulo the ring and would lose a full round.  `CommandsFit` is the assumption
that excludes it: for some lag, with FlowLimit + lag < RingBlocks, there are within lag
blocks of any block as many boundaries in a row as a batch has blocks.  For single
blocks this says that a command ends every lag blocks; batches may jump over a lone
boundary.  SafeInv says that no such row between the pointer and what is decoded was
passed, which bounds the lag (LagBound).  fifo_stream satisfies CommandsFit with a lag
of 4 of the 4 it has room for; without the boundary at block 4 TLC finds a guest that
reads zero over unread blocks.  From it follows that a guest that starts over
at a distance of zero finds the FIFO empty (EmptyIsEmpty), so that RelinkFifo keeps
FifoInv.

Theorems: FifoTypeOK, DistanceIsExact, AssertionHolds, BreakpointIsRespected,
FifoImplementsStream, for loads in program order and a guest that is `Patient`: it
re-initialises the FIFO never, or at a distance of zero if CommandsFit;
GuestSeesEnough, if CommandsFit; OneInterruptUpdate, from an invariant of its own, for
every guest.

BlockingLoopProofs.  `LoopInv` joins the types, PrepareInv (who is in Prepare and
what it has reset), StateAtInv (which values the state may have at each place of
the worker) and CoverInv (which work the current or the next payload run covers).
DoneMeansCovered alone is not inductive: it needs to know that a state of
NEED_EXECUTION promises a run that has not started yet.  Theorems: LoopTypeOK,
NoLostWakeup, NoSleepingOverWork, NoLostDoneEvent; StopBarrier when nobody gives up
and no Stop overlaps a Prepare, the two cases in which it is false.

BootSessionProofs.  OverridesAreReturned (ClocksHandedBack) rests on `ClockInv`.
That every override of the session is still to be released or has failed to be
(OursIsAttempted) is not inductive alone: Release skips an override that it read as
somebody else's, so the reading must be true although other clock managers write
between the reading and the restore (ReadIsFaithful), which needs that the
session's own overrides have the target rate (OursIsTarget) and that no reading
survives from one session to the next (PhaseInv).  The assumption is that the
target and "no override" are among the rates.  TextOnlyToConsole
(DrawsOnlyToConsole) rests on `HandoffInv`: the console is closed between the two
handoffs, and it opens again only in a window that was found empty.

SupportProofs.  Accounted, Delivered and NewestUnsent rest on `SupportInv`.  A session
is accounted for when the menu is ready only if between two menus the marker on the
card names every session whose summary is not final, at each of the two steps of
WriteTextAtomic and after a crash at any of them; a bundle is delivered only if what
was marked is in an archive whose copy of the summary is the one on the card, which no
later step rewrites.  The assumption is that the sessions are finitely many and distinct from
the words for no session and for no file.

CommandBuffersProofs.  `BuffersInv` joins the types; the counters of the ring (the slots
hold consecutive counters, the current slot the newest); the queue (what is waiting for
the worker is exactly what was handed over and not submitted, in order); the fences (a
signalled fence belongs to an executed counter, and a fence counter that is known to be
completed was executed); the frames in flight; the present tracker.  SlotReuseIsSafe
alone is not inductive: that the wait for a slot waits for the right submission needs
the whole order of the ring, the worker and the GPU.  Theorems: BuffersTypeCorrect,
SlotReuse, DestroyedObject, ResetPool, WindowExclusive, FailureSeen, and
RingImplementsClock, the refinement of FenceClock, step by step.

FenceClientsProofs.  QueriesExact and FlushComplete rest on `QueryInv`: the outstanding
queries are one run of the ring in the order of their counters.  WrittenIdle and
SecondAttempt rest on `StreamInv`: the tracked fences are in the order of the buffer,
every byte a pending command buffer reads lies between the GPU's position and the
offset, and the last fence stands at the offset.  Their hypothesis is that "utility" is
not among the callers; stream_utility shows that it is necessary.

JitMemoryProofs.  `JitInv` says of each region that it is unused, dedicated to one live
allocation, quarantined, or a pool whose page table and allocation list describe each
other: the pages of an owner are one run that starts where its entry says, and a page
without an owner is in no entry.  The live set is the union of what the regions
describe, and the open objects are exactly those of the used entries.  CodeIsPrivate
alone is not inductive: AllocateInPool looks at the page table only and FreeJitMemory at
the list.  Assumptions: the range of size_t is a multiple of the page, and a mapping
fits the window the kernel gave it.  A part of it (ListFits) bounds the length of an
allocation list by the pages of its pool: an entry is appended only when every other one
is in use, and each of those has a page of its own.

`Books` adds the counters, which JitInv does not determine: active is the number of
live allocations, kernel_regions_active that of the open objects, pooled_pages_active
times the page size the number of bytes of the allocations in pools, and every small
allocation is in a pool exactly if the policy says so.  Pages are counted as bytes
because the provers know cardinalities but not sums over sets; the two are equal since
allocations do not overlap, which is CodePrivate.  Each operation is first shown to be
a `BookStep`: it changes one region, at most one object and at most one allocation, and
adds to each counter what it changed; one lemma (BooksKept) then keeps the books, and
the policy changes only at zero.  Theorems: CodePrivate, RetryAccepted, EmitterExact,
ObjectsOwned and RegistrySound.

Only model-checked: every liveness property (fairness and ENABLED are beyond the
prover); MemoryMap, whose operations are folds over sequences of mappings, so that what
they compute needs induction over data (RecordedAliasesKeepBacking, FastmemFollowsTables).
The FIFO's theorems except OneInterruptUpdate leave out the guest that takes ReadIdle for
empty, with which the distance is wrong (section 5).  The three type theorems have no run
of their own: the proofs cover every instance.

## 7. Not modelled

Of the FIFO: the ticks of sync_gpu, single core, the deterministic GPU thread, an
unlinked FIFO, save states, a register whose two halves the other thread sees
separately, and whether the data behind a relaxed distance load is visible.  Of
BlockingLoop: a client that waits while another destroys the object, and a step between
the load of m_stopped and the store of m_shutdown in Stop.  Of
JitMemory: cache maintenance, and the kernel beyond success and failure.  Of the
command buffers: Vulkan semaphores, exclusive fullscreen, the overlapping acquire
mode that is kept to reproduce a failure, the growth of descriptor pools, a
vkQueueSubmit or vkWaitForFences that fails (`CommandBufferManager.cpp` 365, 539: the code
reports it and goes on).  Of the stream buffers: that the second attempt of UploadUniforms asks
for another size than the first.  Of the clock session: that the direct backend reads back
the effective rate (`ClockControl.cpp` 485-529), which may differ from the written one.  Of the
support session: telemetry, checkpoints, events, settings and log copies, and the
archive format.  Of the RAM arena: the probe of the capabilities, the fault handler of
`MemTools.cpp`, DBAT entries of the fake VMEM at reset, larger host pages, save states, and runs across two
regions, which LayoutAssumption excludes because no two regions touch.
AsyncRequests, audio and file replacement have no module yet (see the plan).  Telemetry, menus, text formats, platform adapters and
the upstream emulator are left out: no protocol of this port depends on them.
The implementation lines of the repository are almost all upstream Dolphin and
vendored libraries; the models cover the port's own concurrent and failure-prone
code and the upstream code it meets.
