-------------------------------- MODULE Fifo --------------------------------
(***************************************************************************)
(* The dual-core command FIFO: the guest CPU thread writes gather blocks   *)
(* into a ring in guest memory and publishes them through the command      *)
(* processor's registers (CommandProcessor.cpp, GPFifo.cpp); the GPU       *)
(* thread reads them in batches, decodes them and releases them            *)
(* (VideoCommon/Fifo.cpp, FifoBatch.h).  No lock protects the registers:   *)
(* each is an atomic of its own, so the model interleaves the two threads  *)
(* between register accesses.                                              *)
(*                                                                         *)
(* Addresses and distances are counted in gather blocks: every register    *)
(* write masks the low five bits (CommandProcessor.cpp 130-157), so        *)
(* nothing finer can be told apart.  CPBase is 0 and CPEnd RingBlocks - 1. *)
(* A block is represented by its number in the order of the guest's        *)
(* writes.  GPLinkEnable is on: the CPU's FIFO is the GPU's FIFO.          *)
(***************************************************************************)
EXTENDS FifoBatch, Sequences

CONSTANTS
  RingBlocks,     \* blocks in the ring
  FlowLimit,      \* the guest's flow control: the distance at which it stops writing
  BatchBlocks,    \* EffectiveFifoBatchBlocks of the configuration
  CPHiWatermark, CPLoWatermark,
  ControlValues,  \* what the guest writes to the control register
  CommandEnds,    \* the blocks that end on a command boundary
  RelinkWhen,     \* how the guest decides that the FIFO is empty before it re-initialises it
  RelaxedLoads,   \* TRUE: the GPU's relaxed loads of one iteration may be reordered
  MaxBlocks       \* bound: blocks the guest writes

CPBase == 0
CPEnd  == RingBlocks - 1

(* Registers are u32; a u32 number of bytes is a number of blocks modulo   *)
(* 2^27.                                                                   *)
DistanceModulus == 134217728
Wrap(distance)  == distance % DistanceModulus

ControlRegister == [GPReadEnable : BOOLEAN, BPEnable : BOOLEAN, BPInt : BOOLEAN,
                    HiWatermarkInt : BOOLEAN, LoWatermarkInt : BOOLEAN]

ASSUME FifoAssumption ==
  /\ RingBlocks \in Nat /\ RingBlocks >= 2
  /\ RingBlocks < DistanceModulus \div 2    \* physical addresses are below 2^31
  /\ FlowLimit \in 1 .. RingBlocks - 1      \* the assertion of GatherPipeBursted
  /\ BatchBlocks \in Nat \ {0}
  /\ CPHiWatermark \in Nat /\ CPLoWatermark \in Nat
  /\ ControlValues \subseteq ControlRegister
  /\ CommandEnds \subseteq Nat
  /\ RelinkWhen \in {"never", "rw_distance", "read_idle"}
  /\ RelaxedLoads \in BOOLEAN
  /\ MaxBlocks \in Nat

VARIABLES
  \* registers both threads access
  CPWritePointer, CPReadPointer, CPReadWriteDistance, SafeCPReadPointer, CPBreakpoint,
  bFF,                   \* the atomic copies of the control register's bits
  bFF_Breakpoint,        \* the breakpoint flag of the status register
  m_cp_ctrl_reg,         \* the control register itself
  m_interrupt_set, m_interrupt_waiting,
  events,                \* CPInterrupt events scheduled from the GPU thread
  memory,                \* the ring in guest memory
  cpu,                   \* what the CPU thread is in the middle of
  \* the GPU thread
  gpu,                   \* its program counter in RunGpuLoop's payload
  loads,                 \* which loads of this iteration it has done
  read_ptr, distance_before, bp_enabled, breakpoint, \* and the values it has loaded
  batch,                 \* the plan of this iteration
  interrupt,             \* SetCPStatusFromGPU's local
  \* history
  written,               \* blocks the guest has written to memory
  sent,                  \* blocks it has published
  decoded,               \* blocks the GPU has handed to the opcode decoder
  fence                  \* the number of the last block before CPBreakpoint

cpuVars    == <<cpu, memory, written, sent, fence>>
gpuVars    == <<gpu, loads, read_ptr, distance_before, bp_enabled, breakpoint, batch, interrupt, decoded>>
ctrlVars   == <<m_cp_ctrl_reg, bFF>>
intVars    == <<m_interrupt_set, m_interrupt_waiting, events>>
ptrVars    == <<CPWritePointer, CPReadPointer, CPReadWriteDistance, SafeCPReadPointer, CPBreakpoint>>
vars       == <<cpuVars, gpuVars, ctrlVars, bFF_Breakpoint, intVars, ptrVars>>

Addresses == CPBase .. CPEnd
NoBatch   == [blocks |-> 0, bytes |-> 0, next_read_ptr |-> CPBase]
AllOff    == [GPReadEnable |-> FALSE, BPEnable |-> FALSE, BPInt |-> FALSE,
              HiWatermarkInt |-> FALSE, LoWatermarkInt |-> FALSE]

(* Blocks from one address forward round the ring to another; and the      *)
(* address some blocks behind or ahead of another.                         *)
RingDistance(from, to) == IF to >= from THEN to - from ELSE RingBlocks - from + to
RingBack(ptr, blocks)  == IF ptr >= blocks THEN ptr - blocks ELSE ptr + RingBlocks - blocks
RingAhead(ptr, blocks) == IF ptr + blocks <= CPEnd THEN ptr + blocks ELSE ptr + blocks - RingBlocks

(* Mutant: the guest sees the pointer the GPU moves before it releases.    *)
VisibleDistanceFromCPReadPointer == RingDistance(CPReadPointer, CPWritePointer)

(* What the guest reads from FIFO_RW_DISTANCE in dual-core mode.           *)
VisibleDistance == RingDistance(SafeCPReadPointer, CPWritePointer)

ReadIdle == CPReadWriteDistance = 0 \/ CPReadPointer = CPWritePointer

AtBreakpoint == bFF.BPEnable /\ CPReadPointer = CPBreakpoint

Init ==
  /\ CPWritePointer = CPBase /\ CPReadPointer = CPBase /\ SafeCPReadPointer = CPBase
  /\ CPReadWriteDistance = 0 /\ CPBreakpoint = CPBase
  /\ bFF = AllOff /\ m_cp_ctrl_reg = AllOff
  /\ bFF_Breakpoint = FALSE
  /\ m_interrupt_set = FALSE /\ m_interrupt_waiting = FALSE /\ events = <<>>
  /\ memory = [a \in Addresses |-> 0]
  /\ cpu = "run" /\ gpu = "idle"
  /\ loads = {} /\ read_ptr = CPBase /\ distance_before = 0
  /\ bp_enabled = FALSE /\ breakpoint = CPBase
  /\ batch = NoBatch /\ interrupt = FALSE
  /\ written = 0 /\ sent = 0 /\ decoded = <<>> /\ fence = 0

-----------------------------------------------------------------------------
(* The CPU thread.                                                         *)

(* The level of the CP interrupt line, given the breakpoint flag.  The     *)
(* watermark flags are recomputed from the distance whenever the level is, *)
(* so they are no state of the model.                                      *)
InterruptLevel(at_breakpoint) ==
  /\ \/ at_breakpoint /\ bFF.BPInt
     \/ CPReadWriteDistance > CPHiWatermark /\ bFF.HiWatermarkInt
     \/ CPReadWriteDistance < CPLoWatermark /\ bFF.LoWatermarkInt
  /\ m_cp_ctrl_reg.GPReadEnable

(* The CPU sets or clears the line itself unless an update from the GPU    *)
(* thread is on its way.                                                   *)
SetCPStatusFromCPU ==
  m_interrupt_set' = IF m_interrupt_waiting THEN m_interrupt_set
                                            ELSE InterruptLevel(bFF_Breakpoint)

(* A full gather pipe is copied to memory and GatherPipeBursted moves the  *)
(* write pointer; the distance follows in a step of its own.               *)
GatherPipeBursted ==
  /\ cpu = "run" /\ written < MaxBlocks
  /\ CPReadWriteDistance < FlowLimit
  /\ memory' = [memory EXCEPT ![CPWritePointer] = written + 1]
  /\ written' = written + 1
  /\ SetCPStatusFromCPU
  /\ CPWritePointer' = Advance(CPWritePointer, CPBase, CPEnd, 1)
  /\ cpu' = "burst"
  /\ UNCHANGED <<gpuVars, ctrlVars, bFF_Breakpoint, m_interrupt_waiting, events,
                 CPReadPointer, CPReadWriteDistance, SafeCPReadPointer, CPBreakpoint,
                 sent, fence>>

PublishDistance ==
  /\ cpu = "burst"
  /\ CPReadWriteDistance' = Wrap(CPReadWriteDistance + 1)
  /\ sent' = sent + 1
  /\ cpu' = "run"
  /\ UNCHANGED <<gpuVars, ctrlVars, bFF_Breakpoint, intVars, memory, written, fence,
                 CPWritePointer, CPReadPointer, SafeCPReadPointer, CPBreakpoint>>

(* Guest: put the breakpoint where it is about to write, and enable it     *)
(* with the next control register write.                                   *)
WriteBreakpoint ==
  /\ cpu = "run" /\ ~bFF.BPEnable
  /\ \E v \in ControlValues : v.BPEnable
  /\ CPBreakpoint' = CPWritePointer
  /\ fence' = sent
  /\ cpu' = "breakpoint"
  /\ UNCHANGED <<gpuVars, ctrlVars, bFF_Breakpoint, intVars, memory, written, sent,
                 CPWritePointer, CPReadPointer, CPReadWriteDistance, SafeCPReadPointer>>

(* Guest: move an enabled breakpoint forward, over blocks that may already *)
(* be published (the next frame of a double-buffering game).               *)
MoveBreakpoint ==
  /\ cpu = "run" /\ bFF.BPEnable
  /\ \E f \in fence + 1 .. sent :
       /\ fence' = f
       /\ CPBreakpoint' = RingBack(CPWritePointer, sent - f)
  /\ UNCHANGED <<gpuVars, ctrlVars, bFF_Breakpoint, intVars, cpu, memory, written, sent,
                 CPWritePointer, CPReadPointer, CPReadWriteDistance, SafeCPReadPointer>>

(* A control register write: GPReadEnable is stored first, the other bits  *)
(* after it.  Only a breakpoint that was just written is enabled.          *)
WriteControl ==
  /\ cpu \in {"run", "breakpoint"}
  /\ \E v \in ControlValues :
       /\ IF cpu = "breakpoint" THEN v.BPEnable ELSE v.BPEnable => bFF.BPEnable
       /\ m_cp_ctrl_reg' = v
       /\ bFF' = [bFF EXCEPT !.GPReadEnable = v.GPReadEnable]
  /\ cpu' = "control"
  /\ UNCHANGED <<gpuVars, bFF_Breakpoint, intVars, ptrVars, memory, written, sent, fence>>

SetCpControlRegister ==
  /\ cpu = "control"
  /\ bFF' = m_cp_ctrl_reg
  /\ cpu' = "run"
  /\ UNCHANGED <<gpuVars, bFF_Breakpoint, intVars, ptrVars, m_cp_ctrl_reg, memory, written, sent, fence>>

(* Mutant: the waiting flag is not cleared.                                *)
UpdateInterruptsKeepsWaiting ==
  /\ cpu \in {"run", "breakpoint"} /\ events # <<>>
  /\ m_interrupt_set' = Head(events)
  /\ events' = Tail(events)
  /\ UNCHANGED <<cpuVars, gpuVars, ctrlVars, bFF_Breakpoint, ptrVars, m_interrupt_waiting>>

(* The CPInterrupt event, run by CoreTiming between guest instructions.    *)
UpdateInterrupts ==
  /\ cpu \in {"run", "breakpoint"} /\ events # <<>>
  /\ m_interrupt_set' = Head(events)
  /\ m_interrupt_waiting' = FALSE
  /\ events' = Tail(events)
  /\ UNCHANGED <<cpuVars, gpuVars, ctrlVars, bFF_Breakpoint, ptrVars>>

(* Guest: with reads and the breakpoint disabled, and the FIFO empty as    *)
(* far as the guest can tell, start over at the base of the ring.          *)
FifoLooksEmpty ==
  \/ RelinkWhen = "rw_distance" /\ VisibleDistance = 0
  \/ RelinkWhen = "read_idle" /\ ReadIdle

RelinkFifo ==
  /\ cpu = "run" /\ ~bFF.GPReadEnable /\ ~bFF.BPEnable
  /\ FifoLooksEmpty
  /\ CPWritePointer' = CPBase /\ CPReadPointer' = CPBase /\ SafeCPReadPointer' = CPBase
  /\ CPReadWriteDistance' = 0
  /\ UNCHANGED <<cpuVars, gpuVars, ctrlVars, bFF_Breakpoint, intVars, CPBreakpoint>>

CpuNext ==
  \/ GatherPipeBursted \/ PublishDistance \/ WriteBreakpoint \/ MoveBreakpoint
  \/ WriteControl \/ SetCpControlRegister \/ UpdateInterrupts \/ RelinkFifo

-----------------------------------------------------------------------------
(* The GPU thread: one payload of RunGpuLoop.                              *)

(* BlockingLoop runs the payload when woken and at least every 100 ms.     *)
StartPayload ==
  /\ gpu = "idle"
  /\ gpu' = "status"
  /\ UNCHANGED <<cpuVars, ctrlVars, bFF_Breakpoint, intVars, ptrVars,
                 loads, read_ptr, distance_before, bp_enabled, breakpoint, batch, interrupt, decoded>>

(* SetCPStatusFromGPU, first half: the breakpoint flag and the level.      *)
SetCPStatusFromGPU ==
  /\ gpu = "status"
  /\ bFF_Breakpoint' = AtBreakpoint
  /\ interrupt' = InterruptLevel(AtBreakpoint)
  /\ gpu' = "compare"
  /\ UNCHANGED <<cpuVars, ctrlVars, intVars, ptrVars,
                 loads, read_ptr, distance_before, bp_enabled, breakpoint, batch, decoded>>

(* Mutant: the GPU thread never asks for the line to be cleared.           *)
CompareInterruptOnlyRaises ==
  /\ gpu = "compare"
  /\ gpu' = IF interrupt /\ ~m_interrupt_set THEN "claim" ELSE "check"
  /\ interrupt' = (interrupt /\ gpu' = "claim")
  /\ UNCHANGED <<cpuVars, ctrlVars, bFF_Breakpoint, intVars, ptrVars,
                 loads, read_ptr, distance_before, bp_enabled, breakpoint, batch, decoded>>

(* Second half: compare with the line, and unless an update is on its way  *)
(* raise the waiting flag before scheduling one.                           *)
CompareInterrupt ==
  /\ gpu = "compare"
  /\ gpu' = IF interrupt # m_interrupt_set THEN "claim" ELSE "check"
  /\ interrupt' = (interrupt /\ gpu' = "claim")
  /\ UNCHANGED <<cpuVars, ctrlVars, bFF_Breakpoint, intVars, ptrVars,
                 loads, read_ptr, distance_before, bp_enabled, breakpoint, batch, decoded>>

(* Mutant: an update is scheduled even if one is on its way.               *)
SetInterruptWaitingTwice ==
  /\ gpu = "claim"
  /\ m_interrupt_waiting' = TRUE
  /\ gpu' = "schedule"
  /\ UNCHANGED <<cpuVars, ctrlVars, bFF_Breakpoint, m_interrupt_set, events, ptrVars,
                 loads, read_ptr, distance_before, bp_enabled, breakpoint, batch, interrupt, decoded>>

SetInterruptWaiting ==
  /\ gpu = "claim"
  /\ m_interrupt_waiting' = TRUE
  /\ gpu' = IF m_interrupt_waiting THEN "check" ELSE "schedule"
  /\ interrupt' = (interrupt /\ gpu' = "schedule")
  /\ UNCHANGED <<cpuVars, ctrlVars, bFF_Breakpoint, m_interrupt_set, events, ptrVars,
                 loads, read_ptr, distance_before, bp_enabled, breakpoint, batch, decoded>>

UpdateInterruptsFromVideoBackend ==
  /\ gpu = "schedule"
  /\ events' = Append(events, interrupt)
  /\ interrupt' = FALSE
  /\ gpu' = "check"
  /\ UNCHANGED <<cpuVars, ctrlVars, bFF_Breakpoint, m_interrupt_set, m_interrupt_waiting, ptrVars,
                 loads, read_ptr, distance_before, bp_enabled, breakpoint, batch, decoded>>

(* Mutant: the loop condition forgets the distance.                        *)
CheckReadableIgnoresDistance ==
  /\ gpu = "check"
  /\ gpu' = IF ~m_interrupt_waiting /\ bFF.GPReadEnable THEN "at_breakpoint" ELSE "idle"
  /\ UNCHANGED <<cpuVars, ctrlVars, bFF_Breakpoint, intVars, ptrVars,
                 loads, read_ptr, distance_before, bp_enabled, breakpoint, batch, interrupt, decoded>>

(* The loop condition: first the distance, then the breakpoint.            *)
CheckReadable ==
  /\ gpu = "check"
  /\ gpu' = IF ~m_interrupt_waiting /\ bFF.GPReadEnable /\ CPReadWriteDistance # 0
            THEN "at_breakpoint" ELSE "idle"
  /\ UNCHANGED <<cpuVars, ctrlVars, bFF_Breakpoint, intVars, ptrVars,
                 loads, read_ptr, distance_before, bp_enabled, breakpoint, batch, interrupt, decoded>>

CheckBreakpoint ==
  /\ gpu = "at_breakpoint"
  /\ gpu' = IF AtBreakpoint THEN "idle" ELSE "load"
  /\ UNCHANGED <<cpuVars, ctrlVars, bFF_Breakpoint, intVars, ptrVars,
                 loads, read_ptr, distance_before, bp_enabled, breakpoint, batch, interrupt, decoded>>

(* The loads of one iteration: the read pointer and the distance, then     *)
(* the two breakpoint registers, which are arguments of one call and so    *)
(* loaded in no particular order.                                          *)
Load(register) ==
  /\ gpu = "load" /\ register \notin loads
  /\ loads' = loads \cup {register}
  /\ UNCHANGED <<cpuVars, ctrlVars, bFF_Breakpoint, intVars, ptrVars,
                 gpu, batch, interrupt, decoded>>

LoadDistance ==
  /\ Load("distance")
  /\ read_ptr' = CPReadPointer
  /\ distance_before' = CPReadWriteDistance
  /\ UNCHANGED <<bp_enabled, breakpoint>>

LoadBPEnable ==
  /\ Load("bp_enable")
  /\ "distance" \in loads \/ RelaxedLoads
  /\ bp_enabled' = bFF.BPEnable
  /\ UNCHANGED <<read_ptr, distance_before, breakpoint>>

LoadBreakpoint ==
  /\ Load("breakpoint")
  /\ "distance" \in loads \/ RelaxedLoads
  /\ breakpoint' = CPBreakpoint
  /\ UNCHANGED <<read_ptr, distance_before, bp_enabled>>

(* The plan of this iteration: a single block unless batching is on.       *)
Plan ==
  IF BatchBlocks > 1
  THEN PlanFifoBatch(read_ptr, CPBase, CPEnd, distance_before,
                     bp_enabled, breakpoint, 1, BatchBlocks)
  ELSE [blocks |-> 1, bytes |-> 1, next_read_ptr |-> Advance(read_ptr, CPBase, CPEnd, 1)]

(* Guest memory: the ring, and no block outside it.                        *)
Memory(address) == IF address \in Addresses THEN memory[address] ELSE 0

(* Mutant: the copy starts at the pointer meant for the guest's eyes.      *)
BatchDataFromSafeCPReadPointer == [i \in 1 .. Plan.blocks |-> Memory(SafeCPReadPointer + i - 1)]

(* The batch is copied out of guest memory in one piece.                   *)
BatchData == [i \in 1 .. Plan.blocks |-> Memory(read_ptr + i - 1)]

(* ReadDataFromFifo appends the batch to the video buffer, and the opcode  *)
(* decoder runs over it.                                                   *)
ReadDataFromFifo ==
  /\ gpu = "load" /\ loads = {"distance", "bp_enable", "breakpoint"}
  /\ batch' = Plan
  /\ decoded' = decoded \o BatchData
  /\ loads' = {} /\ bp_enabled' = FALSE /\ breakpoint' = CPBase
  /\ gpu' = "store_pointer"
  /\ UNCHANGED <<cpuVars, ctrlVars, bFF_Breakpoint, intVars, ptrVars, read_ptr,
                 distance_before, interrupt>>

StoreReadPointer ==
  /\ gpu = "store_pointer"
  /\ CPReadPointer' = batch.next_read_ptr
  /\ read_ptr' = CPBase /\ distance_before' = 0
  /\ gpu' = "release"
  /\ UNCHANGED <<cpuVars, ctrlVars, bFF_Breakpoint, intVars, CPWritePointer, CPReadWriteDistance,
                 SafeCPReadPointer, CPBreakpoint, loads, bp_enabled, breakpoint, batch, interrupt, decoded>>

(* Mutant: the batch is released as if it were a single block.             *)
ReleaseOneBlock ==
  /\ gpu = "release"
  /\ CPReadWriteDistance' = Wrap(CPReadWriteDistance - 1)
  /\ batch' = NoBatch
  /\ gpu' = "safe_pointer"
  /\ UNCHANGED <<cpuVars, ctrlVars, bFF_Breakpoint, intVars, CPWritePointer, CPReadPointer,
                 SafeCPReadPointer, CPBreakpoint,
                 loads, read_ptr, distance_before, bp_enabled, breakpoint, interrupt, decoded>>

ReleaseDistance ==
  /\ gpu = "release"
  /\ CPReadWriteDistance' = Wrap(CPReadWriteDistance - batch.bytes)
  /\ batch' = NoBatch
  /\ gpu' = "safe_pointer"
  /\ UNCHANGED <<cpuVars, ctrlVars, bFF_Breakpoint, intVars, CPWritePointer, CPReadPointer,
                 SafeCPReadPointer, CPBreakpoint,
                 loads, read_ptr, distance_before, bp_enabled, breakpoint, interrupt, decoded>>

(* The pointer the guest sees moves only when no partial command is left   *)
(* in the video buffer.                                                    *)
StoreSafeReadPointer ==
  /\ gpu = "safe_pointer"
  /\ SafeCPReadPointer' = IF decoded[Len(decoded)] \in CommandEnds
                          THEN CPReadPointer ELSE SafeCPReadPointer
  /\ gpu' = "status"
  /\ UNCHANGED <<cpuVars, ctrlVars, bFF_Breakpoint, intVars, CPWritePointer, CPReadPointer,
                 CPReadWriteDistance, CPBreakpoint,
                 loads, read_ptr, distance_before, bp_enabled, breakpoint, batch, interrupt, decoded>>

GpuNext ==
  \/ StartPayload \/ SetCPStatusFromGPU \/ CompareInterrupt \/ SetInterruptWaiting
  \/ UpdateInterruptsFromVideoBackend \/ CheckReadable \/ CheckBreakpoint
  \/ LoadDistance \/ LoadBPEnable \/ LoadBreakpoint \/ ReadDataFromFifo
  \/ StoreReadPointer \/ ReleaseDistance \/ StoreSafeReadPointer

Next == CpuNext \/ GpuNext

(* The GPU thread is scheduled, and so is the CPU thread in the middle of  *)
(* a register access.  CoreTiming runs a due event at the end of the time  *)
(* slice whatever the guest is doing: strong fairness, because the guest   *)
(* may always be found inside a register access.  What the guest program   *)
(* writes is its own affair: no fairness.                                  *)
Fairness ==
  /\ WF_vars(GpuNext)
  /\ WF_vars(PublishDistance \/ SetCpControlRegister)
  /\ SF_vars(UpdateInterrupts)

Spec     == Init /\ [][Next]_vars
FairSpec == Spec /\ Fairness
-----------------------------------------------------------------------------
(* Properties.                                                             *)

TypeOK ==
  /\ CPWritePointer \in Addresses /\ CPReadPointer \in Addresses
  /\ SafeCPReadPointer \in Addresses /\ CPBreakpoint \in Addresses
  /\ CPReadWriteDistance \in 0 .. DistanceModulus - 1
  /\ bFF \in ControlRegister /\ m_cp_ctrl_reg \in ControlRegister
  /\ bFF_Breakpoint \in BOOLEAN
  /\ m_interrupt_set \in BOOLEAN /\ m_interrupt_waiting \in BOOLEAN
  /\ events \in Seq(BOOLEAN)
  /\ memory \in [Addresses -> Nat]
  /\ cpu \in {"run", "burst", "breakpoint", "control"}
  /\ gpu \in {"idle", "status", "compare", "claim", "schedule", "check", "at_breakpoint", "load",
              "store_pointer", "release", "safe_pointer"}
  /\ read_ptr \in Addresses
  /\ loads \in SUBSET {"distance", "bp_enable", "breakpoint"}
  /\ distance_before \in 0 .. DistanceModulus - 1
  /\ bp_enabled \in BOOLEAN /\ breakpoint \in Addresses
  /\ batch \in [blocks : Nat, bytes : Nat, next_read_ptr : Addresses]
  /\ interrupt \in BOOLEAN
  /\ written \in Nat /\ sent \in Nat /\ fence \in Nat
  /\ decoded \in Seq(Nat)

(* The blocks of a batch that is decoded but whose release is outstanding. *)
Unreleased == IF gpu \in {"store_pointer", "release"} THEN batch.blocks ELSE 0

(* The distance register accounts for every block: what the CPU thread has *)
(* published and the GPU thread has not released, although one adds and    *)
(* the other subtracts without a lock; and the two pointers are that many  *)
(* blocks apart on the ring, give or take the update each thread is in the *)
(* middle of.                                                              *)
DistanceAccounts ==
  /\ CPReadWriteDistance = sent - Len(decoded) + Unreleased
  /\ RingDistance(CPReadPointer, CPWritePointer) =
       written - Len(decoded) + (IF gpu = "store_pointer" THEN batch.blocks ELSE 0)

(* The GPU decodes nothing at or behind an enabled breakpoint, however its *)
(* loads of the distance and of the breakpoint interleave with the CPU     *)
(* thread enabling or moving the breakpoint and publishing more blocks.    *)
NeverPastBreakpoint == bFF.BPEnable => Len(decoded) <= fence

(* The assertion of RunGpuLoop: the distance it loaded, as a signed        *)
(* number, covers the batch it is about to decode.                         *)
DistanceNeverNegative ==
  gpu = "store_pointer" =>
    /\ distance_before < DistanceModulus \div 2
    /\ distance_before >= batch.bytes

(* At most one interrupt update is on its way from the GPU thread, and the *)
(* waiting flag that stalls the GPU is up exactly as long as it is: also   *)
(* while the GPU thread has raised the flag and not scheduled the update.  *)
OneUpdateInFlight ==
  /\ m_interrupt_waiting <=> (events # <<>> \/ gpu = "schedule")
  /\ Len(events) + (IF gpu = "schedule" THEN 1 ELSE 0) <= 1

(* The guest never sees fewer unread blocks than there are: the distance   *)
(* it reads is computed from SafeCPReadPointer, which the GPU moves last.  *)
VisibleDistanceCoversUnread ==
  cpu = "run" => VisibleDistance >= CPReadWriteDistance

(* What the FIFO promises (CommandStream), with an enabled breakpoint as   *)
(* the limit: blocks are decoded in order, once, and only when published.  *)
Stream == INSTANCE CommandStream WITH
            NoLimit <- -1, limit <- IF bFF.BPEnable THEN fence ELSE -1
ImplementsStream == Stream!Spec

(* Once the guest stops accessing the registers, the GPU drains the FIFO   *)
(* until it is empty, or reads are disabled, or it stands at the enabled   *)
(* breakpoint: no interleaving of interrupt updates, loop conditions and   *)
(* batches leaves it waiting over readable blocks.                         *)
GuestQuiet == cpu = "run"
QuietGuestIsDrained ==
  <>[]GuestQuiet => <>[](Len(decoded) = sent \/ ~bFF.GPReadEnable \/ AtBreakpoint)

(* Once the conditions for the CP interrupt stop changing, the line ends   *)
(* up at the level they ask for and stays there: no stale update scheduled *)
(* by the GPU thread has the last word, and none is lost.                  *)
InterruptSettles ==
  \A level \in BOOLEAN :
    <>[](InterruptLevel(AtBreakpoint) = level) => <>[](m_interrupt_set = level)
=============================================================================
