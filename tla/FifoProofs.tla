----------------------------- MODULE FifoProofs -----------------------------
(***************************************************************************)
(* Proofs about Fifo, for every ring size, flow limit, batch size, guest   *)
(* program and number of blocks: the distance register accounts for every  *)
(* block, the GPU never decodes past an enabled breakpoint, and the FIFO   *)
(* implements the command stream.  The guest re-initialises the FIFO never *)
(* or when the distance it reads is zero (Patient), and the GPU's loads    *)
(* are not reordered.                                                      *)
(***************************************************************************)
EXTENDS Fifo, TLAPS

Decoded == Len(decoded)

(* Blocks the read pointer has moved over.                                 *)
Passed == Decoded - (IF gpu = "store_pointer" THEN batch.blocks ELSE 0)

(* The CPU thread is in the middle of a burst by at most one block.        *)
CountInv ==
  /\ sent = written - (IF cpu = "burst" THEN 1 ELSE 0)
  /\ Decoded <= sent
  /\ CPReadWriteDistance + (IF cpu = "burst" THEN 1 ELSE 0) <= FlowLimit

(* What the GPU thread has established at each place of its loop.          *)
IterationInv ==
  /\ gpu = "at_breakpoint" => CPReadWriteDistance >= 1
  /\ gpu = "load" =>
       /\ CPReadWriteDistance >= 1
       /\ "distance" \in loads =>
            /\ read_ptr = CPReadPointer
            /\ distance_before \in 1 .. CPReadWriteDistance
       /\ "bp_enable" \in loads \/ "breakpoint" \in loads => "distance" \in loads
  /\ gpu # "load" => loads = {}
  /\ gpu \in {"store_pointer", "release"} =>
       batch.blocks >= 1 /\ batch.bytes = batch.blocks
  /\ gpu = "store_pointer" =>
       /\ batch.next_read_ptr = RingAhead(CPReadPointer, batch.blocks)
       /\ batch.blocks <= distance_before /\ distance_before <= FlowLimit

(* The ring holds the blocks between the two pointers, in order.           *)
MemoryInv ==
  \A i \in 0 .. RingDistance(CPReadPointer, CPWritePointer) - 1 :
    memory[RingAhead(CPReadPointer, i)] = Passed + i + 1

(* The guest has put a breakpoint and enabled it, or is about to.          *)
Armed ==
  \/ bFF.BPEnable
  \/ cpu = "breakpoint"
  \/ cpu = "control" /\ m_cp_ctrl_reg.BPEnable

FenceInv ==
  /\ Armed =>
       /\ Decoded <= fence /\ fence <= sent
       /\ RingDistance(CPBreakpoint, CPWritePointer) = written - fence
  /\ Armed /\ ~bFF.BPEnable => fence = sent /\ cpu # "burst"
  /\ Armed /\ gpu = "load" => Decoded + 1 <= fence

(* Either the breakpoint came after the distance was loaded, and then the  *)
(* distance ends before it; or it was enabled all the while, and what the  *)
(* GPU has loaded is the breakpoint or one it has since been moved from.   *)
LoadedInv ==
  Armed /\ gpu = "load" /\ "distance" \in loads =>
    \/ Decoded + distance_before <= fence
    \/ /\ bFF.BPEnable
       /\ "bp_enable" \in loads => bp_enabled
       /\ "breakpoint" \in loads =>
            RingDistance(CPReadPointer, breakpoint) \in 1 .. fence - Decoded

StreamInv == \A i \in 1 .. Decoded : decoded[i] = i

FifoInv ==
  /\ TypeOK /\ CountInv /\ DistanceAccounts /\ IterationInv
  /\ MemoryInv /\ FenceInv /\ LoadedInv /\ StreamInv

(* From every block number a command boundary is found, wherever a batch   *)
(* ends, before the blocks that follow it could fill the ring: within      *)
(* `lag' blocks there are as many boundaries in a row as a batch has       *)
(* blocks.                                                                 *)
AllEnd(m) == \A b \in m + 1 .. m + BatchBlocks : b \in CommandEnds

EndWithin(lag) ==
  \A n \in 0 .. MaxBlocks - lag : \E m \in n .. n + lag - BatchBlocks : AllEnd(m)

CommandsFit == \E lag \in 0 .. RingBlocks - FlowLimit - 1 : EndWithin(lag)

(* The guest that waits until it reads a distance of zero can rely on it   *)
(* only if its commands fit.                                               *)
Patient == RelinkWhen = "never" \/ (RelinkWhen = "rw_distance" /\ CommandsFit)

(* What the guest takes for empty is empty.                                *)
EmptyIsEmpty == cpu = "run" /\ FifoLooksEmpty => CPReadWriteDistance = 0

(* The number of the last block the guest knows to be read: the pointer it *)
(* sees is never ahead of what is released, and no run of boundaries       *)
(* between the two was missed.                                             *)
Seen == written - VisibleDistance

Released == Decoded - Unreleased

Slack == IF gpu \in {"store_pointer", "release", "safe_pointer"} THEN BatchBlocks ELSE 0

SafeInv ==
  /\ written <= MaxBlocks
  /\ 0 <= Seen /\ Seen <= Released
  /\ \A m \in Nat : Seen <= m /\ AllEnd(m) => Decoded <= m + Slack
-----------------------------------------------------------------------------
(* Arithmetic: the distance register, the ring and the planner.            *)

(* The remainder of a division.                                            *)
LEMMA Modulo ==
  /\ \A d, m \in Nat : d < m => d % m = d
  /\ \A d \in Int, m \in Nat \ {0} : d % m \in 0 .. m - 1
BY SMT

(* A distance that fits in the ring is not changed by the width of its     *)
(* register, nor is it negative as a signed number.                        *)
LEMMA WrapFacts ==
  /\ DistanceModulus \in Nat \ {0} /\ DistanceModulus \div 2 \in Nat
  /\ \A d \in Nat : d < RingBlocks => Wrap(d) = d
  /\ \A d \in Int : Wrap(d) \in 0 .. DistanceModulus - 1
<1>1. DistanceModulus \in Nat \ {0} /\ DistanceModulus \div 2 \in Nat
  BY SMT DEF DistanceModulus
<1>2. RingBlocks \in Nat /\ RingBlocks < DistanceModulus
  BY FifoAssumption, SMT DEF DistanceModulus
<1>3. QED
  BY <1>1, <1>2, Modulo DEF Wrap

(* Distances and addresses on the ring.                                    *)
LEMMA RingFacts ==
  ASSUME NEW p \in Addresses, NEW q \in Addresses
  PROVE  /\ RingDistance(p, q) \in 0 .. RingBlocks - 1
         /\ RingDistance(p, q) = 0 <=> p = q
         /\ \A i \in 0 .. RingBlocks - 1 :
              /\ RingAhead(p, i) \in Addresses
              /\ RingAhead(p, i) = q <=> i = RingDistance(p, q)
BY FifoAssumption DEF Addresses, CPBase, CPEnd, RingDistance, RingAhead

(* Moving the write end one block, and the read end some blocks, forward.  *)
LEMMA RingMoves ==
  ASSUME NEW p \in Addresses, NEW q \in Addresses
  PROVE  /\ Advance(q, CPBase, CPEnd, 1) \in Addresses
         /\ RingDistance(p, q) < RingBlocks - 1 =>
              RingDistance(p, Advance(q, CPBase, CPEnd, 1)) = RingDistance(p, q) + 1
         /\ \A k \in 1 .. RingDistance(p, q) :
              /\ RingDistance(RingAhead(p, k), q) = RingDistance(p, q) - k
              /\ \A i \in 0 .. RingDistance(p, q) - k :
                   RingAhead(RingAhead(p, k), i) = RingAhead(p, k + i)
BY FifoAssumption DEF Addresses, CPBase, CPEnd, RingDistance, RingAhead, Advance

(* A breakpoint some blocks behind the write pointer.                      *)
LEMMA RingBreakpoint ==
  ASSUME NEW p \in Addresses, NEW q \in Addresses
  PROVE  /\ \A k \in 0 .. RingBlocks - 1 :
              RingBack(q, k) \in Addresses /\ RingDistance(RingBack(q, k), q) = k
         /\ \A b \in Addresses :
              RingDistance(b, q) <= RingDistance(p, q) =>
                RingDistance(p, b) = RingDistance(p, q) - RingDistance(b, q)
BY FifoAssumption DEF Addresses, CPBase, CPEnd, RingDistance, RingBack

(* The least and the greatest of a few numbers.                            *)
LEMMA MinMaxFacts ==
  ASSUME NEW a \in Int, NEW b \in Int, NEW c \in Int
  PROVE  /\ Min({a, b, c}) \in {a, b, c}
         /\ Min({a, b, c}) <= a /\ Min({a, b, c}) <= b /\ Min({a, b, c}) <= c
         /\ Min({a, b}) \in {a, b} /\ Min({a, b}) <= a /\ Min({a, b}) <= b
         /\ Max({a, b}) \in {a, b} /\ Max({a, b}) >= a /\ Max({a, b}) >= b
<1>1. \E x \in {a, b, c} : \A y \in {a, b, c} : x <= y
  OBVIOUS
<1>2. (\E x \in {a, b} : \A y \in {a, b} : x <= y) /\ (\E x \in {a, b} : \A y \in {a, b} : x >= y)
  OBVIOUS
<1>3. QED
  BY <1>1, <1>2 DEF Min, Max

(* A planned batch fits its limit, the data, the ring and the breakpoint.  *)
LEMMA BatchBounds ==
  ASSUME NEW r \in Addresses, NEW d \in Nat, d >= 1, NEW e \in BOOLEAN, NEW b \in Addresses,
         NEW m \in Nat \ {0}
  PROVE  LET n == PlannedBlocks(r, CPEnd, d, e, b, 1, m)
         IN  /\ n \in Nat /\ n >= 1 /\ n <= d /\ n <= m /\ r + n - 1 <= CPEnd
             /\ e /\ b > r => r + n <= b
<1> DEFINE w == CPEnd - r + 1
           l == Min({m, d, w})
           x == Max({1, l})
           y == Min({x, b - r})
           z == Max({1, y})
<1>1. /\ d \div 1 = d /\ (CPEnd - r) \div 1 = CPEnd - r
      /\ (b - r) \div 1 = b - r /\ (b - r) % 1 = 0
      /\ w \in Nat /\ w >= 1
      /\ 1 \in Int /\ m \in Int /\ d \in Int /\ w \in Int /\ b - r \in Int
  BY FifoAssumption DEF Addresses, CPBase, CPEnd
<1>2. PlannedBlocks(r, CPEnd, d, e, b, 1, m) = IF e /\ b > r THEN z ELSE x
  <2>1. BreakpointAhead(r, CPEnd, e, b, 1) <=> e /\ b > r
    BY <1>1 DEF BreakpointAhead, Addresses, CPBase, CPEnd
  <2>2. QED
    BY <1>1, <2>1, Zenon DEF PlannedBlocks
<1>3. l \in Nat /\ l >= 1 /\ l <= d /\ l <= m /\ l <= w
  <2>1. l \in {m, d, w} /\ l <= m /\ l <= d /\ l <= w
    BY <1>1, MinMaxFacts, Zenon
  <2>2. QED
    BY <2>1, <1>1
<1>4. x = l
  <2>1. l \in Int
    BY <1>3
  <2>2. x \in {1, l} /\ x >= 1 /\ x >= l
    BY <1>1, <2>1, MinMaxFacts, Zenon
  <2>3. QED
    BY <2>2, <1>3
<1> HIDE DEF w, l, x
<1>5. b > r => z \in Nat /\ z >= 1 /\ z <= x /\ z <= b - r
  <2> SUFFICES ASSUME b > r PROVE z \in Nat /\ z >= 1 /\ z <= x /\ z <= b - r
    OBVIOUS
  <2>1. x \in Nat /\ x \in Int /\ x >= 1 /\ b - r >= 1
    BY <1>3, <1>4 DEF Addresses, CPBase, CPEnd
  <2>2. y \in {x, b - r} /\ y <= x /\ y <= b - r
    BY <1>1, <2>1, MinMaxFacts, Zenon
  <2>3. y \in Nat /\ y \in Int /\ y >= 1
    BY <2>1, <2>2, <1>1
  <2> HIDE DEF y
  <2>4. z \in {1, y} /\ z >= 1 /\ z >= y
    BY <1>1, <2>3, MinMaxFacts, Zenon
  <2>5. QED
    BY <2>2, <2>3, <2>4, <2>1, <1>1
<1> HIDE DEF z
<1>6. QED
  BY <1>1, <1>2, <1>3, <1>4, <1>5, FifoAssumption DEF w, Addresses, CPBase, CPEnd

(* The plan of an iteration is at least one block, at most a batch, stays  *)
(* below the end of the ring and, when the distance is right, within the published blocks   *)
(* and before the breakpoint it was given.                                 *)
LEMMA PlanFacts ==
  ASSUME TypeOK
  PROVE  /\ Plan.blocks \in Nat /\ Plan.blocks >= 1 /\ Plan.bytes = Plan.blocks
         /\ Plan.blocks <= BatchBlocks
         /\ Plan \in [blocks : Nat, bytes : Nat, next_read_ptr : Addresses]
         /\ Plan.next_read_ptr = RingAhead(read_ptr, Plan.blocks)
         /\ read_ptr + Plan.blocks - 1 <= CPEnd
         /\ distance_before >= 1 => Plan.blocks <= distance_before
         /\ distance_before >= 1 /\ bp_enabled /\ breakpoint > read_ptr =>
              read_ptr + Plan.blocks <= breakpoint
<1> DEFINE single == [blocks |-> 1, bytes |-> 1,
                      next_read_ptr |-> Advance(read_ptr, CPBase, CPEnd, 1)]
           n == PlannedBlocks(read_ptr, CPEnd, distance_before, bp_enabled, breakpoint, 1, BatchBlocks)
           several == [blocks |-> n, bytes |-> n * 1,
                       next_read_ptr |-> Advance(read_ptr + (n - 1) * 1, CPBase, CPEnd, 1)]
<1>1. /\ read_ptr \in Addresses /\ breakpoint \in Addresses
      /\ distance_before \in Nat /\ bp_enabled \in BOOLEAN
  BY WrapFacts DEF TypeOK
<1>2. /\ Advance(read_ptr, CPBase, CPEnd, 1) = RingAhead(read_ptr, 1)
      /\ RingAhead(read_ptr, 1) \in Addresses /\ read_ptr <= CPEnd
  BY <1>1, FifoAssumption DEF Advance, RingAhead, Addresses, CPBase, CPEnd
<1>3. CASE distance_before < 1 \/ BatchBlocks = 1
  <2>1. Plan = single
    BY <1>1, <1>3, FifoAssumption
       DEF Plan, PlanFifoBatch, Unplannable, PlannedBlocks
  <2>2. QED
    BY <1>1, <1>2, <2>1, FifoAssumption DEF Addresses, CPBase, CPEnd
<1>4. CASE distance_before >= 1 /\ BatchBlocks > 1
  <2>1. Plan = several
    <3>1. (CPEnd - read_ptr) % 1 = 0
      BY <1>1, FifoAssumption DEF Addresses, CPBase, CPEnd
    <3>2. ~Unplannable(read_ptr, CPBase, CPEnd, distance_before, 1, BatchBlocks)
      BY <1>1, <1>4, <3>1, FifoAssumption DEF Unplannable, Addresses, CPBase, CPEnd
    <3>3. QED
      BY <3>2, <1>4, Zenon DEF Plan, PlanFifoBatch
  <2>2. /\ n \in Nat /\ n >= 1 /\ n <= distance_before /\ read_ptr + n - 1 <= CPEnd
        /\ n <= BatchBlocks
        /\ bp_enabled /\ breakpoint > read_ptr => read_ptr + n <= breakpoint
    BY <1>1, <1>4, BatchBounds, FifoAssumption
  <2> HIDE DEF n
  <2>3. /\ several.bytes = n
        /\ several.next_read_ptr = RingAhead(read_ptr, n)
        /\ RingAhead(read_ptr, n) \in Addresses
    BY <1>1, <2>2, FifoAssumption DEF Advance, RingAhead, Addresses, CPBase, CPEnd
  <2>4. several.blocks = n
    OBVIOUS
  <2>5. several \in [blocks : Nat, bytes : Nat, next_read_ptr : Addresses]
    BY <2>2, <2>3
  <2> HIDE DEF several
  <2>6. QED
    BY <1>1, <1>2, <2>1, <2>2, <2>3, <2>4, <2>5
<1>5. QED
  BY <1>1, <1>3, <1>4, FifoAssumption

(* Appending a finite function to a sequence.                              *)
LEMMA ConcatFacts ==
  ASSUME NEW s \in Seq(Nat), NEW t \in Seq(Nat)
  PROVE  /\ s \o t \in Seq(Nat)
         /\ Len(s \o t) = Len(s) + Len(t)
         /\ \A i \in 1 .. Len(s) + Len(t) :
              (s \o t)[i] = IF i <= Len(s) THEN s[i] ELSE t[i - Len(s)]
OBVIOUS

(* Appending a batch to what was decoded.                                  *)
LEMMA AppendBlocks ==
  ASSUME NEW s \in Seq(Nat), NEW n \in Nat, NEW f \in [1 .. n -> Nat]
  PROVE  /\ s \o f \in Seq(Nat)
         /\ Len(s \o f) = Len(s) + n
         /\ \A i \in 1 .. Len(s) + n : (s \o f)[i] = IF i <= Len(s) THEN s[i] ELSE f[i - Len(s)]
<1>1. f \in Seq(Nat) /\ Len(f) = n
  OBVIOUS
<1>2. QED
  BY <1>1, ConcatFacts, Zenon

(* What one ReadDataFromFifo step does to the decoder's input.             *)
LEMMA ReadFacts ==
  ASSUME TypeOK, ReadDataFromFifo
  PROVE  /\ decoded' \in Seq(Nat)
         /\ Decoded' = Decoded + Plan.blocks
         /\ \A i \in 1 .. Decoded' :
              decoded'[i] = IF i <= Decoded THEN decoded[i]
                            ELSE memory[RingAhead(read_ptr, i - Decoded - 1)]
<1> DEFINE n == Plan.blocks
           f == [i \in 1 .. n |-> Memory(read_ptr + i - 1)]
<1>1. n \in Nat /\ read_ptr \in Addresses /\ read_ptr + n - 1 <= CPEnd /\ decoded \in Seq(Nat)
  BY PlanFacts DEF TypeOK
<1> HIDE DEF n
<1>2. \A i \in 1 .. n : /\ read_ptr + i - 1 \in Addresses
                       /\ read_ptr + i - 1 = RingAhead(read_ptr, i - 1)
  BY <1>1, FifoAssumption DEF Addresses, RingAhead, CPBase, CPEnd
<1>3. f \in [1 .. n -> Nat]
  BY <1>2 DEF TypeOK, Memory
<1>4. decoded' = decoded \o f
  BY DEF ReadDataFromFifo, BatchData, n
<1>5. \A i \in 1 .. n : f[i] = memory[RingAhead(read_ptr, i - 1)]
  BY <1>2 DEF Memory
<1> HIDE DEF f
<1>6. /\ decoded' \in Seq(Nat)
      /\ Len(decoded') = Len(decoded) + n
      /\ \A i \in 1 .. Len(decoded) + n :
           decoded'[i] = IF i <= Len(decoded) THEN decoded[i] ELSE f[i - Len(decoded)]
  BY <1>1, <1>3, <1>4, AppendBlocks
<1>7. Len(decoded) \in Nat
  BY <1>1
<1>8. ASSUME NEW i \in 1 .. Len(decoded) + n
      PROVE  decoded'[i] = IF i <= Len(decoded) THEN decoded[i]
                           ELSE memory[RingAhead(read_ptr, i - Len(decoded) - 1)]
  <2>1. CASE i <= Len(decoded)
    BY <2>1, <1>6
  <2>2. CASE i > Len(decoded)
    <3>1. i - Len(decoded) \in 1 .. n
      BY <1>1, <1>7, <2>2
    <3>2. f[i - Len(decoded)] = memory[RingAhead(read_ptr, i - Len(decoded) - 1)]
      BY <3>1, <1>5
    <3>3. QED
      BY <1>6, <1>7, <2>2, <3>2
  <2>3. QED
    BY <1>1, <1>7, <2>1, <2>2
<1>9. QED
  BY <1>6, <1>8, Zenon DEF Decoded, n

-----------------------------------------------------------------------------
(* The inductive step, first for the types.                                *)

(* Every step keeps the types, whatever the guest does.                    *)
LEMMA TypeStep ==
  ASSUME FifoInv, [Next]_vars
  PROVE  TypeOK'
<1> USE FifoAssumption DEF FifoInv, TypeOK, vars, cpuVars, gpuVars, ctrlVars, intVars, ptrVars
<1>0. CPBase \in Addresses /\ Decoded \in Nat
  BY DEF Addresses, CPBase, CPEnd, Decoded
<1>1. CASE GatherPipeBursted
  <2>1. m_interrupt_set' \in BOOLEAN
    BY <1>1 DEF GatherPipeBursted, SetCPStatusFromCPU, InterruptLevel
  <2>2. CPWritePointer' \in Addresses
    BY <1>1, RingMoves DEF GatherPipeBursted
  <2>3. memory' \in [Addresses -> Nat] /\ written' \in Nat
    BY <1>1 DEF GatherPipeBursted
  <2>4. QED
    BY <1>1, <2>1, <2>2, <2>3 DEF GatherPipeBursted
<1>2. CASE PublishDistance
  <2>1. CPReadWriteDistance' \in 0 .. DistanceModulus - 1
    BY <1>2, WrapFacts DEF PublishDistance
  <2>2. sent' \in Nat /\ cpu' \in {"run", "burst", "breakpoint", "control"}
    BY <1>2 DEF PublishDistance
  <2>3. QED
    BY <1>2, <2>1, <2>2 DEF PublishDistance
<1>3. CASE WriteBreakpoint
  BY <1>3 DEF WriteBreakpoint
<1>4. CASE MoveBreakpoint
  <2>1. PICK f \in fence + 1 .. sent :
          fence' = f /\ CPBreakpoint' = RingBack(CPWritePointer, sent - f)
    BY <1>4 DEF MoveBreakpoint
  <2>2. sent - f \in 0 .. RingBlocks - 1
    <3>1. Decoded <= fence
      BY <1>4 DEF MoveBreakpoint, FenceInv, Armed
    <3>2. sent - Decoded <= CPReadWriteDistance /\ CPReadWriteDistance <= FlowLimit
      <4>1. CPReadWriteDistance \in Nat /\ Unreleased \in Nat
        BY WrapFacts DEF Unreleased
      <4>2. CPReadWriteDistance = sent - Decoded + Unreleased
        BY DEF DistanceAccounts, Decoded
      <4>3. CPReadWriteDistance <= FlowLimit
        BY <4>1 DEF CountInv
      <4>4. QED
        BY <1>0, <4>1, <4>2, <4>3
    <3>3. QED
      BY <1>0, <2>1, <3>1, <3>2, WrapFacts
  <2>3. CPBreakpoint' \in Addresses /\ fence' \in Nat
    BY <2>1, <2>2, RingBreakpoint
  <2>4. QED
    BY <1>4, <2>3 DEF MoveBreakpoint
<1>5. CASE WriteControl
  <2>1. m_cp_ctrl_reg' \in ControlRegister /\ bFF' \in ControlRegister
    BY <1>5 DEF WriteControl, ControlRegister
  <2>2. QED
    BY <1>5, <2>1 DEF WriteControl
<1>6. CASE SetCpControlRegister
  BY <1>6 DEF SetCpControlRegister
<1>7. CASE UpdateInterrupts
  <2>1. Head(events) \in BOOLEAN /\ Tail(events) \in Seq(BOOLEAN)
    BY <1>7 DEF UpdateInterrupts
  <2>2. QED
    BY <1>7, <2>1 DEF UpdateInterrupts
<1>8. CASE RelinkFifo
  <2>1. 0 \in 0 .. DistanceModulus - 1
    BY WrapFacts
  <2>2. QED
    BY <1>0, <1>8, <2>1 DEF RelinkFifo
<1>9. CASE StartPayload
  BY <1>9 DEF StartPayload
<1>10. CASE SetCPStatusFromGPU
  BY <1>10 DEF SetCPStatusFromGPU, AtBreakpoint, InterruptLevel
<1>11. CASE CompareInterrupt \/ SetInterruptWaiting
  BY <1>11 DEF CompareInterrupt, SetInterruptWaiting
<1>12. CASE UpdateInterruptsFromVideoBackend
  <2>1. events' \in Seq(BOOLEAN)
    BY <1>12 DEF UpdateInterruptsFromVideoBackend
  <2>2. QED
    BY <1>12, <2>1 DEF UpdateInterruptsFromVideoBackend
<1>13. CASE CheckReadable \/ CheckBreakpoint
  <2>1. CASE CheckReadable
    BY <2>1 DEF CheckReadable
  <2>2. CASE CheckBreakpoint
    BY <2>2 DEF CheckBreakpoint
  <2>3. QED
    BY <1>13, <2>1, <2>2
<1>14. CASE LoadDistance \/ LoadBreakpoint
  <2>1. CASE LoadDistance
    BY <2>1 DEF LoadDistance, Load
  <2>2. CASE LoadBreakpoint
    BY <2>2 DEF LoadBreakpoint, Load
  <2>3. QED
    BY <1>14, <2>1, <2>2
<1>15. CASE LoadBPEnable
  <2>1. bFF.BPEnable \in BOOLEAN
    BY DEF ControlRegister
  <2>2. QED
    BY <1>15, <2>1 DEF LoadBPEnable, Load
<1>16. CASE ReadDataFromFifo
  <2>1. decoded' \in Seq(Nat)
    BY <1>16, ReadFacts
  <2>2. batch' \in [blocks : Nat, bytes : Nat, next_read_ptr : Addresses]
    BY <1>16, PlanFacts DEF ReadDataFromFifo
  <2>3. QED
    BY <1>0, <1>16, <2>1, <2>2 DEF ReadDataFromFifo
<1>17. CASE StoreReadPointer
  <2>1. batch.next_read_ptr \in Addresses /\ 0 \in 0 .. DistanceModulus - 1
    BY WrapFacts
  <2>2. QED
    BY <1>0, <1>17, <2>1 DEF StoreReadPointer
<1>18. CASE ReleaseDistance
  <2>1. CPReadWriteDistance' \in 0 .. DistanceModulus - 1
    BY <1>18, WrapFacts DEF ReleaseDistance
  <2>2. QED
    BY <1>0, <1>18, <2>1 DEF ReleaseDistance, NoBatch
<1>19. CASE StoreSafeReadPointer
  BY <1>19 DEF StoreSafeReadPointer
<1>20. CASE UNCHANGED vars
  BY <1>20
<1>21. QED
  BY <1>1, <1>2, <1>3, <1>4, <1>5, <1>6, <1>7, <1>8, <1>9, <1>10, <1>11, <1>12, <1>13, <1>14,
     <1>15, <1>16, <1>17, <1>18, <1>19, <1>20
     DEF Next, CpuNext, GpuNext

-----------------------------------------------------------------------------
(* The inductive step for the rest of the invariant.                       *)

Rest == CountInv /\ DistanceAccounts /\ IterationInv /\ MemoryInv /\ FenceInv /\ LoadedInv /\ StreamInv

(* The invariant in numbers.                                               *)
LEMMA Regroup ==
  ASSUME NEW w \in Int, NEW d \in Int, NEW b \in Int
  PROVE  w - (d - b) = w - d + b /\ w - (d - 0) = w - d + 0
OBVIOUS

(* What the invariant says of the counts and the distances.                *)
LEMMA Numbers ==
  ASSUME FifoInv
  PROVE  /\ CPReadWriteDistance \in Nat /\ distance_before \in Nat
         /\ written \in Nat /\ sent \in Nat /\ fence \in Nat
         /\ Decoded \in Nat /\ Unreleased \in Nat /\ Passed \in Int
         /\ batch.blocks \in Nat /\ batch.bytes \in Nat
         /\ CPReadPointer \in Addresses /\ CPWritePointer \in Addresses
         /\ CPBreakpoint \in Addresses /\ breakpoint \in Addresses
         /\ CPReadWriteDistance = sent - Decoded + Unreleased
         /\ CPReadWriteDistance <= FlowLimit
         /\ RingDistance(CPReadPointer, CPWritePointer) = written - Passed
         /\ RingDistance(CPReadPointer, CPWritePointer) \in 0 .. RingBlocks - 1
<1>1. /\ CPReadWriteDistance \in Nat /\ distance_before \in Nat
      /\ written \in Nat /\ sent \in Nat /\ fence \in Nat
      /\ batch.blocks \in Nat /\ batch.bytes \in Nat
      /\ CPReadPointer \in Addresses /\ CPWritePointer \in Addresses
      /\ CPBreakpoint \in Addresses /\ breakpoint \in Addresses
  BY WrapFacts DEF FifoInv, TypeOK
<1>2. Decoded \in Nat
  BY DEF FifoInv, TypeOK, Decoded
<1>3. Unreleased \in Nat /\ Passed \in Int
  BY <1>1, <1>2 DEF Unreleased, Passed
<1>4. CPReadWriteDistance = sent - Decoded + Unreleased
  BY DEF FifoInv, DistanceAccounts, Decoded
<1>5. CPReadWriteDistance <= FlowLimit
  BY <1>1, FifoAssumption DEF FifoInv, CountInv
<1>6. RingDistance(CPReadPointer, CPWritePointer) = written - Passed
  BY <1>1, <1>2 DEF FifoInv, DistanceAccounts, Passed, Decoded
<1>7. RingDistance(CPReadPointer, CPWritePointer) \in 0 .. RingBlocks - 1
  BY <1>1, RingFacts
<1>8. QED
  BY <1>1, <1>2, <1>3, <1>4, <1>5, <1>6, <1>7

(* Steps that leave the pointers, the distance, the breakpoint, the loaded *)
(* values and the decoded blocks alone and are not inside an iteration.    *)
Outside == gpu \notin {"at_breakpoint", "load", "store_pointer", "release"}

(* Steps outside an iteration that move nothing keep the invariant.        *)
LEMMA QuietStep ==
  ASSUME FifoInv, gpu' = gpu \/ (Outside /\ Outside'),
         UNCHANGED <<cpuVars, ctrlVars, CPWritePointer, CPReadPointer, CPReadWriteDistance, CPBreakpoint,
                     loads, read_ptr, distance_before, bp_enabled, breakpoint, batch, decoded>>
  PROVE  Rest'
<1> USE DEF FifoInv, cpuVars, ctrlVars, Outside
<1>1. CountInv' /\ StreamInv' /\ DistanceAccounts'
  BY DEF CountInv, StreamInv, Decoded, DistanceAccounts, Unreleased, RingDistance
<1>2. IterationInv'
  BY DEF IterationInv, RingAhead, CPEnd
<1>3. MemoryInv'
  BY DEF MemoryInv, Passed, Decoded, RingDistance, RingAhead, CPEnd
<1>4. FenceInv' /\ LoadedInv'
  BY DEF FenceInv, LoadedInv, Armed, Decoded, RingDistance
<1>5. QED
  BY <1>1, <1>2, <1>3, <1>4 DEF Rest

(* A block written behind the others is the next one in order.             *)
LEMMA GatherStep ==
  ASSUME FifoInv, GatherPipeBursted
  PROVE  Rest'
<1> DEFINE dist == RingDistance(CPReadPointer, CPWritePointer)
<1>1. /\ cpu = "run" /\ cpu' = "burst" /\ written' = written + 1 /\ sent' = sent
      /\ memory' = [memory EXCEPT ![CPWritePointer] = written + 1]
      /\ CPReadWriteDistance < FlowLimit
      /\ CPWritePointer' = Advance(CPWritePointer, CPBase, CPEnd, 1)
  BY DEF GatherPipeBursted
<1>2. /\ fence' = fence
      /\ UNCHANGED <<CPReadPointer, CPReadWriteDistance, CPBreakpoint>>
      /\ UNCHANGED <<gpu, loads, read_ptr, distance_before, bp_enabled, breakpoint, batch, decoded>>
      /\ UNCHANGED <<bFF, m_cp_ctrl_reg>>
  BY DEF GatherPipeBursted, gpuVars, ctrlVars
<1>3. sent = written
  BY <1>1, Numbers DEF FifoInv, CountInv
<1>4. Passed' = Passed /\ Decoded' = Decoded /\ Unreleased' = Unreleased
  BY <1>2 DEF Passed, Decoded, Unreleased
<1>5. written - Passed <= CPReadWriteDistance /\ dist = written - Passed /\ dist < RingBlocks - 1
  BY <1>1, <1>3, Numbers, FifoAssumption DEF Passed, Unreleased
<1>6. RingDistance(CPReadPointer, CPWritePointer)' = dist + 1
  BY <1>1, <1>2, <1>5, Numbers, RingMoves
<1>7. CountInv'
  BY <1>1, <1>2, <1>3, <1>4, Numbers, FifoAssumption DEF FifoInv, CountInv
<1>8. DistanceAccounts'
  <2>1. (CPReadWriteDistance = sent - Decoded + Unreleased)'
    BY <1>1, <1>2, <1>4, Numbers
  <2>2. (RingDistance(CPReadPointer, CPWritePointer) = written - Passed)'
    BY <1>1, <1>4, <1>5, <1>6, Numbers
  <2>3. written' - Passed' = written' - Decoded' + (IF gpu' = "store_pointer" THEN batch'.blocks ELSE 0)
    <3>1. written' \in Int /\ Decoded \in Int /\ batch.blocks \in Int
      BY <1>1, Numbers
    <3>2. QED
      BY <1>2, <1>4, <3>1, Regroup DEF Passed
  <2>4. QED
    BY <2>1, <2>2, <2>3 DEF DistanceAccounts, Decoded
<1>9. IterationInv'
  BY <1>2 DEF FifoInv, IterationInv, RingAhead, CPEnd
<1>10. MemoryInv'
  <2> SUFFICES ASSUME NEW i \in 0 .. dist
               PROVE  memory'[RingAhead(CPReadPointer, i)] = Passed + i + 1
    BY <1>2, <1>4, <1>5, <1>6, Numbers DEF MemoryInv, RingAhead, CPEnd
  <2>1. i \in 0 .. RingBlocks - 1 /\ RingAhead(CPReadPointer, i) \in Addresses
    <3>1. i \in 0 .. RingBlocks - 1
      BY <1>5, Numbers, FifoAssumption
    <3>2. QED
      BY <3>1, Numbers, RingFacts
  <2>2. CASE i = dist
    <3>1. RingAhead(CPReadPointer, i) = CPWritePointer
      BY <2>1, <2>2, Numbers, RingFacts
    <3>2. memory'[CPWritePointer] = written + 1
      BY <1>1, Numbers DEF FifoInv, TypeOK
    <3>3. QED
      BY <1>5, <2>2, <3>1, <3>2, Numbers
  <2>3. CASE i # dist
    <3>1. RingAhead(CPReadPointer, i) # CPWritePointer
      BY <2>1, <2>3, Numbers, RingFacts
    <3>2. memory[RingAhead(CPReadPointer, i)] = Passed + i + 1
      BY <2>3, <1>5, Numbers DEF FifoInv, MemoryInv
    <3>3. QED
      BY <1>1, <2>1, <3>1, <3>2 DEF FifoInv, TypeOK
  <2>4. QED
    BY <2>2, <2>3
<1>11. FenceInv'
  <2>1. Armed' => Armed /\ bFF.BPEnable
    BY <1>1, <1>2 DEF Armed
  <2>2. Armed => RingDistance(CPBreakpoint, CPWritePointer)' = written' - fence
    <3> SUFFICES ASSUME Armed
                 PROVE  RingDistance(CPBreakpoint, CPWritePointer)' = written' - fence
      OBVIOUS
    <3>1. RingDistance(CPBreakpoint, CPWritePointer) = written - fence /\ Decoded <= fence
      BY DEF FifoInv, FenceInv
    <3>2. written - fence < RingBlocks - 1
      BY <1>3, <1>1, <3>1, Numbers, FifoAssumption
    <3>3. QED
      BY <1>1, <1>2, <3>1, <3>2, Numbers, RingMoves
  <2>3. QED
    BY <1>1, <1>2, <1>4, <2>1, <2>2 DEF FifoInv, FenceInv
<1>12. LoadedInv'
  BY <1>1, <1>2, <1>4 DEF FifoInv, LoadedInv, Armed, RingDistance
<1>13. StreamInv'
  BY <1>2 DEF FifoInv, StreamInv, Decoded
<1>14. QED
  BY <1>7, <1>8, <1>9, <1>10, <1>11, <1>12, <1>13 DEF Rest

(* Publishing a block completes the burst.                                 *)
LEMMA PublishStep ==
  ASSUME FifoInv, PublishDistance
  PROVE  Rest'
<1>1. /\ cpu = "burst" /\ cpu' = "run" /\ sent' = sent + 1
      /\ CPReadWriteDistance' = Wrap(CPReadWriteDistance + 1)
  BY DEF PublishDistance
<1>2. /\ UNCHANGED <<memory, written, fence, CPWritePointer, CPReadPointer, CPBreakpoint>>
      /\ UNCHANGED <<gpu, loads, read_ptr, distance_before, bp_enabled, breakpoint, batch, decoded>>
      /\ UNCHANGED <<bFF, m_cp_ctrl_reg>>
  BY DEF PublishDistance, gpuVars, ctrlVars
<1>3. CPReadWriteDistance + 1 <= FlowLimit /\ sent = written - 1 /\ Decoded <= sent
  BY <1>1, Numbers DEF FifoInv, CountInv
<1>4. CPReadWriteDistance' = CPReadWriteDistance + 1
  BY <1>1, <1>3, Numbers, WrapFacts, FifoAssumption
<1>5. Passed' = Passed /\ Decoded' = Decoded /\ Unreleased' = Unreleased
  BY <1>2 DEF Passed, Decoded, Unreleased
<1>6. RingDistance(CPReadPointer, CPWritePointer)' = RingDistance(CPReadPointer, CPWritePointer)
  BY <1>2 DEF RingDistance
<1>7. CountInv'
  BY <1>1, <1>2, <1>3, <1>4, <1>5, Numbers, FifoAssumption DEF CountInv
<1>8. DistanceAccounts'
  <2>1. (CPReadWriteDistance = sent - Decoded + Unreleased)'
    BY <1>1, <1>4, <1>5, Numbers
  <2>2. QED
    BY <1>2, <1>6, <2>1 DEF FifoInv, DistanceAccounts, Decoded
<1>9. IterationInv'
  BY <1>2, <1>4, Numbers DEF FifoInv, IterationInv, RingAhead, CPEnd
<1>10. MemoryInv' /\ StreamInv'
  BY <1>2, <1>5, <1>6 DEF FifoInv, MemoryInv, StreamInv, RingAhead, CPEnd, Decoded
<1>11. FenceInv' /\ LoadedInv'
  <2>1. Armed' => Armed /\ bFF.BPEnable
    BY <1>1, <1>2 DEF Armed
  <2>2. QED
    BY <1>1, <1>2, <1>5, <2>1, Numbers DEF FifoInv, FenceInv, LoadedInv, RingDistance
<1>12. QED
  BY <1>7, <1>8, <1>9, <1>10, <1>11 DEF Rest

(* Register writes leave the distance, the pointers and the blocks alone.  *)
LEMMA RegisterStep ==
  ASSUME FifoInv, cpu # "burst", cpu' # "burst",
         UNCHANGED <<gpuVars, memory, written, sent, CPWritePointer, CPReadPointer, CPReadWriteDistance>>
  PROVE  CountInv' /\ DistanceAccounts' /\ IterationInv' /\ MemoryInv' /\ StreamInv'
<1> USE DEF FifoInv, gpuVars
<1>1. CountInv' /\ StreamInv' /\ DistanceAccounts'
  BY DEF CountInv, StreamInv, Decoded, DistanceAccounts, Unreleased, RingDistance
<1>2. IterationInv'
  BY DEF IterationInv, RingAhead, CPEnd
<1>3. MemoryInv'
  BY DEF MemoryInv, Passed, Decoded, RingDistance, RingAhead, CPEnd
<1>4. QED
  BY <1>1, <1>2, <1>3

(* A new breakpoint is behind everything published.                        *)
LEMMA WriteBreakpointStep ==
  ASSUME FifoInv, WriteBreakpoint
  PROVE  Rest'
<1>1. /\ cpu = "run" /\ cpu' = "breakpoint" /\ ~bFF.BPEnable
      /\ CPBreakpoint' = CPWritePointer /\ fence' = sent
  BY DEF WriteBreakpoint
<1>2. /\ UNCHANGED <<memory, written, sent, CPWritePointer, CPReadPointer, CPReadWriteDistance>>
      /\ UNCHANGED <<gpu, loads, read_ptr, distance_before, bp_enabled, breakpoint, batch, decoded>>
      /\ UNCHANGED <<bFF, m_cp_ctrl_reg>> /\ UNCHANGED gpuVars
  BY DEF WriteBreakpoint, gpuVars, ctrlVars
<1>3. CountInv' /\ DistanceAccounts' /\ IterationInv' /\ MemoryInv' /\ StreamInv'
  BY <1>1, <1>2, RegisterStep
<1>4. sent = written /\ Decoded <= sent
  BY <1>1, Numbers DEF FifoInv, CountInv
<1>5. RingDistance(CPBreakpoint, CPWritePointer)' = 0
  BY <1>1, <1>2, Numbers, RingFacts
<1>6. gpu = "load" =>
        /\ Decoded + 1 <= sent
        /\ "distance" \in loads => Decoded + distance_before <= sent
  BY Numbers DEF FifoInv, IterationInv, Unreleased
<1>7. FenceInv' /\ LoadedInv'
  BY <1>1, <1>2, <1>4, <1>5, <1>6, Numbers DEF FenceInv, LoadedInv, Armed, Decoded
<1>8. QED
  BY <1>3, <1>7 DEF Rest

(* A breakpoint that moves forward stays ahead of what is loaded.          *)
LEMMA MoveBreakpointStep ==
  ASSUME FifoInv, MoveBreakpoint
  PROVE  Rest'
<1>1. cpu = "run" /\ cpu' = "run" /\ bFF.BPEnable
  BY DEF MoveBreakpoint
<1>2. /\ UNCHANGED <<memory, written, sent, CPWritePointer, CPReadPointer, CPReadWriteDistance>>
      /\ UNCHANGED <<gpu, loads, read_ptr, distance_before, bp_enabled, breakpoint, batch, decoded>>
      /\ UNCHANGED <<bFF, m_cp_ctrl_reg>> /\ UNCHANGED gpuVars
  BY DEF MoveBreakpoint, gpuVars, ctrlVars
<1>3. CountInv' /\ DistanceAccounts' /\ IterationInv' /\ MemoryInv' /\ StreamInv'
  BY <1>1, <1>2, RegisterStep
<1>4. PICK f \in fence + 1 .. sent :
        fence' = f /\ CPBreakpoint' = RingBack(CPWritePointer, sent - f)
  BY DEF MoveBreakpoint
<1>5. sent = written /\ Decoded <= fence /\ (gpu = "load" => Decoded + 1 <= fence)
  BY <1>1, Numbers DEF FifoInv, CountInv, FenceInv, Armed
<1>6. sent - f \in 0 .. RingBlocks - 1
  BY <1>4, <1>5, Numbers, FifoAssumption
<1>7. RingDistance(CPBreakpoint, CPWritePointer)' = sent - f
  BY <1>2, <1>4, <1>6, Numbers, RingBreakpoint
<1>8. FenceInv'
  BY <1>1, <1>2, <1>4, <1>5, <1>7, Numbers DEF FenceInv, Armed, Decoded
<1>9. LoadedInv'
  <2> SUFFICES ASSUME gpu = "load", "distance" \in loads
               PROVE  LoadedInv'
    BY <1>2 DEF LoadedInv
  <2>1. \/ Decoded + distance_before <= fence
        \/ /\ "bp_enable" \in loads => bp_enabled
           /\ "breakpoint" \in loads =>
                RingDistance(CPReadPointer, breakpoint) \in 1 .. fence - Decoded
    BY <1>1 DEF FifoInv, LoadedInv, Armed
  <2>2. RingDistance(CPReadPointer, breakpoint)' = RingDistance(CPReadPointer, breakpoint)
        /\ Decoded' = Decoded
    BY <1>2 DEF RingDistance, Decoded
  <2>3. RingDistance(CPReadPointer, breakpoint) \in Int
    BY Numbers, RingFacts
  <2>4. CASE Decoded + distance_before <= fence
    BY <1>2, <1>4, <2>2, <2>4, Numbers DEF LoadedInv
  <2>5. CASE /\ "bp_enable" \in loads => bp_enabled
             /\ "breakpoint" \in loads =>
                  RingDistance(CPReadPointer, breakpoint) \in 1 .. fence - Decoded
    BY <1>1, <1>2, <1>4, <2>2, <2>3, <2>5, Numbers DEF LoadedInv
  <2>6. QED
    BY <2>1, <2>4, <2>5
<1>10. QED
  BY <1>3, <1>8, <1>9 DEF Rest

(* Storing GPReadEnable leaves the breakpoint as it was.                   *)
LEMMA WriteControlStep ==
  ASSUME FifoInv, WriteControl
  PROVE  Rest'
<1>1. /\ cpu \in {"run", "breakpoint"} /\ cpu' = "control"
      /\ bFF'.BPEnable = bFF.BPEnable
      /\ cpu = "run" /\ m_cp_ctrl_reg'.BPEnable => bFF.BPEnable
  BY DEF WriteControl, FifoInv, TypeOK, ControlRegister
<1>2. /\ UNCHANGED <<memory, written, sent, fence>>
      /\ UNCHANGED <<CPWritePointer, CPReadPointer, CPReadWriteDistance, CPBreakpoint>>
      /\ UNCHANGED <<gpu, loads, read_ptr, distance_before, bp_enabled, breakpoint, batch, decoded>>
      /\ UNCHANGED gpuVars
  BY DEF WriteControl, gpuVars, ptrVars
<1>3. CountInv' /\ DistanceAccounts' /\ IterationInv' /\ MemoryInv' /\ StreamInv'
  BY <1>1, <1>2, RegisterStep
<1>4. Armed' => Armed
  BY <1>1 DEF Armed
<1>5. FenceInv' /\ LoadedInv'
  BY <1>1, <1>2, <1>4 DEF FifoInv, FenceInv, LoadedInv, RingDistance, Decoded
<1>6. QED
  BY <1>3, <1>5 DEF Rest

(* The other control bits arm the breakpoint just written.                 *)
LEMMA SetControlStep ==
  ASSUME FifoInv, SetCpControlRegister
  PROVE  Rest'
<1>1. cpu = "control" /\ cpu' = "run" /\ bFF' = m_cp_ctrl_reg
  BY DEF SetCpControlRegister
<1>2. /\ UNCHANGED <<memory, written, sent, fence, m_cp_ctrl_reg>>
      /\ UNCHANGED <<CPWritePointer, CPReadPointer, CPReadWriteDistance, CPBreakpoint>>
      /\ UNCHANGED <<gpu, loads, read_ptr, distance_before, bp_enabled, breakpoint, batch, decoded>>
      /\ UNCHANGED gpuVars
  BY DEF SetCpControlRegister, gpuVars, ptrVars
<1>3. CountInv' /\ DistanceAccounts' /\ IterationInv' /\ MemoryInv' /\ StreamInv'
  BY <1>1, <1>2, RegisterStep
<1>4. Armed' => Armed /\ bFF'.BPEnable
  BY <1>1 DEF Armed
<1>5. FenceInv' /\ LoadedInv'
  BY <1>1, <1>2, <1>4 DEF FifoInv, FenceInv, LoadedInv, RingDistance, Decoded
<1>6. QED
  BY <1>3, <1>5 DEF Rest

(* Steps of the GPU thread that leave the blocks and the registers alone.  *)
LEMMA LoopStep ==
  ASSUME FifoInv, gpu \notin {"store_pointer", "release"}, gpu' \notin {"store_pointer", "release"},
         UNCHANGED <<cpuVars, ctrlVars, ptrVars, decoded, batch>>
  PROVE  /\ CountInv' /\ DistanceAccounts' /\ MemoryInv' /\ StreamInv'
         /\ Armed' = Armed /\ Decoded' = Decoded
         /\ RingDistance(CPBreakpoint, CPWritePointer)' = RingDistance(CPBreakpoint, CPWritePointer)
         /\ UNCHANGED <<CPReadWriteDistance, CPReadPointer, CPBreakpoint, sent, written, fence, cpu, bFF>>
<1> USE DEF FifoInv, cpuVars, ctrlVars, ptrVars
<1>1. CountInv' /\ StreamInv' /\ DistanceAccounts'
  BY DEF CountInv, StreamInv, Decoded, DistanceAccounts, Unreleased, RingDistance
<1>2. MemoryInv'
  BY DEF MemoryInv, Passed, Decoded, RingDistance, RingAhead, CPEnd
<1>3. QED
  BY <1>1, <1>2 DEF Armed, Decoded, RingDistance

(* Passing the test of the distance means there is a block.                *)
LEMMA CheckReadableStep ==
  ASSUME FifoInv, CheckReadable
  PROVE  Rest'
<1>1. /\ gpu = "check" /\ gpu' \in {"at_breakpoint", "idle"}
      /\ gpu' = "at_breakpoint" => CPReadWriteDistance # 0
      /\ UNCHANGED <<cpuVars, ctrlVars, ptrVars, decoded, batch, loads>>
  BY DEF CheckReadable
<1>2. IterationInv' /\ FenceInv' /\ LoadedInv'
  BY <1>1, LoopStep, Numbers DEF FifoInv, IterationInv, FenceInv, LoadedInv
<1>3. QED
  BY <1>1, <1>2, LoopStep DEF Rest

(* When the loop condition lets the GPU pass, there is a block before the  *)
(* breakpoint.                                                             *)
LEMMA CheckBreakpointStep ==
  ASSUME FifoInv, CheckBreakpoint
  PROVE  Rest'
<1>1. /\ gpu = "at_breakpoint" /\ gpu' \in {"load", "idle"}
      /\ gpu' = "load" => ~(bFF.BPEnable /\ CPReadPointer = CPBreakpoint)
      /\ UNCHANGED <<cpuVars, ctrlVars, ptrVars, decoded, batch, loads>>
  BY DEF CheckBreakpoint, AtBreakpoint
<1>2. loads = {} /\ CPReadWriteDistance >= 1 /\ Unreleased = 0 /\ Passed = Decoded
  BY <1>1, Numbers DEF FifoInv, IterationInv, Unreleased, Passed
<1>3. gpu' = "load" /\ Armed => Decoded + 1 <= fence
  <2> SUFFICES ASSUME gpu' = "load", Armed PROVE Decoded + 1 <= fence
    OBVIOUS
  <2>1. CASE ~bFF.BPEnable
    BY <1>2, <2>1, Numbers DEF FifoInv, FenceInv
  <2>2. CASE bFF.BPEnable
    <3>1. RingDistance(CPBreakpoint, CPWritePointer) = written - fence /\ Decoded <= fence
      BY DEF FifoInv, FenceInv
    <3>2. RingDistance(CPReadPointer, CPWritePointer) = written - Decoded
      BY <1>2, Numbers
    <3>3. RingDistance(CPReadPointer, CPBreakpoint) = fence - Decoded
      BY <3>1, <3>2, Numbers, RingBreakpoint
    <3>4. RingDistance(CPReadPointer, CPBreakpoint) # 0
      BY <1>1, <2>2, Numbers, RingFacts
    <3>5. QED
      BY <3>1, <3>3, <3>4, Numbers
  <2>3. QED
    BY <2>1, <2>2
<1>4. FenceInv'
  BY <1>1, <1>3, LoopStep DEF FifoInv, FenceInv
<1>5. IterationInv' /\ LoadedInv'
  BY <1>1, <1>2, LoopStep DEF IterationInv, LoadedInv
<1>6. QED
  BY <1>1, <1>4, <1>5, LoopStep DEF Rest

(* A loaded distance ends before a breakpoint that is not enabled yet.     *)
LEMMA LoadDistanceStep ==
  ASSUME FifoInv, LoadDistance
  PROVE  Rest'
<1>1. /\ gpu = "load" /\ gpu' = "load" /\ "distance" \notin loads
      /\ loads' = loads \cup {"distance"}
      /\ read_ptr' = CPReadPointer /\ distance_before' = CPReadWriteDistance
      /\ UNCHANGED <<cpuVars, ctrlVars, ptrVars, decoded, batch>>
  BY DEF LoadDistance, Load
<1>2. loads = {} /\ CPReadWriteDistance >= 1 /\ Unreleased = 0
  <2>1. loads \in SUBSET {"distance", "bp_enable", "breakpoint"}
    BY DEF FifoInv, TypeOK
  <2>2. QED
    BY <1>1, <2>1 DEF FifoInv, IterationInv, Unreleased
<1>3. IterationInv'
  BY <1>1, <1>2, LoopStep, Numbers DEF IterationInv
<1>4. FenceInv'
  BY <1>1, LoopStep DEF FifoInv, FenceInv
<1>5. LoadedInv'
  <2>1. Armed /\ ~bFF.BPEnable => Decoded + CPReadWriteDistance <= fence
    BY <1>2, Numbers DEF FifoInv, FenceInv
  <2>2. "bp_enable" \notin loads' /\ "breakpoint" \notin loads'
    BY <1>1, <1>2
  <2>3. QED
    BY <1>1, <2>1, <2>2, LoopStep DEF LoadedInv
<1>6. QED
  BY <1>1, <1>3, <1>4, <1>5, LoopStep DEF Rest

(* A loaded enable bit is the one in force.                                *)
LEMMA LoadBPEnableStep ==
  ASSUME ~RelaxedLoads, FifoInv, LoadBPEnable
  PROVE  Rest'
<1>1. /\ gpu = "load" /\ gpu' = "load" /\ "distance" \in loads
      /\ loads' = loads \cup {"bp_enable"} /\ bp_enabled' = bFF.BPEnable
      /\ UNCHANGED <<cpuVars, ctrlVars, ptrVars, decoded, batch>>
      /\ UNCHANGED <<read_ptr, distance_before, breakpoint>>
  BY DEF LoadBPEnable, Load
<1>2. IterationInv' /\ FenceInv'
  BY <1>1, LoopStep DEF FifoInv, IterationInv, FenceInv
<1>3. RingDistance(CPReadPointer, breakpoint)' = RingDistance(CPReadPointer, breakpoint)
  BY <1>1 DEF ptrVars, RingDistance
<1>4. LoadedInv'
  BY <1>1, <1>3, LoopStep DEF FifoInv, LoadedInv
<1>5. QED
  BY <1>1, <1>2, <1>4, LoopStep DEF Rest

(* A loaded breakpoint is ahead of the read pointer.                       *)
LEMMA LoadBreakpointStep ==
  ASSUME ~RelaxedLoads, FifoInv, LoadBreakpoint
  PROVE  Rest'
<1>1. /\ gpu = "load" /\ gpu' = "load" /\ "distance" \in loads
      /\ loads' = loads \cup {"breakpoint"} /\ breakpoint' = CPBreakpoint
      /\ UNCHANGED <<cpuVars, ctrlVars, ptrVars, decoded, batch>>
      /\ UNCHANGED <<read_ptr, distance_before, bp_enabled>>
  BY DEF LoadBreakpoint, Load
<1>2. IterationInv' /\ FenceInv'
  BY <1>1, LoopStep DEF FifoInv, IterationInv, FenceInv
<1>3. Armed => RingDistance(CPReadPointer, breakpoint)' \in 1 .. fence - Decoded
  <2> SUFFICES ASSUME Armed PROVE RingDistance(CPReadPointer, CPBreakpoint) \in 1 .. fence - Decoded
    BY <1>1 DEF ptrVars, RingDistance
  <2>1. RingDistance(CPBreakpoint, CPWritePointer) = written - fence /\ Decoded + 1 <= fence
    BY <1>1 DEF FifoInv, FenceInv
  <2>2. RingDistance(CPReadPointer, CPWritePointer) = written - Decoded
    BY <1>1, Numbers DEF Passed
  <2>3. RingDistance(CPReadPointer, CPBreakpoint) = fence - Decoded
    <3>1. RingDistance(CPBreakpoint, CPWritePointer) <= RingDistance(CPReadPointer, CPWritePointer)
      BY <2>1, <2>2, Numbers
    <3>2. RingDistance(CPReadPointer, CPBreakpoint) =
            RingDistance(CPReadPointer, CPWritePointer) - RingDistance(CPBreakpoint, CPWritePointer)
      BY <3>1, Numbers, RingBreakpoint
    <3>3. QED
      BY <2>1, <2>2, <3>2, Numbers
  <2>4. QED
    BY <2>1, <2>3, Numbers
<1>4. LoadedInv'
  BY <1>1, <1>3, LoopStep DEF FifoInv, LoadedInv
<1>5. QED
  BY <1>1, <1>2, <1>4, LoopStep DEF Rest

(* However stale the loaded breakpoint is, the batch ends before the       *)
(* current one.                                                            *)
LEMMA BatchBeforeFence ==
  ASSUME FifoInv, ReadDataFromFifo
  PROVE  /\ read_ptr = CPReadPointer
         /\ Plan.blocks \in Nat /\ Plan.blocks >= 1 /\ Plan.bytes = Plan.blocks
         /\ Plan.next_read_ptr = RingAhead(CPReadPointer, Plan.blocks)
         /\ Plan.blocks <= distance_before /\ distance_before <= CPReadWriteDistance
         /\ Plan.blocks <= CPReadWriteDistance
         /\ Armed => Decoded + Plan.blocks <= fence
<1>1. /\ gpu = "load" /\ loads = {"distance", "bp_enable", "breakpoint"}
  BY DEF ReadDataFromFifo
<1>2. read_ptr = CPReadPointer /\ distance_before >= 1 /\ distance_before <= CPReadWriteDistance
  BY <1>1, Numbers DEF FifoInv, IterationInv
<1>3. /\ Plan.blocks \in Nat /\ Plan.blocks >= 1 /\ Plan.bytes = Plan.blocks
      /\ Plan.next_read_ptr = RingAhead(CPReadPointer, Plan.blocks)
      /\ Plan.blocks <= distance_before
      /\ read_ptr + Plan.blocks - 1 <= CPEnd
      /\ bp_enabled /\ breakpoint > read_ptr => read_ptr + Plan.blocks <= breakpoint
  BY <1>2, PlanFacts DEF FifoInv
<1>4. Armed => Decoded + Plan.blocks <= fence
  <2> SUFFICES ASSUME Armed PROVE Decoded + Plan.blocks <= fence
    OBVIOUS
  <2>1. CASE Decoded + distance_before <= fence
    BY <1>3, <2>1, Numbers
  <2>2. CASE bp_enabled /\ RingDistance(CPReadPointer, breakpoint) \in 1 .. fence - Decoded
    <3>1. Plan.blocks <= RingDistance(CPReadPointer, breakpoint)
      <4>1. CPReadPointer # breakpoint
        BY <2>2, Numbers, RingFacts
      <4>2. CASE breakpoint > CPReadPointer
        BY <1>2, <1>3, <2>2, <4>2, Numbers DEF RingDistance, Addresses, CPBase, CPEnd
      <4>3. CASE breakpoint < CPReadPointer
        BY <1>2, <1>3, <4>3, Numbers, FifoAssumption DEF RingDistance, Addresses, CPBase, CPEnd
      <4>4. CPReadPointer \in Int /\ breakpoint \in Int
        BY Numbers, FifoAssumption DEF Addresses, CPBase, CPEnd
      <4>5. QED
        BY <4>1, <4>2, <4>3, <4>4
    <3>2. QED
      BY <1>3, <2>2, <3>1, Numbers
  <2>3. QED
    BY <1>1, <2>1, <2>2 DEF FifoInv, LoadedInv
<1>5. QED
  BY <1>2, <1>3, <1>4, Numbers

(* A batch decodes the next blocks, before the breakpoint.                 *)
LEMMA ReadDataStep ==
  ASSUME FifoInv, ReadDataFromFifo
  PROVE  Rest'
<1>1. /\ gpu = "load" /\ gpu' = "store_pointer" /\ batch' = Plan /\ loads' = {}
      /\ UNCHANGED <<cpuVars, ctrlVars, ptrVars>>
  BY DEF ReadDataFromFifo
<1>2. /\ distance_before' = distance_before
      /\ UNCHANGED <<CPReadWriteDistance, CPReadPointer, CPWritePointer, CPBreakpoint>>
      /\ UNCHANGED <<sent, written, fence, cpu, memory, bFF, m_cp_ctrl_reg>>
  BY <1>1 DEF ReadDataFromFifo, cpuVars, ctrlVars, ptrVars
<1>3. /\ Plan.blocks \in Nat /\ Plan.blocks >= 1 /\ Plan.bytes = Plan.blocks
      /\ Plan.next_read_ptr = RingAhead(CPReadPointer, Plan.blocks)
      /\ Plan.blocks <= distance_before /\ distance_before <= FlowLimit
      /\ Plan.blocks <= CPReadWriteDistance
      /\ Armed => Decoded + Plan.blocks <= fence
  BY BatchBeforeFence, Numbers, FifoAssumption
<1>4. Decoded' = Decoded + Plan.blocks /\ Unreleased' = Plan.blocks /\ Unreleased = 0
  BY <1>1, ReadFacts DEF FifoInv, Unreleased
<1>5. Passed = Decoded /\ Passed' = Passed
  BY <1>1, <1>3, <1>4, Numbers DEF Passed
<1>6. RingDistance(CPReadPointer, CPWritePointer)' = RingDistance(CPReadPointer, CPWritePointer)
  BY <1>2 DEF RingDistance
<1>7. CountInv'
  BY <1>2, <1>3, <1>4, Numbers DEF FifoInv, CountInv
<1>8. DistanceAccounts'
  <2>1. (CPReadWriteDistance = sent - Decoded + Unreleased)'
    BY <1>2, <1>3, <1>4, Numbers
  <2>2. (RingDistance(CPReadPointer, CPWritePointer) = written - Passed)'
    BY <1>2, <1>5, <1>6, Numbers
  <2>3. written' - Passed' = written' - Decoded' + (IF gpu' = "store_pointer" THEN batch'.blocks ELSE 0)
    <3>1. written' \in Int /\ Decoded' \in Int /\ batch'.blocks \in Int
      BY <1>1, <1>2, <1>3, <1>4, Numbers
    <3>2. QED
      BY <1>1, <3>1, Regroup DEF Passed
  <2>4. QED
    BY <2>1, <2>2, <2>3 DEF DistanceAccounts, Decoded
<1>9. IterationInv'
  BY <1>1, <1>2, <1>3 DEF IterationInv, RingAhead, CPEnd
<1>10. MemoryInv'
  BY <1>2, <1>5, <1>6 DEF FifoInv, MemoryInv, RingAhead, CPEnd
<1>11. Armed' = Armed
  BY <1>2 DEF Armed
<1>12. FenceInv' /\ LoadedInv'
  BY <1>1, <1>2, <1>3, <1>4, <1>11 DEF FifoInv, FenceInv, LoadedInv, RingDistance
<1>13. StreamInv'
  <2> SUFFICES ASSUME NEW i \in 1 .. Decoded' PROVE decoded'[i] = i
    BY DEF StreamInv
  <2>1. decoded'[i] = IF i <= Decoded THEN decoded[i]
                      ELSE memory[RingAhead(CPReadPointer, i - Decoded - 1)]
    BY ReadFacts, BatchBeforeFence DEF FifoInv
  <2>2. CASE i <= Decoded
    BY <2>1, <2>2, Numbers DEF FifoInv, StreamInv
  <2>3. CASE i > Decoded
    <3>1. i - Decoded - 1 \in 0 .. RingDistance(CPReadPointer, CPWritePointer) - 1
      <4>1. sent <= written
        BY Numbers DEF FifoInv, CountInv
      <4>2. QED
        BY <1>3, <1>4, <1>5, <2>3, <4>1, Numbers
    <3>2. memory[RingAhead(CPReadPointer, i - Decoded - 1)] = Passed + (i - Decoded - 1) + 1
      BY <3>1 DEF FifoInv, MemoryInv
    <3>3. QED
      BY <1>5, <2>1, <2>3, <3>2, Numbers
  <2>4. QED
    BY <1>3, <1>4, <2>2, <2>3, Numbers
<1>14. QED
  BY <1>7, <1>8, <1>9, <1>10, <1>12, <1>13 DEF Rest

(* Moving the read pointer passes exactly the batch.                       *)
LEMMA StorePointerStep ==
  ASSUME FifoInv, StoreReadPointer
  PROVE  Rest'
<1> DEFINE n == batch.blocks
           dist == RingDistance(CPReadPointer, CPWritePointer)
<1>1. /\ gpu = "store_pointer" /\ gpu' = "release" /\ CPReadPointer' = batch.next_read_ptr
      /\ UNCHANGED <<cpuVars, ctrlVars, CPWritePointer, CPReadWriteDistance, CPBreakpoint>>
      /\ UNCHANGED <<loads, batch, decoded>>
  BY DEF StoreReadPointer
<1>2. UNCHANGED <<sent, written, fence, cpu, memory, bFF, m_cp_ctrl_reg>>
  BY <1>1 DEF cpuVars, ctrlVars
<1>3. /\ n >= 1 /\ batch.bytes = n /\ CPReadPointer' = RingAhead(CPReadPointer, n) /\ loads = {}
  BY <1>1 DEF FifoInv, IterationInv
<1>4. Decoded' = Decoded /\ Passed = Decoded - n /\ Passed' = Decoded /\ Unreleased' = Unreleased
  BY <1>1 DEF Decoded, Passed, Unreleased
<1>5. n \in 1 .. dist
  <2>1. Decoded <= written
    BY Numbers DEF FifoInv, CountInv
  <2>2. QED
    BY <1>3, <1>4, <2>1, Numbers
<1>6. RingDistance(CPReadPointer, CPWritePointer)' = dist - n
  BY <1>1, <1>3, <1>5, Numbers, RingMoves
<1>7. CountInv' /\ StreamInv'
  BY <1>1, <1>2 DEF FifoInv, CountInv, StreamInv, Decoded
<1>8. DistanceAccounts'
  <2>1. (CPReadWriteDistance = sent - Decoded + Unreleased)'
    BY <1>1, <1>2, <1>4, Numbers
  <2>2. (RingDistance(CPReadPointer, CPWritePointer) = written - Passed)'
    BY <1>2, <1>4, <1>6, Numbers
  <2>3. written' - Passed' = written' - Decoded' + (IF gpu' = "store_pointer" THEN batch'.blocks ELSE 0)
    <3>1. written' \in Int /\ Decoded \in Int
      BY <1>2, Numbers
    <3>2. QED
      BY <1>1, <1>4, <3>1
  <2>4. QED
    BY <2>1, <2>2, <2>3 DEF DistanceAccounts, Decoded
<1>9. IterationInv'
  BY <1>1, <1>3 DEF IterationInv
<1>10. MemoryInv'
  <2> SUFFICES ASSUME NEW i \in 0 .. dist - n - 1
               PROVE  memory[RingAhead(RingAhead(CPReadPointer, n), i)] = Decoded + i + 1
    BY <1>2, <1>3, <1>4, <1>6 DEF MemoryInv, RingAhead, CPEnd
  <2>1. RingAhead(RingAhead(CPReadPointer, n), i) = RingAhead(CPReadPointer, n + i)
    <3>1. i \in 0 .. dist - n
      BY <1>5, Numbers
    <3>2. QED
      BY <1>5, <3>1, Numbers, RingMoves
  <2>2. n + i \in 0 .. dist - 1
    BY <1>5, Numbers
  <2>3. memory[RingAhead(CPReadPointer, n + i)] = Passed + (n + i) + 1
    BY <2>2 DEF FifoInv, MemoryInv
  <2>4. QED
    BY <1>4, <1>5, <2>1, <2>2, <2>3, Numbers
<1>11. FenceInv' /\ LoadedInv'
  BY <1>1, <1>2, <1>4 DEF FifoInv, FenceInv, LoadedInv, Armed, RingDistance
<1>12. QED
  BY <1>7, <1>8, <1>9, <1>10, <1>11 DEF Rest

(* Releasing the batch accounts for it.                                    *)
LEMMA ReleaseStep ==
  ASSUME FifoInv, ReleaseDistance
  PROVE  Rest'
<1>1. /\ gpu = "release" /\ gpu' = "safe_pointer"
      /\ CPReadWriteDistance' = Wrap(CPReadWriteDistance - batch.bytes)
      /\ UNCHANGED <<cpuVars, ctrlVars, CPWritePointer, CPReadPointer, CPBreakpoint, loads, decoded>>
  BY DEF ReleaseDistance
<1>2. UNCHANGED <<sent, written, fence, cpu, memory, bFF, m_cp_ctrl_reg>>
  BY <1>1 DEF cpuVars, ctrlVars
<1>3. batch.bytes = batch.blocks /\ Unreleased = batch.blocks /\ loads = {}
  BY <1>1 DEF FifoInv, IterationInv, Unreleased
<1>4. Decoded' = Decoded /\ Passed = Decoded /\ Passed' = Decoded /\ Unreleased' = 0
  BY <1>1, Numbers DEF Decoded, Passed, Unreleased
<1>5. Decoded <= sent
  BY DEF FifoInv, CountInv
<1>6. CPReadWriteDistance' = sent - Decoded
  <2>1. CPReadWriteDistance - batch.bytes = sent - Decoded /\ sent - Decoded \in Nat
    BY <1>3, <1>5, Numbers
  <2>2. sent - Decoded < RingBlocks
    BY <1>5, Numbers, FifoAssumption
  <2>3. QED
    BY <1>1, <2>1, <2>2, WrapFacts
<1>7. CountInv'
  BY <1>2, <1>3, <1>4, <1>6, Numbers, FifoAssumption DEF FifoInv, CountInv
<1>8. DistanceAccounts'
  <2>1. (RingDistance(CPReadPointer, CPWritePointer) = written - Passed)'
    BY <1>1, <1>2, <1>4, Numbers DEF RingDistance
  <2>2. written' - Passed' = written' - Decoded' + (IF gpu' = "store_pointer" THEN batch'.blocks ELSE 0)
    <3>1. written' \in Int /\ Decoded \in Int
      BY <1>2, Numbers
    <3>2. QED
      BY <1>1, <1>4, <3>1
  <2>3. CPReadWriteDistance' = sent' - Decoded' + Unreleased'
    BY <1>2, <1>4, <1>6, Numbers
  <2>4. QED
    BY <2>1, <2>2, <2>3 DEF DistanceAccounts, Decoded
<1>9. IterationInv'
  BY <1>1, <1>3 DEF IterationInv
<1>10. MemoryInv' /\ StreamInv'
  BY <1>1, <1>2, <1>4 DEF FifoInv, MemoryInv, StreamInv, RingDistance, RingAhead, CPEnd, Decoded
<1>11. FenceInv' /\ LoadedInv'
  BY <1>1, <1>2, <1>4 DEF FifoInv, FenceInv, LoadedInv, Armed, RingDistance
<1>12. QED
  BY <1>7, <1>8, <1>9, <1>10, <1>11 DEF Rest

(* What a distance of zero means.                                          *)
LEMMA Drained ==
  ASSUME FifoInv, CPReadWriteDistance = 0
  PROVE  Unreleased = 0 /\ Decoded = sent
<1>1. \A s, d, u \in Nat : d <= s /\ 0 = s - d + u => u = 0 /\ d = s
  OBVIOUS
<1>2. /\ sent \in Nat /\ Decoded \in Nat /\ Unreleased \in Nat
      /\ CPReadWriteDistance = sent - Decoded + Unreleased
  BY Numbers
<1>3. Decoded <= sent
  BY DEF FifoInv, CountInv
<1>4. QED
  BY <1>1, <1>2, <1>3

(* A FIFO that is empty may be re-initialised: the GPU thread is not       *)
(* inside an iteration and no breakpoint is armed.                         *)
LEMMA RelinkStep ==
  ASSUME FifoInv, RelinkFifo, CPReadWriteDistance = 0
  PROVE  Rest'
<1>1. /\ cpu = "run" /\ ~bFF.BPEnable /\ CPReadWriteDistance' = 0
      /\ CPWritePointer' = CPBase /\ CPReadPointer' = CPBase
      /\ UNCHANGED <<cpuVars, gpuVars, ctrlVars>>
  BY DEF RelinkFifo
<1>2. /\ UNCHANGED <<cpu, memory, written, sent, fence>>
      /\ UNCHANGED <<gpu, loads, read_ptr, distance_before, bp_enabled, breakpoint, batch, decoded>>
      /\ UNCHANGED <<bFF, m_cp_ctrl_reg>>
  BY <1>1 DEF cpuVars, gpuVars, ctrlVars
<1>3. sent = written /\ Decoded <= sent
  BY <1>1, Numbers DEF FifoInv, CountInv
<1>4. Unreleased = 0 /\ Decoded = sent
  BY Drained
<1>5. Outside /\ loads = {}
  <2>1. gpu \notin {"at_breakpoint", "load"}
    BY DEF FifoInv, IterationInv
  <2>2. gpu \notin {"store_pointer", "release"}
    BY <1>4, Numbers DEF FifoInv, IterationInv, Unreleased
  <2>3. QED
    BY <2>1, <2>2 DEF Outside, FifoInv, IterationInv
<1>6. RingDistance(CPReadPointer, CPWritePointer)' = 0
  BY <1>1 DEF RingDistance, CPBase
<1>7. Decoded' = Decoded /\ Unreleased' = Unreleased
  BY <1>2 DEF Decoded, Unreleased
<1>8. CountInv'
  BY <1>1, <1>2, <1>7 DEF FifoInv, CountInv
<1>9. DistanceAccounts'
  <2>1. CPReadWriteDistance' = sent' - Decoded' + Unreleased'
    BY <1>1, <1>2, <1>4, <1>7, Numbers
  <2>2. gpu' # "store_pointer"
    BY <1>2, <1>5 DEF Outside
  <2>3. RingDistance(CPReadPointer, CPWritePointer)' = written' - Decoded' + 0
    BY <1>2, <1>3, <1>4, <1>6, <1>7, Numbers
  <2>4. QED
    BY <2>1, <2>2, <2>3 DEF DistanceAccounts, Decoded
<1>10. IterationInv'
  BY <1>2, <1>5 DEF Outside, IterationInv
<1>11. MemoryInv' /\ StreamInv'
  BY <1>2, <1>6 DEF FifoInv, MemoryInv, StreamInv, Decoded
<1>12. FenceInv' /\ LoadedInv'
  BY <1>1, <1>2, <1>5 DEF FenceInv, LoadedInv, Armed, Outside
<1>13. QED
  BY <1>8, <1>9, <1>10, <1>11, <1>12 DEF Rest

-----------------------------------------------------------------------------
(* The pointer the guest sees.                                             *)

(* SafeInv in numbers.                                                     *)
LEMMA SeenFacts ==
  ASSUME FifoInv
  PROVE  /\ SafeCPReadPointer \in Addresses /\ VisibleDistance \in 0 .. RingBlocks - 1
         /\ Seen \in Int /\ Released \in Int /\ Slack \in Nat
         /\ Seen = written - VisibleDistance /\ VisibleDistance = written - Seen
         /\ CPReadWriteDistance = sent - Released
         /\ MaxBlocks \in Nat /\ BatchBlocks \in Nat
<1>1. SafeCPReadPointer \in Addresses
  BY DEF FifoInv, TypeOK
<1>2. VisibleDistance \in 0 .. RingBlocks - 1
  BY <1>1, Numbers, RingFacts DEF VisibleDistance
<1>3. Seen = written - VisibleDistance /\ Released = Decoded - Unreleased
  BY DEF Seen, Released
<1>4. MaxBlocks \in Nat /\ BatchBlocks \in Nat
  BY FifoAssumption
<1>5. Slack \in Nat
  BY <1>4 DEF Slack
<1>6. QED
  BY <1>1, <1>2, <1>3, <1>4, <1>5, Numbers

(* What is released is at most `lag' blocks ahead of what the guest sees.  *)
LEMMA LagBound ==
  ASSUME FifoInv, SafeInv, NEW lag \in Nat, EndWithin(lag)
  PROVE  Released <= Seen + lag
<1>1. /\ written \in Nat /\ Decoded \in Nat /\ Unreleased \in Nat
      /\ Seen \in Nat /\ written <= MaxBlocks /\ Decoded <= written
      /\ Released = Decoded - Unreleased
  BY Numbers, SeenFacts DEF FifoInv, SafeInv, CountInv, Released
<1>2. CASE Decoded <= Seen + lag
  BY <1>1, <1>2
<1>3. CASE Decoded > Seen + lag
  <2>1. Seen \in 0 .. MaxBlocks - lag
    BY <1>1, <1>3, SeenFacts
  <2>2. PICK m \in Seen .. Seen + lag - BatchBlocks : AllEnd(m)
    BY <2>1 DEF EndWithin
  <2>3. m \in Nat /\ Seen <= m /\ m + BatchBlocks <= Seen + lag
    BY <1>1, <2>2, SeenFacts
  <2>4. Decoded <= m + Slack
    BY <2>2, <2>3 DEF SafeInv
  <2>5. Slack <= BatchBlocks
    BY SeenFacts DEF Slack
  <2>6. QED
    BY <1>1, <2>3, <2>4, <2>5, SeenFacts
<1>4. QED
  BY <1>1, <1>2, <1>3

-----------------------------------------------------------------------------
(* The invariant and what follows from it.                                 *)

(* The invariant holds initially.                                          *)
LEMMA FifoInit == Init => FifoInv
<1> SUFFICES ASSUME Init PROVE FifoInv
  OBVIOUS
<1> USE FifoAssumption DEF Init
<1>1. TypeOK
  <2>1. CPBase \in Addresses /\ 0 \in 0 .. DistanceModulus - 1
    BY WrapFacts DEF Addresses, CPBase, CPEnd
  <2>2. AllOff \in ControlRegister
    BY DEF AllOff, ControlRegister
  <2>3. memory \in [Addresses -> Nat]
    OBVIOUS
  <2>4. NoBatch \in [blocks : Nat, bytes : Nat, next_read_ptr : Addresses]
    BY <2>1 DEF NoBatch
  <2>5. events \in Seq(BOOLEAN) /\ decoded \in Seq(Nat)
    OBVIOUS
  <2>6. QED
    BY <2>1, <2>2, <2>3, <2>4, <2>5 DEF TypeOK
<1>2. Decoded = 0
  BY DEF Decoded
<1>3. RingDistance(CPReadPointer, CPWritePointer) = 0
  BY DEF RingDistance, CPBase
<1>4. CountInv /\ DistanceAccounts
  <2>1. CountInv
    BY <1>2 DEF CountInv
  <2>2. Unreleased = 0 /\ gpu # "store_pointer"
    BY DEF Unreleased
  <2>3. Len(decoded) = 0
    OBVIOUS
  <2>4. CPReadWriteDistance = 0 /\ sent = 0 /\ written = 0
    OBVIOUS
  <2> HIDE FifoAssumption DEF Init
  <2>5. CPReadWriteDistance = sent - Len(decoded) + Unreleased
    BY <2>2, <2>3, <2>4
  <2>6. RingDistance(CPReadPointer, CPWritePointer) =
          written - Len(decoded) + (IF gpu = "store_pointer" THEN batch.blocks ELSE 0)
    BY <1>3, <2>2, <2>3, <2>4
  <2>7. QED
    BY <2>1, <2>5, <2>6 DEF DistanceAccounts
<1>5. IterationInv /\ MemoryInv /\ StreamInv
  BY <1>2, <1>3 DEF IterationInv, MemoryInv, StreamInv
<1>6. FenceInv /\ LoadedInv
  BY DEF FenceInv, LoadedInv, Armed, AllOff
<1>7. QED
  BY <1>1, <1>4, <1>5, <1>6 DEF FifoInv

(* Every step keeps the invariant.                                         *)
LEMMA FifoStep ==
  ASSUME EmptyIsEmpty, ~RelaxedLoads, FifoInv, [Next]_vars
  PROVE  FifoInv'
<1>1. TypeOK'
  BY TypeStep
<1>2. Rest'
  <2>1. CASE \/ UpdateInterrupts \/ StartPayload \/ SetCPStatusFromGPU \/ CompareInterrupt
             \/ SetInterruptWaiting \/ UpdateInterruptsFromVideoBackend
             \/ StoreSafeReadPointer \/ UNCHANGED vars
    <3>1. /\ UNCHANGED <<cpuVars, ctrlVars, CPWritePointer, CPReadPointer, CPReadWriteDistance, CPBreakpoint,
                         loads, read_ptr, distance_before, bp_enabled, breakpoint, batch, decoded>>
          /\ gpu' = gpu \/ (Outside /\ Outside')
      BY <2>1 DEF UpdateInterrupts, StartPayload, SetCPStatusFromGPU, CompareInterrupt,
                  SetInterruptWaiting, UpdateInterruptsFromVideoBackend,
                  StoreSafeReadPointer, Outside,
                  vars, gpuVars, ptrVars
    <3>2. QED
      BY <3>1, QuietStep
  <2>2. ASSUME RelinkFifo PROVE Rest'
    BY <2>2, RelinkStep DEF EmptyIsEmpty, RelinkFifo
  <2>3. QED
    BY <2>1, <2>2, GatherStep, PublishStep, WriteBreakpointStep, MoveBreakpointStep,
       WriteControlStep, SetControlStep, CheckReadableStep, CheckBreakpointStep,
       LoadDistanceStep, LoadBPEnableStep, LoadBreakpointStep, ReadDataStep, StorePointerStep,
       ReleaseStep
       DEF Next, CpuNext, GpuNext
<1>3. QED
  BY <1>1, <1>2 DEF FifoInv, Rest

(* Steps that move neither pointer of the guest's distance.                *)
LEMMA SafeQuiet ==
  ASSUME FifoInv, SafeInv, UNCHANGED <<written, decoded, CPWritePointer, SafeCPReadPointer>>,
         Slack' = Slack, Unreleased' \in Nat, Unreleased' <= Unreleased
  PROVE  SafeInv'
<1>1. Seen' = Seen /\ Decoded' = Decoded /\ written' = written
  BY DEF Seen, VisibleDistance, RingDistance, Decoded
<1>2. Released' = Decoded - Unreleased'
  BY <1>1 DEF Released
<1>3. Seen <= Released'
  BY <1>2, Numbers, SeenFacts DEF SafeInv, Released
<1>4. QED
  BY <1>1, <1>3 DEF SafeInv, AllEnd

(* The distance the guest sees does not wrap when it writes a block.       *)
LEMMA SafeGather ==
  ASSUME CommandsFit, FifoInv, SafeInv, GatherPipeBursted
  PROVE  SafeInv'
<1>1. /\ cpu = "run" /\ written' = written + 1 /\ written < MaxBlocks
      /\ CPReadWriteDistance < FlowLimit
      /\ CPWritePointer' = Advance(CPWritePointer, CPBase, CPEnd, 1)
      /\ SafeCPReadPointer' = SafeCPReadPointer /\ UNCHANGED <<gpu, batch, decoded>>
  BY DEF GatherPipeBursted, gpuVars
<1>2. PICK lag \in 0 .. RingBlocks - FlowLimit - 1 : EndWithin(lag)
  BY DEF CommandsFit
<1>3. Released <= Seen + lag
  BY <1>2, LagBound, FifoAssumption
<1>4. sent = written
  BY <1>1, Numbers DEF FifoInv, CountInv
<1>5. VisibleDistance < RingBlocks - 1
  BY <1>1, <1>2, <1>3, <1>4, Numbers, SeenFacts, FifoAssumption
<1>6. VisibleDistance' = VisibleDistance + 1
  BY <1>1, <1>5, Numbers, SeenFacts, RingMoves DEF VisibleDistance
<1>7. Seen' = Seen
  <2>1. Seen' = written' - VisibleDistance'
    BY DEF Seen
  <2>2. QED
    BY <1>1, <1>6, <2>1, Numbers, SeenFacts
<1>8. Released' = Released /\ Decoded' = Decoded /\ Slack' = Slack
  BY <1>1 DEF Released, Decoded, Unreleased, Slack
<1>9. written' <= MaxBlocks
  BY <1>1, Numbers, SeenFacts
<1>10. QED
  BY <1>7, <1>8, <1>9 DEF SafeInv, AllEnd

(* A batch goes at most its own length past the boundaries it can miss.    *)
LEMMA SafeRead ==
  ASSUME FifoInv, SafeInv, ReadDataFromFifo
  PROVE  SafeInv'
<1>1. /\ gpu = "load" /\ gpu' = "store_pointer" /\ batch' = Plan
      /\ UNCHANGED <<written, CPWritePointer, SafeCPReadPointer>>
  BY DEF ReadDataFromFifo, cpuVars, ptrVars
<1>2. Plan.blocks \in Nat /\ Plan.blocks <= BatchBlocks /\ Decoded' = Decoded + Plan.blocks
  BY PlanFacts, ReadFacts DEF FifoInv
<1>3. Unreleased = 0 /\ Unreleased' = Plan.blocks /\ Slack = 0 /\ Slack' = BatchBlocks
  BY <1>1 DEF Unreleased, Slack
<1>4. Seen' = Seen
  BY <1>1 DEF Seen, VisibleDistance, RingDistance
<1>5. Released' = Decoded' - Unreleased' /\ Released = Decoded - Unreleased
  BY DEF Released
<1>6. Released' = Released
  BY <1>2, <1>3, <1>5, Numbers
<1>7. ASSUME NEW m \in Nat, Seen <= m, AllEnd(m)
      PROVE  Decoded' <= m + Slack'
  <2>1. Decoded <= m + Slack
    BY <1>7 DEF SafeInv
  <2>2. QED
    BY <1>2, <1>3, <2>1, Numbers, SeenFacts
<1>8. QED
  BY <1>1, <1>4, <1>6, <1>7 DEF SafeInv, AllEnd

(* A batch that ends on a boundary is shown to the guest; one that does    *)
(* not has not reached the next run of boundaries.                         *)
LEMMA SafeStore ==
  ASSUME FifoInv, SafeInv, StoreSafeReadPointer
  PROVE  SafeInv'
<1>1. /\ gpu = "safe_pointer" /\ gpu' = "status"
      /\ UNCHANGED <<written, decoded, batch, CPWritePointer, CPReadPointer>>
  BY DEF StoreSafeReadPointer, cpuVars
<1>2. /\ Unreleased = 0 /\ Unreleased' = 0 /\ Slack = BatchBlocks /\ Slack' = 0
      /\ Passed = Decoded /\ Decoded' = Decoded
  BY <1>1, Numbers DEF Unreleased, Slack, Passed, Decoded
<1>3. Released' = Decoded /\ Released = Decoded
  BY <1>2, Numbers DEF Released
<1>4. CASE SafeCPReadPointer' = CPReadPointer
  <2>1. VisibleDistance' = written - Decoded
    <3>1. VisibleDistance' = RingDistance(CPReadPointer, CPWritePointer)
      BY <1>1, <1>4 DEF VisibleDistance, RingDistance
    <3>2. QED
      BY <1>2, <3>1, Numbers
  <2>2. Seen' = Decoded
    <3>1. Seen' = written' - VisibleDistance'
      BY DEF Seen
    <3>2. QED
      BY <1>1, <2>1, <3>1, Numbers
  <2>3. ASSUME NEW m \in Nat, Decoded <= m PROVE Decoded' <= m + Slack'
    BY <1>2, <2>3, Numbers
  <2>4. QED
    BY <1>1, <1>3, <2>2, <2>3, Numbers DEF SafeInv
<1>5. CASE SafeCPReadPointer' = SafeCPReadPointer /\ decoded[Len(decoded)] \notin CommandEnds
  <2>1. Seen' = Seen
    BY <1>1, <1>5 DEF Seen, VisibleDistance, RingDistance
  <2>2. ASSUME NEW m \in Nat, Seen <= m, AllEnd(m) PROVE Decoded' <= m + Slack'
    <3>1. Decoded <= m + BatchBlocks
      BY <1>2, <2>2 DEF SafeInv
    <3>2. Decoded >= 1 => Decoded \notin CommandEnds
      <4>1. Decoded >= 1 => decoded[Decoded] = Decoded
        BY Numbers DEF FifoInv, StreamInv
      <4>2. QED
        BY <1>5, <4>1 DEF Decoded
    <3>3. ~(Decoded >= m + 1)
      <4> SUFFICES ASSUME Decoded >= m + 1 PROVE FALSE
        OBVIOUS
      <4>1. Decoded \in m + 1 .. m + BatchBlocks /\ Decoded >= 1
        BY <3>1, Numbers, SeenFacts
      <4>2. QED
        BY <2>2, <3>2, <4>1 DEF AllEnd
    <3>4. QED
      BY <1>2, <3>3, Numbers
  <2>3. QED
    BY <1>1, <1>3, <2>1, <2>2 DEF SafeInv, AllEnd
<1>6. QED
  BY <1>4, <1>5 DEF StoreSafeReadPointer

(* Starting over shows the guest an empty ring, which it is.               *)
LEMMA SafeRelink ==
  ASSUME FifoInv, SafeInv, RelinkFifo, CPReadWriteDistance = 0
  PROVE  SafeInv'
<1>1. /\ cpu = "run" /\ CPWritePointer' = CPBase /\ SafeCPReadPointer' = CPBase
      /\ UNCHANGED <<written, decoded, gpu, batch>>
  BY DEF RelinkFifo, cpuVars, gpuVars
<1>2. VisibleDistance' = 0
  BY <1>1 DEF VisibleDistance, RingDistance, CPBase
<1>3. Seen' = written
  <2>1. Seen' = written' - VisibleDistance'
    BY DEF Seen
  <2>2. QED
    BY <1>1, <1>2, <2>1, Numbers
<1>4. sent = written /\ Decoded <= sent
  BY <1>1, Numbers DEF FifoInv, CountInv
<1>5. Unreleased = 0 /\ Decoded = written
  BY <1>4, Drained
<1>6. Released' = Released /\ Decoded' = Decoded /\ Slack' = Slack /\ Released = Decoded
  BY <1>1, <1>5, Numbers DEF Released, Decoded, Unreleased, Slack
<1>7. ASSUME NEW m \in Nat, written <= m PROVE Decoded <= m + Slack
  BY <1>5, <1>7, Numbers, SeenFacts
<1>8. QED
  BY <1>1, <1>3, <1>5, <1>6, <1>7, Numbers DEF SafeInv

(* Every step keeps SafeInv.                                               *)
LEMMA SafeStep ==
  ASSUME CommandsFit, EmptyIsEmpty, FifoInv, SafeInv, [Next]_vars
  PROVE  SafeInv'
<1>1. CASE GatherPipeBursted
  BY <1>1, SafeGather
<1>2. CASE ReadDataFromFifo
  BY <1>2, SafeRead
<1>3. CASE StoreSafeReadPointer
  BY <1>3, SafeStore
<1>4. CASE RelinkFifo
  BY <1>4, SafeRelink DEF EmptyIsEmpty, RelinkFifo
<1>5. CASE ReleaseDistance
  <2>1. /\ gpu = "release" /\ gpu' = "safe_pointer"
        /\ UNCHANGED <<written, decoded, CPWritePointer, SafeCPReadPointer>>
    BY <1>5 DEF ReleaseDistance, cpuVars
  <2>2. Slack' = Slack /\ Unreleased' = 0
    BY <2>1 DEF Slack, Unreleased
  <2>3. QED
    BY <2>1, <2>2, Numbers, SafeQuiet
<1>6. CASE StoreReadPointer
  <2>1. /\ gpu = "store_pointer" /\ gpu' = "release" /\ batch' = batch
        /\ UNCHANGED <<written, decoded, CPWritePointer, SafeCPReadPointer>>
    BY <1>6 DEF StoreReadPointer, cpuVars
  <2>2. Slack' = Slack /\ Unreleased' = Unreleased
    BY <2>1 DEF Slack, Unreleased
  <2>3. QED
    BY <2>1, <2>2, Numbers, SafeQuiet
<1>7. CASE \/ PublishDistance \/ WriteBreakpoint \/ MoveBreakpoint \/ WriteControl
           \/ SetCpControlRegister \/ UpdateInterrupts \/ StartPayload \/ SetCPStatusFromGPU
           \/ CompareInterrupt \/ SetInterruptWaiting \/ UpdateInterruptsFromVideoBackend
           \/ CheckReadable \/ CheckBreakpoint \/ LoadDistance \/ LoadBPEnable
           \/ LoadBreakpoint \/ UNCHANGED vars
  <2>1. /\ UNCHANGED <<written, decoded, batch, CPWritePointer, SafeCPReadPointer>>
        /\ gpu' = gpu \/ /\ gpu \notin {"store_pointer", "release", "safe_pointer"}
                         /\ gpu' \notin {"store_pointer", "release", "safe_pointer"}
    BY <1>7 DEF PublishDistance, WriteBreakpoint, MoveBreakpoint, WriteControl,
                SetCpControlRegister, UpdateInterrupts, StartPayload, SetCPStatusFromGPU,
                CompareInterrupt, SetInterruptWaiting, UpdateInterruptsFromVideoBackend,
                CheckReadable, CheckBreakpoint, LoadDistance, LoadBPEnable, LoadBreakpoint,
                Load, vars, cpuVars, gpuVars, ptrVars
  <2>2. Slack' = Slack /\ Unreleased' = Unreleased
    BY <2>1 DEF Slack, Unreleased
  <2>3. QED
    BY <2>1, <2>2, Numbers, SafeQuiet
<1>8. QED
  BY <1>1, <1>2, <1>3, <1>4, <1>5, <1>6, <1>7 DEF Next, CpuNext, GpuNext

(* A distance the guest reads covers what is not released.                 *)
LEMMA SafeCovers ==
  ASSUME FifoInv, SafeInv
  PROVE  VisibleDistanceCoversUnread
<1> SUFFICES ASSUME cpu = "run" PROVE VisibleDistance >= CPReadWriteDistance
  BY DEF VisibleDistanceCoversUnread
<1>1. sent = written
  BY Numbers DEF FifoInv, CountInv
<1>2. QED
  BY <1>1, Numbers, SeenFacts DEF SafeInv

(* SafeInv holds initially.                                                *)
LEMMA SafeInit == Init => SafeInv
<1> SUFFICES ASSUME Init PROVE SafeInv
  OBVIOUS
<1>1. FifoInv
  BY FifoInit
<1>2. written = 0 /\ VisibleDistance = 0 /\ Decoded = 0 /\ Unreleased = 0
  BY DEF Init, VisibleDistance, RingDistance, CPBase, Decoded, Unreleased
<1>3. Seen = 0 /\ Released = 0
  BY <1>1, <1>2, SeenFacts, Numbers DEF Released
<1>4. QED
  BY <1>1, <1>2, <1>3, SeenFacts DEF SafeInv

(* A guest that starts over finds the FIFO empty.                          *)
LEMMA SafeEmpty ==
  ASSUME Patient, FifoInv, SafeInv
  PROVE  EmptyIsEmpty
<1> SUFFICES ASSUME cpu = "run", FifoLooksEmpty PROVE CPReadWriteDistance = 0
  BY DEF EmptyIsEmpty
<1>1. VisibleDistance = 0
  BY DEF FifoLooksEmpty, Patient
<1>2. VisibleDistance >= CPReadWriteDistance
  BY SafeCovers DEF VisibleDistanceCoversUnread
<1>3. QED
  BY <1>1, <1>2, Numbers

(* Both invariants, when the commands fit.                                 *)
LEMMA SafeInvariant ==
  ASSUME Patient, CommandsFit, ~RelaxedLoads
  PROVE  Spec => [](FifoInv /\ SafeInv)
<1>1. FifoInv /\ SafeInv /\ [Next]_vars => (FifoInv /\ SafeInv)'
  BY SafeEmpty, FifoStep, SafeStep
<1>2. QED
  BY <1>1, FifoInit, SafeInit, PTL DEF Spec

(* The invariant of the other theorems: a guest that never starts over     *)
(* needs no assumption on its commands.                                    *)
LEMMA FifoInvariant ==
  ASSUME Patient, ~RelaxedLoads
  PROVE  Spec => [](FifoInv /\ EmptyIsEmpty)
<1>1. CASE RelinkWhen = "never"
  <2>1. EmptyIsEmpty
    BY <1>1 DEF EmptyIsEmpty, FifoLooksEmpty
  <2>2. FifoInv /\ [Next]_vars => FifoInv'
    BY <2>1, FifoStep
  <2>3. QED
    BY <2>1, <2>2, FifoInit, PTL DEF Spec
<1>2. CASE RelinkWhen = "rw_distance" /\ CommandsFit
  <2>1. FifoInv /\ SafeInv => EmptyIsEmpty
    BY SafeEmpty
  <2>2. Spec => [](FifoInv /\ SafeInv)
    BY <1>2, SafeInvariant
  <2>3. QED
    BY <2>1, <2>2, PTL
<1>3. QED
  BY <1>1, <1>2 DEF Patient

(* The distance the guest reads never falls short of what is published and *)
(* not released, although the pointer it is computed from lags behind by   *)
(* whole commands: it does not wrap as long as the commands fit.           *)
THEOREM GuestSeesEnough ==
  ASSUME Patient, CommandsFit, ~RelaxedLoads
  PROVE  Spec => []VisibleDistanceCoversUnread
<1>1. FifoInv /\ SafeInv => VisibleDistanceCoversUnread
  BY SafeCovers
<1>2. QED
  BY <1>1, SafeInvariant, PTL

(* Type correctness: the pointers stay in the ring and the distance in its *)
(* register.                                                               *)
THEOREM FifoTypeOK ==
  ASSUME Patient, ~RelaxedLoads
  PROVE  Spec => []TypeOK
<1>1. FifoInv => TypeOK
  BY DEF FifoInv
<1>2. QED
  BY <1>1, FifoInvariant, PTL

(* The distance register accounts for every block, although two threads    *)
(* update it without a lock.                                               *)
THEOREM DistanceIsExact ==
  ASSUME Patient, ~RelaxedLoads
  PROVE  Spec => []DistanceAccounts
<1>1. FifoInv => DistanceAccounts
  BY DEF FifoInv
<1>2. QED
  BY <1>1, FifoInvariant, PTL

(* The assertion of RunGpuLoop cannot fail.                                *)
THEOREM AssertionHolds ==
  ASSUME Patient, ~RelaxedLoads
  PROVE  Spec => []DistanceNeverNegative
<1>1. FifoInv => DistanceNeverNegative
  <2> SUFFICES ASSUME FifoInv, gpu = "store_pointer"
               PROVE  distance_before < DistanceModulus \div 2 /\ distance_before >= batch.bytes
    BY DEF DistanceNeverNegative
  <2>1. batch.bytes <= distance_before /\ distance_before <= FlowLimit
    BY DEF FifoInv, IterationInv
  <2>2. QED
    BY <2>1, Numbers, WrapFacts, FifoAssumption
<1>2. QED
  BY <1>1, FifoInvariant, PTL

(* No batch crosses an enabled breakpoint, wherever the CPU thread enables *)
(* or moves it between the GPU thread's loads.                             *)
THEOREM BreakpointIsRespected ==
  ASSUME Patient, ~RelaxedLoads
  PROVE  Spec => []NeverPastBreakpoint
<1>1. FifoInv => NeverPastBreakpoint
  BY DEF FifoInv, FenceInv, Armed, NeverPastBreakpoint, Decoded
<1>2. QED
  BY <1>1, FifoInvariant, PTL

-----------------------------------------------------------------------------
(* The FIFO implements the command stream.                                 *)

(* Every step is a step of CommandStream or leaves it alone.               *)
LEMMA StreamStep ==
  ASSUME EmptyIsEmpty, ~RelaxedLoads, FifoInv, [Next]_vars
  PROVE  [Stream!Next]_(Stream!vars)
<1> DEFINE limit == IF bFF.BPEnable THEN fence ELSE -1
<1>1. Decoded \in Nat /\ sent \in Nat /\ Decoded <= sent /\ FifoInv'
  BY Numbers, FifoStep DEF FifoInv, CountInv
<1>2. bFF'.BPEnable => Decoded' <= fence' /\ fence' <= sent'
  BY <1>1 DEF FifoInv, FenceInv, Armed
<1>3. CASE PublishDistance
  <2>1. sent' = sent + 1 /\ decoded' = decoded /\ limit' = limit
    BY <1>3 DEF PublishDistance, gpuVars, ctrlVars
  <2>2. QED
    BY <2>1 DEF Stream!Next, Stream!Send
<1>4. CASE ReadDataFromFifo
  <2> DEFINE n == Decoded + Plan.blocks
  <2>1. sent' = sent /\ limit' = limit /\ bFF' = bFF /\ fence' = fence
    BY <1>4 DEF ReadDataFromFifo, cpuVars, ctrlVars
  <2>2. /\ Plan.blocks \in Nat /\ Plan.blocks >= 1 /\ Plan.blocks <= CPReadWriteDistance
        /\ bFF.BPEnable => n <= fence
    BY <1>4, BatchBeforeFence DEF Armed
  <2>3. Unreleased = 0
    BY <1>4 DEF ReadDataFromFifo, Unreleased
  <2>4. n \in Decoded + 1 .. sent
    BY <1>1, <2>2, <2>3, Numbers
  <2>5. limit = -1 \/ n <= limit
    BY <2>2
  <2>6. decoded' = [i \in 1 .. n |-> IF i <= Decoded THEN decoded[i] ELSE i]
    <3>1. decoded' \in Seq(Nat) /\ Decoded' = n
      BY <1>4, ReadFacts DEF FifoInv
    <3>2. \A i \in 1 .. n : decoded'[i] = i
      BY <1>1, <3>1 DEF FifoInv, StreamInv
    <3>3. \A i \in 1 .. n : decoded'[i] = IF i <= Decoded THEN decoded[i] ELSE i
      BY <1>1, <2>4, <3>2 DEF FifoInv, StreamInv
    <3>4. decoded' = [i \in 1 .. n |-> decoded'[i]]
      BY <3>1 DEF Decoded
    <3>5. QED
      BY <3>3, <3>4
  <2>7. QED
    BY <2>1, <2>4, <2>5, <2>6 DEF Stream!Next, Stream!Decode, Decoded
<1>5. CASE MoveBreakpoint \/ SetCpControlRegister
  <2>1. sent' = sent /\ decoded' = decoded /\ Decoded' = Decoded /\ fence' \in Nat
    BY <1>1, <1>5 DEF MoveBreakpoint, SetCpControlRegister, gpuVars, Decoded, FifoInv, TypeOK
  <2>2. limit' \in (Decoded .. sent) \cup {-1}
    BY <1>1, <1>2, <2>1
  <2>3. QED
    BY <2>1, <2>2 DEF Stream!Next, Stream!Limit, Decoded
<1>6. CASE WriteBreakpoint \/ WriteControl
  <2>1. sent' = sent /\ decoded' = decoded /\ bFF'.BPEnable = bFF.BPEnable
    BY <1>6 DEF WriteBreakpoint, WriteControl, gpuVars, ctrlVars, FifoInv, TypeOK, ControlRegister
  <2>2. bFF.BPEnable => fence' = fence
    BY <1>6 DEF WriteBreakpoint, WriteControl
  <2>3. QED
    BY <2>1, <2>2 DEF Stream!vars
<1>7. CASE \/ GatherPipeBursted \/ UpdateInterrupts \/ StartPayload \/ SetCPStatusFromGPU
           \/ CompareInterrupt \/ SetInterruptWaiting
           \/ UpdateInterruptsFromVideoBackend \/ CheckReadable
           \/ CheckBreakpoint \/ LoadDistance \/ LoadBPEnable \/ LoadBreakpoint
           \/ StoreReadPointer \/ ReleaseDistance \/ StoreSafeReadPointer
           \/ RelinkFifo \/ UNCHANGED vars
  <2>1. sent' = sent /\ decoded' = decoded /\ bFF' = bFF /\ fence' = fence
    BY <1>7 DEF GatherPipeBursted, UpdateInterrupts, StartPayload, SetCPStatusFromGPU,
                CompareInterrupt, SetInterruptWaiting, UpdateInterruptsFromVideoBackend, CheckReadable,
                CheckBreakpoint, LoadDistance, LoadBPEnable, LoadBreakpoint, Load,
                StoreReadPointer, ReleaseDistance, StoreSafeReadPointer, RelinkFifo,
                vars, cpuVars, gpuVars, ctrlVars
  <2>2. QED
    BY <2>1 DEF Stream!vars
<1>8. QED
  BY <1>3, <1>4, <1>5, <1>6, <1>7 DEF Next, CpuNext, GpuNext

(* Blocks are decoded in the order the guest wrote them, each once, after  *)
(* they are published and before an enabled breakpoint: every step of the  *)
(* two threads is a step of CommandStream or leaves it alone.              *)
THEOREM FifoImplementsStream ==
  ASSUME Patient, ~RelaxedLoads
  PROVE  Spec => ImplementsStream
<1>1. Init => Stream!Init
  BY DEF Init, AllOff, Stream!Init
<1>2. FifoInv /\ EmptyIsEmpty /\ [Next]_vars => [Stream!Next]_(Stream!vars)
  BY StreamStep
<1>3. QED
  BY <1>1, <1>2, FifoInvariant, PTL DEF Spec, ImplementsStream, Stream!Spec

-----------------------------------------------------------------------------
(* The interrupt handshake, with any guest.                                *)

(* Nothing is on its way; or the GPU thread is about to schedule an        *)
(* update; or one is scheduled.                                            *)
HandshakeInv ==
  /\ m_interrupt_waiting \in BOOLEAN
  /\ gpu = "schedule" => m_interrupt_waiting /\ events = <<>>
  /\ m_interrupt_waiting /\ gpu # "schedule" => \E update : events = <<update>>
  /\ ~m_interrupt_waiting => events = <<>>

(* Every step keeps the handshake.                                         *)
LEMMA HandshakeStep == HandshakeInv /\ [Next]_vars => HandshakeInv'
<1> SUFFICES ASSUME HandshakeInv, [Next]_vars
             PROVE  HandshakeInv'
  OBVIOUS
<1>1. CASE UpdateInterrupts
  <2>1. m_interrupt_waiting /\ gpu # "schedule" /\ gpu' = gpu
    BY <1>1 DEF UpdateInterrupts, HandshakeInv, gpuVars
  <2>2. PICK update : events = <<update>>
    BY <2>1 DEF HandshakeInv
  <2>3. Tail(events) = <<>>
    BY <2>2
  <2>4. events' = <<>> /\ m_interrupt_waiting' = FALSE
    BY <1>1, <2>3 DEF UpdateInterrupts
  <2>5. QED
    BY <2>1, <2>4 DEF HandshakeInv
<1>2. CASE SetInterruptWaiting
  BY <1>2 DEF SetInterruptWaiting, HandshakeInv
<1>3. CASE UpdateInterruptsFromVideoBackend
  <2>1. events = <<>> /\ m_interrupt_waiting' /\ gpu' # "schedule" /\ m_interrupt_waiting' = TRUE
    BY <1>3 DEF UpdateInterruptsFromVideoBackend, HandshakeInv
  <2>2. events' = <<interrupt>>
    BY <1>3, <2>1 DEF UpdateInterruptsFromVideoBackend
  <2>3. QED
    BY <2>1, <2>2 DEF HandshakeInv
<1>4. CASE ~UpdateInterrupts /\ ~SetInterruptWaiting /\ ~UpdateInterruptsFromVideoBackend
  <2>1. /\ UNCHANGED <<m_interrupt_waiting, events>>
        /\ gpu' = gpu \/ (gpu # "schedule" /\ gpu' # "schedule")
    BY <1>4 DEF Next, CpuNext, GpuNext, GatherPipeBursted, PublishDistance, WriteBreakpoint,
                MoveBreakpoint, WriteControl, SetCpControlRegister, RelinkFifo, StartPayload,
                SetCPStatusFromGPU, CompareInterrupt, CheckReadable, CheckBreakpoint,
                LoadDistance, LoadBPEnable, LoadBreakpoint, Load, ReadDataFromFifo,
                StoreReadPointer, ReleaseDistance, StoreSafeReadPointer, vars, intVars, gpuVars
  <2>2. QED
    BY <2>1 DEF HandshakeInv
<1>5. QED
  BY <1>1, <1>2, <1>3, <1>4

(* The GPU thread never schedules a second interrupt update, and never     *)
(* waits for one that is not coming.                                       *)
THEOREM OneInterruptUpdate == Spec => []OneUpdateInFlight
<1>1. Init => HandshakeInv
  BY DEF Init, HandshakeInv
<1>2. HandshakeInv => OneUpdateInFlight
  <2> SUFFICES ASSUME HandshakeInv PROVE OneUpdateInFlight
    OBVIOUS
  <2> DEFINE about == IF gpu = "schedule" THEN 1 ELSE 0
  <2>1. m_interrupt_waiting <=> (events # <<>> \/ gpu = "schedule")
    <3>1. \A update : <<update>> # <<>>
      OBVIOUS
    <3>2. QED
      BY <3>1, Zenon DEF HandshakeInv
  <2>2. Len(events) + about <= 1
    <3>1. CASE events = <<>>
      BY <3>1
    <3>2. CASE events # <<>>
      <4>1. gpu # "schedule" /\ m_interrupt_waiting
        BY <3>2 DEF HandshakeInv
      <4>2. PICK update : events = <<update>>
        BY <4>1 DEF HandshakeInv
      <4>3. Len(events) = 1
        BY <4>2
      <4>4. QED
        BY <4>1, <4>3
    <3>3. QED
      BY <3>1, <3>2
  <2>3. QED
    BY <2>1, <2>2 DEF OneUpdateInFlight
<1>3. QED
  BY <1>1, <1>2, HandshakeStep, PTL DEF Spec
=============================================================================
