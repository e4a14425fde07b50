------------------------ MODULE CommandBuffersProofs ------------------------
(***************************************************************************)
(* Proofs about CommandBuffers, for every number of command buffers and of *)
(* frames in flight, every bound on the counters, with and without the     *)
(* worker thread: a slot, a frame's descriptor pools and a deferred object *)
(* are touched again only when neither the worker nor the GPU has to do    *)
(* with them, the window has one user at a time, a stale swap chain is not *)
(* acquired from, and the ring implements the fence clock.                 *)
(***************************************************************************)
EXTENDS CommandBuffers, WellFoundedInduction, TLAPS

(* The last counter handed to the worker or to the driver, and the last    *)
(* one handed to the driver.                                               *)
LastSubmitted == IF Submitted THEN Counter ELSE Counter - 1
Sent == executed + Len(gpu)

(* The worker's head item is in the driver's hands, and still marked.      *)
HeadSent == wpc \in {"present", "complete", "clear", "pop"}
HeadMarked == wpc \in {"present", "complete", "clear"}

(* The counter before the queue's head, and the last one without a mark.   *)
Base == IF HeadSent THEN Sent - 1 ELSE Sent
Cleared == IF HeadMarked THEN Sent - 1 ELSE Sent

(* The distance from the current slot to another, in ring order.           *)
Ahead(s) == IF s > cur THEN s - cur ELSE s - cur + NUM_COMMAND_BUFFERS

(* The other slots hold the counters before the current one, oldest first. *)
RingInv ==
  /\ Counter >= 1
  /\ \A s \in Slots \ {cur} :
       slot[s].counter = IF Counter + Ahead(s) >= NUM_COMMAND_BUFFERS
                           THEN Counter + Ahead(s) - NUM_COMMAND_BUFFERS ELSE 0

(* Everything submitted is with the worker, with the GPU or executed, in   *)
(* the order of the counters.                                              *)
OrderInv ==
  /\ Base \in Nat /\ Base + Len(queue) = LastSubmitted
  /\ wpc # "idle" => queue # <<>>
  /\ \A i \in 1 .. Len(queue) :
       (i = 1 /\ wpc = "pop") \/ slot[queue[i].slot].counter = Base + i
  /\ \A i \in 1 .. Len(gpu) :
       gpu[i].counter = executed + i /\ slot[gpu[i].slot].counter = executed + i

(* What the flags the recording thread reads say about a slot.             *)
FlagInv ==
  /\ \A s \in Slots :
       /\ slot[s].waiting <=> Cleared < slot[s].counter /\ slot[s].counter <= LastSubmitted
       /\ s \in signalled <=> slot[s].counter <= executed
       /\ \A k \in slot[s].cleanup : k <= slot[s].counter
  /\ completed <= executed /\ completed <= Cleared

Waiting == vt.pc \in {"idle", "fence"}
At(pc) == vt.pc = pc \/ (Waiting /\ vt.ret = pc)

(* The slot waited for is a submitted one that is not known to be done,    *)
(* and past the first wait the worker has let go of it.                    *)
WaitInv ==
  /\ Waiting => completed < slot[vt.slot].counter /\ slot[vt.slot].counter <= LastSubmitted
  /\ vt.pc = "fence" => slot[vt.slot].counter <= Cleared

(* The buffer belongs to the current frame until the frame has advanced.   *)
FrameInv ==
  /\ ~(At("reuse") \/ At("begin")) => slot[cur].frame = frame
  /\ At("reuse") => slot[cur].frame # frame

Acquiring ==
  \/ vt.pc \in {"check", "acquire", "recreate", "rebuilt", "reacquire"}
  \/ vt.then \in {"rebuilt", "recreate"}

(* Presents are queued in order; a present that has not returned is later  *)
(* than the completed serial; none is left while an image is acquired.     *)
PresentInv ==
  /\ tracker.completed <= tracker.queued
  /\ \A i \in 1 .. Len(queue) : queue[i].serial # 0 =>
       /\ queue[i].serial <= tracker.queued
       /\ (i = 1 /\ wpc \in {"clear", "pop"}) \/ tracker.completed < queue[i].serial
       /\ \A j \in 1 .. i - 1 : queue[j].serial < queue[i].serial
  /\ wpc \in {"present", "complete"} => Item.serial # 0
  /\ Acquiring => \A i \in 1 .. Len(queue) :
       queue[i].serial = 0 \/ (i = 1 /\ wpc \in {"clear", "pop"})
  /\ vt.pc = "present" => queue = <<>>

(* Where the recording thread goes when its submission is over, and the    *)
(* failure it has published or is about to act on.                         *)
StaleInv ==
  /\ vt.pc \in {"record", "guard", "check"} \/ At("record") => vt.then = "record"
  /\ stale => failure \/ (vt.then = "recreate" /\ vt.pc \notin {"acquire", "reacquire"})
  /\ vt.pc \in {"acquire", "reacquire"} => ~stale

RingPart == RingInv /\ OrderInv /\ FlagInv
ThreadPart == WaitInv /\ FrameInv /\ PresentInv /\ StaleInv
BuffersInv == TypeOK /\ RingPart /\ ThreadPart

-----------------------------------------------------------------------------
(* Arithmetic: the ring, least elements, the next frame.                   *)

LEMMA RingModulo ==
  ASSUME NEW n \in Nat \ {0}, NEW a \in Nat, a < 2 * n
  PROVE  a % n = IF a < n THEN a ELSE a - n
<1> DEFINE q == a \div n
           r == a % n
<1>1. q \in Int /\ r \in 0 .. n - 1 /\ a = n * q + r
  BY SMT
<1> HIDE DEF q, r
<1>2. q >= 2 => n * q >= 2 * n
  BY <1>1, SMT
<1>3. q <= -1 => n * q <= -n
  BY <1>1, SMT
<1>4. q = 0 \/ q = 1
  BY <1>1, <1>2, <1>3, SMT
<1>5. r = IF a < n THEN a ELSE a - n
  BY <1>1, <1>4, SMT
<1>6. QED
  BY <1>5 DEF r

LEMMA AfterFacts ==
  ASSUME TypeOK
  PROVE  /\ NUM_COMMAND_BUFFERS \in Nat /\ NUM_COMMAND_BUFFERS >= 2
         /\ 1 \in Others
         /\ \A k \in Others : After(k) \in Slots \ {cur} /\ Ahead(After(k)) = k
         /\ \A s \in Slots \ {cur} : Ahead(s) \in Others /\ After(Ahead(s)) = s
<1>1. NUM_COMMAND_BUFFERS \in Nat /\ NUM_COMMAND_BUFFERS >= 2
  BY RingAssumption
<1>2. cur \in 0 .. NUM_COMMAND_BUFFERS - 1
  BY DEF TypeOK, Slots
<1>3. ASSUME NEW k \in Others
      PROVE  After(k) = IF cur + k < NUM_COMMAND_BUFFERS THEN cur + k
                        ELSE cur + k - NUM_COMMAND_BUFFERS
  <2> DEFINE a == cur + k
             n == NUM_COMMAND_BUFFERS
  <2>1. n \in Nat \ {0} /\ a \in Nat /\ a < 2 * n
    BY <1>1, <1>2 DEF Others
  <2>2. a % n = IF a < n THEN a ELSE a - n
    <3> HIDE DEF a, n
    <3>1. QED BY <2>1, RingModulo
  <2>3. QED
    BY <1>1, <1>2, <2>1, <2>2 DEF After, Others
<1>4. QED
  BY <1>1, <1>2, <1>3 DEF Others, Slots, Ahead

LEMMA MinFacts ==
  ASSUME NEW T \in SUBSET Nat, T # {}
  PROVE  Min(T) \in T
<1> DEFINE R == OpToRel(<, Nat)
<1>1. IsWellFoundedOn(R, Nat)
  BY NatLessThanWellFounded
<1>2. PICK x \in T : \A y \in T : ~ (<<y, x>> \in R)
  <2> HIDE DEF R
  <2>1. QED BY <1>1, WFMin
<1>3. \A y \in Nat : y < x => <<y, x>> \in R
  BY DEF OpToRel
<1> HIDE DEF R
<1>4. ASSUME NEW y \in T
      PROVE  x <= y
  <2>1. x \in Nat /\ y \in Nat
    OBVIOUS
  <2>2. ~(y < x)
    BY <1>2, <1>3, <2>1, Zenon
  <2>3. QED
    BY <2>1, <2>2
<1>5. QED
  BY <1>4 DEF Min

LEMMA MaxFacts ==
  ASSUME NEW a \in Nat, NEW b \in Nat
  PROVE  Max({a, b}) \in Nat
<1>1. \E x \in {a, b} : \A y \in {a, b} : x >= y
  OBVIOUS
<1>2. QED
  BY <1>1 DEF Max

LEMMA NextFrame ==
  ASSUME NEW n \in Nat \ {0, 1}, NEW f \in 0 .. n - 1
  PROVE  (f + 1) % n \in (0 .. n - 1) \ {f}
BY RingModulo

-----------------------------------------------------------------------------
(* What follows from the invariant in one state.                           *)

LEMMA QueueFacts ==
  ASSUME NEW T, NEW q \in Seq(T)
  PROVE  /\ Len(q) \in Nat /\ (q = <<>> <=> Len(q) = 0)
         /\ \A i \in 1 .. Len(q) : q[i] \in T
         /\ q # <<>> =>
              /\ Head(q) = q[1] /\ 1 \in 1 .. Len(q)
              /\ Tail(q) \in Seq(T) /\ Len(Tail(q)) = Len(q) - 1
              /\ \A i \in 1 .. Len(q) - 1 : Tail(q)[i] = q[i + 1]
         /\ \A e \in T :
              /\ Append(q, e) \in Seq(T) /\ Len(Append(q, e)) = Len(q) + 1
              /\ \A i \in 1 .. Len(q) : Append(q, e)[i] = q[i]
              /\ Append(q, e)[Len(q) + 1] = e
OBVIOUS

LEMMA ItemTypes ==
  ASSUME TypeOK
  PROVE  /\ \A i \in 1 .. Len(queue) : queue[i].slot \in Slots /\ queue[i].serial \in Nat
         /\ \A i \in 1 .. Len(gpu) : gpu[i].slot \in Slots /\ gpu[i].counter \in Nat
         /\ queue # <<>> => Item = queue[1] /\ 1 \in 1 .. Len(queue)
         /\ gpu # <<>> => Head(gpu) = gpu[1] /\ 1 \in 1 .. Len(gpu)
<1>1. queue \in Seq([slot : Slots, serial : Nat]) /\ gpu \in Seq([slot : Slots, counter : Nat])
  BY DEF TypeOK
<1>2. /\ \A i \in 1 .. Len(queue) : queue[i] \in [slot : Slots, serial : Nat]
      /\ queue # <<>> => Item = queue[1] /\ 1 \in 1 .. Len(queue)
  BY <1>1, QueueFacts, Zenon DEF Item
<1>3. /\ \A i \in 1 .. Len(gpu) : gpu[i] \in [slot : Slots, counter : Nat]
      /\ gpu # <<>> => Head(gpu) = gpu[1] /\ 1 \in 1 .. Len(gpu)
  BY <1>1, QueueFacts, Zenon
<1>4. \A i \in 1 .. Len(queue) : queue[i].slot \in Slots /\ queue[i].serial \in Nat
  BY <1>2
<1>5. \A i \in 1 .. Len(gpu) : gpu[i].slot \in Slots /\ gpu[i].counter \in Nat
  BY <1>3
<1>6. QED
  BY <1>2, <1>3, <1>4, <1>5

LEMMA CounterFacts ==
  ASSUME TypeOK, RingInv
  PROVE  /\ Counter \in Nat \ {0} /\ LastSubmitted \in Nat
         /\ LastSubmitted <= Counter /\ Counter <= LastSubmitted + 1
         /\ \A s \in Slots : slot[s].counter \in Nat
         /\ \A s \in Slots \ {cur} : slot[s].counter < Counter
         /\ \A s, t \in Slots :
              slot[s].counter = slot[t].counter /\ slot[s].counter # 0 => s = t
<1>1. /\ \A s \in Slots : slot[s].counter \in Nat
      /\ cur \in Slots /\ Counter \in Nat /\ Counter >= 1
  BY DEF TypeOK, RingInv, Counter
<1>2. LastSubmitted \in Nat /\ LastSubmitted <= Counter /\ Counter <= LastSubmitted + 1
  BY <1>1 DEF LastSubmitted
<1>3. NUM_COMMAND_BUFFERS \in Nat /\ NUM_COMMAND_BUFFERS >= 2
  BY RingAssumption
<1>4. \A s \in Slots \ {cur} : Ahead(s) \in 1 .. NUM_COMMAND_BUFFERS - 1
  BY <1>1, <1>3 DEF Ahead, Slots
<1>5. \A s, t \in Slots \ {cur} : Ahead(s) = Ahead(t) => s = t
  BY <1>1, <1>3 DEF Ahead, Slots
<1>6. \A s \in Slots \ {cur} : slot[s].counter < Counter
  BY <1>1, <1>3, <1>4 DEF RingInv
<1>7. ASSUME NEW s \in Slots, NEW t \in Slots,
             slot[s].counter = slot[t].counter, slot[s].counter # 0
      PROVE  s = t
  <2>1. CASE s = cur \/ t = cur
    BY <1>1, <1>6, <1>7, <2>1 DEF Counter
  <2>2. CASE s # cur /\ t # cur
    <3>1. Ahead(s) = Ahead(t)
      BY <1>1, <1>3, <1>4, <1>7, <2>2 DEF RingInv
    <3>2. QED
      BY <1>5, <2>2, <3>1
  <2>3. QED
    BY <2>1, <2>2
<1>8. QED
  BY <1>1, <1>2, <1>6, <1>7

LEMMA OrderFacts ==
  ASSUME TypeOK, RingPart
  PROVE  /\ Len(queue) \in Nat /\ Len(gpu) \in Nat /\ Sent \in Nat /\ Cleared \in Nat
         /\ executed <= Sent /\ Sent <= LastSubmitted /\ executed <= LastSubmitted
         /\ Base <= Cleared /\ Cleared <= Sent
         /\ queue = <<>> <=> Len(queue) = 0
         /\ gpu = <<>> <=> Len(gpu) = 0
         /\ queue = <<>> => wpc = "idle" /\ Sent = LastSubmitted
<1>1. /\ Len(queue) \in Nat /\ Len(gpu) \in Nat /\ executed \in Nat
      /\ queue = <<>> <=> Len(queue) = 0
      /\ gpu = <<>> <=> Len(gpu) = 0
  BY DEF TypeOK
<1>2. Base \in Nat /\ Base + Len(queue) = LastSubmitted /\ (wpc # "idle" => queue # <<>>)
  BY DEF RingPart, OrderInv
<1>3. QED
  BY <1>1, <1>2 DEF Sent, Cleared, Base, HeadSent, HeadMarked

(* What is neither executed nor let go of by the worker is still pending,  *)
(* and nothing else is.                                                    *)
LEMMA PendingFacts ==
  ASSUME TypeOK, RingPart
  PROVE  /\ \A c \in InFlight : c > executed \/ c > Cleared
         /\ \A s \in Slots : slot[s].counter <= executed /\ slot[s].counter <= Cleared =>
              ~WorkerHolds(s) /\ ~GpuHolds(s)
<1>1. Len(queue) \in Nat /\ Len(gpu) \in Nat /\ executed \in Nat /\ Sent \in Nat
  BY OrderFacts DEF TypeOK
<1>2. ASSUME NEW i \in 1 .. Len(queue), ~(i = 1 /\ wpc = "pop")
      PROVE  slot[queue[i].slot].counter > Cleared
  <2>1. slot[queue[i].slot].counter = Base + i
    BY <1>2 DEF RingPart, OrderInv
  <2>2. Base + i > Cleared
    BY <1>1, <1>2 DEF Base, Cleared, HeadSent, HeadMarked
  <2>3. QED
    BY <2>1, <2>2
<1>3. ASSUME NEW i \in 1 .. Len(gpu)
      PROVE  gpu[i].counter > executed /\ slot[gpu[i].slot].counter > executed
  BY <1>1 DEF RingPart, OrderInv
<1>4. \A c \in InFlight : c > executed \/ c > Cleared
  BY <1>2, <1>3 DEF InFlight
<1>5. ASSUME NEW s \in Slots, slot[s].counter <= executed, slot[s].counter <= Cleared
      PROVE  ~WorkerHolds(s) /\ ~GpuHolds(s)
  <2>1. slot[s].counter \in Nat /\ Cleared \in Nat
    BY OrderFacts DEF TypeOK
  <2>2. ~WorkerHolds(s)
    BY <1>2, <1>5, <2>1 DEF WorkerHolds
  <2>3. ~GpuHolds(s)
    BY <1>1, <1>3, <1>5, <2>1 DEF GpuHolds
  <2>4. QED
    BY <2>2, <2>3
<1>6. QED
  BY <1>4, <1>5

-----------------------------------------------------------------------------
(* What the helpers do to the recording thread's locals.                   *)

LEMMA GotoFacts ==
  ASSUME TypeOK, NEW pc \in Positions, Goto(pc)
  PROVE  /\ vt' \in Locals /\ vt'.pc = pc
         /\ pc = "record" => vt'.then = "record"
         /\ pc # "record" =>
              vt'.op = vt.op /\ vt'.slot = vt.slot /\ vt'.ret = vt.ret /\ vt'.then = vt.then
<1>1. vt \in Locals
  BY DEF TypeOK
<1>2. Recording \in Locals
  BY RingAssumption DEF Recording, Locals, Operations, Flush, Op, Slots, Positions
<1>3. CASE pc = "record"
  BY <1>2, <1>3 DEF Goto, Recording
<1>4. CASE pc # "record"
  BY <1>1, <1>4 DEF Goto, Locals
<1>5. QED
  BY <1>3, <1>4

LEMMA CallWaitFacts ==
  ASSUME TypeOK, NEW s \in Slots, NEW ret \in {"record", "account", "reuse", "begin"},
         CallWait(s, ret)
  PROVE  /\ vt' \in Locals /\ vt'.slot = s /\ vt'.ret = ret
         /\ vt'.pc = IF slot[s].waiting THEN "idle" ELSE "fence"
         /\ vt'.op = vt.op /\ vt'.then = vt.then
BY DEF TypeOK, Locals, CallWait, Positions

(* A submission by way of the worker, and one that the thread makes itself. *)
QueueSubmission(op) ==
  /\ slot' = [slot EXCEPT ![cur].waiting = TRUE]
  /\ queue' = Append(queue, [slot |-> cur,
                             serial |-> IF op.present THEN tracker.queued + 1 ELSE 0])
  /\ tracker' = [tracker EXCEPT !.queued = IF op.present THEN @ + 1 ELSE @]
  /\ vt'.pc = "account"
DirectSubmission ==
  /\ UNCHANGED <<slot, queue, tracker>>
  /\ vt'.pc = "drain"

LEMMA CallSubmitFacts ==
  ASSUME TypeOK, NEW op \in Operations, NEW then \in {"record", "rebuilt", "recreate"},
         CallSubmit(op, then)
  PROVE  /\ vt' \in Locals /\ vt'.op = op /\ vt'.then = then
         /\ vt'.slot = vt.slot /\ vt'.ret = vt.ret
         /\ QueueSubmission(op) \/ DirectSubmission
         /\ op.wait => DirectSubmission
<1>1. vt \in Locals
  BY DEF TypeOK
<1>2. CASE config.threaded /\ op.worker /\ ~op.wait
  BY <1>1, <1>2 DEF CallSubmit, QueueSubmission, Locals, Positions
<1>3. CASE ~(config.threaded /\ op.worker /\ ~op.wait)
  BY <1>1, <1>3 DEF CallSubmit, DirectSubmission, Locals, Positions
<1>4. QED
  BY <1>2, <1>3

LEMMA OperationTypes ==
  /\ {Flush, Execute, WaitForGPUIdle, PresentImage, PresentNothing} \subseteq Operations
  /\ WaitForGPUIdle.wait
  /\ ~Flush.present /\ ~Execute.present /\ ~WaitForGPUIdle.present
BY DEF Operations, Flush, Execute, WaitForGPUIdle, PresentImage, PresentNothing, Op

-----------------------------------------------------------------------------
(* The types.                                                              *)

LEMMA TypeInit == Init => TypeOK
<1> SUFFICES ASSUME Init PROVE TypeOK
  OBVIOUS
<1>1. 0 \in Slots /\ \A n \in FrameChoices : n \in Nat /\ n >= 2 /\ n <= NUM_FRAMES_IN_FLIGHT
  BY RingAssumption DEF Slots
<1>2. vt \in Locals
  BY <1>1 DEF Init, Recording, Locals, Operations, Flush, Op, Positions
<1>3. config \in [threaded : BOOLEAN, frames : FrameChoices, guarded : BOOLEAN]
  BY DEF Init
<1>4. 0 \in 0 .. config.frames - 1 /\ 0 \in Frames
  <2>1. config.frames \in FrameChoices
    BY <1>3
  <2>2. config.frames \in Nat /\ config.frames >= 2 /\ config.frames <= NUM_FRAMES_IN_FLIGHT
    BY <1>1, <2>1
  <2>3. QED
    BY <2>2, RingAssumption DEF Frames
<1>5. slot \in [Slots -> [counter : Nat, frame : Frames, waiting : BOOLEAN, cleanup : SUBSET Nat]]
  BY <1>4 DEF Init
<1>6. /\ lastFence \in [Frames -> Nat] /\ signalled \subseteq Slots
      /\ tracker \in [queued : Nat, begun : Nat, completed : Nat, active : Nat]
  BY DEF Init
<1>7. queue \in Seq([slot : Slots, serial : Nat]) /\ gpu \in Seq([slot : Slots, counter : Nat])
  BY DEF Init
<1>8. /\ cur \in Slots /\ frame \in 0 .. config.frames - 1
      /\ completed \in Nat /\ executed \in Nat /\ wpc = "idle"
      /\ failure \in BOOLEAN /\ stale \in BOOLEAN /\ image = "unbound"
  BY <1>1, <1>4 DEF Init
<1>9. QED
  BY <1>2, <1>3, <1>5, <1>6, <1>7, <1>8, Zenon DEF TypeOK

LEMMA SubmissionTypes ==
  ASSUME TypeOK, NEW op \in Operations, QueueSubmission(op) \/ DirectSubmission
  PROVE  /\ slot' \in [Slots -> [counter : Nat, frame : Frames, waiting : BOOLEAN,
                                 cleanup : SUBSET Nat]]
         /\ queue' \in Seq([slot : Slots, serial : Nat])
         /\ tracker' \in [queued : Nat, begun : Nat, completed : Nat, active : Nat]
<1>1. CASE QueueSubmission(op)
  <2>1. slot' \in [Slots -> [counter : Nat, frame : Frames, waiting : BOOLEAN,
                             cleanup : SUBSET Nat]]
    BY <1>1 DEF TypeOK, QueueSubmission
  <2>2. tracker' \in [queued : Nat, begun : Nat, completed : Nat, active : Nat]
    <3>1. tracker \in [queued : Nat, begun : Nat, completed : Nat, active : Nat]
      BY DEF TypeOK
    <3>2. CASE op.present
      BY <1>1, <3>1, <3>2 DEF QueueSubmission
    <3>3. CASE ~op.present
      BY <1>1, <3>1, <3>3 DEF QueueSubmission
    <3>4. QED
      BY <3>2, <3>3
  <2>3. [slot |-> cur, serial |-> IF op.present THEN tracker.queued + 1 ELSE 0] \in
          [slot : Slots, serial : Nat]
    BY DEF TypeOK
  <2>4. queue' \in Seq([slot : Slots, serial : Nat])
    BY <1>1, <2>3 DEF TypeOK, QueueSubmission
  <2>5. QED
    BY <2>1, <2>2, <2>4
<1>2. CASE DirectSubmission
  BY <1>2 DEF DirectSubmission, TypeOK
<1>3. QED
  BY <1>1, <1>2

(* The frames of a configuration are among the frame resources.            *)
LEMMA FrameTypes ==
  ASSUME TypeOK
  PROVE  /\ config.frames \in Nat \ {0, 1}
         /\ 0 .. config.frames - 1 \subseteq Frames
         /\ frame \in Frames
<1>1. config.frames \in FrameChoices /\ frame \in 0 .. config.frames - 1
  BY DEF TypeOK
<1>2. config.frames \in 2 .. NUM_FRAMES_IN_FLIGHT /\ NUM_FRAMES_IN_FLIGHT \in Nat
  BY <1>1, RingAssumption
<1>3. QED
  BY <1>1, <1>2 DEF Frames

LEMMA TypeStep ==
  ASSUME BuffersInv, [Next]_vars
  PROVE  TypeOK'
<1> USE DEF vars, ringVars, workVars, wsiVars
<1>0. TypeOK /\ RingPart /\ WaitInv
  BY DEF BuffersInv, ThreadPart
<1> DEFINE SlotType == [counter : Nat, frame : Frames, waiting : BOOLEAN, cleanup : SUBSET Nat]
<1>1. CASE WorkerBegin
  <2>1. Item.serial \in Nat
    BY <1>0, <1>1, ItemTypes DEF WorkerBegin
  <2>2. tracker' \in [queued : Nat, begun : Nat, completed : Nat, active : Nat]
    BY <1>0, <1>1, <2>1 DEF WorkerBegin, TypeOK
  <2>3. QED
    BY <1>0, <1>1, <2>2 DEF WorkerBegin, TypeOK
<1>2. CASE WorkerSubmit
  <2>1. queue # <<>>
    BY <1>0, <1>2 DEF WorkerSubmit, RingPart, OrderInv
  <2>2. [slot |-> Item.slot, counter |-> slot[Item.slot].counter] \in [slot : Slots, counter : Nat]
    BY <1>0, <2>1, ItemTypes, CounterFacts DEF RingPart
  <2>3. gpu' \in Seq([slot : Slots, counter : Nat])
    BY <1>0, <1>2, <2>2 DEF WorkerSubmit, TypeOK
  <2>4. QED
    BY <1>0, <1>2, <2>3 DEF WorkerSubmit, TypeOK
<1>3. CASE WorkerPresent
  BY <1>0, <1>3 DEF WorkerPresent, PresentResult, TypeOK
<1>4. CASE WorkerComplete
  <2>1. Item.serial \in Nat
    BY <1>0, <1>4, ItemTypes DEF WorkerComplete, RingPart, OrderInv
  <2>2. tracker' \in [queued : Nat, begun : Nat, completed : Nat, active : Nat]
    BY <1>0, <1>4, <2>1 DEF WorkerComplete, TypeOK
  <2>3. QED
    BY <1>0, <1>4, <2>2 DEF WorkerComplete, TypeOK
<1>5. CASE WorkerClear
  <2>1. slot' \in [Slots -> SlotType]
    BY <1>0, <1>5 DEF WorkerClear, TypeOK
  <2>2. QED
    BY <1>0, <1>5, <2>1 DEF WorkerClear, TypeOK
<1>6. CASE WorkerPop
  <2>1. queue # <<>>
    BY <1>0, <1>6 DEF WorkerPop, RingPart, OrderInv
  <2>2. queue' \in Seq([slot : Slots, serial : Nat])
    BY <1>0, <1>6, <2>1 DEF WorkerPop, TypeOK
  <2>3. QED
    BY <1>0, <1>6, <2>2 DEF WorkerPop, TypeOK
<1>7. CASE GpuFinishes
  <2>1. Head(gpu).slot \in Slots /\ Head(gpu).counter \in Nat
    BY <1>0, <1>7, ItemTypes DEF GpuFinishes
  <2>2. gpu' \in Seq([slot : Slots, counter : Nat])
    BY <1>0, <1>7 DEF GpuFinishes, TypeOK
  <2>3. QED
    BY <1>0, <1>7, <2>1, <2>2 DEF GpuFinishes, TypeOK
<1>8. CASE FenceSignalled
  <2>1. slot' \in [Slots -> SlotType]
    BY <1>0, <1>8 DEF FenceSignalled, TypeOK
  <2>2. completed' \in Nat /\ vt.ret \in Positions
    BY <1>0, <1>8 DEF FenceSignalled, TypeOK, Locals, Positions
  <2>3. vt' \in Locals
    BY <1>0, <1>8, <2>2, GotoFacts DEF FenceSignalled
  <2>4. QED
    BY <1>0, <1>8, <2>1, <2>2, <2>3 DEF FenceSignalled, TypeOK
<1>9. CASE SubmitHere
  <2>1. [slot |-> cur, counter |-> Counter] \in [slot : Slots, counter : Nat]
    BY <1>0 DEF TypeOK, Counter
  <2>2. gpu' \in Seq([slot : Slots, counter : Nat])
    BY <1>0, <1>9, <2>1 DEF SubmitHere, TypeOK
  <2>3. vt' \in Locals
    <3>1. Goto("present") \/ CallWait(cur, "account") \/ Goto("account")
      BY <1>9 DEF SubmitHere
    <3>2. cur \in Slots /\ "present" \in Positions /\ "account" \in Positions
      BY <1>0 DEF TypeOK, Positions
    <3>3. QED
      BY <1>0, <3>1, <3>2, GotoFacts, CallWaitFacts
  <2>4. QED
    BY <1>0, <1>9, <2>2, <2>3 DEF SubmitHere, TypeOK
<1>10. CASE Account
  <2>1. slot[cur].frame \in Frames /\ lastFence[slot[cur].frame] \in Nat /\ Counter \in Nat
    BY <1>0 DEF TypeOK, Counter
  <2>2. lastFence' \in [Frames -> Nat]
    BY <1>0, <1>10, <2>1, MaxFacts DEF Account, TypeOK
  <2>3. frame' \in 0 .. config.frames - 1
    BY <1>0, <1>10, FrameTypes, NextFrame DEF Account, TypeOK
  <2>4. vt' \in Locals
    BY <1>0, <1>10, GotoFacts DEF Account, Positions
  <2>5. QED
    BY <1>0, <1>10, <2>2, <2>3, <2>4 DEF Account, TypeOK
<1>11. CASE WaitForFrameUser \/ WaitForReuse
  <2>1. vt' \in Locals
    <3>1. FrameUsers \in SUBSET Nat
      BY DEF FrameUsers, Others
    <3>2. FrameUsers # {} => Min(FrameUsers) \in Others
      BY <3>1, MinFacts DEF FrameUsers
    <3>3. WaitForFrameUser => After(Min(FrameUsers)) \in Slots
      BY <1>0, <3>2, AfterFacts DEF WaitForFrameUser
    <3>4. After(1) \in Slots
      BY <1>0, AfterFacts
    <3>5. QED
      BY <1>0, <1>11, <3>3, <3>4, CallWaitFacts DEF WaitForFrameUser, WaitForReuse
  <2>2. QED
    BY <1>0, <1>11, <2>1 DEF WaitForFrameUser, WaitForReuse, TypeOK
<1>12. CASE ResetDescriptorPools
  <2>1. vt' \in Locals
    BY <1>0, <1>12, GotoFacts DEF ResetDescriptorPools, Positions
  <2>2. lastFence' \in [Frames -> Nat]
    BY <1>0, <1>12 DEF ResetDescriptorPools, TypeOK
  <2>3. QED
    BY <1>0, <1>12, <2>1, <2>2 DEF ResetDescriptorPools, TypeOK
<1>13. CASE BeginCommandBuffer
  <2>1. After(1) \in Slots /\ Counter + 1 \in Nat /\ frame \in Frames
    BY <1>0, AfterFacts, CounterFacts, FrameTypes DEF RingPart
  <2>2. slot' \in [Slots -> SlotType]
    BY <1>0, <1>13, <2>1 DEF BeginCommandBuffer, TypeOK
  <2>3. vt.then \in Positions
    BY <1>0 DEF TypeOK, Locals, Positions
  <2>4. vt' \in Locals
    BY <1>0, <1>13, <2>3, GotoFacts DEF BeginCommandBuffer
  <2>5. QED
    BY <1>0, <1>13, <2>1, <2>2, <2>4 DEF BeginCommandBuffer, TypeOK
<1>14. CASE \/ WaitForWorkerThreadIdle \/ PresentHere \/ BindBackbuffer \/ GuardAcquire
            \/ SurfaceRebuilt \/ Acquired \/ Recreate \/ ReacquireFailed
  <2>1. \E pc \in Positions : Goto(pc)
    BY <1>14 DEF WaitForWorkerThreadIdle, PresentHere, BindBackbuffer, GuardAcquire,
       SurfaceRebuilt, Acquired, Recreate, ReacquireFailed, Positions
  <2>2. vt' \in Locals
    BY <1>0, <2>1, GotoFacts
  <2>3. QED
    BY <1>0, <1>14, <2>2 DEF WaitForWorkerThreadIdle, PresentHere, BindBackbuffer, GuardAcquire,
       SurfaceRebuilt, Acquired, Recreate, ReacquireFailed, PresentResult, TypeOK
<1>15. CASE SurfaceChanged \/ AcquireFailed \/ \E op \in {Flush, Execute, WaitForGPUIdle} : Submit(op)
  <2>1. PICK op \in Operations, then \in {"record", "rebuilt", "recreate"} : CallSubmit(op, then)
    BY <1>15, OperationTypes DEF SurfaceChanged, AcquireFailed, Submit
  <2>2. vt' \in Locals /\ (QueueSubmission(op) \/ DirectSubmission)
    BY <1>0, <2>1, CallSubmitFacts
  <2>3. QED
    BY <1>0, <1>15, <2>2, SubmissionTypes DEF SurfaceChanged, AcquireFailed, Submit, TypeOK
<1>16. CASE TakePresentResult
  <2>1. CASE failure
    <3>1. CallSubmit(WaitForGPUIdle, "recreate")
      BY <1>16, <2>1 DEF TakePresentResult
    <3>2. vt' \in Locals /\ DirectSubmission
      BY <1>0, <3>1, CallSubmitFacts, OperationTypes
    <3>3. QED
      BY <1>0, <1>16, <3>2 DEF TakePresentResult, DirectSubmission, TypeOK
  <2>2. CASE ~failure
    <3>1. Goto("acquire")
      BY <1>16, <2>2 DEF TakePresentResult
    <3>2. vt' \in Locals
      BY <1>0, <3>1, GotoFacts DEF Positions
    <3>3. QED
      BY <1>0, <1>16, <2>2, <3>2 DEF TakePresentResult, TypeOK
  <2>3. QED
    BY <2>1, <2>2
<1>17. CASE DeferDestruction
  <2>1. slot' \in [Slots -> SlotType]
    BY <1>0, <1>17 DEF DeferDestruction, TypeOK, Counter
  <2>2. QED
    BY <1>0, <1>17, <2>1 DEF DeferDestruction, TypeOK
<1>18. CASE \E c \in Counters : WaitForFenceCounter(c)
  <2>1. PICK c \in Counters : WaitForFenceCounter(c)
    BY <1>18
  <2> DEFINE covering == {k \in Others : slot[After(k)].counter >= c}
  <2>2. CallWait(IF covering = {} THEN cur ELSE After(Min(covering)), "record")
    BY <2>1 DEF WaitForFenceCounter
  <2>3. covering # {} => Min(covering) \in Others
    BY MinFacts DEF Others
  <2>4. covering # {} => After(Min(covering)) \in Slots
    BY <1>0, <2>3, AfterFacts
  <2>5. vt' \in Locals
    BY <1>0, <2>2, <2>4, CallWaitFacts DEF TypeOK
  <2>6. QED
    BY <1>0, <2>1, <2>5 DEF WaitForFenceCounter, TypeOK
<1>19. CASE PresentBackbuffer
  <2>1. PICK op \in {PresentImage, PresentNothing} : CallSubmit(op, "record")
    BY <1>19 DEF PresentBackbuffer
  <2>2. op \in Operations
    BY <2>1, OperationTypes
  <2>3. vt' \in Locals /\ (QueueSubmission(op) \/ DirectSubmission)
    BY <1>0, <2>1, <2>2, CallSubmitFacts
  <2>4. QED
    BY <1>0, <1>19, <2>2, <2>3, SubmissionTypes DEF PresentBackbuffer, TypeOK
<1>20. CASE Shutdown
  <2>1. slot' \in [Slots -> SlotType]
    BY <1>0, <1>20 DEF Shutdown, TypeOK
  <2>2. vt' \in Locals
    BY <1>0, <1>20, GotoFacts DEF Shutdown, Positions
  <2>3. QED
    BY <1>0, <1>20, <2>1, <2>2 DEF Shutdown, TypeOK
<1>21. CASE UNCHANGED vars
  BY <1>0, <1>21 DEF TypeOK
<1>22. QED
  BY <1>1, <1>2, <1>3, <1>4, <1>5, <1>6, <1>7, <1>8, <1>9, <1>10, <1>11, <1>12, <1>13, <1>14,
     <1>15, <1>16, <1>17, <1>18, <1>19, <1>20, <1>21 DEF Next, Worker, Continue, Start

-----------------------------------------------------------------------------
(* The ring, the queue and the GPU.                                        *)

LEMMA RingInit == Init => RingPart
<1> SUFFICES ASSUME Init PROVE RingPart
  OBVIOUS
<1>1. NUM_COMMAND_BUFFERS \in Nat /\ NUM_COMMAND_BUFFERS >= 2
  BY RingAssumption
<1>2. /\ cur = 0 /\ Counter = 1 /\ cur \in Slots
      /\ \A s \in Slots : slot[s].counter = IF s = 0 THEN 1 ELSE 0
      /\ \A s \in Slots : slot[s].cleanup = {} /\ slot[s].waiting = FALSE
  BY <1>1 DEF Init, Counter, Slots
<1>3. ~Submitted /\ LastSubmitted = 0
  BY <1>2 DEF Init, Recording, Submitted, InSubmission, LastSubmitted
<1>4. RingInv
  BY <1>1, <1>2 DEF RingInv, Ahead, Slots
<1>5. Len(queue) = 0 /\ Len(gpu) = 0 /\ wpc = "idle" /\ executed = 0 /\ queue = <<>>
  BY DEF Init
<1>6. Sent = 0 /\ Base = 0 /\ Cleared = 0
  BY <1>5 DEF Sent, Base, Cleared, HeadSent, HeadMarked
<1>7. OrderInv
  BY <1>3, <1>5, <1>6 DEF OrderInv
<1>8. FlagInv
  BY <1>2, <1>3, <1>5, <1>6 DEF FlagInv, Init
<1>9. QED
  BY <1>4, <1>7, <1>8 DEF RingPart

(* A step that leaves the counters and the queues alone.                   *)
LEMMA RingKept ==
  ASSUME TypeOK, RingPart,
         UNCHANGED <<cur, signalled, queue, gpu, executed>>,
         \A s \in Slots :
           /\ slot'[s].counter = slot[s].counter /\ slot'[s].waiting = slot[s].waiting
           /\ \A k \in slot'[s].cleanup : k <= slot[s].counter,
         HeadSent' <=> HeadSent, HeadMarked' <=> HeadMarked,
         wpc' = "pop" <=> wpc = "pop", wpc' # "idle" => queue # <<>>,
         completed' <= executed, completed' <= Cleared,
         Submitted' <=> Submitted
  PROVE  RingPart'
<1>1. cur \in Slots
  BY DEF TypeOK
<1>2. Counter' = Counter /\ LastSubmitted' = LastSubmitted /\ \A s \in Slots : Ahead(s)' = Ahead(s)
  BY <1>1 DEF Counter, LastSubmitted, Ahead
<1>3. Sent' = Sent /\ Base' = Base /\ Cleared' = Cleared
  BY DEF Sent, Base, Cleared
<1>4. RingInv'
  BY <1>2 DEF RingPart, RingInv
<1>5. OrderInv'
  <2>1. \A i \in 1 .. Len(queue) : slot'[queue[i].slot].counter = slot[queue[i].slot].counter
    BY ItemTypes
  <2>2. \A i \in 1 .. Len(gpu) : slot'[gpu[i].slot].counter = slot[gpu[i].slot].counter
    BY ItemTypes
  <2>3. QED
    BY <1>2, <1>3, <2>1, <2>2 DEF RingPart, OrderInv
<1>6. FlagInv'
  BY <1>2, <1>3 DEF RingPart, FlagInv
<1>7. QED
  BY <1>4, <1>5, <1>6 DEF RingPart

(* The current buffer is appended to the worker's queue.                   *)
LEMMA RingQueued ==
  ASSUME TypeOK, RingPart, NEW op \in Operations, QueueSubmission(op),
         UNCHANGED <<cur, completed, signalled, wpc, gpu, executed>>, ~Submitted
  PROVE  RingPart'
<1> DEFINE e == [slot |-> cur, serial |-> IF op.present THEN tracker.queued + 1 ELSE 0]
<1>1. /\ cur \in Slots /\ e \in [slot : Slots, serial : Nat] /\ e.slot = cur
      /\ queue \in Seq([slot : Slots, serial : Nat])
  <2>1. cur \in Slots /\ (IF op.present THEN tracker.queued + 1 ELSE 0) \in Nat
    BY DEF TypeOK
  <2>2. QED
    BY <2>1 DEF TypeOK
<1>2. /\ \A s \in Slots : /\ slot'[s].counter = slot[s].counter
                          /\ slot'[s].cleanup = slot[s].cleanup
      /\ \A s \in Slots \ {cur} : slot'[s] = slot[s]
      /\ slot'[cur].waiting = TRUE
  BY <1>1 DEF TypeOK, QueueSubmission
<1>3. Submitted'
  BY DEF QueueSubmission, Submitted, InSubmission
<1>4. Counter' = Counter /\ LastSubmitted = Counter - 1 /\ LastSubmitted' = Counter
  BY <1>1, <1>2, <1>3 DEF Counter, LastSubmitted
<1>5. Sent' = Sent /\ Base' = Base /\ Cleared' = Cleared
  BY DEF Sent, Base, Cleared, HeadSent, HeadMarked
<1>6. /\ Len(queue') = Len(queue) + 1 /\ queue' # <<>>
      /\ \A i \in 1 .. Len(queue) : queue'[i] = queue[i]
      /\ queue'[Len(queue) + 1] = e
  <2> HIDE DEF e
  <2>1. queue' = Append(queue, e)
    BY DEF QueueSubmission, e
  <2>2. QED
    BY <1>1, <2>1, QueueFacts
<1>7. RingInv'
  BY <1>2, <1>4 DEF RingPart, RingInv, Ahead
<1>8. Counter \in Nat \ {0} /\ Base \in Nat /\ Base + Len(queue) = Counter - 1 /\ Len(queue) \in Nat
      /\ (wpc # "idle" => queue # <<>>)
  BY <1>4, CounterFacts, OrderFacts DEF RingPart, OrderInv
<1>9. OrderInv'
  <2>1. ASSUME NEW i \in 1 .. Len(queue), ~(i = 1 /\ wpc = "pop")
        PROVE  slot'[queue'[i].slot].counter = Base + i
    BY <1>2, <1>6, <2>1, ItemTypes DEF RingPart, OrderInv
  <2>2. slot'[queue'[Len(queue) + 1].slot].counter = Base + (Len(queue) + 1)
    <3>1. queue'[Len(queue) + 1].slot = cur
      BY <1>1, <1>6, Zenon
    <3>2. slot'[cur].counter = Counter
      BY <1>1, <1>2 DEF Counter
    <3>3. QED
      BY <1>8, <3>1, <3>2
  <2>3. \A i \in 1 .. Len(gpu) :
          gpu[i].counter = executed + i /\ slot'[gpu[i].slot].counter = executed + i
    BY <1>2, ItemTypes DEF RingPart, OrderInv
  <2>4. \A i \in 1 .. Len(queue) + 1 :
          (i = 1 /\ wpc = "pop") \/ slot'[queue'[i].slot].counter = Base + i
    <3>1. \A i \in 1 .. Len(queue) + 1 : i \in 1 .. Len(queue) \/ i = Len(queue) + 1
      BY <1>8
    <3>2. QED
      BY <2>1, <2>2, <3>1, Zenon
  <2>5. Base' + Len(queue') = LastSubmitted'
    BY <1>4, <1>5, <1>6, <1>8
  <2>6. QED
    BY <1>5, <1>6, <1>8, <2>3, <2>4, <2>5 DEF OrderInv
<1>10. FlagInv'
  <2>1. Cleared \in Nat /\ Cleared < Counter
    BY <1>4, <1>8, OrderFacts
  <2>2. ASSUME NEW s \in Slots
        PROVE  slot'[s].waiting <=> Cleared < slot[s].counter /\ slot[s].counter <= Counter
    <3>1. slot[s].counter \in Nat /\ (s # cur => slot[s].counter < Counter)
      BY CounterFacts DEF RingPart
    <3>2. CASE s = cur
      <4>1. slot'[s].waiting = TRUE /\ slot[s].counter = Counter
        BY <1>2, <3>2 DEF Counter
      <4>2. Cleared < slot[s].counter /\ slot[s].counter <= Counter
        BY <1>8, <2>1, <4>1
      <4>3. QED
        BY <4>1, <4>2, Zenon
    <3>3. CASE s # cur
      <4>1. slot'[s] = slot[s]
        BY <1>2, <3>3
      <4>2. slot[s].waiting <=> Cleared < slot[s].counter /\ slot[s].counter <= LastSubmitted
        BY DEF RingPart, FlagInv
      <4>3. slot[s].counter <= LastSubmitted /\ slot[s].counter <= Counter
        BY <1>4, <1>8, <3>1, <3>3
      <4>4. QED
        BY <4>1, <4>2, <4>3, Zenon
    <3>4. QED
      BY <3>2, <3>3
  <2>3. QED
    BY <1>2, <1>4, <1>5, <2>2 DEF RingPart, FlagInv
<1>11. QED
  BY <1>7, <1>9, <1>10 DEF RingPart

(* The counters of the items the worker has not let go of, read off at     *)
(* the head, and the worker's place in a queue that is not empty.          *)
LEMMA HeadFacts ==
  ASSUME TypeOK, RingPart, wpc # "idle"
  PROVE  /\ queue # <<>> /\ Item = queue[1] /\ Len(queue) >= 1
         /\ Item.slot \in Slots /\ Item.serial \in Nat
         /\ wpc # "pop" => slot[Item.slot].counter = Base + 1
<1>1. queue # <<>>
  BY DEF RingPart, OrderInv
<1>2. /\ Item = queue[1] /\ 1 \in 1 .. Len(queue) /\ Len(queue) >= 1
      /\ Item.slot \in Slots /\ Item.serial \in Nat
  BY <1>1, ItemTypes, OrderFacts
<1>3. QED
  BY <1>1, <1>2 DEF RingPart, OrderInv

LEMMA RingWorkerSubmits ==
  ASSUME TypeOK, RingPart, WorkerSubmit
  PROVE  RingPart'
<1> USE DEF ringVars, wsiVars
<1> DEFINE e == [slot |-> Item.slot, counter |-> slot[Item.slot].counter]
<1>1. /\ wpc = "submit" /\ wpc' \in {"clear", "present"} /\ gpu' = Append(gpu, e)
      /\ UNCHANGED <<slot, cur, completed, signalled, queue, executed, vt>>
  BY DEF WorkerSubmit
<1>2. /\ Len(queue) \in Nat /\ Len(gpu) \in Nat /\ executed \in Nat /\ Sent \in Nat
      /\ Base = Sent /\ Cleared = Sent
  BY <1>1, OrderFacts DEF TypeOK, Base, Cleared, HeadSent, HeadMarked
<1>3. /\ queue # <<>> /\ Item.slot \in Slots
      /\ slot[Item.slot].counter = Sent + 1
  BY <1>1, <1>2, HeadFacts
<1>4. /\ e \in [slot : Slots, counter : Nat]
      /\ e.slot = Item.slot /\ e.counter = Sent + 1
  BY <1>2, <1>3
<1>5. /\ Len(gpu') = Len(gpu) + 1
      /\ \A i \in 1 .. Len(gpu) : gpu'[i] = gpu[i]
      /\ gpu'[Len(gpu) + 1] = e
  <2> HIDE DEF e
  <2>1. gpu \in Seq([slot : Slots, counter : Nat])
    BY DEF TypeOK
  <2>2. QED
    BY <1>1, <1>4, <2>1, QueueFacts
<1>6. Sent' = Sent + 1 /\ Base' = Base /\ Cleared' = Cleared
  BY <1>1, <1>2, <1>5 DEF Sent, Base, Cleared, HeadSent, HeadMarked
<1>7. Counter' = Counter /\ LastSubmitted' = LastSubmitted
  BY <1>1 DEF Counter, LastSubmitted, Submitted
<1>8. RingInv'
  BY <1>1, <1>7 DEF RingPart, RingInv, Ahead
<1>9. OrderInv'
  <2>1. ASSUME NEW i \in 1 .. Len(gpu) + 1
        PROVE  gpu'[i].counter = executed + i /\ slot[gpu'[i].slot].counter = executed + i
    <3>1. CASE i \in 1 .. Len(gpu)
      BY <1>5, <3>1 DEF RingPart, OrderInv
    <3>2. CASE i = Len(gpu) + 1
      <4>1. gpu'[i].counter = Sent + 1 /\ slot[gpu'[i].slot].counter = Sent + 1
        BY <1>3, <1>4, <1>5, <3>2, Zenon
      <4>2. QED
        BY <1>2, <3>2, <4>1 DEF Sent
    <3>3. QED
      BY <1>2, <3>1, <3>2
  <2>2. QED
    BY <1>1, <1>3, <1>5, <1>6, <1>7, <2>1 DEF RingPart, OrderInv
<1>10. FlagInv'
  BY <1>1, <1>6, <1>7 DEF RingPart, FlagInv
<1>11. QED
  BY <1>8, <1>9, <1>10 DEF RingPart

LEMMA RingWorkerClears ==
  ASSUME TypeOK, RingPart, WorkerClear
  PROVE  RingPart'
<1> USE DEF wsiVars
<1>1. /\ wpc = "clear" /\ wpc' = "pop"
      /\ UNCHANGED <<cur, completed, signalled, queue, gpu, executed, vt>>
  BY DEF WorkerClear
<1>2. /\ Len(queue) \in Nat /\ Len(gpu) \in Nat /\ Sent \in Nat /\ Base \in Nat
      /\ Base = Sent - 1 /\ Cleared = Sent - 1
  BY <1>1, OrderFacts DEF RingPart, OrderInv, Base, Cleared, HeadSent, HeadMarked
<1>3. /\ queue # <<>> /\ Item.slot \in Slots
      /\ slot[Item.slot].counter = Sent
  BY <1>1, <1>2, HeadFacts
<1>4. /\ \A s \in Slots : slot'[s].counter = slot[s].counter /\ slot'[s].cleanup = slot[s].cleanup
      /\ \A s \in Slots \ {Item.slot} : slot'[s] = slot[s]
      /\ slot'[Item.slot].waiting = FALSE
  BY <1>3 DEF WorkerClear, TypeOK
<1>5. Sent' = Sent /\ Base' = Base /\ Cleared' = Sent
  BY <1>1, <1>2 DEF Sent, Base, Cleared, HeadSent, HeadMarked
<1>6. cur \in Slots /\ Counter' = Counter /\ LastSubmitted' = LastSubmitted
  BY <1>1, <1>4 DEF TypeOK, Counter, LastSubmitted, Submitted
<1>7. RingInv'
  BY <1>1, <1>4, <1>6 DEF RingPart, RingInv, Ahead
<1>8. OrderInv'
  <2>1. \A i \in 1 .. Len(queue) : slot'[queue[i].slot].counter = slot[queue[i].slot].counter
    BY <1>4, ItemTypes
  <2>2. \A i \in 1 .. Len(gpu) : slot'[gpu[i].slot].counter = slot[gpu[i].slot].counter
    BY <1>4, ItemTypes
  <2>3. QED
    BY <1>1, <1>3, <1>5, <1>6, <2>1, <2>2 DEF RingPart, OrderInv
<1>9. FlagInv'
  <2>1. ASSUME NEW s \in Slots
        PROVE  slot'[s].waiting <=> Sent < slot[s].counter /\ slot[s].counter <= LastSubmitted
    <3>1. slot[s].counter \in Nat
      BY CounterFacts DEF RingPart
    <3>2. CASE s = Item.slot
      <4>1. ~(Sent < slot[s].counter)
        BY <1>2, <1>3, <3>2
      <4>2. QED
        BY <1>4, <3>2, <4>1, Zenon
    <3>3. CASE s # Item.slot
      <4>1. slot[s].counter # Sent
        <5>1. Sent # 0
          BY <1>2
        <5>2. QED
          BY <1>3, <3>3, <5>1, CounterFacts DEF RingPart
      <4>2. Cleared < slot[s].counter <=> Sent < slot[s].counter
        BY <1>2, <3>1, <4>1
      <4>3. slot[s].waiting <=> Cleared < slot[s].counter /\ slot[s].counter <= LastSubmitted
        BY DEF RingPart, FlagInv
      <4>4. slot'[s] = slot[s]
        BY <1>4, <3>3
      <4>5. QED
        BY <4>2, <4>3, <4>4, Zenon
    <3>4. QED
      BY <3>2, <3>3
  <2>2. completed <= Sent
    <3>1. completed <= Cleared /\ completed \in Nat
      BY DEF RingPart, FlagInv, TypeOK
    <3>2. QED
      BY <1>2, <3>1
  <2>3. QED
    BY <1>1, <1>4, <1>5, <1>6, <2>1, <2>2 DEF RingPart, FlagInv
<1>10. QED
  BY <1>7, <1>8, <1>9 DEF RingPart

LEMMA RingWorkerPops ==
  ASSUME TypeOK, RingPart, WorkerPop
  PROVE  RingPart'
<1> USE DEF ringVars, wsiVars
<1>1. /\ wpc = "pop" /\ wpc' = "idle" /\ queue' = Tail(queue)
      /\ UNCHANGED <<slot, cur, completed, signalled, gpu, executed, vt>>
  BY DEF WorkerPop
<1>2. /\ Len(queue) \in Nat /\ Sent \in Nat /\ Base \in Nat
      /\ Base = Sent - 1 /\ Cleared = Sent /\ Base + Len(queue) = LastSubmitted
  BY <1>1, OrderFacts DEF RingPart, OrderInv, Base, Cleared, HeadSent, HeadMarked
<1>3. Sent' = Sent /\ Base' = Base + 1 /\ Cleared' = Cleared
  BY <1>1, <1>2 DEF Sent, Base, Cleared, HeadSent, HeadMarked
<1>4. Counter' = Counter /\ LastSubmitted' = LastSubmitted
  BY <1>1 DEF Counter, LastSubmitted, Submitted
<1>5. Len(queue') = Len(queue) - 1 /\ \A i \in 1 .. Len(queue) - 1 : queue'[i] = queue[i + 1]
  <2>1. queue \in Seq([slot : Slots, serial : Nat]) /\ queue # <<>>
    BY <1>1, HeadFacts DEF TypeOK
  <2>2. QED
    BY <1>1, <2>1, QueueFacts
<1>6. RingInv'
  BY <1>1, <1>4 DEF RingPart, RingInv, Ahead
<1>7. OrderInv'
  <2>1. ASSUME NEW i \in 1 .. Len(queue) - 1
        PROVE  slot[queue'[i].slot].counter = Base' + i
    <3>1. i + 1 \in 1 .. Len(queue) /\ i + 1 # 1 /\ queue'[i] = queue[i + 1]
      BY <1>2, <1>5
    <3>2. slot[queue[i + 1].slot].counter = Base + (i + 1)
      BY <3>1 DEF RingPart, OrderInv
    <3>3. Base + (i + 1) = Base' + i
      BY <1>2, <1>3
    <3>4. QED
      BY <3>1, <3>2, <3>3, Zenon
  <2>2. Base' \in Nat /\ Base' + Len(queue') = LastSubmitted'
    BY <1>2, <1>3, <1>4, <1>5
  <2>3. QED
    BY <1>1, <1>5, <2>1, <2>2 DEF RingPart, OrderInv
<1>8. FlagInv'
  BY <1>1, <1>3, <1>4 DEF RingPart, FlagInv
<1>9. QED
  BY <1>6, <1>7, <1>8 DEF RingPart

LEMMA RingGpuFinishes ==
  ASSUME TypeOK, RingPart, GpuFinishes
  PROVE  RingPart' /\ executed' = executed + 1 /\ executed < LastSubmitted
<1> USE DEF wsiVars
<1>1. /\ gpu # <<>> /\ gpu' = Tail(gpu) /\ executed' = Head(gpu).counter
      /\ signalled' = signalled \union {Head(gpu).slot}
      /\ UNCHANGED <<slot, cur, completed, queue, wpc, vt>>
  BY DEF GpuFinishes
<1>2. Head(gpu) = gpu[1] /\ 1 \in 1 .. Len(gpu) /\ gpu[1].slot \in Slots
  BY <1>1, ItemTypes
<1>3. /\ executed' = executed + 1 /\ executed \in Nat /\ Len(gpu) \in Nat /\ Len(gpu) >= 1
      /\ slot[Head(gpu).slot].counter = executed + 1
  <2>1. gpu[1].counter = executed + 1 /\ slot[gpu[1].slot].counter = executed + 1
    BY <1>2 DEF RingPart, OrderInv
  <2>2. executed \in Nat /\ Len(gpu) \in Nat
    BY OrderFacts DEF TypeOK
  <2>3. QED
    BY <1>1, <1>2, <2>1, <2>2
<1>4. Len(gpu') = Len(gpu) - 1 /\ \A i \in 1 .. Len(gpu) - 1 : gpu'[i] = gpu[i + 1]
  <2>1. gpu \in Seq([slot : Slots, counter : Nat])
    BY DEF TypeOK
  <2>2. QED
    BY <1>1, <2>1, QueueFacts
<1>5. Sent' = Sent /\ Base' = Base /\ Cleared' = Cleared
  BY <1>1, <1>3, <1>4 DEF Sent, Base, Cleared, HeadSent, HeadMarked
<1>6. Counter' = Counter /\ LastSubmitted' = LastSubmitted
  BY <1>1 DEF Counter, LastSubmitted, Submitted
<1>7. RingInv'
  BY <1>1, <1>6 DEF RingPart, RingInv, Ahead
<1>8. OrderInv'
  <2>1. ASSUME NEW i \in 1 .. Len(gpu) - 1
        PROVE  gpu'[i].counter = executed' + i /\ slot[gpu'[i].slot].counter = executed' + i
    <3>1. i + 1 \in 1 .. Len(gpu) /\ gpu'[i] = gpu[i + 1]
      BY <1>3, <1>4
    <3>2. gpu[i + 1].counter = executed + (i + 1) /\ slot[gpu[i + 1].slot].counter = executed + (i + 1)
      BY <3>1 DEF RingPart, OrderInv
    <3>3. executed + (i + 1) = executed' + i
      BY <1>3
    <3>4. QED
      BY <3>1, <3>2, <3>3, Zenon
  <2>2. QED
    BY <1>1, <1>4, <1>5, <1>6, <2>1 DEF RingPart, OrderInv
<1>9. FlagInv'
  <2>1. ASSUME NEW s \in Slots
        PROVE  s \in signalled' <=> slot[s].counter <= executed + 1
    <3>1. slot[s].counter \in Nat /\ (s \in signalled <=> slot[s].counter <= executed)
      BY CounterFacts DEF RingPart, FlagInv
    <3>2. slot[s].counter = executed + 1 <=> s = Head(gpu).slot
      <4>1. executed + 1 # 0 /\ Head(gpu).slot \in Slots
        BY <1>2, <1>3
      <4>2. QED
        BY <1>3, <4>1, CounterFacts DEF RingPart
    <3>3. QED
      BY <1>1, <1>3, <3>1, <3>2
  <2>2. completed <= executed'
    BY <1>3 DEF RingPart, FlagInv, TypeOK
  <2>3. QED
    BY <1>1, <1>3, <1>5, <1>6, <2>1, <2>2 DEF RingPart, FlagInv
<1>10. executed < LastSubmitted
  BY <1>3, OrderFacts, CounterFacts DEF RingPart, Sent
<1>11. QED
  BY <1>3, <1>7, <1>8, <1>9, <1>10 DEF RingPart

LEMMA RingSubmitsHere ==
  ASSUME TypeOK, RingPart, SubmitHere
  PROVE  RingPart' /\ Submitted' /\ ~Submitted /\ vt'.pc \in {"present", "account", "idle", "fence"}
         /\ (vt'.pc \in {"idle", "fence"} => vt'.slot = cur /\ vt'.ret = "account" /\ vt'.pc = "fence")
<1> USE DEF wsiVars, ringVars
<1> DEFINE e == [slot |-> cur, counter |-> Counter]
<1>1. /\ vt.pc = "drain" /\ queue = <<>> /\ gpu' = Append(gpu, e)
      /\ UNCHANGED <<slot, cur, completed, signalled, queue, wpc, executed>>
  BY DEF SubmitHere
<1>2. /\ wpc = "idle" /\ Len(queue) = 0 /\ Len(gpu) \in Nat /\ executed \in Nat
      /\ Sent = LastSubmitted /\ Cleared = Sent
  BY <1>1, OrderFacts DEF TypeOK, Cleared, HeadMarked
<1>3. ~Submitted /\ LastSubmitted = Counter - 1 /\ Counter \in Nat \ {0} /\ cur \in Slots
  BY <1>1, CounterFacts DEF RingPart, TypeOK, Submitted, InSubmission, LastSubmitted
<1>4. slot[cur].waiting = FALSE
  <2>1. ~slot[cur].waiting
    BY <1>2, <1>3 DEF RingPart, FlagInv, Counter
  <2>2. slot[cur].waiting \in BOOLEAN
    BY DEF TypeOK
  <2>3. QED
    BY <2>1, <2>2, Zenon
<1>5. /\ vt'.pc \in {"present", "account", "idle", "fence"}
      /\ vt'.pc \in {"idle", "fence"} => vt'.slot = cur /\ vt'.ret = "account" /\ vt'.pc = "fence"
  <2>1. Goto("present") \/ CallWait(cur, "account") \/ Goto("account")
    BY DEF SubmitHere
  <2>2. "present" \in Positions /\ "account" \in Positions
    BY DEF Positions
  <2>3. QED
    BY <1>3, <1>4, <2>1, <2>2, GotoFacts, CallWaitFacts
<1>6. Submitted'
  BY <1>5 DEF Submitted, InSubmission
<1>7. Counter' = Counter /\ LastSubmitted' = Counter
  BY <1>1, <1>6 DEF Counter, LastSubmitted
<1>8. /\ Len(gpu') = Len(gpu) + 1
      /\ \A i \in 1 .. Len(gpu) : gpu'[i] = gpu[i]
      /\ gpu'[Len(gpu) + 1] = e
  <2>1. gpu \in Seq([slot : Slots, counter : Nat]) /\ e \in [slot : Slots, counter : Nat]
    BY <1>3 DEF TypeOK
  <2> HIDE DEF e
  <2>2. QED
    BY <1>1, <2>1, QueueFacts
<1>9. Sent' = Counter /\ Base' = Counter /\ Cleared' = Counter
  BY <1>1, <1>2, <1>3, <1>8 DEF Sent, Base, Cleared, HeadSent, HeadMarked
<1>10. RingInv'
  BY <1>1, <1>7 DEF RingPart, RingInv, Ahead
<1>11. OrderInv'
  <2>1. ASSUME NEW i \in 1 .. Len(gpu) + 1
        PROVE  gpu'[i].counter = executed + i /\ slot[gpu'[i].slot].counter = executed + i
    <3>1. CASE i \in 1 .. Len(gpu)
      BY <1>8, <3>1 DEF RingPart, OrderInv
    <3>2. CASE i = Len(gpu) + 1
      <4>1. gpu'[i].counter = Counter /\ slot[gpu'[i].slot].counter = Counter
        BY <1>8, <3>2 DEF Counter
      <4>2. Counter = executed + i
        BY <1>2, <1>3, <3>2 DEF Sent
      <4>3. QED
        BY <4>1, <4>2
    <3>3. QED
      BY <1>2, <3>1, <3>2
  <2>2. QED
    BY <1>1, <1>2, <1>3, <1>7, <1>8, <1>9, <2>1 DEF OrderInv
<1>12. FlagInv'
  <2>1. ASSUME NEW s \in Slots
        PROVE  slot[s].waiting <=> Counter < slot[s].counter /\ slot[s].counter <= Counter
    <3>1. slot[s].counter \in Nat
      BY CounterFacts DEF RingPart
    <3>2. slot[s].waiting <=> Cleared < slot[s].counter /\ slot[s].counter <= LastSubmitted
      BY DEF RingPart, FlagInv
    <3>3. ~(Cleared < slot[s].counter /\ slot[s].counter <= LastSubmitted)
      BY <1>2, <1>3, <3>1
    <3>4. ~(Counter < slot[s].counter /\ slot[s].counter <= Counter)
      BY <1>3, <3>1
    <3>5. QED
      BY <3>2, <3>3, <3>4, Zenon
  <2>2. completed <= Counter
    BY <1>2, <1>3 DEF RingPart, FlagInv, TypeOK
  <2>3. QED
    BY <1>1, <1>7, <1>9, <2>1, <2>2 DEF RingPart, FlagInv
<1>13. QED
  BY <1>3, <1>5, <1>6, <1>10, <1>11, <1>12 DEF RingPart

(* The next slot takes the next counter; what it held is over.             *)
LEMMA RingBegins ==
  ASSUME TypeOK, RingPart, BeginCommandBuffer
  PROVE  /\ RingPart' /\ Submitted /\ ~Submitted'
         /\ Counter' = Counter + 1 /\ Counter + 1 <= completed + NUM_COMMAND_BUFFERS
         /\ cur' = After(1) /\ slot'[cur'].frame = frame
         /\ ~WorkerHolds(After(1)) /\ ~GpuHolds(After(1))
         /\ \A s \in Slots \ {After(1)} : slot'[s] = slot[s]
         /\ LastSubmitted' = LastSubmitted /\ Cleared' = Cleared
<1> USE DEF wsiVars, workVars
<1> DEFINE n == After(1)
<1>1. /\ vt.pc = "begin" /\ slot[n].counter <= completed
      /\ signalled' = signalled \ {n} /\ cur' = n
      /\ slot' = [slot EXCEPT ![n].counter = Counter + 1, ![n].frame = frame]
      /\ Goto(vt.then)
      /\ UNCHANGED <<completed, queue, wpc, gpu, executed>>
  BY DEF BeginCommandBuffer
<1>2. /\ NUM_COMMAND_BUFFERS \in Nat /\ NUM_COMMAND_BUFFERS >= 2
      /\ n \in Slots \ {cur} /\ Ahead(n) = 1 /\ cur \in Slots
  BY AfterFacts DEF TypeOK
<1>3. /\ Counter \in Nat \ {0} /\ completed \in Nat /\ executed \in Nat
      /\ \A s \in Slots : slot[s].counter \in Nat
      /\ \A s \in Slots \ {cur} : slot[s].counter < Counter
  BY CounterFacts DEF RingPart, TypeOK
<1>4. /\ \A s \in Slots \ {n} : slot'[s] = slot[s]
      /\ slot'[n].counter = Counter + 1 /\ slot'[n].frame = frame
      /\ slot'[n].waiting = slot[n].waiting /\ slot'[n].cleanup = slot[n].cleanup
  <2> HIDE DEF n
  <2>1. slot \in [Slots -> [counter : Nat, frame : Frames, waiting : BOOLEAN, cleanup : SUBSET Nat]]
    BY DEF TypeOK
  <2>2. QED
    BY <1>1, <1>2, <2>1
<1> HIDE DEF n
<1>5. Submitted /\ ~Submitted'
  <2>1. vt.then \in {"record", "rebuilt", "recreate"} /\ vt.then \in Positions
    BY DEF TypeOK, Locals, Positions
  <2>2. vt'.pc = vt.then
    BY <1>1, <2>1, GotoFacts
  <2>3. QED
    BY <1>1, <2>1, <2>2 DEF Submitted, InSubmission
<1>6. Counter' = Counter + 1 /\ LastSubmitted = Counter /\ LastSubmitted' = Counter
  BY <1>1, <1>3, <1>4, <1>5 DEF Counter, LastSubmitted
<1>7. Sent' = Sent /\ Base' = Base /\ Cleared' = Cleared
  BY <1>1 DEF Sent, Base, Cleared, HeadSent, HeadMarked
<1>8. Counter + 1 <= completed + NUM_COMMAND_BUFFERS
  BY <1>1, <1>2, <1>3 DEF RingPart, RingInv
<1>9. slot[n].counter <= executed /\ slot[n].counter <= Cleared /\ Cleared \in Nat
  BY <1>1, <1>2, <1>3, OrderFacts DEF RingPart, FlagInv
<1>10. ~WorkerHolds(n) /\ ~GpuHolds(n)
  BY <1>2, <1>9, PendingFacts
<1>11. RingInv'
  <2>1. ASSUME NEW s \in Slots \ {n}
        PROVE  /\ Ahead(s)' = IF s = cur THEN NUM_COMMAND_BUFFERS - 1 ELSE Ahead(s) - 1
               /\ Ahead(s) \in Nat
    <3>1. n \in 0 .. NUM_COMMAND_BUFFERS - 1 /\ cur \in 0 .. NUM_COMMAND_BUFFERS - 1
          /\ s \in 0 .. NUM_COMMAND_BUFFERS - 1 /\ s # n /\ n # cur
      BY <1>2 DEF Slots
    <3>2. n = IF cur + 1 < NUM_COMMAND_BUFFERS THEN cur + 1 ELSE 0
      BY <1>2, <3>1 DEF Ahead
    <3>3. Ahead(s)' = IF s > n THEN s - n ELSE s - n + NUM_COMMAND_BUFFERS
      BY <1>1 DEF Ahead
    <3>4. QED
      BY <1>2, <3>1, <3>2, <3>3 DEF Ahead
  <2>2. ASSUME NEW s \in Slots \ {n}
        PROVE  slot'[s].counter = IF Counter' + Ahead(s)' >= NUM_COMMAND_BUFFERS
                                    THEN Counter' + Ahead(s)' - NUM_COMMAND_BUFFERS ELSE 0
    <3>1. CASE s = cur
      BY <1>2, <1>3, <1>4, <1>6, <2>1, <3>1 DEF Counter
    <3>2. CASE s # cur
      <4>1. slot[s].counter = IF Counter + Ahead(s) >= NUM_COMMAND_BUFFERS
                                THEN Counter + Ahead(s) - NUM_COMMAND_BUFFERS ELSE 0
        BY <3>2 DEF RingPart, RingInv
      <4>2. QED
        BY <1>2, <1>3, <1>4, <1>6, <2>1, <3>2, <4>1
    <3>3. QED
      BY <3>1, <3>2
  <2>3. Counter' >= 1
    BY <1>3, <1>6
  <2>4. QED
    BY <1>1, <2>2, <2>3, Zenon DEF RingInv
<1>12. OrderInv'
  <2>1. ASSUME NEW i \in 1 .. Len(queue), ~(i = 1 /\ wpc = "pop")
        PROVE  slot'[queue[i].slot].counter = slot[queue[i].slot].counter
    BY <1>4, <1>10, <2>1, ItemTypes DEF WorkerHolds
  <2>2. \A i \in 1 .. Len(gpu) : slot'[gpu[i].slot].counter = slot[gpu[i].slot].counter
    BY <1>4, <1>10, ItemTypes DEF GpuHolds
  <2>3. QED
    BY <1>1, <1>6, <1>7, <2>1, <2>2 DEF RingPart, OrderInv
<1>13. FlagInv'
  <2>1. executed <= Counter
    BY <1>3, <1>6, OrderFacts, CounterFacts DEF RingPart
  <2>2. /\ slot'[n].waiting <=> Cleared < Counter + 1 /\ Counter + 1 <= LastSubmitted
        /\ n \in signalled' <=> Counter + 1 <= executed
        /\ \A k \in slot'[n].cleanup : k <= Counter + 1
    <3>1. slot[n].waiting <=> Cleared < slot[n].counter /\ slot[n].counter <= LastSubmitted
      BY <1>2 DEF RingPart, FlagInv
    <3>2. ~(Cleared < slot[n].counter) /\ ~(Counter + 1 <= LastSubmitted)
      BY <1>2, <1>3, <1>6, <1>9
    <3>3. slot'[n].waiting <=> Cleared < Counter + 1 /\ Counter + 1 <= LastSubmitted
      BY <1>4, <3>1, <3>2, Zenon
    <3>4. n \in signalled' <=> Counter + 1 <= executed
      BY <1>1, <1>3, <2>1
    <3>5. slot[n].cleanup \subseteq Nat
      BY <1>2 DEF TypeOK
    <3>6. \A k \in slot'[n].cleanup : k <= Counter + 1
      <4>1. \A k \in slot[n].cleanup : k <= slot[n].counter
        BY <1>2 DEF RingPart, FlagInv
      <4>2. slot[n].counter <= Counter /\ slot[n].counter \in Nat
        BY <1>2, <1>3
      <4>3. QED
        BY <1>3, <1>4, <3>5, <4>1, <4>2
    <3>7. QED
      BY <3>3, <3>4, <3>6
  <2>3. ASSUME NEW s \in Slots \ {n}
        PROVE  /\ slot'[s].waiting <=> Cleared < slot'[s].counter /\ slot'[s].counter <= LastSubmitted
               /\ s \in signalled' <=> slot'[s].counter <= executed
               /\ \A k \in slot'[s].cleanup : k <= slot'[s].counter
    <3>1. slot'[s] = slot[s] /\ (s \in signalled' <=> s \in signalled)
      BY <1>1, <1>4
    <3>2. QED
      BY <3>1 DEF RingPart, FlagInv
  <2>4. completed <= executed /\ completed <= Cleared
    BY DEF RingPart, FlagInv
  <2>5. QED
    BY <1>1, <1>4, <1>6, <1>7, <2>2, <2>3, <2>4 DEF FlagInv
<1>14. QED
  BY <1>1, <1>4, <1>5, <1>6, <1>7, <1>8, <1>10, <1>11, <1>12, <1>13 DEF RingPart, n

(* A step of the recording thread that touches neither ring nor queues.    *)
LEMMA RingQuiet ==
  ASSUME TypeOK, RingPart, Submitted' <=> Submitted,
         UNCHANGED <<slot, cur, completed, signalled, queue, wpc, gpu, executed>>
  PROVE  RingPart' /\ LastSubmitted' = LastSubmitted /\ Cleared' = Cleared
<1>1. LastSubmitted' = LastSubmitted
  BY DEF LastSubmitted, Counter
<1>2. Sent' = Sent /\ Base' = Base /\ Cleared' = Cleared
  BY DEF Sent, Base, Cleared, HeadSent, HeadMarked
<1>3. RingInv'
  BY DEF RingPart, RingInv, Counter, Ahead
<1>4. OrderInv'
  BY <1>1, <1>2 DEF RingPart, OrderInv
<1>5. FlagInv'
  BY <1>1, <1>2 DEF RingPart, FlagInv
<1>6. QED
  BY <1>1, <1>2, <1>3, <1>4, <1>5 DEF RingPart

-----------------------------------------------------------------------------
(* The recording thread, the presents and their results.                   *)

LEMMA FrameKept ==
  ASSUME FrameInv, frame' = frame, slot'[cur'].frame = slot[cur].frame,
         At("reuse")' <=> At("reuse"), At("begin")' <=> At("begin")
  PROVE  FrameInv'
BY DEF FrameInv

LEMMA PresentKept ==
  ASSUME PresentInv, UNCHANGED <<queue, wpc, tracker>>, Acquiring' => Acquiring,
         vt'.pc = "present" => queue = <<>>
  PROVE  PresentInv'
BY DEF PresentInv, Item

(* A call of WaitForCommandBufferCompletion for a submitted buffer.        *)
LEMMA WaitCalled ==
  ASSUME TypeOK, RingPart, NEW s \in Slots,
         NEW ret \in {"record", "account", "reuse", "begin"}, CallWait(s, ret),
         completed < slot[s].counter, slot[s].counter <= LastSubmitted,
         UNCHANGED <<slot, completed>>, LastSubmitted' = LastSubmitted, Cleared' = Cleared
  PROVE  WaitInv'
<1>1. vt'.slot = s /\ vt'.pc = IF slot[s].waiting THEN "idle" ELSE "fence"
  BY CallWaitFacts
<1>2. ~slot[s].waiting => slot[s].counter <= Cleared
  <2>1. slot[s].counter \in Nat /\ Cleared \in Nat
    BY CounterFacts, OrderFacts DEF RingPart
  <2>2. QED
    BY <2>1 DEF RingPart, FlagInv
<1>3. QED
  BY <1>1, <1>2 DEF WaitInv, Waiting

LEMMA WaitKept ==
  ASSUME TypeOK, RingPart, WaitInv, vt' = vt, completed' = completed,
         slot'[vt.slot].counter = slot[vt.slot].counter,
         LastSubmitted' = LastSubmitted, Cleared' \in Nat, Cleared <= Cleared'
  PROVE  WaitInv'
<1>1. Cleared \in Nat /\ slot[vt.slot].counter \in Nat
  BY CounterFacts, OrderFacts DEF RingPart, TypeOK, Locals
<1>2. QED
  BY <1>1 DEF WaitInv, Waiting

(* The worker and the GPU leave the recording thread's locals alone.       *)
LEMMA OtherThreadKeeps ==
  ASSUME BuffersInv, TypeOK', RingPart', vt' = vt, cur' = cur, frame' = frame,
         completed' = completed,
         \A s \in Slots : slot'[s].counter = slot[s].counter /\ slot'[s].frame = slot[s].frame,
         Cleared' \in Nat, Cleared <= Cleared'
  PROVE  WaitInv' /\ FrameInv'
<1>1. TypeOK /\ RingPart /\ WaitInv /\ FrameInv /\ cur \in Slots /\ vt.slot \in Slots
  BY DEF BuffersInv, ThreadPart, TypeOK, Locals
<1>2. LastSubmitted' = LastSubmitted
  BY <1>1 DEF LastSubmitted, Counter, Submitted
<1>3. WaitInv'
  BY <1>1, <1>2, WaitKept
<1>4. FrameInv'
  BY <1>1, FrameKept DEF At, Waiting
<1>5. QED
  BY <1>3, <1>4

LEMMA WorkerBeginKeeps ==
  ASSUME BuffersInv, TypeOK', WorkerBegin
  PROVE  RingPart' /\ ThreadPart'
<1> USE DEF ringVars, wsiVars
<1>0. TypeOK /\ RingPart /\ PresentInv /\ StaleInv
  BY DEF BuffersInv, ThreadPart
<1>1. /\ wpc = "idle" /\ wpc' = "submit" /\ queue # <<>>
      /\ UNCHANGED <<slot, cur, frame, completed, signalled, queue, gpu, executed, failure, stale, vt>>
      /\ tracker'.queued = tracker.queued /\ tracker'.completed = tracker.completed
  BY <1>0 DEF WorkerBegin, TypeOK
<1>2. HeadSent' = HeadSent /\ HeadMarked' = HeadMarked /\ Submitted' = Submitted
  BY <1>1 DEF HeadSent, HeadMarked, Submitted
<1>3. Cleared' = Cleared /\ Cleared \in Nat
  BY <1>0, <1>1, <1>2, OrderFacts DEF Cleared, Sent
<1>4. RingPart'
  <2>1. /\ \A s \in Slots : \A k \in slot[s].cleanup : k <= slot[s].counter
        /\ completed <= executed /\ completed <= Cleared
    BY <1>0 DEF RingPart, FlagInv
  <2>2. QED
    BY <1>0, <1>1, <1>2, <2>1, RingKept
<1>5. WaitInv' /\ FrameInv'
  BY <1>1, <1>3, <1>4, OtherThreadKeeps
<1>6. PresentInv'
  BY <1>0, <1>1 DEF PresentInv, Acquiring, Item
<1>7. StaleInv'
  BY <1>0, <1>1 DEF StaleInv, At, Waiting
<1>8. QED
  BY <1>4, <1>5, <1>6, <1>7 DEF ThreadPart

LEMMA WorkerSubmitKeeps ==
  ASSUME BuffersInv, TypeOK', WorkerSubmit
  PROVE  RingPart' /\ ThreadPart'
<1> USE DEF ringVars, wsiVars
<1>0. TypeOK /\ RingPart /\ PresentInv /\ StaleInv
  BY DEF BuffersInv, ThreadPart
<1>1. /\ wpc = "submit" /\ wpc' = IF Item.serial = 0 THEN "clear" ELSE "present"
      /\ UNCHANGED <<slot, cur, frame, completed, queue, executed, tracker, failure, stale, vt>>
  BY DEF WorkerSubmit
<1>2. queue # <<>> /\ Item = queue[1]
  BY <1>0, <1>1, HeadFacts
<1>3. RingPart'
  BY <1>0, RingWorkerSubmits
<1>4. Cleared' \in Nat /\ Cleared <= Cleared'
  <2>1. Len(gpu) \in Nat /\ Len(gpu') = Len(gpu) + 1 /\ executed \in Nat
    BY <1>0 DEF TypeOK, WorkerSubmit
  <2>2. QED
    BY <1>1, <2>1 DEF Cleared, Sent, HeadMarked
<1>5. WaitInv' /\ FrameInv'
  BY <1>1, <1>3, <1>4, OtherThreadKeeps
<1>6. PresentInv'
  <2>1. wpc' \in {"present", "complete"} => Item.serial # 0
    BY <1>1
  <2>2. Acquiring => \A i \in 1 .. Len(queue) :
          queue[i].serial = 0 \/ (i = 1 /\ wpc' \in {"clear", "pop"})
    BY <1>0, <1>1 DEF PresentInv
  <2>3. \A i \in 1 .. Len(queue) : queue[i].serial # 0 =>
          /\ queue[i].serial <= tracker.queued
          /\ tracker.completed < queue[i].serial
          /\ \A j \in 1 .. i - 1 : queue[j].serial < queue[i].serial
    BY <1>0, <1>1 DEF PresentInv
  <2>4. vt.pc # "present"
    BY <1>0, <1>2 DEF PresentInv
  <2>5. Acquiring' = Acquiring /\ Item' = Item
    BY <1>1 DEF Acquiring, Item
  <2>6. tracker.completed <= tracker.queued
    BY <1>0 DEF PresentInv
  <2>7. QED
    BY <1>1, <2>1, <2>2, <2>3, <2>4, <2>5, <2>6 DEF PresentInv
<1>7. StaleInv'
  BY <1>0, <1>1 DEF StaleInv, At, Waiting
<1>8. QED
  BY <1>3, <1>5, <1>6, <1>7 DEF ThreadPart

LEMMA WorkerPresentKeeps ==
  ASSUME BuffersInv, TypeOK', WorkerPresent
  PROVE  RingPart' /\ ThreadPart'
<1> USE DEF ringVars, wsiVars
<1>0. TypeOK /\ RingPart /\ PresentInv /\ StaleInv
  BY DEF BuffersInv, ThreadPart
<1>1. /\ wpc = "present" /\ wpc' = "complete"
      /\ UNCHANGED <<slot, cur, frame, completed, signalled, queue, gpu, executed, tracker, vt>>
      /\ stale' => stale \/ failure'
      /\ failure => failure'
  BY DEF WorkerPresent, PresentResult
<1>2. HeadSent' = HeadSent /\ HeadMarked' = HeadMarked /\ Submitted' = Submitted
  BY <1>1 DEF HeadSent, HeadMarked, Submitted
<1>3. Cleared' = Cleared /\ Cleared \in Nat
  BY <1>0, <1>1, <1>2, OrderFacts DEF Cleared, Sent
<1>4. RingPart'
  <2>1. /\ \A s \in Slots : \A k \in slot[s].cleanup : k <= slot[s].counter
        /\ completed <= executed /\ completed <= Cleared /\ queue # <<>>
    BY <1>0, <1>1 DEF RingPart, FlagInv, OrderInv
  <2>2. QED
    BY <1>0, <1>1, <1>2, <2>1, RingKept
<1>5. WaitInv' /\ FrameInv'
  BY <1>1, <1>3, <1>4, OtherThreadKeeps
<1>6. PresentInv'
  BY <1>0, <1>1 DEF PresentInv, Acquiring, Item
<1>7. ~Acquiring
  <2>1. 1 \in 1 .. Len(queue) /\ Item = queue[1] /\ Item.serial # 0
    BY <1>0, <1>1, HeadFacts, ItemTypes DEF PresentInv
  <2>2. QED
    BY <1>0, <1>1, <2>1 DEF PresentInv
<1>8. StaleInv'
  BY <1>0, <1>1, <1>7 DEF StaleInv, At, Waiting, Acquiring
<1>9. QED
  BY <1>4, <1>5, <1>6, <1>8 DEF ThreadPart

LEMMA WorkerCompleteKeeps ==
  ASSUME BuffersInv, TypeOK', WorkerComplete
  PROVE  RingPart' /\ ThreadPart'
<1> USE DEF ringVars, wsiVars
<1>0. TypeOK /\ RingPart /\ PresentInv /\ StaleInv
  BY DEF BuffersInv, ThreadPart
<1>1. /\ wpc = "complete" /\ wpc' = "clear"
      /\ UNCHANGED <<slot, cur, frame, completed, signalled, queue, gpu, executed, failure, stale, vt>>
      /\ tracker'.queued = tracker.queued /\ tracker'.completed = Item.serial
  BY <1>0 DEF WorkerComplete, TypeOK
<1>2. HeadSent' = HeadSent /\ HeadMarked' = HeadMarked /\ Submitted' = Submitted
  BY <1>1 DEF HeadSent, HeadMarked, Submitted
<1>3. Cleared' = Cleared /\ Cleared \in Nat
  BY <1>0, <1>1, <1>2, OrderFacts DEF Cleared, Sent
<1>4. RingPart'
  <2>1. /\ \A s \in Slots : \A k \in slot[s].cleanup : k <= slot[s].counter
        /\ completed <= executed /\ completed <= Cleared /\ queue # <<>>
    BY <1>0, <1>1 DEF RingPart, FlagInv, OrderInv
  <2>2. QED
    BY <1>0, <1>1, <1>2, <2>1, RingKept
<1>5. WaitInv' /\ FrameInv'
  BY <1>1, <1>3, <1>4, OtherThreadKeeps
<1>6. PresentInv'
  <2>1. Item = queue[1] /\ 1 \in 1 .. Len(queue) /\ Len(queue) \in Nat
    BY <1>0, <1>1, HeadFacts, ItemTypes, OrderFacts
  <2>2. ASSUME NEW i \in 1 .. Len(queue), queue[i].serial # 0
        PROVE  /\ queue[i].serial <= tracker.queued
               /\ i = 1 \/ Item.serial < queue[i].serial
               /\ \A j \in 1 .. i - 1 : queue[j].serial < queue[i].serial
    <3>1. /\ queue[i].serial <= tracker.queued
          /\ \A j \in 1 .. i - 1 : queue[j].serial < queue[i].serial
      BY <1>0, <2>2 DEF PresentInv
    <3>2. i # 1 => 1 \in 1 .. i - 1
      BY <2>1
    <3>3. QED
      BY <2>1, <3>1, <3>2
  <2>3. Acquiring => \A i \in 1 .. Len(queue) : queue[i].serial = 0 \/ i = 1
    BY <1>0 DEF PresentInv
  <2>4. Acquiring' = Acquiring /\ Item' = Item /\ (vt.pc = "present" => queue = <<>>)
    BY <1>0, <1>1 DEF PresentInv, Acquiring, Item
  <2>5. tracker'.completed <= tracker'.queued
    BY <1>0, <1>1, <2>1 DEF PresentInv
  <2>6. QED
    BY <1>1, <2>2, <2>3, <2>4, <2>5 DEF PresentInv
<1>7. StaleInv'
  BY <1>0, <1>1 DEF StaleInv, At, Waiting
<1>8. QED
  BY <1>4, <1>5, <1>6, <1>7 DEF ThreadPart

LEMMA WorkerClearKeeps ==
  ASSUME BuffersInv, TypeOK', WorkerClear
  PROVE  RingPart' /\ ThreadPart'
<1> USE DEF wsiVars
<1>0. TypeOK /\ RingPart /\ PresentInv /\ StaleInv
  BY DEF BuffersInv, ThreadPart
<1>1. /\ wpc = "clear" /\ wpc' = "pop"
      /\ UNCHANGED <<cur, frame, completed, queue, gpu, executed, tracker, failure, stale, vt>>
  BY DEF WorkerClear
<1>2. RingPart'
  BY <1>0, RingWorkerClears
<1>3. \A s \in Slots : slot'[s].counter = slot[s].counter /\ slot'[s].frame = slot[s].frame
  BY <1>0 DEF WorkerClear, TypeOK
<1>4. Cleared' \in Nat /\ Cleared <= Cleared'
  <2>1. Sent' = Sent /\ Sent \in Nat
    BY <1>0, <1>1, OrderFacts DEF Sent
  <2>2. QED
    BY <1>1, <2>1 DEF Cleared, HeadMarked
<1>5. WaitInv' /\ FrameInv'
  BY <1>1, <1>2, <1>3, <1>4, OtherThreadKeeps
<1>6. PresentInv'
  BY <1>0, <1>1 DEF PresentInv, Acquiring
<1>7. StaleInv'
  BY <1>0, <1>1 DEF StaleInv, At, Waiting
<1>8. QED
  BY <1>2, <1>5, <1>6, <1>7 DEF ThreadPart

LEMMA WorkerPopKeeps ==
  ASSUME BuffersInv, TypeOK', WorkerPop
  PROVE  RingPart' /\ ThreadPart'
<1> USE DEF ringVars, wsiVars
<1>0. TypeOK /\ RingPart /\ PresentInv /\ StaleInv
  BY DEF BuffersInv, ThreadPart
<1>1. /\ wpc = "pop" /\ wpc' = "idle" /\ queue' = Tail(queue)
      /\ UNCHANGED <<slot, cur, frame, completed, gpu, executed, tracker, failure, stale, vt>>
  BY DEF WorkerPop
<1>2. RingPart'
  BY <1>0, RingWorkerPops
<1>3. Cleared' = Cleared /\ Cleared \in Nat
  BY <1>0, <1>1, OrderFacts DEF Cleared, HeadMarked, Sent
<1>4. WaitInv' /\ FrameInv'
  BY <1>1, <1>2, <1>3, OtherThreadKeeps
<1>5. PresentInv'
  <2>1. queue # <<>> /\ Len(queue) \in Nat /\ Len(queue') = Len(queue) - 1
        /\ \A i \in 1 .. Len(queue) - 1 : queue'[i] = queue[i + 1]
    <3>1. queue \in Seq([slot : Slots, serial : Nat]) /\ queue # <<>>
      BY <1>0, <1>1, HeadFacts DEF TypeOK
    <3>2. QED
      BY <1>1, <3>1, QueueFacts
  <2>2. ASSUME NEW i \in 1 .. Len(queue')
        PROVE  /\ i + 1 \in 1 .. Len(queue) /\ i + 1 # 1 /\ queue'[i] = queue[i + 1]
               /\ \A j \in 1 .. i - 1 : queue'[j] = queue[j + 1] /\ j + 1 \in 1 .. (i + 1) - 1
    BY <2>1
  <2>3. ASSUME NEW i \in 1 .. Len(queue'), queue'[i].serial # 0
        PROVE  /\ queue'[i].serial <= tracker.queued
               /\ tracker.completed < queue'[i].serial
               /\ \A j \in 1 .. i - 1 : queue'[j].serial < queue'[i].serial
    <3>1. /\ queue[i + 1].serial <= tracker.queued
          /\ tracker.completed < queue[i + 1].serial
          /\ \A j \in 1 .. (i + 1) - 1 : queue[j].serial < queue[i + 1].serial
      BY <1>0, <2>2, <2>3 DEF PresentInv
    <3>2. QED
      BY <2>2, <3>1
  <2>4. Acquiring => \A i \in 1 .. Len(queue') : queue'[i].serial = 0
    BY <1>0, <2>2 DEF PresentInv
  <2>5. Acquiring' = Acquiring /\ vt.pc # "present"
    BY <1>0, <1>1, <2>1 DEF PresentInv, Acquiring
  <2>6. tracker.completed <= tracker.queued
    BY <1>0 DEF PresentInv
  <2>7. QED
    BY <1>1, <2>3, <2>4, <2>5, <2>6 DEF PresentInv
<1>6. StaleInv'
  BY <1>0, <1>1 DEF StaleInv, At, Waiting
<1>7. QED
  BY <1>2, <1>4, <1>5, <1>6 DEF ThreadPart

LEMMA GpuFinishesKeeps ==
  ASSUME BuffersInv, TypeOK', GpuFinishes
  PROVE  RingPart' /\ ThreadPart'
<1> USE DEF wsiVars
<1>0. TypeOK /\ RingPart /\ PresentInv /\ StaleInv
  BY DEF BuffersInv, ThreadPart
<1>1. UNCHANGED <<slot, cur, frame, completed, queue, wpc, tracker, failure, stale, vt>>
  BY DEF GpuFinishes
<1>2. RingPart' /\ executed' = executed + 1
  BY <1>0, RingGpuFinishes
<1>3. Cleared' = Cleared /\ Cleared \in Nat
  <2>1. Len(gpu) \in Nat /\ Len(gpu') = Len(gpu) - 1 /\ executed \in Nat
    BY <1>0 DEF TypeOK, GpuFinishes
  <2>2. QED
    BY <1>0, <1>1, <1>2, <2>1, OrderFacts DEF Cleared, HeadMarked, Sent
<1>4. WaitInv' /\ FrameInv'
  BY <1>1, <1>2, <1>3, OtherThreadKeeps
<1>5. PresentInv'
  BY <1>0, <1>1 DEF PresentInv, Acquiring, Item
<1>6. StaleInv'
  BY <1>0, <1>1 DEF StaleInv, At, Waiting
<1>7. QED
  BY <1>2, <1>4, <1>5, <1>6 DEF ThreadPart

LEMMA WaitForWorkerThreadIdleKeeps ==
  ASSUME BuffersInv, WaitForWorkerThreadIdle
  PROVE  RingPart' /\ ThreadPart'
<1> USE DEF ringVars, workVars, wsiVars
<1>0. TypeOK /\ RingPart /\ WaitInv /\ FrameInv /\ PresentInv /\ StaleInv
  BY DEF BuffersInv, ThreadPart
<1>1. /\ vt.pc = "idle" /\ queue = <<>> /\ vt'.pc = "fence"
      /\ vt'.slot = vt.slot /\ vt'.ret = vt.ret /\ vt'.then = vt.then
  BY <1>0, GotoFacts DEF WaitForWorkerThreadIdle, Positions
<1>2. UNCHANGED <<slot, cur, frame, completed, signalled, queue, wpc, gpu, executed,
                  tracker, failure, stale>>
  BY DEF WaitForWorkerThreadIdle
<1>3. Submitted' <=> Submitted
  BY <1>1 DEF Submitted, InSubmission
<1>4. RingPart' /\ LastSubmitted' = LastSubmitted /\ Cleared' = Cleared
  BY <1>0, <1>2, <1>3, RingQuiet
<1>5. WaitInv'
  <2>1. Cleared = LastSubmitted
    BY <1>0, <1>1, OrderFacts DEF Cleared, HeadMarked
  <2>2. QED
    BY <1>0, <1>1, <1>2, <1>4, <2>1 DEF WaitInv, Waiting
<1>6. FrameInv'
  BY <1>0, <1>1, <1>2, FrameKept DEF At, Waiting
<1>7. PresentInv'
  BY <1>0, <1>1, <1>2, PresentKept DEF Acquiring
<1>8. StaleInv'
  BY <1>0, <1>1, <1>2 DEF StaleInv, At, Waiting
<1>9. QED
  BY <1>4, <1>5, <1>6, <1>7, <1>8 DEF ThreadPart

(* The wait returns: what the counter covers is executed and let go of.    *)
LEMMA FenceSignalledFacts ==
  ASSUME TypeOK, RingPart, WaitInv, FenceSignalled
  PROVE  /\ slot[vt.slot].counter \in Nat /\ completed' = slot[vt.slot].counter
         /\ completed < completed' /\ completed' <= executed /\ completed' <= Cleared
         /\ vt'.pc = vt.ret /\ vt.ret \in {"record", "account", "reuse", "begin"}
         /\ vt.ret # "record" => vt'.then = vt.then
         /\ vt.ret = "record" => vt'.then = "record"
<1>1. vt.slot \in Slots /\ vt.ret \in {"record", "account", "reuse", "begin"}
      /\ vt.ret \in Positions
  BY DEF TypeOK, Locals, Positions
<1>2. /\ vt.pc = "fence" /\ vt.slot \in signalled /\ Goto(vt.ret)
      /\ completed' = slot[vt.slot].counter
  BY DEF FenceSignalled
<1>3. slot[vt.slot].counter \in Nat /\ slot[vt.slot].counter <= executed
  BY <1>1, <1>2, CounterFacts DEF RingPart, FlagInv
<1>4. slot[vt.slot].counter <= Cleared /\ completed < slot[vt.slot].counter
  BY <1>2 DEF WaitInv, Waiting
<1>5. QED
  BY <1>1, <1>2, <1>3, <1>4, GotoFacts

LEMMA FenceSignalledKeeps ==
  ASSUME BuffersInv, FenceSignalled
  PROVE  RingPart' /\ ThreadPart'
<1> USE DEF workVars, wsiVars
<1>0. TypeOK /\ RingPart /\ WaitInv /\ FrameInv /\ PresentInv /\ StaleInv /\ cur \in Slots
  BY DEF BuffersInv, ThreadPart, TypeOK
<1>1. /\ vt.pc = "fence"
      /\ UNCHANGED <<cur, frame, signalled, queue, wpc, gpu, executed, tracker, failure, stale>>
  BY DEF FenceSignalled
<1>2. /\ completed' <= executed /\ completed' <= Cleared
      /\ vt'.pc = vt.ret /\ vt.ret \in {"record", "account", "reuse", "begin"}
      /\ vt.ret # "record" => vt'.then = vt.then
      /\ vt.ret = "record" => vt'.then = "record"
  BY <1>0, FenceSignalledFacts
<1>3. \A s \in Slots : /\ slot'[s].counter = slot[s].counter /\ slot'[s].waiting = slot[s].waiting
                       /\ slot'[s].frame = slot[s].frame
                       /\ slot'[s].cleanup \subseteq slot[s].cleanup
  <2>1. \A s \in Slots : slot'[s] = slot[s] \/ slot'[s] = [slot[s] EXCEPT !.cleanup = {}]
    BY DEF FenceSignalled
  <2>2. slot \in [Slots -> [counter : Nat, frame : Frames, waiting : BOOLEAN, cleanup : SUBSET Nat]]
    BY <1>0 DEF TypeOK
  <2>3. QED
    BY <2>1, <2>2
<1>4. Submitted' <=> Submitted
  BY <1>1, <1>2 DEF Submitted, InSubmission
<1>5. RingPart'
  <2>1. \A s \in Slots : \A k \in slot'[s].cleanup : k <= slot[s].counter
    BY <1>0, <1>3 DEF RingPart, FlagInv
  <2>2. HeadSent' = HeadSent /\ HeadMarked' = HeadMarked /\ (wpc' # "idle" => queue # <<>>)
    BY <1>0, <1>1 DEF HeadSent, HeadMarked, RingPart, OrderInv
  <2>3. QED
    BY <1>0, <1>1, <1>2, <1>3, <1>4, <2>1, <2>2, RingKept
<1>6. WaitInv'
  BY <1>2 DEF WaitInv, Waiting
<1>7. FrameInv'
  BY <1>0, <1>1, <1>2, <1>3, FrameKept DEF At, Waiting
<1>8. PresentInv'
  BY <1>0, <1>1, <1>2, PresentKept DEF Acquiring
<1>9. StaleInv'
  <2>1. At("record") => vt.then = "record"
    BY <1>0 DEF StaleInv
  <2>2. At("record")' => vt'.then = "record"
    BY <1>2 DEF At, Waiting
  <2>3. stale => failure \/ vt.then = "recreate"
    BY <1>0 DEF StaleInv
  <2>4. vt.ret = "record" => vt.then = "record"
    BY <1>1, <2>1 DEF At, Waiting
  <2>5. QED
    BY <1>1, <1>2, <2>2, <2>3, <2>4 DEF StaleInv
<1>10. QED
  BY <1>5, <1>6, <1>7, <1>8, <1>9 DEF ThreadPart

(* A submission started between two operations.                            *)
LEMMA SubmitKeeps ==
  ASSUME BuffersInv, NEW op \in Operations, vt.pc = "record", CallSubmit(op, "record"),
         UNCHANGED <<cur, frame, completed, signalled, wpc, gpu, executed, failure, stale>>
  PROVE  RingPart' /\ ThreadPart' /\ (QueueSubmission(op) \/ DirectSubmission)
<1>0. TypeOK /\ RingPart /\ FrameInv /\ PresentInv /\ StaleInv /\ cur \in Slots
  BY DEF BuffersInv, ThreadPart, TypeOK
<1>1. /\ vt'.then = "record"
      /\ QueueSubmission(op) \/ DirectSubmission
  BY <1>0, CallSubmitFacts
<1>2. vt'.pc \in {"account", "drain"}
  BY <1>1 DEF QueueSubmission, DirectSubmission
<1>3. ~Submitted
  BY DEF Submitted, InSubmission
<1>4. RingPart'
  <2>1. CASE QueueSubmission(op)
    BY <1>0, <1>3, <2>1, RingQueued
  <2>2. CASE DirectSubmission
    <3>1. ~Submitted'
      BY <2>2 DEF DirectSubmission, Submitted, InSubmission
    <3>2. QED
      BY <1>0, <1>3, <2>2, <3>1, RingQuiet DEF DirectSubmission
  <2>3. QED
    BY <1>1, <2>1, <2>2
<1>5. WaitInv'
  BY <1>2 DEF WaitInv, Waiting
<1>6. FrameInv'
  <2>1. slot'[cur].frame = slot[cur].frame
    BY <1>0, <1>1 DEF QueueSubmission, DirectSubmission, TypeOK
  <2>2. QED
    BY <1>0, <1>2, <2>1, FrameKept DEF At, Waiting
<1>7. PresentInv'
  <2>1. ~Acquiring' /\ vt'.pc # "present"
    BY <1>1, <1>2 DEF Acquiring
  <2>2. CASE QueueSubmission(op)
    <3> DEFINE serial == IF op.present THEN tracker.queued + 1 ELSE 0
               e == [slot |-> cur, serial |-> serial]
    <3>1. /\ tracker.queued \in Nat /\ tracker.completed \in Nat
          /\ tracker.completed <= tracker.queued /\ Len(queue) \in Nat
      BY <1>0 DEF TypeOK, PresentInv
    <3>2. /\ tracker'.completed = tracker.completed
          /\ tracker'.queued = IF op.present THEN tracker.queued + 1 ELSE tracker.queued
      BY <1>0, <2>2 DEF TypeOK, QueueSubmission
    <3>3. /\ serial \in Nat
          /\ serial # 0 => /\ serial = tracker.queued + 1 /\ serial = tracker'.queued
                           /\ tracker.completed < serial
      BY <3>1, <3>2
    <3>4. tracker'.completed <= tracker'.queued /\ tracker'.queued \in Nat
          /\ tracker.queued <= tracker'.queued
      BY <3>1, <3>2
    <3>5. /\ Len(queue') = Len(queue) + 1
          /\ \A i \in 1 .. Len(queue) : queue'[i] = queue[i]
          /\ queue'[Len(queue) + 1].serial = serial
      <4>1. queue \in Seq([slot : Slots, serial : Nat]) /\ e \in [slot : Slots, serial : Nat]
        BY <1>0, <3>3 DEF TypeOK
      <4>2. queue' = Append(queue, e) /\ e.serial = serial
        BY <2>2 DEF QueueSubmission
      <4> HIDE DEF e
      <4>3. QED
        BY <4>1, <4>2, QueueFacts
    <3> HIDE DEF serial
    <3>6. ASSUME NEW i \in 1 .. Len(queue), queue[i].serial # 0
          PROVE  /\ queue[i].serial \in Nat /\ queue[i].serial <= tracker.queued
                 /\ (i = 1 /\ wpc \in {"clear", "pop"}) \/ tracker.completed < queue[i].serial
                 /\ \A j \in 1 .. i - 1 : queue[j].serial < queue[i].serial
      BY <1>0, <3>6, ItemTypes DEF PresentInv
    <3>7. ASSUME NEW i \in 1 .. Len(queue'), queue'[i].serial # 0
          PROVE  /\ queue'[i].serial <= tracker'.queued
                 /\ (i = 1 /\ wpc \in {"clear", "pop"}) \/ tracker'.completed < queue'[i].serial
                 /\ \A j \in 1 .. i - 1 : queue'[j].serial < queue'[i].serial
      <4>1. CASE i \in 1 .. Len(queue)
        <5>1. \A j \in 1 .. i - 1 : j \in 1 .. Len(queue)
          BY <3>1, <4>1
        <5>2. QED
          BY <3>1, <3>2, <3>4, <3>5, <3>6, <3>7, <4>1, <5>1
      <4>2. CASE i = Len(queue) + 1
        <5>1. \A j \in 1 .. i - 1 : j \in 1 .. Len(queue) /\ queue[j].serial \in Nat
          BY <1>0, <3>1, <4>2, ItemTypes
        <5>2. \A j \in 1 .. Len(queue) : queue[j].serial = 0 \/ queue[j].serial <= tracker.queued
          BY <3>6
        <5>3. \A j \in 1 .. i - 1 : queue'[j].serial < serial
          BY <3>1, <3>3, <3>5, <3>7, <4>2, <5>1, <5>2
        <5>4. QED
          BY <3>1, <3>2, <3>3, <3>5, <3>7, <4>2, <5>3
      <4>3. QED
        BY <3>1, <3>5, <4>1, <4>2
    <3>8. wpc \in {"present", "complete"} => Item'.serial # 0
      <4>1. wpc \in {"present", "complete"} => queue # <<>> /\ Item.serial # 0
        BY <1>0 DEF RingPart, OrderInv, PresentInv
      <4>2. queue # <<>> => Item = queue[1] /\ 1 \in 1 .. Len(queue)
        BY <1>0, ItemTypes
      <4>3. queue # <<>> => Item' = queue'[1]
        <5>1. queue' \in Seq([slot : Slots, serial : Nat])
          BY <1>0, <2>2, SubmissionTypes
        <5>2. queue' # <<>>
          BY <3>1, <3>5, <5>1
        <5>3. QED
          BY <5>1, <5>2, QueueFacts DEF Item
      <4>4. QED
        BY <3>5, <4>1, <4>2, <4>3
    <3>9. QED
      BY <2>1, <3>4, <3>7, <3>8 DEF PresentInv
  <2>3. CASE DirectSubmission
    BY <1>0, <2>1, <2>3, PresentKept DEF DirectSubmission
  <2>4. QED
    BY <1>1, <2>2, <2>3
<1>8. StaleInv'
  <2>1. stale => failure
    BY <1>0 DEF StaleInv
  <2>2. QED
    BY <1>1, <1>2, <2>1 DEF StaleInv, At, Waiting
<1>9. QED
  BY <1>1, <1>4, <1>5, <1>6, <1>7, <1>8 DEF ThreadPart

(* The GPU is drained before the swap chain is rebuilt.                    *)
LEMMA WaitForGPUIdleKeeps ==
  ASSUME BuffersInv, NEW then \in {"rebuilt", "recreate"}, vt.pc \in {"check", "acquire"},
         CallSubmit(WaitForGPUIdle, then),
         UNCHANGED <<cur, frame, completed, signalled, wpc, gpu, executed, stale>>,
         stale => failure' \/ then = "recreate"
  PROVE  RingPart' /\ ThreadPart' /\ DirectSubmission
<1>0. TypeOK /\ RingPart /\ FrameInv /\ PresentInv
  BY DEF BuffersInv, ThreadPart
<1>1. vt'.then = then /\ DirectSubmission /\ vt'.pc = "drain"
  BY <1>0, CallSubmitFacts, OperationTypes DEF DirectSubmission
<1>2. ~Submitted /\ ~Submitted'
  BY <1>1 DEF Submitted, InSubmission
<1>3. RingPart'
  BY <1>0, <1>1, <1>2, RingQuiet DEF DirectSubmission
<1>4. WaitInv'
  BY <1>1 DEF WaitInv, Waiting
<1>5. FrameInv'
  BY <1>0, <1>1, FrameKept DEF At, Waiting, DirectSubmission
<1>6. PresentInv'
  <2>1. Acquiring /\ vt'.pc # "present"
    BY <1>0, <1>1 DEF Acquiring, StaleInv
  <2>2. QED
    BY <1>0, <1>1, <2>1, PresentKept DEF DirectSubmission
<1>7. StaleInv'
  BY <1>1 DEF StaleInv, At, Waiting
<1>8. QED
  BY <1>1, <1>3, <1>4, <1>5, <1>6, <1>7 DEF ThreadPart

LEMMA SubmitHereKeeps ==
  ASSUME BuffersInv, SubmitHere
  PROVE  RingPart' /\ ThreadPart'
<1> USE DEF ringVars, wsiVars
<1>0. TypeOK /\ RingPart /\ FrameInv /\ PresentInv /\ StaleInv /\ cur \in Slots
  BY DEF BuffersInv, ThreadPart, TypeOK
<1>1. /\ vt.pc = "drain" /\ queue = <<>>
      /\ UNCHANGED <<slot, cur, frame, completed, queue, wpc, executed, tracker, failure, stale>>
  BY DEF SubmitHere
<1>2. /\ RingPart' /\ Submitted' /\ vt'.pc \in {"present", "account", "idle", "fence"}
      /\ vt'.pc \in {"idle", "fence"} => vt'.slot = cur /\ vt'.ret = "account" /\ vt'.pc = "fence"
  BY <1>0, RingSubmitsHere
<1>3. vt'.then = vt.then
  <2>1. Goto("present") \/ CallWait(cur, "account") \/ Goto("account")
    BY DEF SubmitHere
  <2>2. "present" \in Positions /\ "account" \in Positions
    BY DEF Positions
  <2>3. QED
    BY <1>0, <2>1, <2>2, GotoFacts, CallWaitFacts
<1>4. WaitInv'
  <2>1. Counter \in Nat /\ completed \in Nat /\ completed < Counter
    <3>1. completed <= executed /\ executed <= LastSubmitted /\ LastSubmitted = Counter - 1
      <4>1. ~Submitted
        BY <1>1 DEF Submitted, InSubmission
      <4>2. executed <= LastSubmitted
        BY <1>0, OrderFacts
      <4>3. QED
        BY <1>0, <4>1, <4>2 DEF LastSubmitted, RingPart, FlagInv
    <3>2. QED
      BY <1>0, <3>1, CounterFacts DEF RingPart, TypeOK
  <2>2. LastSubmitted' = Counter
    BY <1>1, <1>2 DEF LastSubmitted, Counter
  <2>3. Cleared' = Counter
    <3>1. wpc = "idle" /\ Sent = LastSubmitted /\ Len(gpu) \in Nat
      BY <1>0, <1>1, OrderFacts
    <3>2. Len(gpu') = Len(gpu) + 1 /\ executed \in Nat
      BY <1>0 DEF SubmitHere, TypeOK
    <3>3. LastSubmitted = Counter - 1
      BY <1>1 DEF LastSubmitted, Submitted, InSubmission
    <3>4. QED
      BY <1>1, <2>1, <3>1, <3>2, <3>3 DEF Sent, Cleared, HeadMarked
  <2>4. QED
    BY <1>1, <1>2, <2>1, <2>2, <2>3 DEF WaitInv, Waiting, Counter
<1>5. FrameInv'
  BY <1>0, <1>1, <1>2, FrameKept DEF At, Waiting
<1>6. PresentInv'
  BY <1>0, <1>1, <1>2, <1>3, PresentKept DEF Acquiring
<1>7. StaleInv'
  BY <1>0, <1>1, <1>2, <1>3 DEF StaleInv, At, Waiting
<1>8. QED
  BY <1>2, <1>4, <1>5, <1>6, <1>7 DEF ThreadPart

LEMMA PresentHereKeeps ==
  ASSUME BuffersInv, PresentHere
  PROVE  RingPart' /\ ThreadPart'
<1> USE DEF ringVars, workVars
<1>0. TypeOK /\ RingPart /\ FrameInv /\ PresentInv /\ StaleInv
  BY DEF BuffersInv, ThreadPart
<1>1. /\ vt.pc = "present" /\ vt'.pc = "account" /\ vt'.then = vt.then
      /\ stale' => stale \/ failure'
      /\ failure => failure'
      /\ UNCHANGED <<slot, cur, frame, completed, signalled, queue, wpc, gpu, executed, tracker>>
  BY <1>0, GotoFacts DEF PresentHere, PresentResult, Positions
<1>2. Submitted' <=> Submitted
  BY <1>1 DEF Submitted, InSubmission
<1>3. RingPart'
  BY <1>0, <1>1, <1>2, RingQuiet
<1>4. WaitInv'
  BY <1>1 DEF WaitInv, Waiting
<1>5. FrameInv'
  BY <1>0, <1>1, FrameKept DEF At, Waiting
<1>6. PresentInv'
  BY <1>0, <1>1, PresentKept DEF Acquiring
<1>7. StaleInv'
  BY <1>0, <1>1 DEF StaleInv, At, Waiting
<1>8. QED
  BY <1>3, <1>4, <1>5, <1>6, <1>7 DEF ThreadPart

LEMMA AccountKeeps ==
  ASSUME BuffersInv, Account
  PROVE  RingPart' /\ ThreadPart'
<1> USE DEF workVars, wsiVars
<1>0. TypeOK /\ RingPart /\ FrameInv /\ PresentInv /\ StaleInv
  BY DEF BuffersInv, ThreadPart
<1>1. /\ vt.pc = "account" /\ vt'.then = vt.then
      /\ vt'.pc = IF vt.op.advance THEN "reuse" ELSE "begin"
      /\ UNCHANGED <<slot, cur, completed, signalled, queue, wpc, gpu, executed,
                     tracker, failure, stale>>
  BY <1>0, GotoFacts DEF Account, Positions
<1>2. Submitted' <=> Submitted
  BY <1>1 DEF Submitted, InSubmission
<1>3. RingPart'
  BY <1>0, <1>1, <1>2, RingQuiet
<1>4. WaitInv'
  BY <1>1 DEF WaitInv, Waiting
<1>5. FrameInv'
  <2>1. slot[cur].frame = frame
    BY <1>0, <1>1 DEF FrameInv, At, Waiting
  <2>2. vt.op.advance => frame' # frame
    BY <1>0, FrameTypes, NextFrame DEF Account, TypeOK
  <2>3. QED
    BY <1>1, <2>1, <2>2 DEF FrameInv, At, Waiting
<1>6. PresentInv'
  BY <1>0, <1>1, PresentKept DEF Acquiring
<1>7. StaleInv'
  BY <1>0, <1>1 DEF StaleInv, At, Waiting
<1>8. QED
  BY <1>3, <1>4, <1>5, <1>6, <1>7 DEF ThreadPart

(* A wait for another slot, which is one that has been submitted.          *)
LEMMA CallWaitKeeps ==
  ASSUME BuffersInv, NEW s \in Slots \ {cur}, completed < slot[s].counter,
         NEW ret \in {"record", "reuse", "begin"}, vt.pc = ret, CallWait(s, ret),
         UNCHANGED <<slot, cur, frame, completed, signalled, queue, wpc, gpu, executed,
                     tracker, failure, stale>>
  PROVE  RingPart' /\ ThreadPart'
<1>0. TypeOK /\ RingPart /\ FrameInv /\ PresentInv /\ StaleInv
  BY DEF BuffersInv, ThreadPart
<1>1. vt'.pc \in {"idle", "fence"} /\ vt'.ret = ret /\ vt'.then = vt.then
  BY <1>0, CallWaitFacts
<1>2. Submitted' <=> Submitted
  BY <1>1 DEF Submitted, InSubmission
<1>3. RingPart' /\ LastSubmitted' = LastSubmitted /\ Cleared' = Cleared
  BY <1>0, <1>2, RingQuiet
<1>4. WaitInv'
  <2>1. slot[s].counter <= LastSubmitted
    BY <1>0, CounterFacts DEF RingPart
  <2>2. QED
    BY <1>0, <1>3, <2>1, WaitCalled
<1>5. FrameInv'
  BY <1>0, <1>1, FrameKept DEF At, Waiting
<1>6. PresentInv'
  BY <1>0, <1>1, PresentKept DEF Acquiring
<1>7. StaleInv'
  BY <1>0, <1>1 DEF StaleInv, At, Waiting
<1>8. QED
  BY <1>3, <1>4, <1>5, <1>6, <1>7 DEF ThreadPart

LEMMA WaitForFrameUserKeeps ==
  ASSUME BuffersInv, WaitForFrameUser
  PROVE  RingPart' /\ ThreadPart'
<1> DEFINE k == Min(FrameUsers)
<1>0. TypeOK
  BY DEF BuffersInv
<1>1. FrameUsers \in SUBSET Nat /\ FrameUsers # {}
  BY DEF WaitForFrameUser, FrameUsers, Others
<1>2. k \in FrameUsers
  BY <1>1, MinFacts
<1>3. k \in Others /\ slot[After(k)].counter > completed
  BY <1>2 DEF FrameUsers
<1>4. After(k) \in Slots \ {cur} /\ completed < slot[After(k)].counter
  BY <1>0, <1>3, AfterFacts DEF TypeOK
<1>5. QED
  BY <1>4, CallWaitKeeps DEF WaitForFrameUser, ringVars, workVars, wsiVars

LEMMA WaitForReuseKeeps ==
  ASSUME BuffersInv, WaitForReuse
  PROVE  RingPart' /\ ThreadPart'
<1>1. TypeOK /\ slot[After(1)].counter > completed
  BY DEF BuffersInv, WaitForReuse
<1>2. After(1) \in Slots \ {cur} /\ completed < slot[After(1)].counter
  BY <1>1, AfterFacts DEF TypeOK
<1>3. QED
  BY <1>2, CallWaitKeeps DEF WaitForReuse, ringVars, workVars, wsiVars

(* The search always finds a buffer: the one before the current.           *)
LEMMA WaitForFenceCounterKeeps ==
  ASSUME BuffersInv, NEW c \in Counters, WaitForFenceCounter(c)
  PROVE  RingPart' /\ ThreadPart'
<1> DEFINE covering == {j \in Others : slot[After(j)].counter >= c}
           k == Min(covering)
           last == NUM_COMMAND_BUFFERS - 1
<1>0. TypeOK /\ RingPart
  BY DEF BuffersInv
<1>1. /\ vt.pc = "record" /\ c < Counter /\ c > completed
      /\ CallWait(IF covering = {} THEN cur ELSE After(k), "record")
      /\ UNCHANGED <<slot, cur, frame, completed, signalled, queue, wpc, gpu, executed,
                     tracker, failure, stale>>
  BY DEF WaitForFenceCounter, ringVars, workVars, wsiVars
<1>2. /\ NUM_COMMAND_BUFFERS \in Nat /\ NUM_COMMAND_BUFFERS >= 2
      /\ \A j \in Others : After(j) \in Slots \ {cur} /\ Ahead(After(j)) = j
  BY <1>0, AfterFacts
<1>3. c \in Nat /\ Counter \in Nat \ {0} /\ completed \in Nat
      /\ \A s \in Slots : slot[s].counter \in Nat
  BY <1>0, CounterFacts, RingAssumption DEF RingPart, Counters, TypeOK
<1>4. last \in Others
  BY <1>2 DEF Others
<1>5. slot[After(last)].counter = Counter - 1
  <2>1. After(last) \in Slots \ {cur} /\ Ahead(After(last)) = last
    BY <1>2, <1>4
  <2>2. slot[After(last)].counter = IF Counter + last >= NUM_COMMAND_BUFFERS
                                      THEN Counter + last - NUM_COMMAND_BUFFERS ELSE 0
    BY <1>0, <2>1 DEF RingPart, RingInv
  <2>3. QED
    BY <1>2, <1>3, <2>2
<1>6. covering # {} /\ covering \in SUBSET Nat
  <2>1. last \in covering
    BY <1>1, <1>3, <1>4, <1>5
  <2>2. QED
    BY <2>1 DEF Others
<1>7. k \in covering
  <2> HIDE DEF covering
  <2>1. QED BY <1>6, MinFacts
<1>8. After(k) \in Slots \ {cur} /\ completed < slot[After(k)].counter
  <2>1. k \in Others /\ slot[After(k)].counter >= c
    BY <1>7
  <2> HIDE DEF k
  <2>2. After(k) \in Slots \ {cur}
    BY <1>2, <2>1
  <2>3. QED
    BY <1>1, <1>3, <2>1, <2>2
<1>9. CallWait(After(k), "record")
  BY <1>1, <1>6
<1> HIDE DEF k, covering
<1>10. QED
  BY <1>1, <1>8, <1>9, CallWaitKeeps

LEMMA ResetDescriptorPoolsKeeps ==
  ASSUME BuffersInv, ResetDescriptorPools
  PROVE  RingPart' /\ ThreadPart' /\ vt'.pc = "begin"
<1> USE DEF workVars, wsiVars
<1>0. TypeOK /\ RingPart /\ FrameInv /\ PresentInv /\ StaleInv
  BY DEF BuffersInv, ThreadPart
<1>1. /\ vt.pc = "reuse" /\ vt'.pc = "begin" /\ vt'.then = vt.then
      /\ UNCHANGED <<slot, cur, frame, completed, signalled, queue, wpc, gpu, executed,
                     tracker, failure, stale>>
  BY <1>0, GotoFacts DEF ResetDescriptorPools, Positions
<1>2. Submitted' <=> Submitted
  BY <1>1 DEF Submitted, InSubmission
<1>3. RingPart'
  BY <1>0, <1>1, <1>2, RingQuiet
<1>4. WaitInv'
  BY <1>1 DEF WaitInv, Waiting
<1>5. FrameInv'
  BY <1>1 DEF FrameInv, At, Waiting
<1>6. PresentInv'
  BY <1>0, <1>1, PresentKept DEF Acquiring
<1>7. StaleInv'
  BY <1>0, <1>1 DEF StaleInv, At, Waiting
<1>8. QED
  BY <1>1, <1>3, <1>4, <1>5, <1>6, <1>7 DEF ThreadPart

LEMMA BeginCommandBufferKeeps ==
  ASSUME BuffersInv, BeginCommandBuffer
  PROVE  RingPart' /\ ThreadPart'
<1> USE DEF workVars, wsiVars
<1>0. TypeOK /\ RingPart /\ FrameInv /\ PresentInv /\ StaleInv
  BY DEF BuffersInv, ThreadPart
<1>1. /\ vt.pc = "begin"
      /\ UNCHANGED <<frame, completed, queue, wpc, gpu, executed, tracker, failure, stale>>
  BY DEF BeginCommandBuffer
<1>2. vt'.pc = vt.then /\ vt'.then = vt.then /\ vt.then \in {"record", "rebuilt", "recreate"}
  <2>1. vt.then \in {"record", "rebuilt", "recreate"} /\ vt.then \in Positions
    BY <1>0 DEF TypeOK, Locals, Positions
  <2>2. Goto(vt.then)
    BY DEF BeginCommandBuffer
  <2>3. QED
    BY <1>0, <2>1, <2>2, GotoFacts
<1>3. RingPart' /\ slot'[cur'].frame = frame
  BY <1>0, RingBegins
<1>4. WaitInv'
  BY <1>2 DEF WaitInv, Waiting
<1>5. FrameInv'
  BY <1>1, <1>2, <1>3 DEF FrameInv, At, Waiting
<1>6. PresentInv'
  BY <1>0, <1>1, <1>2, PresentKept DEF Acquiring
<1>7. StaleInv'
  BY <1>0, <1>1, <1>2 DEF StaleInv, At, Waiting
<1>8. QED
  BY <1>3, <1>4, <1>5, <1>6, <1>7 DEF ThreadPart

(* The steps of BindBackbuffer that go from one position to the next.      *)
LEMMA WindowStepKeeps ==
  ASSUME BuffersInv, NEW pc \in Positions, Goto(pc),
         UNCHANGED <<slot, cur, frame, completed, signalled, queue, wpc, gpu, executed, tracker>>,
         vt.pc \in {"record", "guard", "check", "rebuilt", "acquire", "recreate", "reacquire"},
         pc \in {"record", "guard", "check", "acquire", "reacquire"},
         pc \in {"check", "acquire", "reacquire"} => Acquiring \/
           \A i \in 1 .. Len(queue) : queue[i].serial = 0 \/ (i = 1 /\ wpc \in {"clear", "pop"}),
         pc \in {"guard", "check"} => vt.then = "record",
         pc \in {"acquire", "reacquire"} => ~stale',
         stale' => failure'
  PROVE  RingPart' /\ ThreadPart'
<1>0. TypeOK /\ RingPart /\ FrameInv /\ PresentInv /\ StaleInv
  BY DEF BuffersInv, ThreadPart
<1>1. /\ vt'.pc = pc
      /\ pc = "record" => vt'.then = "record"
      /\ pc # "record" => vt'.then = vt.then
  BY <1>0, GotoFacts
<1>2. ~Submitted' /\ ~Submitted
  BY <1>1 DEF Submitted, InSubmission
<1>3. RingPart'
  BY <1>0, <1>2, RingQuiet
<1>4. WaitInv'
  BY <1>1 DEF WaitInv, Waiting
<1>5. FrameInv'
  BY <1>0, <1>1, FrameKept DEF At, Waiting
<1>6. PresentInv'
  <2>1. vt'.pc # "present"
    BY <1>1
  <2>2. Acquiring' => \A i \in 1 .. Len(queue) :
          queue[i].serial = 0 \/ (i = 1 /\ wpc \in {"clear", "pop"})
    <3>1. Acquiring => \A i \in 1 .. Len(queue) :
            queue[i].serial = 0 \/ (i = 1 /\ wpc \in {"clear", "pop"})
      BY <1>0 DEF PresentInv
    <3>2. Acquiring' => Acquiring \/ pc \in {"check", "acquire", "reacquire"}
      BY <1>1 DEF Acquiring
    <3>3. QED
      BY <3>1, <3>2
  <2>3. QED
    BY <1>0, <2>1, <2>2 DEF PresentInv, Item
<1>7. StaleInv'
  BY <1>1 DEF StaleInv, At, Waiting
<1>8. QED
  BY <1>3, <1>4, <1>5, <1>6, <1>7 DEF ThreadPart

LEMMA BindBackbufferKeeps ==
  ASSUME BuffersInv, BindBackbuffer
  PROVE  RingPart' /\ ThreadPart'
<1>1. vt.then = "record" /\ (stale => failure)
  BY DEF BuffersInv, ThreadPart, StaleInv, BindBackbuffer
<1>2. "guard" \in Positions
  BY DEF Positions
<1>3. QED
  BY <1>1, <1>2, WindowStepKeeps DEF BindBackbuffer, ringVars, workVars, wsiVars

(* Past the guard no present is left that has not returned.                *)
LEMMA GuardAcquireKeeps ==
  ASSUME BuffersInv, GuardAcquire
  PROVE  RingPart' /\ ThreadPart'
<1>0. TypeOK /\ PresentInv
  BY DEF BuffersInv, ThreadPart
<1>1. vt.then = "record" /\ (stale => failure)
  BY DEF BuffersInv, ThreadPart, StaleInv, GuardAcquire
<1>2. ASSUME NEW i \in 1 .. Len(queue), queue[i].serial # 0
      PROVE  i = 1 /\ wpc \in {"clear", "pop"}
  <2>1. queue # <<>>
    BY <1>0 DEF TypeOK
  <2>2. tracker.completed >= tracker.queued
    BY <2>1 DEF GuardAcquire
  <2>3. tracker.completed \in Nat /\ tracker.queued \in Nat /\ queue[i].serial \in Nat
    BY <1>0, ItemTypes DEF TypeOK
  <2>4. queue[i].serial <= tracker.queued
        /\ ((i = 1 /\ wpc \in {"clear", "pop"}) \/ tracker.completed < queue[i].serial)
    BY <1>0, <1>2 DEF PresentInv
  <2>5. QED
    BY <2>2, <2>3, <2>4
<1>3. "check" \in Positions
  BY DEF Positions
<1>4. QED
  BY <1>1, <1>2, <1>3, WindowStepKeeps DEF GuardAcquire, ringVars, workVars, wsiVars

LEMMA TakePresentResultKeeps ==
  ASSUME BuffersInv, TakePresentResult
  PROVE  /\ RingPart' /\ ThreadPart'
         /\ (Goto("acquire") /\ UNCHANGED <<slot, queue>>) \/ DirectSubmission
<1>1. vt.pc = "check" /\ vt.then = "record" /\ (stale => failure)
  BY DEF BuffersInv, ThreadPart, StaleInv, TakePresentResult
<1>2. CASE failure
  <2>1. CallSubmit(WaitForGPUIdle, "recreate")
    BY <1>2 DEF TakePresentResult
  <2>2. QED
    BY <1>1, <2>1, WaitForGPUIdleKeeps DEF TakePresentResult
<1>3. CASE ~failure
  <2>1. Goto("acquire") /\ UNCHANGED <<slot, tracker, queue>> /\ ~stale'
    BY <1>1, <1>3 DEF TakePresentResult
  <2>2. Acquiring /\ "acquire" \in Positions
    BY <1>1 DEF Acquiring, Positions
  <2>3. QED
    BY <1>1, <2>1, <2>2, WindowStepKeeps DEF TakePresentResult
<1>4. QED
  BY <1>2, <1>3

LEMMA SurfaceKeeps ==
  ASSUME BuffersInv, SurfaceChanged \/ AcquireFailed
  PROVE  RingPart' /\ ThreadPart' /\ DirectSubmission
<1>1. CASE SurfaceChanged
  <2>1. stale => failure
    BY <1>1 DEF BuffersInv, ThreadPart, StaleInv, SurfaceChanged
  <2>2. QED
    BY <1>1, <2>1, WaitForGPUIdleKeeps DEF SurfaceChanged
<1>2. CASE AcquireFailed
  BY <1>2, WaitForGPUIdleKeeps DEF AcquireFailed
<1>3. QED
  BY <1>1, <1>2

LEMMA AcquireKeeps ==
  ASSUME BuffersInv, SurfaceRebuilt \/ Acquired \/ Recreate \/ ReacquireFailed
  PROVE  RingPart' /\ ThreadPart'
<1> USE DEF ringVars, workVars, wsiVars
<1>0. {"record", "acquire", "reacquire"} \subseteq Positions
  BY DEF Positions
<1>1. CASE SurfaceRebuilt
  <2>1. Acquiring
    BY <1>1 DEF SurfaceRebuilt, Acquiring
  <2>2. QED
    BY <1>0, <1>1, <2>1, WindowStepKeeps DEF SurfaceRebuilt
<1>2. CASE Recreate
  <2>1. Acquiring
    BY <1>2 DEF Recreate, Acquiring
  <2>2. QED
    BY <1>0, <1>2, <2>1, WindowStepKeeps DEF Recreate
<1>3. CASE Acquired
  <2>1. ~stale
    BY <1>3 DEF Acquired, BuffersInv, ThreadPart, StaleInv
  <2>2. QED
    BY <1>0, <1>3, <2>1, WindowStepKeeps DEF Acquired
<1>4. CASE ReacquireFailed
  <2>1. ~stale
    BY <1>4 DEF ReacquireFailed, BuffersInv, ThreadPart, StaleInv
  <2>2. QED
    BY <1>0, <1>4, <2>1, WindowStepKeeps DEF ReacquireFailed
<1>5. QED
  BY <1>1, <1>2, <1>3, <1>4

LEMMA CleanupKeeps ==
  ASSUME BuffersInv, DeferDestruction \/ Shutdown
  PROVE  /\ RingPart' /\ ThreadPart' /\ ~Submitted /\ ~Submitted'
         /\ \A s \in Slots : slot'[s].counter = slot[s].counter
<1> USE DEF workVars, wsiVars
<1>0. TypeOK /\ RingPart /\ FrameInv /\ PresentInv /\ StaleInv /\ cur \in Slots
  BY DEF BuffersInv, ThreadPart, TypeOK
<1>1. /\ vt.pc = "record" /\ vt'.pc \in {"record", "down"} /\ vt'.then = vt.then
      /\ UNCHANGED <<cur, frame, completed, signalled, queue, wpc, gpu, executed,
                     tracker, failure, stale>>
  BY <1>0, GotoFacts DEF DeferDestruction, Shutdown, Positions
<1>2. \A s \in Slots : /\ slot'[s].counter = slot[s].counter /\ slot'[s].waiting = slot[s].waiting
                       /\ slot'[s].frame = slot[s].frame
                       /\ \A k \in slot'[s].cleanup : k <= slot[s].counter
  <2>0. slot \in [Slots -> [counter : Nat, frame : Frames, waiting : BOOLEAN, cleanup : SUBSET Nat]]
    BY <1>0 DEF TypeOK
  <2>1. CASE DeferDestruction
    <3>1. /\ \A s \in Slots : /\ slot'[s].counter = slot[s].counter
                              /\ slot'[s].waiting = slot[s].waiting
                              /\ slot'[s].frame = slot[s].frame
          /\ \A s \in Slots \ {cur} : slot'[s] = slot[s]
          /\ slot'[cur].cleanup = slot[cur].cleanup \union {slot[cur].counter}
      BY <1>0, <2>0, <2>1 DEF DeferDestruction, Counter
    <3>2. \A s \in Slots : \A k \in slot[s].cleanup : k <= slot[s].counter
      BY <1>0 DEF RingPart, FlagInv
    <3>3. slot[cur].counter <= slot[cur].counter
      BY <1>0, <2>0
    <3>4. QED
      BY <3>1, <3>2, <3>3
  <2>2. CASE Shutdown
    BY <2>0, <2>2 DEF Shutdown
  <2>3. QED
    BY <2>1, <2>2
<1>3. ~Submitted /\ ~Submitted'
  BY <1>1 DEF Submitted, InSubmission
<1>4. RingPart'
  <2>1. /\ HeadSent' = HeadSent /\ HeadMarked' = HeadMarked /\ (wpc' # "idle" => queue # <<>>)
        /\ completed' <= executed /\ completed' <= Cleared
    BY <1>0, <1>1 DEF HeadSent, HeadMarked, RingPart, OrderInv, FlagInv
  <2>2. QED
    BY <1>0, <1>1, <1>2, <1>3, <2>1, RingKept
<1>5. WaitInv'
  BY <1>1 DEF WaitInv, Waiting
<1>6. FrameInv'
  BY <1>0, <1>1, <1>2, FrameKept DEF At, Waiting
<1>7. PresentInv'
  BY <1>0, <1>1, PresentKept DEF Acquiring
<1>8. StaleInv'
  BY <1>0, <1>1 DEF StaleInv, At, Waiting
<1>9. QED
  BY <1>2, <1>3, <1>4, <1>5, <1>6, <1>7, <1>8 DEF ThreadPart

-----------------------------------------------------------------------------
(* The inductive invariant.                                                *)

LEMMA BuffersInit == Init => BuffersInv
<1> SUFFICES ASSUME Init PROVE BuffersInv
  OBVIOUS
<1>1. TypeOK /\ RingPart
  BY TypeInit, RingInit
<1>2. /\ vt.pc = "record" /\ vt.then = "record" /\ queue = <<>> /\ Len(queue) = 0 /\ wpc = "idle"
      /\ ~stale /\ frame = 0 /\ cur \in Slots
      /\ tracker.completed = 0 /\ tracker.queued = 0
  BY <1>1 DEF Init, Recording, TypeOK
<1>3. WaitInv
  BY <1>2 DEF WaitInv, Waiting
<1>4. FrameInv
  <2>1. slot[cur].frame = frame
    BY <1>2 DEF Init
  <2>2. QED
    BY <1>2, <2>1 DEF FrameInv, At, Waiting
<1>5. PresentInv
  BY <1>2 DEF PresentInv, Acquiring
<1>6. StaleInv
  BY <1>2 DEF StaleInv, At, Waiting
<1>7. QED
  BY <1>1, <1>3, <1>4, <1>5, <1>6 DEF BuffersInv, ThreadPart

LEMMA BuffersStep ==
  ASSUME BuffersInv, [Next]_vars
  PROVE  BuffersInv'
<1>0. TypeOK'
  BY TypeStep
<1>1. CASE Worker
  BY <1>0, <1>1, WorkerBeginKeeps, WorkerSubmitKeeps, WorkerPresentKeeps, WorkerCompleteKeeps,
     WorkerClearKeeps, WorkerPopKeeps DEF Worker, BuffersInv
<1>2. CASE Continue
  <2>1. CASE WaitForWorkerThreadIdle \/ FenceSignalled
    BY <1>0, <2>1, WaitForWorkerThreadIdleKeeps, FenceSignalledKeeps DEF BuffersInv
  <2>2. CASE SubmitHere \/ PresentHere \/ Account
    BY <1>0, <2>2, SubmitHereKeeps, PresentHereKeeps, AccountKeeps DEF BuffersInv
  <2>3. CASE WaitForFrameUser \/ ResetDescriptorPools \/ WaitForReuse \/ BeginCommandBuffer
    BY <1>0, <2>3, WaitForFrameUserKeeps, ResetDescriptorPoolsKeeps, WaitForReuseKeeps,
       BeginCommandBufferKeeps DEF BuffersInv
  <2>4. CASE GuardAcquire \/ SurfaceChanged \/ SurfaceRebuilt \/ TakePresentResult
    BY <1>0, <2>4, GuardAcquireKeeps, SurfaceKeeps, AcquireKeeps, TakePresentResultKeeps
    DEF BuffersInv
  <2>5. CASE Acquired \/ AcquireFailed \/ Recreate \/ ReacquireFailed
    BY <1>0, <2>5, SurfaceKeeps, AcquireKeeps DEF BuffersInv
  <2>6. QED
    BY <1>2, <2>1, <2>2, <2>3, <2>4, <2>5 DEF Continue
<1>3. CASE Start
  <2>1. ASSUME NEW op \in {Flush, Execute, WaitForGPUIdle}, Submit(op)
        PROVE  BuffersInv'
    <3>1. op \in Operations
      BY OperationTypes
    <3>2. QED
      BY <1>0, <2>1, <3>1, SubmitKeeps DEF Submit, BuffersInv
  <2>2. CASE DeferDestruction \/ Shutdown
    BY <1>0, <2>2, CleanupKeeps DEF BuffersInv
  <2>3. CASE \E c \in Counters : WaitForFenceCounter(c)
    BY <1>0, <2>3, WaitForFenceCounterKeeps DEF BuffersInv
  <2>4. CASE BindBackbuffer
    BY <1>0, <2>4, BindBackbufferKeeps DEF BuffersInv
  <2>5. CASE PresentBackbuffer
    <3>1. PICK op \in {PresentImage, PresentNothing} : CallSubmit(op, "record")
      BY <2>5 DEF PresentBackbuffer
    <3>2. op \in Operations
      BY <3>1, OperationTypes
    <3>3. QED
      BY <1>0, <2>5, <3>1, <3>2, SubmitKeeps DEF PresentBackbuffer, BuffersInv
  <2>6. QED
    BY <1>3, <2>1, <2>2, <2>3, <2>4, <2>5 DEF Start
<1>4. CASE GpuFinishes
  BY <1>0, <1>4, GpuFinishesKeeps DEF BuffersInv
<1>5. CASE UNCHANGED vars
  <2>1. TypeOK /\ RingPart /\ WaitInv /\ FrameInv /\ PresentInv /\ StaleInv
    BY DEF BuffersInv, ThreadPart
  <2>2. UNCHANGED <<slot, cur, frame, completed, signalled, queue, wpc, gpu, executed,
                    tracker, failure, stale, vt>>
    BY <1>5 DEF vars, ringVars, workVars, wsiVars
  <2>3. RingPart' /\ LastSubmitted' = LastSubmitted /\ Cleared' = Cleared
    <3>1. Submitted' <=> Submitted
      BY <2>2 DEF Submitted
    <3>2. QED
      BY <2>1, <2>2, <3>1, RingQuiet
  <2>4. WaitInv'
    BY <2>1, <2>2, <2>3 DEF WaitInv, Waiting
  <2>5. FrameInv' /\ PresentInv'
    BY <2>1, <2>2, FrameKept, PresentKept DEF At, Waiting, Acquiring, PresentInv
  <2>6. StaleInv'
    BY <2>1, <2>2 DEF StaleInv, At, Waiting
  <2>7. QED
    BY <1>0, <2>3, <2>4, <2>5, <2>6 DEF BuffersInv, ThreadPart
<1>6. QED
  BY <1>1, <1>2, <1>3, <1>4, <1>5 DEF Next

-----------------------------------------------------------------------------
(* Which steps touch a counter or a cleanup list.                          *)

LEMMA SlotSteps ==
  ASSUME BuffersInv, [Next]_vars, ~BeginCommandBuffer
  PROVE  /\ cur' = cur
         /\ \A s \in Slots : slot'[s].counter = slot[s].counter
         /\ \/ FenceSignalled \/ Shutdown
            \/ \A s \in Slots : slot[s].cleanup \subseteq slot'[s].cleanup
<1> USE DEF ringVars, workVars, wsiVars
<1>0. /\ TypeOK /\ cur \in Slots
      /\ slot \in [Slots -> [counter : Nat, frame : Frames, waiting : BOOLEAN, cleanup : SUBSET Nat]]
  BY DEF BuffersInv, TypeOK
<1>1. CASE cur' = cur /\ slot' = slot
  BY <1>1
<1>2. ASSUME NEW op \in Operations, QueueSubmission(op) \/ DirectSubmission, cur' = cur
      PROVE  \A s \in Slots : /\ slot'[s].counter = slot[s].counter
                              /\ slot[s].cleanup \subseteq slot'[s].cleanup
  <2>1. CASE QueueSubmission(op)
    <3>1. slot' = [slot EXCEPT ![cur].waiting = TRUE]
      BY <2>1 DEF QueueSubmission
    <3>2. QED
      BY <1>0, <3>1
  <2>2. CASE DirectSubmission
    BY <2>2 DEF DirectSubmission
  <2>3. QED
    BY <1>2, <2>1, <2>2
<1>3. CASE Worker
  <2>1. CASE WorkerClear
    BY <1>0, <2>1 DEF WorkerClear
  <2>2. CASE ~WorkerClear
    BY <1>1, <1>3, <2>2 DEF Worker, WorkerBegin, WorkerSubmit, WorkerPresent, WorkerComplete, WorkerPop
  <2>3. QED
    BY <2>1, <2>2
<1>4. CASE Continue
  <2>1. CASE FenceSignalled
    <3>1. cur' = cur
      BY <2>1 DEF FenceSignalled
    <3>2. \A s \in Slots : slot'[s] = slot[s] \/ slot'[s] = [slot[s] EXCEPT !.cleanup = {}]
      BY <2>1 DEF FenceSignalled
    <3>3. \A s \in Slots : slot'[s].counter = slot[s].counter
      BY <1>0, <3>2
    <3>4. QED
      BY <2>1, <3>1, <3>3
  <2>2. CASE SurfaceChanged \/ AcquireFailed \/ TakePresentResult
    <3>1. cur' = cur /\ slot' = slot
      BY <2>2, SurfaceKeeps, TakePresentResultKeeps
      DEF SurfaceChanged, AcquireFailed, TakePresentResult, DirectSubmission
    <3>2. QED
      BY <1>1, <3>1
  <2>3. CASE ~(FenceSignalled \/ SurfaceChanged \/ AcquireFailed \/ TakePresentResult)
    <3>1. cur' = cur /\ slot' = slot
      BY <1>4, <2>3 DEF Continue, WaitForWorkerThreadIdle, SubmitHere, PresentHere, Account,
         WaitForFrameUser, ResetDescriptorPools, WaitForReuse, GuardAcquire, SurfaceRebuilt,
         Acquired, Recreate, ReacquireFailed
    <3>2. QED
      BY <1>1, <3>1
  <2>4. QED
    BY <2>1, <2>2, <2>3
<1>5. CASE Start
  <2>1. CASE \E op \in {Flush, Execute, WaitForGPUIdle} : Submit(op)
    <3>1. PICK op \in Operations : CallSubmit(op, "record") /\ cur' = cur
      BY <2>1, OperationTypes DEF Submit
    <3>2. QED
      BY <1>0, <1>2, <3>1, CallSubmitFacts
  <2>2. CASE PresentBackbuffer
    <3>1. PICK op \in Operations : CallSubmit(op, "record") /\ cur' = cur
      BY <2>2, OperationTypes DEF PresentBackbuffer
    <3>2. QED
      BY <1>0, <1>2, <3>1, CallSubmitFacts
  <2>3. CASE DeferDestruction
    BY <1>0, <2>3 DEF DeferDestruction
  <2>4. CASE Shutdown
    <3>1. cur' = cur
      BY <2>4 DEF Shutdown
    <3>2. QED
      BY <2>4, <3>1, CleanupKeeps
  <2>5. CASE BindBackbuffer \/ \E c \in Counters : WaitForFenceCounter(c)
    BY <1>1, <2>5 DEF BindBackbuffer, WaitForFenceCounter
  <2>6. QED
    BY <1>5, <2>1, <2>2, <2>3, <2>4, <2>5 DEF Start
<1>6. CASE GpuFinishes
  BY <1>1, <1>6 DEF GpuFinishes
<1>7. CASE UNCHANGED vars
  BY <1>1, <1>7 DEF vars
<1>8. QED
  BY <1>3, <1>4, <1>5, <1>6, <1>7 DEF Next

-----------------------------------------------------------------------------
(* The theorems.                                                           *)

(* The state has the types of TypeOK whatever the worker, the GPU and the  *)
(* recording thread do; in particular counters are natural numbers and the *)
(* current slot and frame are ones that exist.                             *)
THEOREM BuffersTypeCorrect == Spec => []TypeOK
<1>1. BuffersInv => TypeOK
  BY DEF BuffersInv
<1>2. BuffersInv /\ [Next]_vars => BuffersInv'
  BY BuffersStep
<1>3. QED
  BY <1>1, <1>2, BuffersInit, PTL DEF Spec

(* vkAcquireNextImageKHR, the swap chain's recreation and a present of the *)
(* recording thread never overlap the worker's vkQueuePresentKHR.          *)
THEOREM WindowExclusive == Spec => []WindowHasOneUser
<1>1. BuffersInv => WindowHasOneUser
  <2> SUFFICES ASSUME BuffersInv, wpc = "present"
               PROVE  vt.pc \notin {"acquire", "reacquire", "recreate", "rebuilt", "present"}
    BY DEF WindowHasOneUser
  <2>1. TypeOK /\ RingPart /\ PresentInv
    BY DEF BuffersInv, ThreadPart
  <2>2. queue # <<>> /\ Item = queue[1] /\ 1 \in 1 .. Len(queue) /\ Item.serial # 0
    BY <2>1, HeadFacts, ItemTypes DEF PresentInv
  <2>3. ~Acquiring /\ vt.pc # "present"
    BY <2>1, <2>2 DEF PresentInv
  <2>4. QED
    BY <2>3 DEF Acquiring
<1>2. BuffersInv /\ [Next]_vars => BuffersInv'
  BY BuffersStep
<1>3. QED
  BY <1>1, <1>2, BuffersInit, PTL DEF Spec

(* No image is acquired from a swap chain that a present found out of date. *)
THEOREM FailureSeen == Spec => []FailureSeenBeforeAcquire
<1>1. BuffersInv => FailureSeenBeforeAcquire
  BY DEF BuffersInv, ThreadPart, StaleInv, FailureSeenBeforeAcquire
<1>2. BuffersInv /\ [Next]_vars => BuffersInv'
  BY BuffersStep
<1>3. QED
  BY <1>1, <1>2, BuffersInit, PTL DEF Spec

(* A slot's fence and command pool are reset only when neither the worker  *)
(* nor the GPU has to do with it.                                          *)
THEOREM SlotReuse == Spec => SlotReuseIsSafe
<1>1. ASSUME BuffersInv, [Next]_vars
      PROVE  \A s \in Slots : slot'[s].counter # slot[s].counter => ~WorkerHolds(s) /\ ~GpuHolds(s)
  <2>1. CASE BeginCommandBuffer
    BY <1>1, <2>1, RingBegins DEF BuffersInv
  <2>2. CASE ~BeginCommandBuffer
    BY <1>1, <2>2, SlotSteps
  <2>3. QED
    BY <2>1, <2>2
<1>2. BuffersInv /\ [Next]_vars => BuffersInv'
  BY BuffersStep
<1>3. QED
  BY <1>1, <1>2, BuffersInit, PTL DEF Spec, SlotReuseIsSafe

(* A deferred object is destroyed only when every submission recorded up   *)
(* to its deferral is over.                                                *)
THEOREM DestroyedObject == Spec => DestroyedObjectIsIdle
<1>1. ASSUME BuffersInv, [Next]_vars
      PROVE  \A s \in Slots : \A k \in slot[s].cleanup \ slot'[s].cleanup :
               /\ \A c \in InFlight : c > k
               /\ k < Counter \/ vt'.pc = "down"
  <2>0. /\ TypeOK /\ RingPart /\ WaitInv
        /\ \A s \in Slots : slot[s].cleanup \subseteq Nat
        /\ \A s \in Slots : \A k \in slot[s].cleanup : k <= slot[s].counter
    BY <1>1 DEF BuffersInv, ThreadPart, TypeOK, RingPart, FlagInv
  <2>1. CASE FenceSignalled
    <3> SUFFICES ASSUME NEW s \in Slots, NEW k \in slot[s].cleanup \ slot'[s].cleanup
                 PROVE  (\A c \in InFlight : c > k) /\ k < Counter
      OBVIOUS
    <3> DEFINE now == slot[vt.slot].counter
    <3>1. now \in Nat /\ now <= executed /\ now <= Cleared
      BY <2>0, <2>1, FenceSignalledFacts
    <3>2. s \in CleanedSlots(now)
      BY <2>1 DEF FenceSignalled
    <3> HIDE DEF now
    <3>3. PICK j \in Others : s = After(j) /\ \A i \in 1 .. j : slot[After(i)].counter <= now
      BY <3>2 DEF CleanedSlots
    <3>4. j \in 1 .. j /\ s # cur
      BY <2>0, <3>3, AfterFacts DEF Others
    <3>5. slot[s].counter <= now
      BY <3>3, <3>4
    <3>6. slot[s].counter \in Nat /\ slot[s].counter < Counter /\ Counter \in Nat
      BY <2>0, <3>4, CounterFacts DEF RingPart
    <3>7. k \in Nat /\ k <= slot[s].counter
      BY <2>0
    <3>8. \A c \in InFlight : c \in Nat /\ (c > executed \/ c > Cleared)
      <4>1. \A c \in InFlight : c > executed \/ c > Cleared
        BY <2>0, PendingFacts
      <4>2. \A c \in InFlight : c \in Nat
        BY <2>0, ItemTypes, CounterFacts DEF InFlight, RingPart
      <4>3. QED
        BY <4>1, <4>2
    <3>9. executed \in Nat /\ Cleared \in Nat
      BY <2>0, OrderFacts DEF TypeOK
    <3>10. QED
      BY <3>1, <3>5, <3>6, <3>7, <3>8, <3>9
  <2>2. CASE Shutdown
    <3>1. InFlight = {}
      BY <2>0, <2>2 DEF Shutdown, InFlight
    <3>2. vt'.pc = "down"
      BY <2>0, <2>2, GotoFacts DEF Shutdown, Positions
    <3>3. QED
      BY <3>1, <3>2
  <2>3. CASE BeginCommandBuffer
    <3>1. \A s \in Slots : slot'[s].cleanup = slot[s].cleanup
      BY <2>0, <2>3 DEF BeginCommandBuffer, TypeOK
    <3>2. QED
      BY <3>1
  <2>4. QED
    BY <1>1, <2>1, <2>2, <2>3, SlotSteps
<1>2. BuffersInv /\ [Next]_vars => BuffersInv'
  BY BuffersStep
<1>3. QED
  BY <1>1, <1>2, BuffersInit, PTL DEF Spec, DestroyedObjectIsIdle

(* A frame's descriptor pools are reset only when every buffer recorded in *)
(* that frame has been executed and let go of.                             *)
THEOREM ResetPool == Spec => ResetPoolIsIdle
<1>1. ASSUME BuffersInv, [Next]_vars, vt.pc = "reuse", vt'.pc = "begin"
      PROVE  \A s \in Slots : slot[s].frame = frame => ~WorkerHolds(s) /\ ~GpuHolds(s)
  <2>0. TypeOK /\ RingPart /\ FrameInv /\ completed \in Nat
    BY <1>1 DEF BuffersInv, ThreadPart, TypeOK
  <2>1. FrameUsers = {}
    <3>1. SUFFICES ASSUME FrameUsers # {} PROVE FALSE
      OBVIOUS
    <3>2. CASE WaitForFrameUser
      <4>1. vt'.pc \in {"idle", "fence"}
        BY <2>0, <3>2 DEF WaitForFrameUser, CallWait, TypeOK, Locals
      <4>2. QED
        BY <1>1, <4>1
    <3>3. CASE Worker \/ GpuFinishes \/ UNCHANGED vars
      <4>1. vt' = vt
        BY <3>3 DEF Worker, WorkerBegin, WorkerSubmit, WorkerPresent, WorkerComplete, WorkerClear,
           WorkerPop, GpuFinishes, vars
      <4>2. QED
        BY <1>1, <4>1
    <3>4. CASE Start
      BY <1>1, <3>4 DEF Start, Submit, DeferDestruction, WaitForFenceCounter, BindBackbuffer,
         PresentBackbuffer, Shutdown
    <3>5. CASE Continue /\ ~WaitForFrameUser
      BY <1>1, <3>1, <3>5 DEF Continue, WaitForWorkerThreadIdle, FenceSignalled, SubmitHere,
         PresentHere, Account, ResetDescriptorPools, WaitForReuse, BeginCommandBuffer, GuardAcquire,
         SurfaceChanged, SurfaceRebuilt, TakePresentResult, Acquired, AcquireFailed, Recreate,
         ReacquireFailed
    <3>6. QED
      BY <1>1, <3>2, <3>3, <3>4, <3>5 DEF Next
  <2>2. ASSUME NEW s \in Slots, slot[s].frame = frame
        PROVE  ~WorkerHolds(s) /\ ~GpuHolds(s)
    <3>1. s # cur
      BY <1>1, <2>0, <2>2 DEF FrameInv, At
    <3>2. Ahead(s) \in Others /\ After(Ahead(s)) = s
      BY <2>0, <3>1, AfterFacts
    <3>3. slot[s].counter <= completed
      BY <2>0, <2>1, <2>2, <3>2, CounterFacts DEF FrameUsers, RingPart
    <3>4. slot[s].counter <= executed /\ slot[s].counter <= Cleared
      <4>1. completed <= executed /\ completed <= Cleared /\ executed \in Nat /\ Cleared \in Nat
        BY <2>0, OrderFacts DEF RingPart, FlagInv, TypeOK
      <4>2. slot[s].counter \in Nat
        BY <2>0, CounterFacts DEF RingPart
      <4>3. QED
        BY <2>0, <3>3, <4>1, <4>2
    <3>5. QED
      BY <2>0, <3>4, PendingFacts
  <2>3. QED
    BY <2>2
<1>2. BuffersInv /\ [Next]_vars => BuffersInv'
  BY BuffersStep
<1>3. QED
  BY <1>1, <1>2, BuffersInit, PTL DEF Spec, ResetPoolIsIdle

-----------------------------------------------------------------------------
(* The ring is a fence clock.                                              *)

LEMMA SubmissionIsClock ==
  ASSUME BuffersInv, NEW op \in Operations, vt.pc \in {"record", "check", "acquire"},
         QueueSubmission(op) \/ DirectSubmission,
         cur' = cur, completed' = completed, executed' = executed
  PROVE  [Clock!ClockNext]_(Clock!clockVars)
<1>1. TypeOK /\ cur \in Slots /\ ~Submitted
  BY DEF BuffersInv, TypeOK, Submitted, InSubmission
<1>2. CASE QueueSubmission(op)
  <2>1. Counter' = Counter
    BY <1>1, <1>2 DEF QueueSubmission, TypeOK, Counter
  <2>2. Submitted'
    BY <1>2 DEF QueueSubmission, Submitted, InSubmission
  <2>3. QED
    BY <1>1, <2>1, <2>2 DEF Clock!ClockNext, Clock!SubmitCommandBuffer
<1>3. CASE DirectSubmission
  BY <1>1, <1>3 DEF DirectSubmission, Clock!clockVars, Counter, Submitted, InSubmission
<1>4. QED
  BY <1>2, <1>3

LEMMA ClockStep ==
  ASSUME BuffersInv, [Next]_vars
  PROVE  [Clock!ClockNext]_(Clock!clockVars)
<1> USE DEF ringVars, workVars, wsiVars
<1>0. TypeOK /\ RingPart /\ WaitInv
  BY DEF BuffersInv, ThreadPart
<1>1. ASSUME Counter' = Counter, Submitted' <=> Submitted, completed' = completed, executed' = executed
      PROVE  UNCHANGED Clock!clockVars
  BY <1>1 DEF Clock!clockVars
<1>2. CASE BeginCommandBuffer
  <2>1. UNCHANGED <<completed, executed>>
    BY <1>2 DEF BeginCommandBuffer
  <2>2. QED
    BY <1>0, <1>2, <2>1, RingBegins DEF Clock!ClockNext, Clock!BeginCommandBuffer
<1>3. CASE ~BeginCommandBuffer
  <2>0. cur' = cur /\ Counter' = Counter
    BY <1>0, <1>3, SlotSteps DEF Counter, TypeOK
  <2>1. CASE FenceSignalled
    <3>1. /\ completed < completed' /\ completed' <= executed /\ completed' \in Nat
          /\ vt'.pc = vt.ret /\ vt.ret \in {"record", "account", "reuse", "begin"}
      BY <1>0, <2>1, FenceSignalledFacts
    <3>2. executed' = executed /\ (Submitted' <=> Submitted)
      BY <2>1, <3>1 DEF FenceSignalled, Submitted, InSubmission
    <3>3. completed' \in 1 .. Counter
      <4>1. executed \in Nat /\ completed \in Nat /\ executed <= LastSubmitted
        BY <1>0, OrderFacts, CounterFacts DEF TypeOK, RingPart
      <4>2. LastSubmitted <= Counter /\ Counter \in Nat /\ LastSubmitted \in Nat
        BY <1>0, CounterFacts DEF RingPart
      <4>3. QED
        BY <3>1, <4>1, <4>2
    <3>4. QED
      BY <2>0, <3>1, <3>2, <3>3 DEF Clock!ClockNext, Clock!WaitForFenceCounter
  <2>2. CASE GpuFinishes
    <3>1. executed' = executed + 1 /\ executed < LastSubmitted
      BY <1>0, <2>2, RingGpuFinishes
    <3>2. completed' = completed /\ (Submitted' <=> Submitted)
      BY <2>2 DEF GpuFinishes, Submitted
    <3>3. QED
      BY <2>0, <3>1, <3>2 DEF Clock!ClockNext, Clock!GpuExecutes, LastSubmitted
  <2>3. CASE SubmitHere
    <3>1. Submitted' /\ ~Submitted
      BY <1>0, <2>3, RingSubmitsHere
    <3>2. UNCHANGED <<completed, executed>>
      BY <2>3 DEF SubmitHere
    <3>3. QED
      BY <2>0, <3>1, <3>2 DEF Clock!ClockNext, Clock!SubmitCommandBuffer
  <2>4. CASE \/ SurfaceChanged \/ AcquireFailed \/ PresentBackbuffer
             \/ \E op \in {Flush, Execute, WaitForGPUIdle} : Submit(op)
    <3>1. PICK op \in Operations, then \in {"record", "rebuilt", "recreate"} :
            /\ CallSubmit(op, then) /\ vt.pc \in {"record", "check", "acquire"}
            /\ completed' = completed /\ executed' = executed
      BY <2>4, OperationTypes DEF SurfaceChanged, AcquireFailed, PresentBackbuffer, Submit
    <3>2. QueueSubmission(op) \/ DirectSubmission
      BY <1>0, <3>1, CallSubmitFacts
    <3>3. QED
      BY <2>0, <3>1, <3>2, SubmissionIsClock
  <2>5. CASE TakePresentResult
    <3>1. vt.pc = "check" /\ UNCHANGED <<completed, executed>>
      BY <2>5 DEF TakePresentResult
    <3>2. vt'.pc \in {"acquire", "drain"}
      BY <1>0, <2>5, TakePresentResultKeeps, GotoFacts DEF DirectSubmission, Positions
    <3>3. QED
      BY <1>1, <2>0, <3>1, <3>2 DEF Submitted, InSubmission
  <2>6. CASE Worker \/ UNCHANGED vars
    <3>1. vt' = vt /\ UNCHANGED <<completed, executed>>
      BY <2>6 DEF Worker, WorkerBegin, WorkerSubmit, WorkerPresent, WorkerComplete, WorkerClear,
         WorkerPop, vars
    <3>2. QED
      BY <1>1, <2>0, <3>1 DEF Submitted
  <2>7. CASE WaitForWorkerThreadIdle \/ PresentHere \/ Account \/ ResetDescriptorPools
    <3>1. UNCHANGED <<completed, executed>>
      BY <2>7 DEF WaitForWorkerThreadIdle, PresentHere, Account, ResetDescriptorPools
    <3>2. Submitted' <=> Submitted
      BY <1>0, <2>7, GotoFacts DEF WaitForWorkerThreadIdle, PresentHere, Account,
         ResetDescriptorPools, Submitted, InSubmission, Positions
    <3>3. QED
      BY <1>1, <2>0, <3>1, <3>2
  <2>8. CASE WaitForFrameUser \/ WaitForReuse \/ \E c \in Counters : WaitForFenceCounter(c)
    <3>1. UNCHANGED <<completed, executed>>
      BY <2>8 DEF WaitForFrameUser, WaitForReuse, WaitForFenceCounter
    <3>2. vt.pc \in {"reuse", "begin", "record"} /\ vt'.pc \in {"idle", "fence"} /\ vt'.ret = vt.pc
      BY <1>0, <2>8 DEF WaitForFrameUser, WaitForReuse, WaitForFenceCounter, CallWait, TypeOK, Locals
    <3>3. QED
      BY <1>1, <2>0, <3>1, <3>2 DEF Submitted, InSubmission
  <2>9. CASE \/ GuardAcquire \/ SurfaceRebuilt \/ Acquired \/ Recreate \/ ReacquireFailed
             \/ BindBackbuffer
    <3>1. UNCHANGED <<completed, executed>>
      BY <2>9 DEF GuardAcquire, SurfaceRebuilt, Acquired, Recreate, ReacquireFailed, BindBackbuffer
    <3>2. ~Submitted /\ ~Submitted'
      BY <1>0, <2>9, GotoFacts DEF GuardAcquire, SurfaceRebuilt, Acquired, Recreate,
         ReacquireFailed, BindBackbuffer, Submitted, InSubmission, Positions
    <3>3. QED
      BY <1>1, <2>0, <3>1, <3>2
  <2>10. CASE DeferDestruction \/ Shutdown
    <3>1. UNCHANGED <<completed, executed>>
      BY <2>10 DEF DeferDestruction, Shutdown
    <3>2. QED
      BY <1>1, <2>0, <2>10, <3>1, CleanupKeeps
  <2>11. QED
    BY <1>3, <2>1, <2>2, <2>3, <2>4, <2>5, <2>6, <2>7, <2>8, <2>9, <2>10
    DEF Next, Continue, Start
<1>4. QED
  BY <1>2, <1>3

(* Whatever the worker and the GPU do, the recording thread's clients see  *)
(* a fence clock: counters are executed in order after their submission,   *)
(* the completed counter only grows and never runs ahead, and a slot is    *)
(* taken again only when its counter is completed.                         *)
THEOREM RingImplementsClock == Spec => ImplementsClock
<1>1. Init => Clock!ClockInit
  <2> SUFFICES ASSUME Init PROVE Clock!ClockInit
    OBVIOUS
  <2>1. Counter = 1 /\ ~Submitted
    BY RingAssumption DEF Init, Counter, Slots, Submitted, InSubmission, Recording
  <2>2. QED
    BY <2>1 DEF Init, Clock!ClockInit
<1>2. BuffersInv /\ [Next]_vars => BuffersInv'
  BY BuffersStep
<1>3. BuffersInv /\ [Next]_vars => [Clock!ClockNext]_(Clock!clockVars)
  BY ClockStep
<1>4. QED
  BY <1>1, <1>2, <1>3, BuffersInit, PTL DEF Spec, ImplementsClock, Clock!ClockSpec
=============================================================================
