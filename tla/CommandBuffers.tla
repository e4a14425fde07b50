--------------------------- MODULE CommandBuffers ---------------------------
(***************************************************************************)
(* The Vulkan backend's ring of command buffers: the recording (video)     *)
(* thread in VKGfx and CommandBufferManager, the submission worker, and    *)
(* the GPU, which is external.  A slot is recorded, submitted by the       *)
(* worker or by the recording thread itself, executed, and reused once its *)
(* fence counter is known to be complete.  Presenting hands the window to  *)
(* the worker until vkQueuePresentKHR returned.                            *)
(***************************************************************************)
EXTENDS Naturals, Sequences, FiniteSetsExt

CONSTANTS
  NUM_COMMAND_BUFFERS,   \* slots of the ring
  NUM_FRAMES_IN_FLIGHT,  \* slots of m_frame_resources
  FrameChoices,          \* values of m_frames_in_flight: {2, 3} in the code
  MaxCounter,            \* bound: the last fence counter recorded
  MaxDeferred            \* bound: the objects in one slot's cleanup list

ASSUME RingAssumption ==
  /\ NUM_COMMAND_BUFFERS \in Nat \ {0, 1}
  /\ NUM_FRAMES_IN_FLIGHT \in Nat
  /\ FrameChoices \subseteq 2 .. NUM_FRAMES_IN_FLIGHT
  /\ MaxCounter \in Nat

VARIABLES
  config,    \* m_use_threaded_submission, m_frames_in_flight, the acquire mode
  slot,      \* m_command_buffers
  cur,       \* m_current_cmd_buffer
  frame,     \* m_current_frame
  lastFence, \* m_frame_resources[f].last_fence_counter
  completed, \* m_completed_fence_counter
  signalled, \* the slots whose fence is signalled
  queue,     \* m_submit_thread's m_items
  wpc,       \* the worker's position in its function
  gpu,       \* the submissions the GPU has not finished
  executed,  \* the last counter the GPU finished
  tracker,   \* m_present_tracker
  failure,   \* m_last_present_failure # VK_SUCCESS
  stale,     \* a present found the swap chain out of date
  image,     \* the swap chain image: not bound, valid or invalid
  vt         \* the recording thread: position, submission, slot waited for, returns

ringVars == <<slot, cur, frame, lastFence, completed, signalled>>
workVars == <<queue, wpc, gpu, executed>>
wsiVars == <<tracker, failure, stale, image>>
vars == <<config, ringVars, workVars, wsiVars, vt>>

Slots == 0 .. NUM_COMMAND_BUFFERS - 1
Frames == 0 .. NUM_FRAMES_IN_FLIGHT - 1
Counters == 0 .. MaxCounter

Op(worker, wait, advance, present) ==
  [worker |-> worker, wait |-> wait, advance |-> advance, present |-> present]
Flush == Op(TRUE, FALSE, FALSE, FALSE)
Execute == Op(FALSE, FALSE, FALSE, FALSE)
WaitForGPUIdle == Op(FALSE, TRUE, FALSE, FALSE)
PresentImage == Op(TRUE, FALSE, TRUE, TRUE)
PresentNothing == Op(TRUE, FALSE, TRUE, FALSE)

Positions ==
  {"record", "drain", "present", "account", "reuse", "begin", "idle", "fence",
   "guard", "check", "rebuilt", "acquire", "recreate", "reacquire", "down"}
Operations == [worker : BOOLEAN, wait : BOOLEAN, advance : BOOLEAN, present : BOOLEAN]
Locals == [pc : Positions, op : Operations, slot : Slots,
           ret : {"record", "account", "reuse", "begin"},
           then : {"record", "rebuilt", "recreate"}]

TypeOK ==
  /\ config \in [threaded : BOOLEAN, frames : FrameChoices, guarded : BOOLEAN]
  /\ slot \in [Slots -> [counter : Nat, frame : Frames, waiting : BOOLEAN, cleanup : SUBSET Nat]]
  /\ cur \in Slots /\ frame \in 0 .. config.frames - 1
  /\ lastFence \in [Frames -> Nat]
  /\ completed \in Nat /\ executed \in Nat
  /\ signalled \subseteq Slots
  /\ queue \in Seq([slot : Slots, serial : Nat])
  /\ gpu \in Seq([slot : Slots, counter : Nat])
  /\ wpc \in {"idle", "submit", "present", "complete", "clear", "pop"}
  /\ tracker \in [queued : Nat, begun : Nat, completed : Nat, active : Nat]
  /\ failure \in BOOLEAN /\ stale \in BOOLEAN
  /\ image \in {"unbound", "valid", "invalid"}
  /\ vt \in Locals

\* The recording thread's locals live as long as the operation that uses them.
Recording == [pc |-> "record", op |-> Flush, slot |-> 0, ret |-> "record", then |-> "record"]

\* CreateCommandBuffers has begun the first command buffer; all fences but its own are signalled.
Init ==
  /\ config \in [threaded : BOOLEAN, frames : FrameChoices, guarded : BOOLEAN]
  /\ config.guarded => config.threaded
  /\ slot = [s \in Slots |-> [counter |-> IF s = 0 THEN 1 ELSE 0, frame |-> 0,
                              waiting |-> FALSE, cleanup |-> {}]]
  /\ cur = 0 /\ frame = 0
  /\ lastFence = [f \in Frames |-> 0]
  /\ completed = 0 /\ executed = 0
  /\ signalled = Slots \ {0}
  /\ queue = <<>> /\ gpu = <<>> /\ wpc = "idle"
  /\ tracker = [queued |-> 0, begun |-> 0, completed |-> 0, active |-> 0]
  /\ failure = FALSE /\ stale = FALSE /\ image = "unbound"
  /\ vt = Recording

\* The k-th slot after the current one, and the others in ring order.
After(k) == (cur + k) % NUM_COMMAND_BUFFERS
Others == 1 .. NUM_COMMAND_BUFFERS - 1
Counter == slot[cur].counter
Room(n) == Counter + n <= MaxCounter

Goto(pc) == vt' = IF pc = "record" THEN Recording ELSE [vt EXCEPT !.pc = pc]

-----------------------------------------------------------------------------
(* WaitForCommandBufferCompletion(s), called from several places: ret is where it returns to. *)

\* Has the worker submitted the buffer?  If not, wait first until its queue is empty.
CallWait(s, ret) ==
  vt' = [vt EXCEPT !.pc = IF slot[s].waiting THEN "idle" ELSE "fence", !.slot = s, !.ret = ret]

WaitForWorkerThreadIdle ==
  /\ vt.pc = "idle" /\ queue = <<>>
  /\ Goto("fence")
  /\ UNCHANGED <<config, ringVars, workVars, wsiVars>>

\* Mutant: every other slot is cleaned, whether its counter has been reached or not.
CleanedSlotsAll(now) == {After(k) : k \in {j \in Others : slot[After(j)].counter > completed}}

\* The slots whose cleanup callbacks run: from the one after the current up to the completed
\* counter, the current slot itself left out.
CleanedSlots(now) ==
  {After(k) : k \in {j \in Others : /\ \A i \in 1 .. j : slot[After(i)].counter <= now
                                    /\ slot[After(j)].counter > completed}}

\* vkWaitForFences returned.
FenceSignalled ==
  /\ vt.pc = "fence" /\ vt.slot \in signalled
  /\ LET now == slot[vt.slot].counter
     IN  /\ slot' = [s \in Slots |-> IF s \in CleanedSlots(now)
                                       THEN [slot[s] EXCEPT !.cleanup = {}] ELSE slot[s]]
         /\ completed' = now
  /\ Goto(vt.ret)
  /\ UNCHANGED <<config, cur, frame, lastFence, signalled, workVars, wsiVars>>

-----------------------------------------------------------------------------
(* SubmitCommandBuffer on the recording thread; vt.then is the caller's next position. *)

\* With a worker the buffer is queued, otherwise (or when the caller waits) it is submitted here.
CallSubmit(op, then) ==
  LET async == config.threaded /\ op.worker /\ ~op.wait
      serial == IF op.present THEN tracker.queued + 1 ELSE 0
  IN  IF async
        THEN /\ slot' = [slot EXCEPT ![cur].waiting = TRUE]
             /\ tracker' = [tracker EXCEPT !.queued = IF op.present THEN @ + 1 ELSE @]
             /\ queue' = Append(queue, [slot |-> cur, serial |-> serial])
             /\ vt' = [vt EXCEPT !.pc = "account", !.op = op, !.then = then]
        ELSE /\ vt' = [vt EXCEPT !.pc = "drain", !.op = op, !.then = then]
             /\ UNCHANGED <<slot, tracker, queue>>

\* Mutant: the worker's queue is not drained first.
SubmitHereAtOnce ==
  /\ vt.pc = "drain"
  /\ gpu' = Append(gpu, [slot |-> cur, counter |-> Counter])
  /\ IF vt.op.present THEN Goto("present")
     ELSE IF vt.op.wait THEN CallWait(cur, "account") ELSE Goto("account")
  /\ UNCHANGED <<config, ringVars, queue, wpc, executed, wsiVars>>

\* The code's own submission, after the worker has drained.
SubmitHere ==
  /\ vt.pc = "drain" /\ queue = <<>>
  /\ gpu' = Append(gpu, [slot |-> cur, counter |-> Counter])
  /\ IF vt.op.present THEN Goto("present")
     ELSE IF vt.op.wait THEN CallWait(cur, "account") ELSE Goto("account")
  /\ UNCHANGED <<config, ringVars, queue, wpc, executed, wsiVars>>

\* vkQueuePresentKHR; its first failure is published for the recording thread.
PresentResult ==
  \E failed \in BOOLEAN :
    /\ failure' = (failure \/ failed)
    /\ stale' = (stale \/ failed)

PresentHere ==
  /\ vt.pc = "present"
  /\ PresentResult
  /\ Goto("account")
  /\ UNCHANGED <<config, ringVars, workVars, tracker, image>>

\* The frame the buffer belongs to remembers its fence; the next frame slot is chosen.
Account ==
  /\ vt.pc = "account"
  /\ lastFence' = [lastFence EXCEPT ![slot[cur].frame] = Max({@, Counter})]
  /\ frame' = IF vt.op.advance THEN (frame + 1) % config.frames ELSE frame
  /\ Goto(IF vt.op.advance THEN "reuse" ELSE "begin")
  /\ UNCHANGED <<config, slot, cur, completed, signalled, workVars, wsiVars>>

\* Mutant: the oldest pending buffer of the frame is taken for completed.
FrameUsersButOne ==
  {k \in Others : slot[After(k)].frame = frame /\ slot[After(k)].counter > completed + 1}

\* The buffers that used the new frame's descriptor pools, in ring order.
FrameUsers ==
  {k \in Others : slot[After(k)].frame = frame /\ slot[After(k)].counter > completed}

WaitForFrameUser ==
  /\ vt.pc = "reuse" /\ FrameUsers # {}
  /\ CallWait(After(Min(FrameUsers)), "reuse")
  /\ UNCHANGED <<config, ringVars, workVars, wsiVars>>

ResetDescriptorPools ==
  /\ vt.pc = "reuse" /\ FrameUsers = {}
  /\ lastFence' = [lastFence EXCEPT ![frame] = 0]
  /\ Goto("begin")
  /\ UNCHANGED <<config, slot, cur, frame, completed, signalled, workVars, wsiVars>>

WaitForReuse ==
  /\ vt.pc = "begin" /\ slot[After(1)].counter > completed
  /\ CallWait(After(1), "begin")
  /\ UNCHANGED <<config, ringVars, workVars, wsiVars>>

BeginCommandBuffer ==
  /\ vt.pc = "begin" /\ slot[After(1)].counter <= completed
  /\ signalled' = signalled \ {After(1)}
  /\ slot' = [slot EXCEPT ![After(1)].counter = Counter + 1, ![After(1)].frame = frame]
  /\ cur' = After(1)
  /\ Goto(vt.then)
  /\ UNCHANGED <<config, frame, lastFence, completed, workVars, wsiVars>>

-----------------------------------------------------------------------------
(* What the recording thread does between submissions. *)

Submit(op) ==
  /\ vt.pc = "record" /\ Room(1)
  /\ CallSubmit(op, "record")
  /\ UNCHANGED <<config, cur, frame, lastFence, completed, signalled,
                 wpc, gpu, executed, failure, stale, image>>

DeferDestruction ==
  /\ vt.pc = "record"
  /\ \A s \in Slots : Cardinality(slot[s].cleanup) < MaxDeferred
  /\ slot' = [slot EXCEPT ![cur].cleanup = @ \union {Counter}]
  /\ UNCHANGED <<config, cur, frame, lastFence, completed, signalled,
                 workVars, wsiVars, vt>>

\* Mutant: the search is for a later counter than the one asked for.
WaitForLaterCounter(c) ==
  /\ vt.pc = "record" /\ c < Counter /\ c > completed
  /\ LET covering == {k \in Others : slot[After(k)].counter > c}
     IN  CallWait(IF covering = {} THEN cur ELSE After(Min(covering)), "record")
  /\ UNCHANGED <<config, ringVars, workVars, wsiVars>>

\* The callers never ask for the buffer they are still recording (VKTexture.cpp:1050,
\* VKStreamBuffer.cpp:266).  A search that finds nothing would wait for that buffer.
WaitForFenceCounter(c) ==
  /\ vt.pc = "record" /\ c < Counter /\ c > completed
  /\ LET covering == {k \in Others : slot[After(k)].counter >= c}
     IN  CallWait(IF covering = {} THEN cur ELSE After(Min(covering)), "record")
  /\ UNCHANGED <<config, ringVars, workVars, wsiVars>>

-----------------------------------------------------------------------------
(* BindBackbuffer and PresentBackbuffer. *)

BindBackbuffer ==
  /\ vt.pc = "record" /\ image = "unbound" /\ Room(3)
  /\ Goto("guard")
  /\ UNCHANGED <<config, ringVars, workVars, wsiVars>>

\* Mutants: the guard looks at presents that began; it lets one present be outstanding.
GuardAcquireOnBegun ==
  /\ vt.pc = "guard"
  /\ IF config.guarded THEN tracker.begun >= tracker.queued ELSE queue = <<>>
  /\ Goto("check")
  /\ UNCHANGED <<config, ringVars, workVars, wsiVars>>

GuardAcquireAllButOne ==
  /\ vt.pc = "guard"
  /\ IF config.guarded THEN tracker.completed + 1 >= tracker.queued ELSE queue = <<>>
  /\ Goto("check")
  /\ UNCHANGED <<config, ringVars, workVars, wsiVars>>

\* Either the worker is drained or, with the completion guard, its last present has returned.
GuardAcquire ==
  /\ vt.pc = "guard"
  /\ IF config.guarded THEN tracker.completed >= tracker.queued ELSE queue = <<>>
  /\ Goto("check")
  /\ UNCHANGED <<config, ringVars, workVars, wsiVars>>

\* CheckForSurfaceChange and CheckForSurfaceResize: the swap chain is rebuilt when the GPU is idle.
SurfaceChanged ==
  /\ vt.pc = "check" /\ Room(2)
  /\ CallSubmit(WaitForGPUIdle, "rebuilt")
  /\ UNCHANGED <<config, cur, frame, lastFence, completed, signalled,
                 wpc, gpu, executed, failure, stale, image>>

\* The worker is drained and the result just taken, so that BindBackbuffer's own test finds none.
SurfaceRebuilt ==
  /\ vt.pc = "rebuilt"
  /\ failure' = FALSE /\ stale' = FALSE
  /\ Goto("acquire")
  /\ UNCHANGED <<config, ringVars, workVars, tracker, image>>

\* GetAndClearLastPresentResult decides whether an image is acquired or the chain recreated.
TakePresentResult ==
  /\ vt.pc = "check"
  /\ failure' = FALSE
  /\ IF failure THEN CallSubmit(WaitForGPUIdle, "recreate")
     ELSE Goto("acquire") /\ UNCHANGED <<slot, tracker, queue>>
  /\ UNCHANGED <<config, cur, frame, lastFence, completed, signalled,
                 wpc, gpu, executed, stale, image>>

\* vkAcquireNextImageKHR returns an image, or the chain has to be recreated first.
Acquired ==
  /\ vt.pc \in {"acquire", "reacquire"}
  /\ image' = "valid"
  /\ Goto("record")
  /\ UNCHANGED <<config, ringVars, workVars, tracker, failure, stale>>

AcquireFailed ==
  /\ vt.pc = "acquire"
  /\ CallSubmit(WaitForGPUIdle, "recreate")
  /\ UNCHANGED <<config, cur, frame, lastFence, completed, signalled,
                 wpc, gpu, executed, failure, stale, image>>

Recreate ==
  /\ vt.pc = "recreate"
  /\ stale' = FALSE
  /\ Goto("reacquire")
  /\ UNCHANGED <<config, ringVars, workVars, tracker, failure, image>>

ReacquireFailed ==
  /\ vt.pc = "reacquire"
  /\ image' = "invalid"
  /\ Goto("record")
  /\ UNCHANGED <<config, ringVars, workVars, tracker, failure, stale>>

PresentBackbuffer ==
  /\ vt.pc = "record" /\ image # "unbound" /\ Room(1)
  /\ image' = "unbound"
  /\ CallSubmit(IF image = "valid" THEN PresentImage ELSE PresentNothing, "record")
  /\ UNCHANGED <<config, cur, frame, lastFence, completed, signalled,
                 wpc, gpu, executed, failure, stale>>

\* VideoBackend::Shutdown: the worker and the device are idle, then everything is destroyed.
Shutdown ==
  /\ vt.pc = "record" /\ queue = <<>> /\ gpu = <<>>
  /\ slot' = [s \in Slots |-> [slot[s] EXCEPT !.cleanup = {}]]
  /\ Goto("down")
  /\ UNCHANGED <<config, cur, frame, lastFence, completed, signalled, workVars, wsiVars>>

-----------------------------------------------------------------------------
(* The worker's function, one item at a time; the item is popped when it has returned. *)

Item == Head(queue)

WorkerBegin ==
  /\ wpc = "idle" /\ queue # <<>>
  /\ tracker' = IF Item.serial = 0 THEN tracker
                ELSE [tracker EXCEPT !.begun = Item.serial, !.active = Item.serial]
  /\ wpc' = "submit"
  /\ UNCHANGED <<config, ringVars, queue, gpu, executed, failure, stale, image, vt>>

WorkerSubmit ==
  /\ wpc = "submit"
  /\ gpu' = Append(gpu, [slot |-> Item.slot, counter |-> slot[Item.slot].counter])
  /\ wpc' = IF Item.serial = 0 THEN "clear" ELSE "present"
  /\ UNCHANGED <<config, ringVars, queue, executed, wsiVars, vt>>

WorkerPresent ==
  /\ wpc = "present"
  /\ PresentResult
  /\ wpc' = "complete"
  /\ UNCHANGED <<config, ringVars, queue, gpu, executed, tracker, image, vt>>

WorkerComplete ==
  /\ wpc = "complete"
  /\ tracker' = [tracker EXCEPT !.completed = Item.serial, !.active = 0]
  /\ wpc' = "clear"
  /\ UNCHANGED <<config, ringVars, queue, gpu, executed, failure, stale, image, vt>>

WorkerClear ==
  /\ wpc = "clear"
  /\ slot' = [slot EXCEPT ![Item.slot].waiting = FALSE]
  /\ wpc' = "pop"
  /\ UNCHANGED <<config, cur, frame, lastFence, completed, signalled,
                 queue, gpu, executed, wsiVars, vt>>

WorkerPop ==
  /\ wpc = "pop"
  /\ queue' = Tail(queue)
  /\ wpc' = "idle"
  /\ UNCHANGED <<config, ringVars, gpu, executed, wsiVars, vt>>

\* The GPU finishes submissions in order and signals the fence of each.
GpuFinishes ==
  /\ gpu # <<>>
  /\ executed' = Head(gpu).counter
  /\ signalled' = signalled \union {Head(gpu).slot}
  /\ gpu' = Tail(gpu)
  /\ UNCHANGED <<config, slot, cur, frame, lastFence, completed, queue, wpc, wsiVars, vt>>

-----------------------------------------------------------------------------
Worker == WorkerBegin \/ WorkerSubmit \/ WorkerPresent \/ WorkerComplete \/ WorkerClear \/ WorkerPop

\* The steps inside an operation of the recording thread.
Continue ==
  \/ WaitForWorkerThreadIdle \/ FenceSignalled
  \/ SubmitHere \/ PresentHere \/ Account
  \/ WaitForFrameUser \/ ResetDescriptorPools \/ WaitForReuse \/ BeginCommandBuffer
  \/ GuardAcquire \/ SurfaceChanged \/ SurfaceRebuilt \/ TakePresentResult
  \/ Acquired \/ AcquireFailed \/ Recreate \/ ReacquireFailed

\* The operations it may start.
Start ==
  \/ \E op \in {Flush, Execute, WaitForGPUIdle} : Submit(op)
  \/ DeferDestruction
  \/ \E c \in Counters : WaitForFenceCounter(c)
  \/ BindBackbuffer \/ PresentBackbuffer \/ Shutdown

Next == Worker \/ Continue \/ Start \/ GpuFinishes

Spec == Init /\ [][Next]_vars

\* The worker thread and the GPU keep running, and so does an operation once started.
FairSpec == Spec /\ WF_vars(Worker) /\ WF_vars(Continue) /\ WF_vars(GpuFinishes)

-----------------------------------------------------------------------------
\* The item the worker has not handed to the driver, or whose slot it will still write.
WorkerHolds(s) ==
  \E i \in 1 .. Len(queue) : queue[i].slot = s /\ ~(i = 1 /\ wpc = "pop")
GpuHolds(s) == \E i \in 1 .. Len(gpu) : gpu[i].slot = s

\* BeginCommandBuffer resets the fence and the command pool of a slot: never of one the worker
\* still has to submit or the GPU still executes (the wait of CommandBufferManager.cpp:602).
SlotReuseIsSafe ==
  [][\A s \in Slots : slot'[s].counter # slot[s].counter => ~WorkerHolds(s) /\ ~GpuHolds(s)]_vars

\* Counters the worker, the GPU or the recording thread still has to do with.
InFlight ==
  {slot[queue[i].slot].counter : i \in {j \in 1 .. Len(queue) : ~(j = 1 /\ wpc = "pop")}}
    \union {gpu[i].counter : i \in 1 .. Len(gpu)}

\* An object given to Defer...Destruction is destroyed only when no submission recorded up to
\* then is pending (the cleanup loop of CommandBufferManager.cpp:371-386).
DestroyedObjectIsIdle ==
  [][\A s \in Slots : \A k \in slot[s].cleanup \ slot'[s].cleanup :
        /\ \A c \in InFlight : c > k
        /\ k < Counter \/ vt'.pc = "down"]_vars

\* Descriptor pools of a frame are reset only after the GPU executed every buffer recorded in
\* that frame (the assertion of CommandBufferManager.cpp:464, against what the GPU really did).
ResetPoolIsIdle ==
  [][vt.pc = "reuse" /\ vt'.pc = "begin" =>
       \A s \in Slots : slot[s].frame = frame => ~WorkerHolds(s) /\ ~GpuHolds(s)]_vars

\* vkAcquireNextImageKHR and the worker's vkQueuePresentKHR never overlap: queueing a present
\* gives the window to the worker until that call returned (CommandBufferManager.cpp:416).
WindowHasOneUser ==
  wpc = "present" => vt.pc \notin {"acquire", "reacquire", "recreate", "rebuilt", "present"}

\* No image is acquired from a swap chain that an earlier present reported out of date
\* (VKGfx.cpp:266-268 looks at the published result before it acquires).
FailureSeenBeforeAcquire == vt.pc \in {"acquire", "reacquire"} => ~stale

\* Every operation of the recording thread returns: no wait for a fence, the worker or a
\* present lasts for ever.
OperationReturns == (vt.pc # "record") ~> (vt.pc \in {"record", "down"})

\* The ring is a fence clock: the GPU executes the buffers in the order they were recorded, each
\* after its submission, and m_completed_fence_counter only grows and never runs ahead of it.
InSubmission(pc) == pc \in {"present", "account", "reuse", "begin"}
Submitted == InSubmission(vt.pc) \/ (vt.pc \in {"idle", "fence"} /\ InSubmission(vt.ret))
Clock == INSTANCE FenceClock WITH current <- Counter, submitted <- Submitted
ImplementsClock == Clock!ClockSpec
=============================================================================
