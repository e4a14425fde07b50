---------------------------- MODULE StreamBuffer ----------------------------
(***************************************************************************)
(* StreamBuffer: a ring of host visible memory the recording thread fills  *)
(* with vertices, indices and uniforms, and the GPU reads later.  Space is *)
(* reclaimed from fence counters alone: m_tracked_fences maps a counter to *)
(* the offset the GPU will have passed when that counter is completed.     *)
(* The callers reserve, execute the command buffer and reserve again when  *)
(* there is no space, write, and commit what they wrote.                   *)
(***************************************************************************)
EXTENDS FenceClient, SequencesExt

CONSTANTS
  Size,          \* m_size
  Requests,      \* the <<num_bytes, alignment>> the callers ask for
  Callers        \* "retry": VertexManager's; "utility": UploadUtilityUniforms

ASSUME SizeAssumption ==
  /\ Size \in Nat
  /\ Requests \subseteq (Nat \X (Nat \ {0}))
  /\ \A r \in Requests : r[1] + r[2] <= Size
  /\ Callers \subseteq {"retry", "utility"}

VARIABLES
  offset,        \* m_current_offset
  gpuPosition,   \* m_current_gpu_position
  lastSize,      \* m_last_allocation_size
  tracked,       \* m_tracked_fences
  usedBy,        \* the last command buffer that reads a byte
  caller         \* position and request of the code that uses the buffer

streamVars == <<offset, gpuPosition, lastSize, tracked, usedBy, caller>>

Bytes == 0 .. Size - 1

StreamInit ==
  /\ offset = 0 /\ gpuPosition = 0 /\ lastSize = 0
  /\ tracked = <<>>
  /\ usedBy = [b \in Bytes |-> 0]
  /\ caller = [pc |-> "ready", request |-> <<0, 1>>]

AlignUp(value, alignment) == ((value + alignment - 1) \div alignment) * alignment

-----------------------------------------------------------------------------
\* UpdateGPUPosition: the number of leading fences that are completed, and where they leave
\* the GPU.
Passed ==
  CHOOSE n \in 0 .. Len(tracked) :
    /\ \A i \in 1 .. n : tracked[i].counter <= completed
    /\ n < Len(tracked) => tracked[n + 1].counter > completed

GPUPosition == IF Passed = 0 THEN gpuPosition ELSE tracked[Passed].position

\* UpdateCurrentFencePosition: what has been written is bound to the current command buffer.
UpdatedFences ==
  LET now == [counter |-> current, position |-> offset]
  IN  IF offset = gpuPosition
        THEN [tracked |-> tracked, gpu |-> gpuPosition]
      ELSE IF tracked # <<>> /\ Last(tracked).counter = current
        THEN [tracked |-> Append(Front(tracked), now), gpu |-> gpuPosition]
      ELSE [tracked |-> Append(SubSeq(tracked, Passed + 1, Len(tracked)), now),
            gpu |-> GPUPosition]

\* Mutant: an offset the GPU has caught up with does not give the whole buffer back.
ClearSpaceWithoutReset(position, bytes) ==
  IF offset > position
    THEN IF Size - offset >= bytes THEN {<<offset, position>>}
         ELSE IF position > bytes THEN {<<0, position>>} ELSE {}
  ELSE IF position - offset > bytes THEN {<<offset, position>>} ELSE {}

\* WaitForClearSpace: what waiting for a fence that leaves the GPU at position would give:
\* the new offset and GPU position, or nothing.
ClearSpace(position, bytes) ==
  IF offset = position THEN {<<0, 0>>}
  ELSE IF offset > position
    THEN IF Size - offset >= bytes THEN {<<offset, position>>}
         ELSE IF position > bytes THEN {<<0, position>>} ELSE {}
  ELSE IF position - offset > bytes THEN {<<offset, position>>} ELSE {}

\* Mutant: wrapping around is limited by the offset, not by the GPU's position.
FreeSpaceUpToOffset(gpu, bytes, alignment) ==
  IF offset >= gpu
    THEN IF bytes <= Size - offset THEN {AlignUp(offset, alignment)}
         ELSE IF bytes < offset THEN {0} ELSE {}
  ELSE IF bytes < gpu - offset THEN {AlignUp(offset, alignment)} ELSE {}

\* Space that is free without waiting: the offsets ReserveMemory may choose (at most one).
FreeSpace(gpu, bytes, alignment) ==
  IF offset >= gpu
    THEN IF bytes <= Size - offset THEN {AlignUp(offset, alignment)}
         ELSE IF bytes < gpu THEN {0} ELSE {}
  ELSE IF bytes < gpu - offset THEN {AlignUp(offset, alignment)} ELSE {}

\* ReserveMemory(request): `fail` is where the caller goes when it returns false.
ReserveMemory(request, fail) ==
  LET bytes == request[1] + request[2]
      fences == UpdatedFences.tracked
      gpu == UpdatedFences.gpu
      fitting == {i \in 1 .. Len(fences) : ClearSpace(fences[i].position, bytes) # {}}
      first == CHOOSE i \in fitting : \A j \in fitting : i <= j
      earlier == fitting # {} /\ fences[first].counter # current
      Reserved(o) == /\ offset' = o
                     /\ lastSize' = request[1]
                     /\ caller' = [pc |-> "reserved", request |-> request]
  IN  \/ \* There is space.
         \E o \in FreeSpace(gpu, bytes, request[2]) :
           /\ Reserved(o)
           /\ gpuPosition' = gpu /\ tracked' = fences
           /\ UNCHANGED clockVars
      \/ \* A fence of an earlier command buffer gives space; the caller blocks on it.
         /\ FreeSpace(gpu, bytes, request[2]) = {}
         /\ earlier
         /\ \/ WaitForFenceCounter(fences[first].counter)
            \/ fences[first].counter <= completed /\ UNCHANGED clockVars
         /\ \E space \in ClearSpace(fences[first].position, bytes) :
              Reserved(AlignUp(space[1], request[2])) /\ gpuPosition' = space[2]
         /\ tracked' = IF fences[first].position = offset THEN <<>>
                       ELSE SubSeq(fences, first + 1, Len(fences))
      \/ \* Too much is used by the command buffer being recorded.
         /\ FreeSpace(gpu, bytes, request[2]) = {}
         /\ ~earlier
         /\ caller' = [pc |-> fail, request |-> request]
         /\ gpuPosition' = gpu /\ tracked' = fences
         /\ UNCHANGED <<offset, lastSize, clockVars>>

-----------------------------------------------------------------------------
\* ResetBuffer, UploadUniforms and UploadTexelBuffer ("retry"), UploadUtilityUniforms
\* ("utility"): the first attempt.  A reservation that is not needed is simply not committed.
Reserve(request) ==
  /\ caller.pc \in {"ready", "reserved"} /\ current < MaxCounter
  /\ \E who \in Callers : ReserveMemory(request, who)
  /\ UNCHANGED usedBy

\* No space: the caller executes the command buffer.  UploadUtilityUniforms then writes as if
\* it had reserved, the others reserve again.
ExecuteForSpace ==
  /\ caller.pc \in Callers
  /\ ExecuteCommandBuffer(FALSE)
  /\ caller' = [caller EXCEPT !.pc = IF @ = "retry" THEN "again" ELSE "unreserved"]
  /\ UNCHANGED <<offset, gpuPosition, lastSize, tracked, usedBy>>

ReserveAgain ==
  /\ caller.pc = "again"
  /\ ReserveMemory(caller.request, "panic")
  /\ UNCHANGED usedBy

\* The bytes the caller writes and, committing them, gives to the command buffer being recorded.
Written == IF caller.pc = "reserved" THEN lastSize ELSE caller.request[1]

CommitMemory(bytes) ==
  /\ caller.pc \in {"reserved", "unreserved"} /\ bytes <= Written
  /\ usedBy' = [b \in Bytes |-> IF offset <= b /\ b < offset + bytes THEN current ELSE usedBy[b]]
  /\ offset' = offset + bytes
  /\ caller' = [caller EXCEPT !.pc = "ready"]
  /\ UNCHANGED <<gpuPosition, lastSize, tracked, clockVars>>

\* The rest of the recording thread, while no caller is between its two attempts, and the GPU.
StreamElsewhere ==
  /\ \/ caller.pc \in {"ready", "reserved"} /\ (OtherExecute \/ OtherWait)
     \/ GpuExecutes
  /\ UNCHANGED streamVars

StreamNext ==
  \/ \E request \in Requests : Reserve(request)
  \/ ExecuteForSpace \/ ReserveAgain
  \/ \E bytes \in 0 .. Size : CommitMemory(bytes)
  \/ StreamElsewhere

-----------------------------------------------------------------------------
\* What a caller writes lies inside the buffer and no command buffer that may still run reads
\* it: ReserveMemory hands out only memory the GPU has passed.
WrittenMemoryIsIdle ==
  caller.pc \in {"reserved", "unreserved"} =>
    \A b \in offset .. offset + Written - 1 : b \in Bytes /\ usedBy[b] <= completed

\* The assertion of VKStreamBuffer.cpp:156: what is committed ends inside the buffer.
CommitFits ==
  caller.pc \in {"reserved", "unreserved"} => offset + Written <= Size

\* A reservation that fails succeeds after the command buffer has been executed, whatever the
\* history: VKVertexManager.cpp:160 takes a second failure to mean that the request is too large.
SecondAttemptSucceeds == caller.pc # "panic"
=============================================================================
