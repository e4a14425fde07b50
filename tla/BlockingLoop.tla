---------------------------- MODULE BlockingLoop ----------------------------
(***************************************************************************)
(* Common::BlockingLoop (Common/BlockingLoop.h): a worker thread that runs *)
(* a payload whenever there is new work, and the client threads that       *)
(* trigger it, wait for it and stop it.  The GPU thread's main loop is     *)
(* one (FifoManager::m_gpu_mainloop).                                      *)
(*                                                                         *)
(* Every access to an atomic, flag or event is a step of its own.  Work is *)
(* abstracted to a count: a client publishes a piece of work and then      *)
(* calls Wakeup(); a payload run covers the work published before it       *)
(* starts (the payload itself may pick up more).                           *)
(***************************************************************************)
EXTENDS Integers

CONSTANTS Clients,      \* the client threads
          HasTimeout,   \* TRUE: Run was given a timeout (the GPU loop: 100 ms)
          StopModes,    \* the StopModes clients call Stop with
          StopDuringPrepare, \* TRUE: a client may call Stop while another thread is in Prepare
          Programs,     \* what the clients' program may do: sets of "work" and "stop"
          MaxWork       \* bound: pieces of work published

ASSUME BlockingLoopAssumption ==
  /\ HasTimeout \in BOOLEAN /\ StopDuringPrepare \in BOOLEAN
  /\ StopModes \subseteq {"NonBlock", "Block", "BlockAndGiveUp"}
  /\ Programs \subseteq SUBSET {"work", "stop"}
  /\ MaxWork \in Nat

STATE_SLEEPING       == 0
STATE_DONE           == 1
STATE_LAST_EXECUTION == 2
STATE_NEED_EXECUTION == 3

VARIABLES
  m_running_state, m_stopped, m_shutdown, m_may_sleep,
  m_new_work_event, m_done_event,   \* auto-reset events: their flag
  m_wait_lock,                      \* the clients (at most one) holding the mutex
  prepare,                          \* where the thread that holds m_prepare_lock is, or "no"
  worker,                           \* where the worker is in Run()
  pc,                               \* where each client is in its call
  mode,                             \* StopMode of a client that is in Stop, else "none"
  program,                          \* what the clients publish and call in this behaviour
  \* history
  work,                             \* pieces of work published
  item,                             \* the piece of work a client calls Wakeup() for
  due,                              \* the latest piece whose Wakeup() took effect
  start, completed,                 \* work covered by the current / the last finished payload
  stopping,                         \* the clients that called Stop(Block) since the last Prepare()
  quit                              \* one of these calls has returned

loopVars    == <<m_running_state, m_stopped, m_shutdown, m_may_sleep>>
eventVars   == <<m_new_work_event, m_done_event>>
clientVars  == <<m_wait_lock, pc, mode, item>>
historyVars == <<program, work, due, start, completed, stopping, quit>>
vars        == <<loopVars, eventVars, clientVars, historyVars, prepare, worker>>

IsDone == m_stopped \/ m_running_state <= STATE_DONE

(* The constructor, and no Run() yet.                                      *)
Init ==
  /\ m_running_state = STATE_SLEEPING
  /\ m_stopped = TRUE /\ m_shutdown = FALSE /\ m_may_sleep = FALSE
  /\ m_new_work_event = FALSE /\ m_done_event = FALSE
  /\ m_wait_lock = {}
  /\ prepare = "no" /\ worker = "off"
  /\ pc = [c \in Clients |-> "idle"]
  /\ mode = [c \in Clients |-> "none"]
  /\ program \in Programs
  /\ work = 0 /\ item = [c \in Clients |-> 0]
  /\ due = 0 /\ start = 0 /\ completed = 0 /\ stopping = {} /\ quit = FALSE

-----------------------------------------------------------------------------
(* Prepare(), and the worker.                                              *)

(* Prepare(), called by any thread before the worker runs or by Run()      *)
(* itself.  It does nothing unless the loop is stopped.  The prepare lock  *)
(* keeps a second caller out.  The previous worker thread has been joined. *)
PrepareTest ==
  /\ prepare = "no" /\ m_stopped
  /\ m_stopped' = FALSE
  /\ stopping' = {} /\ quit' = FALSE
  /\ prepare' = "store_state"
  /\ UNCHANGED <<m_running_state, m_shutdown, m_may_sleep, eventVars, clientVars,
                 work, due, start, completed, program>>

Prepare == worker = "off" /\ PrepareTest /\ UNCHANGED worker

PrepareStoreState ==
  /\ prepare = "store_state"
  /\ m_running_state' = STATE_LAST_EXECUTION
  /\ prepare' = "clear_shutdown"
  /\ UNCHANGED <<m_stopped, m_shutdown, m_may_sleep, eventVars, clientVars, historyVars, worker>>

PrepareClearShutdown ==
  /\ prepare = "clear_shutdown"
  /\ m_shutdown' = FALSE
  /\ prepare' = "set_may_sleep"
  /\ UNCHANGED <<m_running_state, m_stopped, m_may_sleep, eventVars, clientVars, historyVars, worker>>

PrepareSetMaySleep ==
  /\ prepare = "set_may_sleep"
  /\ m_may_sleep' = TRUE
  /\ prepare' = "no"
  /\ UNCHANGED <<m_running_state, m_stopped, m_shutdown, eventVars, clientVars, historyVars, worker>>

(* The program starts a thread that calls Run(), which first prepares the  *)
(* loop unless that is done.                                               *)
StartThread ==
  /\ worker = "off"
  /\ worker' = "starting"
  /\ UNCHANGED <<loopVars, eventVars, clientVars, historyVars, prepare>>

RunPrepare ==
  /\ worker = "starting" /\ prepare = "no"
  /\ worker' = "prepare"
  /\ IF m_stopped THEN PrepareTest
     ELSE UNCHANGED <<loopVars, eventVars, clientVars, historyVars, prepare>>

Run ==
  /\ worker = "prepare" /\ prepare = "no"
  /\ worker' = "loop"
  /\ UNCHANGED <<loopVars, eventVars, clientVars, historyVars, prepare>>

WhileNotShutdown ==
  /\ worker = "loop"
  /\ IF m_shutdown
     THEN worker' = "exit" /\ UNCHANGED start
     ELSE worker' = "payload" /\ start' = work
  /\ UNCHANGED <<prepare, loopVars, eventVars, clientVars, work, due, completed, stopping, quit,
                 program>>

Payload ==
  /\ worker = "payload"
  /\ worker' = "switch"
  /\ completed' = start
  /\ UNCHANGED <<prepare, loopVars, eventVars, clientVars, work, due, start, stopping, quit, program>>

(* The switch statement loads the state once.                              *)
SwitchState ==
  /\ worker = "switch"
  /\ worker' = CASE m_running_state = STATE_NEED_EXECUTION -> "case_need"
                 [] m_running_state = STATE_LAST_EXECUTION -> "case_last"
                 [] m_running_state = STATE_DONE           -> "case_done"
                 [] m_running_state = STATE_SLEEPING       -> "sleep"
  /\ UNCHANGED <<prepare, loopVars, eventVars, clientVars, historyVars>>

(* m_running_state--, and where the worker goes from the state it found.   *)
DecrementAt(place, expected, next) ==
  /\ worker = place
  /\ m_running_state' = m_running_state - 1
  /\ worker' = IF m_running_state = expected THEN next ELSE "loop"
  /\ UNCHANGED <<prepare, m_stopped, m_shutdown, m_may_sleep, eventVars, clientVars, historyVars>>

(* Mutant: the done event is not set.                                      *)
CaseLastExecutionSilent == DecrementAt("case_last", STATE_LAST_EXECUTION, "case_done")

CaseNeedExecution == DecrementAt("case_need", STATE_NEED_EXECUTION, "loop")
CaseLastExecution == DecrementAt("case_last", STATE_LAST_EXECUTION, "signal_done")
TryToSleep        == DecrementAt("fall_asleep", STATE_DONE, "sleep")

SignalDone ==
  /\ worker = "signal_done"
  /\ m_done_event' = TRUE
  /\ worker' = "case_done"
  /\ UNCHANGED <<prepare, loopVars, m_new_work_event, clientVars, historyVars>>

(* Sleep only if a client allowed it since the last time; else stay busy.  *)
CaseDone ==
  /\ worker = "case_done"
  /\ worker' = IF m_may_sleep THEN "fall_asleep" ELSE "loop"
  /\ m_may_sleep' = FALSE
  /\ UNCHANGED <<prepare, m_running_state, m_stopped, m_shutdown, eventVars, clientVars, historyVars>>

(* m_new_work_event.Wait() or WaitFor(timeout).                            *)
Sleep ==
  /\ worker = "sleep"
  /\ m_new_work_event \/ HasTimeout
  /\ m_new_work_event' = FALSE
  /\ worker' = "loop"
  /\ UNCHANGED <<prepare, loopVars, m_done_event, clientVars, historyVars>>

(* Leaving Run().                                                          *)
StoreDone ==
  /\ worker = "exit"
  /\ m_running_state' = STATE_DONE
  /\ worker' = "exit_stopped"
  /\ UNCHANGED <<prepare, m_stopped, m_shutdown, m_may_sleep, eventVars, clientVars, historyVars>>

SetStopped ==
  /\ worker = "exit_stopped"
  /\ m_stopped' = TRUE
  /\ worker' = "exit_signal"
  /\ UNCHANGED <<prepare, m_running_state, m_shutdown, m_may_sleep, eventVars, clientVars,
                 historyVars>>

SignalStopped ==
  /\ worker = "exit_signal"
  /\ m_done_event' = TRUE
  /\ worker' = "off"
  /\ UNCHANGED <<prepare, loopVars, m_new_work_event, clientVars, historyVars>>

WorkerNext ==
  \/ RunPrepare \/ PrepareStoreState \/ PrepareClearShutdown \/ PrepareSetMaySleep
  \/ Run \/ WhileNotShutdown \/ Payload \/ SwitchState \/ CaseNeedExecution
  \/ CaseLastExecution \/ SignalDone \/ CaseDone \/ TryToSleep \/ Sleep
  \/ StoreDone \/ SetStopped \/ SignalStopped

-----------------------------------------------------------------------------
(* The clients.                                                            *)

Goto(c, label) == pc' = [pc EXCEPT ![c] = label]

(* Where a client goes when its Wakeup() or its Wait() returns: Stop()     *)
(* calls Wakeup(), and then waits unless it is NonBlock.                   *)
AfterWakeup(c) == IF mode[c] \in {"none", "NonBlock"} THEN "idle" ELSE "wait"
ModeAfterWakeup(c) == IF mode[c] = "NonBlock" THEN "none" ELSE mode[c]
TakeEffect(c) == due' = IF item[c] > due THEN item[c] ELSE due

(* A client publishes work and calls Wakeup().                             *)
PublishWork(c) ==
  /\ "work" \in program
  /\ pc[c] = "idle" /\ work < MaxWork
  /\ work' = work + 1
  /\ item' = [item EXCEPT ![c] = work + 1]
  /\ Goto(c, "wakeup")
  /\ UNCHANGED <<prepare, loopVars, eventVars, worker, m_wait_lock, mode, due, start, completed,
                 stopping, quit, program>>

(* Mutants: the fast path relies on an execution that may have begun; the  *)
(* sleeping worker is not woken.                                           *)
WakeupLoadAcceptsLastExecution(c) ==
  /\ pc[c] = "wakeup"
  /\ IF m_running_state >= STATE_LAST_EXECUTION
     THEN Goto(c, AfterWakeup(c)) /\ mode' = [mode EXCEPT ![c] = ModeAfterWakeup(c)] /\ TakeEffect(c)
     ELSE Goto(c, "exchange") /\ UNCHANGED <<mode, due>>
  /\ UNCHANGED <<prepare, loopVars, eventVars, worker, m_wait_lock, item, work, start, completed,
                 stopping, quit, program>>

WakeupExchangeWithoutEvent(c) ==
  /\ pc[c] = "exchange"
  /\ m_running_state' = STATE_NEED_EXECUTION
  /\ TakeEffect(c)
  /\ Goto(c, AfterWakeup(c)) /\ mode' = [mode EXCEPT ![c] = ModeAfterWakeup(c)]
  /\ UNCHANGED <<prepare, m_stopped, m_shutdown, m_may_sleep, eventVars, worker, m_wait_lock, item,
                 work, start, completed, stopping, quit, program>>

(* Wakeup(): the fast path, the exchange and the event.                    *)
WakeupLoad(c) ==
  /\ pc[c] = "wakeup"
  /\ IF m_running_state >= STATE_NEED_EXECUTION
     THEN Goto(c, AfterWakeup(c)) /\ mode' = [mode EXCEPT ![c] = ModeAfterWakeup(c)] /\ TakeEffect(c)
     ELSE Goto(c, "exchange") /\ UNCHANGED <<mode, due>>
  /\ UNCHANGED <<prepare, loopVars, eventVars, worker, m_wait_lock, item, work, start, completed,
                 stopping, quit, program>>

WakeupExchange(c) ==
  /\ pc[c] = "exchange"
  /\ m_running_state' = STATE_NEED_EXECUTION
  /\ TakeEffect(c)
  /\ IF m_running_state # STATE_SLEEPING
     THEN Goto(c, AfterWakeup(c)) /\ mode' = [mode EXCEPT ![c] = ModeAfterWakeup(c)]
     ELSE Goto(c, "set_event") /\ UNCHANGED mode
  /\ UNCHANGED <<prepare, m_stopped, m_shutdown, m_may_sleep, eventVars, worker, m_wait_lock, item,
                 work, start, completed, stopping, quit, program>>

WakeupSetEvent(c) ==
  /\ pc[c] = "set_event"
  /\ m_new_work_event' = TRUE
  /\ Goto(c, AfterWakeup(c))
  /\ mode' = [mode EXCEPT ![c] = ModeAfterWakeup(c)]
  /\ UNCHANGED <<prepare, loopVars, m_done_event, worker, m_wait_lock, item, historyVars>>

(* Wait() and WaitYield(): return at once when done, else take the lock    *)
(* and wait for the done event, time and again.                            *)
CallWait(c) ==
  /\ pc[c] = "idle"
  /\ Goto(c, "wait")
  /\ UNCHANGED <<prepare, loopVars, eventVars, worker, m_wait_lock, mode, item, historyVars>>

ReturnFromWait(c) ==
  /\ Goto(c, "idle")
  /\ mode' = [mode EXCEPT ![c] = "none"]
  /\ quit' = (quit \/ c \in stopping)
  /\ stopping' = stopping \ {c}

WaitFirstCheck(c) ==
  /\ pc[c] = "wait"
  /\ IF IsDone THEN ReturnFromWait(c)
               ELSE Goto(c, "wait_lock") /\ UNCHANGED <<mode, stopping, quit>>
  /\ UNCHANGED <<prepare, loopVars, eventVars, worker, m_wait_lock, item, work, due, start,
                 completed, program>>

WaitLock(c) ==
  /\ pc[c] = "wait_lock" /\ m_wait_lock = {}
  /\ m_wait_lock' = {c}
  /\ Goto(c, "wait_check")
  /\ UNCHANGED <<prepare, loopVars, eventVars, worker, mode, item, historyVars>>

WaitCheck(c) ==
  /\ pc[c] = "wait_check"
  /\ Goto(c, IF IsDone THEN "wait_done" ELSE "wait_event")
  /\ UNCHANGED <<prepare, loopVars, eventVars, worker, m_wait_lock, mode, item, historyVars>>

WaitEvent(c) ==
  /\ pc[c] = "wait_event" /\ m_done_event
  /\ m_done_event' = FALSE
  /\ Goto(c, "wait_check")
  /\ UNCHANGED <<prepare, loopVars, m_new_work_event, worker, m_wait_lock, mode, item, historyVars>>

(* Mutant: giving up does not mark the loop as stopped.                    *)
GiveUpInVain(c) ==
  /\ pc[c] = "wait_event" /\ mode[c] = "BlockAndGiveUp"
  /\ Goto(c, "wait_check")
  /\ UNCHANGED <<prepare, loopVars, eventVars, worker, m_wait_lock, mode, item, historyVars>>

(* The yield function of Stop(BlockAndGiveUp) after 100 ms.                *)
GiveUp(c) ==
  /\ pc[c] = "wait_event" /\ mode[c] = "BlockAndGiveUp"
  /\ m_stopped' = TRUE
  /\ Goto(c, "wait_check")
  /\ UNCHANGED <<prepare, m_running_state, m_shutdown, m_may_sleep, eventVars, worker,
                 m_wait_lock, mode, item, historyVars>>

WaitReturn(c) ==
  /\ pc[c] = "wait_done"
  /\ m_may_sleep' = TRUE
  /\ m_wait_lock' = {}
  /\ ReturnFromWait(c)
  /\ UNCHANGED <<prepare, m_running_state, m_stopped, m_shutdown, eventVars, worker, item,
                 work, due, start, completed, program>>

AllowSleep(c) ==
  /\ pc[c] = "idle"
  /\ m_may_sleep' = TRUE
  /\ UNCHANGED <<prepare, m_running_state, m_stopped, m_shutdown, eventVars, worker, clientVars,
                 historyVars>>

(* Mutant: Stop() does not call Wakeup().                                  *)
CallStopWithoutWakeup(c) ==
  /\ "stop" \in program
  /\ pc[c] = "idle" /\ ~m_stopped
  /\ prepare = "no" \/ StopDuringPrepare
  /\ \E m \in StopModes :
       /\ mode' = [mode EXCEPT ![c] = IF m = "NonBlock" THEN "none" ELSE m]
       /\ stopping' = IF m = "Block" THEN stopping \cup {c} ELSE stopping
       /\ Goto(c, IF m = "NonBlock" THEN "idle" ELSE "wait")
  /\ m_shutdown' = TRUE
  /\ item' = [item EXCEPT ![c] = 0]
  /\ UNCHANGED <<prepare, m_running_state, m_stopped, m_may_sleep, eventVars, worker, m_wait_lock,
                 work, due, start, completed, quit, program>>

(* Stop(): nothing to do when stopped; else ask for shutdown and wake.     *)
CallStop(c) ==
  /\ "stop" \in program
  /\ pc[c] = "idle" /\ ~m_stopped
  /\ prepare = "no" \/ StopDuringPrepare
  /\ \E m \in StopModes :
       /\ mode' = [mode EXCEPT ![c] = m]
       /\ stopping' = IF m = "Block" THEN stopping \cup {c} ELSE stopping
  /\ m_shutdown' = TRUE
  /\ item' = [item EXCEPT ![c] = 0]
  /\ Goto(c, "wakeup")
  /\ UNCHANGED <<prepare, m_running_state, m_stopped, m_may_sleep, eventVars, worker, m_wait_lock,
                 work, due, start, completed, quit, program>>

ClientStep(c) ==
  \/ WakeupLoad(c) \/ WakeupExchange(c) \/ WakeupSetEvent(c)
  \/ WaitFirstCheck(c) \/ WaitLock(c) \/ WaitCheck(c) \/ WaitEvent(c)
  \/ GiveUp(c) \/ WaitReturn(c)

ClientCall(c) == PublishWork(c) \/ CallWait(c) \/ AllowSleep(c) \/ CallStop(c)

Next ==
  \/ Prepare \/ StartThread \/ WorkerNext
  \/ \E c \in Clients : ClientStep(c) \/ ClientCall(c)

(* Threads are scheduled; which calls a client makes is up to the program. *)
(* The wait lock is a mutex that its holders release: strong fairness for  *)
(* taking it.                                                              *)
Fairness ==
  /\ WF_vars(WorkerNext)
  /\ \A c \in Clients : WF_vars(ClientStep(c)) /\ SF_vars(WaitLock(c))

Spec     == Init /\ [][Next]_vars
FairSpec == Spec /\ Fairness

-----------------------------------------------------------------------------
(* Properties.                                                             *)

TypeOK ==
  /\ m_running_state \in 0 .. 3
  /\ m_stopped \in BOOLEAN /\ m_shutdown \in BOOLEAN /\ m_may_sleep \in BOOLEAN
  /\ m_new_work_event \in BOOLEAN /\ m_done_event \in BOOLEAN
  /\ m_wait_lock \in SUBSET Clients
  /\ prepare \in {"no", "store_state", "clear_shutdown", "set_may_sleep"}
  /\ worker \in {"off", "starting", "prepare", "loop", "payload", "switch", "case_need", "case_last",
                 "signal_done", "case_done", "fall_asleep", "sleep",
                 "exit", "exit_stopped", "exit_signal"}
  /\ pc \in [Clients -> {"idle", "wakeup", "exchange", "set_event", "wait", "wait_lock",
                         "wait_check", "wait_event", "wait_done"}]
  /\ mode \in [Clients -> {"none", "NonBlock", "Block", "BlockAndGiveUp"}]
  /\ work \in Nat /\ item \in [Clients -> Nat]
  /\ due \in Nat /\ start \in Nat /\ completed \in Nat
  /\ stopping \in SUBSET Clients /\ quit \in BOOLEAN

(* No wakeup is lost: whenever the loop claims to be done and nobody has   *)
(* asked it to stop, every piece of work whose Wakeup() took effect is     *)
(* covered by a payload run that started after it was published and has    *)
(* finished.  This is what Wait() returns on.                              *)
DoneMeansCovered ==
  (m_running_state <= STATE_DONE /\ ~m_shutdown /\ ~m_stopped) => due <= completed

(* A sleeping worker is woken: if there is work to do, or the loop shall   *)
(* end, the event is set or a client is about to set it.                   *)
SleeperIsWoken ==
  (worker = "sleep" /\ m_running_state # STATE_SLEEPING) =>
    m_new_work_event \/ \E c \in Clients : pc[c] = "set_event"

(* A waiting client is woken: if it waits for the done event although the  *)
(* loop is done, the event is set or the worker is about to set it.        *)
WaiterIsWoken ==
  \A c \in Clients : (pc[c] = "wait_event" /\ IsDone) =>
    m_done_event \/ worker \in {"signal_done", "exit_stopped", "exit_signal"}

(* Stop(Block) is a barrier: once it has returned, the worker is not in    *)
(* the payload and does not enter it again before the next Prepare().  (A  *)
(* Stop(BlockAndGiveUp) that gives up releases everyone.)                  *)
StopIsBarrier == quit => worker \in {"exit_stopped", "exit_signal", "off", "starting"}

(* Each piece of work whose Wakeup() took effect is eventually covered by  *)
(* a payload run, once there is a worker: no sleep swallows it.            *)
WorkIsCovered ==
  \A n \in 1 .. MaxWork : (due >= n /\ worker # "off") ~> completed >= n

(* Wait() returns once there is a worker and no more work is published     *)
(* (the class comment only warns of a Wait() against regular Wakeups),     *)
(* unless the loop is stopped and prepared anew meanwhile.                 *)
WaitReturns ==
  \A c \in Clients : (pc[c] = "wait" /\ worker # "off") ~> (pc[c] = "idle" \/ prepare # "no")

(* A loop that was asked to stop stops, even when it sleeps without a      *)
(* timeout, unless it is prepared anew meanwhile.                          *)
StopStops ==
  (m_shutdown /\ ~m_stopped /\ prepare = "no" /\ worker # "off")
    ~> (worker = "off" \/ prepare # "no")

(* Stop(BlockAndGiveUp) returns even if nobody ever calls Run(), unless    *)
(* the loop is prepared anew meanwhile or another client holds the wait    *)
(* lock: the time limit is on the event, not on the mutex before it.       *)
GiveUpReturns ==
  \A c \in Clients :
    (mode[c] = "BlockAndGiveUp") ~>
      (mode[c] = "none" \/ prepare # "no" \/ m_wait_lock \ {c} # {})
=============================================================================
