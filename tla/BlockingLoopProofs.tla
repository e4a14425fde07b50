------------------------- MODULE BlockingLoopProofs -------------------------
(***************************************************************************)
(* Proofs about BlockingLoop, for any number of clients and pieces of      *)
(* work, with or without a timeout.                                        *)
(*                                                                         *)
(* The inductive invariant ties the place of the worker in Run() to the    *)
(* values m_running_state can have there, and says which payload run       *)
(* covers the work in each of these states.                                *)
(***************************************************************************)
EXTENDS BlockingLoop, TLAPS

(* Nobody prepares the loop while the worker is in it, a worker leaves it  *)
(* only on m_shutdown, and Prepare() has left the done states behind when  *)
(* it clears m_shutdown.                                                   *)
NotInLoop == worker \in {"off", "starting", "prepare"}
PrepareInv ==
  /\ prepare # "no" => NotInLoop
  /\ worker \in {"exit", "exit_stopped", "exit_signal"} => m_shutdown
  /\ prepare = "clear_shutdown" => m_running_state >= STATE_LAST_EXECUTION

(* What m_running_state can be at each place of the switch statement: a    *)
(* client can only have raised it to STATE_NEED_EXECUTION meanwhile.       *)
StateAtInv ==
  /\ worker = "case_need" => m_running_state = STATE_NEED_EXECUTION
  /\ worker = "case_last" => m_running_state \in {STATE_LAST_EXECUTION, STATE_NEED_EXECUTION}
  /\ worker \in {"signal_done", "case_done", "fall_asleep"} =>
       m_running_state \in {STATE_DONE, STATE_NEED_EXECUTION}
  /\ worker = "sleep" => m_running_state \in {STATE_SLEEPING, STATE_NEED_EXECUTION}

(* Which payload run covers the work that is due.                          *)
CoverInv ==
  /\ due <= work /\ start <= work /\ completed <= start
  /\ \A c \in Clients : item[c] <= work
  /\ \/ m_shutdown
     \/ /\ m_running_state <= STATE_DONE => due <= completed
        /\ (worker = "payload" /\ m_running_state = STATE_LAST_EXECUTION) => due <= start
        /\ (worker \in {"switch", "case_last"} /\ m_running_state = STATE_LAST_EXECUTION) =>
             due <= completed

LoopInv == TypeOK /\ PrepareInv /\ StateAtInv /\ CoverInv

(* The wait lock is held by the one client between taking and dropping it. *)
LockInv ==
  /\ \A c \in Clients : c \in m_wait_lock <=> pc[c] \in {"wait_check", "wait_event", "wait_done"}
  /\ \A c, d \in m_wait_lock : c = d

(* Once a Stop(Block) has woken the worker, the worker is on its way out   *)
(* and the loop does not look done before it has left.                     *)
Gone   == worker \in {"exit_stopped", "exit_signal"} \/ (worker \in {"off", "starting"} /\ m_stopped)
Doomed == \/ Gone
          \/ m_running_state = STATE_NEED_EXECUTION
          \/ m_running_state = STATE_LAST_EXECUTION /\ worker \in {"loop", "exit"}

StopInv ==
  /\ \A c \in Clients : mode[c] # "BlockAndGiveUp"
  /\ m_stopped => worker \in {"exit_signal", "off", "starting"}
  /\ worker = "exit_signal" => m_stopped
  /\ \A c \in stopping :
       /\ m_shutdown /\ prepare = "no" /\ mode[c] = "Block" /\ pc[c] # "idle"
       /\ pc[c] \in {"set_event", "wait", "wait_lock", "wait_check", "wait_event"} => Doomed
       /\ pc[c] = "wait_done" => Gone
  /\ quit => Gone
-----------------------------------------------------------------------------
(* The constructor establishes the invariant.                              *)
LEMMA LoopInit == Init => LoopInv
<1> SUFFICES ASSUME Init PROVE LoopInv
  OBVIOUS
<1> USE DEF Init, STATE_SLEEPING, STATE_DONE, STATE_LAST_EXECUTION, STATE_NEED_EXECUTION
<1>1. TypeOK
  <2>1. m_running_state \in 0 .. 3 /\ worker = "off" /\ prepare = "no"
    OBVIOUS
  <2>2. pc \in [Clients -> {"idle"}] /\ mode \in [Clients -> {"none"}] /\ item \in [Clients -> Nat]
    OBVIOUS
  <2>3. work \in Nat /\ due \in Nat /\ start \in Nat /\ completed \in Nat
    OBVIOUS
  <2>4. QED
    BY <2>1, <2>2, <2>3 DEF TypeOK
<1>2. PrepareInv /\ StateAtInv
  BY DEF PrepareInv, NotInLoop, StateAtInv
<1>3. CoverInv
  BY DEF CoverInv
<1>4. QED
  BY <1>1, <1>2, <1>3 DEF LoopInv

(* Every step of every thread preserves it.                                *)
LEMMA LoopStep == LoopInv /\ [Next]_vars => LoopInv'
<1> SUFFICES ASSUME LoopInv, [Next]_vars
             PROVE  LoopInv'
  OBVIOUS
<1> USE BlockingLoopAssumption DEF LoopInv, TypeOK, PrepareInv, NotInLoop, StateAtInv, CoverInv,
      vars, loopVars, eventVars, clientVars, historyVars, STATE_SLEEPING, STATE_DONE, STATE_LAST_EXECUTION, STATE_NEED_EXECUTION
<1>1. CASE Prepare
  BY <1>1 DEF Prepare, PrepareTest
<1>2. CASE StartThread
  BY <1>2 DEF StartThread
<1>3. CASE RunPrepare
  <2> USE <1>3
  <2>1. TypeOK'
    BY DEF RunPrepare, PrepareTest
  <2>2. PrepareInv'
    BY DEF RunPrepare, PrepareTest
  <2>3. StateAtInv'
    BY DEF RunPrepare, PrepareTest
  <2>4. CoverInv'
    BY DEF RunPrepare, PrepareTest
  <2>5. QED
    BY <2>1, <2>2, <2>3, <2>4 DEF LoopInv
<1>4. CASE PrepareStoreState
  BY <1>4 DEF PrepareStoreState
<1>5. CASE PrepareClearShutdown
  <2> USE <1>5
  <2>1. TypeOK'
    BY DEF PrepareClearShutdown
  <2>2. PrepareInv'
    BY DEF PrepareClearShutdown
  <2>3. StateAtInv'
    BY DEF PrepareClearShutdown
  <2>4. CoverInv'
    BY DEF PrepareClearShutdown
  <2>5. QED
    BY <2>1, <2>2, <2>3, <2>4 DEF LoopInv
<1>6. CASE PrepareSetMaySleep
  BY <1>6 DEF PrepareSetMaySleep
<1>7. CASE Run
  BY <1>7 DEF Run
<1>8. CASE WhileNotShutdown
  BY <1>8 DEF WhileNotShutdown
<1>9. CASE Payload
  BY <1>9 DEF Payload
<1>10. CASE SwitchState
  BY <1>10 DEF SwitchState
<1>11. CASE CaseNeedExecution
  BY <1>11 DEF CaseNeedExecution, DecrementAt
<1>12. CASE CaseLastExecution
  BY <1>12 DEF CaseLastExecution, DecrementAt
<1>13. CASE SignalDone
  BY <1>13 DEF SignalDone
<1>14. CASE CaseDone
  BY <1>14 DEF CaseDone
<1>15. CASE TryToSleep
  BY <1>15 DEF TryToSleep, DecrementAt
<1>16. CASE Sleep
  BY <1>16 DEF Sleep
<1>17. CASE StoreDone
  BY <1>17 DEF StoreDone
<1>18. CASE SetStopped
  BY <1>18 DEF SetStopped
<1>19. CASE SignalStopped
  BY <1>19 DEF SignalStopped
<1>20. CASE \E c \in Clients : WakeupLoad(c)
  BY <1>20 DEF WakeupLoad, AfterWakeup, ModeAfterWakeup, TakeEffect, Goto
<1>21. CASE \E c \in Clients : WakeupExchange(c)
  BY <1>21 DEF WakeupExchange, AfterWakeup, ModeAfterWakeup, TakeEffect, Goto
<1>22. CASE \E c \in Clients : WakeupSetEvent(c)
  BY <1>22 DEF WakeupSetEvent, AfterWakeup, ModeAfterWakeup, Goto
<1>23. CASE \E c \in Clients : WaitFirstCheck(c)
  <2> PICK c \in Clients : WaitFirstCheck(c)
    BY <1>23
  <2>1. TypeOK'
    <3>1. CASE IsDone
      BY <3>1 DEF WaitFirstCheck, ReturnFromWait, Goto
    <3>2. CASE ~IsDone
      BY <3>2 DEF WaitFirstCheck, Goto
    <3>3. QED
      BY <3>1, <3>2
  <2>2. PrepareInv'
    BY DEF WaitFirstCheck, ReturnFromWait, IsDone, Goto
  <2>3. StateAtInv'
    BY DEF WaitFirstCheck, ReturnFromWait, IsDone, Goto
  <2>4. CoverInv'
    BY DEF WaitFirstCheck, ReturnFromWait, IsDone, Goto
  <2>5. QED
    BY <2>1, <2>2, <2>3, <2>4 DEF LoopInv
<1>24. CASE \E c \in Clients : WaitLock(c)
  BY <1>24 DEF WaitLock, Goto
<1>25. CASE \E c \in Clients : WaitCheck(c)
  BY <1>25 DEF WaitCheck, IsDone, Goto
<1>26. CASE \E c \in Clients : WaitEvent(c)
  <2> PICK c \in Clients : WaitEvent(c)
    BY <1>26
  <2>1. TypeOK'
    <3>1. pc' = [pc EXCEPT ![c] = "wait_check"] /\ m_done_event' = FALSE
      BY DEF WaitEvent, Goto
    <3>2. UNCHANGED <<prepare, loopVars, m_new_work_event, worker, m_wait_lock, mode, item, historyVars>>
      BY DEF WaitEvent
    <3>3. pc' \in [Clients -> {"idle", "wakeup", "exchange", "set_event", "wait", "wait_lock",
                              "wait_check", "wait_event", "wait_done"}]
      BY <3>1
    <3>4. m_done_event' \in BOOLEAN
      BY <3>1
    <3>5. QED
      BY <3>2, <3>3, <3>4
  <2>2. PrepareInv'
    BY DEF WaitEvent, Goto
  <2>3. StateAtInv'
    BY DEF WaitEvent, Goto
  <2>4. CoverInv'
    BY DEF WaitEvent, Goto
  <2>5. QED
    BY <2>1, <2>2, <2>3, <2>4 DEF LoopInv
<1>27. CASE \E c \in Clients : GiveUp(c)
  BY <1>27 DEF GiveUp, Goto
<1>28. CASE \E c \in Clients : WaitReturn(c)
  BY <1>28 DEF WaitReturn, ReturnFromWait, Goto
<1>29. CASE \E c \in Clients : PublishWork(c)
  BY <1>29 DEF PublishWork, Goto
<1>30. CASE \E c \in Clients : CallWait(c)
  BY <1>30 DEF CallWait, Goto
<1>31. CASE \E c \in Clients : AllowSleep(c)
  BY <1>31 DEF AllowSleep
<1>32. CASE \E c \in Clients : CallStop(c)
  BY <1>32 DEF CallStop, Goto
<1>33. CASE UNCHANGED vars
  BY <1>33
<1>34. QED
  BY <1>1, <1>2, <1>3, <1>4, <1>5, <1>6, <1>7, <1>8, <1>9, <1>10, <1>11, <1>12, <1>13, <1>14, <1>15, <1>16, <1>17, <1>18, <1>19, <1>20, <1>21, <1>22, <1>23, <1>24, <1>25, <1>26, <1>27, <1>28, <1>29, <1>30, <1>31, <1>32, <1>33
     DEF Next, WorkerNext, ClientStep, ClientCall

(* Type correctness: in particular m_running_state, which the worker       *)
(* decrements and the clients overwrite, never leaves its four values.     *)
THEOREM LoopTypeOK == Spec => []TypeOK
<1>1. LoopInv => TypeOK
  BY DEF LoopInv
<1>2. QED
  BY <1>1, LoopInit, LoopStep, PTL DEF Spec

(* No wakeup is lost: Wait() never returns before a payload run that       *)
(* started after the work was published has finished.                      *)
THEOREM NoLostWakeup == Spec => []DoneMeansCovered
<1>1. LoopInv => DoneMeansCovered
  BY DEF LoopInv, CoverInv, DoneMeansCovered
<1>2. QED
  BY <1>1, LoopInit, LoopStep, PTL DEF Spec

-----------------------------------------------------------------------------
(* A worker that sleeps while there is something to do was left behind by  *)
(* a client that is about to set the event, or has set it.                 *)
LEMMA SleeperStep == LoopInv /\ SleeperIsWoken /\ [Next]_vars => SleeperIsWoken'
<1> SUFFICES ASSUME LoopInv, SleeperIsWoken, [Next]_vars
             PROVE  SleeperIsWoken'
  OBVIOUS
<1> USE DEF LoopInv, TypeOK, PrepareInv, NotInLoop, StateAtInv, SleeperIsWoken,
      vars, loopVars, eventVars, clientVars, historyVars, STATE_SLEEPING, STATE_DONE, STATE_LAST_EXECUTION, STATE_NEED_EXECUTION
<1>1. CASE Prepare
  BY <1>1 DEF Prepare, PrepareTest
<1>2. CASE StartThread
  BY <1>2 DEF StartThread
<1>3. CASE RunPrepare
  BY <1>3 DEF RunPrepare, PrepareTest
<1>4. CASE PrepareStoreState
  BY <1>4 DEF PrepareStoreState
<1>5. CASE PrepareClearShutdown
  BY <1>5 DEF PrepareClearShutdown
<1>6. CASE PrepareSetMaySleep
  BY <1>6 DEF PrepareSetMaySleep
<1>7. CASE Run
  BY <1>7 DEF Run
<1>8. CASE WhileNotShutdown
  BY <1>8 DEF WhileNotShutdown
<1>9. CASE Payload
  BY <1>9 DEF Payload
<1>10. CASE SwitchState
  BY <1>10 DEF SwitchState
<1>11. CASE CaseNeedExecution
  BY <1>11 DEF CaseNeedExecution, DecrementAt
<1>12. CASE CaseLastExecution
  BY <1>12 DEF CaseLastExecution, DecrementAt
<1>13. CASE SignalDone
  BY <1>13 DEF SignalDone
<1>14. CASE CaseDone
  BY <1>14 DEF CaseDone
<1>15. CASE TryToSleep
  BY <1>15 DEF TryToSleep, DecrementAt
<1>16. CASE Sleep
  BY <1>16 DEF Sleep
<1>17. CASE StoreDone
  BY <1>17 DEF StoreDone
<1>18. CASE SetStopped
  BY <1>18 DEF SetStopped
<1>19. CASE SignalStopped
  BY <1>19 DEF SignalStopped
<1>20. CASE \E c \in Clients : WakeupLoad(c)
  BY <1>20 DEF WakeupLoad, AfterWakeup, ModeAfterWakeup, TakeEffect, Goto
<1>21. CASE \E c \in Clients : WakeupExchange(c)
  BY <1>21 DEF WakeupExchange, AfterWakeup, ModeAfterWakeup, TakeEffect, Goto
<1>22. CASE \E c \in Clients : WakeupSetEvent(c)
  BY <1>22 DEF WakeupSetEvent, AfterWakeup, ModeAfterWakeup, Goto
<1>23. CASE \E c \in Clients : WaitFirstCheck(c)
  BY <1>23 DEF WaitFirstCheck, ReturnFromWait, IsDone, Goto
<1>24. CASE \E c \in Clients : WaitLock(c)
  BY <1>24 DEF WaitLock, Goto
<1>25. CASE \E c \in Clients : WaitCheck(c)
  BY <1>25 DEF WaitCheck, IsDone, Goto
<1>26. CASE \E c \in Clients : WaitEvent(c)
  BY <1>26 DEF WaitEvent, Goto
<1>27. CASE \E c \in Clients : GiveUp(c)
  BY <1>27 DEF GiveUp, Goto
<1>28. CASE \E c \in Clients : WaitReturn(c)
  BY <1>28 DEF WaitReturn, ReturnFromWait, Goto
<1>29. CASE \E c \in Clients : PublishWork(c)
  BY <1>29 DEF PublishWork, Goto
<1>30. CASE \E c \in Clients : CallWait(c)
  BY <1>30 DEF CallWait, Goto
<1>31. CASE \E c \in Clients : AllowSleep(c)
  BY <1>31 DEF AllowSleep
<1>32. CASE \E c \in Clients : CallStop(c)
  BY <1>32 DEF CallStop, Goto
<1>33. CASE UNCHANGED vars
  BY <1>33
<1>34. QED
  BY <1>1, <1>2, <1>3, <1>4, <1>5, <1>6, <1>7, <1>8, <1>9, <1>10, <1>11, <1>12, <1>13, <1>14, <1>15, <1>16, <1>17, <1>18, <1>19, <1>20, <1>21, <1>22, <1>23, <1>24, <1>25, <1>26, <1>27, <1>28, <1>29, <1>30, <1>31, <1>32, <1>33
     DEF Next, WorkerNext, ClientStep, ClientCall

(* A sleeping worker is woken, even without a timeout.                     *)
THEOREM NoSleepingOverWork == Spec => []SleeperIsWoken
<1>1. Init => SleeperIsWoken
  BY DEF Init, SleeperIsWoken
<1>2. QED
  BY <1>1, LoopInit, LoopStep, SleeperStep, PTL DEF Spec

-----------------------------------------------------------------------------
(* The wait lock has one holder, and that holder is woken.                 *)
LEMMA WaiterStep ==
  LoopInv /\ LockInv /\ WaiterIsWoken /\ [Next]_vars => LockInv' /\ WaiterIsWoken'
<1> SUFFICES ASSUME LoopInv, LockInv, WaiterIsWoken, [Next]_vars
             PROVE  LockInv' /\ WaiterIsWoken'
  OBVIOUS
<1> USE DEF LoopInv, TypeOK, PrepareInv, NotInLoop, StateAtInv, LockInv, WaiterIsWoken, IsDone,
      vars, loopVars, eventVars, clientVars, historyVars, STATE_SLEEPING, STATE_DONE, STATE_LAST_EXECUTION, STATE_NEED_EXECUTION
<1>1. CASE Prepare
  BY <1>1 DEF Prepare, PrepareTest
<1>2. CASE StartThread
  BY <1>2 DEF StartThread
<1>3. CASE RunPrepare
  BY <1>3 DEF RunPrepare, PrepareTest
<1>4. CASE PrepareStoreState
  BY <1>4 DEF PrepareStoreState
<1>5. CASE PrepareClearShutdown
  BY <1>5 DEF PrepareClearShutdown
<1>6. CASE PrepareSetMaySleep
  BY <1>6 DEF PrepareSetMaySleep
<1>7. CASE Run
  BY <1>7 DEF Run
<1>8. CASE WhileNotShutdown
  BY <1>8 DEF WhileNotShutdown
<1>9. CASE Payload
  BY <1>9 DEF Payload
<1>10. CASE SwitchState
  BY <1>10 DEF SwitchState
<1>11. CASE CaseNeedExecution
  BY <1>11 DEF CaseNeedExecution, DecrementAt
<1>12. CASE CaseLastExecution
  BY <1>12 DEF CaseLastExecution, DecrementAt
<1>13. CASE SignalDone
  BY <1>13 DEF SignalDone
<1>14. CASE CaseDone
  BY <1>14 DEF CaseDone
<1>15. CASE TryToSleep
  BY <1>15 DEF TryToSleep, DecrementAt
<1>16. CASE Sleep
  BY <1>16 DEF Sleep
<1>17. CASE StoreDone
  BY <1>17 DEF StoreDone
<1>18. CASE SetStopped
  BY <1>18 DEF SetStopped
<1>19. CASE SignalStopped
  BY <1>19 DEF SignalStopped
<1>20. CASE \E c \in Clients : WakeupLoad(c)
  BY <1>20 DEF WakeupLoad, AfterWakeup, ModeAfterWakeup, TakeEffect, Goto
<1>21. CASE \E c \in Clients : WakeupExchange(c)
  BY <1>21 DEF WakeupExchange, AfterWakeup, ModeAfterWakeup, TakeEffect, Goto
<1>22. CASE \E c \in Clients : WakeupSetEvent(c)
  BY <1>22 DEF WakeupSetEvent, AfterWakeup, ModeAfterWakeup, Goto
<1>23. CASE \E c \in Clients : WaitFirstCheck(c)
  BY <1>23 DEF WaitFirstCheck, ReturnFromWait, IsDone, Goto
<1>24. CASE \E c \in Clients : WaitLock(c)
  BY <1>24 DEF WaitLock, Goto
<1>25. CASE \E c \in Clients : WaitCheck(c)
  BY <1>25 DEF WaitCheck, IsDone, Goto
<1>26. CASE \E c \in Clients : WaitEvent(c)
  BY <1>26 DEF WaitEvent, Goto
<1>27. CASE \E c \in Clients : GiveUp(c)
  BY <1>27 DEF GiveUp, Goto
<1>28. CASE \E c \in Clients : WaitReturn(c)
  BY <1>28 DEF WaitReturn, ReturnFromWait, Goto
<1>29. CASE \E c \in Clients : PublishWork(c)
  BY <1>29 DEF PublishWork, Goto
<1>30. CASE \E c \in Clients : CallWait(c)
  BY <1>30 DEF CallWait, Goto
<1>31. CASE \E c \in Clients : AllowSleep(c)
  BY <1>31 DEF AllowSleep
<1>32. CASE \E c \in Clients : CallStop(c)
  BY <1>32 DEF CallStop, Goto
<1>33. CASE UNCHANGED vars
  BY <1>33
<1>34. QED
  BY <1>1, <1>2, <1>3, <1>4, <1>5, <1>6, <1>7, <1>8, <1>9, <1>10, <1>11, <1>12, <1>13, <1>14, <1>15, <1>16, <1>17, <1>18, <1>19, <1>20, <1>21, <1>22, <1>23, <1>24, <1>25, <1>26, <1>27, <1>28, <1>29, <1>30, <1>31, <1>32, <1>33
     DEF Next, WorkerNext, ClientStep, ClientCall

(* A client that waits although the loop is done has its event set or      *)
(* coming: no done event is consumed or skipped in its place.              *)
THEOREM NoLostDoneEvent == Spec => []WaiterIsWoken
<1>1. Init => LockInv /\ WaiterIsWoken
  BY DEF Init, LockInv, WaiterIsWoken
<1>2. QED
  BY <1>1, LoopInit, LoopStep, WaiterStep, PTL DEF Spec

-----------------------------------------------------------------------------
(* Without Stop(BlockAndGiveUp) and Stop() calls during Prepare(), a       *)
(* Stop(Block) keeps the worker out until it returns.                      *)
LEMMA StopStep ==
  ASSUME "BlockAndGiveUp" \notin StopModes, ~StopDuringPrepare,
         LoopInv, LockInv, StopInv, [Next]_vars
  PROVE  StopInv'
<1> USE BlockingLoopAssumption DEF LoopInv, TypeOK, PrepareInv, NotInLoop, StateAtInv, LockInv,
      StopInv, Gone, Doomed, vars, loopVars, eventVars, clientVars, historyVars, STATE_SLEEPING, STATE_DONE, STATE_LAST_EXECUTION, STATE_NEED_EXECUTION
<1>1. CASE Prepare
  BY <1>1 DEF Prepare, PrepareTest
<1>2. CASE StartThread
  BY <1>2 DEF StartThread
<1>3. CASE RunPrepare
  BY <1>3 DEF RunPrepare, PrepareTest
<1>4. CASE PrepareStoreState
  BY <1>4 DEF PrepareStoreState
<1>5. CASE PrepareClearShutdown
  BY <1>5 DEF PrepareClearShutdown
<1>6. CASE PrepareSetMaySleep
  BY <1>6 DEF PrepareSetMaySleep
<1>7. CASE Run
  BY <1>7 DEF Run
<1>8. CASE WhileNotShutdown
  BY <1>8 DEF WhileNotShutdown
<1>9. CASE Payload
  BY <1>9 DEF Payload
<1>10. CASE SwitchState
  BY <1>10 DEF SwitchState
<1>11. CASE CaseNeedExecution
  BY <1>11 DEF CaseNeedExecution, DecrementAt
<1>12. CASE CaseLastExecution
  BY <1>12 DEF CaseLastExecution, DecrementAt
<1>13. CASE SignalDone
  BY <1>13 DEF SignalDone
<1>14. CASE CaseDone
  BY <1>14 DEF CaseDone
<1>15. CASE TryToSleep
  BY <1>15 DEF TryToSleep, DecrementAt
<1>16. CASE Sleep
  BY <1>16 DEF Sleep
<1>17. CASE StoreDone
  BY <1>17 DEF StoreDone
<1>18. CASE SetStopped
  BY <1>18 DEF SetStopped
<1>19. CASE SignalStopped
  BY <1>19 DEF SignalStopped
<1>20. CASE \E c \in Clients : WakeupLoad(c)
  BY <1>20 DEF WakeupLoad, AfterWakeup, ModeAfterWakeup, TakeEffect, Goto
<1>21. CASE \E c \in Clients : WakeupExchange(c)
  BY <1>21 DEF WakeupExchange, AfterWakeup, ModeAfterWakeup, TakeEffect, Goto
<1>22. CASE \E c \in Clients : WakeupSetEvent(c)
  BY <1>22 DEF WakeupSetEvent, AfterWakeup, ModeAfterWakeup, Goto
<1>23. CASE \E c \in Clients : WaitFirstCheck(c)
  BY <1>23 DEF WaitFirstCheck, ReturnFromWait, IsDone, Goto
<1>24. CASE \E c \in Clients : WaitLock(c)
  BY <1>24 DEF WaitLock, Goto
<1>25. CASE \E c \in Clients : WaitCheck(c)
  BY <1>25 DEF WaitCheck, IsDone, Goto
<1>26. CASE \E c \in Clients : WaitEvent(c)
  BY <1>26 DEF WaitEvent, Goto
<1>27. CASE \E c \in Clients : GiveUp(c)
  BY <1>27 DEF GiveUp, Goto
<1>28. CASE \E c \in Clients : WaitReturn(c)
  BY <1>28 DEF WaitReturn, ReturnFromWait, Goto
<1>29. CASE \E c \in Clients : PublishWork(c)
  BY <1>29 DEF PublishWork, Goto
<1>30. CASE \E c \in Clients : CallWait(c)
  BY <1>30 DEF CallWait, Goto
<1>31. CASE \E c \in Clients : AllowSleep(c)
  BY <1>31 DEF AllowSleep
<1>32. CASE \E c \in Clients : CallStop(c)
  BY <1>32 DEF CallStop, Goto
<1>33. CASE UNCHANGED vars
  BY <1>33
<1>34. QED
  BY <1>1, <1>2, <1>3, <1>4, <1>5, <1>6, <1>7, <1>8, <1>9, <1>10, <1>11, <1>12, <1>13, <1>14, <1>15, <1>16, <1>17, <1>18, <1>19, <1>20, <1>21, <1>22, <1>23, <1>24, <1>25, <1>26, <1>27, <1>28, <1>29, <1>30, <1>31, <1>32, <1>33
     DEF Next, WorkerNext, ClientStep, ClientCall

(* Stop(Block) is a barrier, under the two conditions the callers have to  *)
(* respect: nobody gives up, and nobody stops a loop that is in Prepare(). *)
THEOREM StopBarrier ==
  ASSUME "BlockAndGiveUp" \notin StopModes, ~StopDuringPrepare
  PROVE  Spec => []StopIsBarrier
<1>1. Init => LockInv /\ WaiterIsWoken /\ StopInv
  BY DEF Init, LockInv, WaiterIsWoken, StopInv, Gone
<1>2. LoopInv /\ LockInv /\ StopInv /\ [Next]_vars => StopInv'
  BY StopStep
<1>3. StopInv => StopIsBarrier
  BY DEF StopInv, StopIsBarrier, Gone
<1>4. QED
  BY <1>1, <1>2, <1>3, LoopInit, LoopStep, WaiterStep, PTL DEF Spec
=============================================================================
