----------------------------- MODULE MhiPmProofs -----------------------------
(***************************************************************************)
(* Safety of the power-management layer: who holds pm_mutex, what a teardown *)
(* excludes, the wake votes, register access of the tasklet, what a          *)
(* power-down leaves behind, how an error state is left and the wake          *)
(* doorbell.  What a theorem needs of the constants is its ASSUME.            *)
(***************************************************************************)
EXTENDS MhiPmTypeProofs

USE DEF cntrl, wakev, queue, worker, res, task, intvec, driver, tally, client, hw

-----------------------------------------------------------------------------
(* pm_mutex.  What the worker is doing is tied to where it stands; with     *)
(* that, who holds the mutex is read off the program counters.              *)

WorkerShape ==
  /\ w \in {"idle", "next", "fw", "fw_load"} => w_to = "none"
  /\ w \in {"mm_get", "mm_wait", "mm_run", "mm_put"} => w_to = "MM"
  /\ w \in {"create", "probe"} => w_to \in {"none", "MM"}
  /\ w \in ReadyPc => w_to \in {"none", "SYS_ERR_PROCESS"}
  /\ w \in TeardownPc => w_to \in {"SYS_ERR_PROCESS", "SHUTDOWN_PROCESS"}
  /\ w = "dis_off" => w_to = "SHUTDOWN_PROCESS"

MutexInv == WorkerShape /\ PmMutexExclusion

USE DEF ReadyPc, TeardownPc, PowerUpPc

\* A step of the state worker keeps the mutex invariant.
LEMMA StWorkerMutex == ASSUME MutexInv, StWorker PROVE MutexInv'
<1>1. CASE StWorkerStart
  BY <1>1 DEF MutexInv, WorkerShape, PmMutexExclusion, WorkerLocked, StWorkerStart
<1>2. CASE StWorkerEnd
  BY <1>2 DEF MutexInv, WorkerShape, PmMutexExclusion, WorkerLocked, StWorkerEnd
<1>3. CASE HandlePbl
  BY <1>3 DEF MutexInv, WorkerShape, PmMutexExclusion, WorkerLocked, HandlePbl, Item
<1>4. CASE HandleReady
  BY <1>4 DEF MutexInv, WorkerShape, PmMutexExclusion, WorkerLocked, HandleReady, Item
<1>5. CASE HandleMissionMode
  BY <1>5 DEF MutexInv, WorkerShape, PmMutexExclusion, WorkerLocked, HandleMissionMode,
     Item
<1>6. CASE HandleEeItem("SBL")
  BY <1>6 DEF MutexInv, WorkerShape, PmMutexExclusion, WorkerLocked, HandleEeItem, Item
<1>7. CASE HandleEeItem("FP")
  BY <1>7 DEF MutexInv, WorkerShape, PmMutexExclusion, WorkerLocked, HandleEeItem, Item
<1>8. CASE FwLoad
  BY <1>8 DEF MutexInv, WorkerShape, PmMutexExclusion, WorkerLocked, FwLoad
<1>9. CASE FwLoadSbl
  BY <1>9 DEF MutexInv, WorkerShape, PmMutexExclusion, WorkerLocked, FwLoadSbl
<1>10. CASE FwLoadFail
  BY <1>10 DEF MutexInv, WorkerShape, PmMutexExclusion, WorkerLocked, FwLoadFail
<1>11. CASE ReadyWait
  BY <1>11 DEF MutexInv, WorkerShape, PmMutexExclusion, WorkerLocked, ReadyWait,
     ReadyReturn
<1>12. CASE ReadySet
  BY <1>12 DEF MutexInv, WorkerShape, PmMutexExclusion, WorkerLocked, ReadySet,
     ReadyReturn
<1>13. CASE ReadyMmio
  BY <1>13 DEF MutexInv, WorkerShape, PmMutexExclusion, WorkerLocked, ReadyMmio,
     ReadyReturn
<1>14. CASE MissionGet
  BY <1>14 DEF MutexInv, WorkerShape, PmMutexExclusion, WorkerLocked, MissionGet
<1>15. CASE MissionWait
  BY <1>15 DEF MutexInv, WorkerShape, PmMutexExclusion, WorkerLocked, MissionWait
<1>16. CASE MissionRun
  BY <1>16 DEF MutexInv, WorkerShape, PmMutexExclusion, WorkerLocked, MissionRun,
     MissionPut
<1>17. CASE CreateDevices
  BY <1>17 DEF MutexInv, WorkerShape, PmMutexExclusion, WorkerLocked, CreateDevices,
     AfterCreate
<1>18. CASE ProbeDone
  BY <1>18 DEF MutexInv, WorkerShape, PmMutexExclusion, WorkerLocked, ProbeDone,
     AfterCreate
<1>19. CASE MissionEnd
  BY <1>19 DEF MutexInv, WorkerShape, PmMutexExclusion, WorkerLocked, MissionEnd,
     MissionPut
<1>20. CASE HandleDisable("SYS_ERR")
  BY <1>20 DEF MutexInv, WorkerShape, PmMutexExclusion, WorkerLocked, HandleDisable, Item,
     Target
<1>21. CASE HandleDisable("DISABLE")
  BY <1>21 DEF MutexInv, WorkerShape, PmMutexExclusion, WorkerLocked, HandleDisable, Item,
     Target
<1>22. CASE DisableReset
  BY <1>22 DEF MutexInv, WorkerShape, PmMutexExclusion, WorkerLocked, DisableReset
<1>23. CASE DisableWait
  BY <1>23 DEF MutexInv, WorkerShape, PmMutexExclusion, WorkerLocked, DisableWait
<1>24. CASE DisableKill
  BY <1>24 DEF MutexInv, WorkerShape, PmMutexExclusion, WorkerLocked, DisableKill
<1>25. CASE DisableDestroy
  BY <1>25 DEF MutexInv, WorkerShape, PmMutexExclusion, WorkerLocked, DisableDestroy
<1>26. CASE DisableRings
  BY <1>26 DEF MutexInv, WorkerShape, PmMutexExclusion, WorkerLocked, DisableRings
<1>27. CASE DisableOff
  BY <1>27 DEF MutexInv, WorkerShape, PmMutexExclusion, WorkerLocked, DisableOff
<1> QED BY <1>1, <1>2, <1>3, <1>4, <1>5, <1>6, <1>7, <1>8, <1>9, <1>10, <1>11, <1>12,
   <1>13, <1>14, <1>15, <1>16, <1>17, <1>18, <1>19, <1>20, <1>21, <1>22, <1>23, <1>24,
   <1>25, <1>26, <1>27 DEF StWorker

\* A step of the controller driver keeps the mutex invariant.
LEMMA ControllerMutex == ASSUME MutexInv, Controller PROVE MutexInv'
<1>1. CASE Prepare
  BY <1>1 DEF MutexInv, WorkerShape, PmMutexExclusion, WorkerLocked, Prepare
<1>2. CASE PowerUp
  BY <1>2 DEF MutexInv, WorkerShape, PmMutexExclusion, WorkerLocked, PowerUp
<1>3. CASE UpIrq
  BY <1>3 DEF MutexInv, WorkerShape, PmMutexExclusion, WorkerLocked, UpIrq
<1>4. CASE UpPor
  BY <1>4 DEF MutexInv, WorkerShape, PmMutexExclusion, WorkerLocked, UpPor
<1>5. CASE UpCheck
  BY <1>5 DEF MutexInv, WorkerShape, PmMutexExclusion, WorkerLocked, UpCheck
<1>6. CASE UpReset
  BY <1>6 DEF MutexInv, WorkerShape, PmMutexExclusion, WorkerLocked, UpReset
<1>7. CASE UpQueue
  BY <1>7 DEF MutexInv, WorkerShape, PmMutexExclusion, WorkerLocked, UpQueue
<1>8. CASE UpErr
  BY <1>8 DEF MutexInv, WorkerShape, PmMutexExclusion, WorkerLocked, UpErr, FreeIrqs
<1>9. CASE SyncUp
  BY <1>9 DEF MutexInv, WorkerShape, PmMutexExclusion, WorkerLocked, SyncUp
<1>10. ASSUME NEW graceful \in Graceful, PowerDown(graceful) PROVE MutexInv'
  BY <1>10 DEF MutexInv, WorkerShape, PmMutexExclusion, WorkerLocked, PowerDown
<1>11. CASE DownLinkError
  BY <1>11 DEF MutexInv, WorkerShape, PmMutexExclusion, WorkerLocked, DownLinkError
<1>12. CASE DownQueue
  BY <1>12 DEF MutexInv, WorkerShape, PmMutexExclusion, WorkerLocked, DownQueue
<1>13. CASE DownFlush
  BY <1>13 DEF MutexInv, WorkerShape, PmMutexExclusion, WorkerLocked, DownFlush
<1>14. CASE DownFree
  BY <1>14 DEF MutexInv, WorkerShape, PmMutexExclusion, WorkerLocked, DownFree, FreeIrqs
<1>15. CASE Unprepare
  BY <1>15 DEF MutexInv, WorkerShape, PmMutexExclusion, WorkerLocked, Unprepare
<1> QED BY <1>1, <1>2, <1>3, <1>4, <1>5, <1>6, <1>7, <1>8, <1>9, <1>10, <1>11, <1>12,
   <1>13, <1>14, <1>15 DEF Controller, PowerUpSteps, PowerDownSteps

\* The other threads touch neither the worker nor the controller driver.
LEMMA OthersLeave ==
  ASSUME Tasklet \/ Intvec \/ Suspend \/ Clients \/ Device
  PROVE  UNCHANGED <<worker, pm_mutex, devices, ctl, ups, session>>
<1>1. CASE Tasklet
  BY Zenon, <1>1 DEF Tasklet, TaskStart, TaskEnter, TaskM0, TaskM0Rings, TaskM1,
     TaskM1Check, TaskM1Wake, TaskM3, TaskSysErr, TaskSysErrQueue, TaskLoopEnd, TaskPoll,
     TaskEe
<1>2. CASE Intvec
  BY Zenon, <1>2 DEF Intvec, IntvecRead, IntvecDecide
<1>3. CASE Suspend
  BY Zenon, <1>3 DEF Suspend, SuspendSteps, SuspendCheck, SuspendGet, SuspendWait,
     SuspendPut, SuspendEnter, SuspendWait3, ResumeCheck, ResumeExit, ResumeWait0
<1>4. CASE Clients
  BY Zenon, <1>4 DEF Clients, mhi_device_get, mhi_device_put, DebugfsGet, DebugfsGetDone,
     DebugfsPut, XferQueue, XferDone
<1>5. CASE Device
  BY Zenon, <1>5 DEF Device, HwResetDone, HwReady, HwEnter, HwIdle, HwWake, HwMsi, HwBoot,
     HwSysErr, HwFrame
<1> QED BY <1>1, <1>2, <1>3, <1>4, <1>5

\* Every step keeps the mutex invariant.
LEMMA MutexStep == MutexInv /\ [Next]_vars => MutexInv'
<1> SUFFICES ASSUME MutexInv, [Next]_vars PROVE MutexInv'
  OBVIOUS
<1>1. CASE StWorker
  BY <1>1, StWorkerMutex
<1>2. CASE Controller
  BY <1>2, ControllerMutex
<1>3. CASE Tasklet \/ Intvec \/ Suspend \/ Clients \/ Device
  BY <1>3, OthersLeave DEF MutexInv, WorkerShape, PmMutexExclusion, WorkerLocked
<1>4. CASE UNCHANGED vars
  BY <1>4 DEF vars, MutexInv, WorkerShape, PmMutexExclusion, WorkerLocked
<1> QED BY <1>1, <1>2, <1>3, <1>4 DEF Next

\* mhi_async_power_up() and the locked sections of mhi_pm_disable_transition()
\* exclude each other, and every path through them drops pm_mutex: for every
\* device, any number of power-ups and any interleaving.
THEOREM MutexExclusion == Spec => []PmMutexExclusion
<1>1. Init => MutexInv
  BY DEF Init, MutexInv, WorkerShape, PmMutexExclusion, WorkerLocked
<1>2. MutexInv /\ [Next]_vars => MutexInv'
  BY MutexStep
<1>3. MutexInv => PmMutexExclusion
  BY DEF MutexInv
<1> QED BY <1>1, <1>2, <1>3, PTL DEF Spec

-----------------------------------------------------------------------------
(* Teardown.  The other threads move the PM state only by asking the table,  *)
(* and the table refuses them in the states of a teardown.                    *)

TeardownStates == {"DISABLE", "SYS_ERR_PROCESS", "SHUTDOWN_PROCESS", "LD_ERR_FATAL_DETECT"}
EventTargets   == {"M0", "M2", "M3", "M3_ENTER", "M3_EXIT", "SYS_ERR_DETECT"}

\* dev_state_transitions: no event, interrupt, suspend or resume moves the PM
\* state out of DISABLE, a teardown or a link error.
LEMMA TableRefuses ==
  \A cur \in TeardownStates, st \in EventTargets : mhi_tryset_pm_state(cur, st) = cur
BY DEF mhi_tryset_pm_state, dev_state_transitions, TeardownStates, EventTargets, PmState,
       AnyError

\* Every attempt ends in the state asked for or where it began.
LEMMA TableDecides ==
  ASSUME NEW cur, NEW st
  PROVE  mhi_tryset_pm_state(cur, st) \in {cur, st}
BY DEF mhi_tryset_pm_state

\* How the other threads move the PM state.
LEMMA OthersTry ==
  ASSUME Tasklet \/ Intvec \/ Suspend \/ Clients \/ Device
  PROVE  \/ pm_state' = pm_state
         \/ \E st \in EventTargets : pm_state' = mhi_tryset_pm_state(pm_state, st)
<1>1. CASE Tasklet
  BY Zenon, <1>1 DEF Tasklet, TaskStart, TaskEnter, TaskM0, TaskM0Rings, TaskM1,
     TaskM1Check, TaskM1Wake, TaskM3, TaskSysErr, TaskSysErrQueue, TaskLoopEnd, TaskPoll,
     TaskEe, EventTargets
<1>2. CASE Intvec
  BY Zenon, <1>2 DEF Intvec, IntvecRead, IntvecDecide, EventTargets
<1>3. CASE Suspend
  BY Zenon, <1>3 DEF Suspend, SuspendSteps, SuspendCheck, SuspendGet, SuspendWait,
     SuspendPut, SuspendEnter, SuspendWait3, ResumeCheck, ResumeExit, ResumeWait0,
     EventTargets
<1>4. CASE Clients
  BY Zenon, <1>4 DEF Clients, mhi_device_get, mhi_device_put, DebugfsGet, DebugfsGetDone,
     DebugfsPut, XferQueue, XferDone, EventTargets
<1>5. CASE Device
  BY Zenon, <1>5 DEF Device, HwResetDone, HwReady, HwEnter, HwIdle, HwWake, HwMsi, HwBoot,
     HwSysErr, HwFrame, EventTargets
<1> QED BY <1>1, <1>2, <1>3, <1>4, <1>5

\* A power-up that found everything quiet keeps it so until it sets POR: with the
\* PM state at DISABLE neither a tasklet nor an interrupt gets anywhere.
StartQuiet ==
  session /\ ctl \in {"up_irq", "up_por"} =>
     pm_state = "DISABLE" /\ w = "idle" /\ ~work /\ t = "idle" /\ iv = "idle"

TeardownInv == MutexInv /\ StartQuiet /\ TeardownExclusive

\* The other threads keep a quiet start quiet.
LEMMA OthersStart ==
  ASSUME StartQuiet, Tasklet \/ Intvec \/ Suspend \/ Clients \/ Device
  PROVE  StartQuiet'
<1> SUFFICES ASSUME session, ctl \in {"up_irq", "up_por"},
                    pm_state = "DISABLE", w = "idle", ~work, t = "idle", iv = "idle"
             PROVE  pm_state' = "DISABLE" /\ ~work' /\ t' = "idle" /\ iv' = "idle"
  BY OthersLeave DEF StartQuiet
<1>1. pm_state' = "DISABLE"
  BY OthersTry, TableRefuses DEF TeardownStates
<1>2. CASE Tasklet
  BY <1>1, <1>2 DEF Tasklet, TaskStart, TaskEnter, TaskM0, TaskM0Rings, TaskM1,
     TaskM1Check, TaskM1Wake, TaskM3, TaskSysErr, TaskSysErrQueue, TaskLoopEnd, TaskPoll,
     TaskEe, Consume, MHI_REG_ACCESS_VALID
<1>3. CASE Intvec
  BY <1>1, <1>3 DEF Intvec, IntvecRead, IntvecDecide, MHI_REG_ACCESS_VALID
<1>4. CASE Suspend
  <2>1. UNCHANGED <<work, t, iv>>
    BY Zenon, <1>4 DEF Suspend, SuspendSteps, SuspendCheck, SuspendGet, SuspendWait,
       SuspendPut, SuspendEnter, SuspendWait3, ResumeCheck, ResumeExit, ResumeWait0
  <2> QED BY <1>1, <2>1
<1>5. CASE Clients
  <2>1. UNCHANGED <<work, t, iv>>
    BY Zenon, <1>5 DEF Clients, mhi_device_get, mhi_device_put, DebugfsGet,
       DebugfsGetDone, DebugfsPut, XferQueue, XferDone
  <2> QED BY <1>1, <2>1
<1>6. CASE Device
  <2>1. UNCHANGED <<work, t, iv>>
    BY Zenon, <1>6 DEF Device, HwResetDone, HwReady, HwEnter, HwIdle, HwWake, HwMsi,
       HwBoot, HwSysErr, HwFrame
  <2> QED BY <1>1, <2>1
<1> QED BY <1>2, <1>3, <1>4, <1>5, <1>6

\* The other threads leave the PM state of a teardown alone.
LEMMA OthersTeardown ==
  ASSUME TeardownInv, Tasklet \/ Intvec \/ Suspend \/ Clients \/ Device
  PROVE  TeardownExclusive'
<1> SUFFICES ASSUME session, w \in TeardownPc,
                    pm_state \in {w_to, "LD_ERR_FATAL_DETECT"}
             PROVE  pm_state' = pm_state
  BY OthersLeave DEF TeardownInv, TeardownExclusive
<1>1. pm_state \in TeardownStates
  BY DEF TeardownInv, MutexInv, WorkerShape, TeardownStates
<1> QED BY <1>1, OthersTry, TableRefuses

\* A step of the state worker keeps what the teardown relies on.
LEMMA StWorkerTeardown ==
  ASSUME TypeOK, TeardownInv, StWorker
  PROVE  StartQuiet' /\ TeardownExclusive'
<1> USE DEF TeardownInv, MutexInv, WorkerShape, StartQuiet, TeardownExclusive
<1>1. CASE StWorkerStart
  BY <1>1 DEF StWorkerStart
<1>2. CASE StWorkerEnd
  BY <1>2 DEF StWorkerEnd
<1>3. CASE HandlePbl
  BY <1>3 DEF HandlePbl, Item, RefreshEe
<1>4. CASE HandleReady
  BY <1>4 DEF HandleReady, Item
<1>5. CASE HandleMissionMode
  BY <1>5 DEF HandleMissionMode, Item, RefreshEe
<1>6. CASE HandleEeItem("SBL")
  BY <1>6 DEF HandleEeItem, Item
<1>7. CASE HandleEeItem("FP")
  BY <1>7 DEF HandleEeItem, Item
<1>8. CASE FwLoad
  BY <1>8 DEF FwLoad
<1>9. CASE FwLoadSbl
  BY <1>9 DEF FwLoadSbl
<1>10. CASE FwLoadFail
  BY <1>10 DEF FwLoadFail
<1>11. CASE ReadyWait
  BY <1>11 DEF ReadyWait, ReadyReturn
<1>12. CASE ReadySet
  BY <1>12, TableDecides DEF ReadySet, ReadyReturn
<1>13. CASE ReadyMmio
  BY <1>13 DEF ReadyMmio, ReadyReturn
<1>14. CASE MissionGet
  BY <1>14 DEF MissionGet
<1>15. CASE MissionWait
  BY <1>15 DEF MissionWait
<1>16. CASE MissionRun
  BY <1>16 DEF MissionRun, MissionPut
<1>17. CASE CreateDevices
  BY <1>17 DEF CreateDevices, AfterCreate
<1>18. CASE ProbeDone
  BY <1>18 DEF ProbeDone, AfterCreate
<1>19. CASE MissionEnd
  BY <1>19 DEF MissionEnd, MissionPut
<1>20. CASE HandleDisable("SYS_ERR")
  BY <1>20, TableDecides DEF HandleDisable, Item, Target
<1>21. CASE HandleDisable("DISABLE")
  BY <1>21, TableDecides DEF HandleDisable, Item, Target
<1>22. CASE DisableReset
  BY <1>22 DEF DisableReset
<1>23. CASE DisableWait
  BY <1>23 DEF DisableWait
<1>24. CASE DisableKill
  BY <1>24 DEF DisableKill
<1>25. CASE DisableDestroy
  BY <1>25 DEF DisableDestroy
<1>26. CASE DisableRings
  BY <1>26 DEF DisableRings
<1>27. CASE DisableOff
  BY <1>27, TableDecides DEF DisableOff
<1> QED BY <1>1, <1>2, <1>3, <1>4, <1>5, <1>6, <1>7, <1>8, <1>9, <1>10, <1>11, <1>12,
   <1>13, <1>14, <1>15, <1>16, <1>17, <1>18, <1>19, <1>20, <1>21, <1>22, <1>23, <1>24,
   <1>25, <1>26, <1>27 DEF StWorker

\* A step of the controller driver keeps what the teardown relies on.
LEMMA ControllerTeardown ==
  ASSUME TypeOK, TeardownInv, Controller
  PROVE  StartQuiet' /\ TeardownExclusive'
<1> USE DEF TeardownInv, MutexInv, WorkerShape, StartQuiet, TeardownExclusive
<1>1. CASE Prepare
  BY <1>1 DEF Prepare
<1>2. CASE PowerUp
  BY <1>2 DEF PowerUp, Quiet
<1>3. CASE UpIrq
  BY <1>3 DEF UpIrq
<1>4. CASE UpPor
  BY <1>4 DEF UpPor
<1>5. CASE UpCheck
  BY <1>5 DEF UpCheck
<1>6. CASE UpReset
  BY <1>6 DEF UpReset
<1>7. CASE UpQueue
  BY <1>7 DEF UpQueue, mhi_queue_state_transition
<1>8. CASE UpErr
  BY <1>8 DEF UpErr, FreeIrqs
<1>9. CASE SyncUp
  BY <1>9 DEF SyncUp, mhi_queue_state_transition
<1>10. ASSUME NEW graceful \in Graceful, PowerDown(graceful) PROVE StartQuiet' /\ TeardownExclusive'
  BY <1>10 DEF PowerDown
<1>11. CASE DownLinkError
  BY <1>11, TableDecides DEF DownLinkError
<1>12. CASE DownQueue
  BY <1>12 DEF DownQueue, mhi_queue_state_transition
<1>13. CASE DownFlush
  BY <1>13 DEF DownFlush
<1>14. CASE DownFree
  BY <1>14 DEF DownFree, FreeIrqs
<1>15. CASE Unprepare
  BY <1>15 DEF Unprepare
<1> QED BY <1>1, <1>2, <1>3, <1>4, <1>5, <1>6, <1>7, <1>8, <1>9, <1>10, <1>11, <1>12,
   <1>13, <1>14, <1>15 DEF Controller, PowerUpSteps, PowerDownSteps

\* Every step keeps what the teardown relies on.
LEMMA TeardownStep == TypeOK /\ TeardownInv /\ [Next]_vars => TeardownInv'
<1> SUFFICES ASSUME TypeOK, TeardownInv, [Next]_vars PROVE TeardownInv'
  OBVIOUS
<1>1. MutexInv'
  BY MutexStep DEF TeardownInv
<1>2. CASE StWorker
  BY <1>1, <1>2, StWorkerTeardown DEF TeardownInv
<1>3. CASE Controller
  BY <1>1, <1>3, ControllerTeardown DEF TeardownInv
<1>4. CASE Tasklet \/ Intvec \/ Suspend \/ Clients \/ Device
  BY <1>1, <1>4, OthersStart, OthersTeardown DEF TeardownInv
<1>5. CASE UNCHANGED vars
  BY <1>1, <1>5 DEF vars, TeardownInv, StartQuiet, TeardownExclusive
<1> QED BY <1>2, <1>3, <1>4, <1>5 DEF Next

\* mhi_pm_disable_transition() has the PM state to itself, whatever events,
\* interrupts, suspends and resumes arrive meanwhile.
THEOREM TeardownIsExclusive == Spec => []TeardownExclusive
<1>1. Init => TeardownInv
  BY DEF Init, TeardownInv, MutexInv, WorkerShape, PmMutexExclusion, WorkerLocked,
         StartQuiet, TeardownExclusive
<1>2. TypeOK /\ TeardownInv /\ [Next]_vars => TeardownInv'
  BY TeardownStep
<1>3. TeardownInv => TeardownExclusive
  BY DEF TeardownInv
<1> QED BY <1>1, <1>2, <1>3, TypeCorrect, PTL DEF Spec

-----------------------------------------------------------------------------
(* Wake votes.                                                             *)

\* In a session the controller is past mhi_prepare_for_power_up(), which resets
\* the count.
SessionPc == session => ctl \notin {"none", "prepared"}

VoteInv == WorkerShape /\ SessionPc /\ VoteBalance

\* The tasklet, the interrupt thread and the device hold no votes.
LEMMA NoVoters ==
  ASSUME Tasklet \/ Intvec \/ Device
  PROVE  UNCHANGED <<dev_wake, client, s>>
<1>1. CASE Tasklet
  BY Zenon, <1>1 DEF Tasklet, TaskStart, TaskEnter, TaskM0, TaskM0Rings, TaskM1,
     TaskM1Check, TaskM1Wake, TaskM3, TaskSysErr, TaskSysErrQueue, TaskLoopEnd, TaskPoll,
     TaskEe, WakeCycle, WakeKick
<1>2. CASE Intvec
  BY Zenon, <1>2 DEF Intvec, IntvecRead, IntvecDecide
<1>3. CASE Device
  BY Zenon, <1>3 DEF Device, HwResetDone, HwReady, HwEnter, HwIdle, HwWake, HwMsi, HwBoot,
     HwSysErr, HwFrame
<1> QED BY <1>1, <1>2, <1>3

\* A step of the state worker keeps the votes in balance.
LEMMA StWorkerVotesKept ==
  ASSUME Shape, VoteInv, StWorker
  PROVE  SessionPc' /\ VoteBalance'
<1> USE DEF Shape, VoteInv, WorkerShape, SessionPc, VoteBalance, WorkerVotes, SuspendVotes
<1>1. CASE StWorkerStart
  BY <1>1 DEF StWorkerStart
<1>2. CASE StWorkerEnd
  BY <1>2 DEF StWorkerEnd
<1>3. CASE HandlePbl
  BY <1>3 DEF HandlePbl, Item
<1>4. CASE HandleReady
  BY <1>4 DEF HandleReady, Item
<1>5. CASE HandleMissionMode
  BY <1>5 DEF HandleMissionMode, Item
<1>6. CASE HandleEeItem("SBL")
  BY <1>6 DEF HandleEeItem, Item
<1>7. CASE HandleEeItem("FP")
  BY <1>7 DEF HandleEeItem, Item
<1>8. CASE FwLoad
  BY <1>8 DEF FwLoad
<1>9. CASE FwLoadSbl
  BY <1>9 DEF FwLoadSbl
<1>10. CASE FwLoadFail
  BY <1>10 DEF FwLoadFail
<1>11. CASE ReadyWait
  BY <1>11 DEF ReadyWait, ReadyReturn
<1>12. CASE ReadySet
  BY <1>12 DEF ReadySet, ReadyReturn
<1>13. CASE ReadyMmio
  BY <1>13 DEF ReadyMmio, ReadyReturn
<1>14. CASE MissionGet
  BY <1>14 DEF MissionGet, mhi_assert_dev_wake
<1>15. CASE MissionWait
  BY <1>15 DEF MissionWait, GetSyncGivesUp, mhi_deassert_dev_wake
<1>16. CASE MissionRun
  BY <1>16 DEF MissionRun, MissionPut, mhi_deassert_dev_wake
<1>17. CASE CreateDevices
  <2>1. CASE dev_wake' = dev_wake + 1 /\ w' = "probe"
    BY <1>17, <2>1 DEF CreateDevices
  <2>2. CASE dev_wake' = dev_wake /\ w' = AfterCreate
    BY <1>17, <2>2 DEF CreateDevices, AfterCreate
  <2> QED BY Zenon, <1>17, <2>1, <2>2 DEF CreateDevices, mhi_assert_dev_wake
<1>18. CASE ProbeDone
  BY <1>18 DEF ProbeDone, mhi_deassert_dev_wake, AfterCreate
<1>19. CASE MissionEnd
  BY <1>19 DEF MissionEnd, MissionPut, mhi_deassert_dev_wake
<1>20. CASE HandleDisable("SYS_ERR")
  BY <1>20 DEF HandleDisable, Item, Target
<1>21. CASE HandleDisable("DISABLE")
  BY <1>21 DEF HandleDisable, Item, Target
<1>22. CASE DisableReset
  BY <1>22 DEF DisableReset
<1>23. CASE DisableWait
  BY <1>23 DEF DisableWait
<1>24. CASE DisableKill
  BY <1>24 DEF DisableKill
<1>25. CASE DisableDestroy
  BY <1>25 DEF DisableDestroy, DriverRemoveVotes
<1>26. CASE DisableRings
  BY <1>26 DEF DisableRings
<1>27. CASE DisableOff
  BY <1>27 DEF DisableOff
<1> QED BY <1>1, <1>2, <1>3, <1>4, <1>5, <1>6, <1>7, <1>8, <1>9, <1>10, <1>11, <1>12,
   <1>13, <1>14, <1>15, <1>16, <1>17, <1>18, <1>19, <1>20, <1>21, <1>22, <1>23, <1>24,
   <1>25, <1>26, <1>27 DEF StWorker

\* A step of the controller driver keeps the votes in balance.
LEMMA ControllerVotesKept ==
  ASSUME Shape, VoteInv, Controller
  PROVE  SessionPc' /\ VoteBalance'
<1> USE DEF Shape, VoteInv, WorkerShape, SessionPc, VoteBalance, WorkerVotes, SuspendVotes
<1>1. CASE Prepare
  BY <1>1 DEF Prepare
<1>2. CASE PowerUp
  BY <1>2 DEF PowerUp, Quiet
<1>3. CASE UpIrq
  BY <1>3 DEF UpIrq
<1>4. CASE UpPor
  BY <1>4 DEF UpPor
<1>5. CASE UpCheck
  BY <1>5 DEF UpCheck
<1>6. CASE UpReset
  BY <1>6 DEF UpReset
<1>7. CASE UpQueue
  BY <1>7 DEF UpQueue
<1>8. CASE UpErr
  BY <1>8 DEF UpErr, FreeIrqs
<1>9. CASE SyncUp
  BY <1>9 DEF SyncUp
<1>10. ASSUME NEW graceful \in Graceful, PowerDown(graceful) PROVE SessionPc' /\ VoteBalance'
  BY <1>10 DEF PowerDown
<1>11. CASE DownLinkError
  BY <1>11 DEF DownLinkError
<1>12. CASE DownQueue
  BY <1>12 DEF DownQueue
<1>13. CASE DownFlush
  BY <1>13 DEF DownFlush
<1>14. CASE DownFree
  BY <1>14 DEF DownFree, FreeIrqs
<1>15. CASE Unprepare
  BY <1>15 DEF Unprepare
<1> QED BY <1>1, <1>2, <1>3, <1>4, <1>5, <1>6, <1>7, <1>8, <1>9, <1>10, <1>11, <1>12,
   <1>13, <1>14, <1>15 DEF Controller, PowerUpSteps, PowerDownSteps

\* A step of suspend and resume keeps the votes in balance.
LEMMA SuspendVotesKept ==
  ASSUME Shape, VoteInv, Suspend
  PROVE  SessionPc' /\ VoteBalance'
<1> USE DEF Shape, VoteInv, WorkerShape, SessionPc, VoteBalance, WorkerVotes, SuspendVotes
<1>1. CASE SuspendCheck
  BY <1>1 DEF SuspendCheck
<1>2. CASE SuspendGet
  BY <1>2 DEF SuspendGet, mhi_assert_dev_wake
<1>3. CASE SuspendWait
  BY <1>3 DEF SuspendWait
<1>4. CASE SuspendPut
  BY <1>4 DEF SuspendPut, mhi_deassert_dev_wake
<1>5. CASE SuspendEnter
  BY <1>5 DEF SuspendEnter
<1>6. CASE SuspendWait3
  BY <1>6 DEF SuspendWait3
<1>7. CASE ResumeCheck
  BY <1>7 DEF ResumeCheck
<1>8. CASE ResumeExit
  BY <1>8 DEF ResumeExit
<1>9. CASE ResumeWait0
  BY <1>9 DEF ResumeWait0
<1> QED BY <1>1, <1>2, <1>3, <1>4, <1>5, <1>6, <1>7, <1>8, <1>9 DEF Suspend, SuspendSteps

\* A step of client drivers and debugfs keeps the votes in balance.
LEMMA ClientsVotesKept ==
  ASSUME Shape, VoteInv, Clients
  PROVE  SessionPc' /\ VoteBalance'
<1> USE DEF Shape, VoteInv, WorkerShape, SessionPc, VoteBalance, WorkerVotes, SuspendVotes
<1>1. CASE mhi_device_get
  BY <1>1 DEF mhi_device_get, mhi_assert_dev_wake
<1>2. CASE mhi_device_put
  BY <1>2 DEF mhi_device_put, mhi_deassert_dev_wake
<1>3. CASE DebugfsGet
  BY <1>3 DEF DebugfsGet, mhi_assert_dev_wake
<1>4. CASE DebugfsGetDone
  BY <1>4 DEF DebugfsGetDone, GetSyncGivesUp, mhi_deassert_dev_wake
<1>5. CASE DebugfsPut
  BY <1>5 DEF DebugfsPut, mhi_deassert_dev_wake
<1>6. CASE XferQueue
  BY <1>6 DEF XferQueue
<1>7. CASE XferDone
  BY <1>7 DEF XferDone
<1> QED BY <1>1, <1>2, <1>3, <1>4, <1>5, <1>6, <1>7 DEF Clients

\* Every step keeps the votes in balance.
LEMMA VoteStep == TypeOK /\ MutexInv /\ VoteInv /\ [Next]_vars => VoteInv'
<1> SUFFICES ASSUME TypeOK, MutexInv, VoteInv, [Next]_vars PROVE VoteInv'
  OBVIOUS
<1>1. Shape
  BY TypeSplit
<1>2. WorkerShape'
  BY MutexStep DEF MutexInv
<1>3. CASE StWorker
  BY <1>1, <1>2, <1>3, StWorkerVotesKept DEF VoteInv
<1>4. CASE Controller
  BY <1>1, <1>2, <1>4, ControllerVotesKept DEF VoteInv
<1>5. CASE Suspend
  BY <1>1, <1>2, <1>5, SuspendVotesKept DEF VoteInv
<1>6. CASE Clients
  BY <1>1, <1>2, <1>6, ClientsVotesKept DEF VoteInv
<1>7. CASE Tasklet \/ Intvec \/ Device
  BY <1>2, <1>7, NoVoters, OthersLeave
  DEF VoteInv, SessionPc, VoteBalance, WorkerVotes, SuspendVotes
<1>8. CASE UNCHANGED vars
  BY <1>2, <1>8 DEF vars, VoteInv, SessionPc, VoteBalance, WorkerVotes, SuspendVotes
<1> QED BY <1>3, <1>4, <1>5, <1>6, <1>7, <1>8 DEF Next

\* dev_wake is exactly the number of votes held, for any number of client votes,
\* debugfs votes, suspends and recoveries: no error path drops or repeats a put.
THEOREM VotesBalance == Spec => []VoteBalance
<1>1. Init => MutexInv /\ VoteInv
  BY DEF Init, MutexInv, PmMutexExclusion, WorkerLocked, VoteInv, WorkerShape, SessionPc,
         VoteBalance, WorkerVotes, SuspendVotes
<1>2. TypeOK /\ (MutexInv /\ VoteInv) /\ [Next]_vars => (MutexInv /\ VoteInv)'
  BY MutexStep, VoteStep
<1>3. VoteInv => VoteBalance
  BY DEF VoteInv
<1> QED BY <1>1, <1>2, <1>3, TypeCorrect, PTL DEF Spec

\* With nobody voting through debugfs and no system suspend, the only votes during
\* the teardown are those of the channel devices, and those are gone.
OnlyClientsVote ==
  /\ dvotes = 0 /\ syncs = 0 /\ s = "idle"
  /\ w = "dis_rings" => votes = 0 /\ devices = {}

\* Every step keeps it so.
LEMMA OnlyClientsStep ==
  ASSUME ~Debugfs, ~Suspends, Shape, OnlyClientsVote, [Next]_vars
  PROVE  OnlyClientsVote'
<1> USE DEF OnlyClientsVote
<1>1. CASE StWorker
  BY <1>1 DEF StWorker, StWorkerStart, StWorkerEnd, HandlePbl, HandleReady,
     HandleMissionMode, HandleEeItem, FwLoad, FwLoadSbl, FwLoadFail, ReadyWait, ReadySet,
     ReadyMmio, MissionGet, MissionWait, MissionRun, CreateDevices, ProbeDone, MissionEnd,
     HandleDisable, DisableReset, DisableWait, DisableKill, DisableDestroy, DisableRings,
     DisableOff, ReadyReturn, MissionPut, AfterCreate
<1>2. CASE Controller
  BY <1>2 DEF Controller, PowerUpSteps, PowerDownSteps, Prepare, PowerUp, UpIrq, UpPor,
     UpCheck, UpReset, UpQueue, UpErr, SyncUp, PowerDown, DownLinkError, DownQueue,
     DownFlush, DownFree, Unprepare
<1>3. CASE Suspend
  BY <1>3 DEF Suspend, SuspendSteps, SuspendCheck, SuspendGet, SuspendWait, SuspendPut,
     SuspendEnter, SuspendWait3, ResumeCheck, ResumeExit, ResumeWait0
<1>4. CASE Clients
  <2>1. UNCHANGED <<w, devices, s>>
    BY <1>4, OthersLeave, Zenon DEF Clients, mhi_device_get, mhi_device_put, DebugfsGet,
       DebugfsGetDone, DebugfsPut, XferQueue, XferDone
  <2>2. CASE mhi_device_get
    BY <2>1, <2>2 DEF mhi_device_get
  <2>3. CASE mhi_device_put
    BY <2>1, <2>3 DEF mhi_device_put, Shape
  <2>4. CASE DebugfsGet \/ DebugfsGetDone \/ DebugfsPut
    BY <2>4 DEF DebugfsGet, DebugfsGetDone, DebugfsPut
  <2>5. CASE XferQueue \/ XferDone
    BY <2>1, <2>5 DEF XferQueue, XferDone
  <2> QED BY <1>4, <2>2, <2>3, <2>4, <2>5 DEF Clients
<1>5. CASE Tasklet \/ Intvec \/ Device
  BY <1>5, NoVoters, OthersLeave
<1>6. CASE UNCHANGED vars
  BY <1>6 DEF vars
<1> QED BY <1>1, <1>2, <1>3, <1>4, <1>5, <1>6 DEF Next

\* The warning in mhi_pm_disable_transition() that votes are left over cannot
\* trigger, unless debugfs or a suspend holds one: every client's votes are given
\* back with its device, any number of them.
THEOREM TeardownIsVoteFree ==
  ASSUME ~Debugfs, ~Suspends
  PROVE  Spec => []TeardownVoteFree
<1> DEFINE I == MutexInv /\ VoteInv /\ OnlyClientsVote
<1>1. Init => I
  BY DEF Init, MutexInv, PmMutexExclusion, WorkerLocked, VoteInv, WorkerShape, SessionPc,
         VoteBalance, WorkerVotes, SuspendVotes, OnlyClientsVote
<1>2. TypeOK /\ I /\ [Next]_vars => I'
  BY MutexStep, VoteStep, OnlyClientsStep, TypeSplit
<1>3. I => TeardownVoteFree
  BY DEF VoteInv, WorkerShape, VoteBalance, WorkerVotes, SuspendVotes, OnlyClientsVote,
         TeardownVoteFree
<1> QED BY <1>1, <1>2, <1>3, TypeCorrect, PTL DEF Spec

-----------------------------------------------------------------------------
(* Register access of the control-ring tasklet, for a controller driver that *)
(* powers up asynchronously and powers down gracefully, as pci_generic.c does.*)

\* Why the registers stay accessible: nobody declares the link dead; after
\* tasklet_kill() the tasklet gets no further than its entry check; it is the
\* only thread that enters M3, and then it has handled an event and does not look
\* at the device.
RegInv ==
  /\ ctl \notin {"dn_ld", "sync"} /\ pm_state # "LD_ERR_FATAL_DETECT"
  /\ session /\ w \in {"dis_destroy", "dis_rings", "dis_off"} => t \in {"idle", "enter"}
  /\ session /\ t = "enter" => pm_state # "M3"
  /\ session /\ t \notin {"idle", "enter"} =>
        /\ pm_state # "DISABLE"
        /\ pm_state = "M3" => t_any /\ t # "poll"


\* A step of the state worker keeps the tasklet's registers accessible.
LEMMA StWorkerReg ==
  ASSUME Graceful \subseteq {TRUE}, SyncUps \subseteq {FALSE}, TypeOK, TeardownInv, RegInv, StWorker
  PROVE  RegInv'
<1> USE DEF RegInv, TeardownInv, MutexInv, WorkerShape, StartQuiet, TeardownExclusive
<1>1. CASE StWorkerStart
  BY <1>1 DEF StWorkerStart
<1>2. CASE StWorkerEnd
  BY <1>2 DEF StWorkerEnd
<1>3. CASE HandlePbl
  BY <1>3 DEF HandlePbl, Item, RefreshEe
<1>4. CASE HandleReady
  BY <1>4 DEF HandleReady, Item
<1>5. CASE HandleMissionMode
  BY <1>5 DEF HandleMissionMode, Item, RefreshEe
<1>6. CASE HandleEeItem("SBL")
  BY <1>6 DEF HandleEeItem, Item
<1>7. CASE HandleEeItem("FP")
  BY <1>7 DEF HandleEeItem, Item
<1>8. CASE FwLoad
  BY <1>8 DEF FwLoad
<1>9. CASE FwLoadSbl
  BY <1>9 DEF FwLoadSbl
<1>10. CASE FwLoadFail
  BY <1>10 DEF FwLoadFail
<1>11. CASE ReadyWait
  BY <1>11 DEF ReadyWait, ReadyReturn
<1>12. CASE ReadySet
  BY <1>12, TableDecides DEF ReadySet, ReadyReturn
<1>13. CASE ReadyMmio
  BY <1>13 DEF ReadyMmio, ReadyReturn
<1>14. CASE MissionGet
  BY <1>14 DEF MissionGet
<1>15. CASE MissionWait
  BY <1>15 DEF MissionWait
<1>16. CASE MissionRun
  BY <1>16 DEF MissionRun, MissionPut
<1>17. CASE CreateDevices
  BY <1>17 DEF CreateDevices, AfterCreate
<1>18. CASE ProbeDone
  BY <1>18 DEF ProbeDone, AfterCreate
<1>19. CASE MissionEnd
  BY <1>19 DEF MissionEnd, MissionPut
<1>20. CASE HandleDisable("SYS_ERR")
  BY <1>20, TableDecides DEF HandleDisable, Item, Target
<1>21. CASE HandleDisable("DISABLE")
  BY <1>21, TableDecides DEF HandleDisable, Item, Target
<1>22. CASE DisableReset
  BY <1>22 DEF DisableReset
<1>23. CASE DisableWait
  BY <1>23 DEF DisableWait
<1>24. CASE DisableKill
  BY <1>24 DEF DisableKill, tasklet_kill
<1>25. CASE DisableDestroy
  BY <1>25 DEF DisableDestroy
<1>26. CASE DisableRings
  BY <1>26 DEF DisableRings
<1>27. CASE DisableOff
  BY <1>27, TableDecides DEF DisableOff
<1> QED BY <1>1, <1>2, <1>3, <1>4, <1>5, <1>6, <1>7, <1>8, <1>9, <1>10, <1>11, <1>12,
   <1>13, <1>14, <1>15, <1>16, <1>17, <1>18, <1>19, <1>20, <1>21, <1>22, <1>23, <1>24,
   <1>25, <1>26, <1>27 DEF StWorker

\* A step of the tasklet of the control ring keeps the tasklet's registers accessible.
LEMMA TaskletReg ==
  ASSUME Graceful \subseteq {TRUE}, SyncUps \subseteq {FALSE}, TypeOK, TeardownInv, RegInv, Tasklet
  PROVE  RegInv'
<1> USE DEF RegInv, TeardownInv, MutexInv, WorkerShape, StartQuiet, TeardownExclusive
<1>1. CASE TaskStart
  BY <1>1 DEF TaskStart, MHI_REG_ACCESS_VALID
<1>2. CASE TaskEnter
  BY <1>2 DEF TaskEnter, MHI_EVENT_ACCESS_INVALID, MHI_PM_IN_ERROR_STATE
<1>3. CASE TaskM0
  BY <1>3, TableDecides DEF TaskM0, Consume
<1>4. CASE TaskM0Rings
  BY <1>4 DEF TaskM0Rings
<1>5. CASE TaskM1
  BY <1>5, TableDecides DEF TaskM1, Consume
<1>6. CASE TaskM1Check
  BY <1>6 DEF TaskM1Check
<1>7. CASE TaskM1Wake
  BY <1>7 DEF TaskM1Wake
<1>8. CASE TaskM3
  BY <1>8, TableDecides DEF TaskM3, Consume
<1>9. CASE TaskSysErr
  BY <1>9, TableDecides DEF TaskSysErr, Consume
<1>10. CASE TaskSysErrQueue
  BY <1>10 DEF TaskSysErrQueue
<1>11. CASE TaskLoopEnd
  BY <1>11 DEF TaskLoopEnd, NothingHandled
<1>12. CASE TaskPoll
  BY <1>12, TableDecides DEF TaskPoll
<1>13. ASSUME NEW e \in DeviceEE, TaskEe(e) PROVE RegInv'
  BY <1>13 DEF TaskEe, Consume
<1> QED BY <1>1, <1>2, <1>3, <1>4, <1>5, <1>6, <1>7, <1>8, <1>9, <1>10, <1>11, <1>12,
   <1>13 DEF Tasklet

\* A step of the BHI interrupt thread keeps the tasklet's registers accessible.
LEMMA IntvecReg ==
  ASSUME Graceful \subseteq {TRUE}, SyncUps \subseteq {FALSE}, TypeOK, TeardownInv, RegInv, Intvec
  PROVE  RegInv'
<1> USE DEF RegInv, TeardownInv, MutexInv, WorkerShape, StartQuiet, TeardownExclusive
<1>1. CASE IntvecRead
  BY <1>1, TableDecides DEF IntvecRead
<1>2. CASE IntvecDecide
  BY <1>2 DEF IntvecDecide
<1> QED BY <1>1, <1>2 DEF Intvec

\* A step of the controller driver keeps the tasklet's registers accessible.
LEMMA ControllerReg ==
  ASSUME Graceful \subseteq {TRUE}, SyncUps \subseteq {FALSE}, TypeOK, TeardownInv, RegInv, Controller
  PROVE  RegInv'
<1> USE DEF RegInv, TeardownInv, MutexInv, WorkerShape, StartQuiet, TeardownExclusive
<1>1. CASE Prepare
  BY <1>1 DEF Prepare
<1>2. CASE PowerUp
  BY <1>2 DEF PowerUp, Quiet
<1>3. CASE UpIrq
  BY <1>3 DEF UpIrq
<1>4. CASE UpPor
  BY <1>4 DEF UpPor
<1>5. CASE UpCheck
  BY <1>5 DEF UpCheck
<1>6. CASE UpReset
  BY <1>6 DEF UpReset
<1>7. CASE UpQueue
  BY <1>7 DEF UpQueue
<1>8. CASE UpErr
  BY <1>8 DEF UpErr, FreeIrqs
<1>9. CASE SyncUp
  BY <1>9 DEF SyncUp
<1>10. ASSUME NEW graceful \in Graceful, PowerDown(graceful) PROVE RegInv'
  BY <1>10 DEF PowerDown
<1>11. CASE DownLinkError
  BY <1>11, TableDecides DEF DownLinkError
<1>12. CASE DownQueue
  BY <1>12 DEF DownQueue
<1>13. CASE DownFlush
  BY <1>13 DEF DownFlush
<1>14. CASE DownFree
  BY <1>14 DEF DownFree, FreeIrqs
<1>15. CASE Unprepare
  BY <1>15 DEF Unprepare
<1> QED BY <1>1, <1>2, <1>3, <1>4, <1>5, <1>6, <1>7, <1>8, <1>9, <1>10, <1>11, <1>12,
   <1>13, <1>14, <1>15 DEF Controller, PowerUpSteps, PowerDownSteps

\* A step of suspend and resume keeps the tasklet's registers accessible.
LEMMA SuspendReg ==
  ASSUME Graceful \subseteq {TRUE}, SyncUps \subseteq {FALSE}, TypeOK, TeardownInv, RegInv, Suspend
  PROVE  RegInv'
<1> USE DEF RegInv, TeardownInv, MutexInv, WorkerShape, StartQuiet, TeardownExclusive
<1>1. CASE SuspendCheck
  BY <1>1 DEF SuspendCheck
<1>2. CASE SuspendGet
  BY <1>2 DEF SuspendGet
<1>3. CASE SuspendWait
  BY <1>3 DEF SuspendWait
<1>4. CASE SuspendPut
  BY <1>4 DEF SuspendPut
<1>5. CASE SuspendEnter
  BY <1>5, TableDecides DEF SuspendEnter
<1>6. CASE SuspendWait3
  BY <1>6 DEF SuspendWait3
<1>7. CASE ResumeCheck
  BY <1>7 DEF ResumeCheck
<1>8. CASE ResumeExit
  BY <1>8, TableDecides DEF ResumeExit
<1>9. CASE ResumeWait0
  BY <1>9 DEF ResumeWait0
<1> QED BY <1>1, <1>2, <1>3, <1>4, <1>5, <1>6, <1>7, <1>8, <1>9 DEF Suspend, SuspendSteps

\* A step of client drivers and debugfs keeps the tasklet's registers accessible.
LEMMA ClientsReg ==
  ASSUME Graceful \subseteq {TRUE}, SyncUps \subseteq {FALSE}, TypeOK, TeardownInv, RegInv, Clients
  PROVE  RegInv'
<1>1. UNCHANGED <<pm_state, ctl, session, w, t, t_any>>
  BY Zenon DEF Clients, mhi_device_get, mhi_device_put, DebugfsGet, DebugfsGetDone,
     DebugfsPut, XferQueue, XferDone
<1> QED BY <1>1 DEF RegInv

\* A step of the device keeps the tasklet's registers accessible.
LEMMA DeviceReg ==
  ASSUME Graceful \subseteq {TRUE}, SyncUps \subseteq {FALSE}, TypeOK, TeardownInv, RegInv, Device
  PROVE  RegInv'
<1>1. UNCHANGED <<pm_state, ctl, session, w, t, t_any>>
  BY Zenon DEF Device, HwResetDone, HwReady, HwEnter, HwIdle, HwWake, HwMsi, HwBoot,
     HwSysErr, HwFrame
<1> QED BY <1>1 DEF RegInv

\* mhi_ctrl_ev_task() reads MHISTATUS only while the registers are accessible, for a
\* controller driver that uses mhi_async_power_up() and mhi_power_down(true).
THEOREM CtrlTaskRegsAccessible ==
  ASSUME Graceful \subseteq {TRUE}, SyncUps \subseteq {FALSE}
  PROVE  Spec => []CtrlTaskRegAccess
<1> DEFINE I == TeardownInv /\ RegInv
<1>1. Init => I
  BY DEF Init, TeardownInv, MutexInv, WorkerShape, PmMutexExclusion, WorkerLocked,
         StartQuiet, TeardownExclusive, RegInv
<1>2. TypeOK /\ I /\ [Next]_vars => I'
  <2> SUFFICES ASSUME TypeOK, I, [Next]_vars PROVE RegInv'
    BY TeardownStep
  <2>1. CASE UNCHANGED vars
    BY <2>1 DEF vars, RegInv
  <2> QED BY <2>1, StWorkerReg, TaskletReg, IntvecReg, ControllerReg, SuspendReg,
             ClientsReg, DeviceReg DEF Next
<1>3. I => CtrlTaskRegAccess
  BY DEF RegInv, CtrlTaskRegAccess, MHI_REG_ACCESS_VALID
<1> QED BY <1>1, <1>2, <1>3, TypeCorrect, PTL DEF Spec

-----------------------------------------------------------------------------
(* Power-down.  mhi_power_down() queues a DISABLE item and waits for it with   *)
(* flush_work(); what matters is where the item is, and what is queued behind. *)

DownPc == {"dn_flush", "dn_wait", "down"}

\* the items that start the controller, by mhi_ready_state_transition()
Starts == {"PBL", "READY"}

Holds(q, S) == \E i \in 1..Len(q) : q[i] \in S

\* the DISABLE item is the only one, and nothing behind it starts the controller again
Clean(q) ==
  \A i, j \in 1..Len(q) : i < j /\ q[i] = "DISABLE" => q[j] \notin Starts \cup {"DISABLE"}

\* the items that undo a shutdown: they start the controller, or create MHI devices in
\* whatever PM state they are handled
Revives == Starts \cup ({"SBL", "FP"} \cap ChanEE)

NoneAfter(q) ==
  \A i, j \in 1..Len(q) : i < j /\ q[i] = "DISABLE" => q[j] \notin Revives

\* Nothing that undoes the shutdown is queued behind the DISABLE item of mhi_power_down().
\* The interrupt thread can queue a READY item there when the flash programmer starts out of
\* EDL, and the tasklet an SBL or FP item when the device reports that environment late.
NothingBehind ==
  session /\ ctl \in DownPc =>
    IF Holds(transition_list, {"DISABLE"}) THEN NoneAfter(transition_list)
    ELSE /\ ~Holds(transition_list, Revives)
         /\ IF Holds(head, {"DISABLE"}) THEN NoneAfter(head) ELSE ~Holds(head, Revives)

\* What a queue with one more item at its end holds.
LEMMA HoldsAppend ==
  ASSUME NEW T, NEW q \in Seq(T), NEW x \in T, NEW S
  PROVE  Holds(Append(q, x), S) <=> Holds(q, S) \/ x \in S
<1>1. Len(Append(q, x)) = Len(q) + 1 /\ Len(q) \in Nat
  OBVIOUS
<1>2. \A i \in 1..Len(q) : Append(q, x)[i] = q[i]
  OBVIOUS
<1>3. Append(q, x)[Len(q) + 1] = x
  OBVIOUS
<1> QED BY <1>1, <1>2, <1>3 DEF Holds

\* What a queue holds without its first item.
LEMMA HoldsTail ==
  ASSUME NEW T, NEW q \in Seq(T), q # <<>>, NEW S
  PROVE  Holds(q, S) <=> Head(q) \in S \/ Holds(Tail(q), S)
<1>1. Len(Tail(q)) = Len(q) - 1 /\ Len(q) \in Nat /\ Len(q) > 0 /\ Head(q) = q[1]
  OBVIOUS
<1>2. \A i \in 1..Len(q) - 1 : Tail(q)[i] = q[i + 1]
  OBVIOUS
<1>3. ASSUME NEW i \in 1..Len(q), q[i] \in S PROVE Head(q) \in S \/ Holds(Tail(q), S)
  <2>1. CASE i = 1
    BY <1>1, <1>3, <2>1
  <2>2. CASE i # 1
    <3>1. i - 1 \in 1..Len(Tail(q)) /\ Tail(q)[i - 1] = q[i]
      BY <1>1, <1>2, <2>2
    <3> QED BY <1>3, <3>1 DEF Holds
  <2> QED BY <2>1, <2>2
<1>4. ASSUME NEW i \in 1..Len(Tail(q)), Tail(q)[i] \in S PROVE Holds(q, S)
  <2>1. i + 1 \in 1..Len(q) /\ q[i + 1] = Tail(q)[i]
    BY <1>1, <1>2
  <2> QED BY <1>4, <2>1 DEF Holds
<1>5. Head(q) \in S => Holds(q, S)
  BY <1>1 DEF Holds
<1> QED BY <1>3, <1>4, <1>5 DEF Holds

\* The empty queue holds nothing.
LEMMA HoldsNothing == ASSUME NEW S PROVE ~Holds(<<>>, S)
BY DEF Holds

\* An item may go behind DISABLE unless it is another or starts the controller.
LEMMA CleanAppend ==
  ASSUME NEW q \in Seq(StTransition), NEW x \in StTransition, Clean(q),
         x \notin Starts \cup {"DISABLE"} \/ ~Holds(q, {"DISABLE"})
  PROVE  Clean(Append(q, x))
<1>1. Len(Append(q, x)) = Len(q) + 1 /\ Len(q) \in Nat
  OBVIOUS
<1>2. \A i \in 1..Len(q) : Append(q, x)[i] = q[i]
  OBVIOUS
<1>3. Append(q, x)[Len(q) + 1] = x
  OBVIOUS
<1> SUFFICES ASSUME NEW i \in 1..Len(Append(q, x)), NEW j \in 1..Len(Append(q, x)),
                    i < j, Append(q, x)[i] = "DISABLE"
             PROVE  Append(q, x)[j] \notin Starts \cup {"DISABLE"}
  BY DEF Clean
<1>4. i \in 1..Len(q) /\ q[i] = "DISABLE" /\ Holds(q, {"DISABLE"})
  BY <1>1, <1>2 DEF Holds
<1>5. CASE j \in 1..Len(q)
  BY <1>2, <1>4, <1>5 DEF Clean
<1>6. CASE j = Len(q) + 1
  BY <1>3, <1>4, <1>6
<1> QED BY <1>1, <1>5, <1>6

\* Taking the first item keeps the order, and behind DISABLE nothing starts.
LEMMA CleanTail ==
  ASSUME NEW q \in Seq(StTransition), q # <<>>, Clean(q)
  PROVE  /\ Clean(Tail(q))
         /\ Head(q) = "DISABLE" => ~Holds(Tail(q), Starts) /\ ~Holds(Tail(q), {"DISABLE"})
<1>1. Len(Tail(q)) = Len(q) - 1 /\ Len(q) \in Nat /\ Len(q) > 0 /\ Head(q) = q[1]
  OBVIOUS
<1>2. \A i \in 1..Len(q) - 1 : Tail(q)[i] = q[i + 1]
  OBVIOUS
<1>3. \A i \in 1..Len(Tail(q)) : i + 1 \in 1..Len(q) /\ 1 \in 1..Len(q) /\ 1 < i + 1
                                 /\ Tail(q)[i] = q[i + 1]
  BY <1>1, <1>2
<1>4. Clean(Tail(q))
  <2> SUFFICES ASSUME NEW i \in 1..Len(Tail(q)), NEW j \in 1..Len(Tail(q)),
                      i < j, Tail(q)[i] = "DISABLE"
               PROVE  Tail(q)[j] \notin Starts \cup {"DISABLE"}
    BY DEF Clean
  <2>1. i + 1 < j + 1
    OBVIOUS
  <2> QED BY <1>3, <2>1 DEF Clean
<1>5. Head(q) = "DISABLE" => ~Holds(Tail(q), Starts) /\ ~Holds(Tail(q), {"DISABLE"})
  BY <1>1, <1>3 DEF Clean, Holds
<1> QED BY <1>4, <1>5

\* A queue without DISABLE is in order.
LEMMA CleanWithout == ASSUME NEW q, ~Holds(q, {"DISABLE"}) PROVE Clean(q)
BY DEF Clean, Holds

\* A device that is never in emergency download mode does not report it.
NoEdl == ee # "EDL" /\ hw_ee # "EDL"

\* Every step keeps it so.
LEMMA NoEdlStep ==
  ASSUME "EDL" \notin HwEE, TypeOK, NoEdl, [Next]_vars
  PROVE  NoEdl'
<1> USE DEF NoEdl
<1>1. CASE StWorker
  BY <1>1 DEF StWorker, StWorkerStart, StWorkerEnd, HandlePbl, HandleReady,
     HandleMissionMode, HandleEeItem, FwLoad, FwLoadSbl, FwLoadFail, ReadyWait, ReadySet,
     ReadyMmio, MissionGet, MissionWait, MissionRun, CreateDevices, ProbeDone, MissionEnd,
     HandleDisable, DisableReset, DisableWait, DisableKill, DisableDestroy, DisableRings,
     DisableOff, RefreshEe
<1>2. CASE Controller
  BY <1>2 DEF Controller, PowerUpSteps, PowerDownSteps, Prepare, PowerUp, UpIrq, UpPor,
     UpCheck, UpReset, UpQueue, UpErr, SyncUp, PowerDown, DownLinkError, DownQueue,
     DownFlush, DownFree, Unprepare
<1>3. CASE Suspend
  BY Zenon, <1>3 DEF Suspend, SuspendSteps, SuspendCheck, SuspendGet, SuspendWait, SuspendPut,
     SuspendEnter, SuspendWait3, ResumeCheck, ResumeExit, ResumeWait0
<1>4. CASE Clients
  BY Zenon, <1>4 DEF Clients, mhi_device_get, mhi_device_put, DebugfsGet,
     DebugfsGetDone, DebugfsPut, XferQueue, XferDone
<1>5. CASE Tasklet
  BY <1>5 DEF Tasklet, TaskStart, TaskEnter, TaskM0, TaskM0Rings, TaskM1,
     TaskM1Check, TaskM1Wake, TaskM3, TaskSysErr, TaskSysErrQueue, TaskLoopEnd, TaskPoll,
     TaskEe, Consume
<1>6. CASE Intvec
  BY <1>6 DEF Intvec, IntvecRead, IntvecDecide
<1>7. CASE Device
  BY <1>7 DEF Device, HwResetDone, HwReady, HwEnter, HwIdle, HwWake, HwMsi,
     HwBoot, HwSysErr, HwFrame
<1>8. CASE UNCHANGED vars
  BY <1>8 DEF vars
<1> QED BY <1>1, <1>2, <1>3, <1>4, <1>5, <1>6, <1>7, <1>8 DEF Next

\* an item is queued, if any, that neither starts the controller nor shuts it down
Mild == UNCHANGED queue \/ \E x \in {"SYS_ERR", "SBL", "FP", "MISSION_MODE"} :
                              mhi_queue_state_transition(x)

\* What the other threads queue does not shut the controller down, and only the flash
\* programmer that comes out of EDL makes one of them start it.
LEMMA OthersQueueAny ==
  ASSUME Tasklet \/ Intvec \/ Suspend \/ Clients \/ Device
  PROVE  /\ flush' = flush
         /\ Mild \/ mhi_queue_state_transition("READY")
         /\ NoEdl => Mild
<1> USE DEF Mild
<1>1. CASE Tasklet
  <2>1. \A e \in DeviceEE : e \in DOMAIN EeItem => EeItem[e] \in {"SBL", "FP", "MISSION_MODE"}
    BY DEF EeItem
  <2>2. ASSUME NEW e \in DeviceEE, TaskEe(e)
        PROVE  UNCHANGED queue \/ \E x \in {"SBL", "FP", "MISSION_MODE"} :
                                     mhi_queue_state_transition(x)
    BY Zenon, <2>1, <2>2 DEF TaskEe
  <2>3. CASE TaskSysErrQueue
    BY Zenon, <2>3 DEF TaskSysErrQueue, SysErrHandler
  <2>4. flush' = flush
    BY Zenon, <1>1 DEF Tasklet, TaskStart, TaskEnter, TaskM0, TaskM0Rings, TaskM1,
       TaskM1Check, TaskM1Wake, TaskM3, TaskSysErr, TaskSysErrQueue, TaskLoopEnd, TaskPoll,
       TaskEe
  <2>5. CASE \/ TaskStart \/ TaskEnter \/ TaskM0 \/ TaskM0Rings \/ TaskM1 \/ TaskM1Check
             \/ TaskM1Wake \/ TaskM3 \/ TaskSysErr \/ TaskLoopEnd \/ TaskPoll
    BY Zenon, <2>5 DEF TaskStart, TaskEnter, TaskM0, TaskM0Rings, TaskM1,
       TaskM1Check, TaskM1Wake, TaskM3, TaskSysErr, TaskLoopEnd, TaskPoll
  <2> QED BY <1>1, <2>2, <2>3, <2>4, <2>5 DEF Tasklet
<1>2. CASE Intvec
  <2>1. CASE IntvecRead
    <3>1. /\ flush' = flush
          /\ UNCHANGED queue \/ (ee = "EDL" /\ mhi_queue_state_transition("READY"))
      BY <2>1 DEF IntvecRead
    <3> QED BY <3>1 DEF NoEdl
  <2>2. CASE IntvecDecide
    BY Zenon, <2>2 DEF IntvecDecide, SysErrHandler
  <2> QED BY <1>2, <2>1, <2>2 DEF Intvec
<1>3. CASE Suspend
  BY Zenon, <1>3 DEF Suspend, SuspendSteps, SuspendCheck, SuspendGet, SuspendWait,
     SuspendPut, SuspendEnter, SuspendWait3, ResumeCheck, ResumeExit, ResumeWait0
<1>4. CASE Clients
  BY Zenon, <1>4 DEF Clients, mhi_device_get, mhi_device_put, DebugfsGet, DebugfsGetDone,
     DebugfsPut, XferQueue, XferDone
<1>5. CASE Device
  BY Zenon, <1>5 DEF Device, HwResetDone, HwReady, HwEnter, HwIdle, HwWake, HwMsi, HwBoot,
     HwSysErr, HwFrame
<1> QED BY <1>1, <1>2, <1>3, <1>4, <1>5

\* Without EDL they start nothing.
LEMMA OthersQueue ==
  ASSUME NoEdl, Tasklet \/ Intvec \/ Suspend \/ Clients \/ Device
  PROVE  /\ flush' = flush
         /\ UNCHANGED queue \/ \E x \in {"SYS_ERR", "SBL", "FP", "MISSION_MODE"} :
                                  mhi_queue_state_transition(x)
BY OthersQueueAny DEF Mild

\* The tasklet does not get past its entry check in DISABLE or in an error state.
LEMMA OthersTask ==
  ASSUME t \in {"idle", "enter"}, MHI_EVENT_ACCESS_INVALID(pm_state),
         Tasklet \/ Intvec \/ Suspend \/ Clients \/ Device
  PROVE  t' \in {"idle", "enter"}
<1>1. CASE Tasklet
  BY <1>1 DEF Tasklet, TaskStart, TaskEnter, TaskM0, TaskM0Rings, TaskM1,
     TaskM1Check, TaskM1Wake, TaskM3, TaskSysErr, TaskSysErrQueue, TaskLoopEnd, TaskPoll,
     TaskEe, Consume
<1>2. CASE Intvec \/ Suspend \/ Clients \/ Device
  <2>1. t' = t
    BY Zenon, <1>2 DEF Intvec, IntvecRead, IntvecDecide, Suspend, SuspendSteps, SuspendCheck,
       SuspendGet, SuspendWait, SuspendPut, SuspendEnter, SuspendWait3, ResumeCheck,
       ResumeExit, ResumeWait0, Clients, mhi_device_get, mhi_device_put, DebugfsGet,
       DebugfsGetDone, DebugfsPut, XferQueue, XferDone, Device, HwResetDone, HwReady,
       HwEnter, HwIdle, HwWake, HwMsi, HwBoot, HwSysErr, HwFrame
  <2> QED BY <2>1
<1> QED BY <1>1, <1>2

Queued   == Holds(transition_list, {"DISABLE"})
Taken    == Holds(head, {"DISABLE"})
Tearing  == w \in TeardownPc /\ w_to = "SHUTDOWN_PROCESS"
NoStarts == ~Holds(head, Starts) /\ ~Holds(transition_list, Starts)

\* flush_work() has not returned
Flushing == ctl # "down" /\ (ctl = "dn_wait" => flush \in {"pending", "running"})

\* The four places of the DISABLE item: queued, in the list the worker is handling,
\* being handled, and handled.
ItemQueued ==
  /\ Queued /\ ~Taken /\ ~Tearing /\ pm_state # "DISABLE"
  /\ work /\ Clean(transition_list)
  /\ ctl # "down" /\ (ctl = "dn_wait" => flush = "pending")
ItemTaken ==
  /\ ~Queued /\ Taken /\ ~Tearing /\ pm_state # "DISABLE"
  /\ w # "idle" /\ Clean(head) /\ ~Holds(transition_list, Starts) /\ Flushing
ItemHandled ==
  /\ ~Queued /\ ~Taken /\ Tearing /\ pm_state = "SHUTDOWN_PROCESS"
  /\ NoStarts /\ Flushing
ShutDown ==
  /\ ~Queued /\ ~Taken /\ pm_state = "DISABLE" /\ t \in {"idle", "enter"}
  /\ NoStarts /\ w \notin TeardownPc \cup ReadyPc \cup {"fw", "fw_load"}

\* pm_state has left DISABLE and nobody has asked for it yet
UpPc == {"up_check", "up_rst", "up_q", "sync", "on", "dn_ld", "dn_q"}

\* Why the tasklet is out of its ring when mhi_power_down() returns: flush_work() has
\* waited for the DISABLE item, the teardown has waited for the tasklet, and nothing
\* handled later takes the PM state out of DISABLE.
DownInv ==
  /\ w = "idle" => head = <<>>
  /\ session /\ w \in {"dis_destroy", "dis_rings", "dis_off"} => t \in {"idle", "enter"}
  /\ session /\ ctl \notin DownPc => ~Queued /\ ~Taken /\ ~Tearing
  /\ session /\ ctl \in UpPc => pm_state # "DISABLE"
  /\ session /\ ctl \in DownPc => ItemQueued \/ ItemTaken \/ ItemHandled \/ ShutDown

\* A step of the other threads keeps it.
LEMMA OthersDown ==
  ASSUME TypeOK, NoEdl \/ NothingBehind', TeardownInv, DownInv,
         Tasklet \/ Intvec \/ Suspend \/ Clients \/ Device
  PROVE  DownInv'
<1>1. UNCHANGED <<worker, ctl, session, flush>>
  BY OthersLeave, OthersQueueAny
<1>2. ASSUME NEW x \in {"SYS_ERR", "SBL", "FP", "MISSION_MODE", "READY"},
             mhi_queue_state_transition(x)
      PROVE  \A S : x \notin S => (Holds(transition_list', S) <=> Holds(transition_list, S))
  BY <1>2, HoldsAppend DEF mhi_queue_state_transition, TypeOK, StTransition
<1>3. Queued' <=> Queued
  <2>1. CASE UNCHANGED queue
    BY <2>1 DEF Queued
  <2> QED BY <1>2, <2>1, OthersQueueAny DEF Queued, Mild
<1>14. session /\ ctl \in DownPc => Mild
  <2> SUFFICES ASSUME session, ctl \in DownPc, mhi_queue_state_transition("READY"),
                      NothingBehind'
               PROVE  FALSE
    BY OthersQueueAny
  <2> DEFINE q == transition_list'
  <2>1. /\ q = Append(transition_list, "READY") /\ transition_list \in Seq(StTransition)
        /\ session' /\ ctl' \in DownPc
    BY <1>1 DEF mhi_queue_state_transition, TypeOK
  <2>2. Len(q) \in 1..Len(q) /\ q[Len(q)] = "READY" /\ Len(q) \in Nat
    BY <2>1
  <2>3. Holds(q, Revives)
    BY <2>2 DEF Holds, Revives, Starts
  <2>4. Holds(q, {"DISABLE"}) /\ NoneAfter(q)
    BY <2>1, <2>3 DEF NothingBehind
  <2>5. PICK i \in 1..Len(q) : q[i] = "DISABLE"
    BY <2>4 DEF Holds
  <2>6. i < Len(q)
    BY <2>2, <2>5
  <2> QED BY <2>2, <2>4, <2>5, <2>6 DEF NoneAfter, Revives, Starts
<1>15. Mild => (Holds(transition_list', Starts) <=> Holds(transition_list, Starts))
  <2>1. CASE UNCHANGED queue
    BY <2>1
  <2> QED BY <1>2, <2>1 DEF Mild, Starts
<1>4. Mild /\ Clean(transition_list) => Clean(transition_list')
  BY CleanAppend DEF mhi_queue_state_transition, TypeOK, StTransition, Starts, Mild
<1>5. work => work'
  BY OthersQueueAny DEF mhi_queue_state_transition, Mild
<1>6. pm_state \in TeardownStates => pm_state' = pm_state
  BY OthersTry, TableRefuses
<1>7. pm_state # "DISABLE" => pm_state' # "DISABLE"
  BY OthersTry, TableDecides DEF EventTargets
<1>8. /\ w' = "idle" => head' = <<>>
      /\ session' /\ ctl' \notin DownPc => ~Queued' /\ ~Taken' /\ ~Tearing'
      /\ session' /\ ctl' \in UpPc => pm_state' # "DISABLE"
  BY <1>1, <1>3, <1>7 DEF DownInv, Taken, Tearing
<1>9. ASSUME session', w' \in {"dis_destroy", "dis_rings", "dis_off"}
      PROVE  t' \in {"idle", "enter"}
  <2>1. t \in {"idle", "enter"} /\ MHI_EVENT_ACCESS_INVALID(pm_state)
    BY <1>1, <1>9 DEF DownInv, TeardownInv, TeardownExclusive, MutexInv, WorkerShape,
       MHI_EVENT_ACCESS_INVALID, MHI_PM_IN_ERROR_STATE
  <2> QED BY <2>1, OthersTask
<1>10. Mild /\ ItemQueued => ItemQueued'
  BY <1>1, <1>3, <1>4, <1>5, <1>7 DEF ItemQueued, Taken, Tearing
<1>11. Mild /\ ItemTaken => ItemTaken'
  BY <1>1, <1>3, <1>7, <1>15 DEF ItemTaken, Taken, Tearing, Flushing
<1>12. Mild /\ ItemHandled => ItemHandled'
  BY <1>1, <1>3, <1>6, <1>15 DEF ItemHandled, Taken, Tearing, Flushing, NoStarts, TeardownStates
<1>13. Mild /\ ShutDown => ShutDown'
  <2>1. ShutDown => t' \in {"idle", "enter"}
    BY OthersTask DEF ShutDown, MHI_EVENT_ACCESS_INVALID
  <2> QED BY <1>1, <1>3, <1>6, <1>15, <2>1 DEF ShutDown, Taken, NoStarts, TeardownStates
<1> QED BY <1>1, <1>8, <1>9, <1>10, <1>11, <1>12, <1>13, <1>14 DEF DownInv

\* What taking an item does to the list the worker is handling.
LEMMA TakesItem ==
  ASSUME TypeOK, NEW st \in StTransition, Item(st)
  PROVE  /\ Taken <=> st = "DISABLE" \/ Taken'
         /\ Holds(head, Starts) <=> st \in Starts \/ Holds(head', Starts)
         /\ Clean(head) => Clean(head')
         /\ Clean(head) /\ st = "DISABLE" => ~Holds(head', Starts) /\ ~Taken'
<1>1. head \in Seq(StTransition) /\ head # <<>> /\ st = Head(head) /\ head' = Tail(head)
  BY DEF TypeOK, Item
<1>2. \A S : Holds(head, S) <=> st \in S \/ Holds(head', S)
  BY <1>1, HoldsTail
<1>3. Clean(head) => Clean(head') /\ (st = "DISABLE" => ~Holds(head', Starts) /\ ~Taken')
  BY <1>1, CleanTail DEF Taken
<1> QED BY <1>2, <1>3 DEF Taken

\* An item that neither starts nor shuts down the controller, or starts it.
LEMMA OtherItemDown ==
  ASSUME TypeOK, TeardownInv, DownInv, NEW st \in StTransition, Item(st), st # "DISABLE",
         UNCHANGED <<transition_list, work, t, ctl, session, flush, pm_state>>,
         w' \notin TeardownPc \cup {"idle"},
         st \notin Starts => w' \notin ReadyPc \cup {"fw", "fw_load"}
  PROVE  DownInv'
<1>1. /\ Queued' <=> Queued
      /\ Taken' <=> Taken
      /\ Holds(transition_list', Starts) <=> Holds(transition_list, Starts)
      /\ ~Holds(head, Starts) => st \notin Starts /\ ~Holds(head', Starts)
      /\ Clean(head) => Clean(head')
      /\ Clean(transition_list) => Clean(transition_list')
      /\ w = "next" /\ ~Tearing /\ ~Tearing'
  BY TakesItem DEF Queued, Tearing, Item
<1>2. ItemQueued => ItemQueued'
  BY <1>1 DEF ItemQueued
<1>3. ItemTaken => ItemTaken'
  BY <1>1 DEF ItemTaken, Flushing
<1>4. ~ItemHandled
  BY <1>1 DEF ItemHandled
<1>5. ShutDown => ShutDown'
  BY <1>1 DEF ShutDown, NoStarts
<1> QED BY <1>1, <1>2, <1>3, <1>4, <1>5 DEF DownInv

\* A step inside a handler that leaves the lists and the DISABLE state alone.
LEMMA InsideDown ==
  ASSUME TypeOK, DownInv,
         UNCHANGED <<transition_list, work, head, t, ctl, session, flush>>,
         w \notin {"idle", "next"}, w' # "idle",
         Tearing <=> Tearing',
         Tearing => pm_state' = pm_state,
         pm_state # "DISABLE" => pm_state' # "DISABLE",
         w' \in {"dis_destroy", "dis_rings", "dis_off"} =>
            w \in {"dis_destroy", "dis_rings", "dis_off"} \/ t = "idle",
         ShutDown => /\ pm_state' = pm_state
                     /\ w' \notin TeardownPc \cup ReadyPc \cup {"fw", "fw_load"}
  PROVE  DownInv'
<1>1. /\ Queued' <=> Queued
      /\ Taken' <=> Taken
      /\ NoStarts' <=> NoStarts
      /\ Holds(transition_list', Starts) <=> Holds(transition_list, Starts)
      /\ Clean(head) <=> Clean(head')
      /\ Clean(transition_list) <=> Clean(transition_list')
      /\ Flushing' <=> Flushing
  BY DEF Queued, Taken, NoStarts, Flushing
<1>2. ItemQueued => ItemQueued'
  BY <1>1 DEF ItemQueued
<1>3. ItemTaken => ItemTaken'
  BY <1>1 DEF ItemTaken
<1>4. ItemHandled => ItemHandled'
  BY <1>1 DEF ItemHandled
<1>5. ShutDown => ShutDown'
  BY <1>1 DEF ShutDown
<1> QED BY <1>1, <1>2, <1>3, <1>4, <1>5 DEF DownInv

\* A step of the state worker keeps it.
LEMMA StWorkerDown ==
  ASSUME TypeOK, TeardownInv, DownInv, StWorker
  PROVE  DownInv'
<1> USE DEF StTransition
<1>1. CASE StWorkerStart
  <2>1. /\ w = "idle" /\ head = <<>> /\ work /\ w' = "next"
        /\ head' = transition_list /\ transition_list' = <<>>
        /\ flush' = IF flush = "pending" THEN "running" ELSE flush
        /\ UNCHANGED <<pm_state, t, ctl, session, w_to>>
    BY <1>1 DEF StWorkerStart, DownInv
  <2>2. /\ Taken' <=> Queued
        /\ ~Taken /\ ~Queued' /\ ~Tearing /\ ~Tearing'
        /\ Holds(head', Starts) <=> Holds(transition_list, Starts)
        /\ ~Holds(transition_list', Starts)
    BY <2>1, HoldsNothing DEF Taken, Queued, Tearing
  <2>3. ItemQueued => ItemTaken'
    BY <2>1, <2>2 DEF ItemQueued, ItemTaken, Flushing
  <2>4. ~ItemTaken /\ ~ItemHandled
    BY <2>2 DEF ItemTaken, ItemHandled
  <2>5. ShutDown => ShutDown'
    BY <2>1, <2>2 DEF ShutDown, NoStarts
  <2> QED BY <2>1, <2>2, <2>3, <2>4, <2>5 DEF DownInv
<1>2. CASE StWorkerEnd
  <2>1. /\ w = "next" /\ head = <<>> /\ w' = "idle" /\ head' = head
        /\ flush' = IF flush = "running" THEN "done" ELSE flush
        /\ UNCHANGED <<transition_list, work, pm_state, t, ctl, session, w_to>>
    BY <1>2 DEF StWorkerEnd
  <2>2. /\ Queued' <=> Queued
        /\ ~Taken /\ ~Taken' /\ ~Tearing /\ ~Tearing'
        /\ NoStarts' <=> NoStarts
        /\ Clean(transition_list) <=> Clean(transition_list')
    BY <2>1, HoldsNothing DEF Taken, Queued, Tearing, NoStarts
  <2>3. ItemQueued => ItemQueued'
    BY <2>1, <2>2 DEF ItemQueued
  <2>4. ~ItemTaken /\ ~ItemHandled
    BY <2>2 DEF ItemTaken, ItemHandled
  <2>5. ShutDown => ShutDown'
    BY <2>1, <2>2 DEF ShutDown
  <2> QED BY <2>1, <2>2, <2>3, <2>4, <2>5 DEF DownInv
<1>3. CASE HandlePbl
  BY <1>3, OtherItemDown DEF HandlePbl, RefreshEe, Starts
<1>4. CASE HandleReady
  BY <1>4, OtherItemDown DEF HandleReady, Starts
<1>5. CASE HandleMissionMode
  BY <1>5, OtherItemDown DEF HandleMissionMode, RefreshEe, Starts
<1>6. CASE HandleEeItem("SBL")
  BY <1>6, OtherItemDown DEF HandleEeItem, Starts
<1>7. CASE HandleEeItem("FP")
  BY <1>7, OtherItemDown DEF HandleEeItem, Starts
<1>20. CASE HandleDisable("SYS_ERR")
  <2>1. /\ Item("SYS_ERR") /\ w = "next"
        /\ pm_state' = mhi_tryset_pm_state(pm_state, "SYS_ERR_PROCESS")
        /\ w' \in {"next", "dis_reset", "dis_kill"}
        /\ w' # "next" => pm_state' = "SYS_ERR_PROCESS" /\ w_to' = "SYS_ERR_PROCESS"
        /\ UNCHANGED <<transition_list, work, t, ctl, session, flush>>
    BY <1>20 DEF HandleDisable, Item, Target
  <2>2. /\ Queued' <=> Queued
        /\ Taken' <=> Taken
        /\ Holds(transition_list', Starts) <=> Holds(transition_list, Starts)
        /\ ~Holds(head, Starts) => ~Holds(head', Starts)
        /\ Clean(head) => Clean(head')
        /\ Clean(transition_list) => Clean(transition_list')
        /\ ~Tearing /\ ~Tearing'
    BY <2>1, TakesItem DEF Queued, Tearing
  <2>3. /\ pm_state # "DISABLE" => pm_state' # "DISABLE"
        /\ pm_state = "DISABLE" => pm_state' = "DISABLE"
    BY <2>1 DEF mhi_tryset_pm_state, dev_state_transitions, PmState
  <2>4. ItemQueued => ItemQueued'
    BY <2>1, <2>2, <2>3 DEF ItemQueued
  <2>5. ItemTaken => ItemTaken'
    BY <2>1, <2>2, <2>3 DEF ItemTaken, Flushing
  <2>6. ~ItemHandled
    BY <2>2 DEF ItemHandled
  <2>7. ShutDown => ShutDown'
    BY <2>1, <2>2, <2>3 DEF ShutDown, NoStarts
  <2> QED BY <2>1, <2>2, <2>3, <2>4, <2>5, <2>6, <2>7 DEF DownInv
<1>21. CASE HandleDisable("DISABLE")
  <2>1. /\ Item("DISABLE") /\ w = "next"
        /\ pm_state' = mhi_tryset_pm_state(pm_state, "SHUTDOWN_PROCESS")
        /\ \/ pm_state' = "SHUTDOWN_PROCESS" /\ w_to' = "SHUTDOWN_PROCESS"
              /\ w' \in {"dis_reset", "dis_kill"}
           \/ pm_state' # "SHUTDOWN_PROCESS" /\ w' = "next" /\ UNCHANGED w_to
        /\ UNCHANGED <<transition_list, work, t, ctl, session, flush>>
    BY <1>21 DEF HandleDisable, Item, Target
  <2>2. /\ Taken
        /\ Queued' <=> Queued
        /\ Clean(head) => ~Holds(head', Starts) /\ ~Taken'
        /\ Holds(transition_list', Starts) <=> Holds(transition_list, Starts)
        /\ ~Tearing
    BY <2>1, TakesItem DEF Queued, Tearing
  <2>3. session => ctl \in DownPc /\ ItemTaken
    BY <2>2 DEF DownInv, ItemQueued, ItemHandled, ShutDown
  <2>4. pm_state # "DISABLE" => pm_state' = "SHUTDOWN_PROCESS"
    BY <2>1 DEF mhi_tryset_pm_state, dev_state_transitions, PmState, AnyError, TypeOK
  <2>5. ItemTaken => ItemHandled'
    BY <2>1, <2>2, <2>4 DEF ItemTaken, ItemHandled, Tearing, NoStarts, Flushing
  <2> QED BY <2>1, <2>2, <2>3, <2>5 DEF DownInv, UpPc, DownPc
<1>8. CASE FwLoad
  BY <1>8, InsideDown DEF FwLoad, Tearing, ShutDown
<1>9. CASE FwLoadSbl
  BY <1>9, InsideDown DEF FwLoadSbl, Tearing, ShutDown
<1>10. CASE FwLoadFail
  BY <1>10, InsideDown DEF FwLoadFail, Tearing, ShutDown
<1>11. CASE ReadyWait
  BY <1>11, InsideDown DEF ReadyWait, ReadyReturn, Tearing, ShutDown
<1>12. CASE ReadySet
  BY <1>12, InsideDown, TableDecides DEF ReadySet, ReadyReturn, Tearing, ShutDown
<1>13. CASE ReadyMmio
  BY <1>13, InsideDown DEF ReadyMmio, ReadyReturn, Tearing, ShutDown
<1>14. CASE MissionGet
  BY <1>14, InsideDown DEF MissionGet, Tearing, ShutDown
<1>15. CASE MissionWait
  BY <1>15, InsideDown DEF MissionWait, Tearing, ShutDown
<1>16. CASE MissionRun
  BY <1>16, InsideDown DEF MissionRun, MissionPut, Tearing, ShutDown
<1>17. CASE CreateDevices
  BY <1>17, InsideDown DEF CreateDevices, AfterCreate, Tearing, ShutDown
<1>18. CASE ProbeDone
  BY <1>18, InsideDown DEF ProbeDone, AfterCreate, Tearing, ShutDown
<1>19. CASE MissionEnd
  BY <1>19, InsideDown DEF MissionEnd, MissionPut, Tearing, ShutDown
<1>22. CASE DisableReset
  BY <1>22, InsideDown DEF DisableReset, Tearing, ShutDown
<1>23. CASE DisableWait
  BY <1>23, InsideDown DEF DisableWait, Tearing, ShutDown
<1>24. CASE DisableKill
  BY <1>24, InsideDown DEF DisableKill, tasklet_kill, Tearing, ShutDown
<1>25. CASE DisableDestroy
  BY <1>25, InsideDown DEF DisableDestroy, Tearing, ShutDown
<1>26. CASE DisableRings
  BY <1>26, InsideDown DEF DisableRings, Tearing, ShutDown, TeardownInv, MutexInv, WorkerShape
<1>27. CASE DisableOff
  <2>1. /\ w = "dis_off" /\ w' = "next" /\ w_to' = "none"
        /\ pm_state' = mhi_tryset_pm_state(pm_state, "DISABLE")
        /\ UNCHANGED <<transition_list, work, head, t, ctl, session, flush>>
    BY <1>27 DEF DisableOff
  <2>2. Tearing /\ ~Tearing' /\ (session => ctl \in DownPc /\ ItemHandled)
    BY <2>1 DEF Tearing, TeardownInv, MutexInv, WorkerShape, DownInv, ItemQueued, ItemTaken,
       ShutDown
  <2>3. session => ShutDown'
    BY <2>1, <2>2 DEF DownInv, ItemHandled, ShutDown, NoStarts, Queued, Taken,
       mhi_tryset_pm_state, dev_state_transitions, PmState
  <2> QED BY <2>1, <2>2, <2>3 DEF DownInv, UpPc, DownPc
<1> QED BY <1>1, <1>2, <1>3, <1>4, <1>5, <1>6, <1>7, <1>8, <1>9, <1>10, <1>11, <1>12,
   <1>13, <1>14, <1>15, <1>16, <1>17, <1>18, <1>19, <1>20, <1>21, <1>22, <1>23, <1>24,
   <1>25, <1>26, <1>27 DEF StWorker

\* A step of the controller driver keeps it.
LEMMA ControllerDown ==
  ASSUME TypeOK, TeardownInv, DownInv, Controller
  PROVE  DownInv'
<1> USE DEF StTransition, DownPc, UpPc
<1>1. CASE Prepare
  <2>1. UNCHANGED <<pm_state, transition_list, work, w, head, w_to, t, session, flush>>
    BY Zenon, <1>1 DEF Prepare
  <2>2. ctl \in {"none"} /\ ctl' \in {"none", "prepared"}
    BY <1>1 DEF Prepare
  <2> QED BY <2>1, <2>2 DEF DownInv, Queued, Taken, Tearing
<1>2. CASE PowerUp
  <2>1. /\ ctl' = "up_irq" /\ w' = w /\ head' = head /\ w_to' = w_to
        /\ transition_list' = transition_list /\ t' = t
        /\ session' => w = "idle" /\ head = <<>> /\ transition_list = <<>>
    BY <1>2 DEF PowerUp, Quiet
  <2> QED BY <2>1, HoldsNothing DEF DownInv, Queued, Taken, Tearing
<1>3. CASE UpIrq
  BY <1>3 DEF UpIrq, DownInv, Queued, Taken, Tearing
<1>4. CASE UpPor
  BY <1>4 DEF UpPor, DownInv, Queued, Taken, Tearing
<1>5. CASE UpCheck
  BY <1>5 DEF UpCheck, DownInv, Queued, Taken, Tearing
<1>6. CASE UpReset
  BY <1>6 DEF UpReset, DownInv, Queued, Taken, Tearing
<1>7. CASE UpQueue
  <2>1. /\ ctl = "up_q" /\ ctl' \in {"sync", "on"} /\ NextTransition(cur_ee) \in Starts
        /\ transition_list' = Append(transition_list, NextTransition(cur_ee))
        /\ UNCHANGED <<pm_state, w, head, w_to, t, session>>
    BY <1>7 DEF UpQueue, mhi_queue_state_transition, NextTransition, Starts
  <2>2. Queued' <=> Queued
    BY <2>1, HoldsAppend DEF Queued, Starts, TypeOK
  <2> QED BY <2>1, <2>2 DEF DownInv, Taken, Tearing
<1>8. CASE UpErr
  BY <1>8 DEF UpErr, FreeIrqs, DownInv, Queued, Taken, Tearing
<1>9. CASE SyncUp
  <2>1. /\ ctl = "sync" /\ ctl' \in {"on", "dn_ld"}
        /\ UNCHANGED <<pm_state, w, head, w_to, t, session>>
        /\ \/ transition_list' = transition_list
           \/ transition_list' = Append(transition_list, "READY")
    BY <1>9 DEF SyncUp, mhi_queue_state_transition
  <2>2. Holds(Append(transition_list, "READY"), {"DISABLE"})
          <=> Holds(transition_list, {"DISABLE"})
    BY HoldsAppend DEF TypeOK
  <2>3. Queued' <=> Queued
    BY <2>1, <2>2 DEF Queued
  <2> QED BY <2>1, <2>3 DEF DownInv, Taken, Tearing
<1>10. ASSUME NEW graceful \in Graceful, PowerDown(graceful) PROVE DownInv'
  BY <1>10 DEF PowerDown, DownInv, Queued, Taken, Tearing
<1>11. CASE DownLinkError
  <2>1. pm_state # "DISABLE" => pm_state' # "DISABLE"
    BY <1>11, TableDecides DEF DownLinkError
  <2> QED BY <1>11, <2>1 DEF DownLinkError, DownInv, Queued, Taken, Tearing
<1>12. CASE DownQueue
  <2>1. /\ ctl = "dn_q" /\ ctl' = "dn_flush" /\ work'
        /\ transition_list' = Append(transition_list, "DISABLE")
        /\ UNCHANGED <<pm_state, w, head, w_to, t, session>>
    BY <1>12 DEF DownQueue, mhi_queue_state_transition
  <2>2. Queued'
    BY <2>1, HoldsAppend DEF Queued, TypeOK
  <2>3. session => Clean(transition_list')
    BY <2>1, CleanAppend, CleanWithout DEF DownInv, Queued, TypeOK
  <2>4. session => ItemQueued'
    BY <2>1, <2>2, <2>3 DEF DownInv, ItemQueued, Taken, Tearing
  <2> QED BY <2>1, <2>4 DEF DownInv
<1>13. CASE DownFlush
  <2>1. /\ ctl = "dn_flush" /\ ctl' = "dn_wait" /\ flush' = flush_work
        /\ UNCHANGED <<pm_state, transition_list, work, w, head, w_to, t, session>>
    BY <1>13 DEF DownFlush
  <2>2. /\ Queued' <=> Queued
        /\ Taken' <=> Taken
        /\ Tearing' <=> Tearing
        /\ NoStarts' <=> NoStarts
        /\ Holds(transition_list', Starts) <=> Holds(transition_list, Starts)
        /\ Clean(head) <=> Clean(head')
        /\ Clean(transition_list) <=> Clean(transition_list')
    BY <2>1 DEF Queued, Taken, Tearing, NoStarts
  <2>3. ItemQueued => ItemQueued'
    BY <2>1, <2>2 DEF ItemQueued, flush_work
  <2>4. ItemTaken => ItemTaken'
    BY <2>1, <2>2 DEF ItemTaken, Flushing, flush_work
  <2>5. ItemHandled => ItemHandled'
    BY <2>1, <2>2 DEF ItemHandled, Flushing, flush_work, Tearing
  <2>6. ShutDown => ShutDown'
    BY <2>1, <2>2 DEF ShutDown
  <2> QED BY <2>1, <2>2, <2>3, <2>4, <2>5, <2>6 DEF DownInv
<1>14. CASE DownFree
  <2>1. /\ ctl = "dn_wait" /\ flush = "done" /\ ctl' = "down"
        /\ UNCHANGED <<pm_state, transition_list, work, w, head, w_to, t, session>>
    BY <1>14 DEF DownFree
  <2>2. session => ShutDown
    BY <2>1 DEF DownInv, ItemQueued, ItemTaken, ItemHandled, Flushing
  <2>3. ShutDown => ShutDown'
    BY <2>1 DEF ShutDown, Queued, Taken, NoStarts
  <2> QED BY <2>1, <2>2, <2>3 DEF DownInv
<1>15. CASE Unprepare
  BY <1>15 DEF Unprepare, DownInv
<1> QED BY <1>1, <1>2, <1>3, <1>4, <1>5, <1>6, <1>7, <1>8, <1>9, <1>10, <1>11, <1>12,
   <1>13, <1>14, <1>15 DEF Controller, PowerUpSteps, PowerDownSteps

\* Every step keeps it.
LEMMA DownStep ==
  ASSUME TypeOK, NoEdl \/ NothingBehind', TeardownInv, DownInv, [Next]_vars
  PROVE  DownInv'
<1>1. CASE UNCHANGED vars
  BY <1>1 DEF vars, DownInv, ItemQueued, ItemTaken, ItemHandled, ShutDown, Queued, Taken,
     Tearing, NoStarts, Flushing
<1> QED BY <1>1, StWorkerDown, ControllerDown, OthersDown DEF Next

\* The initial state satisfies it.
LEMMA DownStart == Init => TeardownInv /\ DownInv
BY DEF Init, TeardownInv, MutexInv, WorkerShape, PmMutexExclusion, WorkerLocked,
       StartQuiet, TeardownExclusive, DownInv

\* A tasklet that is late stays at its entry check.
TaskletOut == session /\ ctl = "down" => t \in {"idle", "enter"}

\* When mhi_power_down() has returned, and until the context is freed, no tasklet gets past
\* its entry check into the control ring, forced or graceful, on any device, after any
\* number of power-ups, suspends and recoveries, unless an item that undoes the shutdown is
\* queued behind it.  mhi_process_ctrl_ev_ring() loads mhi_ctxt in front of that check.
THEOREM TaskletStaysOut == Spec /\ []NothingBehind => []TaskletOut
<1> DEFINE I == TeardownInv /\ DownInv
<1>1. Init => I
  BY DownStart
<1>2. TypeOK /\ I /\ NothingBehind' /\ [Next]_vars => I'
  BY TeardownStep, DownStep
<1>3. I => TaskletOut
  BY DEF DownInv, DownPc, ItemQueued, ItemTaken, ItemHandled, ShutDown, Flushing, TaskletOut
<1> QED BY <1>1, <1>2, <1>3, TypeCorrect, PTL DEF Spec

-----------------------------------------------------------------------------
(* The MHI devices are gone for good.  A device is created for an SBL or FP   *)
(* item in any PM state, so what is queued behind DISABLE matters.            *)

\* Once the DISABLE item is handled no device is left, and the worker creates none: what
\* it still finds in its list is a mission-mode item, which needs M0, or one for an
\* environment without channels.
FinalInv ==
  /\ session /\ ctl \in DownPc /\ Tearing /\ w \in {"dis_rings", "dis_off"} => devices = {}
  /\ session /\ ctl \in DownPc /\ ShutDown =>
        /\ devices = {}
        /\ w \in {"idle", "next", "create", "mm_get", "mm_wait", "mm_put"}
        /\ w = "create" => ee \notin ChanEE

\* In DISABLE the other threads leave the environment alone.
LEMMA OthersFinal ==
  ASSUME TypeOK, TeardownInv, DownInv, FinalInv,
         Tasklet \/ Intvec \/ Suspend \/ Clients \/ Device
  PROVE  FinalInv'
<1>1. UNCHANGED <<worker, ctl, session, devices>>
  BY OthersLeave
<1>2. session /\ ctl \in DownPc /\ ShutDown' => ShutDown
  <2>1. pm_state # "DISABLE" => pm_state' # "DISABLE"
    BY OthersTry, TableDecides DEF EventTargets
  <2> QED BY <2>1 DEF DownInv, ItemQueued, ItemTaken, ItemHandled, ShutDown
<1>3. ShutDown => ee' = ee
  <2>1. CASE Tasklet
    BY <2>1 DEF ShutDown, Tasklet, TaskStart, TaskEnter, TaskM0, TaskM0Rings, TaskM1,
       TaskM1Check, TaskM1Wake, TaskM3, TaskSysErr, TaskSysErrQueue, TaskLoopEnd, TaskPoll,
       TaskEe, Consume
  <2>2. CASE Intvec
    BY <2>2 DEF ShutDown, Intvec, IntvecRead, IntvecDecide, MHI_REG_ACCESS_VALID
  <2>3. CASE Suspend \/ Clients \/ Device
    BY Zenon, <2>3 DEF Suspend, SuspendSteps, SuspendCheck,
       SuspendGet, SuspendWait, SuspendPut, SuspendEnter, SuspendWait3, ResumeCheck,
       ResumeExit, ResumeWait0, Clients, mhi_device_get, mhi_device_put, DebugfsGet,
       DebugfsGetDone, DebugfsPut, XferQueue, XferDone, Device, HwResetDone, HwReady,
       HwEnter, HwIdle, HwWake, HwMsi, HwBoot, HwSysErr, HwFrame
  <2> QED BY <2>1, <2>2, <2>3
<1> QED BY <1>1, <1>2, <1>3 DEF FinalInv, Tearing

\* A step of the state worker keeps the devices gone.
LEMMA StWorkerFinal ==
  ASSUME TypeOK, NothingBehind, TeardownInv, DownInv, FinalInv, StWorker
  PROVE  FinalInv'
<1>1. UNCHANGED <<ctl, session>>
  BY Zenon DEF StWorker, StWorkerStart, StWorkerEnd, HandlePbl, HandleReady,
     HandleMissionMode, HandleEeItem, FwLoad, FwLoadSbl, FwLoadFail, ReadyWait, ReadySet,
     ReadyMmio, MissionGet, MissionWait, MissionRun, CreateDevices, ProbeDone, MissionEnd,
     HandleDisable, DisableReset, DisableWait, DisableKill, DisableDestroy, DisableRings,
     DisableOff
<1> SUFFICES ASSUME session, ctl \in DownPc
             PROVE  /\ Tearing' /\ w' \in {"dis_rings", "dis_off"} => devices' = {}
                    /\ ShutDown' => /\ devices' = {}
                                    /\ w' \in {"idle", "next", "create", "mm_get", "mm_wait",
                                               "mm_put"}
                                    /\ w' = "create" => ee' \notin ChanEE
  BY <1>1 DEF FinalInv
<1>2. CASE DisableDestroy
  BY <1>2 DEF DisableDestroy, ShutDown
<1>3. CASE DisableRings
  <2>1. w = "dis_rings" /\ UNCHANGED <<devices, w_to>> /\ w' \in {"ready", "dis_off"}
    BY <1>3 DEF DisableRings
  <2> QED BY <2>1 DEF FinalInv, Tearing, ShutDown
<1>4. CASE DisableOff
  <2>1. w = "dis_off" /\ devices' = devices /\ w' = "next"
    BY <1>4 DEF DisableOff
  <2>2. Tearing
    BY <2>1 DEF TeardownInv, MutexInv, WorkerShape, Tearing
  <2> QED BY <2>1, <2>2 DEF FinalInv
<1>5. CASE w \notin {"dis_destroy", "dis_rings", "dis_off"}
  <2>1. w' \notin {"dis_rings", "dis_off"} /\ (pm_state # "DISABLE" => pm_state' # "DISABLE")
    BY <1>5, TableDecides DEF StWorker, StWorkerStart, StWorkerEnd, HandlePbl, HandleReady,
     HandleMissionMode, HandleEeItem, FwLoad, FwLoadSbl, FwLoadFail, ReadyWait, ReadySet,
     ReadyMmio, MissionGet, MissionWait, MissionRun, CreateDevices, ProbeDone, MissionEnd,
     HandleDisable, DisableReset, DisableWait, DisableKill, DisableDestroy, DisableRings,
     DisableOff, ReadyReturn, MissionPut, AfterCreate, RefreshEe, Item, Target
  <2>2. ShutDown' => ShutDown
    BY <2>1 DEF DownInv, ItemQueued, ItemTaken, ItemHandled, ShutDown
  <2> SUFFICES ASSUME ShutDown
               PROVE  /\ devices' = {}
                      /\ w' \in {"idle", "next", "create", "mm_get", "mm_wait", "mm_put"}
                      /\ w' = "create" => ee' \notin ChanEE
    BY <2>1, <2>2
  <2>3. /\ devices = {} /\ w \in {"idle", "next", "create", "mm_get", "mm_wait", "mm_put"}
        /\ w = "create" => ee \notin ChanEE
    BY DEF FinalInv
  <2>4. pm_state = "DISABLE"
    BY DEF ShutDown
  <2>5. \A st : Item(st) => st \notin {"DISABLE"} \cup Revives
    <3> SUFFICES ASSUME NEW st, Item(st)
                 PROVE  st \notin {"DISABLE"} \cup Revives
      OBVIOUS
    <3>1. head \in Seq(StTransition) /\ head # <<>> /\ st = Head(head)
      BY DEF Item, TypeOK
    <3>2. \A S : ~Holds(head, S) => st \notin S
      BY <3>1, HoldsTail
    <3> QED BY <3>2 DEF ShutDown, Queued, Taken, NothingBehind
  <2>6. CASE StWorkerStart \/ StWorkerEnd
    BY <2>3, <2>6 DEF StWorkerStart, StWorkerEnd
  <2>7. CASE HandlePbl \/ HandleReady \/ HandleDisable("DISABLE")
    BY <2>5, <2>7 DEF HandlePbl, HandleReady, HandleDisable, Revives, Starts
  <2>8. CASE HandleMissionMode
    BY <2>3, <2>8 DEF HandleMissionMode
  <2>9. CASE HandleEeItem("SBL") \/ HandleEeItem("FP")
    BY <2>3, <2>5, <2>9 DEF HandleEeItem, Revives
  <2>10. CASE HandleDisable("SYS_ERR")
    BY <2>3, <2>4, <2>10 DEF HandleDisable, Target, mhi_tryset_pm_state,
       dev_state_transitions, PmState
  <2>11. CASE MissionGet
    BY <2>3, <2>11 DEF MissionGet
  <2>12. CASE MissionWait
    BY <2>3, <2>4, <2>12 DEF MissionWait
  <2>13. CASE CreateDevices
    <3>1. devices' = devices
      BY <2>3, <2>13 DEF CreateDevices
    <3> QED BY <2>3, <2>13, <3>1 DEF CreateDevices, AfterCreate
  <2>14. CASE MissionEnd
    BY <2>3, <2>14 DEF MissionEnd, MissionPut
  <2>15. CASE \/ FwLoad \/ FwLoadSbl \/ FwLoadFail \/ ReadyWait \/ ReadySet \/ ReadyMmio
              \/ MissionRun \/ ProbeDone \/ DisableReset \/ DisableWait \/ DisableKill
              \/ DisableDestroy \/ DisableRings \/ DisableOff
    BY <2>3, <2>15 DEF FwLoad, FwLoadSbl, FwLoadFail, ReadyWait, ReadySet, ReadyMmio,
       MissionRun, ProbeDone, DisableReset, DisableWait, DisableKill, DisableDestroy,
       DisableRings, DisableOff
  <2> QED BY <2>6, <2>7, <2>8, <2>9, <2>10, <2>11, <2>12, <2>13, <2>14, <2>15 DEF StWorker
<1>6. w \in {"dis_destroy", "dis_rings", "dis_off"} =>
        DisableDestroy \/ DisableRings \/ DisableOff
  BY DEF StWorker, StWorkerStart, StWorkerEnd, HandlePbl, HandleReady,
     HandleMissionMode, HandleEeItem, FwLoad, FwLoadSbl, FwLoadFail, ReadyWait, ReadySet,
     ReadyMmio, MissionGet, MissionWait, MissionRun, CreateDevices, ProbeDone, MissionEnd,
     HandleDisable, DisableReset, DisableWait, DisableKill, Item
<1> QED BY <1>2, <1>3, <1>4, <1>5, <1>6

\* A step of the controller driver keeps the devices gone.
LEMMA ControllerFinal ==
  ASSUME TypeOK, TeardownInv, DownInv, FinalInv, Controller
  PROVE  FinalInv'
<1>1. CASE ctl' \notin DownPc \/ ~session'
  BY <1>1 DEF FinalInv
<1>2. CASE DownFlush \/ DownFree
  <2>1. /\ UNCHANGED <<pm_state, ee, transition_list, head, w, w_to, devices, session, t>>
        /\ ctl \in DownPc
    BY <1>2 DEF DownFlush, DownFree, DownPc
  <2> QED BY <2>1 DEF FinalInv, Tearing, ShutDown, Queued, Taken, NoStarts
<1>3. CASE DownQueue
  <2>1. UNCHANGED <<pm_state, w, w_to, session>> /\ ctl = "dn_q"
    BY <1>3 DEF DownQueue
  <2>2. session => ~Tearing' /\ ~ShutDown'
    BY <2>1 DEF DownInv, DownPc, UpPc, Tearing, ShutDown
  <2> QED BY <2>1, <2>2 DEF FinalInv
<1>4. DownFlush \/ DownFree \/ DownQueue \/ ctl' \notin DownPc \/ ~session'
  BY DEF DownPc, Controller, PowerUpSteps, PowerDownSteps, Prepare, PowerUp, UpIrq, UpPor,
     UpCheck, UpReset, UpQueue, UpErr, SyncUp, PowerDown, DownLinkError, Unprepare
<1> QED BY <1>1, <1>2, <1>3, <1>4

\* mhi_power_down() is final, forced or graceful, on any device and whatever channels it has,
\* after any number of power-ups, suspends, votes and recoveries, unless a PBL or READY item,
\* or an SBL or FP item of an environment with channels, is queued behind the DISABLE item:
\* these are the only ways to undo it.
THEOREM PowerDownIsFinal == Spec /\ []NothingBehind => []PowerDownFinal
<1> DEFINE I == TeardownInv /\ DownInv /\ FinalInv
<1>1. Init => I
  BY DownStart DEF Init, FinalInv
<1>2. TypeOK /\ I /\ NothingBehind /\ NothingBehind' /\ [Next]_vars => I'
  <2> SUFFICES ASSUME TypeOK, I, NothingBehind, NothingBehind', [Next]_vars PROVE FinalInv'
    BY TeardownStep, DownStep
  <2>1. CASE UNCHANGED vars
    BY <2>1 DEF vars, FinalInv, Tearing, ShutDown, Queued, Taken, NoStarts
  <2> QED BY <2>1, OthersFinal, StWorkerFinal, ControllerFinal DEF Next
<1>3. I => PowerDownFinal
  BY DEF DownInv, DownPc, ItemQueued, ItemTaken, ItemHandled, ShutDown, Flushing, FinalInv,
         PowerDownFinal
<1> QED BY <1>1, <1>2, <1>3, TypeCorrect, PTL DEF Spec

-----------------------------------------------------------------------------
(* Error states.                                                            *)

\* dev_state_transitions: no event, interrupt, suspend or resume leads out of an error.
LEMMA ErrorsRefuse ==
  \A cur \in PmState, st \in EventTargets :
     MHI_PM_IN_ERROR_STATE(cur) => MHI_PM_IN_ERROR_STATE(mhi_tryset_pm_state(cur, st))
BY DEF mhi_tryset_pm_state, dev_state_transitions, EventTargets, PmState, AnyError,
       MHI_PM_IN_ERROR_STATE

\* An error state is left only at two places.
ErrorLeft ==
  session /\ MHI_PM_IN_ERROR_STATE(pm_state) /\ ~MHI_PM_IN_ERROR_STATE(pm_state')
     => w \in {"ready_set", "dis_off"}

\* Every step of a session leaves an error state only there.
LEMMA ErrorStep ==
  ASSUME TypeOK, TeardownInv, SessionPc, [Next]_vars
  PROVE  ErrorLeft
<1> SUFFICES ASSUME session, MHI_PM_IN_ERROR_STATE(pm_state),
                    w \notin {"ready_set", "dis_off"}
             PROVE  MHI_PM_IN_ERROR_STATE(pm_state')
  BY DEF ErrorLeft
<1>1. CASE StWorker
  <2>1. pm_state' \in {pm_state, "SYS_ERR_PROCESS", "SHUTDOWN_PROCESS"}
    BY <1>1, TableDecides DEF StWorker, StWorkerStart, StWorkerEnd, HandlePbl, HandleReady,
       HandleMissionMode, HandleEeItem, FwLoad, FwLoadSbl, FwLoadFail, ReadyWait, ReadySet,
       ReadyMmio, MissionGet, MissionWait, MissionRun, CreateDevices, ProbeDone, MissionEnd,
       HandleDisable, DisableReset, DisableWait, DisableKill, DisableDestroy, DisableRings,
       DisableOff, RefreshEe, Target
  <2> QED BY <2>1 DEF MHI_PM_IN_ERROR_STATE
<1>2. CASE Controller
  <2>1. ~PowerUp
    BY DEF PowerUp, SessionPc
  <2>2. ~UpPor
    BY DEF UpPor, TeardownInv, StartQuiet, MHI_PM_IN_ERROR_STATE
  <2>3. pm_state' \in {pm_state, "LD_ERR_FATAL_DETECT"}
    BY <1>2, <2>1, <2>2, TableDecides DEF Controller, PowerUpSteps, PowerDownSteps, Prepare,
       UpIrq, UpCheck, UpReset, UpQueue, UpErr, SyncUp, PowerDown, DownLinkError, DownQueue,
       DownFlush, DownFree, Unprepare
  <2> QED BY <2>3 DEF MHI_PM_IN_ERROR_STATE
<1>3. CASE Tasklet \/ Intvec \/ Suspend \/ Clients \/ Device
  BY <1>3, OthersTry, ErrorsRefuse DEF TypeOK
<1>4. CASE UNCHANGED vars
  BY <1>4 DEF vars
<1> QED BY <1>1, <1>2, <1>3, <1>4 DEF Next

\* The state worker is the only one to leave an error state, at the end of a recovery or
\* of a shutdown, whatever the device, the suspends and the power-downs.
THEOREM ErrorsLeftByWorker == Spec => [][ErrorLeft]_vars
<1> DEFINE I == TeardownInv /\ VoteInv
<1>1. Init => I
  BY DEF Init, TeardownInv, MutexInv, WorkerShape, PmMutexExclusion, WorkerLocked,
         StartQuiet, TeardownExclusive, VoteInv, SessionPc, VoteBalance, WorkerVotes,
         SuspendVotes
<1>2. TypeOK /\ I /\ [Next]_vars => I'
  BY TeardownStep, VoteStep DEF TeardownInv
<1>3. TypeOK /\ I /\ [Next]_vars => [ErrorLeft]_vars
  BY ErrorStep DEF VoteInv
<1> QED BY <1>1, <1>2, <1>3, TypeCorrect, PTL DEF Spec

-----------------------------------------------------------------------------
(* The start of a session.  A controller is started by one item, queued by   *)
(* mhi_async_power_up() while the device is in reset, or has been told to.     *)

OnlyErrors(q) == ~Holds(q, StTransition \ {"SYS_ERR"})

\* before an item that starts the controller only errors are handled
StartsFirst(q) == \A i, j \in 1..Len(q) : i < j /\ q[j] \in Starts => q[i] = "SYS_ERR"

\* A start may be queued behind errors only, other items behind anything.
LEMMA FirstAppend ==
  ASSUME NEW q \in Seq(StTransition), NEW x \in StTransition, StartsFirst(q),
         x \notin Starts \/ OnlyErrors(q)
  PROVE  StartsFirst(Append(q, x))
<1>1. Len(Append(q, x)) = Len(q) + 1 /\ Len(q) \in Nat
  OBVIOUS
<1>2. \A i \in 1..Len(q) : Append(q, x)[i] = q[i] /\ q[i] \in StTransition
  OBVIOUS
<1>3. Append(q, x)[Len(q) + 1] = x
  OBVIOUS
<1> SUFFICES ASSUME NEW i \in 1..Len(Append(q, x)), NEW j \in 1..Len(Append(q, x)),
                    i < j, Append(q, x)[j] \in Starts
             PROVE  Append(q, x)[i] = "SYS_ERR"
  BY DEF StartsFirst
<1>4. i \in 1..Len(q)
  BY <1>1
<1>5. CASE j \in 1..Len(q)
  BY <1>2, <1>4, <1>5 DEF StartsFirst
<1>6. CASE j = Len(q) + 1
  BY <1>2, <1>3, <1>4, <1>6 DEF OnlyErrors, Holds
<1> QED BY <1>1, <1>5, <1>6

\* With a start left in the list, the item taken is an error.
LEMMA FirstTail ==
  ASSUME NEW q \in Seq(StTransition), q # <<>>, StartsFirst(q)
  PROVE  StartsFirst(Tail(q)) /\ (Holds(Tail(q), Starts) => Head(q) = "SYS_ERR")
<1>1. Len(Tail(q)) = Len(q) - 1 /\ Len(q) \in Nat /\ Len(q) > 0 /\ Head(q) = q[1]
  OBVIOUS
<1>2. \A i \in 1..Len(q) - 1 : Tail(q)[i] = q[i + 1]
  OBVIOUS
<1>3. \A i \in 1..Len(Tail(q)) : i + 1 \in 1..Len(q) /\ 1 \in 1..Len(q) /\ 1 < i + 1
                                 /\ Tail(q)[i] = q[i + 1]
  BY <1>1, <1>2
<1>4. StartsFirst(Tail(q))
  <2> SUFFICES ASSUME NEW i \in 1..Len(Tail(q)), NEW j \in 1..Len(Tail(q)),
                      i < j, Tail(q)[j] \in Starts
               PROVE  Tail(q)[i] = "SYS_ERR"
    BY DEF StartsFirst
  <2>1. i + 1 < j + 1
    OBVIOUS
  <2> QED BY <1>3, <2>1 DEF StartsFirst
<1>5. Holds(Tail(q), Starts) => Head(q) = "SYS_ERR"
  BY <1>1, <1>3 DEF StartsFirst, Holds
<1> QED BY <1>4, <1>5

\* A list without a start is in order.
LEMMA FirstWithout == ASSUME NEW q, ~Holds(q, Starts) PROVE StartsFirst(q)
BY DEF StartsFirst, Holds

\* A list of errors only has no start.
LEMMA ErrorsNoStart == ASSUME NEW q, OnlyErrors(q) PROVE ~Holds(q, Starts)
BY DEF OnlyErrors, Holds, Starts, StTransition

QuietEvents == {State("SYS_ERR"), State("M1")}
ColdStates  == {"DISABLE", "POR", "SYS_ERR_DETECT"}
OffStates   == ColdStates \cup TeardownStates

\* A device that was not started, or was told to reset, enters no state the host asks for.
HwOff == hw_reset \/ (hw_state \in {"RESET", "READY", "SYS_ERR"} /\ hw_req = "none")

\* No event is left that would start anything: M1 is not answered before M0.
Silent == ~Holds(evq, Event \ QuietEvents)

\* The controller has not been started in this session: nothing but errors to handle.
Cold ==
  /\ HwOff /\ Silent
  /\ OnlyErrors(transition_list) /\ OnlyErrors(head)
  /\ w \in {"idle", "next"} /\ devices = {} /\ pm_state \in ColdStates

\* dev_state_transitions: neither an M1 event nor a suspend or resume moves a controller that
\* is off.
LEMMA OffRefuses ==
  /\ \A cur \in OffStates :
        /\ mhi_tryset_pm_state(cur, "M2") = cur
        /\ mhi_tryset_pm_state(cur, "M3_ENTER") = cur
        /\ mhi_tryset_pm_state(cur, "M3_EXIT") = cur
  /\ \A cur \in ColdStates : mhi_tryset_pm_state(cur, "SYS_ERR_DETECT") \in ColdStates
BY DEF mhi_tryset_pm_state, dev_state_transitions, ColdStates, OffStates, TeardownStates,
       PmState, AnyError

\* An error item leaves a list of errors one.
LEMMA ErrorsQueue ==
  ASSUME TypeOK, OnlyErrors(transition_list), mhi_queue_state_transition("SYS_ERR")
  PROVE  OnlyErrors(transition_list')
BY HoldsAppend DEF mhi_queue_state_transition, OnlyErrors, TypeOK, StTransition

\* The device does not start by itself.
LEMMA DeviceOff ==
  ASSUME TypeOK, HwOff, Device
  PROVE  HwOff' /\ (Silent => Silent')
<1>1. ASSUME NEW x \in {"SYS_ERR", "M1"}, Emit(State(x)) PROVE Silent => Silent'
  <2>1. State(x) \in Event /\ State(x) \notin Event \ QuietEvents
    BY DEF State, Event, QuietEvents
  <2> QED BY <1>1, <2>1, HoldsAppend DEF Emit, Silent, TypeOK
<1>2. CASE HwResetDone \/ HwReady \/ HwMsi
  BY <1>2 DEF HwResetDone, HwReady, HwMsi, NoEvent, HwOff, Silent
<1>3. CASE HwIdle
  BY <1>1, <1>3 DEF HwIdle, HwOff
<1>4. ~HwEnter /\ ~HwWake
  BY DEF HwEnter, HwWake, HwOff
<1>5. ASSUME NEW e \in HwEE, HwBoot(e) PROVE FALSE
  BY <1>5 DEF HwBoot, HwOff
<1>6. ASSUME NEW e \in HwEE, HwSysErr(e) PROVE HwOff' /\ (Silent => Silent')
  BY <1>1, <1>6 DEF HwSysErr, NoEvent, HwOff, Silent
<1> QED BY <1>2, <1>3, <1>4, <1>5, <1>6 DEF Device

\* Nor does another thread start it.
LEMMA OthersOff ==
  ASSUME TypeOK, HwOff, pm_state \in OffStates, Tasklet \/ Intvec \/ Suspend \/ Clients \/ Device
  PROVE  HwOff' /\ (Silent => Silent')
<1>1. ASSUME UNCHANGED <<hw_state, hw_reset, hw_req>>, evq' = evq \/ \E e : Consume(e)
      PROVE  HwOff' /\ (Silent => Silent')
  <2>1. ASSUME NEW e, Consume(e) PROVE Silent => Silent'
    <3>1. evq \in Seq(Event) /\ evq # <<>> /\ evq' = Tail(evq)
      BY <2>1 DEF Consume, TypeOK
    <3> QED BY <3>1, HoldsTail DEF Silent
  <2> QED BY <1>1, <2>1 DEF HwOff, Silent
<1>2. CASE Tasklet
  <2>1. CASE TaskM1
    BY <1>1, <2>1, OffRefuses DEF TaskM1, Consume, OffStates, ColdStates, TeardownStates
  <2>2. CASE TaskM0 \/ TaskM3 \/ TaskSysErr
    BY Zenon, <1>1, <2>2 DEF TaskM0, TaskM3, TaskSysErr, Consume
  <2>3. ASSUME NEW e \in DeviceEE, TaskEe(e) PROVE HwOff' /\ (Silent => Silent')
    BY Zenon, <1>1, <2>3 DEF TaskEe, Consume
  <2>4. CASE \/ TaskStart \/ TaskEnter \/ TaskM0Rings \/ TaskM1Check \/ TaskM1Wake
             \/ TaskSysErrQueue \/ TaskLoopEnd \/ TaskPoll
    BY Zenon, <1>1, <2>4 DEF TaskStart, TaskEnter, TaskM0Rings, TaskM1Check, TaskM1Wake,
       TaskSysErrQueue, TaskLoopEnd, TaskPoll
  <2> QED BY <1>2, <2>1, <2>2, <2>3, <2>4 DEF Tasklet
<1>3. CASE Intvec
  BY Zenon, <1>1, <1>3 DEF Intvec, IntvecRead, IntvecDecide
<1>4. CASE Suspend
  <2>1. CASE SuspendEnter
    BY <1>1, <2>1, OffRefuses DEF SuspendEnter, OffStates, ColdStates, TeardownStates
  <2>2. CASE ResumeExit
    BY <1>1, <2>2, OffRefuses DEF ResumeExit, OffStates, ColdStates, TeardownStates
  <2>3. CASE \/ SuspendCheck \/ SuspendGet \/ SuspendWait \/ SuspendPut \/ SuspendWait3
             \/ ResumeCheck \/ ResumeWait0
    BY Zenon, <1>1, <2>3 DEF SuspendCheck, SuspendGet, SuspendWait, SuspendPut, SuspendWait3,
       ResumeCheck, ResumeWait0
  <2> QED BY <1>4, <2>1, <2>2, <2>3 DEF Suspend, SuspendSteps
<1>5. CASE Clients
  BY Zenon, <1>1, <1>5 DEF Clients, mhi_device_get, mhi_device_put, DebugfsGet, DebugfsGetDone,
     DebugfsPut, XferQueue, XferDone
<1> QED BY <1>2, <1>3, <1>4, <1>5, DeviceOff

\* The other threads leave a controller that has not been started so.
LEMMA OthersCold ==
  ASSUME TypeOK, NoEdl, Cold, Tasklet \/ Intvec \/ Suspend \/ Clients \/ Device
  PROVE  Cold'
<1>1. UNCHANGED <<worker, devices>>
  BY OthersLeave
<1>2. HwOff' /\ Silent'
  BY OthersOff DEF Cold, OffStates
<1> SUFFICES OnlyErrors(transition_list') /\ pm_state' \in ColdStates
  BY <1>1, <1>2 DEF Cold
<1>3. ASSUME UNCHANGED transition_list,
             \E st \in {"M2", "M3_ENTER", "M3_EXIT", "SYS_ERR_DETECT"} :
                pm_state' \in {pm_state, mhi_tryset_pm_state(pm_state, st)}
      PROVE  OnlyErrors(transition_list') /\ pm_state' \in ColdStates
  BY <1>3, OffRefuses DEF Cold, OffStates
<1>4. CASE Tasklet
  <2>1. ASSUME NEW e, Consume(e) PROVE e \in QuietEvents
    <3>1. evq \in Seq(Event) /\ evq # <<>> /\ e = Head(evq) /\ e \in Event
      BY <2>1 DEF Consume, TypeOK
    <3> QED BY <3>1, HoldsTail DEF Cold, Silent
  <2>2. CASE TaskSysErr \/ TaskM1 \/ TaskPoll
    BY <1>3, <2>2 DEF TaskSysErr, TaskM1, TaskPoll
  <2>3. CASE TaskSysErrQueue
    <3>1. /\ pm_state' = pm_state
          /\ transition_list' = transition_list \/ mhi_queue_state_transition("SYS_ERR")
      BY Zenon, <2>3 DEF TaskSysErrQueue, SysErrHandler
    <3> QED BY <3>1, ErrorsQueue DEF Cold
  <2>4. CASE TaskStart \/ TaskEnter \/ TaskM0Rings \/ TaskM1Check \/ TaskM1Wake \/ TaskLoopEnd
    BY Zenon, <1>3, <2>4 DEF TaskStart, TaskEnter, TaskM0Rings, TaskM1Check, TaskM1Wake,
       TaskLoopEnd
  <2>5. ~TaskM0 /\ ~TaskM3
    BY <2>1 DEF TaskM0, TaskM3, State, QuietEvents
  <2>6. \A e \in DeviceEE : ~TaskEe(e)
    BY <2>1 DEF TaskEe, State, EnvEv, QuietEvents
  <2> QED BY <1>4, <2>2, <2>3, <2>4, <2>5, <2>6 DEF Tasklet
<1>5. CASE Intvec
  <2>1. CASE IntvecRead
    BY <1>3, <2>1 DEF IntvecRead, NoEdl
  <2>2. CASE IntvecDecide
    <3>1. /\ pm_state' = pm_state
          /\ transition_list' = transition_list \/ mhi_queue_state_transition("SYS_ERR")
      BY Zenon, <2>2 DEF IntvecDecide, SysErrHandler
    <3> QED BY <3>1, ErrorsQueue DEF Cold
  <2> QED BY <1>5, <2>1, <2>2 DEF Intvec
<1>6. CASE Suspend
  BY Zenon, <1>3, <1>6 DEF Suspend, SuspendSteps, SuspendCheck, SuspendGet, SuspendWait,
     SuspendPut, SuspendEnter, SuspendWait3, ResumeCheck, ResumeExit, ResumeWait0
<1>7. CASE Clients
  BY Zenon, <1>3, <1>7 DEF Clients, mhi_device_get, mhi_device_put, DebugfsGet, DebugfsGetDone,
     DebugfsPut, XferQueue, XferDone
<1>8. CASE Device
  BY Zenon, <1>3, <1>8 DEF Device, HwResetDone, HwReady, HwEnter, HwIdle, HwWake, HwMsi,
     HwBoot, HwSysErr, HwFrame
<1> QED BY <1>4, <1>5, <1>6, <1>7, <1>8

BusyPc  == {"fw", "fw_load", "create", "probe", "mm_get", "mm_wait", "mm_run", "mm_put"}
StartPc == ReadyPc \cup {"fw", "fw_load"}

Off  == ctl \in {"none", "prepared"}
More == ups < MaxPowerUps

\* A power session that another one follows found everything quiet and was powered up: what a
\* failed power-up leaves in the list is handled whenever the worker runs.
Orderly == More => ctl # "failed" /\ (~Off => session)

\* The platform does not suspend and every power-down is graceful: the registers can be
\* accessed when the DISABLE item is handled.
Tame  == ~Suspends /\ Graceful \subseteq {TRUE}
Awake == /\ ctl \notin {"dn_ld", "sync"} /\ s = "idle"
         /\ pm_state \notin {"M3_ENTER", "M3", "M3_EXIT", "LD_ERR_FATAL_DETECT"}

\* Every step keeps it so.
LEMMA AwakeStep ==
  ASSUME Tame, SyncUps \subseteq {FALSE}, TypeOK, Awake, [Next]_vars
  PROVE  Awake'
<1>1. ASSUME UNCHANGED <<ctl, s>>,
             pm_state' \in {pm_state, "POR", "M0", "M2", "SYS_ERR_DETECT", "SYS_ERR_PROCESS",
                            "SHUTDOWN_PROCESS", "DISABLE"}
      PROVE  Awake'
  BY <1>1 DEF Awake
<1>2. CASE StWorker
  <2>1. UNCHANGED <<ctl, s>>
    BY Zenon, <1>2 DEF StWorker, StWorkerStart, StWorkerEnd, HandlePbl, HandleReady,
       HandleMissionMode, HandleEeItem, FwLoad, FwLoadSbl, FwLoadFail, ReadyWait, ReadySet,
       ReadyMmio, MissionGet, MissionWait, MissionRun, CreateDevices, ProbeDone, MissionEnd,
       HandleDisable, DisableReset, DisableWait, DisableKill, DisableDestroy, DisableRings,
       DisableOff
  <2>2. \/ pm_state' = pm_state
        \/ \E st \in {"POR", "SYS_ERR_PROCESS", "SHUTDOWN_PROCESS", "DISABLE"} :
              pm_state' = mhi_tryset_pm_state(pm_state, st)
    BY <1>2 DEF StWorker, StWorkerStart, StWorkerEnd, HandlePbl, HandleReady,
       HandleMissionMode, HandleEeItem, FwLoad, FwLoadSbl, FwLoadFail, ReadyWait, ReadySet,
       ReadyMmio, MissionGet, MissionWait, MissionRun, CreateDevices, ProbeDone, MissionEnd,
       HandleDisable, DisableReset, DisableWait, DisableKill, DisableDestroy, DisableRings,
       DisableOff, RefreshEe, Target
  <2> QED BY <1>1, <2>1, <2>2, TableDecides
<1>3. CASE Tasklet \/ Intvec \/ Clients \/ Device
  <2>1. ctl' = ctl
    BY <1>3, OthersLeave
  <2>2. s' = s
    BY Zenon, <1>3 DEF Tasklet, TaskStart, TaskEnter, TaskM0, TaskM0Rings, TaskM1,
       TaskM1Check, TaskM1Wake, TaskM3, TaskSysErr, TaskSysErrQueue, TaskLoopEnd, TaskPoll,
       TaskEe, Intvec, IntvecRead, IntvecDecide, Clients, mhi_device_get, mhi_device_put,
       DebugfsGet, DebugfsGetDone, DebugfsPut, XferQueue, XferDone, Device, HwResetDone,
       HwReady, HwEnter, HwIdle, HwWake, HwMsi, HwBoot, HwSysErr, HwFrame
  <2>3. \/ pm_state' = pm_state
        \/ \E st \in {"M0", "M2", "M3", "SYS_ERR_DETECT"} :
              pm_state' = mhi_tryset_pm_state(pm_state, st)
    BY Zenon, <1>3 DEF Tasklet, TaskStart, TaskEnter, TaskM0, TaskM0Rings, TaskM1,
       TaskM1Check, TaskM1Wake, TaskM3, TaskSysErr, TaskSysErrQueue, TaskLoopEnd, TaskPoll,
       TaskEe, Intvec, IntvecRead, IntvecDecide, Clients, mhi_device_get, mhi_device_put,
       DebugfsGet, DebugfsGetDone, DebugfsPut, XferQueue, XferDone, Device, HwResetDone,
       HwReady, HwEnter, HwIdle, HwWake, HwMsi, HwBoot, HwSysErr, HwFrame
  <2>4. mhi_tryset_pm_state(pm_state, "M3") = pm_state
    BY DEF Awake, TypeOK, mhi_tryset_pm_state, dev_state_transitions, PmState, AnyError
  <2> QED BY <1>1, <2>1, <2>2, <2>3, <2>4, TableDecides
<1>4. ~Suspend
  BY DEF Suspend, SuspendSteps, SuspendCheck, SuspendGet, SuspendWait, SuspendPut,
     SuspendEnter, SuspendWait3, ResumeCheck, ResumeExit, ResumeWait0, Awake, Tame
<1>5. CASE Controller
  BY <1>5 DEF Controller, PowerUpSteps, PowerDownSteps, Prepare, PowerUp, UpIrq, UpPor,
     UpCheck, UpReset, UpQueue, UpErr, SyncUp, PowerDown, DownLinkError, DownQueue,
     DownFlush, DownFree, Unprepare, Awake, Tame
<1>6. CASE UNCHANGED vars
  BY <1>6 DEF vars, Awake
<1> QED BY <1>2, <1>3, <1>4, <1>5, <1>6 DEF Next

\* Why the device is off when a session begins: before the first one it has not been started,
\* and the teardown of the one before has told it to reset.
OffInv ==
  /\ ups = 0 => Off
  /\ ctl # "sync"
  /\ Off /\ More =>
        /\ pm_state = "DISABLE" /\ NoStarts /\ w \notin StartPc \cup TeardownPc
        /\ HwOff /\ (ctl = "prepared" => Silent)
  /\ More /\ session /\ ctl \in DownPc /\ pm_state = "DISABLE" => HwOff
  /\ More /\ session /\ Tearing /\ w # "dis_reset" => HwOff

\* The other threads keep it.
LEMMA OthersOffInv ==
  ASSUME TypeOK, NoEdl, TeardownInv, OffInv, Tasklet \/ Intvec \/ Suspend \/ Clients \/ Device
  PROVE  OffInv'
<1>1. UNCHANGED <<worker, ctl, ups, session>>
  BY OthersLeave
<1>2. Holds(transition_list', Starts) <=> Holds(transition_list, Starts)
  <2>1. ASSUME NEW x \in {"SYS_ERR", "SBL", "FP", "MISSION_MODE"}, mhi_queue_state_transition(x)
        PROVE  Holds(transition_list', Starts) <=> Holds(transition_list, Starts)
    <3>1. x \notin Starts /\ x \in StTransition /\ transition_list \in Seq(StTransition)
          /\ transition_list' = Append(transition_list, x)
      BY <2>1 DEF mhi_queue_state_transition, StTransition, Starts, TypeOK
    <3> QED BY <3>1, HoldsAppend
  <2> QED BY <2>1, OthersQueue
<1>3. pm_state \in TeardownStates => pm_state' = pm_state /\ (HwOff => HwOff' /\ (Silent => Silent'))
  BY OthersTry, TableRefuses, OthersOff DEF OffStates
<1>4. pm_state' = "DISABLE" => pm_state = "DISABLE"
  BY OthersTry, TableDecides DEF EventTargets
<1>5. session /\ Tearing => pm_state \in TeardownStates
  BY DEF Tearing, TeardownInv, TeardownExclusive, TeardownStates
<1> QED BY <1>1, <1>2, <1>3, <1>4, <1>5 DEF OffInv, Off, More, NoStarts, Tearing, TeardownStates

\* A step of the controller driver keeps it.
LEMMA ControllerOff ==
  ASSUME SyncUps \subseteq {FALSE}, TypeOK, SessionPc, DownInv, OffInv, Orderly, Controller
  PROVE  OffInv'
<1>1. UNCHANGED worker
  BY Zenon DEF Controller, PowerUpSteps, PowerDownSteps, Prepare, PowerUp, UpIrq, UpPor,
     UpCheck, UpReset, UpQueue, UpErr, SyncUp, PowerDown, DownLinkError, DownQueue,
     DownFlush, DownFree, Unprepare
<1>2. session /\ ctl \notin DownPc => ~Tearing
  BY DEF DownInv
<1> USE DEF OffInv, Off, More, Tearing, DownPc
<1>3. CASE Prepare
  <2>1. /\ ctl = "none" /\ ctl' \in {"none", "prepared"} /\ (ctl' = "prepared" => evq' = <<>>)
        /\ UNCHANGED <<ups, session, pm_state, transition_list, hw_state, hw_reset, hw_req>>
    BY <1>3 DEF Prepare
  <2> QED BY <1>1, <2>1, HoldsNothing DEF SessionPc, NoStarts, HwOff, Silent
<1>4. CASE PowerUp
  <2>1. ups' = ups + 1 /\ ctl' = "up_irq" /\ (session' => w = "idle") /\ ups \in Nat
    BY <1>4, PmConstants DEF PowerUp, Quiet, TypeOK
  <2> QED BY <1>1, <2>1
<1>5. CASE UpIrq \/ UpPor \/ UpCheck \/ UpReset \/ UpErr
  BY <1>1, <1>2, <1>5 DEF UpIrq, UpPor, UpCheck, UpReset, UpErr
<1>6. CASE UpQueue
  BY <1>1, <1>2, <1>6 DEF UpQueue
<1>7. ~SyncUp
  BY DEF SyncUp
<1>8. ASSUME NEW graceful \in Graceful, PowerDown(graceful) PROVE OffInv'
  BY <1>1, <1>2, <1>8 DEF PowerDown
<1>9. CASE DownLinkError
  BY <1>1, <1>2, <1>9 DEF DownLinkError
<1>10. CASE DownQueue
  BY <1>1, <1>2, <1>10 DEF DownQueue, DownInv, UpPc
<1>11. CASE DownFlush \/ DownFree
  <2>1. /\ ctl \in DownPc /\ ctl' \in DownPc
        /\ UNCHANGED <<ups, session, pm_state, transition_list, hw_state, hw_reset, hw_req>>
    BY <1>11 DEF DownFlush, DownFree
  <2> QED BY <1>1, <2>1 DEF HwOff
<1>12. CASE Unprepare
  <2>1. /\ ctl \in {"down", "failed"} /\ ctl' = "none" /\ session' = FALSE
        /\ UNCHANGED <<ups, pm_state, transition_list, hw_state, hw_reset, hw_req>>
    BY <1>12 DEF Unprepare
  <2>2. More => session /\ ctl = "down" /\ ShutDown
    BY <2>1 DEF Orderly, DownInv, ItemQueued, ItemTaken, ItemHandled, Flushing
  <2> QED BY <1>1, <2>1, <2>2 DEF ShutDown, NoStarts, HwOff, StartPc
<1> QED BY <1>3, <1>4, <1>5, <1>6, <1>7, <1>8, <1>9, <1>10, <1>11, <1>12
  DEF Controller, PowerUpSteps, PowerDownSteps

\* Outside of its start and of its reset the worker leaves the device alone.
LEMMA WorkerLeavesHw ==
  ASSUME StWorker, w \notin StartPc \cup {"dis_reset"}
  PROVE  UNCHANGED <<hw_state, hw_reset, hw_req>> /\ evq' \in {evq, <<>>}
BY DEF StWorker, StWorkerStart, StWorkerEnd, HandlePbl, HandleReady,
   HandleMissionMode, HandleEeItem, FwLoad, FwLoadSbl, FwLoadFail, ReadyWait, ReadySet,
   ReadyMmio, MissionGet, MissionWait, MissionRun, CreateDevices, ProbeDone, MissionEnd,
   HandleDisable, DisableReset, DisableWait, DisableKill, DisableDestroy, DisableRings,
   DisableOff, StartPc

\* A worker with nothing to start stays out of the start and, in DISABLE, of a teardown.
LEMMA WorkerStaysOff ==
  ASSUME TypeOK, NoStarts, pm_state = "DISABLE", w \notin StartPc \cup TeardownPc, StWorker
  PROVE  NoStarts' /\ pm_state' = "DISABLE" /\ w' \notin StartPc \cup TeardownPc
<1> USE DEF StartPc
<1>1. CASE StWorkerStart
  BY <1>1, HoldsNothing DEF StWorkerStart, NoStarts
<1>2. ASSUME NEW st \in StTransition, Item(st), UNCHANGED transition_list
      PROVE  st \notin Starts /\ NoStarts'
  BY <1>2, TakesItem DEF NoStarts
<1>3. CASE HandlePbl \/ HandleReady
  BY <1>2, <1>3 DEF HandlePbl, HandleReady, Starts, StTransition
<1>4. CASE HandleMissionMode \/ HandleEeItem("SBL") \/ HandleEeItem("FP")
  BY <1>2, <1>4 DEF HandleMissionMode, HandleEeItem, RefreshEe, StTransition
<1>5. CASE HandleDisable("SYS_ERR") \/ HandleDisable("DISABLE")
  <2>1. PICK st \in {"SYS_ERR", "DISABLE"} : HandleDisable(st)
    BY <1>5
  <2>2. pm_state' = "DISABLE" /\ Target(st) # "DISABLE"
    BY <2>1 DEF HandleDisable, Target, mhi_tryset_pm_state, dev_state_transitions, PmState
  <2>3. NoStarts'
    BY <1>2, <2>1 DEF HandleDisable, StTransition
  <2> QED BY <2>1, <2>2, <2>3 DEF HandleDisable
<1>6. CASE StWorkerEnd
  BY <1>6 DEF StWorkerEnd, NoStarts
<1>7. CASE MissionGet \/ MissionWait \/ MissionRun \/ MissionEnd
  BY <1>7 DEF MissionGet, MissionWait, MissionRun, MissionEnd, MissionPut, NoStarts
<1>8. CASE CreateDevices \/ ProbeDone
  BY <1>8 DEF CreateDevices, ProbeDone, AfterCreate, NoStarts
<1>9. \/ StWorkerStart \/ StWorkerEnd \/ HandlePbl \/ HandleReady \/ HandleMissionMode
      \/ HandleEeItem("SBL") \/ HandleEeItem("FP")
      \/ HandleDisable("SYS_ERR") \/ HandleDisable("DISABLE")
      \/ MissionGet \/ MissionWait \/ MissionRun \/ MissionEnd \/ CreateDevices \/ ProbeDone
  BY DEF StWorker, FwLoad, FwLoadSbl, FwLoadFail, ReadyWait, ReadySet, ReadyMmio, DisableReset,
     DisableWait, DisableKill, DisableDestroy, DisableRings, DisableOff
<1> QED BY <1>1, <1>3, <1>4, <1>5, <1>6, <1>7, <1>8, <1>9

\* A step of the state worker keeps it.
LEMMA StWorkerOff ==
  ASSUME MaxPowerUps <= 1 \/ Tame, Tame => Awake, TypeOK, SessionPc, TeardownInv, DownInv,
         OffInv, StWorker
  PROVE  OffInv'
<1>1. UNCHANGED <<ctl, ups, session>>
  BY Zenon DEF StWorker, StWorkerStart, StWorkerEnd, HandlePbl, HandleReady,
     HandleMissionMode, HandleEeItem, FwLoad, FwLoadSbl, FwLoadFail, ReadyWait, ReadySet,
     ReadyMmio, MissionGet, MissionWait, MissionRun, CreateDevices, ProbeDone, MissionEnd,
     HandleDisable, DisableReset, DisableWait, DisableKill, DisableDestroy, DisableRings,
     DisableOff
<1>2. WorkerShape
  BY DEF TeardownInv, MutexInv
<1>3. ASSUME HwOff, w \notin StartPc \cup {"dis_reset"} PROVE HwOff' /\ (Silent => Silent')
  BY <1>3, WorkerLeavesHw, HoldsNothing DEF HwOff, Silent
<1>4. ASSUME Off, More
      PROVE  /\ pm_state' = "DISABLE" /\ NoStarts' /\ w' \notin StartPc \cup TeardownPc
             /\ HwOff' /\ (ctl = "prepared" => Silent')
  <2>1. /\ pm_state = "DISABLE" /\ NoStarts /\ w \notin StartPc \cup TeardownPc
        /\ HwOff /\ (ctl = "prepared" => Silent)
    BY <1>4 DEF OffInv
  <2> QED BY <1>3, <2>1, WorkerStaysOff
<1>5. ASSUME More, session, ctl \in DownPc, pm_state' = "DISABLE" PROVE HwOff'
  <2>1. CASE pm_state = "DISABLE"
    <3>1. HwOff /\ ShutDown
      BY <1>5, <2>1 DEF OffInv, DownInv, ItemQueued, ItemTaken, ItemHandled
    <3> QED BY <1>3, <3>1 DEF ShutDown, StartPc
  <2>2. CASE DisableOff
    <3>1. w = "dis_off" /\ Tearing
      BY <1>2, <2>2 DEF DisableOff, WorkerShape, Tearing
    <3> QED BY <1>3, <1>5, <3>1 DEF OffInv, StartPc
  <2>3. \/ pm_state' = pm_state \/ DisableOff
        \/ \E st \in {"POR", "SYS_ERR_PROCESS", "SHUTDOWN_PROCESS"} :
              pm_state' = mhi_tryset_pm_state(pm_state, st)
    BY DEF StWorker, StWorkerStart, StWorkerEnd, HandlePbl, HandleReady,
       HandleMissionMode, HandleEeItem, FwLoad, FwLoadSbl, FwLoadFail, ReadyWait, ReadySet,
       ReadyMmio, MissionGet, MissionWait, MissionRun, CreateDevices, ProbeDone, MissionEnd,
       HandleDisable, DisableReset, DisableWait, DisableKill, DisableDestroy, DisableRings,
       RefreshEe, Target
  <2> QED BY <1>5, <2>1, <2>2, <2>3, TableDecides
<1>6. ASSUME More, session, Tearing', w' # "dis_reset" PROVE HwOff'
  <2>1. CASE w = "dis_reset"
    <3>1. DisableReset
      BY <2>1 DEF StWorker, StWorkerStart, StWorkerEnd, HandlePbl, HandleReady,
         HandleMissionMode, HandleEeItem, FwLoad, FwLoadSbl, FwLoadFail, ReadyWait, ReadySet,
         ReadyMmio, MissionGet, MissionWait, MissionRun, CreateDevices, ProbeDone, MissionEnd,
         HandleDisable, DisableWait, DisableKill, DisableDestroy, DisableRings,
         DisableOff, Item
    <3> QED BY <3>1 DEF DisableReset, HwOff
  <2>2. CASE Tearing /\ w # "dis_reset"
    BY <1>3, <1>6, <2>2 DEF OffInv, Tearing, StartPc
  <2>3. CASE ~Tearing
    <3>1. HandleDisable("DISABLE") /\ pm_state' = "SHUTDOWN_PROCESS" /\ w' = "dis_kill"
      BY <1>2, <1>6, <2>3 DEF StWorker, StWorkerStart, StWorkerEnd, HandlePbl, HandleReady,
         HandleMissionMode, HandleEeItem, FwLoad, FwLoadSbl, FwLoadFail, ReadyWait, ReadySet,
         ReadyMmio, ReadyReturn, MissionGet, MissionWait, MissionRun, MissionPut, CreateDevices,
         ProbeDone, AfterCreate, MissionEnd, HandleDisable, DisableReset, DisableWait,
         DisableKill, DisableDestroy, DisableRings, DisableOff, Target, Tearing, WorkerShape
    <3>2. pm_state \in {"DISABLE", "M3", "LD_ERR_FATAL_DETECT"}
      BY <3>1 DEF HandleDisable, MHI_REG_ACCESS_VALID
    <3>3. pm_state # "DISABLE"
      BY <3>1 DEF HandleDisable, Target, mhi_tryset_pm_state, dev_state_transitions, PmState
    <3>4. MaxPowerUps <= 1
      BY <3>2, <3>3 DEF Awake
    <3>5. ups = 0
      BY <1>6, <3>4, PmConstants DEF More, TypeOK
    <3> QED BY <1>6, <3>5 DEF OffInv, SessionPc, Off
  <2> QED BY <2>1, <2>2, <2>3
<1> QED BY <1>1, <1>4, <1>5, <1>6 DEF OffInv, Off, More

\* Every step keeps it.
LEMMA OffStep ==
  ASSUME SyncUps \subseteq {FALSE}, MaxPowerUps <= 1 \/ Tame, Tame => Awake, TypeOK, NoEdl,
         SessionPc, TeardownInv, DownInv, OffInv, Orderly, [Next]_vars
  PROVE  OffInv'
<1>1. CASE UNCHANGED vars
  BY <1>1 DEF vars, OffInv, Off, More, NoStarts, Tearing, HwOff, Silent
<1> QED BY <1>1, StWorkerOff, ControllerOff, OthersOffInv DEF Next

\* Why mhi_ready_state_transition() finds no MHI device: before the controller has been
\* started by the one item of its session no device is created, and a recovery has destroyed
\* them.
FirstInv ==
  session =>
    /\ ctl \in PowerUpPc => Cold
    /\ Holds(transition_list, Starts) =>
          /\ devices = {} /\ w \notin BusyPc
          /\ StartsFirst(transition_list) /\ OnlyErrors(head)
    /\ Holds(head, Starts) =>
          /\ devices = {} /\ w \notin BusyPc
          /\ StartsFirst(head) /\ ~Holds(transition_list, Starts)
    /\ w \in StartPc \cup {"dis_rings", "dis_off"} => devices = {}
    /\ w \in StartPc /\ w_to = "none" => NoStarts

\* The other threads keep it.
LEMMA OthersFirst ==
  ASSUME TypeOK, NoEdl, FirstInv, Tasklet \/ Intvec \/ Suspend \/ Clients \/ Device
  PROVE  FirstInv'
<1>1. UNCHANGED <<worker, ctl, devices, session>>
  BY OthersLeave
<1>2. ASSUME NEW x \in {"SYS_ERR", "SBL", "FP", "MISSION_MODE"}, mhi_queue_state_transition(x)
      PROVE  /\ Holds(transition_list', Starts) <=> Holds(transition_list, Starts)
             /\ StartsFirst(transition_list) => StartsFirst(transition_list')
  <2>1. x \in StTransition /\ x \notin Starts /\ transition_list \in Seq(StTransition)
        /\ transition_list' = Append(transition_list, x)
    BY <1>2 DEF mhi_queue_state_transition, StTransition, Starts, TypeOK
  <2> QED BY <2>1, HoldsAppend, FirstAppend
<1>3. /\ Holds(transition_list', Starts) <=> Holds(transition_list, Starts)
      /\ StartsFirst(transition_list) => StartsFirst(transition_list')
  BY <1>2, OthersQueue
<1>4. Cold => Cold'
  BY OthersCold
<1> QED BY <1>1, <1>3, <1>4 DEF FirstInv, NoStarts

\* A step of the controller driver keeps it: the item that starts the controller is
\* queued while the device is cold.
LEMMA ControllerFirst ==
  ASSUME SyncUps \subseteq {FALSE}, TypeOK, SessionPc, OffInv, FirstInv, Controller
  PROVE  FirstInv'
<1>1. UNCHANGED <<worker, devices>>
  BY Zenon DEF Controller, PowerUpSteps, PowerDownSteps, Prepare, PowerUp, UpIrq, UpPor,
     UpCheck, UpReset, UpQueue, UpErr, SyncUp, PowerDown, DownLinkError, DownQueue,
     DownFlush, DownFree, Unprepare
<1>2. ASSUME transition_list' = transition_list, session' => session,
             ctl' \in PowerUpPc =>
               /\ ctl \in PowerUpPc /\ pm_state' \in ColdStates
               /\ UNCHANGED <<hw_state, hw_req, evq>> /\ (hw_reset => hw_reset')
      PROVE  FirstInv'
  <2>1. ctl' \in PowerUpPc /\ session' => Cold'
    BY <1>1, <1>2 DEF FirstInv, Cold, HwOff, Silent
  <2> QED BY <1>1, <1>2, <2>1 DEF FirstInv, NoStarts
<1>3. CASE Prepare
  BY <1>3 DEF Prepare, SessionPc, FirstInv
<1>4. CASE PowerUp
  <2>1. /\ ctl = "prepared" /\ ups < MaxPowerUps /\ pm_state' = "DISABLE"
        /\ UNCHANGED <<transition_list, hw_state, hw_req, hw_reset, evq>>
        /\ session' => /\ w = "idle" /\ head = <<>> /\ transition_list = <<>> /\ devices = {}
    BY <1>4 DEF PowerUp, Quiet
  <2>2. HwOff /\ Silent
    BY <2>1 DEF OffInv, Off, More
  <2>3. HwOff' /\ Silent'
    BY <2>1, <2>2 DEF HwOff, Silent
  <2>4. session' => Cold'
    BY <1>1, <2>1, <2>3, HoldsNothing DEF Cold, ColdStates, OnlyErrors
  <2>5. session' => /\ ~Holds(transition_list', Starts) /\ ~Holds(head', Starts)
                    /\ w' = "idle"
    BY <1>1, <2>1, HoldsNothing
  <2> QED BY <2>4, <2>5 DEF FirstInv, StartPc
<1>5. CASE UpIrq
  BY <1>2, <1>5, SMT DEF UpIrq, FirstInv, Cold, SessionPc
<1>6. CASE UpPor
  BY <1>2, <1>6 DEF UpPor, FirstInv, Cold, ColdStates
<1>7. CASE UpCheck
  BY <1>2, <1>7 DEF UpCheck, FirstInv, Cold
<1>8. CASE UpReset
  BY <1>2, <1>8 DEF UpReset, FirstInv, Cold
<1>9. CASE UpErr
  BY <1>2, <1>9 DEF UpErr, FirstInv
<1>10. CASE UpQueue
  <2>1. /\ ctl = "up_q" /\ ctl' = "on" /\ session' = session
        /\ transition_list' = Append(transition_list, NextTransition(cur_ee))
    BY <1>10 DEF UpQueue, mhi_queue_state_transition
  <2> SUFFICES ASSUME session PROVE FirstInv'
    BY <2>1 DEF FirstInv
  <2>2. Cold
    BY <2>1 DEF FirstInv
  <2>3. /\ transition_list \in Seq(StTransition) /\ NextTransition(cur_ee) \in StTransition
        /\ StartsFirst(transition_list) /\ OnlyErrors(transition_list) /\ OnlyErrors(head)
        /\ ~Holds(head, Starts)
    BY <2>2, FirstWithout, ErrorsNoStart
    DEF Cold, TypeOK, NextTransition, StTransition
  <2>4. StartsFirst(transition_list')
    BY <2>1, <2>3, FirstAppend
  <2> QED BY <1>1, <2>1, <2>2, <2>3, <2>4 DEF FirstInv, Cold, BusyPc, StartPc
<1>11. ~SyncUp
  BY DEF SyncUp, OffInv
<1>12. ASSUME NEW graceful \in Graceful, PowerDown(graceful) PROVE FirstInv'
  BY <1>2, <1>12 DEF PowerDown
<1>13. CASE DownLinkError
  BY <1>2, <1>13 DEF DownLinkError
<1>14. CASE DownQueue
  <2>1. /\ ctl = "dn_q" /\ ctl' = "dn_flush" /\ session' = session
        /\ transition_list' = Append(transition_list, "DISABLE")
    BY <1>14 DEF DownQueue, mhi_queue_state_transition
  <2>2. /\ Holds(transition_list', Starts) <=> Holds(transition_list, Starts)
        /\ StartsFirst(transition_list) => StartsFirst(transition_list')
    <3>1. transition_list \in Seq(StTransition) /\ "DISABLE" \in StTransition
          /\ "DISABLE" \notin Starts
      BY DEF TypeOK, StTransition, Starts
    <3> QED BY <2>1, <3>1, HoldsAppend, FirstAppend
  <2> QED BY <1>1, <2>1, <2>2 DEF FirstInv, NoStarts
<1>15. CASE DownFlush \/ DownFree
  BY <1>2, <1>15 DEF DownFlush, DownFree
<1>16. CASE Unprepare
  BY <1>16 DEF Unprepare, FirstInv
<1> QED BY <1>3, <1>4, <1>5, <1>6, <1>7, <1>8, <1>9, <1>10, <1>11, <1>12, <1>13, <1>14,
   <1>15, <1>16 DEF Controller, PowerUpSteps, PowerDownSteps

\* An item other than an error finds no start behind it.
LEMMA OtherItemFirst ==
  ASSUME TypeOK, FirstInv, NEW st \in StTransition, st # "SYS_ERR", Item(st),
         UNCHANGED <<transition_list, ctl, session, devices>>,
         w' \notin {"dis_rings", "dis_off"},
         w' \in StartPc => st \in Starts
  PROVE  FirstInv'
<1> SUFFICES ASSUME session PROVE FirstInv'
  BY DEF FirstInv
<1>1. head \in Seq(StTransition) /\ head # <<>> /\ st = Head(head) /\ head' = Tail(head)
  BY DEF TypeOK, Item
<1>2. \A S : Holds(head, S) <=> st \in S \/ Holds(head', S)
  BY <1>1, HoldsTail
<1>3. ~OnlyErrors(head)
  BY <1>2 DEF OnlyErrors
<1>4. ctl \notin PowerUpPc /\ ~Holds(transition_list, Starts)
  BY <1>3 DEF FirstInv, Cold
<1>5. ~Holds(head', Starts)
  BY <1>1, <1>2, FirstTail DEF FirstInv
<1>6. w' \in StartPc => devices = {}
  BY <1>2 DEF FirstInv
<1> QED BY <1>4, <1>5, <1>6 DEF FirstInv, NoStarts

\* A step inside a handler: a controller that has not been started is in none.
LEMMA InsideFirst ==
  ASSUME TypeOK, FirstInv, UNCHANGED <<transition_list, head, ctl, session>>,
         w \notin {"idle", "next"},
         w \notin BusyPc => devices' \subseteq devices /\ w' \notin BusyPc,
         session /\ w' \in StartPc \cup {"dis_rings", "dis_off"} => devices' = {},
         w' \in StartPc /\ w_to' = "none" => w \in StartPc /\ w_to = "none"
  PROVE  FirstInv'
<1>1. session => ctl \notin PowerUpPc
  BY DEF FirstInv, Cold
<1> QED BY <1>1 DEF FirstInv, NoStarts

\* A step of the state worker keeps it.
LEMMA StWorkerFirst ==
  ASSUME TypeOK, TeardownInv, DownInv, FirstInv, StWorker
  PROVE  FirstInv'
<1> USE DEF BusyPc, StartPc
<1>0. WorkerShape
  BY DEF TeardownInv, MutexInv
<1>1. CASE StWorkerStart
  <2>1. /\ w = "idle" /\ head = <<>> /\ w' = "next"
        /\ head' = transition_list /\ transition_list' = <<>>
        /\ UNCHANGED <<pm_state, ctl, session, devices, hw_state, hw_req, hw_reset, evq>>
    BY <1>1 DEF StWorkerStart, DownInv
  <2>2. ~Holds(head, Starts) /\ ~Holds(transition_list', Starts) /\ OnlyErrors(transition_list')
    BY <2>1, HoldsNothing DEF OnlyErrors
  <2>3. Cold => Cold'
    BY <2>1, <2>2 DEF Cold, HwOff, Silent
  <2> QED BY <2>1, <2>2, <2>3 DEF FirstInv
<1>2. CASE StWorkerEnd
  <2>1. /\ w = "next" /\ w' = "idle"
        /\ UNCHANGED <<head, transition_list, pm_state, ctl, session, devices, hw_state, hw_req,
                       hw_reset, evq>>
    BY <1>2 DEF StWorkerEnd
  <2>2. Cold => Cold'
    BY <2>1 DEF Cold, HwOff, Silent
  <2> QED BY <2>1, <2>2 DEF FirstInv
<1>3. CASE HandlePbl
  BY <1>3, OtherItemFirst DEF HandlePbl, Starts, StTransition
<1>4. CASE HandleReady
  BY <1>4, OtherItemFirst DEF HandleReady, Starts, StTransition
<1>5. CASE HandleMissionMode
  BY <1>5, OtherItemFirst DEF HandleMissionMode, StTransition
<1>6. CASE HandleEeItem("SBL")
  BY <1>6, OtherItemFirst DEF HandleEeItem, StTransition
<1>7. CASE HandleEeItem("FP")
  BY <1>7, OtherItemFirst DEF HandleEeItem, StTransition
<1>8. CASE HandleDisable("DISABLE")
  BY <1>8, OtherItemFirst DEF HandleDisable, StTransition
<1>9. CASE HandleDisable("SYS_ERR")
  <2>1. /\ Item("SYS_ERR") /\ pm_mutex = "free"
        /\ w' \in {"next", "dis_reset", "dis_kill"}
        /\ UNCHANGED <<transition_list, ctl, session, devices>>
    BY <1>9 DEF HandleDisable, Target
  <2>2. head \in Seq(StTransition) /\ head # <<>> /\ "SYS_ERR" = Head(head) /\ head' = Tail(head)
    BY <2>1 DEF TypeOK, Item
  <2>3. \A S : Holds(head', S) => Holds(head, S)
    BY <2>2, HoldsTail
  <2>4. StartsFirst(head) => StartsFirst(head')
    BY <2>2, FirstTail
  <2>5. ctl \notin PowerUpPc
    BY <2>1 DEF TeardownInv, MutexInv, PmMutexExclusion
  <2>6. OnlyErrors(head) => OnlyErrors(head')
    BY <2>3 DEF OnlyErrors
  <2> QED BY <2>1, <2>3, <2>4, <2>5, <2>6 DEF FirstInv
<1>10. CASE FwLoad
  BY <1>0, <1>10, InsideFirst DEF FwLoad, FirstInv
<1>11. CASE FwLoadSbl
  BY <1>0, <1>11, InsideFirst DEF FwLoadSbl, FirstInv
<1>12. CASE FwLoadFail
  BY <1>12, InsideFirst DEF FwLoadFail
<1>13. CASE ReadyWait
  BY <1>13, InsideFirst DEF ReadyWait, ReadyReturn, FirstInv
<1>14. CASE ReadySet
  BY <1>14, InsideFirst DEF ReadySet, ReadyReturn, FirstInv
<1>15. CASE ReadyMmio
  BY <1>15, InsideFirst DEF ReadyMmio, ReadyReturn
<1>16. CASE MissionGet
  BY <1>16, InsideFirst DEF MissionGet
<1>17. CASE MissionWait
  BY <1>17, InsideFirst DEF MissionWait
<1>18. CASE MissionRun
  BY <1>18, InsideFirst DEF MissionRun, MissionPut
<1>19. CASE CreateDevices
  BY <1>19, InsideFirst DEF CreateDevices, AfterCreate
<1>20. CASE ProbeDone
  BY <1>20, InsideFirst DEF ProbeDone, AfterCreate
<1>21. CASE MissionEnd
  BY <1>21, InsideFirst DEF MissionEnd, MissionPut
<1>22. CASE DisableReset
  BY <1>22, InsideFirst DEF DisableReset
<1>23. CASE DisableWait
  BY <1>23, InsideFirst DEF DisableWait
<1>24. CASE DisableKill
  BY <1>24, InsideFirst DEF DisableKill
<1>25. CASE DisableDestroy
  BY <1>25, InsideFirst DEF DisableDestroy
<1>26. CASE DisableRings
  BY <1>26, InsideFirst DEF DisableRings, FirstInv
<1>27. CASE DisableOff
  BY <1>27, InsideFirst DEF DisableOff
<1> QED BY <1>1, <1>2, <1>3, <1>4, <1>5, <1>6, <1>7, <1>8, <1>9, <1>10, <1>11, <1>12,
   <1>13, <1>14, <1>15, <1>16, <1>17, <1>18, <1>19, <1>20, <1>21, <1>22, <1>23, <1>24,
   <1>25, <1>26, <1>27 DEF StWorker

\* Every step keeps it.
LEMMA FirstStep ==
  ASSUME SyncUps \subseteq {FALSE}, TypeOK, NoEdl, SessionPc, TeardownInv, DownInv, OffInv,
         FirstInv, [Next]_vars
  PROVE  FirstInv'
<1>1. CASE UNCHANGED vars
  BY <1>1 DEF vars, FirstInv, NoStarts, Cold, HwOff, Silent
<1> QED BY <1>1, StWorkerFirst, ControllerFirst, OthersFirst DEF Next

\* A controller that is powered up once has one session, which nothing comes after.
LEMMA OnceOrderly == ASSUME MaxPowerUps <= 1 PROVE Spec => []Orderly
<1> DEFINE J == ups = 0 => Off
<1>1. Init => J
  BY DEF Init, Off
<1>2. TypeOK /\ J /\ [Next]_vars => J'
  <2> SUFFICES ASSUME TypeOK, J, [Next]_vars PROVE J'
    OBVIOUS
  <2>1. CASE Controller
    <3>1. CASE PowerUp
      BY <3>1, PmConstants DEF PowerUp, TypeOK
    <3>2. CASE Prepare \/ Unprepare
      BY <3>2 DEF Prepare, Unprepare, Off
    <3>3. CASE \/ PowerUpSteps \/ PowerDownSteps
               \/ \E graceful \in Graceful : PowerDown(graceful)
      <4>1. ~Off /\ ups' = ups
        BY <3>3 DEF PowerUpSteps, PowerDownSteps, UpIrq, UpPor, UpCheck, UpReset, UpQueue,
           UpErr, SyncUp, PowerDown, DownLinkError, DownQueue, DownFlush, DownFree, Off
      <4> QED BY <4>1
    <3> QED BY <2>1, <3>1, <3>2, <3>3 DEF Controller
  <2>2. CASE StWorker
    <3>1. UNCHANGED <<ctl, ups>>
      BY Zenon, <2>2 DEF StWorker, StWorkerStart, StWorkerEnd, HandlePbl, HandleReady,
         HandleMissionMode, HandleEeItem, FwLoad, FwLoadSbl, FwLoadFail, ReadyWait, ReadySet,
         ReadyMmio, MissionGet, MissionWait, MissionRun, CreateDevices, ProbeDone, MissionEnd,
         HandleDisable, DisableReset, DisableWait, DisableKill, DisableDestroy, DisableRings,
         DisableOff
    <3> QED BY <3>1 DEF Off
  <2>3. CASE Tasklet \/ Intvec \/ Suspend \/ Clients \/ Device
    BY <2>3, OthersLeave DEF Off
  <2>4. CASE UNCHANGED vars
    BY <2>4 DEF vars, Off
  <2> QED BY <2>1, <2>2, <2>3, <2>4 DEF Next
<1>3. TypeOK /\ J => Orderly
  BY PmConstants DEF TypeOK, Orderly, More, Off
<1> QED BY <1>1, <1>2, <1>3, TypeCorrect, PTL DEF Spec

\* What holds of the only session of a controller, and of all of them if they are orderly.
SessionInv == NoEdl /\ TeardownInv /\ DownInv /\ VoteInv /\ (Tame => Awake) /\ OffInv /\ FirstInv

\* Every step keeps it.
LEMMA SessionStep ==
  ASSUME "EDL" \notin HwEE, SyncUps \subseteq {FALSE}, MaxPowerUps <= 1 \/ Tame,
         TypeOK, SessionInv, Orderly, [Next]_vars
  PROVE  SessionInv'
BY NoEdlStep, TeardownStep, DownStep, VoteStep, AwakeStep, OffStep, FirstStep
DEF SessionInv, TeardownInv, VoteInv

\* The initial state satisfies it.
LEMMA SessionStart ==
  ASSUME "EDL" \notin HwEE, Init
  PROVE  SessionInv
<1>1. VoteInv
  BY DEF Init, VoteInv, WorkerShape, SessionPc, VoteBalance, WorkerVotes, SuspendVotes
<1>2. OffInv
  BY HoldsNothing DEF Init, OffInv, Off, NoStarts, StartPc, HwOff, Silent
<1>3. Awake /\ FirstInv
  BY DEF Init, Awake, FirstInv
<1>4. NoEdl
  BY PmConstants DEF Init, NoEdl
<1> QED BY <1>1, <1>2, <1>3, <1>4, DownStart DEF SessionInv

\* An error state is left with every MHI device gone: mhi_ready_state_transition() ends a
\* recovery, and the item that started the controller was handled before there was a device.
\* This is true of a controller powered up once with mhi_async_power_up(), and of one powered
\* up again and again after graceful power-downs, without suspends, when its sessions are
\* orderly.
THEOREM ErrorStateIsSticky ==
  ASSUME "EDL" \notin HwEE, SyncUps \subseteq {FALSE}, MaxPowerUps <= 1 \/ Tame
  PROVE  Spec /\ (MaxPowerUps <= 1 \/ []Orderly) => ErrorStateSticky
<1> DEFINE Left == session /\ MHI_PM_IN_ERROR_STATE(pm_state)
                     /\ ~MHI_PM_IN_ERROR_STATE(pm_state')
                     => w \in {"ready_set", "dis_off"} /\ devices = {}
<1>1. Init => SessionInv
  BY SessionStart
<1>2. TypeOK /\ SessionInv /\ Orderly /\ [Next]_vars => SessionInv'
  BY SessionStep
<1>3. TypeOK /\ SessionInv /\ [Next]_vars => [Left]_vars
  <2> SUFFICES ASSUME TypeOK, SessionInv, [Next]_vars, session PROVE Left
    OBVIOUS
  <2>1. ErrorLeft
    BY ErrorStep DEF SessionInv, VoteInv
  <2>2. w \in {"ready_set", "dis_off"} => devices = {}
    BY DEF SessionInv, FirstInv, StartPc
  <2> QED BY <2>1, <2>2 DEF ErrorLeft
<1>4. Spec /\ []Orderly => ErrorStateSticky
  BY <1>1, <1>2, <1>3, TypeCorrect, PTL DEF Spec, ErrorStateSticky
<1>5. CASE MaxPowerUps <= 1
  BY <1>4, <1>5, OnceOrderly, PTL
<1>6. CASE ~(MaxPowerUps <= 1)
  BY <1>4, <1>6, PTL
<1> QED BY <1>5, <1>6

-----------------------------------------------------------------------------
(* The wake doorbell.  mhi_ready_state_transition() clears it with the other  *)
(* doorbells; that nobody holds a vote then is known from how a session starts. *)

\* only a channel device votes, and it gives its votes back with itself
DevicesVote == votes > 0 => devices # {}

\* Every step keeps it so.
LEMMA DevicesVoteStep == TypeOK /\ DevicesVote /\ [Next]_vars => DevicesVote'
<1> SUFFICES ASSUME TypeOK, DevicesVote, [Next]_vars PROVE DevicesVote'
  OBVIOUS
<1> USE DEF DevicesVote
<1>1. CASE StWorker
  <2>1. CASE CreateDevices
    BY <1>1, <2>1 DEF CreateDevices
  <2>2. CASE DisableDestroy
    BY <2>2 DEF DisableDestroy
  <2>3. CASE ~CreateDevices /\ ~DisableDestroy
    <3>1. UNCHANGED <<devices, votes>>
      BY Zenon, <1>1, <2>3 DEF StWorker, StWorkerStart, StWorkerEnd, HandlePbl, HandleReady,
         HandleMissionMode, HandleEeItem, FwLoad, FwLoadSbl, FwLoadFail, ReadyWait, ReadySet,
         ReadyMmio, MissionGet, MissionWait, MissionRun, ProbeDone, MissionEnd, HandleDisable,
         DisableReset, DisableWait, DisableKill, DisableRings, DisableOff
    <3> QED BY <3>1
  <2> QED BY <2>1, <2>2, <2>3
<1>2. CASE Controller
  BY <1>2 DEF Controller, PowerUpSteps, PowerDownSteps, Prepare, PowerUp, UpIrq, UpPor,
     UpCheck, UpReset, UpQueue, UpErr, SyncUp, PowerDown, DownLinkError, DownQueue,
     DownFlush, DownFree, Unprepare
<1>3. CASE Suspend
  BY <1>3 DEF Suspend, SuspendSteps, SuspendCheck, SuspendGet, SuspendWait, SuspendPut,
     SuspendEnter, SuspendWait3, ResumeCheck, ResumeExit, ResumeWait0
<1>4. CASE Clients
  BY <1>4 DEF Clients, mhi_device_get, mhi_device_put, DebugfsGet, DebugfsGetDone,
     DebugfsPut, XferQueue, XferDone, TypeOK
<1>5. CASE Tasklet \/ Intvec \/ Device
  BY <1>5, NoVoters, OthersLeave
<1>6. CASE UNCHANGED vars
  BY <1>6 DEF vars
<1> QED BY <1>1, <1>2, <1>3, <1>4, <1>5, <1>6 DEF Next

\* what the threads other than the tasklet do with votes and the doorbell
VoteMove ==
  \/ UNCHANGED <<dev_wake, wake_set>>
  \/ mhi_assert_dev_wake(TRUE) \/ mhi_assert_dev_wake(FALSE)
  \/ mhi_deassert_dev_wake(FALSE) \/ DriverRemoveVotes
  \/ dev_wake' = 0
  \/ dev_wake' = dev_wake /\ wake_toggle

\* Votes taken and given back in M2 keep the doorbell with them.
LEMMA VotesHold ==
  ASSUME TypeOK, WakeDoorbellHeld, VoteMove, t' = t,
         session' /\ pm_state' = "M2" => session /\ pm_state = "M2"
  PROVE  WakeDoorbellHeld'
<1> SUFFICES ASSUME session, pm_state = "M2", dev_wake' > 0, t \notin {"m1", "m1_wake"}
             PROVE  wake_set'
  BY DEF WakeDoorbellHeld
<1>1. dev_wake > 0 => wake_set
  BY DEF WakeDoorbellHeld
<1> USE DEF MHI_WAKE_DB_FORCE_SET_VALID, MHI_WAKE_DB_CLEAR_VALID, MHI_WAKE_DB_SET_VALID
<1>2. CASE mhi_assert_dev_wake(TRUE)
  BY <1>2 DEF mhi_assert_dev_wake
<1>3. CASE mhi_assert_dev_wake(FALSE)
  <2>1. dev_wake' = dev_wake + 1 /\ dev_wake \in Int
    BY <1>3 DEF mhi_assert_dev_wake, TypeOK
  <2>2. dev_wake > 0 \/ dev_wake = 0
    BY <2>1
  <2> QED BY <1>1, <1>3, <2>2 DEF mhi_assert_dev_wake
<1>4. CASE mhi_deassert_dev_wake(FALSE)
  <2>1. dev_wake' = dev_wake - 1 /\ dev_wake \in Int
    BY <1>4 DEF mhi_deassert_dev_wake, TypeOK
  <2>2. dev_wake > 0 /\ dev_wake # 1
    BY <2>1
  <2> QED BY <1>1, <1>4, <2>2 DEF mhi_deassert_dev_wake
<1>5. CASE DriverRemoveVotes
  <2>1. dev_wake' = dev_wake - votes /\ dev_wake \in Int /\ votes \in Nat
    BY <1>5 DEF DriverRemoveVotes, TypeOK
  <2>2. dev_wake > 0 /\ dev_wake # votes
    BY <2>1
  <2> QED BY <1>1, <1>5, <2>2 DEF DriverRemoveVotes
<1>6. CASE dev_wake' = dev_wake /\ wake_toggle
  BY <1>1, <1>6 DEF wake_toggle
<1>7. CASE UNCHANGED <<dev_wake, wake_set>>
  BY Zenon, <1>1, <1>7
<1>8. dev_wake' # 0
  OBVIOUS
<1> QED BY Zenon, <1>2, <1>3, <1>4, <1>5, <1>6, <1>7, <1>8 DEF VoteMove

\* Every step of the worker other than the last one of the ready transition is such a
\* move, and enters M2 as little as the controller driver does.
LEMMA StWorkerMoves ==
  ASSUME TypeOK, StWorker, ~ReadyMmio
  PROVE  VoteMove /\ t' = t /\ session' = session /\ (pm_state' = "M2" => pm_state = "M2")
<1>1. t' = t /\ session' = session
  BY Zenon DEF StWorker, StWorkerStart, StWorkerEnd, HandlePbl, HandleReady,
     HandleMissionMode, HandleEeItem, FwLoad, FwLoadSbl, FwLoadFail, ReadyWait, ReadySet,
     ReadyMmio, MissionGet, MissionWait, MissionRun, CreateDevices, ProbeDone, MissionEnd,
     HandleDisable, DisableReset, DisableWait, DisableKill, DisableDestroy, DisableRings,
     DisableOff
<1>2. VoteMove
  BY Zenon DEF StWorker, StWorkerStart, StWorkerEnd, HandlePbl, HandleReady,
     HandleMissionMode, HandleEeItem, FwLoad, FwLoadSbl, FwLoadFail, ReadyWait, ReadySet,
     MissionGet, MissionWait, MissionRun, CreateDevices, ProbeDone, MissionEnd,
     HandleDisable, DisableReset, DisableWait, DisableKill, DisableDestroy, DisableRings,
     DisableOff, MissionPut, GetSyncGivesUp, VoteMove
<1>3. \/ pm_state' = pm_state
      \/ \E st \in {"POR", "SYS_ERR_PROCESS", "SHUTDOWN_PROCESS", "DISABLE"} :
            pm_state' = mhi_tryset_pm_state(pm_state, st)
  BY DEF StWorker, StWorkerStart, StWorkerEnd, HandlePbl, HandleReady,
     HandleMissionMode, HandleEeItem, FwLoad, FwLoadSbl, FwLoadFail, ReadyWait, ReadySet,
     MissionGet, MissionWait, MissionRun, CreateDevices, ProbeDone, MissionEnd,
     HandleDisable, DisableReset, DisableWait, DisableKill, DisableDestroy, DisableRings,
     DisableOff, RefreshEe, Target
<1>4. pm_state' = "M2" => pm_state = "M2"
  BY <1>3, TableDecides
<1> QED BY <1>1, <1>2, <1>4

\* So is every step of the controller driver,
LEMMA ControllerMoves ==
  ASSUME TypeOK, Controller
  PROVE  VoteMove /\ t' = t /\ (session' /\ pm_state' = "M2" => session /\ pm_state = "M2")
<1>1. t' = t /\ VoteMove
  BY Zenon DEF Controller, PowerUpSteps, PowerDownSteps, Prepare, PowerUp, UpIrq, UpPor,
     UpCheck, UpReset, UpQueue, UpErr, SyncUp, PowerDown, DownLinkError, DownQueue,
     DownFlush, DownFree, Unprepare, VoteMove
<1>2. pm_state' = "M2" => pm_state = "M2" /\ (session' => session)
  BY TableDecides DEF Controller, PowerUpSteps, PowerDownSteps, Prepare, PowerUp, UpIrq, UpPor,
     UpCheck, UpReset, UpQueue, UpErr, SyncUp, PowerDown, DownLinkError, DownQueue,
     DownFlush, DownFree, Unprepare
<1> QED BY <1>1, <1>2

\* and every step of a suspend or of a client.
LEMMA ClientsMove ==
  ASSUME TypeOK, Suspend \/ Clients
  PROVE  VoteMove /\ t' = t /\ session' = session /\ (pm_state' = "M2" => pm_state = "M2")
<1>1. session' = session
  BY OthersLeave
<1>2. CASE Suspend
  <2>1. VoteMove /\ t' = t
    BY Zenon, <1>2 DEF Suspend, SuspendSteps, SuspendCheck, SuspendGet, SuspendWait, SuspendPut,
       SuspendEnter, SuspendWait3, ResumeCheck, ResumeExit, ResumeWait0, VoteMove
  <2>2. \/ pm_state' = pm_state
        \/ \E st \in {"M3_ENTER", "M3_EXIT"} : pm_state' = mhi_tryset_pm_state(pm_state, st)
    BY Zenon, <1>2 DEF Suspend, SuspendSteps, SuspendCheck, SuspendGet, SuspendWait, SuspendPut,
       SuspendEnter, SuspendWait3, ResumeCheck, ResumeExit, ResumeWait0
  <2> QED BY <1>1, <2>1, <2>2, TableDecides
<1>3. CASE Clients
  <2>1. VoteMove /\ t' = t /\ pm_state' = pm_state
    BY Zenon, <1>3 DEF Clients, mhi_device_get, mhi_device_put, DebugfsGet, DebugfsGetDone,
       DebugfsPut, XferQueue, XferDone, GetSyncGivesUp, VoteMove
  <2> QED BY <1>1, <2>1
<1> QED BY <1>2, <1>3

\* The M1 handler enters M2 and, when somebody votes, sets the doorbell before it is done.
LEMMA TaskletHolds ==
  ASSUME TypeOK, WakeDoorbellHeld, Tasklet
  PROVE  WakeDoorbellHeld'
<1>1. dev_wake' = dev_wake /\ session' = session
  BY NoVoters, OthersLeave
<1>2. CASE TaskM1
  BY <1>1, <1>2, TableDecides DEF TaskM1, WakeDoorbellHeld
<1>3. CASE TaskM1Check
  BY <1>1, <1>3 DEF TaskM1Check, WakeDoorbellHeld, TypeOK
<1>4. CASE TaskM1Wake
  BY <1>1, <1>4 DEF TaskM1Wake, WakeKick, MHI_WAKE_DB_FORCE_SET_VALID,
     MHI_WAKE_DB_CLEAR_VALID, WakeDoorbellHeld
<1>5. CASE TaskM0Rings
  <2>1. pm_state' = pm_state /\ (pm_state = "M2" => wake_set' = (dev_wake # 0))
    BY <1>5 DEF TaskM0Rings, WakeCycle, MHI_WAKE_DB_CLEAR_VALID
  <2>2. dev_wake > 0 => dev_wake # 0
    BY DEF TypeOK
  <2> QED BY Zenon, <1>1, <2>1, <2>2 DEF WakeDoorbellHeld
<1>6. ASSUME wake_set' = wake_set, t \notin {"m1", "m1_wake"}, pm_state' = "M2" => pm_state = "M2"
      PROVE  WakeDoorbellHeld'
  BY <1>1, <1>6 DEF WakeDoorbellHeld
<1>7. CASE TaskStart \/ TaskEnter \/ TaskSysErrQueue \/ TaskLoopEnd
  BY <1>6, <1>7 DEF TaskStart, TaskEnter, TaskSysErrQueue, TaskLoopEnd
<1>8. CASE TaskM0 \/ TaskM3 \/ TaskSysErr \/ TaskPoll
  BY <1>6, <1>8, TableDecides DEF TaskM0, TaskM3, TaskSysErr, TaskPoll, Consume
<1>9. ASSUME NEW e \in DeviceEE, TaskEe(e) PROVE WakeDoorbellHeld'
  BY <1>6, <1>9 DEF TaskEe, Consume
<1> QED BY <1>2, <1>3, <1>4, <1>5, <1>7, <1>8, <1>9 DEF Tasklet

\* The interrupt thread and the device touch neither the votes nor the doorbell.
LEMMA InterruptHolds ==
  ASSUME TypeOK, WakeDoorbellHeld, Intvec \/ Device
  PROVE  WakeDoorbellHeld'
<1>1. dev_wake' = dev_wake /\ session' = session
  BY NoVoters, OthersLeave
<1>2. UNCHANGED <<wake_set, t>>
  BY Zenon DEF Intvec, IntvecRead, IntvecDecide, Device, HwResetDone, HwReady, HwEnter, HwIdle,
     HwWake, HwMsi, HwBoot, HwSysErr, HwFrame
<1>3. pm_state' = pm_state \/ pm_state' = mhi_tryset_pm_state(pm_state, "SYS_ERR_DETECT")
  BY Zenon DEF Intvec, IntvecRead, IntvecDecide, Device, HwResetDone, HwReady, HwEnter, HwIdle,
     HwWake, HwMsi, HwBoot, HwSysErr, HwFrame
<1> QED BY <1>1, <1>2, <1>3, TableDecides DEF WakeDoorbellHeld

\* A vote held in M2 is seen by the device, whatever the order of the votes, the M1 event
\* and its two-step handler: with neither suspend nor debugfs, any number of votes, packets,
\* events and recoveries, in a controller powered up once with mhi_async_power_up(), and in
\* one powered up again and again after graceful power-downs when its sessions are orderly.
THEOREM WakeDoorbellIsHeld ==
  ASSUME "EDL" \notin HwEE, SyncUps \subseteq {FALSE}, MaxPowerUps <= 1 \/ Tame,
         ~Suspends, ~Debugfs
  PROVE  Spec /\ (MaxPowerUps <= 1 \/ []Orderly) => []WakeDoorbellHeld
<1> DEFINE I == SessionInv /\ OnlyClientsVote /\ DevicesVote
<1>1. Init => I /\ WakeDoorbellHeld
  <2>1. Init => OnlyClientsVote /\ DevicesVote /\ WakeDoorbellHeld
    BY DEF Init, OnlyClientsVote, DevicesVote, WakeDoorbellHeld
  <2> QED BY <2>1, SessionStart
<1>2. TypeOK /\ I /\ Orderly /\ [Next]_vars => I'
  BY SessionStep, OnlyClientsStep, DevicesVoteStep, TypeSplit DEF SessionInv, VoteInv
<1>3. TypeOK /\ I /\ WakeDoorbellHeld /\ [Next]_vars => WakeDoorbellHeld'
  <2> SUFFICES ASSUME TypeOK, I, WakeDoorbellHeld, [Next]_vars PROVE WakeDoorbellHeld'
    OBVIOUS
  <2>1. CASE ReadyMmio
    <3>1. w = "ready_mmio" /\ (session => devices = {})
      BY <2>1 DEF ReadyMmio, SessionInv, FirstInv, StartPc
    <3>2. session => dev_wake = 0
      BY <3>1 DEF OnlyClientsVote, DevicesVote, SessionInv, VoteInv, VoteBalance, WorkerVotes, SuspendVotes,
         WorkerShape, TypeOK
    <3> QED BY <2>1, <3>2 DEF ReadyMmio, WakeDoorbellHeld
  <2>2. CASE StWorker /\ ~ReadyMmio
    BY <2>2, StWorkerMoves, VotesHold
  <2>3. CASE Controller
    BY <2>3, ControllerMoves, VotesHold
  <2>4. CASE Suspend \/ Clients
    BY <2>4, ClientsMove, VotesHold
  <2>5. CASE Tasklet
    BY <2>5, TaskletHolds
  <2>6. CASE Intvec \/ Device
    BY <2>6, InterruptHolds
  <2>7. CASE UNCHANGED vars
    BY <2>7 DEF vars, WakeDoorbellHeld
  <2> QED BY <2>1, <2>2, <2>3, <2>4, <2>5, <2>6, <2>7 DEF Next
<1>4. Spec /\ []Orderly => []WakeDoorbellHeld
  BY <1>1, <1>2, <1>3, TypeCorrect, PTL DEF Spec
<1>5. CASE MaxPowerUps <= 1
  BY <1>4, <1>5, OnceOrderly, PTL
<1>6. CASE ~(MaxPowerUps <= 1)
  BY <1>4, <1>6, PTL
<1> QED BY <1>5, <1>6
=============================================================================
