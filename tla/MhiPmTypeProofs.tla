--------------------------- MODULE MhiPmTypeProofs ---------------------------
(***************************************************************************)
(* Type correctness of MhiPm for every device and every bound.  TypeOK is  *)
(* inductive; it is split into the flags and the rest because a flag that   *)
(* is assigned a formula is a matter for Zenon, and numbers, sequences and  *)
(* records are a matter for SMT.                                            *)
(***************************************************************************)
EXTENDS MhiPm, TLAPS

USE DEF cntrl, wakev, queue, worker, res, task, intvec, driver, tally, client, hw

Flags ==
  /\ wake_set \in BOOLEAN /\ work \in BOOLEAN /\ ctxt \in BOOLEAN /\ irqs \in BOOLEAN
  /\ t_sched \in BOOLEAN /\ t_any \in BOOLEAN /\ iv_pend \in BOOLEAN
  /\ fatal_work \in BOOLEAN /\ session \in BOOLEAN /\ hw_reset \in BOOLEAN

Shape ==
  /\ pm_state \in PmState /\ dev_state \in MhiState /\ ee \in EE
  /\ dev_wake \in Int /\ pending_pkts \in Nat
  /\ transition_list \in Seq(StTransition)
  /\ w \in WorkerPc /\ head \in Seq(StTransition)
  /\ w_to \in {"none", "MM", "SYS_ERR_PROCESS", "SHUTDOWN_PROCESS"}
  /\ pm_mutex \in {"free", "ctl", "worker"}
  /\ devices \subseteq ChanEE
  /\ t \in TaskPc /\ iv \in IntvecPc
  /\ ctl \in CtlPc /\ cur_ee \in EE
  /\ flush \in {"none", "pending", "running", "done"}
  /\ ups \in 0..MaxPowerUps
  /\ votes \in Nat /\ dvotes \in Nat /\ syncs \in Nat
  /\ s \in SuspPc
  /\ hw_state \in MhiState /\ hw_ee \in DeviceEE
  /\ hw_req \in {"none", "M0", "M2", "M3"}
  /\ evq \in Seq(Event) /\ budget \in 0..MaxEvents

\* The two parts are the type invariant.
LEMMA TypeSplit == TypeOK <=> Flags /\ Shape
BY Zenon DEF TypeOK, Flags, Shape

-----------------------------------------------------------------------------
(* The flags, one lemma per thread and one step per action.                *)

\* The flags hold initially.
LEMMA InitFlags == Init => Flags
BY Zenon DEF Init, Flags

\* A step of the state worker keeps the flags.
LEMMA StWorkerFlags == ASSUME Flags, StWorker PROVE Flags'
<1>1. CASE StWorkerStart
  BY Zenon, <1>1 DEF Flags, StWorkerStart
<1>2. CASE StWorkerEnd
  BY Zenon, <1>2 DEF Flags, StWorkerEnd
<1>3. CASE HandlePbl
  BY Zenon, <1>3 DEF Flags, HandlePbl, Item, RefreshEe
<1>4. CASE HandleReady
  BY Zenon, <1>4 DEF Flags, HandleReady, Item
<1>5. CASE HandleMissionMode
  BY Zenon, <1>5 DEF Flags, HandleMissionMode, Item, RefreshEe
<1>6. CASE HandleEeItem("SBL")
  BY Zenon, <1>6 DEF Flags, HandleEeItem, Item
<1>7. CASE HandleEeItem("FP")
  BY Zenon, <1>7 DEF Flags, HandleEeItem, Item
<1>8. CASE FwLoad
  BY Zenon, <1>8 DEF Flags, FwLoad
<1>9. CASE FwLoadSbl
  BY Zenon, <1>9 DEF Flags, FwLoadSbl
<1>10. CASE FwLoadFail
  BY Zenon, <1>10 DEF Flags, FwLoadFail
<1>11. CASE ReadyWait
  BY Zenon, <1>11 DEF Flags, ReadyWait, ReadyReturn, HwIsReady
<1>12. CASE ReadySet
  BY Zenon, <1>12 DEF Flags, ReadySet, ReadyReturn
<1>13. CASE ReadyMmio
  BY Zenon, <1>13 DEF Flags, ReadyMmio, ReadyReturn
<1>14. CASE MissionGet
  BY Zenon, <1>14 DEF Flags, MissionGet, mhi_assert_dev_wake
<1>15. CASE MissionWait
  BY Zenon, <1>15 DEF Flags, MissionWait, GetSyncGivesUp, mhi_deassert_dev_wake
<1>16. CASE MissionRun
  BY Zenon, <1>16 DEF Flags, MissionRun, MissionPut, mhi_deassert_dev_wake
<1>17. CASE CreateDevices
  BY Zenon, <1>17 DEF Flags, CreateDevices, mhi_assert_dev_wake, AfterCreate
<1>18. CASE ProbeDone
  BY Zenon, <1>18 DEF Flags, ProbeDone, mhi_deassert_dev_wake, AfterCreate
<1>19. CASE MissionEnd
  BY Zenon, <1>19 DEF Flags, MissionEnd, MissionPut, mhi_deassert_dev_wake
<1>20. CASE HandleDisable("SYS_ERR")
  BY Zenon, <1>20 DEF Flags, HandleDisable, Item, Target
<1>21. CASE HandleDisable("DISABLE")
  BY Zenon, <1>21 DEF Flags, HandleDisable, Item, Target
<1>22. CASE DisableReset
  BY Zenon, <1>22 DEF Flags, DisableReset
<1>23. CASE DisableWait
  BY Zenon, <1>23 DEF Flags, DisableWait
<1>24. CASE DisableKill
  BY Zenon, <1>24 DEF Flags, DisableKill, tasklet_kill
<1>25. CASE DisableDestroy
  BY Zenon, <1>25 DEF Flags, DisableDestroy, DriverRemoveVotes
<1>26. CASE DisableRings
  BY Zenon, <1>26 DEF Flags, DisableRings
<1>27. CASE DisableOff
  BY Zenon, <1>27 DEF Flags, DisableOff
<1> QED BY <1>1, <1>2, <1>3, <1>4, <1>5, <1>6, <1>7, <1>8, <1>9, <1>10, <1>11, <1>12,
   <1>13, <1>14, <1>15, <1>16, <1>17, <1>18, <1>19, <1>20, <1>21, <1>22, <1>23, <1>24,
   <1>25, <1>26, <1>27 DEF StWorker

\* A step of the tasklet of the control ring keeps the flags.
LEMMA TaskletFlags == ASSUME Flags, Tasklet PROVE Flags'
<1>1. CASE TaskStart
  BY Zenon, <1>1 DEF Flags, TaskStart
<1>2. CASE TaskEnter
  BY Zenon, <1>2 DEF Flags, TaskEnter
<1>3. CASE TaskM0
  BY Zenon, <1>3 DEF Flags, TaskM0, Consume, State
<1>4. CASE TaskM0Rings
  BY Zenon, <1>4 DEF Flags, TaskM0Rings, WakeCycle
<1>5. CASE TaskM1
  BY Zenon, <1>5 DEF Flags, TaskM1, Consume, State
<1>6. CASE TaskM1Check
  BY Zenon, <1>6 DEF Flags, TaskM1Check
<1>7. CASE TaskM1Wake
  BY Zenon, <1>7 DEF Flags, TaskM1Wake, WakeKick
<1>8. CASE TaskM3
  BY Zenon, <1>8 DEF Flags, TaskM3, Consume, State
<1>9. CASE TaskSysErr
  BY Zenon, <1>9 DEF Flags, TaskSysErr, Consume, State
<1>10. CASE TaskSysErrQueue
  BY Zenon, <1>10 DEF Flags, TaskSysErrQueue, SysErrHandler, mhi_queue_state_transition
<1>11. CASE TaskLoopEnd
  BY Zenon, <1>11 DEF Flags, TaskLoopEnd, NothingHandled
<1>12. CASE TaskPoll
  BY Zenon, <1>12 DEF Flags, TaskPoll
<1>13. ASSUME NEW e \in DeviceEE, TaskEe(e) PROVE Flags'
  BY Zenon, <1>13 DEF Flags, TaskEe, mhi_queue_state_transition, Consume, EnvEv
<1> QED BY <1>1, <1>2, <1>3, <1>4, <1>5, <1>6, <1>7, <1>8, <1>9, <1>10, <1>11, <1>12,
   <1>13 DEF Tasklet

\* A step of the BHI interrupt thread keeps the flags.
LEMMA IntvecFlags == ASSUME Flags, Intvec PROVE Flags'
<1>1. CASE IntvecRead
  BY Zenon, <1>1 DEF Flags, IntvecRead, mhi_queue_state_transition
<1>2. CASE IntvecDecide
  BY Zenon, <1>2 DEF Flags, IntvecDecide, SysErrHandler, mhi_queue_state_transition
<1> QED BY <1>1, <1>2 DEF Intvec

\* A step of the controller driver keeps the flags.
LEMMA ControllerFlags == ASSUME Flags, Controller PROVE Flags'
<1>1. CASE Prepare
  BY Zenon, <1>1 DEF Flags, Prepare
<1>2. CASE PowerUp
  BY Zenon, <1>2 DEF Flags, PowerUp, Quiet
<1>3. CASE UpIrq
  BY Zenon, <1>3 DEF Flags, UpIrq
<1>4. CASE UpPor
  BY Zenon, <1>4 DEF Flags, UpPor
<1>5. CASE UpCheck
  BY Zenon, <1>5 DEF Flags, UpCheck
<1>6. CASE UpReset
  BY Zenon, <1>6 DEF Flags, UpReset
<1>7. CASE UpQueue
  BY Zenon, <1>7 DEF Flags, UpQueue, mhi_queue_state_transition, NextTransition
<1>8. CASE UpErr
  BY Zenon, <1>8 DEF Flags, UpErr, FreeIrqs
<1>9. CASE SyncUp
  BY Zenon, <1>9 DEF Flags, SyncUp, mhi_queue_state_transition
<1>10. ASSUME NEW graceful \in Graceful, PowerDown(graceful) PROVE Flags'
  BY Zenon, <1>10 DEF Flags, PowerDown
<1>11. CASE DownLinkError
  BY Zenon, <1>11 DEF Flags, DownLinkError
<1>12. CASE DownQueue
  BY Zenon, <1>12 DEF Flags, DownQueue, mhi_queue_state_transition
<1>13. CASE DownFlush
  BY Zenon, <1>13 DEF Flags, DownFlush, flush_work
<1>14. CASE DownFree
  BY Zenon, <1>14 DEF Flags, DownFree, FreeIrqs
<1>15. CASE Unprepare
  BY Zenon, <1>15 DEF Flags, Unprepare
<1> QED BY <1>1, <1>2, <1>3, <1>4, <1>5, <1>6, <1>7, <1>8, <1>9, <1>10, <1>11, <1>12,
   <1>13, <1>14, <1>15 DEF Controller, PowerUpSteps, PowerDownSteps

\* A step of suspend and resume keeps the flags.
LEMMA SuspendFlags == ASSUME Flags, Suspend PROVE Flags'
<1>1. CASE SuspendCheck
  BY Zenon, <1>1 DEF Flags, SuspendCheck
<1>2. CASE SuspendGet
  BY Zenon, <1>2 DEF Flags, SuspendGet, mhi_assert_dev_wake
<1>3. CASE SuspendWait
  BY Zenon, <1>3 DEF Flags, SuspendWait
<1>4. CASE SuspendPut
  BY Zenon, <1>4 DEF Flags, SuspendPut, mhi_deassert_dev_wake
<1>5. CASE SuspendEnter
  BY Zenon, <1>5 DEF Flags, SuspendEnter
<1>6. CASE SuspendWait3
  BY Zenon, <1>6 DEF Flags, SuspendWait3
<1>7. CASE ResumeCheck
  BY Zenon, <1>7 DEF Flags, ResumeCheck
<1>8. CASE ResumeExit
  BY Zenon, <1>8 DEF Flags, ResumeExit
<1>9. CASE ResumeWait0
  BY Zenon, <1>9 DEF Flags, ResumeWait0
<1> QED BY <1>1, <1>2, <1>3, <1>4, <1>5, <1>6, <1>7, <1>8, <1>9 DEF Suspend, SuspendSteps

\* A step of client drivers and debugfs keeps the flags.
LEMMA ClientsFlags == ASSUME Flags, Clients PROVE Flags'
<1>1. CASE mhi_device_get
  BY Zenon, <1>1 DEF Flags, mhi_device_get, mhi_assert_dev_wake
<1>2. CASE mhi_device_put
  BY Zenon, <1>2 DEF Flags, mhi_device_put, mhi_deassert_dev_wake
<1>3. CASE DebugfsGet
  BY Zenon, <1>3 DEF Flags, DebugfsGet, mhi_assert_dev_wake
<1>4. CASE DebugfsGetDone
  BY Zenon, <1>4 DEF Flags, DebugfsGetDone, GetSyncGivesUp, mhi_deassert_dev_wake
<1>5. CASE DebugfsPut
  BY Zenon, <1>5 DEF Flags, DebugfsPut, mhi_deassert_dev_wake
<1>6. CASE XferQueue
  BY Zenon, <1>6 DEF Flags, XferQueue, wake_toggle
<1>7. CASE XferDone
  BY Zenon, <1>7 DEF Flags, XferDone
<1> QED BY <1>1, <1>2, <1>3, <1>4, <1>5, <1>6, <1>7 DEF Clients

\* A step of the device keeps the flags.
LEMMA DeviceFlags == ASSUME Flags, Device PROVE Flags'
<1>1. CASE HwResetDone
  BY Zenon, <1>1 DEF Flags, HwResetDone, HwFrame, NoEvent
<1>2. CASE HwReady
  BY Zenon, <1>2 DEF Flags, HwReady, HwFrame, NoEvent
<1>3. CASE HwEnter
  BY Zenon, <1>3 DEF Flags, HwEnter, HwFrame, Emit, NoEvent, State
<1>4. CASE HwIdle
  BY Zenon, <1>4 DEF Flags, HwIdle, HwFrame, Emit, State
<1>5. CASE HwWake
  BY Zenon, <1>5 DEF Flags, HwWake, HwFrame, Emit, State
<1>6. CASE HwMsi
  BY Zenon, <1>6 DEF Flags, HwMsi, HwFrame
<1>7. ASSUME NEW e \in HwEE, HwBoot(e) PROVE Flags'
  BY Zenon, <1>7 DEF Flags, HwBoot, HwFrame, Emit, EnvEv
<1>8. ASSUME NEW e \in HwEE, HwSysErr(e) PROVE Flags'
  BY Zenon, <1>8 DEF Flags, HwSysErr, HwFrame, Emit, NoEvent, State
<1> QED BY <1>1, <1>2, <1>3, <1>4, <1>5, <1>6, <1>7, <1>8 DEF Device

-----------------------------------------------------------------------------
(* The other variables.                                                    *)

USE DEF PmState, MhiState, DeviceEE, EE, StTransition, WorkerPc, TaskPc, IntvecPc, CtlPc,
        SuspPc, Event

\* The other variables have their types initially.
LEMMA InitShape == Init => Shape
BY PmConstants DEF Init, Shape

\* A step of the state worker keeps the types of the other variables.
LEMMA StWorkerShape == ASSUME Shape, StWorker PROVE Shape'
<1>1. CASE StWorkerStart
  BY PmConstants, <1>1 DEF Shape, StWorkerStart
<1>2. CASE StWorkerEnd
  BY PmConstants, <1>2 DEF Shape, StWorkerEnd
<1>3. CASE HandlePbl
  BY PmConstants, <1>3 DEF Shape, HandlePbl, Item, RefreshEe
<1>4. CASE HandleReady
  BY PmConstants, <1>4 DEF Shape, HandleReady, Item
<1>5. CASE HandleMissionMode
  BY PmConstants, <1>5 DEF Shape, HandleMissionMode, Item, RefreshEe
<1>6. CASE HandleEeItem("SBL")
  BY PmConstants, <1>6 DEF Shape, HandleEeItem, Item
<1>7. CASE HandleEeItem("FP")
  BY PmConstants, <1>7 DEF Shape, HandleEeItem, Item
<1>8. CASE FwLoad
  BY PmConstants, <1>8 DEF Shape, FwLoad
<1>9. CASE FwLoadSbl
  BY PmConstants, <1>9 DEF Shape, FwLoadSbl
<1>10. CASE FwLoadFail
  BY PmConstants, <1>10 DEF Shape, FwLoadFail
<1>11. CASE ReadyWait
  BY PmConstants, <1>11 DEF Shape, ReadyWait, ReadyReturn, HwIsReady
<1>12. CASE ReadySet
  BY PmConstants, <1>12 DEF Shape, ReadySet, ReadyReturn, mhi_tryset_pm_state
<1>13. CASE ReadyMmio
  BY PmConstants, <1>13 DEF Shape, ReadyMmio, ReadyReturn
<1>14. CASE MissionGet
  BY PmConstants, <1>14 DEF Shape, MissionGet, mhi_assert_dev_wake
<1>15. CASE MissionWait
  BY PmConstants, <1>15 DEF Shape, MissionWait, GetSyncGivesUp, mhi_deassert_dev_wake
<1>16. CASE MissionRun
  BY PmConstants, <1>16 DEF Shape, MissionRun, MissionPut, mhi_deassert_dev_wake
<1>17. CASE CreateDevices
  <2>1. devices' \subseteq ChanEE
    BY Zenon, <1>17 DEF Shape, CreateDevices
  <2>2. dev_wake' = dev_wake \/ dev_wake' = dev_wake + 1
    BY Zenon, <1>17 DEF CreateDevices, mhi_assert_dev_wake
  <2>3. dev_wake' \in Int
    BY <2>2 DEF Shape
  <2>4. w' \in WorkerPc
    BY Zenon, <1>17 DEF CreateDevices, AfterCreate
  <2> QED BY <1>17, <2>1, <2>3, <2>4 DEF Shape, CreateDevices
<1>18. CASE ProbeDone
  BY PmConstants, <1>18 DEF Shape, ProbeDone, mhi_deassert_dev_wake, AfterCreate
<1>19. CASE MissionEnd
  BY PmConstants, <1>19 DEF Shape, MissionEnd, MissionPut, mhi_deassert_dev_wake
<1>20. CASE HandleDisable("SYS_ERR")
  BY PmConstants, <1>20 DEF Shape, HandleDisable, Item, Target, mhi_tryset_pm_state
<1>21. CASE HandleDisable("DISABLE")
  BY PmConstants, <1>21 DEF Shape, HandleDisable, Item, Target, mhi_tryset_pm_state
<1>22. CASE DisableReset
  BY PmConstants, <1>22 DEF Shape, DisableReset
<1>23. CASE DisableWait
  BY PmConstants, <1>23 DEF Shape, DisableWait
<1>24. CASE DisableKill
  BY PmConstants, <1>24 DEF Shape, DisableKill, tasklet_kill
<1>25. CASE DisableDestroy
  BY PmConstants, <1>25 DEF Shape, DisableDestroy, DriverRemoveVotes
<1>26. CASE DisableRings
  BY PmConstants, <1>26 DEF Shape, DisableRings
<1>27. CASE DisableOff
  BY PmConstants, <1>27 DEF Shape, DisableOff, mhi_tryset_pm_state
<1> QED BY <1>1, <1>2, <1>3, <1>4, <1>5, <1>6, <1>7, <1>8, <1>9, <1>10, <1>11, <1>12,
   <1>13, <1>14, <1>15, <1>16, <1>17, <1>18, <1>19, <1>20, <1>21, <1>22, <1>23, <1>24,
   <1>25, <1>26, <1>27 DEF StWorker

\* A step of the tasklet of the control ring keeps the types of the other variables.
LEMMA TaskletShape == ASSUME Shape, Tasklet PROVE Shape'
<1>1. CASE TaskStart
  BY PmConstants, <1>1 DEF Shape, TaskStart
<1>2. CASE TaskEnter
  BY PmConstants, <1>2 DEF Shape, TaskEnter
<1>3. CASE TaskM0
  BY PmConstants, <1>3 DEF Shape, TaskM0, Consume, State, mhi_tryset_pm_state
<1>4. CASE TaskM0Rings
  BY PmConstants, <1>4 DEF Shape, TaskM0Rings, WakeCycle
<1>5. CASE TaskM1
  BY PmConstants, <1>5 DEF Shape, TaskM1, Consume, State, mhi_tryset_pm_state
<1>6. CASE TaskM1Check
  BY PmConstants, <1>6 DEF Shape, TaskM1Check
<1>7. CASE TaskM1Wake
  BY PmConstants, <1>7 DEF Shape, TaskM1Wake, WakeKick
<1>8. CASE TaskM3
  BY PmConstants, <1>8 DEF Shape, TaskM3, Consume, State, mhi_tryset_pm_state
<1>9. CASE TaskSysErr
  BY PmConstants, <1>9 DEF Shape, TaskSysErr, Consume, State, mhi_tryset_pm_state
<1>10. CASE TaskSysErrQueue
  BY PmConstants, <1>10 DEF Shape, TaskSysErrQueue, SysErrHandler,
     mhi_queue_state_transition
<1>11. CASE TaskLoopEnd
  BY PmConstants, <1>11 DEF Shape, TaskLoopEnd, NothingHandled
<1>12. CASE TaskPoll
  BY PmConstants, <1>12 DEF Shape, TaskPoll, mhi_tryset_pm_state
<1>13. ASSUME NEW e \in DeviceEE, TaskEe(e) PROVE Shape'
  <2>1. transition_list' \in Seq(StTransition)
    <3>1. CASE e \in DOMAIN EeItem
      <4>1. EeItem[e] \in StTransition
        BY <3>1 DEF EeItem
      <4>2. transition_list' = Append(transition_list, EeItem[e])
        BY Zenon, <1>13, <3>1 DEF TaskEe, mhi_queue_state_transition
      <4>3. transition_list \in Seq(StTransition)
        BY Zenon DEF Shape
      <4> QED BY ONLY <4>1, <4>2, <4>3
    <3>2. CASE e \notin DOMAIN EeItem
      BY Zenon, <1>13, <3>2 DEF Shape, TaskEe
    <3> QED BY <3>1, <3>2
  <2>2. ee' \in EE
    BY Zenon, <1>13 DEF Shape, TaskEe
  <2> QED BY <2>1, <2>2, <1>13 DEF Shape, TaskEe, Consume
<1> QED BY <1>1, <1>2, <1>3, <1>4, <1>5, <1>6, <1>7, <1>8, <1>9, <1>10, <1>11, <1>12,
   <1>13 DEF Tasklet

\* A step of the BHI interrupt thread keeps the types of the other variables.
LEMMA IntvecShape == ASSUME Shape, Intvec PROVE Shape'
<1>1. CASE IntvecRead
  <2>1. transition_list' \in Seq(StTransition)
    <3>1. CASE transition_list' = Append(transition_list, "READY")
      BY <3>1 DEF Shape
    <3>2. CASE transition_list' = transition_list
      BY Zenon, <3>2 DEF Shape
    <3> QED BY Zenon, <1>1, <3>1, <3>2 DEF IntvecRead, mhi_queue_state_transition
  <2>2. pm_state' \in PmState
    BY Zenon, <1>1 DEF Shape, IntvecRead, mhi_tryset_pm_state
  <2>3. ee' \in EE /\ iv' \in IntvecPc
    BY Zenon, <1>1 DEF Shape, IntvecRead
  <2> QED BY <1>1, <2>1, <2>2, <2>3 DEF Shape, IntvecRead
<1>2. CASE IntvecDecide
  BY PmConstants, <1>2 DEF Shape, IntvecDecide, SysErrHandler, mhi_queue_state_transition
<1> QED BY <1>1, <1>2 DEF Intvec

\* A step of the controller driver keeps the types of the other variables.
LEMMA ControllerShape == ASSUME Shape, Controller PROVE Shape'
<1>1. CASE Prepare
  <2>1. dev_wake' \in Int /\ pending_pkts' \in Nat
    BY <1>1 DEF Prepare
  <2>2. CASE ctxt' = TRUE /\ evq' = <<>> /\ ctl' = "prepared"
    BY <1>1, <2>1, <2>2 DEF Shape, Prepare
  <2>3. CASE UNCHANGED <<ctxt, evq, ctl>>
    BY <1>1, <2>1, <2>3 DEF Shape, Prepare
  <2> QED BY Zenon, <1>1, <2>2, <2>3 DEF Prepare
<1>2. CASE PowerUp
  BY PmConstants, <1>2 DEF Shape, PowerUp, Quiet
<1>3. CASE UpIrq
  BY PmConstants, <1>3 DEF Shape, UpIrq
<1>4. CASE UpPor
  BY PmConstants, <1>4 DEF Shape, UpPor
<1>5. CASE UpCheck
  BY PmConstants, <1>5 DEF Shape, UpCheck
<1>6. CASE UpReset
  BY PmConstants, <1>6 DEF Shape, UpReset
<1>7. CASE UpQueue
  BY PmConstants, <1>7 DEF Shape, UpQueue, mhi_queue_state_transition, NextTransition
<1>8. CASE UpErr
  BY PmConstants, <1>8 DEF Shape, UpErr, FreeIrqs
<1>9. CASE SyncUp
  <2>1. CASE mhi_queue_state_transition("READY") /\ ctl' = "on"
    BY <1>9, <2>1 DEF Shape, SyncUp, mhi_queue_state_transition
  <2>2. CASE ctl' \in {"on", "dn_ld"} /\ UNCHANGED queue
    BY <1>9, <2>2 DEF Shape, SyncUp
  <2> QED BY <1>9, <2>1, <2>2 DEF SyncUp
<1>10. ASSUME NEW graceful \in Graceful, PowerDown(graceful) PROVE Shape'
  BY PmConstants, <1>10 DEF Shape, PowerDown
<1>11. CASE DownLinkError
  BY PmConstants, <1>11 DEF Shape, DownLinkError, mhi_tryset_pm_state
<1>12. CASE DownQueue
  BY PmConstants, <1>12 DEF Shape, DownQueue, mhi_queue_state_transition
<1>13. CASE DownFlush
  BY PmConstants, <1>13 DEF Shape, DownFlush, flush_work
<1>14. CASE DownFree
  BY PmConstants, <1>14 DEF Shape, DownFree, FreeIrqs
<1>15. CASE Unprepare
  BY PmConstants, <1>15 DEF Shape, Unprepare
<1> QED BY <1>1, <1>2, <1>3, <1>4, <1>5, <1>6, <1>7, <1>8, <1>9, <1>10, <1>11, <1>12,
   <1>13, <1>14, <1>15 DEF Controller, PowerUpSteps, PowerDownSteps

\* A step of suspend and resume keeps the types of the other variables.
LEMMA SuspendShape == ASSUME Shape, Suspend PROVE Shape'
<1>1. CASE SuspendCheck
  BY PmConstants, <1>1 DEF Shape, SuspendCheck
<1>2. CASE SuspendGet
  BY PmConstants, <1>2 DEF Shape, SuspendGet, mhi_assert_dev_wake
<1>3. CASE SuspendWait
  BY PmConstants, <1>3 DEF Shape, SuspendWait
<1>4. CASE SuspendPut
  BY PmConstants, <1>4 DEF Shape, SuspendPut, mhi_deassert_dev_wake
<1>5. CASE SuspendEnter
  BY PmConstants, <1>5 DEF Shape, SuspendEnter, mhi_tryset_pm_state
<1>6. CASE SuspendWait3
  BY PmConstants, <1>6 DEF Shape, SuspendWait3
<1>7. CASE ResumeCheck
  BY PmConstants, <1>7 DEF Shape, ResumeCheck
<1>8. CASE ResumeExit
  BY PmConstants, <1>8 DEF Shape, ResumeExit, mhi_tryset_pm_state
<1>9. CASE ResumeWait0
  BY PmConstants, <1>9 DEF Shape, ResumeWait0
<1> QED BY <1>1, <1>2, <1>3, <1>4, <1>5, <1>6, <1>7, <1>8, <1>9 DEF Suspend, SuspendSteps

\* A step of client drivers and debugfs keeps the types of the other variables.
LEMMA ClientsShape == ASSUME Shape, Clients PROVE Shape'
<1>1. CASE mhi_device_get
  BY PmConstants, <1>1 DEF Shape, mhi_device_get, mhi_assert_dev_wake
<1>2. CASE mhi_device_put
  BY PmConstants, <1>2 DEF Shape, mhi_device_put, mhi_deassert_dev_wake
<1>3. CASE DebugfsGet
  BY PmConstants, <1>3 DEF Shape, DebugfsGet, mhi_assert_dev_wake
<1>4. CASE DebugfsGetDone
  BY PmConstants, <1>4 DEF Shape, DebugfsGetDone, GetSyncGivesUp, mhi_deassert_dev_wake
<1>5. CASE DebugfsPut
  BY PmConstants, <1>5 DEF Shape, DebugfsPut, mhi_deassert_dev_wake
<1>6. CASE XferQueue
  BY PmConstants, <1>6 DEF Shape, XferQueue, wake_toggle
<1>7. CASE XferDone
  BY PmConstants, <1>7 DEF Shape, XferDone
<1> QED BY <1>1, <1>2, <1>3, <1>4, <1>5, <1>6, <1>7 DEF Clients

\* A step of the device keeps the types of the other variables.
LEMMA DeviceShape == ASSUME Shape, Device PROVE Shape'
<1>1. CASE HwResetDone
  BY PmConstants, <1>1 DEF Shape, HwResetDone, HwFrame, NoEvent
<1>2. CASE HwReady
  BY PmConstants, <1>2 DEF Shape, HwReady, HwFrame, NoEvent
<1>3. CASE HwEnter
  <2>1. hw_req # "M2" => State(hw_req) \in Event
    BY <1>3 DEF Shape, HwEnter, State
  <2>2. evq' \in Seq(Event)
    <3>1. CASE hw_req = "M2"
      BY Zenon, <1>3, <3>1 DEF Shape, HwEnter, NoEvent
    <3>2. CASE hw_req # "M2"
      <4>1. evq' = Append(evq, State(hw_req)) /\ evq \in Seq(Event)
        BY Zenon, <1>3, <3>2 DEF Shape, HwEnter, Emit
      <4> QED BY ONLY <4>1, <2>1, <3>2
    <3> QED BY <3>1, <3>2
  <2>3. hw_state' \in MhiState /\ hw_req' \in {"none", "M0", "M2", "M3"}
    BY <1>3 DEF Shape, HwEnter
  <2> QED BY <1>3, <2>2, <2>3 DEF Shape, HwEnter, HwFrame
<1>4. CASE HwIdle
  BY PmConstants, <1>4 DEF Shape, HwIdle, HwFrame, Emit, State
<1>5. CASE HwWake
  BY PmConstants, <1>5 DEF Shape, HwWake, HwFrame, Emit, State
<1>6. CASE HwMsi
  BY PmConstants, <1>6 DEF Shape, HwMsi, HwFrame
<1>7. ASSUME NEW e \in HwEE, HwBoot(e) PROVE Shape'
  BY PmConstants, <1>7 DEF Shape, HwBoot, HwFrame, Emit, EnvEv
<1>8. ASSUME NEW e \in HwEE, HwSysErr(e) PROVE Shape'
  <2>1. evq' \in Seq(Event)
    <3>1. CASE evq' = evq
      BY Zenon, <3>1 DEF Shape
    <3>2. CASE evq' = Append(evq, State("SYS_ERR"))
      BY <3>2 DEF Shape, State
    <3> QED BY Zenon, <1>8, <3>1, <3>2 DEF HwSysErr, Emit, NoEvent
  <2>2. hw_state' \in MhiState /\ hw_ee' \in DeviceEE /\ budget' \in 0..MaxEvents
    BY PmConstants, <1>8 DEF Shape, HwSysErr
  <2> QED BY <1>8, <2>1, <2>2 DEF Shape, HwSysErr, HwFrame
<1> QED BY <1>1, <1>2, <1>3, <1>4, <1>5, <1>6, <1>7, <1>8 DEF Device

-----------------------------------------------------------------------------
\* Every step, and stuttering, keeps the types.
LEMMA NextType == TypeOK /\ [Next]_vars => TypeOK'
<1> SUFFICES ASSUME TypeOK, [Next]_vars PROVE Flags' /\ Shape'
  BY Zenon DEF TypeOK, Flags, Shape
<1>1. Flags /\ Shape
  BY TypeSplit
<1>2. CASE StWorker
  BY <1>1, <1>2, StWorkerFlags, StWorkerShape
<1>3. CASE Tasklet
  BY <1>1, <1>3, TaskletFlags, TaskletShape
<1>4. CASE Intvec
  BY <1>1, <1>4, IntvecFlags, IntvecShape
<1>5. CASE Controller
  BY <1>1, <1>5, ControllerFlags, ControllerShape
<1>6. CASE Suspend
  BY <1>1, <1>6, SuspendFlags, SuspendShape
<1>7. CASE Clients
  BY <1>1, <1>7, ClientsFlags, ClientsShape
<1>8. CASE Device
  BY <1>1, <1>8, DeviceFlags, DeviceShape
<1>9. CASE UNCHANGED vars
  <2>1. Flags'
    BY Zenon, <1>1, <1>9 DEF Flags, vars
  <2>2. Shape'
    BY <1>1, <1>9 DEF Shape, vars
  <2> QED BY <2>1, <2>2
<1> QED BY <1>2, <1>3, <1>4, <1>5, <1>6, <1>7, <1>8, <1>9 DEF Next

\* Every state of every behaviour is well typed: no handler, on any path, leaves
\* a controller field, a work item, a ring event or a program counter outside its
\* type.
THEOREM TypeCorrect == Spec => []TypeOK
<1>1. Init => TypeOK
  BY InitFlags, InitShape, TypeSplit
<1>2. TypeOK /\ [Next]_vars => TypeOK'
  BY NextType
<1> QED BY <1>1, <1>2, PTL DEF Spec
=============================================================================
