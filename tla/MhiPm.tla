------------------------------- MODULE MhiPm -------------------------------
(***************************************************************************)
(* Power management of one MHI controller: core/pm.c together with the     *)
(* event and interrupt handlers of core/main.c that drive it.              *)
(*                                                                         *)
(* Threads of control, each with its own program counter:                  *)
(*   w    the state worker mhi_pm_st_worker(), a work item (one instance   *)
(*        at a time, re-queued while it runs)                              *)
(*   t    the tasklet of the control event ring, mhi_ctrl_ev_task()        *)
(*   iv   the threaded BHI interrupt, mhi_intvec_threaded_handler()        *)
(*   ctl  the controller driver: prepare, power up, power down, unprepare  *)
(*   s    system suspend and resume, mhi_pm_suspend()/mhi_pm_resume()      *)
(*   client drivers and the debugfs file, which vote for M0 and send       *)
(*   hw   the device (external: the model of what it may do comes from     *)
(*        what the host code waits for)                                    *)
(*                                                                         *)
(* A section under pm_lock is one step; whatever is read or written with   *)
(* no lock, or under a lock taken again later, is a step of its own.       *)
(* Every wait_event_timeout() may time out.                                *)
(***************************************************************************)
EXTENDS Integers, Sequences, MhiPmStates

CONSTANTS
  HwEE,         \* execution environments this device enters
  ChanEE,       \* execution environments some configured channel is for
  MaxEvents,    \* bound: spontaneous device actions in one behaviour
  MaxPowerUps,  \* bound: power-ups in one behaviour
  MaxVotes,     \* bound: wake votes of each kind held at once
  MaxPkts,      \* bound: uplink packets in flight
  EvRing,       \* elements of the control event ring the device may fill
  Graceful,     \* arguments the controller driver gives mhi_power_down()
  SyncUps,      \* TRUE in it: mhi_sync_power_up() is used, FALSE: mhi_async_power_up()
  Suspends,     \* TRUE if the platform suspends the controller
  Debugfs,      \* TRUE if somebody votes through debugfs device_wake
  rddm_image,   \* TRUE if the controller has a RAM-dump table
  m2_no_db      \* controller config: no doorbells while in M2

ASSUME PmConstants ==
  /\ HwEE \subseteq DeviceEE
  /\ ChanEE \subseteq DeviceEE
  /\ MaxEvents \in Nat
  /\ MaxPowerUps \in Nat
  /\ MaxVotes \in Nat
  /\ MaxPkts \in Nat
  /\ EvRing \in Nat
  /\ Graceful \subseteq BOOLEAN
  /\ SyncUps \subseteq BOOLEAN
  /\ Suspends \in BOOLEAN
  /\ Debugfs \in BOOLEAN
  /\ rddm_image \in BOOLEAN
  /\ m2_no_db \in BOOLEAN

VARIABLES
  pm_state, dev_state, ee,     \* struct mhi_controller
  dev_wake, wake_set,          \* wake votes, wake doorbell
  pending_pkts,                \* uplink packets not completed
  transition_list, work,       \* queued transitions; st_worker is pending
  w, head, w_to,               \* worker: pc, list being handled, what it is doing
  pm_mutex,                    \* "free", or its holder
  devices,                     \* environments whose channels have MHI devices
  ctxt, irqs,                  \* device context allocated; interrupts requested
  t, t_sched, t_any,           \* tasklet: pc, scheduled, handled an event
  iv, iv_pend,                 \* BHI interrupt: pc, raised
  ctl, cur_ee, flush,          \* controller driver: pc, local, flush_work()
  ups,                         \* power-ups so far
  fatal_work,                  \* status_cb(MHI_CB_FATAL_ERROR) was reported
  session,                     \* history: in a power session begun with all quiet
  votes,                       \* wake votes of the channel devices
  dvotes, syncs,               \* votes of the debugfs file, its callers that wait
  s,                           \* suspend/resume: pc
  hw_state, hw_ee, hw_reset,   \* MHISTATUS, BHI_EXECENV, MHICTRL.RESET
  hw_req,                      \* state last written to MHICTRL, not yet entered
  evq,                         \* control event ring: events not yet consumed
  budget                       \* spontaneous device actions left

cntrl  == <<pm_state, dev_state, ee>>
wakev  == <<dev_wake, wake_set, pending_pkts>>
queue  == <<transition_list, work>>
worker == <<w, head, w_to>>
res    == <<devices, ctxt, irqs>>
task   == <<t, t_sched, t_any>>
intvec == <<iv, iv_pend>>
tally  == <<ups, fatal_work, session>>
driver == <<ctl, cur_ee, flush, tally>>
client == <<votes, dvotes, syncs>>
hw     == <<hw_state, hw_ee, hw_reset, hw_req, evq, budget>>
vars   == <<cntrl, wakev, queue, worker, pm_mutex, res, task, intvec, driver,
            client, s, hw>>

-----------------------------------------------------------------------------
(* What the program counters may be, and the initial state.                *)

WorkerPc == {"idle", "next", "fw", "fw_load", "create", "probe",
             "mm_get", "mm_wait", "mm_run", "mm_put", "ready", "ready_set",
             "ready_mmio", "dis_reset", "dis_wait", "dis_kill", "dis_destroy",
             "dis_rings", "dis_off"}
TaskPc   == {"idle", "enter", "loop", "m0", "m1", "m1_wake", "syserr", "poll"}
IntvecPc == {"idle", "decide"}
CtlPc    == {"none", "prepared", "up_irq", "up_por", "up_check", "up_rst",
             "up_q", "up_err", "failed", "sync", "on", "dn_ld", "dn_q",
             "dn_flush", "dn_wait", "down"}
SuspPc   == {"idle", "get", "wait", "put_ok", "put_to", "enter", "wait3",
             "suspended", "exit", "wait0"}

Event == [type : {"STATE"}, val : {"M0", "M1", "M3", "SYS_ERR"}]
           \cup [type : {"EE"}, val : DeviceEE]
State(x)  == [type |-> "STATE", val |-> x]
EnvEv(x)  == [type |-> "EE", val |-> x]

Init ==
  /\ pm_state = "DISABLE" /\ dev_state = "RESET" /\ ee = "PBL"
  /\ dev_wake = 0 /\ wake_set = FALSE /\ pending_pkts = 0
  /\ transition_list = <<>> /\ work = FALSE
  /\ w = "idle" /\ head = <<>> /\ w_to = "none"
  /\ pm_mutex = "free"
  /\ devices = {} /\ ctxt = FALSE /\ irqs = FALSE
  /\ t = "idle" /\ t_sched = FALSE /\ t_any = FALSE
  /\ iv = "idle" /\ iv_pend = FALSE
  /\ ctl = "none" /\ cur_ee = "MAX" /\ flush = "none" /\ ups = 0 /\ fatal_work = FALSE
  /\ session = FALSE
  /\ votes = 0 /\ dvotes = 0 /\ syncs = 0
  /\ s = "idle"
  /\ hw_state \in {"RESET", "READY", "SYS_ERR"} /\ hw_ee \in HwEE
  /\ hw_reset = FALSE /\ hw_req = "none" /\ evq = <<>> /\ budget = MaxEvents

-----------------------------------------------------------------------------
(* Wake votes: mhi_assert_dev_wake() and mhi_deassert_dev_wake().  Both are *)
(* called under pm_lock; wlock makes the count and the doorbell one step.   *)

mhi_assert_dev_wake(force) ==
  /\ dev_wake' = dev_wake + 1
  /\ wake_set' = \/ wake_set
                 \/ force /\ MHI_WAKE_DB_FORCE_SET_VALID(pm_state)
                 \/ ~force /\ dev_wake = 0 /\ MHI_WAKE_DB_SET_VALID(pm_state)

mhi_deassert_dev_wake(override) ==
  /\ dev_wake' = dev_wake - 1
  /\ wake_set' = (wake_set /\ ~(/\ dev_wake = 1
                                /\ MHI_WAKE_DB_CLEAR_VALID(pm_state)
                                /\ ~override))

\* wake_get(force) directly followed by wake_put(FALSE), pm_lock held throughout
WakeCycle ==
  /\ wake_set' = IF MHI_WAKE_DB_CLEAR_VALID(pm_state) THEN dev_wake # 0 ELSE wake_set
  /\ UNCHANGED dev_wake

\* wake_get(TRUE) directly followed by wake_put(TRUE), pm_lock held throughout
WakeKick ==
  /\ wake_set' = (wake_set \/ MHI_WAKE_DB_FORCE_SET_VALID(pm_state))
  /\ UNCHANGED dev_wake

\* mutant: the vote is kept
GetSyncKeepsVote == UNCHANGED <<dev_wake, wake_set>>

\* __mhi_device_get_sync() gives its vote back: error state or timeout
GetSyncGivesUp == mhi_deassert_dev_wake(FALSE)

\* wake_toggle: a no-op unless the controller forbids doorbells in M2
wake_toggle ==
  wake_set' = (wake_set \/ (m2_no_db /\ dev_wake = 0 /\ MHI_WAKE_DB_SET_VALID(pm_state)))

mhi_queue_state_transition(st) ==
  /\ transition_list' = Append(transition_list, st)
  /\ work' = TRUE

-----------------------------------------------------------------------------
(* The state worker.                                                       *)

\* the pending bit is cleared before the list is spliced; an item queued between
\* the two only costs a run that finds nothing, so both are one step here
StWorkerStart ==
  /\ w = "idle" /\ work
  /\ work' = FALSE
  /\ head' = transition_list
  /\ transition_list' = <<>>
  /\ w' = "next"
  /\ flush' = IF flush = "pending" THEN "running" ELSE flush
  /\ UNCHANGED <<cntrl, wakev, w_to, pm_mutex, res, task, intvec, ctl, cur_ee, tally, client, s, hw>>

StWorkerEnd ==
  /\ w = "next" /\ head = <<>>
  /\ w' = "idle"
  /\ flush' = IF flush = "running" THEN "done" ELSE flush
  /\ UNCHANGED <<cntrl, wakev, queue, head, w_to, pm_mutex, res, task, intvec, ctl,
                 cur_ee, tally, client, s, hw>>

\* take the next item of the list
Item(st) ==
  /\ w = "next" /\ head # <<>> /\ Head(head) = st
  /\ head' = Tail(head)

\* re-read the execution environment if the registers may be touched
RefreshEe ==
  /\ ee' = IF MHI_REG_ACCESS_VALID(pm_state) THEN hw_ee ELSE ee
  /\ UNCHANGED <<pm_state, dev_state>>

HandlePbl ==
  /\ Item("PBL")
  /\ RefreshEe
  /\ w' = IF MHI_IN_PBL(ee') THEN "fw" ELSE "next"
  /\ UNCHANGED <<wakev, queue, w_to, pm_mutex, res, task, intvec, driver, client, s, hw>>

HandleEeItem(env) ==
  /\ Item(env)
  /\ ee' = env
  /\ w' = "create"
  /\ UNCHANGED <<pm_state, dev_state, wakev, queue, w_to, pm_mutex, res, task, intvec,
                 driver, client, s, hw>>

HandleReady ==
  /\ Item("READY")
  /\ w' = "ready"
  /\ UNCHANGED <<cntrl, wakev, queue, w_to, pm_mutex, res, task, intvec, driver,
                 client, s, hw>>

HandleMissionMode ==
  /\ Item("MISSION_MODE")
  /\ RefreshEe
  /\ \/ /\ MHI_IN_MISSION_MODE(ee')
        /\ w' = "mm_get" /\ w_to' = "MM"
     \/ /\ ~MHI_IN_MISSION_MODE(ee')
        /\ w' = "next" /\ UNCHANGED w_to
  /\ UNCHANGED <<wakev, queue, pm_mutex, res, task, intvec, driver, client, s, hw>>

-----------------------------------------------------------------------------
(* mhi_fw_load_handler(), the path without full boot-chain download.       *)

FwLoad ==
  /\ w = "fw"
  /\ \/ MHI_PM_IN_ERROR_STATE(pm_state) /\ w' = "next"
     \/ ~MHI_PM_IN_ERROR_STATE(pm_state) /\ ee = "PTHRU" /\ w' = "ready"
     \/ /\ ~MHI_PM_IN_ERROR_STATE(pm_state) /\ ee # "PTHRU"
        /\ w' \in {"fw_load", "next"}        \* image found, or not
  /\ UNCHANGED <<cntrl, wakev, queue, head, w_to, pm_mutex, res, task, intvec, driver,
                 client, s, hw>>

\* mhi_fw_load_sbl() worked: the flash programmer, or the SBL, now runs
FwLoadSbl ==
  /\ w = "fw_load"
  /\ ~MHI_PM_IN_ERROR_STATE(pm_state) /\ MHI_REG_ACCESS_VALID(pm_state)
  /\ hw_ee \in {"PBL", "EDL"} /\ ~hw_reset
  /\ \/ /\ ee = "EDL"
        /\ w' = "next" /\ UNCHANGED dev_state
        /\ hw_ee' = "FP" /\ hw_state' = "READY" /\ iv_pend' = irqs
     \/ /\ ee # "EDL"
        /\ w' = "ready" /\ dev_state' = "RESET"
        /\ hw_ee' = "SBL" /\ hw_state' = "RESET" /\ UNCHANGED iv_pend
  /\ UNCHANGED <<pm_state, ee, wakev, queue, head, w_to, pm_mutex, res, task, iv, driver,
                 client, s, hw_reset, hw_req, evq, budget>>

FwLoadFail ==
  /\ w = "fw_load"
  /\ w' = "next"
  /\ UNCHANGED <<cntrl, wakev, queue, head, w_to, pm_mutex, res, task, intvec, driver,
                 client, s, hw>>

-----------------------------------------------------------------------------
(* mhi_ready_state_transition()                                            *)

\* return to the caller: the READY item, the firmware loader or the recovery
ReadyReturn ==
  /\ w' = "next"
  /\ w_to' = "none"
  /\ pm_mutex' = IF w_to = "SYS_ERR_PROCESS" THEN "free" ELSE pm_mutex

HwIsReady == hw_state # "RESET"

ReadyWait ==
  /\ w = "ready"
  /\ \/ /\ ~MHI_PM_IN_FATAL_STATE(pm_state)
        /\ ~hw_reset /\ HwIsReady
        /\ w' = "ready_set" /\ UNCHANGED <<w_to, pm_mutex>>
     \/ /\ MHI_PM_IN_FATAL_STATE(pm_state) \/ hw_reset \/ ~HwIsReady
        /\ ReadyReturn
  /\ UNCHANGED <<cntrl, wakev, queue, head, res, task, intvec, driver, client, s, hw>>

ReadySet ==
  /\ w = "ready_set"
  /\ pm_state' = mhi_tryset_pm_state(pm_state, "POR")
  /\ dev_state' = "READY"
  /\ IF pm_state' = "POR"
     THEN w' = "ready_mmio" /\ UNCHANGED <<w_to, pm_mutex>>
     ELSE ReadyReturn
  /\ UNCHANGED <<ee, wakev, queue, head, res, task, intvec, driver, client, s, hw>>

ReadyMmio ==
  /\ w = "ready_mmio"
  /\ \/ /\ MHI_REG_ACCESS_VALID(pm_state)
        /\ wake_set' = FALSE /\ hw_req' = "M0"
     \/ UNCHANGED <<wake_set, hw_req>>     \* registers not accessible, or a read failed
  /\ ReadyReturn
  /\ UNCHANGED <<cntrl, dev_wake, pending_pkts, queue, head, res, task, intvec, driver,
                 client, s, hw_state, hw_ee, hw_reset, evq, budget>>

-----------------------------------------------------------------------------
(* mhi_pm_mission_mode_transition() and the creation of MHI devices.       *)

MissionGet ==
  /\ w = "mm_get"
  /\ mhi_assert_dev_wake(TRUE)
  /\ w' = "mm_wait"
  /\ UNCHANGED <<cntrl, pending_pkts, queue, head, w_to, pm_mutex, res, task, intvec,
                 driver, client, s, hw>>

\* give the vote back and leave the handler
MissionPut ==
  /\ mhi_deassert_dev_wake(FALSE)
  /\ w' = "next" /\ w_to' = "none"

MissionWait ==
  /\ w = "mm_wait"
  /\ \/ /\ pm_state = "M0"
        /\ w' = "mm_run" /\ UNCHANGED <<w_to, dev_wake, wake_set>>
     \/ GetSyncGivesUp /\ w' = "next" /\ w_to' = "none"
  /\ UNCHANGED <<cntrl, pending_pkts, queue, head, pm_mutex, res, task, intvec, driver,
                 client, s, hw>>

MissionRun ==
  /\ w = "mm_run"
  /\ IF MHI_PM_IN_ERROR_STATE(pm_state)
     THEN MissionPut
     ELSE w' = "create" /\ UNCHANGED <<w_to, dev_wake, wake_set>>
  /\ UNCHANGED <<cntrl, pending_pkts, queue, head, pm_mutex, res, task, intvec, driver,
                 client, s, hw>>

\* back from mhi_create_devices()
AfterCreate == IF w_to = "MM" THEN "mm_put" ELSE "next"

\* mhi_create_devices() for the environment recorded now: channels that have no
\* device yet get one, and it is probed, starting with mhi_device_get_sync()
CreateDevices ==
  /\ w = "create"
  /\ devices' = devices \cup ({ee} \cap ChanEE)
  /\ IF devices' # devices
     THEN mhi_assert_dev_wake(TRUE) /\ w' = "probe"
     ELSE w' = AfterCreate /\ UNCHANGED <<dev_wake, wake_set>>
  /\ UNCHANGED <<cntrl, pending_pkts, queue, head, w_to, pm_mutex, ctxt, irqs, task,
                 intvec, driver, client, s, hw>>

ProbeDone ==
  /\ w = "probe"
  /\ mhi_deassert_dev_wake(FALSE)
  /\ w' = AfterCreate
  /\ UNCHANGED <<cntrl, pending_pkts, queue, head, w_to, pm_mutex, res, task, intvec,
                 driver, client, s, hw>>

MissionEnd ==
  /\ w = "mm_put"
  /\ MissionPut
  /\ UNCHANGED <<cntrl, pending_pkts, queue, head, pm_mutex, res, task, intvec, driver,
                 client, s, hw>>

-----------------------------------------------------------------------------
(* mhi_pm_disable_transition(), to SYS_ERR_PROCESS or SHUTDOWN_PROCESS.    *)

Target(item) == IF item = "SYS_ERR" THEN "SYS_ERR_PROCESS" ELSE "SHUTDOWN_PROCESS"

HandleDisable(item) ==
  /\ pm_mutex = "free"
  /\ Item(item)
  /\ pm_state' = mhi_tryset_pm_state(pm_state, Target(item))
  /\ \/ /\ pm_state' = Target(item)
        /\ ee' = "DISABLE_TRANSITION" /\ dev_state' = "RESET"
        /\ pm_mutex' = "worker"
        /\ w_to' = Target(item)
        /\ w' = IF MHI_REG_ACCESS_VALID(pm_state) THEN "dis_reset" ELSE "dis_kill"
     \/ /\ pm_state' # Target(item)
        /\ w' = "next"
        /\ UNCHANGED <<ee, dev_state, pm_mutex, w_to>>
  /\ UNCHANGED <<wakev, queue, res, task, intvec, driver, client, s, hw>>

DisableReset ==
  /\ w = "dis_reset"
  /\ hw_reset' = TRUE
  /\ w' = "dis_wait"
  /\ UNCHANGED <<cntrl, wakev, queue, head, w_to, pm_mutex, res, task, intvec, driver,
                 client, s, hw_state, hw_ee, hw_req, evq, budget>>

\* mutant: pm_mutex is not dropped on the reset timeout
DisableWaitKeepsMutex ==
  /\ w = "dis_wait"
  /\ \/ (~hw_reset \/ w_to = "SHUTDOWN_PROCESS") /\ w' = "dis_kill" /\ UNCHANGED w_to
     \/ hw_reset /\ w_to = "SYS_ERR_PROCESS" /\ w' = "next" /\ w_to' = "none"
  /\ UNCHANGED <<cntrl, wakev, queue, head, pm_mutex, res, task, intvec, driver, client,
                 s, hw>>

DisableWait ==
  /\ w = "dis_wait"
  /\ \/ /\ ~hw_reset \/ w_to = "SHUTDOWN_PROCESS"
        /\ w' = "dis_kill" /\ UNCHANGED <<w_to, pm_mutex>>
     \/ /\ hw_reset /\ w_to = "SYS_ERR_PROCESS"    \* device failed to exit reset
        /\ w' = "next" /\ w_to' = "none" /\ pm_mutex' = "free"
  /\ UNCHANGED <<cntrl, wakev, queue, head, res, task, intvec, driver, client, s, hw>>

\* mutant: nobody waits for the tasklet
tasklet_kill_skipped == TRUE

\* lets a scheduled tasklet run and waits for it
tasklet_kill == t = "idle" /\ ~t_sched

DisableKill ==
  /\ w = "dis_kill"
  /\ tasklet_kill
  /\ pm_mutex' = "free"
  /\ w' = "dis_destroy"
  /\ UNCHANGED <<cntrl, wakev, queue, head, w_to, res, task, intvec, driver, client, s, hw>>

\* mutant: the votes stay
DriverRemoveKeepsVotes == UNCHANGED <<dev_wake, wake_set>>

\* mhi_driver_remove() gives back the votes of its device
DriverRemoveVotes ==
  /\ dev_wake' = dev_wake - votes
  /\ wake_set' = (wake_set /\ ~(/\ votes > 0 /\ dev_wake = votes
                                /\ MHI_WAKE_DB_CLEAR_VALID(pm_state)))

\* mhi_destroy_device() on every child: mhi_driver_remove() drains the channels
\* and gives back the votes of the channel devices
DisableDestroy ==
  /\ w = "dis_destroy"
  /\ devices' = {}
  /\ pending_pkts' = 0
  /\ DriverRemoveVotes
  /\ votes' = 0
  /\ w' = "dis_rings"
  /\ UNCHANGED <<cntrl, queue, head, w_to, pm_mutex, ctxt, irqs, task, intvec, driver,
                 dvotes, syncs, s, hw>>

DisableRings ==
  /\ w = "dis_rings"
  /\ pm_mutex = "free"
  /\ pm_mutex' = "worker"
  /\ evq' = <<>>
  /\ w' = IF w_to = "SYS_ERR_PROCESS" THEN "ready" ELSE "dis_off"
  /\ UNCHANGED <<cntrl, wakev, queue, head, w_to, res, task, intvec, driver, client, s,
                 hw_state, hw_ee, hw_reset, hw_req, budget>>

DisableOff ==
  /\ w = "dis_off"
  /\ pm_state' = mhi_tryset_pm_state(pm_state, "DISABLE")
  /\ w' = "next" /\ w_to' = "none" /\ pm_mutex' = "free"
  /\ UNCHANGED <<dev_state, ee, wakev, queue, head, res, task, intvec, driver, client,
                 s, hw>>

StWorker ==
  \/ StWorkerStart \/ StWorkerEnd
  \/ HandlePbl \/ HandleReady \/ HandleMissionMode
  \/ HandleEeItem("SBL") \/ HandleEeItem("FP")
  \/ FwLoad \/ FwLoadSbl \/ FwLoadFail
  \/ ReadyWait \/ ReadySet \/ ReadyMmio
  \/ MissionGet \/ MissionWait \/ MissionRun \/ CreateDevices \/ ProbeDone \/ MissionEnd
  \/ HandleDisable("SYS_ERR") \/ HandleDisable("DISABLE")
  \/ DisableReset \/ DisableWait \/ DisableKill \/ DisableDestroy \/ DisableRings
  \/ DisableOff

-----------------------------------------------------------------------------
(* The tasklet of the control event ring: mhi_ctrl_ev_task() and            *)
(* mhi_process_ctrl_ev_ring().                                              *)

TaskStart ==
  /\ t = "idle" /\ t_sched
  /\ t_sched' = FALSE
  /\ t' = IF MHI_REG_ACCESS_VALID(pm_state) THEN "enter" ELSE "idle"
  /\ UNCHANGED <<cntrl, wakev, queue, worker, pm_mutex, res, t_any, intvec, driver,
                 client, s, hw>>

\* the ring's context is loaded from mhi_ctxt in front of the check
TaskEnter ==
  /\ t = "enter"
  /\ t' = IF MHI_EVENT_ACCESS_INVALID(pm_state) THEN "idle" ELSE "loop"
  /\ UNCHANGED <<cntrl, wakev, queue, worker, pm_mutex, res, t_sched, t_any, intvec,
                 driver, client, s, hw>>

\* consume the next event of the ring
Consume(e) ==
  /\ t = "loop" /\ evq # <<>> /\ Head(evq) = e
  /\ evq' = Tail(evq)
  /\ t_any' = TRUE
  /\ UNCHANGED <<t_sched, hw_state, hw_ee, hw_reset, budget>>

\* mutant: M0 is entered without asking the table
TaskM0Untried ==
  /\ Consume(State("M0"))
  /\ dev_state' = "M0" /\ pm_state' = "M0" /\ t' = "m0"
  /\ UNCHANGED <<ee, wakev, queue, worker, pm_mutex, res, intvec, driver, client, s, hw_req>>

\* mutant: the host stays in M2 when the device has left it
TaskM0StaysM2 ==
  /\ Consume(State("M0"))
  /\ dev_state' = "M0"
  /\ pm_state' = IF pm_state = "M2" THEN "M2" ELSE mhi_tryset_pm_state(pm_state, "M0")
  /\ t' = IF pm_state' = "M0" THEN "m0" ELSE "loop"
  /\ UNCHANGED <<ee, wakev, queue, worker, pm_mutex, res, intvec, driver, client, s, hw_req>>

\* mhi_pm_m0_transition(): dev_state is written before the PM state is tried
TaskM0 ==
  /\ Consume(State("M0"))
  /\ dev_state' = "M0"
  /\ pm_state' = mhi_tryset_pm_state(pm_state, "M0")
  /\ t' = IF pm_state' = "M0" THEN "m0" ELSE "loop"
  /\ UNCHANGED <<ee, wakev, queue, worker, pm_mutex, res, intvec, driver, client, s, hw_req>>

\* its second half: wake the device, ring every doorbell, drop the vote
TaskM0Rings ==
  /\ t = "m0"
  /\ WakeCycle
  /\ t' = "loop"
  /\ UNCHANGED <<cntrl, pending_pkts, queue, worker, pm_mutex, res, t_sched, t_any,
                 intvec, driver, client, s, hw>>

\* mhi_pm_m1_transition(): answer M1 by sending the device to M2
TaskM1 ==
  /\ Consume(State("M1"))
  /\ pm_state' = mhi_tryset_pm_state(pm_state, "M2")
  /\ IF pm_state' = "M2"
     THEN hw_req' = "M2" /\ dev_state' = "M2" /\ t' = "m1"
     ELSE t' = "loop" /\ UNCHANGED <<hw_req, dev_state>>
  /\ UNCHANGED <<ee, wakev, queue, worker, pm_mutex, res, intvec, driver, client, s>>

\* "If there are any pending resources, exit M2 immediately"
TaskM1Check ==
  /\ t = "m1"
  /\ t' = IF pending_pkts # 0 \/ dev_wake # 0 THEN "m1_wake" ELSE "loop"
  /\ UNCHANGED <<cntrl, wakev, queue, worker, pm_mutex, res, t_sched, t_any, intvec,
                 driver, client, s, hw>>

TaskM1Wake ==
  /\ t = "m1_wake"
  /\ WakeKick
  /\ t' = "loop"
  /\ UNCHANGED <<cntrl, pending_pkts, queue, worker, pm_mutex, res, t_sched, t_any,
                 intvec, driver, client, s, hw>>

TaskM3 ==
  /\ Consume(State("M3"))
  /\ dev_state' = "M3"
  /\ pm_state' = mhi_tryset_pm_state(pm_state, "M3")
  /\ t' = "loop"
  /\ UNCHANGED <<ee, wakev, queue, worker, pm_mutex, res, intvec, driver, client, s, hw_req>>

\* a SYS_ERR state-change event; left alone if RDDM will handle it
TaskSysErr ==
  /\ Consume(State("SYS_ERR"))
  /\ IF ee = "RDDM" \/ rddm_image
     THEN t' = "loop" /\ UNCHANGED pm_state
     ELSE /\ pm_state' = mhi_tryset_pm_state(pm_state, "SYS_ERR_DETECT")
          /\ t' = IF pm_state' = "SYS_ERR_DETECT" THEN "syserr" ELSE "loop"
  /\ UNCHANGED <<dev_state, ee, wakev, queue, worker, pm_mutex, res, intvec, driver,
                 client, s, hw_req>>

\* mutant: the test for RDDM support is inverted
SysErrHandlerInverted ==
  IF rddm_image THEN mhi_queue_state_transition("SYS_ERR") ELSE UNCHANGED queue

\* mhi_pm_sys_err_handler()
SysErrHandler ==
  IF rddm_image THEN UNCHANGED queue ELSE mhi_queue_state_transition("SYS_ERR")

TaskSysErrQueue ==
  /\ t = "syserr"
  /\ SysErrHandler
  /\ t' = IF t_any THEN "loop" ELSE "idle"
  /\ UNCHANGED <<cntrl, wakev, worker, pm_mutex, res, t_sched, t_any, intvec, driver,
                 client, s, hw>>

\* the work item an environment event is answered with
EeItem == [SBL |-> "SBL", FP |-> "FP", WFW |-> "MISSION_MODE", AMSS |-> "MISSION_MODE"]

\* an execution-environment event; RDDM is recorded at once, others are left alone
TaskEe(e) ==
  /\ Consume(EnvEv(e))
  /\ ee' = IF e = "RDDM" THEN "RDDM" ELSE ee
  /\ IF e \in DOMAIN EeItem THEN mhi_queue_state_transition(EeItem[e]) ELSE UNCHANGED queue
  /\ UNCHANGED <<pm_state, dev_state, wakev, worker, pm_mutex, res, t, intvec, driver,
                 client, s, hw_req>>

NothingHandled == ~t_any

\* the ring is empty: ring its doorbell; look at the device if nothing was there
TaskLoopEnd ==
  /\ t = "loop" /\ evq = <<>>
  /\ t' = IF NothingHandled THEN "poll" ELSE "idle"
  /\ t_any' = FALSE
  /\ UNCHANGED <<cntrl, wakev, queue, worker, pm_mutex, res, t_sched, intvec, driver,
                 client, s, hw>>

TaskPoll ==
  /\ t = "poll"
  /\ IF hw_state = "SYS_ERR"
     THEN /\ pm_state' = mhi_tryset_pm_state(pm_state, "SYS_ERR_DETECT")
          /\ t' = IF pm_state' = "SYS_ERR_DETECT" THEN "syserr" ELSE "idle"
     ELSE t' = "idle" /\ UNCHANGED pm_state
  /\ UNCHANGED <<dev_state, ee, wakev, queue, worker, pm_mutex, res, t_sched, t_any,
                 intvec, driver, client, s, hw>>

Tasklet ==
  \/ TaskStart \/ TaskEnter \/ TaskM0 \/ TaskM0Rings \/ TaskM1 \/ TaskM1Check
  \/ TaskM1Wake \/ TaskM3 \/ TaskSysErr \/ TaskSysErrQueue \/ TaskLoopEnd \/ TaskPoll
  \/ \E e \in DeviceEE : TaskEe(e)

-----------------------------------------------------------------------------
(* mhi_intvec_threaded_handler()                                           *)

IntvecRead ==
  /\ iv = "idle" /\ iv_pend
  /\ iv_pend' = FALSE
  /\ IF ~MHI_REG_ACCESS_VALID(pm_state)
     THEN UNCHANGED <<pm_state, ee, queue, iv>>
     ELSE /\ ee' = hw_ee
          /\ pm_state' = IF hw_state = "SYS_ERR"
                         THEN mhi_tryset_pm_state(pm_state, "SYS_ERR_DETECT")
                         ELSE pm_state
          /\ IF hw_state = "READY" /\ ee = "EDL" /\ hw_ee = "FP"
             THEN mhi_queue_state_transition("READY")
             ELSE UNCHANGED queue
          /\ iv' = IF /\ hw_state = "SYS_ERR" /\ pm_state' = "SYS_ERR_DETECT"
                      /\ ~rddm_image
                   THEN "decide" ELSE "idle"
  /\ UNCHANGED <<dev_state, wakev, worker, pm_mutex, res, task, driver, client, s, hw>>

\* "For fatal errors, we let controller decide next step"
IntvecDecide ==
  /\ iv = "decide"
  /\ iv' = "idle"
  /\ IF MHI_IN_PBL(ee)
     THEN fatal_work' = TRUE /\ UNCHANGED queue
     ELSE SysErrHandler /\ UNCHANGED fatal_work
  /\ UNCHANGED <<cntrl, wakev, worker, pm_mutex, res, task, iv_pend, ctl, cur_ee, ups, flush,
                 session, client, s, hw>>

Intvec == IntvecRead \/ IntvecDecide

-----------------------------------------------------------------------------
(* The controller driver: mhi_prepare_for_power_up(), mhi_async_power_up(), *)
(* mhi_sync_power_up(), mhi_power_down(), mhi_unprepare_after_power_down(). *)

Prepare ==
  /\ ctl = "none" /\ pm_mutex = "free"
  /\ dev_wake' = 0 /\ pending_pkts' = 0
  /\ \/ ctxt' = TRUE /\ evq' = <<>> /\ ctl' = "prepared"
     \/ UNCHANGED <<ctxt, evq, ctl>>       \* -ENOMEM
  /\ UNCHANGED <<cntrl, wake_set, queue, worker, pm_mutex, devices, irqs, task, intvec,
                 cur_ee, flush, tally, client, s, hw_state, hw_ee, hw_reset, hw_req,
                 budget>>

\* nothing of an earlier session is still at work
Quiet ==
  /\ w = "idle" /\ head = <<>> /\ transition_list = <<>> /\ ~work
  /\ t = "idle" /\ ~t_sched /\ iv = "idle" /\ ~iv_pend /\ ~irqs
  /\ s = "idle" /\ devices = {} /\ dev_wake = 0 /\ votes = 0 /\ dvotes = 0 /\ syncs = 0

\* pm_state is overwritten, not tried
PowerUp ==
  /\ ctl = "prepared" /\ pm_mutex = "free" /\ ups < MaxPowerUps
  /\ ups' = ups + 1
  /\ session' = Quiet
  /\ pm_mutex' = "ctl"
  /\ pm_state' = "DISABLE"
  /\ ctl' = "up_irq"
  /\ UNCHANGED <<dev_state, ee, wakev, queue, worker, res, task, intvec, cur_ee, flush,
                 fatal_work, client, s, hw>>

UpIrq ==
  /\ ctl = "up_irq"
  /\ \/ irqs' = TRUE /\ ctl' = "up_por" /\ UNCHANGED pm_mutex
     \/ ctl' = "failed" /\ pm_mutex' = "free" /\ UNCHANGED irqs
  /\ UNCHANGED <<cntrl, wakev, queue, worker, devices, ctxt, task, intvec, cur_ee, flush,
                 tally, client, s, hw>>

UpPor ==
  /\ ctl = "up_por"
  /\ \/ /\ pm_state' = "POR" /\ ee' = "MAX"
        /\ cur_ee' = hw_ee
        /\ ctl' = "up_check"
     \/ /\ ctl' = "up_err"         \* BHIOFF cannot be read
        /\ UNCHANGED <<pm_state, ee, cur_ee>>
  /\ UNCHANGED <<dev_state, wakev, queue, worker, pm_mutex, res, task, intvec, flush,
                 tally, client, s, hw>>

UpCheck ==
  /\ ctl = "up_check"
  /\ IF MHI_IN_PBL(cur_ee) \/ cur_ee \in {"AMSS", "SBL"}
     THEN IF hw_state = "SYS_ERR"
          THEN ctl' = "up_rst" /\ hw_reset' = TRUE
          ELSE ctl' = "up_q" /\ UNCHANGED hw_reset
     ELSE ctl' = "up_err" /\ UNCHANGED hw_reset
  /\ UNCHANGED <<cntrl, wakev, queue, worker, pm_mutex, res, task, intvec, cur_ee, flush,
                 tally, client, s, hw_state, hw_ee, hw_req, evq, budget>>

\* the wait returns non-zero when the reset bit cleared and zero when it timed
\* out, and the code gives up on non-zero
UpReset ==
  /\ ctl = "up_rst"
  /\ ctl' = IF ~hw_reset \/ MHI_PM_IN_FATAL_STATE(pm_state) THEN "up_err" ELSE "up_q"
  /\ UNCHANGED <<cntrl, wakev, queue, worker, pm_mutex, res, task, intvec, cur_ee, flush,
                 tally, client, s, hw>>

\* mutant: the environment is queued where a transition is due
NextTransitionIsEe(env) == env

NextTransition(env) == IF MHI_IN_PBL(env) THEN "PBL" ELSE "READY"

UpQueue ==
  /\ ctl = "up_q"
  /\ mhi_queue_state_transition(NextTransition(cur_ee))
  /\ pm_mutex' = "free"
  /\ ctl' \in {IF sync THEN "sync" ELSE "on" : sync \in SyncUps}
  /\ cur_ee' = "MAX"
  /\ UNCHANGED <<cntrl, wakev, worker, res, task, intvec, flush, tally, client, s, hw>>

\* free_irq() waits for a handler that is running
FreeIrqs == iv = "idle" /\ irqs' = FALSE /\ iv_pend' = FALSE /\ UNCHANGED iv

UpErr ==
  /\ ctl = "up_err"
  /\ FreeIrqs
  /\ pm_mutex' = "free"
  /\ ctl' = "failed"
  /\ cur_ee' = "MAX"
  /\ UNCHANGED <<cntrl, wakev, queue, worker, devices, ctxt, task, flush, tally,
                 client, s, hw>>

\* the wait of mhi_sync_power_up() is over: satisfied, in error or timed out
SyncUp ==
  /\ ctl = "sync"
  /\ \/ /\ ee = "FP"
        /\ mhi_queue_state_transition("READY") /\ ctl' = "on"
     \/ /\ ee = "SBL" \/ MHI_IN_MISSION_MODE(ee)
        /\ ctl' = "on" /\ UNCHANGED queue
     \/ /\ ee \notin {"FP", "SBL"} /\ ~MHI_IN_MISSION_MODE(ee)
        /\ ctl' = "dn_ld" /\ UNCHANGED queue
  /\ UNCHANGED <<cntrl, wakev, worker, pm_mutex, res, task, intvec, cur_ee, flush,
                 tally, client, s, hw>>

\* driver removal, or the reaction to a fatal error
PowerDown(graceful) ==
  /\ ctl = "on"
  /\ ctl' = IF graceful THEN "dn_q" ELSE "dn_ld"
  /\ fatal_work' = FALSE
  /\ UNCHANGED <<cntrl, wakev, queue, worker, pm_mutex, res, task, intvec, cur_ee, ups, flush,
                 session, client, s, hw>>

DownLinkError ==
  /\ ctl = "dn_ld" /\ pm_mutex = "free"
  /\ pm_state' = mhi_tryset_pm_state(pm_state, "LD_ERR_FATAL_DETECT")
  /\ ctl' = "dn_q"
  /\ UNCHANGED <<dev_state, ee, wakev, queue, worker, pm_mutex, res, task, intvec, cur_ee,
                 flush, tally, client, s, hw>>

DownQueue ==
  /\ ctl = "dn_q"
  /\ mhi_queue_state_transition("DISABLE")
  /\ ctl' = "dn_flush"
  /\ UNCHANGED <<cntrl, wakev, worker, pm_mutex, res, task, intvec, cur_ee, flush,
                 tally, client, s, hw>>

\* mutant: no wait
flush_work_skipped == "done"

\* what flush_work() waits for: the pending instance, else the running one
flush_work == IF work THEN "pending" ELSE IF w # "idle" THEN "running" ELSE "done"

DownFlush ==
  /\ ctl = "dn_flush"
  /\ flush' = flush_work
  /\ ctl' = "dn_wait"
  /\ UNCHANGED <<cntrl, wakev, queue, worker, pm_mutex, res, task, intvec, cur_ee,
                 tally, client, s, hw>>

DownFree ==
  /\ ctl = "dn_wait" /\ flush = "done"
  /\ FreeIrqs
  /\ flush' = "none"
  /\ ctl' = "down"
  /\ UNCHANGED <<cntrl, wakev, queue, worker, pm_mutex, devices, ctxt, task, cur_ee,
                 tally, client, s, hw>>

Unprepare ==
  /\ ctl \in {"down", "failed"}
  /\ ctxt' = FALSE
  /\ ctl' = "none"
  /\ session' = FALSE
  /\ UNCHANGED <<cntrl, wakev, queue, worker, pm_mutex, devices, irqs, task, intvec,
                 cur_ee, flush, ups, fatal_work, client, s, hw>>

PowerUpSteps   == UpIrq \/ UpPor \/ UpCheck \/ UpReset \/ UpQueue \/ UpErr \/ SyncUp
PowerDownSteps == DownLinkError \/ DownQueue \/ DownFlush \/ DownFree
Controller ==
  \/ Prepare \/ PowerUp \/ PowerUpSteps
  \/ (\E graceful \in Graceful : PowerDown(graceful))
  \/ PowerDownSteps \/ Unprepare

-----------------------------------------------------------------------------
(* mhi_pm_suspend() and mhi_pm_resume()                                    *)

SuspendCheck ==
  /\ Suspends /\ s = "idle"
  /\ pm_state # "DISABLE" /\ ~MHI_PM_IN_ERROR_STATE(pm_state)
  /\ dev_wake = 0 /\ pending_pkts = 0
  /\ s' = "get"
  /\ UNCHANGED <<cntrl, wakev, queue, worker, pm_mutex, res, task, intvec, driver,
                 client, hw>>

SuspendGet ==
  /\ s = "get"
  /\ mhi_assert_dev_wake(FALSE)
  /\ s' = "wait"
  /\ UNCHANGED <<cntrl, pending_pkts, queue, worker, pm_mutex, res, task, intvec, driver,
                 client, hw>>

SuspendWait ==
  /\ s = "wait"
  /\ \/ /\ dev_state \in {"M0", "M1"} \/ MHI_PM_IN_ERROR_STATE(pm_state)
        /\ s' = "put_ok"
     \/ s' = "put_to"
  /\ UNCHANGED <<cntrl, wakev, queue, worker, pm_mutex, res, task, intvec, driver,
                 client, hw>>

SuspendPut ==
  /\ s \in {"put_ok", "put_to"}
  /\ mhi_deassert_dev_wake(FALSE)
  /\ s' = IF s = "put_ok" /\ ~MHI_PM_IN_ERROR_STATE(pm_state) THEN "enter" ELSE "idle"
  /\ UNCHANGED <<cntrl, pending_pkts, queue, worker, pm_mutex, res, task, intvec, driver,
                 client, hw>>

SuspendEnter ==
  /\ s = "enter"
  /\ IF dev_wake # 0 \/ pending_pkts # 0
     THEN s' = "idle" /\ UNCHANGED <<pm_state, hw_req>>
     ELSE /\ pm_state' = mhi_tryset_pm_state(pm_state, "M3_ENTER")
          /\ IF pm_state' = "M3_ENTER"
             THEN s' = "wait3" /\ hw_req' = "M3"
             ELSE s' = "idle" /\ UNCHANGED hw_req
  /\ UNCHANGED <<dev_state, ee, wakev, queue, worker, pm_mutex, res, task, intvec, driver,
                 client, hw_state, hw_ee, hw_reset, evq, budget>>

SuspendWait3 ==
  /\ s = "wait3"
  /\ \/ dev_state = "M3" /\ ~MHI_PM_IN_ERROR_STATE(pm_state) /\ s' = "suspended"
     \/ s' = "idle"        \* error state or timeout
  /\ UNCHANGED <<cntrl, wakev, queue, worker, pm_mutex, res, task, intvec, driver,
                 client, hw>>

ResumeCheck ==
  /\ s = "suspended"
  /\ s' = IF pm_state = "DISABLE" \/ MHI_PM_IN_ERROR_STATE(pm_state) THEN "idle" ELSE "exit"
  /\ UNCHANGED <<cntrl, wakev, queue, worker, pm_mutex, res, task, intvec, driver,
                 client, hw>>

ResumeExit ==
  /\ s = "exit"
  /\ pm_state' = mhi_tryset_pm_state(pm_state, "M3_EXIT")
  /\ IF pm_state' = "M3_EXIT"
     THEN s' = "wait0" /\ hw_req' = "M0"
     ELSE s' = "idle" /\ UNCHANGED hw_req
  /\ UNCHANGED <<dev_state, ee, wakev, queue, worker, pm_mutex, res, task, intvec, driver,
                 client, hw_state, hw_ee, hw_reset, evq, budget>>

\* entered M0, error state or timeout
ResumeWait0 ==
  /\ s = "wait0"
  /\ s' = "idle"
  /\ UNCHANGED <<cntrl, wakev, queue, worker, pm_mutex, res, task, intvec, driver,
                 client, hw>>

SuspendSteps ==
  \/ SuspendGet \/ SuspendWait \/ SuspendPut \/ SuspendEnter \/ SuspendWait3
  \/ ResumeExit \/ ResumeWait0
Suspend == SuspendCheck \/ SuspendSteps \/ ResumeCheck

-----------------------------------------------------------------------------
(* Client drivers and debugfs.                                             *)

mhi_device_get ==
  /\ devices # {} /\ votes < MaxVotes
  /\ mhi_assert_dev_wake(TRUE)
  /\ votes' = votes + 1
  /\ UNCHANGED <<cntrl, pending_pkts, queue, worker, pm_mutex, res, task, intvec, driver,
                 dvotes, syncs, s, hw>>

mhi_device_put ==
  /\ votes > 0
  /\ mhi_deassert_dev_wake(FALSE)
  /\ votes' = votes - 1
  /\ UNCHANGED <<cntrl, pending_pkts, queue, worker, pm_mutex, res, task, intvec, driver,
                 dvotes, syncs, s, hw>>

\* "get" written to device_wake: mhi_device_get_sync() on the controller's own
\* device, which no teardown of the channel devices removes
DebugfsGet ==
  /\ Debugfs /\ syncs + dvotes < MaxVotes
  /\ mhi_assert_dev_wake(TRUE)
  /\ syncs' = syncs + 1
  /\ UNCHANGED <<cntrl, pending_pkts, queue, worker, pm_mutex, res, task, intvec, driver,
                 votes, dvotes, s, hw>>

DebugfsGetDone ==
  /\ syncs > 0
  /\ syncs' = syncs - 1
  /\ \/ /\ pm_state = "M0"
        /\ dvotes' = dvotes + 1 /\ UNCHANGED <<dev_wake, wake_set>>
     \/ GetSyncGivesUp /\ UNCHANGED dvotes
  /\ UNCHANGED <<cntrl, pending_pkts, queue, worker, pm_mutex, res, task, intvec, driver,
                 votes, s, hw>>

DebugfsPut ==
  /\ dvotes > 0
  /\ mhi_deassert_dev_wake(FALSE)
  /\ dvotes' = dvotes - 1
  /\ UNCHANGED <<cntrl, pending_pkts, queue, worker, pm_mutex, res, task, intvec, driver,
                 votes, syncs, s, hw>>

\* what mhi_queue_skb() and mhi_queue_dma() do to this layer, under pm_lock
XferQueue ==
  /\ devices # {} /\ pending_pkts < MaxPkts
  /\ ~MHI_PM_IN_ERROR_STATE(pm_state)
  /\ pending_pkts' = pending_pkts + 1
  /\ wake_toggle
  /\ UNCHANGED <<cntrl, dev_wake, queue, worker, pm_mutex, res, task, intvec, driver,
                 client, s, hw>>

\* a transfer event completes an uplink packet
XferDone ==
  /\ pending_pkts > 0 /\ hw_state \in {"M0", "M1"}
  /\ ~MHI_EVENT_ACCESS_INVALID(pm_state)
  /\ pending_pkts' = pending_pkts - 1
  /\ UNCHANGED <<cntrl, dev_wake, wake_set, queue, worker, pm_mutex, res, task, intvec,
                 driver, client, s, hw>>

Clients == \/ mhi_device_get \/ mhi_device_put \/ DebugfsGet \/ DebugfsGetDone
           \/ DebugfsPut \/ XferQueue \/ XferDone

-----------------------------------------------------------------------------
(* The device (external).                                                  *)

HwFrame == UNCHANGED <<cntrl, wakev, queue, worker, pm_mutex, res, t, t_any, iv, driver,
                       client, s>>

\* put an event on the control ring and raise its interrupt
Emit(e) == Len(evq) < EvRing /\ evq' = Append(evq, e) /\ t_sched' = (t_sched \/ irqs)
NoEvent == UNCHANGED <<evq, t_sched>>

HwResetDone ==
  /\ hw_reset
  /\ hw_reset' = FALSE /\ hw_state' = "RESET" /\ hw_req' = "none"
  /\ NoEvent /\ HwFrame /\ UNCHANGED <<iv_pend, hw_ee, budget>>

HwReady ==
  /\ hw_state = "RESET" /\ ~hw_reset /\ hw_ee \notin {"PBL", "EDL"}
  /\ hw_state' = "READY" /\ iv_pend' = irqs
  /\ NoEvent /\ HwFrame /\ UNCHANGED <<hw_ee, hw_reset, hw_req, budget>>

\* enter the state the host asked for; entering M2 is not reported
HwEnter ==
  /\ hw_req # "none" /\ ~hw_reset /\ hw_state \notin {"SYS_ERR", "RESET"}
  /\ hw_state' = hw_req /\ hw_req' = "none"
  /\ IF hw_req = "M2" THEN NoEvent ELSE Emit(State(hw_req))
  /\ HwFrame /\ UNCHANGED <<iv_pend, hw_ee, hw_reset, budget>>

\* idle: ask for a low-power state, unless the wake doorbell forbids it
HwIdle ==
  /\ budget > 0 /\ hw_state = "M0" /\ hw_req = "none" /\ ~wake_set
  /\ budget' = budget - 1
  /\ hw_state' = "M1" /\ Emit(State("M1"))
  /\ HwFrame /\ UNCHANGED <<iv_pend, hw_ee, hw_reset, hw_req>>

\* leave M1 or M2: a doorbell rang, or the device has data
HwWake ==
  /\ hw_state \in {"M1", "M2"} /\ ~hw_reset
  /\ \/ (wake_set \/ (pending_pkts > 0 /\ ~m2_no_db)) /\ UNCHANGED budget
     \/ budget > 0 /\ budget' = budget - 1
  /\ hw_state' = "M0" /\ hw_req' = "none" /\ Emit(State("M0"))
  /\ HwFrame /\ UNCHANGED <<iv_pend, hw_ee, hw_reset>>

\* boot another image and report its environment
HwBoot(e) ==
  /\ budget > 0 /\ hw_state = "M0" /\ ~hw_reset /\ e \in HwEE
  /\ budget' = budget - 1
  /\ hw_ee' = e /\ Emit(EnvEv(e))
  /\ HwFrame /\ UNCHANGED <<iv_pend, hw_state, hw_reset, hw_req>>

\* crash, into environment e: reported by an event or by the BHI interrupt
HwSysErr(e) ==
  /\ budget > 0 /\ hw_state \notin {"SYS_ERR", "RESET"} /\ ~hw_reset /\ e \in HwEE
  /\ budget' = budget - 1
  /\ hw_state' = "SYS_ERR" /\ hw_ee' = e /\ hw_req' = "none"
  /\ \/ hw_state # "READY" /\ Emit(State("SYS_ERR")) /\ UNCHANGED iv_pend
     \/ NoEvent /\ iv_pend' = irqs
  /\ HwFrame /\ UNCHANGED hw_reset

\* an interrupt on a vector the control ring shares: a late or a foreign one
HwMsi ==
  /\ budget > 0 /\ irqs
  /\ budget' = budget - 1
  /\ \/ evq # <<>> /\ t_sched' = TRUE /\ UNCHANGED iv_pend
     \/ iv_pend' = TRUE /\ UNCHANGED t_sched
  /\ HwFrame /\ UNCHANGED <<hw_state, hw_ee, hw_reset, hw_req, evq>>

Device ==
  \/ HwResetDone \/ HwReady \/ HwEnter \/ HwIdle \/ HwWake \/ HwMsi
  \/ \E e \in HwEE : HwBoot(e) \/ HwSysErr(e)

-----------------------------------------------------------------------------
Next == StWorker \/ Tasklet \/ Intvec \/ Controller \/ Suspend \/ Clients \/ Device

Spec == Init /\ [][Next]_vars

(***************************************************************************)
(* Fairness: the workqueue, softirq and IRQ threads are scheduled; a caller *)
(* inside a PM call keeps running, and each of its waits has a timeout; the *)
(* device leaves M1 and M2 when the wake doorbell is set.  Nothing else of  *)
(* the device is assumed, and nobody has to call in.                        *)
(***************************************************************************)
Fairness ==
  /\ WF_vars(StWorker) /\ WF_vars(Tasklet) /\ WF_vars(Intvec)
  /\ WF_vars(PowerUpSteps) /\ WF_vars(PowerDownSteps) /\ WF_vars(SuspendSteps)
  /\ WF_vars(wake_set /\ HwWake)

FairSpec == Spec /\ Fairness

-----------------------------------------------------------------------------
(* What is checked.  A property that mentions session is about the calls   *)
(* between one power-up and the next unprepare, when the power-up found     *)
(* nothing of an earlier session still at work.                             *)

\* Type correctness.
TypeOK ==
  /\ pm_state \in PmState /\ dev_state \in MhiState /\ ee \in EE
  /\ dev_wake \in Int /\ wake_set \in BOOLEAN /\ pending_pkts \in Nat
  /\ transition_list \in Seq(StTransition) /\ work \in BOOLEAN
  /\ w \in WorkerPc /\ head \in Seq(StTransition)
  /\ w_to \in {"none", "MM", "SYS_ERR_PROCESS", "SHUTDOWN_PROCESS"}
  /\ pm_mutex \in {"free", "ctl", "worker"}
  /\ devices \subseteq ChanEE /\ ctxt \in BOOLEAN /\ irqs \in BOOLEAN
  /\ t \in TaskPc /\ t_sched \in BOOLEAN /\ t_any \in BOOLEAN
  /\ iv \in IntvecPc /\ iv_pend \in BOOLEAN
  /\ ctl \in CtlPc /\ cur_ee \in EE
  /\ flush \in {"none", "pending", "running", "done"}
  /\ ups \in 0..MaxPowerUps /\ fatal_work \in BOOLEAN /\ session \in BOOLEAN
  /\ votes \in Nat /\ dvotes \in Nat /\ syncs \in Nat
  /\ s \in SuspPc
  /\ hw_state \in MhiState /\ hw_ee \in DeviceEE /\ hw_reset \in BOOLEAN
  /\ hw_req \in {"none", "M0", "M2", "M3"}
  /\ evq \in Seq(Event) /\ budget \in 0..MaxEvents

ReadyPc    == {"ready", "ready_set", "ready_mmio"}
TeardownPc == {"dis_reset", "dis_wait", "dis_kill", "dis_destroy", "dis_rings", "dis_off"}
PowerUpPc  == {"up_irq", "up_por", "up_check", "up_rst", "up_q", "up_err"}

\* the worker holds pm_mutex: teardown, except while the channel devices are
\* destroyed, and the ready transition that ends a recovery
WorkerLocked ==
  \/ w \in TeardownPc \ {"dis_destroy", "dis_rings"}
  \/ w \in ReadyPc /\ w_to = "SYS_ERR_PROCESS"

\* mhi_async_power_up() never runs while mhi_pm_disable_transition() is in one
\* of its sections under pm_mutex, and pm_mutex is free when neither runs: each
\* early return of both functions drops it exactly once.
PmMutexExclusion ==
  /\ (pm_mutex = "ctl") <=> (ctl \in PowerUpPc)
  /\ (pm_mutex = "worker") <=> WorkerLocked

\* While mhi_pm_disable_transition() takes the controller apart nobody else
\* moves the PM state, other than to report that the link is gone: a late event
\* or interrupt cannot bring it back to POR, M0 or SYS_ERR_DETECT.
TeardownExclusive ==
  session /\ w \in TeardownPc => pm_state \in {w_to, "LD_ERR_FATAL_DETECT"}

\* mhi_ctrl_ev_task() checks register access with no lock when it starts, and
\* reads MHISTATUS at its end: "there is no way PM state can change from reg
\* access valid to no access while this thread being executed".
CtrlTaskRegAccess ==
  session /\ t = "poll" => MHI_REG_ACCESS_VALID(pm_state)

\* mhi_ctrl_ev_task() "can check PM state w/o a lock here because there is no way PM state
\* can change from reg access valid to no access while this thread being executed": while
\* it runs, from the check on, either the registers may be accessed or at least the device
\* context that mhi_process_ctrl_ev_ring() loads from first is still there.
TaskletContext ==
  t # "idle" => MHI_REG_ACCESS_VALID(pm_state) \/ ctxt

\* votes held by the worker: mission mode holds one throughout, probing one more
WorkerVotes == (IF w_to = "MM" /\ w # "mm_get" THEN 1 ELSE 0)
                 + (IF w = "probe" THEN 1 ELSE 0)
SuspendVotes == IF s \in {"wait", "put_ok", "put_to"} THEN 1 ELSE 0

\* dev_wake counts exactly the wake votes somebody still holds: every timeout
\* and error return of a function that took a vote gives it back, once.
VoteBalance ==
  session => dev_wake = votes + dvotes + syncs + WorkerVotes + SuspendVotes

\* WARN_ON(atomic_read(&mhi_cntrl->dev_wake)) of mhi_pm_disable_transition().
TeardownVoteFree ==
  session /\ w = "dis_rings" => dev_wake = 0

\* In M2 with a vote held, and no M1 event being answered, the wake doorbell is
\* set: a vote cannot fall between the M1 handler's look at dev_wake and its
\* write of the PM state.
WakeDoorbellHeld ==
  session /\ pm_state = "M2" /\ dev_wake > 0 /\ t \notin {"m1", "m1_wake"} => wake_set

\* mhi_power_down() is final: when it returns the PM state is DISABLE, no MHI
\* device exists and nothing queued earlier changes that.
PowerDownFinal ==
  session /\ ctl = "down" => pm_state = "DISABLE" /\ devices = {}

\* An error state is left only by the worker, at the end of a recovery or of a
\* shutdown and with every MHI device gone, or by the next power-up: never by an
\* event, a suspend or a resume.
ErrorStateSticky ==
  [][/\ session /\ MHI_PM_IN_ERROR_STATE(pm_state) /\ ~MHI_PM_IN_ERROR_STATE(pm_state')
     => w \in {"ready_set", "dis_off"} /\ devices = {}]_vars

\* mhi_async_power_up() gives up on a device in SYS_ERR only if it failed to
\* come out of reset ("Failed to reset MHI due to syserr state") or the link is
\* gone.
PowerUpResetWorks ==
  [][ctl = "up_rst" /\ ctl' = "up_err" => hw_reset \/ MHI_PM_IN_FATAL_STATE(pm_state)]_vars

\* mhi_power_down() returns: the worker gets pm_mutex, tasklet_kill() ends and
\* flush_work() sees the DISABLE item handled.
PowerDownCompletes == ctl \in {"dn_ld", "dn_q"} ~> ctl = "down"

\* A detected system error is acted on: the worker moves the PM state on, or the
\* controller driver was told.
SysErrHandled == pm_state = "SYS_ERR_DETECT" ~> pm_state # "SYS_ERR_DETECT" \/ fatal_work

\* A vote takes the device out of M2, whatever the order of the vote, the M1
\* event and the other votes given and taken back.
VoteServed == (pm_state = "M2" /\ dev_wake > 0) ~> (pm_state # "M2" \/ dev_wake = 0)
=============================================================================
