------------------------------ MODULE MhiChan ------------------------------
(***************************************************************************)
(* One transfer channel: its rings, its commands and its clients           *)
(* (core/main.c, with mhi_driver_remove() and the channel context of        *)
(* core/init.c).                                                            *)
(*                                                                         *)
(* Threads of control, each with its own program counter:                  *)
(*   q    the client's thread that queues buffers.  There is one:           *)
(*        "mhi_queue_skb is not thread-safe" (mhi_net_mbim.c)               *)
(*   o    the client's thread that opens and closes the channel:            *)
(*        mhi_prepare_channel() and __mhi_unprepare_channel()               *)
(*   r    the removal of the client's device, mhi_driver_remove()           *)
(*   x    per event ring, the tasklet that handles its events               *)
(*   pm   the power management layer (MhiPm) as the channel sees it         *)
(*   d_   the device (external)                                             *)
(*                                                                         *)
(* Buffers are numbered in the order in which they enter the ring.  Ring    *)
(* pointers are element indices.  chan->lock is held by a tasklet while it  *)
(* is inside the transfer loop; every other section under it is one step.   *)
(*                                                                         *)
(* Channel doorbells are in MhiDb: here the device may learn of the write    *)
(* pointer, and ask for a doorbell, at any time, which is more than any      *)
(* order of doorbells lets it do.                                           *)
(***************************************************************************)
EXTENDS Integers, Sequences

CONSTANTS
  N,          \* elements of the transfer ring
  CmdN,       \* elements of the command ring
  EvN,        \* events an event ring holds
  MaxBufs,    \* bound: buffers queued in one behaviour
  MaxOpens,   \* bound: calls of mhi_prepare_channel() in one behaviour
  Kinds,      \* how the client queues: "skb" (or dma), "buf"
  UL,         \* TRUE for a channel to the device
  pre_alloc,  \* the host fills the ring itself (auto_queue)
  HwRing,     \* the channel has an event ring of its own
  Mission,    \* the channel is used in mission mode (AMSS)
  CmdFaults,  \* the device may refuse to reset a channel, or answer later than the host waits
  Unbind      \* the client driver may be unbound from a working device

ASSUME ChanConstants ==
  /\ N \in Nat /\ N >= 2
  /\ CmdN \in Nat /\ CmdN >= 2
  /\ EvN \in Nat /\ MaxBufs \in Nat /\ MaxOpens \in Nat
  /\ Kinds \subseteq {"skb", "buf"}
  /\ {UL, pre_alloc, HwRing, Mission, CmdFaults, Unbind} \subseteq BOOLEAN
  /\ ~(UL /\ pre_alloc)        \* "Invalid channel configuration"

VARIABLES
  pm, m0_rings,         \* PM state; an M0 event has yet to ring the command doorbell
  ch_state, ccs, done,  \* channel state; result and arrival of a command's answer
  mutex,                \* chan->mutex: "free", or its holder
  tre, buf, slot,       \* the two rings [rp, wp]; what the buffer ring holds
  base,                 \* the buffer ring is allocated
  pending_pkts,         \* uplink packets not completed
  cmds, c_db,           \* command ring, oldest first; how many the device knows of
  ev,                   \* per event ring: events not yet recycled
  x, x_to,              \* tasklets: pc, where the transfer loop ends
  q, q_kind,            \* queueing thread: pc, which function it is in
  o, nr_el, opens,      \* opening thread: pc, elements to fill, number of calls
  r, r_was,             \* removal: pc, ch_state[] of mhi_driver_remove()
  d_on, d_rp, d_wp,     \* device: channel started, next element, write pointer it knows
  d_cmd,                \* commands of the ring it has executed
  sent, back,           \* history: the last buffer queued, the last one handed back
  sess, d_sess          \* history: number of the channel context; the one started

pmv   == <<pm, m0_rings>>
chan  == <<ch_state, ccs, done>>
rings == <<tre, buf, slot, base, sent, back>>
cmdv  == <<cmds, c_db, d_cmd>>
task  == <<x, x_to>>
qv    == <<q, q_kind>>
ov    == <<o, nr_el, opens>>
rv    == <<r, r_was>>
dev   == <<d_on, d_rp, d_wp, d_sess>>
vars  == <<pmv, chan, mutex, rings, pending_pkts, cmdv, ev, task, qv, ov, rv, dev, sess>>

-----------------------------------------------------------------------------
El       == 0..(N - 1)
Rings    == IF HwRing THEN {"ctrl", "data"} ELSE {"ctrl"}
DataRing == IF HwRing THEN "data" ELSE "ctrl"
Event    == [type : {"TX", "DB", "CMD"}, stale : BOOLEAN, idx : El, sess : Nat, ok : BOOLEAN]

QueuePc  == {"idle", "skb", "buf", "gen", "ring"}
OpenPc   == {"closed", "p_lock", "p_err", "p_send", "p_wait", "p_ccs", "p_enable",
             "p_fill", "p_fail", "open", "u_lock", "u_err", "u_send", "u_wait",
             "u_stale", "u_drain", "u_deinit"}
RemovePc == {"none", "lock", "stale", "drain", "client", "stop", "deinit", "gone"}
TaskPc   == {"idle", "run", "seen", "loop", "cb", "recycle"}

Init ==
  /\ pm = "M0" /\ m0_rings = FALSE
  /\ ch_state = "DISABLED" /\ ccs = "INVALID" /\ done = FALSE
  /\ mutex = "free"
  /\ tre = [rp |-> 0, wp |-> 0] /\ buf = [rp |-> 0, wp |-> 0]
  /\ slot = [i \in El |-> 0] /\ base = FALSE
  /\ pending_pkts = 0
  /\ cmds = <<>> /\ c_db = 0
  /\ ev = [g \in Rings |-> <<>>]
  /\ x = [g \in Rings |-> "idle"] /\ x_to = 0
  /\ q = "idle" /\ q_kind = "skb"
  /\ o = "closed" /\ nr_el = 0 /\ opens = 0 /\ r = "none" /\ r_was = "DISABLED"
  /\ d_on = FALSE /\ d_rp = 0 /\ d_wp = 0 /\ d_cmd = 0
  /\ sent = 0 /\ back = 0 /\ sess = 0 /\ d_sess = 0

-----------------------------------------------------------------------------
(* Ring arithmetic.                                                        *)

\* mutant: the pointer runs past the end of the ring
NextElStraight(i) == i + 1

NextEl(i) == IF i + 1 >= N THEN 0 ELSE i + 1

mhi_add_ring_element(ring) == [ring EXCEPT !.wp = NextEl(@)]
mhi_del_ring_element(ring) == [ring EXCEPT !.rp = NextEl(@)]

mhi_is_ring_full(ring) == NextEl(ring.wp) = ring.rp

get_nr_avail_ring_elements(ring) ==
  IF ring.wp < ring.rp THEN ring.rp - ring.wp - 1 ELSE ring.rp + (N - ring.wp) - 1

\* elements between rp and wp; element k of them, from 1
Used(ring) == IF ring.wp < ring.rp THEN N - (ring.rp - ring.wp) ELSE ring.wp - ring.rp
Nth(ring, k) == IF ring.rp + k - 1 >= N THEN ring.rp + k - 1 - N ELSE ring.rp + k - 1

-----------------------------------------------------------------------------
(* Locks and the waits.                                                    *)

\* MHI_DB_ACCESS_VALID, MHI_PM_IN_ERROR_STATE
DbValid == pm = "M0"
InError == pm = "ERR"

\* chan->lock may be taken for writing
ChanLock == \A g \in Rings : x[g] \notin {"loop", "cb", "recycle"}

\* pm_lock is held for reading across steps: it may not be taken for writing
PmRead == \/ q \in {"gen", "ring"} /\ q_kind = "skb"
          \/ o = "u_drain" \/ r = "drain"
PmLock == ~PmRead

\* nobody answers in time; in an error state nobody answers
TimedOut == CmdFaults \/ InError

\* mutant: the element is filled after the write pointers have moved
mhi_gen_tre_late ==
  /\ slot' = [slot EXCEPT ![NextEl(buf.wp)] = sent + 1]
  /\ tre' = mhi_add_ring_element(tre)
  /\ buf' = mhi_add_ring_element(buf)
  /\ sent' = sent + 1
  /\ UNCHANGED <<base, back>>

\* the element is filled before the write pointers move: one step
mhi_gen_tre ==
  /\ slot' = [slot EXCEPT ![buf.wp] = sent + 1]
  /\ tre' = mhi_add_ring_element(tre)
  /\ buf' = mhi_add_ring_element(buf)
  /\ sent' = sent + 1
  /\ UNCHANGED <<base, back>>

-----------------------------------------------------------------------------
(* Queueing: mhi_queue_skb(), mhi_queue_dma() and mhi_queue_buf().         *)

ClientOpen == o = "open" /\ sent < MaxBufs /\ r # "stop"

\* the ring is looked at before pm_lock is taken; a pre-allocated channel is refused
QueueSkb ==
  /\ q = "idle" /\ ClientOpen /\ "skb" \in Kinds /\ ~pre_alloc
  /\ ~mhi_is_ring_full(tre)
  /\ q' = "skb" /\ UNCHANGED q_kind
  /\ UNCHANGED <<pmv, chan, mutex, rings, pending_pkts, cmdv, ev, task, ov, rv, dev, sess>>

\* mutant: the error state is not looked at
QueueSkbLockedAny ==
  /\ q = "skb"
  /\ q' = "gen" /\ q_kind' = "skb"
  /\ UNCHANGED <<pmv, chan, mutex, rings, pending_pkts, cmdv, ev, task, ov, rv, dev, sess>>

\* under pm_lock from here on
QueueSkbLocked ==
  /\ q = "skb"
  /\ q' = IF InError THEN "idle" ELSE "gen"
  /\ q_kind' = "skb"
  /\ UNCHANGED <<pmv, chan, mutex, rings, pending_pkts, cmdv, ev, task, ov, rv, dev, sess>>

\* "this check here only as a guard"
QueueBuf ==
  /\ q = "idle" /\ ClientOpen /\ "buf" \in Kinds
  /\ ~InError
  /\ q' = "buf" /\ q_kind' = "buf"
  /\ UNCHANGED <<pmv, chan, mutex, rings, pending_pkts, cmdv, ev, task, ov, rv, dev, sess>>

QueueBufFull ==
  /\ q = "buf"
  /\ q' = IF mhi_is_ring_full(tre) THEN "idle" ELSE "gen"
  /\ UNCHANGED <<pmv, chan, mutex, rings, pending_pkts, cmdv, ev, task, q_kind, ov, rv,
                 dev, sess>>

\* the buffer cannot be mapped, or its element enters the ring
QueueGen ==
  /\ q = "gen"
  /\ \/ q' = "idle" /\ UNCHANGED rings
     \/ q' = "ring" /\ mhi_gen_tre
  /\ UNCHANGED <<pmv, chan, mutex, pending_pkts, cmdv, ev, task, q_kind, ov, rv, dev, sess>>

\* count the packet and ring the doorbell (MhiDb), under pm_lock
QueueRing ==
  /\ q = "ring"
  /\ q' = "idle"
  /\ pending_pkts' = IF UL THEN pending_pkts + 1 ELSE pending_pkts
  /\ UNCHANGED <<pmv, chan, mutex, rings, cmdv, ev, task, q_kind, ov, rv, dev, sess>>

QueueSteps == QueueSkbLocked \/ QueueBufFull \/ QueueGen \/ QueueRing
Queue == QueueSkb \/ QueueBuf \/ QueueSteps

-----------------------------------------------------------------------------
(* Events: mhi_process_ctrl_ev_ring(), mhi_process_data_event_ring().      *)

\* the tasklet looks at the PM state once, when it starts
TaskStart(g) ==
  /\ x[g] = "idle" /\ ev[g] # <<>> /\ ~InError
  /\ x' = [x EXCEPT ![g] = "run"]
  /\ UNCHANGED <<pmv, chan, mutex, rings, pending_pkts, cmdv, ev, x_to, qv, ov,
                 rv, dev, sess>>

TaskEnd(g) ==
  /\ x[g] = "run" /\ ev[g] = <<>>
  /\ x' = [x EXCEPT ![g] = "idle"]
  /\ UNCHANGED <<pmv, chan, mutex, rings, pending_pkts, cmdv, ev, x_to, qv, ov,
                 rv, dev, sess>>

\* the event at the head has this type; when it is handled its element is recycled
Is(g, type) == ev[g] # <<>> /\ Head(ev[g]).type = type /\ ~Head(ev[g]).stale
mhi_recycle_ev_ring_element(g) == ev' = [ev EXCEPT ![g] = Tail(@)]

TaskStale(g) ==
  /\ x[g] = "run" /\ ev[g] # <<>> /\ Head(ev[g]).stale
  /\ mhi_recycle_ev_ring_element(g)
  /\ UNCHANGED <<pmv, chan, mutex, rings, pending_pkts, cmdv, task, qv, ov, rv, dev, sess>>

\* mhi_process_cmd_completion(): which command is answered is not looked at
TaskCmd(g) ==
  /\ x[g] = "run" /\ Is(g, "CMD") /\ ChanLock
  /\ ccs' = IF Head(ev[g]).ok THEN "SUCCESS" ELSE "UNDEFINED_ERR"
  /\ done' = TRUE
  /\ cmds' = Tail(cmds) /\ c_db' = c_db - 1 /\ d_cmd' = d_cmd - 1
  /\ mhi_recycle_ev_ring_element(g)
  /\ UNCHANGED <<pmv, ch_state, mutex, rings, pending_pkts, task, qv, ov, rv, dev, sess>>

\* the type of a transfer event is read before chan->lock is taken
TaskSee(g) ==
  /\ x[g] = "run" /\ (Is(g, "TX") \/ Is(g, "DB"))
  /\ x' = [x EXCEPT ![g] = "seen"]
  /\ UNCHANGED <<pmv, chan, mutex, rings, pending_pkts, cmdv, ev, x_to, qv, ov,
                 rv, dev, sess>>

\* mutant: the state of the channel is not looked at
MayParse_any == TRUE

MayParse == ch_state = "ENABLED"

\* parse_xfer_event(), OOB and DB_MODE: the device wants a doorbell (MhiDb)
TaskDb(g) ==
  /\ x[g] = "seen" /\ Head(ev[g]).type = "DB" /\ ChanLock
  /\ x' = [x EXCEPT ![g] = "run"]
  /\ mhi_recycle_ev_ring_element(g)
  /\ UNCHANGED <<pmv, chan, mutex, rings, pending_pkts, cmdv, x_to, qv, ov, rv, dev, sess>>

\* parse_xfer_event(), EOT, EOB and OVERFLOW: the event's element is the last one done
TaskTx(g) ==
  /\ x[g] = "seen" /\ Head(ev[g]).type = "TX"
  /\ IF MayParse
     THEN /\ x' = [x EXCEPT ![g] = "loop"] /\ x_to' = NextEl(Head(ev[g]).idx)
          /\ UNCHANGED ev
     ELSE /\ x' = [x EXCEPT ![g] = "run"] /\ mhi_recycle_ev_ring_element(g)
          /\ UNCHANGED x_to
  /\ UNCHANGED <<pmv, chan, mutex, rings, pending_pkts, cmdv, qv, ov, rv, dev, sess>>

\* the buffer at the read pointer leaves the ring
DelBoth ==
  /\ buf' = mhi_del_ring_element(buf)
  /\ tre' = mhi_del_ring_element(tre)
  /\ back' = slot[buf.rp]
  /\ UNCHANGED <<slot, base, sent>>

TaskTake(g) ==
  /\ x[g] = "loop" /\ tre.rp # x_to
  /\ x' = [x EXCEPT ![g] = "cb"]
  /\ DelBoth
  /\ UNCHANGED <<pmv, chan, mutex, pending_pkts, cmdv, ev, x_to, qv, ov, rv, dev, sess>>

\* xfer_cb(), then the count
TaskCb(g) ==
  /\ x[g] = "cb"
  /\ x' = [x EXCEPT ![g] = IF pre_alloc THEN "recycle" ELSE "loop"]
  /\ pending_pkts' = IF UL THEN pending_pkts - 1 ELSE pending_pkts
  /\ UNCHANGED <<pmv, chan, mutex, rings, cmdv, ev, x_to, qv, ov, rv, dev, sess>>

\* mhi_queue_buf() on the same buffer, or kfree(): error state, full, or not mapped
TaskRecycle(g) ==
  /\ x[g] = "recycle"
  /\ x' = [x EXCEPT ![g] = "loop"]
  /\ \/ ~InError /\ ~mhi_is_ring_full(tre) /\ sent < MaxBufs /\ mhi_gen_tre
     \/ UNCHANGED rings
  /\ UNCHANGED <<pmv, chan, mutex, pending_pkts, cmdv, ev, x_to, qv, ov, rv, dev, sess>>

TaskTxEnd(g) ==
  /\ x[g] = "loop" /\ tre.rp = x_to
  /\ x' = [x EXCEPT ![g] = "run"]
  /\ mhi_recycle_ev_ring_element(g)
  /\ UNCHANGED <<pmv, chan, mutex, rings, pending_pkts, cmdv, x_to, qv, ov, rv,
                 dev, sess>>

Tasklet(g) ==
  \/ TaskStart(g) \/ TaskEnd(g) \/ TaskStale(g) \/ TaskCmd(g) \/ TaskSee(g) \/ TaskDb(g)
  \/ TaskTx(g) \/ TaskTake(g) \/ TaskCb(g) \/ TaskRecycle(g) \/ TaskTxEnd(g)

-----------------------------------------------------------------------------
(* mhi_prepare_channel()                                                   *)

Goto(pc) == o' = pc /\ UNCHANGED <<nr_el, opens>>

Open ==
  /\ o = "closed" /\ r \notin {"stop", "deinit", "gone"} /\ opens < MaxOpens
  /\ o' = "p_lock" /\ opens' = opens + 1 /\ UNCHANGED nr_el
  /\ UNCHANGED <<pmv, chan, mutex, rings, pending_pkts, cmdv, ev, task, qv, rv, dev, sess>>

\* empty rings and a new buffer ring
mhi_init_chan_ctxt ==
  /\ base' = TRUE /\ slot' = [i \in El |-> 0]
  /\ tre' = [rp |-> 0, wp |-> 0] /\ buf' = [rp |-> 0, wp |-> 0]
  /\ sess' = sess + 1

mhi_deinit_chan_ctxt == base' = FALSE

\* a disabled channel gets its context; or no memory, not disabled, wrong environment
PrepareLock ==
  /\ o = "p_lock" /\ mutex = "free"
  /\ \/ ch_state = "DISABLED" /\ mhi_init_chan_ctxt /\ mutex' = "op" /\ Goto("p_err")
     \/ Goto("closed") /\ UNCHANGED <<base, slot, tre, buf, sess, mutex>>
  /\ UNCHANGED <<pmv, chan, sent, back, pending_pkts, cmdv, ev, task, qv, rv, dev>>

PrepareErr ==
  /\ o = "p_err"
  /\ done' = FALSE
  /\ Goto(IF InError THEN "p_fail" ELSE "p_send")
  /\ UNCHANGED <<pmv, ch_state, ccs, mutex, rings, pending_pkts, cmdv, ev, task, qv, rv,
                 dev, sess>>

\* mhi_send_cmd(), if the command ring has room
mhi_send_cmd(cmd) ==
  /\ Len(cmds) < CmdN - 1
  /\ cmds' = Append(cmds, cmd)
  /\ c_db' = IF DbValid THEN Len(cmds) + 1 ELSE c_db
  /\ UNCHANGED d_cmd

PrepareSend ==
  /\ o = "p_send"
  /\ \/ mhi_send_cmd("START") /\ Goto("p_wait")
     \/ Len(cmds) = CmdN - 1 /\ Goto("p_fail") /\ UNCHANGED cmdv
  /\ UNCHANGED <<pmv, chan, mutex, rings, pending_pkts, ev, task, qv, rv, dev, sess>>

\* wait_for_completion_timeout(); the result is read after the wait
PrepareWait ==
  /\ o = "p_wait"
  /\ \/ done /\ Goto("p_ccs")
     \/ ~done /\ TimedOut /\ Goto("p_fail")
  /\ done' = FALSE
  /\ UNCHANGED <<pmv, ch_state, ccs, mutex, rings, pending_pkts, cmdv, ev, task, qv, rv,
                 dev, sess>>

\* mutant: any answer will do
CmdWorked_any == TRUE

CmdWorked == ccs = "SUCCESS"

PrepareCcs ==
  /\ o = "p_ccs"
  /\ Goto(IF CmdWorked THEN "p_enable" ELSE "p_fail")
  /\ UNCHANGED <<pmv, chan, mutex, rings, pending_pkts, cmdv, ev, task, qv, rv, dev, sess>>

PrepareEnable ==
  /\ o = "p_enable" /\ ChanLock
  /\ ch_state' = "ENABLED"
  /\ \/ /\ pre_alloc
        /\ o' = "p_fill" /\ nr_el' = get_nr_avail_ring_elements(tre) /\ UNCHANGED mutex
     \/ ~pre_alloc /\ o' = "open" /\ mutex' = "free" /\ UNCHANGED nr_el
  /\ UNCHANGED <<pmv, ccs, done, rings, pending_pkts, cmdv, ev, task, qv, opens, rv, dev,
                 sess>>

\* one more buffer; or none can be had, and the channel is unprepared again
PrepareFill ==
  /\ o = "p_fill" /\ nr_el > 0
  /\ \/ /\ sent < MaxBufs
        /\ mhi_gen_tre
        /\ nr_el' = nr_el - 1 /\ UNCHANGED <<o, mutex>>
     \/ o' = "u_lock" /\ mutex' = "free" /\ UNCHANGED <<rings, nr_el>>
  /\ UNCHANGED <<pmv, chan, pending_pkts, cmdv, ev, task, qv, opens, rv, dev, sess>>

PrepareDb ==
  /\ o = "p_fill" /\ nr_el = 0
  /\ mutex' = "free" /\ Goto("open")
  /\ UNCHANGED <<pmv, chan, rings, pending_pkts, cmdv, ev, task, qv, rv, dev, sess>>

PrepareFail ==
  /\ o = "p_fail"
  /\ mhi_deinit_chan_ctxt
  /\ mutex' = "free" /\ Goto("closed")
  /\ UNCHANGED <<pmv, chan, tre, buf, slot, sent, back, pending_pkts, cmdv, ev, task, qv, rv,
                 dev, sess>>

-----------------------------------------------------------------------------
(* __mhi_unprepare_channel()                                               *)

\* the client has stopped queueing
Close ==
  /\ o = "open" /\ q = "idle" /\ r # "stop"
  /\ Goto("u_lock")
  /\ UNCHANGED <<pmv, chan, mutex, rings, pending_pkts, cmdv, ev, task, qv, rv, dev, sess>>

UnprepareLock ==
  /\ o = "u_lock" /\ mutex = "free" /\ ChanLock
  /\ \/ /\ ch_state = "ENABLED"
        /\ ch_state' = "DISABLED" /\ mutex' = "op" /\ Goto("u_err")
     \/ ch_state # "ENABLED" /\ Goto("closed") /\ UNCHANGED <<ch_state, mutex>>
  /\ UNCHANGED <<pmv, ccs, done, rings, pending_pkts, cmdv, ev, task, qv, rv, dev, sess>>

UnprepareErr ==
  /\ o = "u_err"
  /\ done' = FALSE
  /\ Goto(IF InError THEN "u_stale" ELSE "u_send")
  /\ UNCHANGED <<pmv, ch_state, ccs, mutex, rings, pending_pkts, cmdv, ev, task, qv, rv,
                 dev, sess>>

UnprepareSend ==
  /\ o = "u_send"
  /\ \/ mhi_send_cmd("RESET") /\ Goto("u_wait")
     \/ Len(cmds) = CmdN - 1 /\ Goto("u_stale") /\ UNCHANGED cmdv
  /\ UNCHANGED <<pmv, chan, mutex, rings, pending_pkts, ev, task, qv, rv, dev, sess>>

\* "even if it fails we will still reset"
UnprepareWait ==
  /\ o = "u_wait"
  /\ done \/ TimedOut
  /\ done' = FALSE /\ Goto("u_stale")
  /\ UNCHANGED <<pmv, ch_state, ccs, mutex, rings, pending_pkts, cmdv, ev, task, qv, rv,
                 dev, sess>>

\* mutant: the events stay what they are
MarkStaleNothing == UNCHANGED ev

Staled(e) == [e EXCEPT !.stale = (e.stale \/ e.type # "CMD")]

\* mhi_mark_stale_events(), under the lock the tasklet of a data ring holds
mhi_mark_stale_events ==
  /\ HwRing => x["data"] = "idle"
  /\ ev' = [ev EXCEPT ![DataRing] = [i \in DOMAIN ev[DataRing] |-> Staled(ev[DataRing][i])]]

UnprepareStale ==
  /\ o = "u_stale"
  /\ mhi_mark_stale_events
  /\ Goto("u_drain")
  /\ UNCHANGED <<pmv, chan, mutex, rings, pending_pkts, cmdv, task, qv, rv, dev, sess>>

\* mutant: the packets stay counted
ResetDataChanUncounted ==
  /\ tre.rp # tre.wp
  /\ UNCHANGED pending_pkts
  /\ DelBoth

\* mhi_reset_data_chan(): one more buffer goes back with -ENOTCONN
mhi_reset_data_chan ==
  /\ tre.rp # tre.wp
  /\ pending_pkts' = IF UL THEN pending_pkts - 1 ELSE pending_pkts
  /\ DelBoth

UnprepareDrain ==
  /\ o = "u_drain"
  /\ \/ mhi_reset_data_chan /\ UNCHANGED ov
     \/ tre.rp = tre.wp /\ Goto("u_deinit") /\ UNCHANGED <<rings, pending_pkts>>
  /\ UNCHANGED <<pmv, chan, mutex, cmdv, ev, task, qv, rv, dev, sess>>

\* mutant: the mutex stays locked
UnprepareDeinitLocked ==
  /\ o = "u_deinit"
  /\ mhi_deinit_chan_ctxt
  /\ Goto("closed")
  /\ UNCHANGED <<pmv, chan, mutex, tre, buf, slot, sent, back, pending_pkts, cmdv, ev, task,
                 qv, rv, dev, sess>>

UnprepareDeinit ==
  /\ o = "u_deinit"
  /\ mhi_deinit_chan_ctxt
  /\ mutex' = "free" /\ Goto("closed")
  /\ UNCHANGED <<pmv, chan, tre, buf, slot, sent, back, pending_pkts, cmdv, ev, task, qv, rv,
                 dev, sess>>

PrepareSteps ==
  \/ PrepareLock \/ PrepareErr \/ PrepareSend \/ PrepareWait \/ PrepareCcs \/ PrepareEnable
  \/ PrepareFill \/ PrepareDb \/ PrepareFail
UnprepareSteps ==
  \/ UnprepareLock \/ UnprepareErr \/ UnprepareSend \/ UnprepareWait \/ UnprepareStale
  \/ UnprepareDrain \/ UnprepareDeinit
OpenSteps == PrepareSteps \/ UnprepareSteps

-----------------------------------------------------------------------------
(* mhi_driver_remove()                                                     *)

\* called by mhi_destroy_device() during a teardown, after tasklet_kill() on
\* every event ring; or when the client driver is unbound.  "Wake all threads
\* waiting for completion"
RemoveStart ==
  /\ r = "none" /\ ChanLock
  /\ \/ InError /\ \A g \in Rings : x[g] = "idle"
     \/ Unbind /\ ~InError
  /\ ccs' = "INVALID" /\ done' = TRUE
  /\ r' = "lock" /\ UNCHANGED r_was
  /\ UNCHANGED <<pmv, ch_state, mutex, rings, pending_pkts, cmdv, ev, task, qv, ov, dev,
                 sess>>

RemoveLock ==
  /\ r = "lock" /\ mutex = "free" /\ ChanLock
  /\ mutex' = "remove"
  /\ r_was' = ch_state /\ ch_state' = "SUSPENDED"
  /\ r' = "stale"
  /\ UNCHANGED <<pmv, ccs, done, rings, pending_pkts, cmdv, ev, task, qv, ov, dev, sess>>

RemoveStale ==
  /\ r = "stale"
  /\ mhi_mark_stale_events
  /\ r' = "drain" /\ UNCHANGED r_was
  /\ UNCHANGED <<pmv, chan, mutex, rings, pending_pkts, cmdv, task, qv, ov, dev, sess>>

RemoveDrain ==
  /\ r = "drain"
  /\ \/ mhi_reset_data_chan /\ UNCHANGED <<r, mutex>>
     \/ tre.rp = tre.wp /\ r' = "client" /\ mutex' = "free" /\ UNCHANGED <<rings, pending_pkts>>
  /\ UNCHANGED <<pmv, chan, cmdv, ev, task, qv, ov, r_was, dev, sess>>

\* the client's remove(): no new calls
RemoveCalled ==
  /\ r = "client"
  /\ r' = "stop" /\ UNCHANGED r_was
  /\ UNCHANGED <<pmv, chan, mutex, rings, pending_pkts, cmdv, ev, task, qv, ov, dev, sess>>

\* it waits for a call that opens or closes the channel, and for one that queues, but for
\* mhi_uci_remove(): a thread of its client may be inside mhi_queue_buf() from here on
RemoveClient ==
  /\ r = "stop" /\ (q = "idle" \/ q_kind = "buf") /\ o \in {"closed", "open"}
  /\ Goto("closed")
  /\ r' = "deinit" /\ UNCHANGED r_was
  /\ UNCHANGED <<pmv, chan, mutex, rings, pending_pkts, cmdv, ev, task, qv, dev, sess>>

\* mutant: the context of a channel that was enabled is kept
RemoveDeinitNever == FALSE

RemoveDeinits == r_was = "ENABLED"

RemoveDeinit ==
  /\ r = "deinit" /\ mutex = "free"
  /\ IF RemoveDeinits THEN mhi_deinit_chan_ctxt ELSE UNCHANGED base
  /\ ch_state' = "DISABLED"
  /\ r' = "gone" /\ UNCHANGED r_was
  /\ UNCHANGED <<pmv, ccs, done, mutex, tre, buf, slot, sent, back, pending_pkts, cmdv, ev,
                 task, qv, ov, dev, sess>>

RemoveSteps == \/ RemoveLock \/ RemoveStale \/ RemoveDrain
               \/ RemoveCalled \/ RemoveClient \/ RemoveDeinit

\* mhi_driver_probe() of a device that was unbound
Rebind ==
  /\ r = "gone" /\ ~InError /\ opens < MaxOpens
  /\ r' = "none" /\ UNCHANGED r_was
  /\ UNCHANGED <<pmv, chan, mutex, rings, pending_pkts, cmdv, ev, task, qv, ov, dev, sess>>

-----------------------------------------------------------------------------
(* The power management layer, as far as a channel sees it.                *)

PmError ==
  /\ ~InError /\ PmLock
  /\ pm' = "ERR" /\ UNCHANGED m0_rings
  /\ UNCHANGED <<chan, mutex, rings, pending_pkts, cmdv, ev, task, qv, ov, rv, dev, sess>>

\* mhi_pm_suspend() on an idle controller
PmSuspend ==
  /\ pm = "M0" /\ ~m0_rings /\ PmLock /\ pending_pkts = 0
  /\ pm' = "M3" /\ UNCHANGED m0_rings
  /\ UNCHANGED <<chan, mutex, rings, pending_pkts, cmdv, ev, task, qv, ov, rv, dev, sess>>

PmResume ==
  /\ pm = "M3" /\ PmLock
  /\ pm' = "M0" /\ m0_rings' = TRUE
  /\ UNCHANGED <<chan, mutex, rings, pending_pkts, cmdv, ev, task, qv, ov, rv, dev, sess>>

\* the second half of mhi_pm_m0_transition(): "CMD ring only if we're in mission mode"
PmM0Rings ==
  /\ m0_rings
  /\ m0_rings' = FALSE /\ UNCHANGED pm
  /\ c_db' = IF Mission THEN Len(cmds) ELSE c_db
  /\ UNCHANGED <<chan, mutex, rings, pending_pkts, cmds, d_cmd, ev, task, qv, ov, rv, dev, sess>>

\* the end of mhi_pm_disable_transition(), and the device is up again
PmRecover ==
  /\ r = "gone" /\ InError /\ ~m0_rings /\ opens < MaxOpens
  /\ \A g \in Rings : x[g] = "idle"          \* tasklet_kill()
  /\ pm' = "M0" /\ r' = "none"
  /\ cmds' = <<>> /\ c_db' = 0 /\ d_cmd' = 0
  /\ ev' = [g \in Rings |-> <<>>]
  /\ d_on' = FALSE /\ d_rp' = 0 /\ d_wp' = 0
  /\ UNCHANGED <<m0_rings, chan, mutex, rings, pending_pkts, task, qv, ov, r_was, d_sess, sess>>

Pm == PmError \/ PmSuspend \/ PmResume \/ PmM0Rings \/ PmRecover

-----------------------------------------------------------------------------
(* The device (external).                                                  *)

Put(g, e) == Len(ev[g]) < EvN /\ ev' = [ev EXCEPT ![g] = Append(@, e)]

\* execute the next command, or refuse it
DevCmd(ok) ==
  /\ DbValid /\ d_cmd < c_db
  /\ ok \/ CmdFaults \/ cmds[d_cmd + 1] = "START"
  /\ d_cmd' = d_cmd + 1
  /\ Put("ctrl", [type |-> "CMD", stale |-> FALSE, idx |-> 0, sess |-> sess, ok |-> ok])
  /\ \/ /\ ok /\ cmds[d_cmd + 1] = "START"
        /\ d_on' = TRUE /\ d_rp' = 0 /\ d_wp' = 0 /\ d_sess' = sess
     \/ /\ ok /\ cmds[d_cmd + 1] = "RESET"
        /\ d_on' = FALSE /\ UNCHANGED <<d_rp, d_wp, d_sess>>
     \/ ~ok /\ UNCHANGED dev
  /\ UNCHANGED <<pmv, chan, mutex, rings, pending_pkts, cmds, c_db, task, qv, ov, rv, sess>>

\* a doorbell, or a look at the context
DevLearn ==
  /\ DbValid /\ d_on
  /\ d_wp' = tre.wp
  /\ UNCHANGED <<pmv, chan, mutex, rings, pending_pkts, cmdv, ev, task, qv, ov, rv, d_on, d_rp,
                 d_sess, sess>>

\* finish the next element, or two at once (one event for a chain)
DevXfer(i) ==
  /\ DbValid /\ d_on /\ d_rp # d_wp
  /\ i = d_rp \/ (i = NextEl(d_rp) /\ i # d_wp)
  /\ Put(DataRing, [type |-> "TX", stale |-> FALSE, idx |-> i, sess |-> d_sess, ok |-> TRUE])
  /\ d_rp' = NextEl(i)
  /\ UNCHANGED <<pmv, chan, mutex, rings, pending_pkts, cmdv, task, qv, ov, rv, d_on, d_wp,
                 d_sess, sess>>

\* ask for a doorbell
DevDb ==
  /\ DbValid /\ d_on
  /\ Put(DataRing, [type |-> "DB", stale |-> FALSE, idx |-> 0, sess |-> d_sess, ok |-> TRUE])
  /\ UNCHANGED <<pmv, chan, mutex, rings, pending_pkts, cmdv, task, qv, ov, rv, dev, sess>>

Device == \/ \E ok \in BOOLEAN : DevCmd(ok)
          \/ \E i \in El : DevXfer(i)
          \/ DevLearn \/ DevDb

-----------------------------------------------------------------------------
Next ==
  \/ Queue \/ Open \/ Close \/ OpenSteps \/ RemoveStart \/ RemoveSteps \/ Rebind
  \/ Pm \/ Device \/ \E g \in Rings : Tasklet(g)

Spec == Init /\ [][Next]_vars

\* Scheduling: tasklets run, and a thread inside a call goes on; each of its waits
\* ends, by the answer, by complete_all() or by the timeout.
Fairness ==
  /\ WF_vars(QueueSteps) /\ WF_vars(OpenSteps) /\ WF_vars(RemoveSteps)
  /\ \A g \in Rings : WF_vars(Tasklet(g))

FairSpec == Spec /\ Fairness

-----------------------------------------------------------------------------
(* What is checked.                                                        *)

\* Type correctness.
TypeOK ==
  /\ pm \in {"M0", "M3", "ERR"} /\ m0_rings \in BOOLEAN
  /\ ch_state \in {"DISABLED", "ENABLED", "SUSPENDED"}
  /\ ccs \in {"INVALID", "SUCCESS", "UNDEFINED_ERR"} /\ done \in BOOLEAN
  /\ mutex \in {"free", "op", "remove"}
  /\ tre \in [rp : El, wp : El] /\ buf \in [rp : El, wp : El]
  /\ slot \in [El -> Nat] /\ base \in BOOLEAN
  /\ pending_pkts \in Int
  /\ cmds \in Seq({"START", "RESET"}) /\ c_db \in Int /\ d_cmd \in Int
  /\ ev \in [Rings -> Seq(Event)]
  /\ x \in [Rings -> TaskPc] /\ x_to \in El
  /\ q \in QueuePc /\ q_kind \in {"skb", "buf"}
  /\ o \in OpenPc /\ nr_el \in Int /\ opens \in Nat
  /\ r \in RemovePc /\ r_was \in {"DISABLED", "ENABLED", "SUSPENDED"}
  /\ d_on \in BOOLEAN /\ d_rp \in El /\ d_wp \in El
  /\ sent \in Nat /\ back \in Nat /\ sess \in Nat /\ d_sess \in Nat

\* the buffers in the ring, oldest first
InRing == IF base THEN [k \in 1..Used(tre) |-> slot[Nth(tre, k)]] ELSE <<>>
Fifo == INSTANCE MhiFifo WITH Cap <- N - 1, fifo <- InRing, last <- sent, back <- back
\* The channel is a bounded queue: every buffer that entered the ring leaves it
\* exactly once and in order, by a transfer event or by the reset of the channel,
\* through recoveries, removals, suspends and reopenings.
FifoRefined == Fifo!FifoSpec

InLoop(g) == x[g] \in {"loop", "cb", "recycle"}

\* While a tasklet completes transfers of the channel, the buffer ring it walks is
\* allocated and nobody else takes elements out of it: ch_state is changed under
\* chan->lock before mhi_reset_chan() and mhi_deinit_chan_ctxt().
ConsumerAlone ==
  \A g \in Rings : InLoop(g) =>
    /\ base /\ o \notin {"u_drain", "u_deinit"} /\ r \notin {"drain", "deinit"}
    /\ \A h \in Rings \ {g} : ~InLoop(h)

\* The buffer ring of a channel nobody uses is freed: once, by whichever of a
\* failed open, a close and a removal found the channel enabled.
RingFreed == o = "closed" /\ r \in {"none", "gone"} => ~base

\* pending_pkts is the number of packets in the ring, but for the one that is being
\* queued, not yet counted, and the one that was taken, still counted.
PendingBalance ==
  UL => pending_pkts = Used(tre) - (IF q = "ring" THEN 1 ELSE 0)
                        + (IF \E g \in Rings : x[g] = "cb" THEN 1 ELSE 0)

\* WARN_ON(atomic_read(&mhi_cntrl->pending_pkts)) of mhi_pm_disable_transition().
TeardownPktFree == r = "gone" /\ InError => pending_pkts = 0

\* A channel the host takes for started was started by the device, with this
\* context: "successfully moved to start state".
EnabledMeansStarted ==
  ch_state = "ENABLED" /\ ~InError => d_on /\ d_sess = sess

\* A transfer event is handled in the session of the channel it belongs to: a reset
\* "mark[s] all stale events related to channel as STALE event".
NoStaleEvent == \A g \in Rings : InLoop(g) => Head(ev[g]).sess = sess

\* The removal of a failed controller's device ends, wherever the error found the
\* client: nobody keeps chan->mutex, every thread that waits for the device is woken.
RemoveCompletes == InError /\ r \notin {"none", "gone"} ~> r = "gone"
=============================================================================
