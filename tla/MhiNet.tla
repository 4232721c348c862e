------------------------------- MODULE MhiNet -------------------------------
(***************************************************************************)
(* The network device of a channel pair (drivers/net/mhi/mhi_net.c): open    *)
(* and stop under RTNL, the transmitter, the NAPI poll, the refill work, the *)
(* device that completes buffers, and the removal by mhi_driver_remove().    *)
(*                                                                         *)
(* Receive buffers are put into the ring by rx_alloc_submit(), which open(), *)
(* the poll and the work may all be executing.  The downlink event ring is   *)
(* client managed: its events are processed by mhi_poll() only, after the    *)
(* interrupt told the driver with MHI_CB_PENDING_DATA.  The channel pair is  *)
(* what MhiChan shows it to be; as for MhiUci, queueing looks at the PM      *)
(* state and never at the channel's.  EVENT_CHAN_HALT is left out: the core  *)
(* sends clients neither MHI_CB_SYS_ERROR nor MHI_CB_FATAL_ERROR.            *)
(***************************************************************************)
EXTENDS MhiNetProto, FiniteSets

CONSTANTS
  DlN, UlN,       \* buffers the downlink and the uplink ring take
  Budget,         \* NAPI weight
  Lens, Tags,     \* bound: lengths and VLAN tags of the packets
  MaxPkts,        \* bound: packets in a frame from the modem
  MaxLeaks        \* bound: skbs lost before the last open, and short frames

ASSUME NetConstants ==
  /\ DlN \in Nat \ {0} /\ UlN \in Nat \ {0} /\ Budget \in Nat \ {0}
  /\ MaxPkts \in Nat /\ MaxLeaks \in Nat
  /\ Lens \subseteq 0..(RX_MAX - MBIM_HDR) /\ Tags \subseteq {NoTag} \cup 0..4095

VARIABLES
  mdev,               \* the mhi device
  err,                \* the PM state is an error state
  DEV_OPEN, CHAN_ENABLE,  \* dev->flags
  rt,                 \* who holds RTNL, and where in open or stop
  ch, dl, ev, ul,     \* channel state; buffers the device has, completed ones, uplink
  irq,                \* an event ring interrupt is due
  napi, missed,       \* NAPI: state, NAPI_STATE_MISSED
  full,               \* mhi_poll() used up the budget
  pend,               \* length of dev->rx_pending
  refill,             \* the delayed work is pending
  at, no_tre, i,      \* rx_alloc_submit() by its caller: where it is, its locals
  xmit, stopped,      \* mhi_net_xmit(); the transmit queue is stopped
  live,               \* receive buffers allocated and packets taken, not freed
  leaked,             \* those of them that nothing refers to any more
  closing,            \* history: those lost since the last mhi_net_stop() began
  early,              \* history: PENDING_DATA came before napi_enable()
  gaveup              \* history: a frame was dropped after the queue was stopped for it

dev  == <<mdev, err>>
flag == <<DEV_OPEN, CHAN_ENABLE>>
ring == <<ch, dl, ev, ul>>
poll == <<napi, missed, full, pend>>
sub  == <<at, no_tre, i>>
tx   == <<xmit, stopped, gaveup>>
mem  == <<live, leaked, closing>>
vars == <<dev, flag, rt, ring, irq, poll, refill, sub, tx, mem, early>>

Infos   == {"MBIM", "QMAPV1", "QMAPV5"}
Callers == {"rtnl", "napi", "work"}

Packets == {Packet(l, t, p) : l \in Lens, t \in Tags, p \in BOOLEAN}
Skbs    == {[len |-> p.len, tag |-> p.tag, ip |-> p.ip, room |-> r] : p \in Packets, r \in BOOLEAN}

Init ==
  /\ mdev = "none" /\ err = FALSE
  /\ DEV_OPEN = FALSE /\ CHAN_ENABLE = FALSE /\ rt = "down"
  /\ ch = "DISABLED" /\ dl = 0 /\ ev = 0 /\ ul = 0 /\ irq = FALSE
  /\ napi = "off" /\ missed = FALSE /\ full = FALSE /\ pend = 0 /\ refill = FALSE
  /\ at = [c \in Callers |-> "idle"] /\ no_tre = [c \in Callers |-> 0] /\ i = [c \in Callers |-> 0]
  /\ xmit = "idle" /\ stopped = TRUE /\ gaveup = FALSE
  /\ live = 0 /\ leaked = 0 /\ closing = 0 /\ early = FALSE

Enabled == DEV_OPEN /\ CHAN_ENABLE

-----------------------------------------------------------------------------
(* The channel pair, as MhiChan shows it to its client.                    *)

free_dl == DlN - dl - ev
free_ul == UlN - ul

\* the callbacks free the buffers of both rings and wake the queue; events become stale
mhi_reset_chan ==
  /\ dl' = 0 /\ ev' = 0 /\ ul' = 0 /\ live' = live - dl - ev - ul
  /\ stopped' = (stopped /\ ul = 0) /\ gaveup' = (gaveup /\ ul = 0)

\* the device fills a receive buffer and raises its interrupt
DeviceReceives ==
  /\ ch = "ENABLED" /\ dl > 0 /\ ~err
  /\ dl' = dl - 1 /\ ev' = ev + 1 /\ irq' = TRUE
  /\ UNCHANGED <<dev, flag, rt, ch, ul, poll, refill, sub, tx, mem, early>>

\* the PM core leaves the states in which transfers work; it removes the device later
PmError ==
  /\ mdev = "bound" /\ ~err /\ err' = TRUE
  /\ UNCHANGED <<mdev, flag, rt, ring, irq, poll, refill, sub, tx, mem, early>>

-----------------------------------------------------------------------------
(* rx_alloc_submit(), called by c                                          *)

\* it returns at once when the device is not open
SubmitBegins(c) ==
  IF Enabled
  THEN /\ at' = [at EXCEPT ![c] = "alloc"] /\ no_tre' = [no_tre EXCEPT ![c] = free_dl]
       /\ i' = [i EXCEPT ![c] = 0]
  ELSE at' = [at EXCEPT ![c] = "done"] /\ UNCHANGED <<no_tre, i>>

SubmitGoes(c, l) == at' = [at EXCEPT ![c] = l] /\ UNCHANGED no_tre

SubmitEnds(c) ==
  /\ at' = [at EXCEPT ![c] = "done"]
  /\ no_tre' = [no_tre EXCEPT ![c] = 0] /\ i' = [i EXCEPT ![c] = 0]

\* one round of the loop.  The skb of a round that finds the device closed is not freed
submit_alloc(c) ==
  /\ at[c] = "alloc"
  /\ \/ i[c] = no_tre[c] /\ SubmitEnds(c) /\ UNCHANGED mem
     \/ i[c] < no_tre[c] /\ SubmitGoes(c, "again") /\ UNCHANGED <<mem, i>>   \* no memory
     \/ /\ i[c] < no_tre[c] /\ ~Enabled
        /\ SubmitGoes(c, "again") /\ UNCHANGED i
        /\ live' = live + 1 /\ leaked' = leaked + 1 /\ closing' = closing + 1
     \/ /\ i[c] < no_tre[c] /\ Enabled
        /\ SubmitGoes(c, "queue") /\ UNCHANGED i
        /\ live' = live + 1 /\ UNCHANGED <<leaked, closing>>
  /\ UNCHANGED <<dev, flag, rt, ring, irq, poll, refill, tx, early>>

\* mutant: the skb that was refused is forgotten
SubmitFreesNothing == UNCHANGED live

SubmitFrees == live' = live - 1

submit_queue(c) ==
  /\ at[c] = "queue"
  /\ \/ /\ free_dl > 0 /\ ~err
        /\ dl' = dl + 1 /\ i' = [i EXCEPT ![c] = @ + 1]
        /\ SubmitGoes(c, "alloc") /\ UNCHANGED live
     \/ SubmitFrees /\ SubmitGoes(c, "again") /\ UNCHANGED <<dl, i>>
  /\ UNCHANGED <<dev, flag, rt, ch, ev, ul, irq, poll, refill, tx, leaked, closing, early>>

RefillLater(c) == Enabled /\ i[c] < free_dl

submit_again(c) ==
  /\ at[c] = "again" /\ SubmitEnds(c)
  /\ refill' = (refill \/ RefillLater(c))
  /\ UNCHANGED <<dev, flag, rt, ring, irq, poll, tx, mem, early>>

rx_alloc_submit(c) == submit_alloc(c) \/ submit_queue(c) \/ submit_again(c)

Returned(c) == at[c] = "done" /\ at' = [at EXCEPT ![c] = "idle"] /\ UNCHANGED <<no_tre, i>>

\* the delayed work
mhi_net_rx_refill_work ==
  /\ \/ at["work"] = "idle" /\ refill /\ refill' = FALSE /\ SubmitBegins("work")
     \/ Returned("work") /\ UNCHANGED refill
  /\ UNCHANGED <<dev, flag, rt, ring, irq, poll, tx, mem, early>>

-----------------------------------------------------------------------------
(* open and stop, under RTNL                                               *)

mhi_net_open ==
  /\ mdev \in {"bound", "reset"} /\ rt = "down" /\ leaked < MaxLeaks
  /\ \/ /\ ch = "DISABLED" /\ ~err                       \* mhi_prepare_for_transfer()
        /\ ch' = "ENABLED" /\ CHAN_ENABLE' = TRUE /\ rt' = "o_fill"
     \/ UNCHANGED <<ch, CHAN_ENABLE, rt>>                \* it failed
  /\ UNCHANGED <<dev, DEV_OPEN, dl, ev, ul, irq, poll, refill, sub, tx, mem, early>>

open_fill ==
  /\ rt = "o_fill" /\ at["rtnl"] = "idle"
  /\ DEV_OPEN' = TRUE /\ rt' = "o_wait"
  /\ at' = [at EXCEPT !["rtnl"] = "alloc"]
  /\ no_tre' = [no_tre EXCEPT !["rtnl"] = free_dl] /\ UNCHANGED i
  /\ UNCHANGED <<dev, CHAN_ENABLE, ring, irq, poll, refill, tx, mem, early>>

open_napi ==
  /\ rt = "o_wait" /\ Returned("rtnl")
  /\ rt' = "up" /\ stopped' = FALSE /\ gaveup' = FALSE /\ napi' = "idle"
  /\ UNCHANGED <<dev, flag, ring, irq, missed, full, pend, refill, xmit, mem, early>>

\* dev_deactivate() has waited for the transmitter.  The removal unregisters the netdev,
\* which closes it
mhi_net_stop ==
  /\ rt = "up" /\ xmit = "idle"
  /\ DEV_OPEN' = FALSE /\ rt' = "s_napi" /\ closing' = 0
  /\ UNCHANGED <<dev, CHAN_ENABLE, ring, irq, poll, refill, sub, tx, live, leaked, early>>

\* napi_disable() waits for the poll
stop_napi ==
  /\ rt = "s_napi" /\ napi = "idle"
  /\ napi' = "off" /\ missed' = FALSE /\ stopped' = TRUE /\ rt' = "s_work" /\ early' = FALSE
  /\ UNCHANGED <<dev, flag, ring, irq, full, pend, refill, sub, xmit, gaveup, mem>>

\* mutant: cancel_delayed_work()
WorkCancelled == TRUE

WorkStopped == at["work"] = "idle"

\* cancel_delayed_work_sync()
stop_work ==
  /\ rt = "s_work" /\ WorkStopped
  /\ refill' = FALSE /\ rt' = "s_unprep"
  /\ UNCHANGED <<dev, flag, ring, irq, poll, sub, tx, mem, early>>

stop_unprepare ==
  /\ rt = "s_unprep" /\ CHAN_ENABLE' = FALSE
  /\ IF ch = "ENABLED" THEN ch' = "DISABLED" /\ mhi_reset_chan
                       ELSE UNCHANGED <<ring, live, stopped, gaveup>>
  /\ rt' = "s_purge"
  /\ UNCHANGED <<dev, DEV_OPEN, irq, poll, refill, sub, xmit, leaked, closing, early>>

stop_purge ==
  /\ rt = "s_purge" /\ rt' = "down" /\ pend' = 0 /\ live' = live - pend
  /\ UNCHANGED <<dev, flag, ring, irq, napi, missed, full, refill, sub, tx, leaked, closing, early>>

-----------------------------------------------------------------------------
(* receive: the interrupt and the NAPI poll                                *)

\* napi_schedule_prep() fails when NAPI is off or being switched off, and leaves a
\* note when the poll runs
mhi_net_status_cb ==
  /\ irq /\ irq' = FALSE
  /\ early' = (early \/ (napi = "off" /\ rt = "o_wait"))
  /\ IF rt = "s_napi" \/ napi = "off" THEN UNCHANGED <<napi, missed>>
     ELSE IF napi = "idle" THEN napi' = "sched" /\ UNCHANGED missed
     ELSE missed' = TRUE /\ UNCHANGED napi
  /\ UNCHANGED <<dev, flag, rt, ring, full, pend, refill, sub, tx, mem>>

napi_complete == napi' = (IF missed THEN "sched" ELSE "idle") /\ missed' = FALSE

\* mutant: a poll of a closed device returns without napi_complete()
PollQuitsScheduled == UNCHANGED <<napi, missed>>

PollQuits == napi_complete

PollTakes == IF ev < Budget THEN ev ELSE Budget

\* the dl callbacks, with and without a transfer error
mhi_net_poll ==
  /\ napi = "sched"
  /\ IF ~Enabled \/ err
     THEN PollQuits /\ UNCHANGED <<full, pend, ev, live, early>>
     ELSE /\ napi' = "fix" /\ ev' = ev - PollTakes /\ full' = (PollTakes = Budget)
          /\ \E bad \in 0..PollTakes : pend' = pend + PollTakes - bad /\ live' = live - bad
          /\ early' = FALSE /\ UNCHANGED missed
  /\ UNCHANGED <<dev, flag, rt, ch, dl, ul, irq, refill, sub, tx, leaked, closing>>

\* rx_fixup() of one frame: it is freed, or lost (rx_keeps)
poll_fixup ==
  /\ napi = "fix" /\ pend > 0
  /\ pend' = pend - 1
  /\ \/ live' = live - 1 /\ UNCHANGED leaked
     \/ leaked < MaxLeaks /\ leaked' = leaked + 1 /\ UNCHANGED live
  /\ UNCHANGED <<dev, flag, rt, ring, irq, napi, missed, full, refill, sub, tx, closing, early>>

poll_refill ==
  /\ napi = "fix" /\ pend = 0 /\ napi' = "refill"
  /\ IF refill THEN at' = [at EXCEPT !["napi"] = "done"] /\ UNCHANGED <<no_tre, i>>
               ELSE SubmitBegins("napi")
  /\ UNCHANGED <<dev, flag, rt, ring, irq, missed, full, pend, refill, tx, mem, early>>

\* mutant: NAPI is completed though the budget was used up
PollCompletesAlways == TRUE

\* a poll that NAPI is waiting for to switch it off is not continued
PollCompletes == ~full \/ rt = "s_napi"

poll_return ==
  /\ napi = "refill" /\ Returned("napi") /\ full' = FALSE
  /\ IF PollCompletes THEN napi_complete ELSE napi' = "sched" /\ UNCHANGED missed
  /\ UNCHANGED <<dev, flag, rt, ring, irq, pend, refill, tx, mem, early>>

-----------------------------------------------------------------------------
(* transmit                                                                *)

\* the free elements are counted ...
mhi_net_xmit ==
  /\ rt = "up" /\ ~stopped /\ xmit = "idle"
  /\ xmit' = IF free_ul = 0 THEN "busy" ELSE IF free_ul = 1 THEN "last" ELSE "send"
  /\ UNCHANGED <<dev, flag, rt, ring, irq, poll, refill, sub, stopped, gaveup, mem, early>>

\* ... the queue is stopped when there is one or none
xmit_stop ==
  /\ xmit \in {"busy", "last"}
  /\ stopped' = TRUE /\ xmit' = IF xmit = "busy" THEN "idle" ELSE "send"
  /\ UNCHANGED <<dev, flag, rt, ring, irq, poll, refill, sub, gaveup, mem, early>>

\* tx_fixup() refuses the packet (tx_refuses), or mhi_queue_skb() does
xmit_send ==
  /\ xmit = "send" /\ xmit' = "idle"
  /\ \/ gaveup' = (gaveup \/ stopped) /\ UNCHANGED <<stopped, ul, live>>
     \/ stopped' = TRUE /\ gaveup' = TRUE /\ UNCHANGED <<ul, live>>
     \/ /\ free_ul > 0 /\ ~err
        /\ ul' = ul + 1 /\ live' = live + 1 /\ UNCHANGED <<stopped, gaveup>>
  /\ UNCHANGED <<dev, flag, rt, ch, dl, ev, irq, poll, refill, sub, leaked, closing, early>>

\* mutant: the queue is woken only by the completion that makes room in a full ring
UlWakesFull == stopped /\ ul = UlN

UlWakes == stopped

mhi_net_ul_callback ==
  /\ ch = "ENABLED" /\ ul > 0 /\ ~err
  /\ ul' = ul - 1 /\ live' = live - 1
  /\ stopped' = (stopped /\ ~UlWakes) /\ gaveup' = (gaveup /\ ~UlWakes)
  /\ UNCHANGED <<dev, flag, rt, ch, dl, ev, irq, poll, refill, sub, xmit, leaked, closing, early>>

-----------------------------------------------------------------------------
(* probe and removal                                                       *)

mhi_net_probe ==
  /\ mdev = "none" /\ mdev' = "bound"
  /\ UNCHANGED <<err, flag, rt, ring, irq, poll, refill, sub, tx, mem, early>>

\* mhi_driver_remove() closes the channels to events and drains them
DriverRemove ==
  /\ mdev = "bound" /\ mdev' = "reset"
  /\ ch' = "SUSPENDED" /\ mhi_reset_chan
  /\ UNCHANGED <<err, flag, rt, irq, poll, refill, sub, xmit, leaked, closing, early>>

\* mhi_net_remove() is done; what was queued after the drain is in rings that are freed
mhi_net_remove ==
  /\ mdev = "reset" /\ rt = "down"
  /\ mdev' = "gone" /\ ch' = "DISABLED" /\ irq' = FALSE
  /\ dl' = 0 /\ ev' = 0 /\ ul' = 0 /\ leaked' = leaked + dl + ev + ul
  /\ UNCHANGED <<err, flag, rt, poll, refill, sub, tx, live, closing, early>>

-----------------------------------------------------------------------------
Rtnl == open_fill \/ open_napi \/ stop_napi \/ stop_work \/ stop_unprepare \/ stop_purge
Napi == mhi_net_poll \/ poll_fixup \/ poll_refill \/ poll_return
Xmit == xmit_stop \/ xmit_send
Removal == mdev = "reset" /\ (mhi_net_stop \/ mhi_net_remove)

Next ==
  \/ mhi_net_probe \/ DriverRemove \/ mhi_net_remove \/ PmError
  \/ mhi_net_open \/ mhi_net_stop \/ Rtnl
  \/ mhi_net_status_cb \/ Napi \/ mhi_net_rx_refill_work
  \/ \E c \in Callers : rx_alloc_submit(c)
  \/ mhi_net_xmit \/ Xmit \/ mhi_net_ul_callback \/ DeviceReceives

Spec == Init /\ [][Next]_vars

\* Interrupts, softirqs, work items and a thread that holds RTNL go on; the removal gets
\* RTNL in turn.  Nothing is asked of the device or of user space.
FairSpec ==
  /\ Spec
  /\ WF_vars(Rtnl) /\ WF_vars(Napi) /\ WF_vars(mhi_net_status_cb)
  /\ WF_vars(mhi_net_rx_refill_work) /\ WF_vars(Xmit)
  /\ \A c \in Callers : WF_vars(rx_alloc_submit(c))
  /\ SF_vars(Removal)

-----------------------------------------------------------------------------
(* Properties                                                              *)

\* Every variable has its type: no counter goes below zero or beyond its ring.
TypeOK ==
  /\ mdev \in {"none", "bound", "reset", "gone"}
  /\ rt \in {"down", "o_fill", "o_wait", "up", "s_napi", "s_work", "s_unprep", "s_purge"}
  /\ {err, DEV_OPEN, CHAN_ENABLE, irq, missed, full, refill, stopped, early, gaveup} \subseteq BOOLEAN
  /\ ch \in {"DISABLED", "ENABLED", "SUSPENDED"}
  /\ dl \in 0..DlN /\ ev \in 0..DlN /\ dl + ev <= DlN /\ ul \in 0..UlN
  /\ napi \in {"off", "idle", "sched", "fix", "refill"} /\ pend \in 0..DlN
  /\ at \in [Callers -> {"idle", "alloc", "queue", "again", "done"}]
  /\ no_tre \in [Callers -> 0..DlN] /\ i \in [Callers -> 0..DlN]
  /\ xmit \in {"idle", "busy", "last", "send"}
  /\ live \in Nat /\ leaked \in Nat /\ closing \in Nat

Serving == rt = "up" /\ mdev = "bound" /\ ~err

\* With the device up, NAPI idle and no interrupt due, receive has not stalled.  No event is
\* left in the ring, unless its interrupt came while mhi_net_open() was filling the ring,
\* before napi_enable().  And with nobody about to refill there is a buffer in the ring:
\* rx_alloc_submit() of the poll and of the work, each with a count of free elements the
\* other made stale, never both leave it to the other.
RxNeverStarves ==
  Serving /\ napi = "idle" /\ ~irq =>
    /\ ev > 0 => early
    /\ ~refill /\ (\A c \in Callers : at[c] = "idle") => dl + ev > 0

\* Every count is in its range, and every skb not freed is in a ring, on rx_pending or in the
\* hands of one rx_alloc_submit(), whatever open, stop, the poll, the work and the removal do
\* in which order, or it is one of those that the code loses: an MBIM frame that is too short,
\* what was queued between the drain of a removal and the end of the rings, and an skb that
\* rx_alloc_submit() had when it saw the device closed.  Of these a mhi_net_stop() costs at
\* most one for the poll and one for the work: no call that begins after it allocates any.
SkbAccounted ==
  /\ TypeOK
  /\ live = dl + ev + ul + pend + Cardinality({c \in Callers : at[c] = "queue"}) + leaked
  /\ closing <= 2

\* mhi_net_stop() leaves nothing behind that could still poll, refill, send or be freed.
\* Only a removal is different: what is queued between the drain of mhi_driver_remove() and
\* the unregistering of the netdev stays in rings that are freed with it.
StoppedQuiet ==
  rt = "down" =>
    /\ napi = "off" /\ ~refill /\ xmit = "idle" /\ pend = 0
    /\ \A c \in Callers : at[c] = "idle"
    /\ mdev # "reset" => dl = 0 /\ ev = 0 /\ ul = 0

\* A stopped transmit queue has a packet in the ring whose completion wakes it, or the
\* packet it was stopped for was dropped.
TxNotStuck == Serving /\ stopped /\ xmit = "idle" => ul > 0 \/ gaveup

\* the packet as the receiver of a frame sees it: VLAN tag 0 is the untagged session of MBIM
Received(info, skb) ==
  Packet(skb.len, IF info = "MBIM" /\ skb.tag = 0 THEN NoTag ELSE skb.tag, TRUE)

\* Whatever tx_fixup() puts into a frame comes out of rx_fixup() as the same packet of the
\* same session (MBIM, and QMAP v5; QMAP v1 announces a header it does not send).  It is
\* about no state, so it is evaluated before the probe.
TxRoundTrip ==
  mdev = "none" =>
    \A info \in {"MBIM", "QMAPV5"}, skb \in Skbs :
      tx_refuses(info, skb) \/ rx_fixup(info, tx_fixup(info, skb)) = <<Received(info, skb)>>

\* data of a session of the protocol
Sane(info) ==
  {p \in Packets : p.len > 0 /\ IF info = "MBIM" THEN p.tag # 0 /\ p.tag < 512
                                                ELSE p.tag < QMAP_DEFAULT_MUX_ID}

\* MBIM stops at what is not IP, QMAP skips commands
Deliverable(info, pkts) ==
  LET kept[k \in 0..Len(pkts)] ==
        IF k = 0 THEN <<>>
        ELSE IF pkts[k].ip /\ (info = "MBIM" => Len(kept[k - 1]) = k - 1)
             THEN Append(kept[k - 1], pkts[k]) ELSE kept[k - 1]
  IN  kept[Len(pkts)]

\* the modem keeps to the block length the driver takes
Fits(info, pkts) == info = "MBIM" => MbimPeer(pkts).len <= RX_MAX

\* A frame with several packets of any sessions delivers them all, in order, with their
\* sessions and without the padding.
RxDelivered ==
  mdev = "none" =>
    \A info \in Infos : \A pkts \in SeqOf(Sane(info), MaxPkts) :
      Fits(info, pkts) => rx_fixup(info, PeerFrame(info, pkts)) = Deliverable(info, pkts)

\* The removal ends, whether the netdev is up, opening, closing or polled at that moment.
RemoveEnds == mdev = "reset" ~> mdev = "gone"
=============================================================================
