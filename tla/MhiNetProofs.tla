---------------------------- MODULE MhiNetProofs ----------------------------
(***************************************************************************)
(* The network device for rings and a NAPI weight of any size: the           *)
(* transmitter, the receive path with its refill work, open and stop, and    *)
(* the removal; and the frames of MBIM and QMAP, for any number of packets.   *)
(***************************************************************************)
EXTENDS MhiNet, FiniteSetTheorems, SequenceTheorems, NaturalsInduction, WellFoundedInduction, TLAPS

\* who runs while RTNL is where
ControlInv ==
  /\ DEV_OPEN <=> rt \in {"o_wait", "up"}
  /\ CHAN_ENABLE <=> rt \notin {"down", "s_purge"}
  /\ napi = "off" <=> rt \notin {"up", "s_napi"}
  /\ at["rtnl"] # "idle" <=> rt = "o_wait"
  /\ at["napi"] # "idle" <=> napi = "refill"
  /\ at["work"] # "idle" \/ refill => rt \in {"o_wait", "up", "s_napi", "s_work"}
  /\ xmit # "idle" => rt = "up"
  /\ pend > 0 => napi = "fix"
  /\ missed => napi \in {"sched", "fix", "refill"}

\* the channel follows RTNL and the removal, and is empty when nothing was queued yet or any more
RingInv ==
  /\ mdev \in {"none", "gone"} => rt = "down" /\ ch = "DISABLED"
  /\ mdev = "reset" <=> ch = "SUSPENDED"
  /\ mdev = "bound" => (ch = "ENABLED" <=> rt \notin {"down", "s_purge"})
  /\ mdev # "reset" /\ rt \in {"down", "o_fill", "s_purge"} => dl = 0 /\ ev = 0
  /\ mdev # "reset" /\ rt \in {"down", "o_fill", "o_wait", "s_purge"} => ul = 0

\* the locals of rx_alloc_submit()
SubmitInv ==
  \A c \in Callers :
    /\ at[c] \in {"idle", "done"} => i[c] = 0 /\ no_tre[c] = 0
    /\ at[c] = "alloc" => i[c] <= no_tre[c]
    /\ at[c] \in {"queue", "again"} => i[c] < no_tre[c]

\* transfers work, from the first buffer that open() puts into the ring
Transfers == mdev = "bound" /\ ~err /\ rt \in {"o_wait", "up"}

\* an event that nobody has been told of is about to be polled, or came too early
EventInv ==
  Transfers /\ ev > 0 =>
    irq \/ early \/ napi = "sched" \/ missed \/ (napi \in {"fix", "refill"} /\ full)

\* c will put a buffer into an empty ring or leave it to the work
WillFill(c) == at[c] \in {"queue", "again"} \/ (at[c] = "alloc" /\ i[c] < no_tre[c])

\* somebody fills an empty ring
FillInv ==
  Transfers /\ dl + ev = 0 => refill \/ napi = "fix" \/ \E c \in Callers : WillFill(c)

\* a queue that runs has room, a transmitter the room it has counted
RoomInv ==
  Serving =>
    /\ stopped /\ xmit = "idle" => ul > 0 \/ gaveup
    /\ ~stopped /\ xmit = "idle" => ul < UlN
    /\ xmit = "busy" => FALSE
    /\ xmit = "last" => ~stopped /\ ul < UlN
    /\ xmit = "send" => ul < UlN /\ (~stopped => ul + 1 < UlN)

\* who is in the loop of rx_alloc_submit() and may lose an skb there
InLoop(c) == IF at[c] \in {"alloc", "queue"} THEN 1 ELSE 0

\* with the device closed, each of the poll and the work has lost one skb or may still
CloseInv ==
  /\ closing \in 0..2
  /\ ~Enabled => closing + InLoop("napi") + InLoop("work") <= 2

NetInv == CloseInv /\ SkbAccounted /\ ControlInv /\ RingInv /\ SubmitInv /\ EventInv /\ FillInv /\ RoomInv

-----------------------------------------------------------------------------
(* Types                                                                   *)

USE DEF dev, flag, ring, poll, sub, tx, mem

FlagType ==
  /\ err \in BOOLEAN /\ DEV_OPEN \in BOOLEAN /\ CHAN_ENABLE \in BOOLEAN /\ irq \in BOOLEAN
  /\ missed \in BOOLEAN /\ full \in BOOLEAN /\ refill \in BOOLEAN /\ stopped \in BOOLEAN
  /\ early \in BOOLEAN /\ gaveup \in BOOLEAN

PlaceType ==
  /\ mdev \in {"none", "bound", "reset", "gone"}
  /\ rt \in {"down", "o_fill", "o_wait", "up", "s_napi", "s_work", "s_unprep", "s_purge"}
  /\ ch \in {"DISABLED", "ENABLED", "SUSPENDED"}
  /\ napi \in {"off", "idle", "sched", "fix", "refill"}
  /\ xmit \in {"idle", "busy", "last", "send"}
  /\ at \in [Callers -> {"idle", "alloc", "queue", "again", "done"}]

CountType ==
  /\ dl \in 0..DlN /\ ev \in 0..DlN /\ dl + ev <= DlN /\ ul \in 0..UlN /\ pend \in 0..DlN
  /\ no_tre \in [Callers -> 0..DlN] /\ i \in [Callers -> 0..DlN] /\ leaked \in Nat

NetType == FlagType /\ PlaceType /\ CountType

\* TypeOK is that and the number of buffers.
LEMMA TypeParts == TypeOK <=> NetType /\ live \in Nat /\ closing \in Nat
<1>1. {err, DEV_OPEN, CHAN_ENABLE, irq, missed, full, refill, stopped, early, gaveup} \subseteq BOOLEAN <=> FlagType
  BY Zenon DEF FlagType
<1> QED
  BY <1>1 DEF TypeOK, NetType, PlaceType, CountType

\* Every step keeps the types of the flags.
LEMMA FlagStep == FlagType /\ [Next]_vars => FlagType'
<1> SUFFICES ASSUME FlagType, [Next]_vars PROVE FlagType'
  OBVIOUS
<1> USE DEF FlagType
<1>1. CASE mhi_net_probe \/ PmError
  BY <1>1 DEF mhi_net_probe, PmError
<1>2. CASE DriverRemove \/ mhi_net_remove
  BY <1>2 DEF DriverRemove, mhi_net_remove, mhi_reset_chan
<1>3. CASE mhi_net_open
  BY <1>3 DEF mhi_net_open
<1>4. CASE mhi_net_stop
  BY <1>4 DEF mhi_net_stop
<1>5. CASE open_fill
  BY <1>5 DEF open_fill
<1>6. CASE open_napi
  BY <1>6 DEF open_napi, Returned
<1>7. CASE stop_napi
  BY <1>7 DEF stop_napi
<1>8. CASE stop_work
  BY <1>8 DEF stop_work
<1>9. CASE stop_unprepare
  BY <1>9 DEF stop_unprepare, mhi_reset_chan
<1>10. CASE stop_purge
  BY <1>10 DEF stop_purge
<1>11. CASE mhi_net_status_cb
  BY <1>11 DEF mhi_net_status_cb
<1>12. CASE mhi_net_poll
  BY <1>12 DEF mhi_net_poll, PollQuits, napi_complete
<1>13. CASE poll_fixup \/ poll_refill
  BY <1>13 DEF poll_fixup, poll_refill
<1>14. CASE poll_return
  BY <1>14 DEF poll_return, napi_complete
<1>15. CASE mhi_net_rx_refill_work
  BY <1>15 DEF mhi_net_rx_refill_work
<1>16. ASSUME NEW c \in Callers, submit_alloc(c) \/ submit_queue(c) PROVE FlagType'
  BY <1>16 DEF submit_alloc, submit_queue
<1>17. ASSUME NEW c \in Callers, submit_again(c) PROVE FlagType'
  BY <1>17 DEF submit_again
<1>18. CASE mhi_net_xmit \/ xmit_stop
  BY <1>18 DEF mhi_net_xmit, xmit_stop
<1>19. CASE xmit_send
  BY <1>19 DEF xmit_send
<1>20. CASE mhi_net_ul_callback
  BY <1>20 DEF mhi_net_ul_callback
<1>21. CASE DeviceReceives
  BY <1>21 DEF DeviceReceives
<1>22. CASE UNCHANGED vars
  BY <1>22 DEF vars
<1> QED
  BY <1>1, <1>2, <1>3, <1>4, <1>5, <1>6, <1>7, <1>8, <1>9, <1>10, <1>11, <1>12, <1>13, <1>14, <1>15, <1>16,
     <1>17, <1>18, <1>19, <1>20, <1>21, <1>22
  DEF Next, Rtnl, Napi, Xmit, rx_alloc_submit

\* Every step keeps the types of the places.
LEMMA PlaceStep == PlaceType /\ [Next]_vars => PlaceType'
<1> SUFFICES ASSUME PlaceType, [Next]_vars PROVE PlaceType'
  OBVIOUS
<1> USE DEF PlaceType
<1>0. "rtnl" \in Callers /\ "napi" \in Callers /\ "work" \in Callers
  BY DEF Callers
<1>1. CASE mhi_net_probe \/ PmError \/ DriverRemove \/ mhi_net_remove
  BY <1>1 DEF mhi_net_probe, PmError, DriverRemove, mhi_net_remove
<1>2. CASE mhi_net_open \/ mhi_net_stop
  BY <1>2 DEF mhi_net_open, mhi_net_stop
<1>3. CASE open_fill \/ open_napi
  BY <1>0, <1>3 DEF open_fill, open_napi, Returned
<1>4. CASE stop_napi \/ stop_work \/ stop_unprepare \/ stop_purge
  BY <1>4 DEF stop_napi, stop_work, stop_unprepare, stop_purge
<1>5. CASE mhi_net_status_cb
  BY <1>5 DEF mhi_net_status_cb
<1>6. CASE mhi_net_poll \/ poll_fixup
  BY <1>6 DEF mhi_net_poll, PollQuits, napi_complete, poll_fixup
<1>7. CASE poll_refill
  BY <1>0, <1>7 DEF poll_refill, SubmitBegins
<1>8. CASE poll_return
  BY <1>0, <1>8 DEF poll_return, napi_complete, Returned
<1>9. CASE mhi_net_rx_refill_work
  BY <1>0, <1>9 DEF mhi_net_rx_refill_work, SubmitBegins, Returned
<1>10. ASSUME NEW c \in Callers, rx_alloc_submit(c) PROVE PlaceType'
  BY <1>10 DEF rx_alloc_submit, submit_alloc, submit_queue, submit_again, SubmitEnds, SubmitGoes
<1>11. CASE mhi_net_xmit \/ Xmit
  BY <1>11 DEF mhi_net_xmit, Xmit, xmit_stop, xmit_send
<1>12. CASE mhi_net_ul_callback \/ DeviceReceives \/ UNCHANGED vars
  BY <1>12 DEF mhi_net_ul_callback, DeviceReceives, vars
<1> QED
  BY <1>1, <1>2, <1>3, <1>4, <1>5, <1>6, <1>7, <1>8, <1>9, <1>10, <1>11, <1>12 DEF Next, Rtnl, Napi

\* What mhi_poll() takes.
LEMMA Takes == ASSUME ev \in Nat PROVE PollTakes \in 0..ev /\ (PollTakes < ev => PollTakes = Budget)
BY NetConstants DEF PollTakes

\* Every step keeps the counts in their ranges.
LEMMA CountStep == NetType /\ ControlInv /\ SubmitInv /\ [Next]_vars => CountType'
<1> SUFFICES ASSUME NetType, ControlInv, SubmitInv, [Next]_vars PROVE CountType'
  OBVIOUS
<1>0. "rtnl" \in Callers /\ "napi" \in Callers /\ "work" \in Callers
  BY DEF Callers
<1>r. dl \in 0..DlN /\ ev \in 0..DlN /\ dl + ev <= DlN /\ ul \in 0..UlN /\ pend \in 0..DlN /\ DlN \in Nat /\ UlN \in Nat
  BY NetConstants DEF NetType, CountType
<1>l. no_tre \in [Callers -> 0..DlN] /\ i \in [Callers -> 0..DlN] /\ free_dl \in 0..DlN /\ 0 \in 0..DlN
  BY <1>r DEF NetType, CountType, free_dl
<1>k. leaked' \in Nat
  <2>1. leaked \in Nat /\ dl \in Nat /\ ev \in Nat /\ ul \in Nat
    BY <1>r DEF NetType, CountType
  <2>2. leaked' = leaked \/ leaked' = leaked + 1 \/ leaked' = leaked + dl + ev + ul
    BY DEF Next, Rtnl, Napi, Xmit, rx_alloc_submit, vars, mhi_net_probe, PmError, DriverRemove, mhi_net_remove,
       mhi_net_open, mhi_net_stop, open_fill, open_napi, stop_napi, stop_work, stop_unprepare, stop_purge,
       mhi_net_status_cb, mhi_net_poll, poll_fixup, poll_refill, poll_return, mhi_net_xmit, xmit_stop, xmit_send,
       mhi_net_ul_callback, DeviceReceives, mhi_net_rx_refill_work, submit_alloc, submit_queue, submit_again
  <2> QED
    BY <2>1, <2>2
<1>s. ASSUME dl' \in 0..DlN, ev' \in 0..DlN, dl' + ev' <= DlN, ul' \in 0..UlN, pend' \in 0..DlN,
             no_tre' \in [Callers -> 0..DlN], i' \in [Callers -> 0..DlN]
      PROVE  CountType'
  BY <1>k, <1>s DEF CountType
<1>1. CASE UNCHANGED <<no_tre, i>>
  <2>1. dl' \in 0..DlN /\ ev' \in 0..DlN /\ dl' + ev' <= DlN /\ ul' \in 0..UlN /\ pend' \in 0..DlN
    <3> USE <1>r
    <3>1. CASE mhi_net_probe \/ PmError \/ mhi_net_open \/ mhi_net_stop \/ open_fill \/ open_napi \/ stop_napi
               \/ stop_work \/ mhi_net_status_cb \/ poll_refill \/ poll_return
               \/ mhi_net_rx_refill_work \/ mhi_net_xmit \/ xmit_stop \/ UNCHANGED vars
      <4>1. UNCHANGED <<dl, ev, ul, pend>>
        BY <3>1 DEF mhi_net_probe, PmError, mhi_net_open, mhi_net_stop, open_fill, open_napi, stop_napi, stop_work,
           mhi_net_status_cb, poll_refill, poll_return, mhi_net_rx_refill_work, mhi_net_xmit,
           xmit_stop, vars
      <4> QED
        BY <4>1
    <3>2. CASE DriverRemove \/ mhi_net_remove \/ stop_unprepare \/ stop_purge
      BY <3>2 DEF DriverRemove, mhi_net_remove, stop_unprepare, stop_purge, mhi_reset_chan
    <3>3. CASE mhi_net_poll
      <4>1. pend = 0
        BY <3>3 DEF mhi_net_poll, ControlInv
      <4>2. UNCHANGED <<dl, ul>> /\ \/ UNCHANGED <<ev, pend>>
                                    \/ /\ ev' = ev - PollTakes
                                       /\ \E bad \in 0..PollTakes : pend' = pend + PollTakes - bad
        BY <3>3 DEF mhi_net_poll
      <4>3. PollTakes \in 0..ev
        BY Takes
      <4> HIDE DEF PollTakes
      <4> QED
        BY <4>1, <4>2, <4>3
    <3>4. CASE poll_fixup
      BY <3>4 DEF poll_fixup
    <3>5. ASSUME NEW c \in Callers, rx_alloc_submit(c)
          PROVE  dl' \in 0..DlN /\ ev' \in 0..DlN /\ dl' + ev' <= DlN /\ ul' \in 0..UlN /\ pend' \in 0..DlN
      BY <3>5 DEF rx_alloc_submit, submit_alloc, submit_queue, submit_again, free_dl
    <3>6. CASE xmit_send \/ mhi_net_ul_callback \/ DeviceReceives
      BY <3>6 DEF xmit_send, mhi_net_ul_callback, DeviceReceives, free_ul
    <3> QED
      BY <3>1, <3>2, <3>3, <3>4, <3>5, <3>6 DEF Next, Rtnl, Napi, Xmit
  <2> QED
    BY <1>1, <1>l, <1>s, <2>1
<1>2. CASE ~UNCHANGED <<no_tre, i>>
  <2>1. CASE open_fill \/ poll_refill \/ mhi_net_rx_refill_work
    <3>1. UNCHANGED <<dl, ev, ul, pend>>
      BY <2>1 DEF open_fill, poll_refill, mhi_net_rx_refill_work
    <3>2. no_tre' \in [Callers -> 0..DlN] /\ i' \in [Callers -> 0..DlN]
      BY <1>0, <1>l, <2>1 DEF open_fill, poll_refill, mhi_net_rx_refill_work, SubmitBegins, Returned
    <3> QED
      BY <1>r, <1>s, <3>1, <3>2
  <2>2. ASSUME NEW c \in Callers, submit_alloc(c) \/ submit_again(c) PROVE CountType'
    <3>1. UNCHANGED <<dl, ev, ul, pend>>
      BY <2>2 DEF submit_alloc, submit_again
    <3>2. no_tre' \in [Callers -> 0..DlN] /\ i' \in [Callers -> 0..DlN]
      BY <1>l, <2>2 DEF submit_alloc, submit_again, SubmitEnds, SubmitGoes
    <3> QED
      BY <1>r, <1>s, <3>1, <3>2
  <2>3. ASSUME NEW c \in Callers, submit_queue(c) PROVE CountType'
    <3>1. UNCHANGED <<ev, ul, pend, no_tre>> /\ (UNCHANGED dl \/ (dl' = dl + 1 /\ DlN - dl - ev > 0))
          /\ (UNCHANGED i \/ i' = [i EXCEPT ![c] = i[c] + 1])
      BY <1>l, <2>3 DEF submit_queue, free_dl, SubmitGoes
    <3>2. i[c] < no_tre[c] /\ i[c] \in 0..DlN /\ no_tre[c] \in 0..DlN
      BY <1>l, <2>3 DEF submit_queue, SubmitInv
    <3>3. i[c] + 1 \in 0..DlN
      BY <1>r, <3>2
    <3>4. dl' \in 0..DlN /\ dl' + ev' <= DlN
      BY <1>r, <3>1
    <3>5. i' \in [Callers -> 0..DlN]
      BY <1>l, <3>1, <3>3
    <3> QED
      BY <1>r, <1>l, <1>s, <3>1, <3>4, <3>5
  <2> QED
    BY <1>2, <2>1, <2>2, <2>3 DEF Next, Rtnl, Napi, Xmit, rx_alloc_submit, vars, mhi_net_probe, PmError,
       DriverRemove, mhi_net_remove, mhi_net_open, mhi_net_stop, open_napi, Returned, stop_napi, stop_work,
       stop_unprepare, stop_purge, mhi_net_status_cb, mhi_net_poll, poll_fixup, poll_return, mhi_net_xmit,
       xmit_stop, xmit_send, mhi_net_ul_callback, DeviceReceives
<1> QED
  BY <1>1, <1>2

-----------------------------------------------------------------------------
(* Control                                                                 *)

\* rx_alloc_submit() stays inside, and moves none of its other callers.
LEMMA SubmitStays ==
  ASSUME NetType, NEW c \in Callers, rx_alloc_submit(c)
  PROVE  /\ at[c] # "idle" /\ at'[c] # "idle"
         /\ \A d \in Callers \ {c} : at'[d] = at[d] /\ no_tre'[d] = no_tre[d] /\ i'[d] = i[d]
BY DEF NetType, PlaceType, CountType, rx_alloc_submit, submit_alloc, submit_queue, submit_again, SubmitEnds, SubmitGoes

\* Steps other than those of rx_alloc_submit() and its callers.
LEMMA SubmitAside ==
  ASSUME [Next]_vars, ~UNCHANGED sub
  PROVE  \/ open_fill \/ open_napi \/ poll_refill \/ poll_return \/ mhi_net_rx_refill_work
         \/ \E c \in Callers : rx_alloc_submit(c)
BY DEF Next, Rtnl, Napi, Xmit, vars, mhi_net_probe, PmError, DriverRemove, mhi_net_remove, mhi_net_open,
   mhi_net_stop, stop_napi, stop_work, stop_unprepare, stop_purge, mhi_net_status_cb, mhi_net_poll, poll_fixup,
   mhi_net_xmit, xmit_stop, xmit_send, mhi_net_ul_callback, DeviceReceives

\* Every step keeps the locals of rx_alloc_submit().
LEMMA SubmitStep == NetType /\ ControlInv /\ SubmitInv /\ [Next]_vars => SubmitInv'
<1> SUFFICES ASSUME NetType, ControlInv, SubmitInv, [Next]_vars PROVE SubmitInv'
  OBVIOUS
<1>0. "rtnl" \in Callers /\ "napi" \in Callers /\ "work" \in Callers
  BY DEF Callers
<1>t. /\ at \in [Callers -> {"idle", "alloc", "queue", "again", "done"}]
      /\ no_tre \in [Callers -> 0..DlN] /\ i \in [Callers -> 0..DlN] /\ free_dl \in 0..DlN /\ DlN \in Nat
  BY NetConstants DEF NetType, PlaceType, CountType, free_dl
<1>n. \A c \in Callers : no_tre[c] \in Int /\ i[c] \in Int
  BY <1>t
<1>1. CASE UNCHANGED sub
  BY <1>1 DEF SubmitInv
<1>2. CASE open_fill
  BY <1>0, <1>t, <1>n, <1>2 DEF open_fill, SubmitInv
<1>3. CASE open_napi \/ poll_return
  BY <1>0, <1>t, <1>n, <1>3 DEF open_napi, poll_return, Returned, SubmitInv
<1>4. CASE poll_refill \/ mhi_net_rx_refill_work
  <2>1. ASSUME NEW c \in Callers, SubmitBegins(c), at[c] \in {"idle", "done"} PROVE SubmitInv'
    BY <1>t, <1>n, <2>1 DEF SubmitBegins, SubmitInv
  <2>2. ASSUME NEW c \in Callers, NEW l \in {"idle", "done"}, at[c] \in {"idle", "done"},
               at' = [at EXCEPT ![c] = l], UNCHANGED <<no_tre, i>>
        PROVE  SubmitInv'
    BY <1>t, <1>n, <2>2 DEF SubmitInv
  <2>3. CASE mhi_net_rx_refill_work
    BY <1>0, <2>1, <2>2, <2>3 DEF mhi_net_rx_refill_work, Returned
  <2>4. CASE poll_refill
    BY <1>0, <2>1, <2>2, <2>4 DEF poll_refill, ControlInv
  <2> QED
    BY <1>4, <2>3, <2>4
<1>5. ASSUME NEW c \in Callers, rx_alloc_submit(c) PROVE SubmitInv'
  <2>1. \A d \in Callers \ {c} : at'[d] = at[d] /\ no_tre'[d] = no_tre[d] /\ i'[d] = i[d]
    BY <1>5, SubmitStays
  <2>2. /\ at'[c] \in {"idle", "done"} => i'[c] = 0 /\ no_tre'[c] = 0
        /\ at'[c] = "alloc" => i'[c] <= no_tre'[c]
        /\ at'[c] \in {"queue", "again"} => i'[c] < no_tre'[c]
    BY <1>t, <1>n, <1>5 DEF rx_alloc_submit, submit_alloc, submit_queue, submit_again, SubmitEnds, SubmitGoes, SubmitInv
  <2> QED
    BY <2>1, <2>2 DEF SubmitInv
<1> QED
  BY <1>1, <1>2, <1>3, <1>4, <1>5, SubmitAside

\* Every step leaves each thread where RTNL allows it to be.
LEMMA ControlStep == NetType /\ ControlInv /\ SubmitInv /\ [Next]_vars => ControlInv'
<1> SUFFICES ASSUME NetType, ControlInv, SubmitInv, [Next]_vars PROVE ControlInv'
  OBVIOUS
<1>0. "rtnl" \in Callers /\ "napi" \in Callers /\ "work" \in Callers
  BY DEF Callers
<1>t. at \in [Callers -> {"idle", "alloc", "queue", "again", "done"}]
      /\ pend \in Int /\ ev \in Nat
      /\ rt \in {"down", "o_fill", "o_wait", "up", "s_napi", "s_work", "s_unprep", "s_purge"}
      /\ napi \in {"off", "idle", "sched", "fix", "refill"}
  BY NetConstants DEF NetType, PlaceType, CountType
<1> USE DEF ControlInv
<1>1. CASE mhi_net_probe \/ PmError \/ mhi_net_ul_callback \/ DeviceReceives \/ UNCHANGED vars
  BY <1>1 DEF mhi_net_probe, PmError, mhi_net_ul_callback, DeviceReceives, vars
<1>2. CASE DriverRemove \/ mhi_net_remove
  BY <1>2 DEF DriverRemove, mhi_net_remove
<1>3. CASE mhi_net_open
  BY <1>3 DEF mhi_net_open
<1>4. CASE mhi_net_stop
  BY <1>4 DEF mhi_net_stop
<1>5. CASE open_fill
  BY <1>0, <1>t, <1>5 DEF open_fill
<1>6. CASE open_napi
  BY <1>0, <1>t, <1>6 DEF open_napi, Returned
<1>7. CASE stop_napi
  BY <1>7 DEF stop_napi
<1>8. CASE stop_work
  BY <1>8 DEF stop_work, WorkStopped
<1>9. CASE stop_unprepare
  BY <1>9 DEF stop_unprepare
<1>10. CASE stop_purge
  BY <1>10 DEF stop_purge
<1>11. CASE mhi_net_status_cb
  BY <1>t, <1>11 DEF mhi_net_status_cb
<1>12. CASE mhi_net_poll
  BY <1>t, <1>12 DEF mhi_net_poll, PollQuits, napi_complete
<1>13. CASE poll_fixup
  BY <1>t, <1>13 DEF poll_fixup
<1>14. CASE poll_refill
  BY <1>0, <1>t, <1>14 DEF poll_refill, SubmitBegins
<1>15. CASE poll_return
  BY <1>0, <1>t, <1>15 DEF poll_return, Returned, napi_complete
<1>16. CASE mhi_net_rx_refill_work
  BY <1>0, <1>t, <1>16 DEF mhi_net_rx_refill_work, Returned, SubmitBegins
<1>17. ASSUME NEW c \in Callers, rx_alloc_submit(c) PROVE ControlInv'
  <2>1. /\ at[c] # "idle" /\ at'[c] # "idle" /\ \A d \in Callers \ {c} : at'[d] = at[d]
    BY <1>17, SubmitStays
  <2>2. UNCHANGED <<DEV_OPEN, CHAN_ENABLE, rt, napi, xmit, pend, missed>>
    BY <1>17 DEF rx_alloc_submit, submit_alloc, submit_queue, submit_again
  <2>3. refill' => refill \/ DEV_OPEN
    BY <1>17 DEF rx_alloc_submit, submit_alloc, submit_queue, submit_again, RefillLater, Enabled
  <2>4. \A d \in Callers : at'[d] # "idle" <=> at[d] # "idle"
    BY <2>1
  <2> QED
    BY <1>0, <2>2, <2>3, <2>4
<1>18. CASE mhi_net_xmit \/ xmit_stop \/ xmit_send
  BY <1>18 DEF mhi_net_xmit, xmit_stop, xmit_send
<1> QED
  BY <1>1, <1>2, <1>3, <1>4, <1>5, <1>6, <1>7, <1>8, <1>9, <1>10, <1>11, <1>12, <1>13, <1>14, <1>15, <1>16,
     <1>17, <1>18
  DEF Next, Rtnl, Napi, Xmit

\* Every step leaves the channel as RTNL and the removal have it.
LEMMA RingStep == NetType /\ ControlInv /\ RingInv /\ [Next]_vars => RingInv'
<1> SUFFICES ASSUME NetType, ControlInv, RingInv, [Next]_vars PROVE RingInv'
  OBVIOUS
<1>0. "rtnl" \in Callers /\ "napi" \in Callers /\ "work" \in Callers
  BY DEF Callers
<1>t. /\ mdev \in {"none", "bound", "reset", "gone"} /\ ch \in {"DISABLED", "ENABLED", "SUSPENDED"}
      /\ rt \in {"down", "o_fill", "o_wait", "up", "s_napi", "s_work", "s_unprep", "s_purge"}
      /\ dl \in Nat /\ ev \in Nat /\ ul \in Nat
  BY NetConstants DEF NetType, PlaceType, CountType
<1> USE DEF RingInv
<1>1. CASE mhi_net_probe \/ PmError \/ mhi_net_stop \/ open_fill \/ open_napi \/ stop_napi \/ stop_work
           \/ stop_purge \/ UNCHANGED vars
  <2>1. UNCHANGED <<ch, dl, ev, ul>>
    BY <1>1 DEF mhi_net_probe, PmError, mhi_net_stop, open_fill, open_napi, stop_napi, stop_work,
       stop_purge, vars
  <2>2. \/ UNCHANGED <<mdev, rt>>
        \/ mdev = "none" /\ mdev' = "bound" /\ UNCHANGED rt
        \/ UNCHANGED mdev /\ \/ rt = "up" /\ rt' = "s_napi"
                             \/ rt = "o_fill" /\ rt' = "o_wait"
                             \/ rt = "o_wait" /\ rt' = "up"
                             \/ rt = "s_napi" /\ rt' = "s_work"
                             \/ rt = "s_work" /\ rt' = "s_unprep"
                             \/ rt = "s_purge" /\ rt' = "down"
    BY <1>1 DEF mhi_net_probe, PmError, mhi_net_stop, open_fill, open_napi, stop_napi, stop_work,
       stop_purge, vars
  <2> QED
    BY <1>t, <2>1, <2>2
<1>2. CASE DriverRemove \/ mhi_net_remove
  BY <1>t, <1>2 DEF DriverRemove, mhi_net_remove, mhi_reset_chan
<1>3. CASE mhi_net_open
  BY <1>t, <1>3 DEF mhi_net_open
<1>4. CASE stop_unprepare
  BY <1>t, <1>4 DEF stop_unprepare, mhi_reset_chan
<1>5. CASE mhi_net_status_cb \/ poll_fixup \/ poll_refill \/ poll_return \/ mhi_net_rx_refill_work
           \/ mhi_net_xmit \/ xmit_stop
  BY <1>5 DEF mhi_net_status_cb, poll_fixup, poll_refill, poll_return, mhi_net_rx_refill_work, mhi_net_xmit, xmit_stop
<1>6. CASE mhi_net_poll
  <2>1. UNCHANGED <<mdev, ch, rt, dl, ul>> /\ rt \in {"up", "s_napi"}
    BY <1>6, <1>t DEF mhi_net_poll, ControlInv
  <2> QED
    BY <2>1
<1>7. ASSUME NEW c \in Callers, rx_alloc_submit(c) PROVE RingInv'
  <2>1. UNCHANGED <<mdev, ch, rt, ev, ul>>
    BY <1>7 DEF rx_alloc_submit, submit_alloc, submit_queue, submit_again
  <2>2. at[c] # "idle" /\ (c = "rtnl" \/ c = "napi" \/ c = "work")
    BY <1>7, SubmitStays DEF Callers
  <2>3. rt \in {"o_wait", "up", "s_napi", "s_work"}
    BY <1>t, <2>2 DEF ControlInv
  <2> QED
    BY <2>1, <2>3
<1>8. CASE xmit_send
  <2>1. UNCHANGED <<mdev, ch, rt, dl, ev>> /\ rt = "up"
    BY <1>8 DEF xmit_send, ControlInv
  <2> QED
    BY <2>1
<1>9. CASE mhi_net_ul_callback \/ DeviceReceives
  <2>1. UNCHANGED <<mdev, ch, rt>> /\ ch = "ENABLED"
    BY <1>9 DEF mhi_net_ul_callback, DeviceReceives
  <2>2. CASE mhi_net_ul_callback
    BY <1>t, <2>1, <2>2 DEF mhi_net_ul_callback
  <2>3. CASE DeviceReceives
    BY <1>t, <2>1, <2>3 DEF DeviceReceives
  <2> QED
    BY <1>9, <2>2, <2>3
<1> QED
  BY <1>1, <1>2, <1>3, <1>4, <1>5, <1>6, <1>7, <1>8, <1>9 DEF Next, Rtnl, Napi, Xmit

-----------------------------------------------------------------------------
(* Receive and transmit                                                    *)

\* Every step keeps an event from being forgotten.
LEMMA EventStep == NetType /\ ControlInv /\ RingInv /\ EventInv /\ [Next]_vars => EventInv'
<1> SUFFICES ASSUME NetType, ControlInv, RingInv, EventInv, [Next]_vars, Transfers', ev' > 0
             PROVE  (irq \/ early \/ napi = "sched" \/ missed \/ (napi \in {"fix", "refill"} /\ full))'
  BY DEF EventInv
<1>t. dl \in Nat /\ ev \in Nat /\ napi \in {"off", "idle", "sched", "fix", "refill"}
  BY NetConstants DEF NetType, PlaceType, CountType
<1> USE DEF EventInv, Transfers
<1>1. CASE mhi_net_probe \/ open_fill
  <2>1. ev' = 0
    BY <1>t, <1>1 DEF mhi_net_probe, open_fill, RingInv
  <2> QED
    BY <1>t, <2>1
<1>2. CASE PmError \/ DriverRemove \/ mhi_net_remove \/ mhi_net_open \/ mhi_net_stop \/ stop_napi \/ stop_work
           \/ stop_unprepare \/ stop_purge
  BY <1>2 DEF PmError, DriverRemove, mhi_net_remove, mhi_net_open, mhi_net_stop, stop_napi, stop_work,
     stop_unprepare, stop_purge
<1>3. CASE open_napi
  BY <1>3 DEF open_napi, ControlInv
<1>4. CASE mhi_net_status_cb
  BY <1>t, <1>4 DEF mhi_net_status_cb, ControlInv
<1>5. CASE mhi_net_poll
  <2>1. Enabled /\ ~err
    BY <1>5 DEF mhi_net_poll, Enabled, ControlInv
  <2>2. napi' = "fix" /\ ev' = ev - PollTakes /\ full' = (PollTakes = Budget)
    BY <1>5, <2>1 DEF mhi_net_poll
  <2>3. PollTakes \in 0..ev /\ (PollTakes < ev => PollTakes = Budget)
    BY <1>t, Takes
  <2>4. PollTakes = Budget
    <3> DEFINE n == PollTakes
    <3>1. n \in 0..ev /\ (n < ev => n = Budget) /\ ev - n > 0
      BY <2>2, <2>3
    <3> HIDE DEF n
    <3>2. n = Budget
      BY <1>t, <3>1
    <3> QED
      BY <3>2 DEF n
  <2>5. full'
    BY <2>2, <2>4, Zenon
  <2> QED
    BY <2>2, <2>5
<1>6. CASE poll_fixup \/ poll_refill
  BY <1>6 DEF poll_fixup, poll_refill
<1>7. CASE poll_return
  BY <1>7 DEF poll_return, PollCompletes, napi_complete
<1>8. CASE mhi_net_rx_refill_work \/ \E c \in Callers : rx_alloc_submit(c)
  BY <1>8 DEF mhi_net_rx_refill_work, rx_alloc_submit, submit_alloc, submit_queue, submit_again
<1>9. CASE mhi_net_xmit \/ xmit_stop \/ xmit_send \/ mhi_net_ul_callback \/ UNCHANGED vars
  BY <1>9 DEF mhi_net_xmit, xmit_stop, xmit_send, mhi_net_ul_callback, vars
<1>10. CASE DeviceReceives
  BY <1>10 DEF DeviceReceives
<1> QED
  BY <1>1, <1>2, <1>3, <1>4, <1>5, <1>6, <1>7, <1>8, <1>9, <1>10 DEF Next, Rtnl, Napi, Xmit

\* Every step leaves an empty ring to somebody who fills it.
LEMMA FillStep ==
  NetType /\ ControlInv /\ RingInv /\ SubmitInv /\ FillInv /\ [Next]_vars => FillInv'
<1> SUFFICES ASSUME NetType, ControlInv, RingInv, SubmitInv, FillInv, [Next]_vars, Transfers', dl' + ev' = 0
             PROVE  (refill \/ napi = "fix" \/ \E c \in Callers : WillFill(c))'
  BY DEF FillInv
<1>0. "rtnl" \in Callers /\ "napi" \in Callers /\ "work" \in Callers
  BY DEF Callers
<1>t. /\ dl \in Nat /\ ev \in Nat /\ DlN \in Nat /\ DlN > 0 /\ free_dl = DlN - dl - ev
      /\ at \in [Callers -> {"idle", "alloc", "queue", "again", "done"}]
      /\ no_tre \in [Callers -> 0..DlN] /\ i \in [Callers -> 0..DlN]
  BY NetConstants DEF NetType, PlaceType, CountType, free_dl
<1>e. (dl = 0 /\ ev = 0) => dl + ev = 0 /\ free_dl = DlN
  BY <1>t
<1>a. ASSUME UNCHANGED <<mdev, err, rt, dl, ev, at, no_tre, i>>, refill => refill', napi = "fix" => napi' = "fix"
      PROVE  (refill \/ napi = "fix" \/ \E c \in Callers : WillFill(c))'
  BY <1>a DEF FillInv, Transfers, WillFill
<1>b. ASSUME NEW c \in Callers, SubmitBegins(c), dl + ev = 0, Enabled
      PROVE  WillFill(c)'
  <2>1. free_dl > 0
    BY <1>t, <1>b
  <2> QED
    BY <1>t, <1>b, <2>1 DEF SubmitBegins, WillFill
<1>1. CASE mhi_net_probe \/ PmError \/ DriverRemove \/ mhi_net_remove \/ mhi_net_open \/ mhi_net_stop \/ stop_napi
           \/ stop_work \/ stop_unprepare \/ stop_purge
  BY <1>1 DEF mhi_net_probe, PmError, DriverRemove, mhi_net_remove, mhi_net_open, mhi_net_stop, stop_napi, stop_work,
     stop_unprepare, stop_purge, Transfers, RingInv
<1>2. CASE open_fill
  <2>1. dl = 0 /\ ev = 0 /\ at["rtnl"] = "idle"
    BY <1>2 DEF open_fill, RingInv, Transfers
  <2>2. i["rtnl"] = 0
    BY <1>0, <2>1 DEF SubmitInv
  <2>3. at'["rtnl"] = "alloc" /\ no_tre'["rtnl"] = free_dl /\ i'["rtnl"] = 0
    BY <1>0, <1>t, <1>2, <2>2 DEF open_fill
  <2>4. WillFill("rtnl")'
    BY <1>t, <1>e, <2>1, <2>3 DEF WillFill
  <2> QED
    BY <1>0, <2>4
<1>3. CASE open_napi
  <2>1. UNCHANGED <<mdev, err, dl, ev, no_tre, i, refill>> /\ rt = "o_wait" /\ at["rtnl"] = "done"
        /\ \A c \in Callers \ {"rtnl"} : at'[c] = at[c]
    BY <1>0, <1>t, <1>3 DEF open_napi, Returned
  <2>2. napi # "fix"
    BY <2>1 DEF ControlInv
  <2>3. ~WillFill("rtnl") /\ Transfers /\ dl + ev = 0
    BY <2>1 DEF WillFill, Transfers
  <2> QED
    BY <2>1, <2>2, <2>3 DEF FillInv, WillFill
<1>4. CASE mhi_net_status_cb
  <2>1. napi = "fix" => napi' = "fix"
    BY <1>4 DEF mhi_net_status_cb
  <2> QED
    BY <1>4, <1>a, <2>1 DEF mhi_net_status_cb
<1>5. CASE mhi_net_poll
  <2>1. Enabled /\ ~err
    BY <1>5 DEF mhi_net_poll, Enabled, ControlInv, Transfers
  <2> QED
    BY <1>5, <2>1 DEF mhi_net_poll
<1>6. CASE poll_fixup
  BY <1>6 DEF poll_fixup
<1>7. CASE poll_refill
  <2>1. CASE refill
    BY <1>7, <2>1 DEF poll_refill
  <2>2. CASE ~refill
    <3>1. SubmitBegins("napi") /\ UNCHANGED <<dl, ev, mdev, err, rt>> /\ Enabled
      BY <1>7, <2>2 DEF poll_refill, Transfers, Enabled, ControlInv
    <3>2. WillFill("napi")'
      BY <1>0, <1>b, <3>1
    <3> QED
      BY <1>0, <3>2
  <2> QED
    BY <2>1, <2>2
<1>8. CASE poll_return
  <2>1. UNCHANGED <<mdev, err, rt, dl, ev, no_tre, i, refill>> /\ napi = "refill" /\ at["napi"] = "done"
        /\ \A c \in Callers \ {"napi"} : at'[c] = at[c]
    BY <1>0, <1>t, <1>8 DEF poll_return, Returned
  <2>2. ~WillFill("napi") /\ Transfers /\ dl + ev = 0
    BY <2>1 DEF WillFill, Transfers
  <2> QED
    BY <2>1, <2>2 DEF FillInv, WillFill
<1>9. CASE mhi_net_rx_refill_work
  <2>1. UNCHANGED <<mdev, err, rt, dl, ev, napi>>
    BY <1>9 DEF mhi_net_rx_refill_work
  <2>2. Transfers /\ Enabled /\ dl + ev = 0
    BY <2>1 DEF Transfers, Enabled, ControlInv
  <2>3. CASE SubmitBegins("work")
    BY <1>0, <1>b, <2>2, <2>3
  <2>4. CASE Returned("work") /\ UNCHANGED refill
    <3>1. UNCHANGED <<no_tre, i>> /\ at["work"] = "done" /\ \A c \in Callers \ {"work"} : at'[c] = at[c]
      BY <1>0, <1>t, <2>4 DEF Returned
    <3>2. ~WillFill("work")
      BY <3>1 DEF WillFill
    <3> QED
      BY <2>1, <2>2, <2>4, <3>1, <3>2 DEF FillInv, WillFill
  <2> QED
    BY <1>9, <2>3, <2>4 DEF mhi_net_rx_refill_work
<1>10. ASSUME NEW c \in Callers, rx_alloc_submit(c)
       PROVE  (refill \/ napi = "fix" \/ \E d \in Callers : WillFill(d))'
  <2>1. \A d \in Callers \ {c} : at'[d] = at[d] /\ no_tre'[d] = no_tre[d] /\ i'[d] = i[d]
    BY <1>10, SubmitStays
  <2>2. UNCHANGED <<mdev, err, rt, ev, napi>> /\ (dl' = dl \/ dl' = dl + 1)
    BY <1>10 DEF rx_alloc_submit, submit_alloc, submit_queue, submit_again
  <2>3. dl' = dl /\ dl = 0 /\ ev = 0
    BY <1>t, <2>2
  <2>4. Transfers /\ Enabled /\ dl + ev = 0
    BY <2>2, <2>3 DEF Transfers, Enabled, ControlInv
  <2>5. refill => refill'
    BY <1>10 DEF rx_alloc_submit, submit_alloc, submit_queue, submit_again
  <2>6. WillFill(c) => WillFill(c)' \/ refill'
    <3>1. CASE submit_alloc(c)
      <4>1. CASE i[c] = no_tre[c]
        <5>1. i[c] \in Int /\ no_tre[c] \in Int
          BY <1>t
        <5> QED
          BY <3>1, <4>1, <5>1 DEF submit_alloc, WillFill
      <4>2. CASE i[c] # no_tre[c]
        <5>1. at'[c] \in {"queue", "again"}
          BY <1>t, <3>1, <4>2 DEF submit_alloc, SubmitGoes
        <5> QED
          BY <5>1 DEF WillFill
      <4> QED
        BY <4>1, <4>2
    <3>2. CASE submit_queue(c)
      <4>1. dl' # dl + 1
        BY <1>t, <2>3
      <4>2. at'[c] = "again"
        BY <1>t, <3>2, <4>1 DEF submit_queue, SubmitGoes
      <4> QED
        BY <4>2 DEF WillFill
    <3>3. CASE submit_again(c)
      <4>1. i[c] < no_tre[c] /\ i[c] \in 0..DlN /\ no_tre[c] \in 0..DlN
        BY <1>t, <3>3 DEF submit_again, SubmitInv
      <4>2. i[c] < free_dl
        BY <1>t, <1>e, <2>3, <4>1
      <4>3. RefillLater(c)
        BY <2>4, <4>2 DEF RefillLater
      <4> QED
        BY <3>3, <4>3 DEF submit_again
    <3> QED
      BY <1>10, <3>1, <3>2, <3>3 DEF rx_alloc_submit
  <2>7. \A d \in Callers \ {c} : WillFill(d) => WillFill(d)'
    BY <2>1 DEF WillFill
  <2> QED
    BY <2>2, <2>4, <2>5, <2>6, <2>7 DEF FillInv
<1>11. CASE mhi_net_xmit \/ xmit_stop \/ xmit_send \/ mhi_net_ul_callback \/ UNCHANGED vars
  BY <1>11, <1>a DEF mhi_net_xmit, xmit_stop, xmit_send, mhi_net_ul_callback, vars
<1>12. CASE DeviceReceives
  <2>1. dl' = dl - 1 /\ ev' = ev + 1
    BY <1>12 DEF DeviceReceives
  <2>2. dl + ev = 0
    BY <1>t, <2>1
  <2> QED
    BY <1>t, <1>12, <2>2 DEF DeviceReceives
<1> QED
  BY <1>1, <1>2, <1>3, <1>4, <1>5, <1>6, <1>7, <1>8, <1>9, <1>10, <1>11, <1>12 DEF Next, Rtnl, Napi, Xmit

\* Every step leaves a running queue room, and a stopped one a packet whose completion wakes it.
LEMMA RoomStep ==
  NetType /\ ControlInv /\ RingInv /\ RoomInv /\ [Next]_vars => RoomInv'
<1> SUFFICES ASSUME NetType, ControlInv, RingInv, RoomInv, [Next]_vars PROVE RoomInv'
  OBVIOUS
<1>t. ul \in Nat /\ UlN \in Nat /\ UlN > 0 /\ xmit \in {"idle", "busy", "last", "send"} /\ free_ul = UlN - ul
  BY NetConstants DEF NetType, PlaceType, CountType, free_ul
<1>a. ASSUME Serving' => Serving, UNCHANGED <<ul, stopped, gaveup, xmit>> PROVE RoomInv'
  BY <1>a DEF RoomInv
<1>1. CASE PmError \/ open_fill \/ mhi_net_stop \/ stop_napi \/ stop_work \/ stop_purge \/ DriverRemove
           \/ mhi_net_remove \/ stop_unprepare \/ mhi_net_open \/ mhi_net_probe
  <2>1. ~Serving' \/ (UNCHANGED <<mdev, err, rt, ul, stopped, gaveup, xmit>>)
    BY <1>1 DEF PmError, open_fill, mhi_net_stop, stop_napi, stop_work, stop_purge, DriverRemove, mhi_net_remove,
       stop_unprepare, mhi_net_open, mhi_net_probe, Serving, RingInv
  <2> QED
    BY <1>a, <2>1 DEF RoomInv, Serving
<1>2. CASE open_napi
  <2>1. UNCHANGED <<mdev, err, ul, xmit>> /\ rt = "o_wait" /\ ~stopped'
    BY <1>2 DEF open_napi
  <2>2. xmit = "idle" /\ (mdev = "bound" => ul = 0)
    BY <2>1 DEF ControlInv, RingInv
  <2> QED
    BY <1>t, <2>1, <2>2 DEF RoomInv, Serving
<1>3. CASE mhi_net_status_cb \/ Napi \/ mhi_net_rx_refill_work \/ (\E c \in Callers : rx_alloc_submit(c))
           \/ DeviceReceives \/ UNCHANGED vars
  <2>1. UNCHANGED <<mdev, err, rt, ul, stopped, gaveup, xmit>>
    BY <1>3 DEF mhi_net_status_cb, Napi, mhi_net_poll, poll_fixup, poll_refill, poll_return, mhi_net_rx_refill_work,
       rx_alloc_submit, submit_alloc, submit_queue, submit_again, DeviceReceives, vars
  <2> QED
    BY <1>a, <2>1 DEF Serving
<1>4. CASE mhi_net_xmit
  <2>1. /\ UNCHANGED <<mdev, err, rt, ul, stopped, gaveup>> /\ ~stopped /\ xmit = "idle"
        /\ xmit' = IF free_ul = 0 THEN "busy" ELSE IF free_ul = 1 THEN "last" ELSE "send"
    BY <1>4 DEF mhi_net_xmit
  <2>2. Serving' => Serving /\ ul < UlN
    BY <2>1 DEF Serving, RoomInv
  <2>3. Serving' => \/ xmit' = "last"
                    \/ xmit' = "send" /\ ul + 1 < UlN
    BY <1>t, <2>1, <2>2
  <2> QED
    BY <2>1, <2>2, <2>3 DEF RoomInv
<1>5. CASE xmit_stop
  <2>1. /\ UNCHANGED <<mdev, err, rt, ul>> /\ stopped' /\ xmit \in {"busy", "last"}
        /\ xmit' = IF xmit = "busy" THEN "idle" ELSE "send"
    BY <1>5 DEF xmit_stop
  <2> QED
    BY <2>1 DEF RoomInv, Serving
<1>6. CASE xmit_send
  <2>1. /\ UNCHANGED <<mdev, err, rt>> /\ xmit = "send" /\ xmit' = "idle"
        /\ \/ gaveup' = (gaveup \/ stopped) /\ UNCHANGED <<stopped, ul>>
           \/ stopped' /\ gaveup' /\ UNCHANGED ul
           \/ ul' = ul + 1 /\ UNCHANGED <<stopped, gaveup>>
    BY <1>6 DEF xmit_send
  <2>2. Serving' => Serving /\ ul < UlN /\ (~stopped => ul + 1 < UlN)
    BY <2>1 DEF RoomInv, Serving
  <2>3. CASE gaveup' = (gaveup \/ stopped) /\ UNCHANGED <<stopped, ul>>
    BY <2>1, <2>2, <2>3 DEF RoomInv
  <2>4. CASE stopped' /\ gaveup' /\ UNCHANGED ul
    BY <2>1, <2>4 DEF RoomInv
  <2>5. CASE ul' = ul + 1 /\ UNCHANGED <<stopped, gaveup>>
    <3>1. ul' > 0 /\ (Serving' /\ ~stopped' => ul' < UlN)
      BY <1>t, <2>2, <2>5
    <3> QED
      BY <2>1, <3>1 DEF RoomInv
  <2> QED
    BY <2>1, <2>3, <2>4, <2>5
<1>7. CASE mhi_net_ul_callback
  <2>1. UNCHANGED <<mdev, err, rt, xmit>> /\ ul > 0 /\ ul' = ul - 1 /\ ~stopped'
    BY <1>7 DEF mhi_net_ul_callback, UlWakes
  <2>2. ul' < UlN /\ (ul < UlN => ul' + 1 < UlN)
    BY <1>t, <2>1 DEF NetType, CountType
  <2>3. Serving' => Serving
    BY <2>1 DEF Serving
  <2> QED
    BY <2>1, <2>2, <2>3 DEF RoomInv
<1> QED
  BY <1>1, <1>2, <1>3, <1>4, <1>5, <1>6, <1>7 DEF Next, Rtnl, Xmit

-----------------------------------------------------------------------------
(* Buffers                                                                 *)

\* The callers of rx_alloc_submit() that hold a buffer.
Hands == {c \in Callers : at[c] = "queue"}

\* SkbAccounted without the types.
Accounted == live = dl + ev + ul + pend + Cardinality(Hands) + leaked

\* The hands are finitely many.
LEMMA HandsFinite == IsFiniteSet(Hands) /\ Cardinality(Hands) \in Nat
<1>1. IsFiniteSet({"rtnl"} \cup {"napi"} \cup {"work"})
  <2>1. IsFiniteSet({"rtnl"}) /\ IsFiniteSet({"napi"}) /\ IsFiniteSet({"work"})
    BY FS_Singleton
  <2>2. IsFiniteSet({"rtnl"} \cup {"napi"})
    BY <2>1, FS_Union
  <2> QED
    BY <2>1, <2>2, FS_Union
<1>2. Callers = {"rtnl"} \cup {"napi"} \cup {"work"}
  BY DEF Callers
<1>3. Hands \in SUBSET Callers
  BY DEF Hands
<1>4. IsFiniteSet(Hands)
  BY <1>1, <1>2, <1>3, FS_Subset
<1> QED
  BY <1>4, FS_CardinalityType

\* What a move of one caller does to them.
LEMMA HandMoves ==
  ASSUME NetType, NEW c \in Callers, NEW l, at' = [at EXCEPT ![c] = l]
  PROVE  /\ at[c] = "queue" /\ l # "queue" => Cardinality(Hands') = Cardinality(Hands) - 1
         /\ at[c] # "queue" /\ l = "queue" => Cardinality(Hands') = Cardinality(Hands) + 1
         /\ at[c] # "queue" /\ l # "queue" => Cardinality(Hands') = Cardinality(Hands)
<1>1. /\ Cardinality(Hands \cup {c}) = IF c \in Hands THEN Cardinality(Hands) ELSE Cardinality(Hands) + 1
      /\ Cardinality(Hands \ {c}) = IF c \in Hands THEN Cardinality(Hands) - 1 ELSE Cardinality(Hands)
  BY HandsFinite, FS_AddElement, FS_RemoveElement
<1>2. c \in Hands <=> at[c] = "queue"
  BY DEF Hands
<1>3. \A d \in Callers : at'[d] = IF d = c THEN l ELSE at[d]
  BY DEF NetType, PlaceType
<1>4. Hands' = IF l = "queue" THEN Hands \cup {c} ELSE Hands \ {c}
  BY <1>3 DEF Hands
<1> QED
  BY <1>1, <1>2, <1>4

\* Every step accounts for the buffers it allocates, moves and frees.
LEMMA AccountStep == NetType /\ ControlInv /\ Accounted /\ [Next]_vars => Accounted'
<1> SUFFICES ASSUME NetType, ControlInv, Accounted, [Next]_vars PROVE Accounted'
  OBVIOUS
<1>0. "rtnl" \in Callers /\ "napi" \in Callers /\ "work" \in Callers
  BY DEF Callers
<1> DEFINE h == Cardinality(Hands)
<1>t. dl \in Nat /\ ev \in Nat /\ ul \in Nat /\ pend \in Nat /\ h \in Nat /\ leaked \in Nat
      /\ live = dl + ev + ul + pend + h + leaked
  BY NetConstants, HandsFinite DEF NetType, CountType, Accounted
<1>s. ASSUME live' = dl' + ev' + ul' + pend' + h' + leaked' PROVE Accounted'
  BY <1>s DEF Accounted
<1>u. UNCHANGED at => h' = h
  BY DEF Hands
<1>m. ASSUME NEW c \in Callers, NEW l, at' = [at EXCEPT ![c] = l]
      PROVE  /\ at[c] = "queue" /\ l # "queue" => h' = h - 1
             /\ at[c] # "queue" /\ l = "queue" => h' = h + 1
             /\ at[c] # "queue" /\ l # "queue" => h' = h
  BY <1>m, HandMoves
<1> HIDE DEF h
<1>1. CASE mhi_net_probe \/ PmError \/ mhi_net_open \/ mhi_net_stop \/ stop_napi \/ stop_work
           \/ mhi_net_status_cb \/ mhi_net_xmit \/ xmit_stop \/ UNCHANGED vars
  <2>1. UNCHANGED <<live, leaked, dl, ev, ul, pend, at>>
    BY <1>1 DEF mhi_net_probe, PmError, mhi_net_open, mhi_net_stop, stop_napi, stop_work, mhi_net_status_cb,
       mhi_net_xmit, xmit_stop, vars
  <2> QED
    BY <1>t, <1>s, <1>u, <2>1
<1>2. CASE DriverRemove \/ mhi_net_remove \/ stop_unprepare
  <2>1. /\ UNCHANGED <<pend, at>>
        /\ \/ UNCHANGED <<live, leaked, dl, ev, ul>>
           \/ dl' = 0 /\ ev' = 0 /\ ul' = 0 /\ live' = live - dl - ev - ul /\ UNCHANGED leaked
           \/ dl' = 0 /\ ev' = 0 /\ ul' = 0 /\ leaked' = leaked + dl + ev + ul /\ UNCHANGED live
    BY <1>2 DEF DriverRemove, mhi_net_remove, stop_unprepare, mhi_reset_chan
  <2> QED
    BY <1>t, <1>s, <1>u, <2>1
<1>3. CASE stop_purge
  <2>1. UNCHANGED <<dl, ev, ul, at, leaked>> /\ pend' = 0 /\ live' = live - pend
    BY <1>3 DEF stop_purge
  <2> QED
    BY <1>t, <1>s, <1>u, <2>1
<1>4. CASE open_fill \/ open_napi \/ poll_refill \/ poll_return \/ mhi_net_rx_refill_work
  <2>1. UNCHANGED <<live, leaked, dl, ev, ul, pend>>
    BY <1>4 DEF open_fill, open_napi, poll_refill, poll_return, mhi_net_rx_refill_work
  <2>2. \E c \in Callers, l \in {"idle", "alloc", "done"} : at[c] # "queue" /\ at' = [at EXCEPT ![c] = l]
    <3>1. CASE open_fill
      BY <1>0, <3>1 DEF open_fill
    <3>2. CASE open_napi
      BY <1>0, <3>2 DEF open_napi, Returned
    <3>3. CASE poll_refill
      BY <1>0, <3>3 DEF poll_refill, SubmitBegins, ControlInv
    <3>4. CASE poll_return
      BY <1>0, <3>4 DEF poll_return, Returned
    <3>5. CASE mhi_net_rx_refill_work
      BY <1>0, <3>5 DEF mhi_net_rx_refill_work, SubmitBegins, Returned
    <3> QED
      BY <1>4, <3>1, <3>2, <3>3, <3>4, <3>5
  <2>3. h' = h
    BY <1>m, <2>2
  <2> QED
    BY <1>t, <1>s, <2>1, <2>3
<1>5. CASE mhi_net_poll
  <2>1. UNCHANGED <<dl, ul, at, leaked>>
    BY <1>5 DEF mhi_net_poll
  <2>2. \/ UNCHANGED <<live, ev, pend>>
        \/ /\ ev' = ev - PollTakes
           /\ \E bad \in 0..PollTakes : pend' = pend + PollTakes - bad /\ live' = live - bad
    BY <1>5 DEF mhi_net_poll
  <2>3. CASE UNCHANGED <<live, ev, pend>>
    BY <1>t, <1>s, <1>u, <2>1, <2>3
  <2>4. CASE /\ ev' = ev - PollTakes
             /\ \E bad \in 0..PollTakes : pend' = pend + PollTakes - bad /\ live' = live - bad
    <3> DEFINE n == PollTakes
    <3>1. n \in Nat /\ ev' = ev - n
      BY <1>t, <2>4, Takes
    <3>2. PICK bad \in 0..n : pend' = pend + n - bad /\ live' = live - bad
      BY <2>4
    <3> HIDE DEF n
    <3> QED
      BY <1>t, <1>s, <1>u, <2>1, <3>1, <3>2
  <2> QED
    BY <2>2, <2>3, <2>4
<1>6. CASE poll_fixup
  <2>1. /\ UNCHANGED <<dl, ev, ul, at>> /\ pend' = pend - 1
        /\ \/ live' = live - 1 /\ UNCHANGED leaked
           \/ leaked' = leaked + 1 /\ UNCHANGED live
    BY <1>6 DEF poll_fixup
  <2> QED
    BY <1>t, <1>s, <1>u, <2>1
<1>7. ASSUME NEW c \in Callers, submit_alloc(c) PROVE Accounted'
  <2>1. UNCHANGED <<dl, ev, ul, pend>> /\ at[c] = "alloc"
        /\ \/ UNCHANGED <<live, leaked>> /\ \E l \in {"done", "again"} : at' = [at EXCEPT ![c] = l]
           \/ live' = live + 1 /\ leaked' = leaked + 1 /\ at' = [at EXCEPT ![c] = "again"]
           \/ live' = live + 1 /\ at' = [at EXCEPT ![c] = "queue"] /\ UNCHANGED leaked
    BY <1>7 DEF submit_alloc, SubmitEnds, SubmitGoes
  <2>2. CASE /\ UNCHANGED <<live, leaked>> \/ (live' = live + 1 /\ leaked' = leaked + 1)
             /\ \E l \in {"done", "again"} : at' = [at EXCEPT ![c] = l]
    <3>1. h' = h
      BY <1>m, <2>1, <2>2
    <3> QED
      BY <1>t, <1>s, <2>1, <2>2, <3>1
  <2>3. CASE live' = live + 1 /\ at' = [at EXCEPT ![c] = "queue"] /\ UNCHANGED leaked
    <3>1. h' = h + 1
      BY <1>m, <2>1, <2>3
    <3> QED
      BY <1>t, <1>s, <2>1, <2>3, <3>1
  <2> QED
    BY <2>1, <2>2, <2>3
<1>8. ASSUME NEW c \in Callers, submit_queue(c) PROVE Accounted'
  <2>1. UNCHANGED <<ev, ul, pend, leaked>> /\ at[c] = "queue"
        /\ \E l \in {"alloc", "again"} : at' = [at EXCEPT ![c] = l]
        /\ \/ dl' = dl + 1 /\ UNCHANGED live
           \/ live' = live - 1 /\ UNCHANGED dl
    BY <1>8 DEF submit_queue, SubmitGoes, SubmitFrees
  <2>2. h' = h - 1
    BY <1>m, <2>1
  <2> QED
    BY <1>t, <1>s, <2>1, <2>2
<1>9. ASSUME NEW c \in Callers, submit_again(c) PROVE Accounted'
  <2>1. UNCHANGED <<live, leaked, dl, ev, ul, pend>> /\ at[c] = "again"
        /\ \E l \in {"done"} : at' = [at EXCEPT ![c] = l]
    BY <1>9 DEF submit_again, SubmitEnds
  <2>2. h' = h
    BY <1>m, <2>1
  <2> QED
    BY <1>t, <1>s, <2>1, <2>2
<1>10. CASE xmit_send \/ mhi_net_ul_callback
  <2>1. /\ UNCHANGED <<dl, ev, pend, at, leaked>>
        /\ \/ UNCHANGED <<live, ul>>
           \/ ul' = ul + 1 /\ live' = live + 1
           \/ ul' = ul - 1 /\ live' = live - 1
    BY <1>10 DEF xmit_send, mhi_net_ul_callback
  <2> QED
    BY <1>t, <1>s, <1>u, <2>1
<1>11. CASE DeviceReceives
  <2>1. UNCHANGED <<live, leaked, ul, pend, at>> /\ dl' = dl - 1 /\ ev' = ev + 1
    BY <1>11 DEF DeviceReceives
  <2> QED
    BY <1>t, <1>s, <1>u, <2>1
<1> QED
  BY <1>1, <1>2, <1>3, <1>4, <1>5, <1>6, <1>7, <1>8, <1>9, <1>10, <1>11
  DEF Next, Rtnl, Napi, Xmit, rx_alloc_submit

\* Every step loses an skb to a closed device at most once for the poll and once for the work.
LEMMA CloseStep == NetType /\ ControlInv /\ CloseInv /\ [Next]_vars => CloseInv'
<1> SUFFICES ASSUME NetType, ControlInv, CloseInv, [Next]_vars PROVE CloseInv'
  OBVIOUS
<1> DEFINE n == InLoop("napi")
           w == InLoop("work")
<1>t. closing \in 0..2 /\ n \in {0, 1} /\ w \in {0, 1} /\ n' \in {0, 1} /\ w' \in {0, 1}
      /\ (~Enabled => closing + n + w <= 2)
  BY DEF CloseInv, InLoop
<1>a. at \in [Callers -> {"idle", "alloc", "queue", "again", "done"}]
      /\ "rtnl" \in Callers /\ "napi" \in Callers /\ "work" \in Callers
      /\ \A c \in Callers : c \in {"rtnl", "napi", "work"}
  BY DEF NetType, PlaceType, Callers
<1>s. ASSUME closing' \in 0..2, ~Enabled' => closing' + n' + w' <= 2 PROVE CloseInv'
  BY <1>s DEF CloseInv
<1>l. ASSUME n' <= n, w' <= w, UNCHANGED closing, ~Enabled' => ~Enabled PROVE CloseInv'
  BY <1>t, <1>s, <1>l
<1>e. ASSUME Enabled', UNCHANGED closing PROVE CloseInv'
  BY <1>t, <1>s, <1>e
<1>u. UNCHANGED at => n' = n /\ w' = w
  BY DEF InLoop
<1>m. ASSUME NEW c \in Callers, NEW l \in {"idle", "done", "again"}, at' = [at EXCEPT ![c] = l]
      PROVE  n' <= n /\ w' <= w /\ (c = "napi" => n' = 0 /\ w' = w) /\ (c = "work" => w' = 0 /\ n' = n)
  BY <1>a, <1>m DEF InLoop
<1>1. CASE mhi_net_probe \/ PmError \/ mhi_net_open \/ stop_napi \/ stop_work \/ stop_unprepare
           \/ stop_purge \/ DriverRemove \/ mhi_net_remove \/ mhi_net_poll \/ poll_fixup
           \/ mhi_net_status_cb \/ mhi_net_xmit \/ Xmit \/ mhi_net_ul_callback \/ DeviceReceives
           \/ UNCHANGED vars
  <2>1. UNCHANGED <<closing, at>> /\ (~Enabled' => ~Enabled)
    BY <1>1 DEF mhi_net_probe, PmError, mhi_net_open, stop_napi, stop_work, stop_unprepare, stop_purge,
       DriverRemove, mhi_net_remove, mhi_net_poll, poll_fixup, mhi_net_status_cb, mhi_net_xmit, Xmit,
       xmit_stop, xmit_send, mhi_net_ul_callback, DeviceReceives, vars, Enabled, ControlInv, NetType, FlagType
  <2> HIDE DEF n, w
  <2> QED
    BY <1>t, <1>l, <1>u, <2>1
<1>2. CASE mhi_net_stop
  <2>1. closing' = 0
    BY <1>2 DEF mhi_net_stop
  <2>2. closing' + n' + w' <= 2
    BY <1>t, <2>1 DEF InLoop
  <2> QED
    BY <1>s, <2>1, <2>2
<1>3. CASE open_fill
  <2>1. Enabled' /\ UNCHANGED closing
    BY <1>3 DEF open_fill, Enabled, ControlInv
  <2> QED
    BY <1>e, <2>1
<1>4. CASE open_napi \/ poll_return
  <2>1. UNCHANGED <<closing, Enabled>> /\ \E c \in Callers : at' = [at EXCEPT ![c] = "idle"]
    BY <1>a, <1>4 DEF open_napi, poll_return, Returned, Enabled
  <2>2. n' <= n /\ w' <= w
    BY <1>m, <2>1
  <2> QED
    BY <1>l, <2>1, <2>2
<1>5. CASE poll_refill \/ mhi_net_rx_refill_work
  <2>1. UNCHANGED <<closing, Enabled>>
        /\ (~Enabled => \E c \in Callers, l \in {"idle", "done"} : at' = [at EXCEPT ![c] = l])
    BY <1>a, <1>5 DEF poll_refill, mhi_net_rx_refill_work, SubmitBegins, Returned, Enabled
  <2>2. ~Enabled => n' <= n /\ w' <= w
    BY <1>m, <2>1
  <2> QED
    BY <1>e, <1>l, <2>1, <2>2
<1>6. ASSUME NEW c \in Callers, submit_again(c) PROVE CloseInv'
  <2>1. UNCHANGED <<closing, Enabled>> /\ at' = [at EXCEPT ![c] = "done"]
    BY <1>6 DEF submit_again, SubmitEnds, Enabled
  <2>2. n' <= n /\ w' <= w
    BY <1>m, <2>1
  <2> QED
    BY <1>l, <2>1, <2>2
<1>7. ASSUME NEW c \in Callers, submit_queue(c) PROVE CloseInv'
  <2>1. UNCHANGED <<closing, Enabled>> /\ at[c] = "queue"
        /\ (at' = [at EXCEPT ![c] = "alloc"] \/ at' = [at EXCEPT ![c] = "again"])
    BY <1>7 DEF submit_queue, SubmitGoes, Enabled
  <2>2. n' <= n /\ w' <= w
    BY <1>a, <2>1 DEF InLoop
  <2> QED
    BY <1>l, <2>1, <2>2
<1>8. ASSUME NEW c \in Callers, submit_alloc(c) PROVE CloseInv'
  <2>0. UNCHANGED Enabled /\ at[c] = "alloc"
    BY <1>8 DEF submit_alloc, Enabled
  <2>1. CASE UNCHANGED closing /\ \E l \in {"done", "again", "queue"} : at' = [at EXCEPT ![c] = l]
    <3>1. n' <= n /\ w' <= w
      BY <1>a, <2>0, <2>1 DEF InLoop
    <3> QED
      BY <1>l, <2>0, <2>1, <3>1
  <2>2. CASE ~Enabled /\ closing' = closing + 1 /\ at' = [at EXCEPT ![c] = "again"]
    <3>1. c # "rtnl"
      BY <2>0, <2>2 DEF ControlInv, Enabled
    <3>2. n' + w' = n + w - 1
      BY <1>a, <2>0, <2>2, <3>1 DEF InLoop
    <3>3. closing' \in 0..2 /\ closing' + n' + w' <= 2
      BY <1>t, <2>2, <3>2 DEF InLoop
    <3> QED
      BY <1>s, <3>3
  <2> QED
    BY <1>8, <2>1, <2>2 DEF submit_alloc, SubmitEnds, SubmitGoes
<1> QED
  BY <1>1, <1>2, <1>3, <1>4, <1>5, <1>6, <1>7, <1>8
  DEF Next, Rtnl, Napi, rx_alloc_submit

-----------------------------------------------------------------------------
(* The theorems                                                            *)

\* Buffers that are accounted for are counted by a natural number.
LEMMA AccountParts ==
  /\ SkbAccounted => NetType /\ Accounted
  /\ NetType /\ Accounted /\ CloseInv => SkbAccounted
<1>1. SkbAccounted <=> TypeOK /\ Accounted /\ closing <= 2
  BY DEF SkbAccounted, Accounted, Hands
<1>2. NetType /\ Accounted => live \in Nat
  <2> SUFFICES ASSUME NetType, Accounted PROVE live \in Nat
    OBVIOUS
  <2> DEFINE h == Cardinality(Hands)
  <2>1. dl \in Nat /\ ev \in Nat /\ ul \in Nat /\ pend \in Nat /\ h \in Nat /\ leaked \in Nat
      /\ live = dl + ev + ul + pend + h + leaked
    BY NetConstants, HandsFinite DEF NetType, CountType, Accounted
  <2> HIDE DEF h
  <2> QED
    BY <2>1
<1>3. CloseInv => closing \in Nat /\ closing <= 2
  BY DEF CloseInv
<1> QED
  BY <1>1, <1>2, <1>3, TypeParts

\* The first state.
LEMMA InitNet == Init => NetInv
<1> SUFFICES ASSUME Init PROVE NetInv
  OBVIOUS
<1>c. DlN \in Nat /\ UlN \in Nat /\ 0 \in 0..DlN /\ 0 \in 0..UlN /\ 0 + 0 <= DlN
  BY NetConstants
<1>1. FlagType
  BY DEF Init, FlagType
<1>2. PlaceType
  BY DEF Init, PlaceType
<1>3. CountType
  BY <1>c DEF Init, CountType
<1>4. ControlInv /\ SubmitInv
  BY DEF Init, ControlInv, SubmitInv, Callers
<1>5. RingInv /\ EventInv /\ FillInv /\ RoomInv
  BY DEF Init, RingInv, EventInv, FillInv, RoomInv, Transfers, Serving
<1>6. Accounted
  <2>1. Hands = {}
    BY DEF Init, Hands
  <2>2. Cardinality(Hands) = 0
    BY <2>1, FS_EmptySet
  <2> QED
    BY <2>2 DEF Init, Accounted
<1>7. CloseInv
  BY DEF Init, CloseInv, InLoop, Callers
<1> QED
  BY <1>1, <1>2, <1>3, <1>4, <1>5, <1>6, <1>7, AccountParts DEF NetInv, NetType

\* Every step keeps the invariant.
LEMMA NextNet == NetInv /\ [Next]_vars => NetInv'
<1> SUFFICES ASSUME NetInv, [Next]_vars PROVE NetInv'
  OBVIOUS
<1>0. NetType /\ Accounted /\ CloseInv /\ ControlInv /\ RingInv /\ SubmitInv /\ EventInv /\ FillInv /\ RoomInv
  BY AccountParts DEF NetInv
<1>1. NetType'
  <2>1. FlagType' /\ PlaceType'
    BY <1>0, FlagStep, PlaceStep DEF NetType
  <2>2. CountType'
    BY <1>0, CountStep
  <2> QED
    BY <2>1, <2>2 DEF NetType
<1>2. ControlInv' /\ RingInv' /\ SubmitInv'
  BY <1>0, ControlStep, RingStep, SubmitStep
<1>3. EventInv' /\ FillInv' /\ RoomInv'
  BY <1>0, EventStep, FillStep, RoomStep
<1>4. Accounted' /\ CloseInv'
  BY <1>0, AccountStep, CloseStep
<1>5. SkbAccounted'
  BY <1>1, <1>4, AccountParts, PTL
<1> QED
  BY <1>2, <1>3, <1>4, <1>5 DEF NetInv

\* It holds in every state of every behaviour.
LEMMA NetInvariant == Spec => []NetInv
BY InitNet, NextNet, PTL DEF Spec

\* Every buffer and packet that is not freed is in a ring, on rx_pending or in the hands of one
\* rx_alloc_submit(), or is counted as lost, whatever open, stop, the poll, the work and the removal
\* do; and one mhi_net_stop() loses at most two.  For rings of any length and any NAPI weight.
THEOREM NetSkbAccounted == Spec => []SkbAccounted
<1>1. NetInv => SkbAccounted
  BY DEF NetInv
<1> QED
  BY <1>1, NetInvariant, PTL

\* After mhi_net_stop() nothing polls, refills or sends, and outside of a removal no buffer is left.
THEOREM NetStoppedQuiet == Spec => []StoppedQuiet
<1>1. NetInv => StoppedQuiet
  <2> SUFFICES ASSUME NetInv, rt = "down" PROVE StoppedQuiet
    BY DEF StoppedQuiet
  <2>1. ControlInv /\ RingInv /\ NetType
    BY AccountParts DEF NetInv
  <2>2. napi = "off" /\ ~refill /\ xmit = "idle" /\ ~(pend > 0)
        /\ at["rtnl"] = "idle" /\ at["napi"] = "idle" /\ at["work"] = "idle"
    BY <2>1 DEF ControlInv
  <2>3. pend \in Nat
    BY <2>1, NetConstants DEF NetType, CountType
  <2>4. pend = 0
    BY <2>2, <2>3
  <2>5. \A c \in Callers : at[c] = "idle"
    BY <2>2 DEF Callers
  <2>6. mdev # "reset" => dl = 0 /\ ev = 0 /\ ul = 0
    BY <2>1 DEF RingInv
  <2> QED
    BY <2>2, <2>4, <2>5, <2>6 DEF StoppedQuiet
<1> QED
  BY <1>1, NetInvariant, PTL

\* Receive never stalls with the device up: an event that no interrupt and no poll will deliver
\* came before napi_enable(), and a ring without a buffer is about to be filled.
THEOREM NetRxNeverStarves == Spec => []RxNeverStarves
<1>1. NetInv => RxNeverStarves
  <2> SUFFICES ASSUME NetInv, Serving, napi = "idle", ~irq
               PROVE  /\ ev > 0 => early
                      /\ ~refill /\ (\A c \in Callers : at[c] = "idle") => dl + ev > 0
    BY DEF RxNeverStarves
  <2>0. ControlInv /\ EventInv /\ FillInv /\ NetType /\ Transfers
    BY AccountParts DEF NetInv, Serving, Transfers
  <2>1. ev > 0 => early
    BY <2>0 DEF EventInv, ControlInv
  <2>2. ASSUME ~refill, \A c \in Callers : at[c] = "idle" PROVE dl + ev > 0
    <3>1. dl + ev # 0
      BY <2>0, <2>2 DEF FillInv, WillFill
    <3>2. dl \in Nat /\ ev \in Nat
      BY <2>0, NetConstants DEF NetType, CountType
    <3> QED
      BY <3>1, <3>2
  <2> QED
    BY <2>1, <2>2
<1> QED
  BY <1>1, NetInvariant, PTL

\* A stopped transmit queue waits for a completion that wakes it, or for nobody's packet.
THEOREM NetTxNotStuck == Spec => []TxNotStuck
<1>1. NetInv => TxNotStuck
  BY DEF NetInv, RoomInv, TxNotStuck
<1> QED
  BY <1>1, NetInvariant, PTL
-----------------------------------------------------------------------------
(* Framing.  A frame holds any number of packets, so the sums and the         *)
(* concatenations over it are recursive functions; what is said of them is     *)
(* shown by induction on a set of naturals.                                   *)

\* Every set of naturals that is not empty has a least element.
LEMMA NatMin == ASSUME NEW T \in SUBSET Nat, T # {} PROVE \E x \in T : \A y \in T : x <= y
<1>1. PICK x \in T : \A y \in T : ~ (<<y, x>> \in OpToRel(<, Nat))
  BY WFMin, NatLessThanWellFounded
<1>2. \A y \in T : ~ (y < x)
  BY <1>1 DEF OpToRel
<1>3. \A y \in T : x <= y
  BY <1>2
<1> QED
  BY <1>3

\* Induction, over a set instead of a predicate.
LEMMA NatSet == ASSUME NEW S \in SUBSET Nat, 0 \in S, \A n \in S : n + 1 \in S PROVE S = Nat
<1> SUFFICES ASSUME Nat \ S # {} PROVE FALSE
  OBVIOUS
<1> DEFINE T == Nat \ S
<1>1. PICK x \in T : \A y \in T : x <= y
  BY NatMin
<1>2. x \in Nat /\ x # 0
  OBVIOUS
<1>3. x - 1 \in Nat /\ ~(x <= x - 1) /\ (x - 1) + 1 = x
  BY <1>2
<1>4. x - 1 \in S
  BY <1>1, <1>3
<1> QED
  BY <1>3, <1>4

\* f is the function Total() defines, up to n.
SumRec(f, s, n) == f = [k \in 0..n |-> IF k = 0 THEN 0 ELSE f[k - 1] + s[k]]

\* There is such a function, ...
LEMMA SumExists == ASSUME NEW s, NEW n \in Nat PROVE \E f : SumRec(f, s, n)
<1> DEFINE S == {m \in Nat : \E f : SumRec(f, s, m)}
<1>1. 0 \in S
  <2>1. SumRec([k \in 0..0 |-> 0], s, 0)
    BY DEF SumRec
  <2> QED
    BY <2>1
<1>2. ASSUME NEW m \in S PROVE m + 1 \in S
  <2>1. PICK f : SumRec(f, s, m)
    OBVIOUS
  <2> DEFINE g == [k \in 0..(m + 1) |-> IF k = m + 1 THEN f[m] + s[m + 1] ELSE f[k]]
  <2>2. \A k \in 0..m : f[k] = IF k = 0 THEN 0 ELSE f[k - 1] + s[k]
    BY <2>1 DEF SumRec
  <2>3. ASSUME NEW k \in 0..(m + 1) PROVE g[k] = IF k = 0 THEN 0 ELSE g[k - 1] + s[k]
    <3>1. CASE k = m + 1
      BY <3>1
    <3>2. CASE k # m + 1
      <4>1. k \in 0..m /\ (k # 0 => k - 1 \in 0..m /\ k - 1 # m + 1 /\ k - 1 \in 0..(m + 1))
        BY <3>2
      <4> QED
        BY <2>2, <4>1
    <3> QED
      BY <3>1, <3>2
  <2>4. SumRec(g, s, m + 1)
    BY <2>3 DEF SumRec
  <2> QED
    BY <2>4
<1>3. S = Nat
  <2> HIDE DEF S
  <2>1. S \in SUBSET Nat
    BY DEF S
  <2> QED
    BY <1>1, <1>2, <2>1, NatSet
<1> QED
  BY <1>3

\* ... and this is the one Total() takes.
SumOf(s) == CHOOSE f : SumRec(f, s, Len(s))

\* It satisfies its definition.
LEMMA SumOfDef == ASSUME NEW s, Len(s) \in Nat PROVE SumRec(SumOf(s), s, Len(s))
  BY SumExists DEF SumOf
\* Total() is its value.
LEMMA TotalSum == ASSUME NEW s, NEW k PROVE Total(s, k) = SumOf(s)[k]
  BY Zenon DEF Total, SumOf, SumRec

\* Total() adds up: the empty prefix has size 0, every size is added once.
LEMMA TotalSteps ==
  ASSUME NEW s, Len(s) \in Nat, \A k \in 1..Len(s) : s[k] \in Nat
  PROVE  /\ Total(s, 0) = 0
         /\ \A k \in 1..Len(s) : Total(s, k) = Total(s, k - 1) + s[k]
         /\ \A k \in 0..Len(s) : Total(s, k) \in Nat
<1> DEFINE t == SumOf(s)
<1>1. t = [k \in 0..Len(s) |-> IF k = 0 THEN 0 ELSE t[k - 1] + s[k]]
  BY SumOfDef DEF SumRec
<1> HIDE DEF t
<1>2. t[0] = 0 /\ \A k \in 1..Len(s) : t[k] = t[k - 1] + s[k]
  <2>1. \A k \in 0..Len(s) : t[k] = IF k = 0 THEN 0 ELSE t[k - 1] + s[k]
    BY <1>1
  <2> QED
    BY <2>1
<1> DEFINE S == {k \in Nat : k <= Len(s) => t[k] \in Nat}
<1>3. S = Nat
  <2>1. 0 \in S
    BY <1>2
  <2>2. ASSUME NEW k \in S PROVE k + 1 \in S
    <3> SUFFICES ASSUME k + 1 <= Len(s) PROVE t[k + 1] \in Nat
      OBVIOUS
    <3>1. k + 1 \in 1..Len(s) /\ k <= Len(s) /\ (k + 1) - 1 = k
      OBVIOUS
    <3> QED
      BY <1>2, <3>1
  <2>3. S \in SUBSET Nat
    OBVIOUS
  <2> HIDE DEF S
  <2> QED
    BY <2>1, <2>2, <2>3, NatSet
<1>4. \A k : Total(s, k) = t[k]
  BY TotalSum DEF t
<1>5. ASSUME NEW k \in 0..Len(s) PROVE t[k] \in Nat
  <2>1. k \in S /\ k <= Len(s)
    BY <1>3
  <2> QED
    BY <2>1
<1> HIDE DEF S
<1> QED
  BY <1>2, <1>4, <1>5

\* A longer prefix is not shorter.
LEMMA TotalGrows ==
  ASSUME NEW s, Len(s) \in Nat, \A k \in 1..Len(s) : s[k] \in Nat,
         NEW j \in 0..Len(s), NEW k \in j..Len(s)
  PROVE  Total(s, j) <= Total(s, k)
<1>0. /\ \A m \in 1..Len(s) : Total(s, m) = Total(s, m - 1) + s[m]
      /\ \A m \in 0..Len(s) : Total(s, m) \in Nat
  BY TotalSteps
<1> DEFINE S == {d \in Nat : j + d <= Len(s) => Total(s, j) <= Total(s, j + d)}
<1>1. 0 \in S
  BY <1>0
<1>2. ASSUME NEW d \in S PROVE d + 1 \in S
  <2> SUFFICES ASSUME j + (d + 1) <= Len(s) PROVE Total(s, j) <= Total(s, j + (d + 1))
    OBVIOUS
  <2>1. j + (d + 1) \in 1..Len(s) /\ j + (d + 1) - 1 = j + d /\ j + d \in 0..Len(s) /\ j + d <= Len(s)
    OBVIOUS
  <2>2. Total(s, j) <= Total(s, j + d)
    BY <2>1
  <2>3. Total(s, j + (d + 1)) = Total(s, j + d) + s[j + (d + 1)] /\ s[j + (d + 1)] \in Nat
    BY <1>0, <2>1
  <2> QED
    BY <1>0, <2>1, <2>2, <2>3
<1>3. S \in SUBSET Nat
  OBVIOUS
<1>4. S = Nat
  <2> HIDE DEF S
  <2> QED
    BY <1>1, <1>2, <1>3, NatSet
<1>5. k - j \in Nat /\ j + (k - j) = k /\ k <= Len(s)
  OBVIOUS
<1>6. k - j \in S
  BY <1>4, <1>5
<1>7. j + (k - j) <= Len(s) => Total(s, j) <= Total(s, j + (k - j))
  BY <1>6
<1> HIDE DEF S
<1> QED
  BY <1>5, <1>7

\* f is the function FlattenSeq() defines, up to n.
FlatRec(f, ss, n) == f = [j \in 1..n |-> IF j = 1 THEN ss[j] ELSE f[j - 1] \o ss[j]]

\* There is such a function, ...
LEMMA FlatExists == ASSUME NEW ss, NEW n \in Nat PROVE \E f : FlatRec(f, ss, n)
<1> DEFINE S == {m \in Nat : \E f : FlatRec(f, ss, m)}
<1>1. 0 \in S
  <2>1. FlatRec([k \in 1..0 |-> 0], ss, 0)
    BY DEF FlatRec
  <2> QED
    BY <2>1
<1>2. ASSUME NEW m \in S PROVE m + 1 \in S
  <2>1. PICK f : FlatRec(f, ss, m)
    OBVIOUS
  <2> DEFINE last == IF m = 0 THEN ss[1] ELSE f[m] \o ss[m + 1]
             g == [k \in 1..(m + 1) |-> IF k = m + 1 THEN last ELSE f[k]]
  <2>2. \A k \in 1..m : f[k] = IF k = 1 THEN ss[k] ELSE f[k - 1] \o ss[k]
    BY <2>1 DEF FlatRec
  <2>3. ASSUME NEW k \in 1..(m + 1) PROVE g[k] = IF k = 1 THEN ss[k] ELSE g[k - 1] \o ss[k]
    <3>1. CASE k = m + 1
      BY <3>1
    <3>2. CASE k # m + 1
      <4>1. k \in 1..m /\ (k # 1 => k - 1 \in 1..m /\ k - 1 # m + 1 /\ k - 1 \in 1..(m + 1))
        BY <3>2
      <4>2. g[k] = f[k] /\ (k # 1 => g[k - 1] = f[k - 1])
        BY <3>2, <4>1
      <4> QED
        BY <2>2, <4>1, <4>2
    <3> QED
      BY <3>1, <3>2
  <2>4. FlatRec(g, ss, m + 1)
    BY <2>3 DEF FlatRec
  <2> QED
    BY <2>4
<1>3. S \in SUBSET Nat
  OBVIOUS
<1>4. S = Nat
  <2> HIDE DEF S
  <2> QED
    BY <1>1, <1>2, <1>3, NatSet
<1> QED
  BY <1>4

\* ... and this is the one FlattenSeq() takes.
FlatOf(ss) == CHOOSE f : FlatRec(f, ss, Len(ss))

\* FlattenSeq() puts the sequences one behind the other.
LEMMA FlatSteps ==
  ASSUME NEW ss, Len(ss) \in Nat \ {0}
  PROVE  /\ FlattenSeq(ss) = FlatOf(ss)[Len(ss)]
         /\ \A k \in 1..Len(ss) : FlatOf(ss)[k] = IF k = 1 THEN ss[k] ELSE FlatOf(ss)[k - 1] \o ss[k]
<1>1. FlatRec(FlatOf(ss), ss, Len(ss))
  BY FlatExists DEF FlatOf
<1>2. Len(ss) # 0
  OBVIOUS
<1>3. FlattenSeq(ss) = FlatOf(ss)[Len(ss)]
  BY <1>2, Zenon DEF FlattenSeq, FlatOf, FlatRec
<1> QED
  BY <1>1, <1>3 DEF FlatRec

\* what Deliverable() does with packet k
KeptStep(info, pkts, before, k) ==
  IF pkts[k].ip /\ (info = "MBIM" => Len(before) = k - 1) THEN Append(before, pkts[k]) ELSE before
\* f is the function Deliverable() defines, up to n.
KeptRec(f, info, pkts, n) ==
  f = [k \in 0..n |-> IF k = 0 THEN <<>>
                      ELSE IF pkts[k].ip /\ (info = "MBIM" => Len(f[k - 1]) = k - 1)
                           THEN Append(f[k - 1], pkts[k]) ELSE f[k - 1]]

\* There is such a function, ...
LEMMA KeptExists == ASSUME NEW info, NEW pkts, NEW n \in Nat PROVE \E f : KeptRec(f, info, pkts, n)
<1> DEFINE S == {m \in Nat : \E f : KeptRec(f, info, pkts, m)}
<1>1. 0 \in S
  <2>1. KeptRec([k \in 0..0 |-> <<>>], info, pkts, 0)
    BY DEF KeptRec
  <2> QED
    BY <2>1
<1>2. ASSUME NEW m \in S PROVE m + 1 \in S
  <2>1. PICK f : KeptRec(f, info, pkts, m)
    OBVIOUS
  <2> DEFINE g == [k \in 0..(m + 1) |-> IF k = m + 1 THEN KeptStep(info, pkts, f[m], m + 1) ELSE f[k]]
  <2>2. \A k \in 0..m : f[k] = IF k = 0 THEN <<>> ELSE KeptStep(info, pkts, f[k - 1], k)
    BY <2>1 DEF KeptRec, KeptStep
  <2>3. ASSUME NEW k \in 0..(m + 1) PROVE g[k] = IF k = 0 THEN <<>> ELSE KeptStep(info, pkts, g[k - 1], k)
    <3>1. CASE k = m + 1
      BY <3>1
    <3>2. CASE k # m + 1
      <4>1. k \in 0..m /\ (k # 0 => k - 1 \in 0..m /\ k - 1 # m + 1 /\ k - 1 \in 0..(m + 1))
        BY <3>2
      <4>2. g[k] = f[k] /\ (k # 0 => g[k - 1] = f[k - 1])
        BY <3>2, <4>1
      <4> QED
        BY <2>2, <4>1, <4>2
    <3> QED
      BY <3>1, <3>2
  <2>4. KeptRec(g, info, pkts, m + 1)
    BY <2>3 DEF KeptRec, KeptStep
  <2> QED
    BY <2>4
<1>3. S \in SUBSET Nat
  OBVIOUS
<1>4. S = Nat
  <2> HIDE DEF S
  <2> QED
    BY <1>1, <1>2, <1>3, NatSet
<1> QED
  BY <1>4

\* ... and this is the one Deliverable() takes.
KeptOf(info, pkts) == CHOOSE f : KeptRec(f, info, pkts, Len(pkts))

\* Deliverable() goes over the packets from the first to the last.
LEMMA KeptSteps ==
  ASSUME NEW info, NEW pkts, Len(pkts) \in Nat
  PROVE  /\ Deliverable(info, pkts) = KeptOf(info, pkts)[Len(pkts)]
         /\ KeptOf(info, pkts)[0] = <<>>
         /\ \A k \in 1..Len(pkts) :
              KeptOf(info, pkts)[k] = KeptStep(info, pkts, KeptOf(info, pkts)[k - 1], k)
<1>1. KeptRec(KeptOf(info, pkts), info, pkts, Len(pkts))
  BY KeptExists DEF KeptOf
<1>2. Deliverable(info, pkts) = KeptOf(info, pkts)[Len(pkts)]
  BY Zenon DEF Deliverable, KeptOf, KeptRec
<1> DEFINE f == KeptOf(info, pkts)
<1>3. f = [k \in 0..Len(pkts) |-> IF k = 0 THEN <<>> ELSE KeptStep(info, pkts, f[k - 1], k)]
  BY <1>1 DEF KeptRec, KeptStep
<1> HIDE DEF f
<1>4. \A k \in 0..Len(pkts) : f[k] = IF k = 0 THEN <<>> ELSE KeptStep(info, pkts, f[k - 1], k)
  BY <1>3
<1>5. f[0] = <<>> /\ \A k \in 1..Len(pkts) : f[k] = KeptStep(info, pkts, f[k - 1], k)
  BY <1>4
<1> QED
  BY <1>2, <1>5 DEF f

\* packets of any length and tag
Sized == [len : Nat, tag : Int, ip : BOOLEAN]

\* No packet is an error.
LEMMA PacketNoError == \A p \in Sized : p # Error
<1> SUFFICES ASSUME NEW p \in Sized, p = Error PROVE FALSE
  OBVIOUS
<1>1. "len" \in DOMAIN p
  BY DEF Sized
<1>2. "len" \notin DOMAIN Error
  BY DEF Error
<1> QED
  BY <1>1, <1>2

\* What Deliverable() has kept is packets.
LEMMA KeptType ==
  ASSUME NEW info, NEW pkts \in Seq(Sized)
  PROVE  \A k \in 0..Len(pkts) : KeptOf(info, pkts)[k] \in Seq(Sized)
<1> DEFINE f == KeptOf(info, pkts)
           S == {k \in Nat : k <= Len(pkts) => f[k] \in Seq(Sized)}
<1>0. Len(pkts) \in Nat
  OBVIOUS
<1>1. f[0] = <<>> /\ \A k \in 1..Len(pkts) : f[k] = KeptStep(info, pkts, f[k - 1], k)
  BY KeptSteps
<1> HIDE DEF f
<1>2. 0 \in S
  <2>1. <<>> \in Seq(Sized)
    OBVIOUS
  <2>2. f[0] \in Seq(Sized)
    BY <1>1, <2>1
  <2> QED
    BY <2>2
<1>3. ASSUME NEW k \in S PROVE k + 1 \in S
  <2> SUFFICES ASSUME k + 1 <= Len(pkts) PROVE f[k + 1] \in Seq(Sized)
    OBVIOUS
  <2>1. k + 1 \in 1..Len(pkts) /\ (k + 1) - 1 = k /\ k <= Len(pkts)
    BY <1>0
  <2>2. f[k] \in Seq(Sized) /\ pkts[k + 1] \in Sized
    BY <2>1
  <2>3. f[k + 1] = KeptStep(info, pkts, f[k], k + 1)
    BY <1>1, <2>1
  <2> QED
    BY <2>2, <2>3 DEF KeptStep
<1>4. S \in SUBSET Nat
  OBVIOUS
<1>5. S = Nat
  <2> HIDE DEF S
  <2> QED
    BY <1>2, <1>3, <1>4, NatSet
<1>6. ASSUME NEW k \in 0..Len(pkts) PROVE f[k] \in Seq(Sized)
  <2>1. k \in S /\ k <= Len(pkts)
    BY <1>0, <1>5
  <2> QED
    BY <2>1
<1> QED
  BY <1>6 DEF f

\* Packets without an error are delivered all.
LEMMA NoErrorWhole == ASSUME NEW s \in Seq(Sized) PROVE UpToError(s) = s
<1>1. {k \in 1..Len(s) : s[k] = Error} = {}
  BY PacketNoError
<1> QED
  BY <1>1 DEF UpToError

\* A number below the modulus is its own remainder.
LEMMA SmallMod == ASSUME NEW n \in Nat, NEW m \in Nat, n < m PROVE n % m = n
OBVIOUS

\* A number that fits into 8 or 16 bits is stored as it is.
LEMMA Widths == ASSUME NEW n \in Nat PROVE (n < 256 => U8(n) = n) /\ (n < 65536 => U16(n) = n)
BY SmallMod DEF U8, U16

\* Padding to a multiple of four takes at most three bytes.
LEMMA PadSmall == ASSUME NEW n \in Nat PROVE (4 - (n % 4)) % 4 \in 0..3
<1>1. n % 4 \in 0..3
  OBVIOUS
<1>2. 4 - (n % 4) \in 1..4
  BY <1>1
<1>3. \A m \in 1..4 : m % 4 \in 0..3
  OBVIOUS
<1> QED
  BY <1>2, <1>3

\* The sizes as numbers.
LEMMA MaxLen == RX_MAX - MBIM_HDR = 31716 /\ RX_MAX = 31744 /\ MBIM_HDR = 28
BY DEF RX_MAX, MBIM_HDR, NTH, NDP, DPE

\* a length of data that fits into a frame
SaneLen(l) == 0 < l /\ l <= 31716
\* a session of the protocol
SaneTag(info, t) == t = NoTag \/ IF info = "MBIM" THEN t \in 1..511 ELSE t \in 0..128

\* What a packet of a session consists of.
LEMMA SaneParts ==
  ASSUME NEW info \in Infos, NEW p \in Sane(info)
  PROVE  \E l \in Nat, t \in Int, b \in BOOLEAN : p = Packet(l, t, b) /\ SaneLen(l) /\ SaneTag(info, t)
<1>1. PICK l \in Lens, t \in Tags, b \in BOOLEAN : p = Packet(l, t, b)
  BY DEF Sane, Packets
<1>2. p.len = l /\ p.tag = t /\ p.ip = b
  BY <1>1 DEF Packet
<1>3. l \in 0..(RX_MAX - MBIM_HDR) /\ t \in {NoTag} \cup 0..4095
  BY NetConstants
<1>4. l > 0 /\ IF info = "MBIM" THEN t # 0 /\ t < 512 ELSE t < 129
  BY <1>2 DEF Sane, QMAP_DEFAULT_MUX_ID
<1>6. l \in Nat /\ SaneLen(l) /\ t \in Int
  BY <1>3, <1>4, MaxLen DEF NoTag, SaneLen
<1>7. SaneTag(info, t)
  <2>1. CASE t = NoTag
    BY <2>1 DEF SaneTag
  <2>2. CASE t \in 0..4095
    <3>1. IF info = "MBIM" THEN t \in 1..511 ELSE t \in 0..128
      BY <1>4, <2>2
    <3> QED
      BY <3>1 DEF SaneTag
  <2> QED
    BY <1>3, <2>1, <2>2
<1> QED
  BY <1>1, <1>6, <1>7

\* A packet is one.
LEMMA PacketSized == ASSUME NEW l \in Nat, NEW t \in Int, NEW b \in BOOLEAN PROVE Packet(l, t, b) \in Sized
BY DEF Packet, Sized

\* So are the packets of a session.
LEMMA SaneSized == \A info \in Infos : \A p \in Sane(info) : p \in Sized
BY SaneParts, PacketSized

\* the header of a packet from the modem
QmapOf(version, p) ==
  LET pad == (4 - (p.len % 4)) % 4
  IN  [pad_len |-> pad, next_hdr |-> version = "QMAPV5", cd_bit |-> ~p.ip,
       mux_id |-> IF p.tag = NoTag THEN QMAP_DEFAULT_MUX_ID ELSE U8(p.tag),
       pkt_len |-> U16(p.len + pad), v5 |-> version = "QMAPV5", ip |-> p.ip]

\* the session and the packet a header announces
QmapTag(h) == IF h.mux_id = QMAP_DEFAULT_MUX_ID THEN NoTag ELSE h.mux_id
QmapPacket(h) == Packet(QmapData(h), QmapTag(h), TRUE)

\* the receiver takes the header: the frame holds it and what it announces
QmapTaken(frame, k) ==
  LET h == frame[k]
  IN  /\ ~(QmapLeft(frame, k) <= QMAP_HDR)
      /\ ~(QmapLeft(frame, k) < h.pkt_len + QmapHdrSize(h))
      /\ QmapHdrSize(h) + h.pkt_len = QmapTakes(h)
      /\ h.cd_bit \/ h.ip

\* Then it delivers the packet, or skips the command.
LEMMA QmapUnfolds ==
  ASSUME NEW frame, NEW k, QmapTaken(frame, k)
  PROVE  QmapItem(frame, k) = IF frame[k].cd_bit THEN <<>> ELSE <<QmapPacket(frame[k])>>
BY Zenon DEF QmapItem, QmapTaken, QmapPacket, QmapTag

\* the header h carries the packet p
QmapCarries(h, p) ==
  /\ QmapTakes(h) \in Nat /\ QmapTakes(h) > QMAP_HDR
  /\ QmapHdrSize(h) + h.pkt_len = QmapTakes(h) /\ h.pkt_len + QmapHdrSize(h) = QmapTakes(h)
  /\ h.cd_bit = ~p.ip /\ h.ip = p.ip
  /\ p.ip => QmapPacket(h) = p

\* The header of a packet carries it: neither width nor padding nor session is lost.
LEMMA QmapOfCarries ==
  ASSUME NEW info \in Infos, info # "MBIM", NEW p \in Sane(info)
  PROVE  QmapCarries(QmapOf(info, p), p)
<1> PICK l \in Nat, t \in Int, b \in BOOLEAN : p = Packet(l, t, b) /\ SaneLen(l) /\ SaneTag(info, t)
  BY SaneParts
<1> DEFINE pad == (4 - (l % 4)) % 4
           h == QmapOf(info, p)
<1>1. p.len = l /\ p.tag = t /\ p.ip = b
  BY DEF Packet
<1>2. pad \in 0..3
  BY PadSmall
<1>3. /\ h.pad_len = pad /\ h.next_hdr = (info = "QMAPV5") /\ h.cd_bit = ~b /\ h.ip = b
      /\ h.v5 = (info = "QMAPV5") /\ h.pkt_len = U16(l + pad)
      /\ h.mux_id = IF t = NoTag THEN QMAP_DEFAULT_MUX_ID ELSE U8(t)
  BY <1>1 DEF QmapOf
<1>4. U16(l + pad) = l + pad
  <2> HIDE DEF pad
  <2>1. l + pad \in Nat /\ l + pad < 65536
    BY <1>2 DEF SaneLen
  <2> QED
    BY <2>1, Widths
<1>5. t # NoTag => U8(t) = t /\ t # 129
  BY Widths DEF SaneTag
<1> HIDE DEF h, pad
<1>6. QmapTakes(h) = QmapHdrSize(h) + h.pkt_len /\ h.pkt_len = l + pad
  BY <1>3, <1>4 DEF QmapTakes, QmapHdrSize
<1>7. QmapHdrSize(h) \in {4, 8}
  BY DEF QmapHdrSize, QMAP_HDR, QMAP_V5_HDR
<1>8. QmapTakes(h) \in Nat /\ QmapTakes(h) > QMAP_HDR /\ h.pkt_len + QmapHdrSize(h) = QmapTakes(h)
  BY <1>2, <1>6, <1>7 DEF QMAP_HDR, SaneLen
<1>9. QmapData(h) = l
  BY <1>1, <1>2, <1>3, <1>4 DEF QmapData
<1>10. QmapTag(h) = t
  BY <1>3, <1>5 DEF QMAP_DEFAULT_MUX_ID, QmapTag
<1>11. p.ip => QmapPacket(h) = p
  BY <1>1, <1>9, <1>10 DEF QmapPacket
<1> QED
  BY <1>1, <1>3, <1>6, <1>8, <1>11 DEF h, QmapCarries

\* In front of packet k the frame still holds packet k, whatever its number: the receiver delivers it.
LEMMA QmapItems ==
  ASSUME NEW info \in Infos, info # "MBIM", NEW pkts \in Seq(Sane(info)), NEW k \in 1..Len(pkts)
  PROVE  QmapItem(QmapPeer(info, pkts), k) = IF pkts[k].ip THEN <<pkts[k]>> ELSE <<>>
<1> DEFINE frame == QmapPeer(info, pkts)
           n == Len(pkts)
           p == pkts[k]
           takes == [j \in 1..n |-> QmapTakes(frame[j])]
<1>1. n \in Nat /\ \A j \in 1..n : pkts[j] \in Sane(info)
  OBVIOUS
<1>2. frame = [j \in 1..n |-> QmapOf(info, pkts[j])]
  BY DEF QmapPeer, QmapOf
<1>3. Len(frame) = n /\ \A j \in 1..n : frame[j] = QmapOf(info, pkts[j])
  <2> HIDE DEF n
  <2> QED
    BY <1>1, <1>2
<1> HIDE DEF frame, n
<1>4. Len(takes) = n /\ \A j \in 1..n : takes[j] = QmapTakes(frame[j])
  BY <1>1
<1>5. QmapLeft(frame, k) = Total(takes, n) - Total(takes, k - 1)
  BY <1>3 DEF QmapLeft
<1> HIDE DEF takes
<1>c. \A j \in 1..n : QmapCarries(frame[j], pkts[j])
  BY <1>1, <1>3, QmapOfCarries
<1>6. \A j \in 1..n : takes[j] \in Nat
  BY <1>4, <1>c DEF QmapCarries
<1>7. k \in 1..n /\ n \in 0..n /\ k - 1 \in 0..n /\ k \in 0..n /\ n \in k..n
  BY <1>1 DEF n
<1>8. /\ Total(takes, k) = Total(takes, k - 1) + takes[k]
      /\ Total(takes, n) \in Nat /\ Total(takes, k) \in Nat /\ Total(takes, k - 1) \in Nat
  BY <1>1, <1>4, <1>6, <1>7, TotalSteps
<1>9. Total(takes, k) <= Total(takes, n)
  BY <1>1, <1>4, <1>6, <1>7, TotalGrows
<1>10. QmapLeft(frame, k) >= takes[k] /\ QmapLeft(frame, k) \in Int
  BY <1>5, <1>6, <1>7, <1>8, <1>9
<1> DEFINE h == frame[k]
<1>11. /\ QmapTakes(h) \in Nat /\ QmapTakes(h) > QMAP_HDR /\ takes[k] = QmapTakes(h)
       /\ QmapHdrSize(h) + h.pkt_len = QmapTakes(h) /\ h.pkt_len + QmapHdrSize(h) = QmapTakes(h)
       /\ h.cd_bit = ~p.ip /\ h.ip = p.ip
       /\ p.ip => QmapPacket(h) = p
  BY <1>4, <1>7, <1>c DEF QmapCarries
<1>12. p.ip \in BOOLEAN
  BY <1>1, <1>7, SaneSized DEF Sized
<1> HIDE DEF p
<1>13. QmapTaken(frame, k)
  <2>1. ~ (QmapLeft(frame, k) <= QMAP_HDR) /\ ~ (QmapLeft(frame, k) < QmapTakes(h))
    <3> HIDE DEF h
    <3> QED
      BY <1>10, <1>11 DEF QMAP_HDR
  <2> QED
    BY <1>11, <1>12, <2>1 DEF QmapTaken
<1>14. QmapItem(frame, k) = IF h.cd_bit THEN <<>> ELSE <<QmapPacket(h)>>
  BY <1>13, QmapUnfolds
<1>15. QmapItem(frame, k) = IF p.ip THEN <<p>> ELSE <<>>
  BY <1>11, <1>12, <1>14
<1> QED
  BY <1>15 DEF frame, p

\* Packets of sessions are packets.
LEMMA SaneSeq ==
  ASSUME NEW info \in Infos, NEW pkts \in Seq(Sane(info))
  PROVE  /\ pkts \in Seq(Sized) /\ Len(pkts) \in Nat
         /\ \A k \in 1..Len(pkts) : pkts[k] \in Sane(info) /\ pkts[k] \in Sized
<1>1. Len(pkts) \in Nat /\ \A k \in 1..Len(pkts) : pkts[k] \in Sane(info)
  OBVIOUS
<1>2. \A k \in 1..Len(pkts) : pkts[k] \in Sized
  BY <1>1, SaneSized
<1>3. pkts = [k \in 1..Len(pkts) |-> pkts[k]]
  OBVIOUS
<1> QED
  BY <1>1, <1>2, <1>3

\* f puts the sequences of ss one behind the other
Joins(f, ss, n, T) ==
  /\ Len(ss) = n /\ f[0] = <<>>
  /\ \A k \in 1..n : f[k] = f[k - 1] \o ss[k] /\ ss[k] \in Seq(T)

\* Whatever does so is what FlattenSeq() does.
LEMMA FlatSame ==
  ASSUME NEW T, NEW ss, NEW f, NEW n \in Nat \ {0}, Joins(f, ss, n, T)
  PROVE  FlattenSeq(ss) = f[n]
<1>0. /\ Len(ss) = n /\ f[0] = <<>>
      /\ \A k \in 1..n : f[k] = f[k - 1] \o ss[k] /\ ss[k] \in Seq(T)
  BY DEF Joins
<1> DEFINE g == FlatOf(ss)
           S == {k \in Nat : k + 1 <= n => g[k + 1] = f[k + 1]}
<1>1. FlattenSeq(ss) = g[n] /\ \A k \in 1..n : g[k] = IF k = 1 THEN ss[k] ELSE g[k - 1] \o ss[k]
  BY <1>0, FlatSteps
<1> HIDE DEF g
<1>2. 0 \in S
  <2>1. 1 \in 1..n /\ 1 - 1 = 0
    OBVIOUS
  <2>2. g[1] = ss[1] /\ f[1] = <<>> \o ss[1] /\ ss[1] \in Seq(T)
    BY <1>0, <1>1, <2>1
  <2>3. <<>> \o ss[1] = ss[1]
    BY <2>2
  <2>4. g[0 + 1] = f[0 + 1]
    BY <2>2, <2>3
  <2> QED
    BY <2>4
<1>3. ASSUME NEW k \in S PROVE k + 1 \in S
  <2> SUFFICES ASSUME (k + 1) + 1 <= n PROVE g[(k + 1) + 1] = f[(k + 1) + 1]
    OBVIOUS
  <2> DEFINE m == (k + 1) + 1
  <2>1. m \in 1..n /\ m # 1 /\ m - 1 = k + 1 /\ k + 1 <= n
    OBVIOUS
  <2>2. g[k + 1] = f[k + 1]
    BY <2>1
  <2> HIDE DEF m
  <2>3. g[m] = g[k + 1] \o ss[m] /\ f[m] = f[k + 1] \o ss[m]
    BY <1>0, <1>1, <2>1
  <2>4. g[m] = f[m]
    BY <2>2, <2>3
  <2> QED
    BY <2>4 DEF m
<1>4. S \in SUBSET Nat
  OBVIOUS
<1>5. S = Nat
  <2> HIDE DEF S
  <2> QED
    BY <1>2, <1>3, <1>4, NatSet
<1>6. n - 1 \in Nat /\ (n - 1) + 1 = n /\ (n - 1) + 1 <= n
  OBVIOUS
<1>7. n - 1 \in S
  BY <1>5, <1>6
<1>8. (n - 1) + 1 <= n => g[(n - 1) + 1] = f[(n - 1) + 1]
  BY <1>7
<1> HIDE DEF S
<1> QED
  BY <1>1, <1>6, <1>8

\* Nothing is put behind nothing.
LEMMA FlatEmpty == ASSUME NEW ss, Len(ss) = 0 PROVE FlattenSeq(ss) = ss
BY DEF FlattenSeq

\* A QMAP frame of any number of packets and commands delivers the packets.
LEMMA QmapDelivered ==
  ASSUME NEW info \in Infos, info # "MBIM", NEW pkts \in Seq(Sane(info))
  PROVE  qmi_wwan_rx_fixup(QmapPeer(info, pkts)) = Deliverable(info, pkts)
<1> DEFINE n == Len(pkts)
           frame == QmapPeer(info, pkts)
           items == [k \in 1..Len(frame) |-> QmapItem(frame, k)]
           f == KeptOf(info, pkts)
<1>1. pkts \in Seq(Sized) /\ n \in Nat /\ \A k \in 1..n : pkts[k] \in Sized
  BY SaneSeq
<1>2. Len(frame) = n
  <2>1. frame = [j \in 1..n |-> QmapOf(info, pkts[j])]
    BY DEF QmapPeer, QmapOf
  <2> HIDE DEF n, frame
  <2> QED
    BY <1>1, <2>1
<1>3. Len(items) = n /\ \A k \in 1..n : items[k] = QmapItem(frame, k)
  <2> HIDE DEF frame, n
  <2> QED
    BY <1>1, <1>2
<1>4. \A k \in 1..n : items[k] = IF pkts[k].ip THEN <<pkts[k]>> ELSE <<>>
  <2> HIDE DEF items
  <2> QED
    BY <1>3, QmapItems
<1>5. /\ Deliverable(info, pkts) = f[n] /\ f[0] = <<>>
      /\ \A k \in 1..n : f[k] = KeptStep(info, pkts, f[k - 1], k)
  BY <1>1, KeptSteps
<1>6. \A k \in 0..n : f[k] \in Seq(Sized)
  BY <1>1, KeptType
<1>7. qmi_wwan_rx_fixup(frame) = UpToError(FlattenSeq(items))
  BY DEF qmi_wwan_rx_fixup
<1> HIDE DEF n, frame, items, f
<1>8. ASSUME NEW k \in 1..n PROVE f[k] = f[k - 1] \o items[k] /\ items[k] \in Seq(Sized)
  <2>1. k - 1 \in 0..n
    BY <1>1
  <2>2. f[k - 1] \in Seq(Sized) /\ pkts[k] \in Sized
    BY <1>1, <1>6, <2>1
  <2> DEFINE a == f[k - 1]
             p == pkts[k]
  <2>3. f[k] = IF p.ip THEN Append(a, p) ELSE a
    BY <1>5 DEF KeptStep
  <2>4. items[k] = IF p.ip THEN <<p>> ELSE <<>>
    BY <1>4
  <2> HIDE DEF a, p
  <2>5. a \in Seq(Sized) /\ p \in Sized
    BY <2>2 DEF a, p
  <2>6. Append(a, p) = a \o <<p>> /\ a \o <<>> = a /\ <<p>> \in Seq(Sized) /\ <<>> \in Seq(Sized)
    BY <2>5
  <2>7. f[k] = a \o items[k] /\ items[k] \in Seq(Sized)
    BY <2>3, <2>4, <2>6
  <2> QED
    BY <2>7 DEF a
<1>9. FlattenSeq(items) = f[n]
  <2>1. CASE n = 0
    <3>1. FlattenSeq(items) = items
      BY <1>3, <2>1, FlatEmpty
    <3>2. items = <<>>
      BY <1>2, <2>1 DEF items
    <3> QED
      BY <1>5, <2>1, <3>1, <3>2
  <2>2. CASE n # 0
    <3>1. n \in Nat \ {0} /\ Len(items) = n /\ f[0] = <<>>
      BY <1>1, <1>3, <1>5, <2>2
    <3>2. \A k \in 1..n : f[k] = f[k - 1] \o items[k] /\ items[k] \in Seq(Sized)
      BY <1>8
    <3>3. Joins(f, items, n, Sized)
      BY <3>1, <3>2 DEF Joins
    <3> QED
      BY <3>1, <3>3, FlatSame
  <2> QED
    BY <2>1, <2>2
<1>10. f[n] \in Seq(Sized)
  BY <1>1, <1>6
<1> QED
  BY <1>5, <1>7, <1>9, <1>10, NoErrorWhole DEF frame

\* an NDP with one datagram
Ndp(a, tci, x, l, b) ==
  [at |-> a, wLength |-> NDP + 2 * DPE, sign |-> MbimSign(tci), id |-> U8(tci),
   dpe |-> <<[index |-> x, len |-> l, ip |-> b], [index |-> 0, len |-> 0, ip |-> FALSE]>>]

\* what the receiver takes from an NDP
NdpItems(frame, ndp) ==
  IF NdpRefused(frame, ndp) THEN <<Error>>
  ELSE LET es == MbimEntries(ndp) IN [e \in 1..Len(es) |-> MbimItem(frame, ndp, es[e])]

\* the session of a tag
Session(tci) == IF tci = 0 THEN NoTag ELSE tci

\* The signature of an NDP names the session, with 8 bits of it in the last byte.
LEMMA SessionTag ==
  ASSUME NEW a, NEW tci \in Nat, tci < 512, NEW x, NEW l, NEW b
  PROVE  MbimTag(Ndp(a, tci, x, l, b)) = Session(tci)
<1> DEFINE ndp == Ndp(a, tci, x, l, b)
<1>1. ndp.sign = MbimSign(tci) /\ ndp.id = U8(tci)
  BY DEF Ndp
<1> HIDE DEF ndp
<1>2. CASE tci < 256
  <2>1. ndp.sign = "IPS" /\ ndp.id = tci
    BY <1>1, <1>2, Widths DEF MbimSign
  <2> QED
    BY <2>1 DEF MbimTag, Session, ndp
<1>3. CASE ~(tci < 256)
  <2>1. U8(tci) = tci - 256
    BY <1>3 DEF U8
  <2>2. ndp.sign = "DSS" /\ ndp.id + 256 = tci
    BY <1>1, <1>3, <2>1 DEF MbimSign
  <2> QED
    BY <2>2 DEF MbimTag, Session, ndp
<1> QED
  BY <1>2, <1>3

\* the frame holds the NDP and its datagram
NdpFits(frame, a, tci, x, l, b) ==
  /\ a \in Nat /\ tci \in Nat /\ tci < 512 /\ x \in Nat \ {0} /\ l \in Nat \ {0} /\ b \in BOOLEAN
  /\ frame.len \in Nat /\ a + NDP <= frame.len /\ 16 <= frame.len
  /\ x + l <= frame.len /\ l <= RX_MAX

\* the datagram as the receiver sees it
NdpItem(l, tci, b) == IF b THEN Packet(l, Session(tci), TRUE) ELSE Error

\* Then the datagram is delivered with its session, and the walk stops at what is not IP.
LEMMA NdpDelivers ==
  ASSUME NEW frame, NEW a, NEW tci, NEW x, NEW l, NEW b, NdpFits(frame, a, tci, x, l, b)
  PROVE  NdpItems(frame, Ndp(a, tci, x, l, b)) = <<NdpItem(l, tci, b)>>
<1>0. /\ a \in Nat /\ tci \in Nat /\ tci < 512 /\ x \in Nat \ {0} /\ l \in Nat \ {0} /\ b \in BOOLEAN
      /\ frame.len \in Nat /\ a + NDP <= frame.len /\ 16 <= frame.len
      /\ x + l <= frame.len /\ l <= RX_MAX
  BY DEF NdpFits
<1> DEFINE ndp == Ndp(a, tci, x, l, b)
           d == [index |-> x, len |-> l, ip |-> b]
           z == [index |-> 0, len |-> 0, ip |-> FALSE]
<1>1. ndp.at = a /\ ndp.wLength = 16 /\ ndp.sign = MbimSign(tci) /\ ndp.dpe = <<d, z>>
  <2>1. NDP + 2 * DPE = 16
    BY DEF NDP, DPE
  <2> QED
    BY <2>1, Zenon DEF Ndp
<1>2. d.index = x /\ d.len = l /\ d.ip = b /\ z.index = 0
  OBVIOUS
<1>t. MbimTag(ndp) = Session(tci)
  BY <1>0, SessionTag
<1> HIDE DEF ndp, d, z
<1>n. (ndp.wLength - NDP) \div DPE = 2
  BY <1>1 DEF NDP, DPE
<1>3. ~NdpRefused(frame, ndp)
  <2>1. ~(frame.len < ndp.at + NDP) /\ ~(ndp.wLength < 16)
    BY <1>0, <1>1 DEF NDP
  <2>2. ~(frame.len < NDP + 2 * DPE)
    BY <1>0 DEF NDP, DPE
  <2>3. ndp.sign \in {"IPS", "DSS"}
    BY <1>1 DEF MbimSign
  <2> QED
    BY <1>n, <2>1, <2>2, <2>3 DEF NdpRefused
<1>4. MbimEntries(ndp) = <<d>>
  <2> DEFINE empty == {k \in 1..2 : ndp.dpe[k].index = 0 \/ ndp.dpe[k].len = 0}
  <2>1. ndp.dpe[1] = d /\ ndp.dpe[2] = z
    BY <1>1
  <2>2. empty = {2}
    BY <1>0, <1>2, <2>1
  <2>3. (CHOOSE k \in empty : \A j \in empty : k <= j) = 2
    BY <2>2
  <2>4. MbimEntries(ndp) = SubSeq(ndp.dpe, 1, 2 - 1)
    <3> HIDE DEF empty
    <3>1. MbimEntries(ndp) = SubSeq(ndp.dpe, 1, (CHOOSE k \in empty : \A j \in empty : k <= j) - 1)
      BY <1>n, <2>2 DEF MbimEntries, empty
    <3> QED
      BY <2>3, <3>1
  <2>5. SubSeq(<<d, z>>, 1, 1) = <<d>>
    <3>1. <<d, z>> \in Seq({d, z}) /\ Len(<<d, z>>) = 2
      OBVIOUS
    <3>2. \A k \in 1..1 : <<d, z>>[k] \in {d, z}
      OBVIOUS
    <3> DEFINE t == SubSeq(<<d, z>>, 1, 1)
    <3>3. t \in Seq({d, z}) /\ Len(t) = 1 /\ t[1] = d
      BY <3>1, <3>2, SubSeqProperties
    <3> HIDE DEF t
    <3>4. t = <<d>>
      BY <3>3
    <3> QED
      BY <3>4 DEF t
  <2> QED
    BY <1>1, <2>4, <2>5
<1>5. MbimItem(frame, ndp, d) = NdpItem(l, tci, b)
  <2>1. ~(d.index + d.len > frame.len) /\ ~(d.len > RX_MAX)
    BY <1>0, <1>2, MaxLen
  <2> QED
    BY <1>0, <1>2, <1>t, <2>1 DEF MbimItem, NdpItem
<1>6. NdpItems(frame, ndp) = <<MbimItem(frame, ndp, d)>>
  <2>1. NdpItems(frame, ndp) = [e \in 1..Len(<<d>>) |-> MbimItem(frame, ndp, <<d>>[e])]
    BY <1>3, <1>4 DEF NdpItems
  <2>2. [e \in 1..Len(<<d>>) |-> MbimItem(frame, ndp, <<d>>[e])] = <<MbimItem(frame, ndp, d)>>
    OBVIOUS
  <2> QED
    BY <2>1, <2>2
<1> QED
  BY <1>5, <1>6 DEF ndp

\* the first m elements
Pre(s, m) == [j \in 1..m |-> s[j]]

\* A prefix and the one that is longer by one.
LEMMA PreGrows ==
  ASSUME NEW T, NEW s, NEW m \in Nat, \A j \in 1..(m + 1) : s[j] \in T
  PROVE  /\ Pre(s, m) \in Seq(T) /\ Len(Pre(s, m)) = m
         /\ Pre(s, m + 1) = Append(Pre(s, m), s[m + 1])
<1> DEFINE a == Pre(s, m)
           c == Pre(s, m + 1)
<1>1. a = [j \in 1..m |-> s[j]] /\ c = [j \in 1..(m + 1) |-> s[j]]
  BY DEF Pre
<1>2. \A j \in 1..m : s[j] \in T
  OBVIOUS
<1>3. a \in Seq(T) /\ Len(a) = m /\ \A j \in 1..m : a[j] = s[j]
  BY <1>1, <1>2
<1>4. c \in Seq(T) /\ Len(c) = m + 1 /\ \A j \in 1..(m + 1) : c[j] = s[j]
  BY <1>1
<1>5. m + 1 \in 1..(m + 1)
  OBVIOUS
<1> HIDE DEF a, c
<1>6. c = Append(a, s[m + 1])
  BY <1>3, <1>4, <1>5
<1> QED
  BY <1>3, <1>6 DEF a, c

\* b is the first packet that is not IP, or one more than there are
FirstBad(pkts, b) ==
  /\ b \in Nat /\ 1 <= b /\ b <= Len(pkts) + 1
  /\ \A j \in 1..(b - 1) : pkts[j].ip
  /\ b <= Len(pkts) => ~pkts[b].ip

\* For MBIM, Deliverable() keeps what is in front of it.
LEMMA MbimKept ==
  ASSUME NEW pkts \in Seq(Sized), NEW b, FirstBad(pkts, b)
  PROVE  Deliverable("MBIM", pkts) = Pre(pkts, b - 1)
<1> DEFINE n == Len(pkts)
           f == KeptOf("MBIM", pkts)
           Lim(k) == IF k < b THEN k ELSE b - 1
           S == {k \in Nat : k <= n => f[k] = Pre(pkts, Lim(k))}
<1>0. n \in Nat /\ \A k \in 1..n : pkts[k] \in Sized
  OBVIOUS
<1>b. b \in Nat /\ 1 <= b /\ b <= n + 1
  BY DEF FirstBad
<1>1. /\ Deliverable("MBIM", pkts) = f[n] /\ f[0] = <<>>
      /\ \A k \in 1..n : f[k] = KeptStep("MBIM", pkts, f[k - 1], k)
  BY KeptSteps
<1> HIDE DEF n, f
<1>2. 0 \in S
  <2>1. Lim(0) = 0 /\ Pre(pkts, 0) = <<>>
    BY <1>b DEF Pre
  <2> QED
    BY <1>1, <2>1
<1>3. ASSUME NEW k \in S PROVE k + 1 \in S
  <2> SUFFICES ASSUME k + 1 <= n PROVE f[k + 1] = Pre(pkts, Lim(k + 1))
    OBVIOUS
  <2>1. k \in Nat /\ k + 1 \in 1..n /\ (k + 1) - 1 = k /\ k <= n
    BY <1>0
  <2>2. f[k] = Pre(pkts, Lim(k))
    BY <2>1
  <2>3. f[k + 1] = IF pkts[k + 1].ip /\ Len(f[k]) = k THEN Append(f[k], pkts[k + 1]) ELSE f[k]
    BY <1>1, <2>1 DEF KeptStep
  <2>4. Lim(k) \in Nat /\ Lim(k) <= k /\ Lim(k) + 1 <= n
    BY <1>0, <1>b, <2>1
  <2>5. \A j \in 1..(Lim(k) + 1) : pkts[j] \in Sized
    <3> HIDE DEF Lim
    <3> QED
      BY <1>0, <2>1, <2>4
  <2>6. Len(f[k]) = Lim(k) /\ Pre(pkts, Lim(k) + 1) = Append(f[k], pkts[Lim(k) + 1])
    <3> HIDE DEF Lim
    <3> QED
      BY <2>2, <2>4, <2>5, PreGrows
  <2>7. CASE k + 1 < b
    <3>1. Lim(k) = k /\ Lim(k + 1) = k + 1 /\ k + 1 \in 1..(b - 1)
      BY <1>b, <2>1, <2>7
    <3>2. pkts[k + 1].ip
      BY <3>1 DEF FirstBad
    <3> QED
      BY <2>3, <2>6, <3>1, <3>2
  <2>8. CASE k + 1 = b
    <3>1. Lim(k) = k /\ Lim(k + 1) = k
      BY <1>b, <2>1, <2>8
    <3>2. ~pkts[k + 1].ip
      BY <2>1, <2>8 DEF FirstBad, n
    <3> QED
      BY <2>2, <2>3, <3>1, <3>2
  <2>9. CASE k + 1 > b
    <3>1. Lim(k) = b - 1 /\ Lim(k + 1) = b - 1 /\ b - 1 # k
      BY <1>b, <2>1, <2>9
    <3> QED
      BY <2>2, <2>3, <2>6, <3>1
  <2> QED
    BY <1>b, <2>1, <2>7, <2>8, <2>9
<1>4. S \in SUBSET Nat
  OBVIOUS
<1>5. S = Nat
  <2> HIDE DEF S
  <2> QED
    BY <1>2, <1>3, <1>4, NatSet
<1>6. n \in S /\ Lim(n) = b - 1
  BY <1>0, <1>5, <1>b
<1>7. f[n] = Pre(pkts, Lim(n))
  BY <1>6, <1>0
<1> HIDE DEF S, Lim
<1> QED
  BY <1>1, <1>6, <1>7

\* There is a first one.
LEMMA FirstBadExists == ASSUME NEW pkts, Len(pkts) \in Nat PROVE \E b : FirstBad(pkts, b)
<1> DEFINE T == {k \in Nat : 1 <= k /\ k <= Len(pkts) + 1 /\ (k <= Len(pkts) => ~pkts[k].ip)}
<1>1. Len(pkts) + 1 \in T
  OBVIOUS
<1>2. PICK b \in T : \A y \in T : b <= y
  BY <1>1, NatMin
<1>3. ASSUME NEW j \in 1..(b - 1), ~pkts[j].ip PROVE FALSE
  <2>1. j \in T /\ ~(b <= j)
    BY <1>3
  <2> QED
    BY <1>2, <2>1
<1> QED
  BY <1>2, <1>3 DEF FirstBad

\* what the walk over the NDPs finds
MbimWalk(pkts) == [k \in 1..Len(pkts) |-> IF pkts[k].ip THEN pkts[k] ELSE Error]

\* The receiver delivers what is in front of the first error.
LEMMA WalkStops ==
  ASSUME NEW pkts \in Seq(Sized), NEW b, FirstBad(pkts, b)
  PROVE  UpToError(MbimWalk(pkts)) = Pre(pkts, b - 1)
<1> DEFINE n == Len(pkts)
           xs == MbimWalk(pkts)
           bad == {k \in 1..Len(xs) : xs[k] = Error}
<1>0. n \in Nat /\ \A k \in 1..n : pkts[k] \in Sized /\ pkts[k] # Error
  BY PacketNoError
<1>1. xs = [k \in 1..n |-> IF pkts[k].ip THEN pkts[k] ELSE Error]
  BY DEF MbimWalk
<1> HIDE DEF n, xs
<1>2. Len(xs) = n /\ \A k \in 1..n : xs[k] = IF pkts[k].ip THEN pkts[k] ELSE Error
  BY <1>0, <1>1
<1>3. \A k \in 1..n : k \in bad <=> ~pkts[k].ip
  BY <1>0, <1>2
<1>4. b \in Nat /\ 1 <= b /\ b <= n + 1 /\ (\A j \in 1..(b - 1) : pkts[j].ip) /\ (b <= n => ~pkts[b].ip)
  BY DEF FirstBad, n
<1>5. \A k \in bad : k \in 1..n /\ b <= k
  <2>1. \A k \in bad : k \in 1..n
    BY <1>2
  <2>2. ASSUME NEW k \in bad, ~(b <= k) PROVE FALSE
    <3>1. k \in 1..n /\ k \in 1..(b - 1)
      BY <1>0, <1>4, <2>1, <2>2
    <3> QED
      BY <1>3, <1>4, <2>2, <3>1
  <2> QED
    BY <2>1, <2>2
<1>6. \A j \in 1..(b - 1) : j \in 1..n /\ xs[j] = pkts[j]
  BY <1>0, <1>2, <1>4
<1>7. CASE b = n + 1
  <2>1. bad = {}
    BY <1>0, <1>5, <1>7
  <2>2. UpToError(xs) = xs
    BY <2>1 DEF UpToError
  <2>3. xs = Pre(pkts, n)
    <3>1. b - 1 = n
      BY <1>0, <1>7
    <3>2. \A j \in 1..n : xs[j] = pkts[j]
      BY <1>6, <3>1
    <3>3. xs = [j \in 1..n |-> xs[j]]
      BY <1>1
    <3> QED
      BY <3>2, <3>3 DEF Pre
  <2> QED
    BY <1>0, <1>7, <2>2, <2>3 DEF xs
<1>8. CASE b <= n
  <2>1. b \in bad
    BY <1>3, <1>4, <1>8
  <2>2. (CHOOSE k \in bad : \A j \in bad : k <= j) = b
    <3> HIDE DEF bad
    <3>1. \A k \in bad : (\A j \in bad : k <= j) => k = b
      BY <1>0, <1>4, <1>5, <2>1
    <3> QED
      BY <1>5, <2>1, <3>1
  <2>3. UpToError(xs) = SubSeq(xs, 1, b - 1)
    <3>1. bad # {}
      BY <2>1
    <3>2. UpToError(xs) = SubSeq(xs, 1, (CHOOSE k \in bad : \A j \in bad : k <= j) - 1)
      BY <3>1, Zenon DEF UpToError
    <3> QED
      BY <2>2, <3>2
  <2>4. SubSeq(xs, 1, b - 1) = Pre(pkts, b - 1)
    <3> DEFINE t == SubSeq(xs, 1, b - 1)
    <3>1. \A j \in 1..(b - 1) : xs[j] \in Sized
      BY <1>0, <1>6
    <3>2. t \in Seq(Sized) /\ Len(t) = b - 1 /\ \A j \in 1..(b - 1) : t[j] = xs[j]
      BY <1>4, <3>1, SubSeqProperties
    <3> HIDE DEF t
    <3>3. t = [j \in 1..(b - 1) |-> t[j]]
      BY <3>2
    <3> QED
      BY <1>6, <3>2, <3>3 DEF Pre, t
  <2> QED
    BY <2>3, <2>4 DEF xs
<1> QED
  BY <1>0, <1>4, <1>7, <1>8

\* the tag of a packet as tx_fixup() and the modem take it
MbimTci(p) == IF p.tag = NoTag THEN 0 ELSE p.tag

\* The walk puts the datagrams of the NDPs one behind the other.
LEMMA MbimFlat ==
  ASSUME NEW pkts \in Seq(Sized), Len(pkts) # 0,
         NEW ss, Len(ss) = Len(pkts),
         \A k \in 1..Len(pkts) : ss[k] = <<IF pkts[k].ip THEN pkts[k] ELSE Error>>
  PROVE  FlattenSeq(ss) = MbimWalk(pkts)
<1> DEFINE n == Len(pkts)
           xs == MbimWalk(pkts)
           T == Sized \cup {Error}
           f == [k \in 0..n |-> Pre(xs, k)]
<1>0. n \in Nat \ {0} /\ \A k \in 1..n : pkts[k] \in Sized
  OBVIOUS
<1>1. xs = [k \in 1..n |-> IF pkts[k].ip THEN pkts[k] ELSE Error]
  BY DEF MbimWalk
<1> HIDE DEF n, xs
<1>2. \A k \in 1..n : xs[k] \in T /\ ss[k] = <<xs[k]>>
  BY <1>0, <1>1 DEF n
<1> HIDE DEF T
<1>3. ASSUME NEW k \in 1..n PROVE f[k] = f[k - 1] \o ss[k] /\ ss[k] \in Seq(T)
  <2>1. k - 1 \in Nat /\ (k - 1) + 1 = k /\ k - 1 \in 0..n /\ k \in 0..n
    BY <1>0
  <2>2. f[k] = Pre(xs, k) /\ f[k - 1] = Pre(xs, k - 1)
    BY <2>1
  <2>3. \A j \in 1..((k - 1) + 1) : xs[j] \in T
    BY <1>0, <1>2, <2>1
  <2>4. Pre(xs, k - 1) \in Seq(T) /\ Pre(xs, k) = Append(Pre(xs, k - 1), xs[k])
    BY <2>1, <2>3, PreGrows
  <2>5. ss[k] = <<xs[k]>> /\ xs[k] \in T
    BY <1>2
  <2> DEFINE a == Pre(xs, k - 1)
             x == xs[k]
  <2> HIDE DEF a, x, f
  <2>6. a \in Seq(T) /\ x \in T
    BY <2>4, <2>5 DEF a, x
  <2>7. Append(a, x) = a \o <<x>> /\ <<x>> \in Seq(T)
    BY <2>6
  <2> QED
    BY <2>2, <2>4, <2>5, <2>7 DEF a, x
<1>4. f[0] = <<>> /\ f[n] = Pre(xs, n)
  BY <1>0 DEF Pre
<1> HIDE DEF f
<1>5. Joins(f, ss, n, T)
  BY <1>3, <1>4 DEF Joins, n
<1>6. FlattenSeq(ss) = f[n]
  BY <1>0, <1>5, FlatSame
<1>7. Pre(xs, n) = xs
  BY <1>1 DEF Pre
<1> QED
  BY <1>4, <1>6, <1>7 DEF xs

\* A frame with a valid header is walked.
LEMMA MbimUnfolds ==
  ASSUME NEW frame, ~rx_keeps("MBIM", frame), frame.signed, ~(frame.wBlockLength > RX_MAX)
  PROVE  cdc_mbim_rx_fixup(frame) =
           UpToError(FlattenSeq([k \in 1..Len(frame.ndps) |-> NdpItems(frame, frame.ndps[k])]))
BY Zenon DEF cdc_mbim_rx_fixup, NdpItems

\* An MBIM frame of any number of NDPs delivers the packets up to the first that is not IP.
LEMMA MbimDelivered ==
  ASSUME NEW pkts \in Seq(Sane("MBIM")), MbimPeer(pkts).len <= RX_MAX
  PROVE  cdc_mbim_rx_fixup(MbimPeer(pkts)) = Deliverable("MBIM", pkts)
<1> DEFINE n == Len(pkts)
           frame == MbimPeer(pkts)
           hdrs == NTH + n * (NDP + 2 * DPE)
           lens == [j \in 1..n |-> pkts[j].len]
<1>i. "MBIM" \in Infos
  BY DEF Infos
<1>1. pkts \in Seq(Sized) /\ n \in Nat /\ \A k \in 1..n : pkts[k] \in Sane("MBIM") /\ pkts[k] \in Sized
  BY <1>i, SaneSeq
<1>2. /\ frame.len = hdrs + Bytes(pkts, n) /\ frame.signed /\ frame.wBlockLength = U16(hdrs + Bytes(pkts, n))
      /\ frame.ndps = [k \in 1..n |->
           Ndp(NTH + (k - 1) * (NDP + 2 * DPE), MbimTci(pkts[k]), hdrs + Bytes(pkts, k - 1),
               pkts[k].len, pkts[k].ip)]
  BY Zenon DEF MbimPeer, Ndp, MbimTci
<1>3. \A k : Bytes(pkts, k) = Total(lens, k)
  BY DEF Bytes
<1>h. hdrs = 12 + n * 16
  BY <1>1 DEF NTH, NDP, DPE
<1> HIDE DEF n, frame, hdrs
<1>4. Len(lens) = n /\ \A k \in 1..n : lens[k] = pkts[k].len /\ lens[k] \in Nat
  BY <1>1 DEF Sized
<1> HIDE DEF lens
<1>5. /\ Bytes(pkts, 0) = 0 /\ \A k \in 1..n : Bytes(pkts, k) = Bytes(pkts, k - 1) + pkts[k].len
      /\ \A k \in 0..n : Bytes(pkts, k) \in Nat
  <2>1. /\ Total(lens, 0) = 0 /\ \A k \in 1..n : Total(lens, k) = Total(lens, k - 1) + lens[k]
        /\ \A k \in 0..n : Total(lens, k) \in Nat
    BY <1>1, <1>4, TotalSteps
  <2> QED
    BY <1>3, <1>4, <2>1
<1>6. \A k \in 0..n : Bytes(pkts, k) <= Bytes(pkts, n)
  <2> SUFFICES ASSUME NEW k \in 0..n PROVE Total(lens, k) <= Total(lens, n)
    BY <1>3
  <2>1. n \in k..n
    BY <1>1
  <2> QED
    BY <1>1, <1>4, <2>1, TotalGrows
<1>7. hdrs \in Nat /\ frame.len \in Nat /\ frame.len <= 31744
  BY <1>1, <1>2, <1>5, <1>h, MaxLen DEF frame
<1>8. CASE n = 0
  <2>1. rx_keeps("MBIM", frame)
    BY <1>2, <1>5, <1>8, <1>h DEF rx_keeps, NTH, NDP
  <2>2. cdc_mbim_rx_fixup(frame) = <<>>
    BY <2>1 DEF cdc_mbim_rx_fixup
  <2>3. Deliverable("MBIM", pkts) = <<>>
    BY <1>1, <1>8, KeptSteps DEF n
  <2> QED
    BY <2>2, <2>3 DEF frame
<1>9. CASE n # 0
  <2>1. hdrs >= 28 /\ frame.len >= hdrs
    BY <1>1, <1>2, <1>5, <1>9, <1>h
  <2>2. ~rx_keeps("MBIM", frame) /\ frame.signed /\ ~(frame.wBlockLength > RX_MAX)
    <3>1. ~(frame.len < NTH + NDP)
      BY <1>7, <2>1 DEF NTH, NDP
    <3>2. frame.wBlockLength = frame.len
      BY <1>2, <1>7, Widths
    <3> QED
      BY <1>2, <1>7, <3>1, <3>2, MaxLen DEF rx_keeps
  <2> DEFINE ss == [k \in 1..Len(frame.ndps) |-> NdpItems(frame, frame.ndps[k])]
  <2>3. Len(frame.ndps) = n
    BY <1>1, <1>2
  <2>4. Len(ss) = n /\ \A k \in 1..n : ss[k] = NdpItems(frame, frame.ndps[k])
    BY <1>1, <2>3
  <2>5. ASSUME NEW k \in 1..n PROVE ss[k] = <<IF pkts[k].ip THEN pkts[k] ELSE Error>>
    <3> PICK l \in Nat, t \in Int, b \in BOOLEAN : pkts[k] = Packet(l, t, b) /\ SaneLen(l) /\ SaneTag("MBIM", t)
      BY <1>1, <1>i, SaneParts
    <3> DEFINE a == NTH + (k - 1) * (NDP + 2 * DPE)
               tci == MbimTci(pkts[k])
               x == hdrs + Bytes(pkts, k - 1)
    <3>1. pkts[k].len = l /\ pkts[k].tag = t /\ pkts[k].ip = b
      BY DEF Packet
    <3>2. frame.ndps[k] = Ndp(a, tci, x, l, b)
      BY <1>2, <3>1
    <3>3. tci \in Nat /\ tci < 512 /\ Session(tci) = t
      BY <3>1 DEF MbimTci, SaneTag, Session, NoTag
    <3>4. a = 12 + (k - 1) * 16 /\ a \in Nat /\ a + NDP <= hdrs
      BY <1>1, <1>h DEF NTH, NDP, DPE
    <3>5. k \in 0..n /\ k - 1 \in 0..n
      BY <1>1
    <3>6. x \in Nat \ {0} /\ x + l <= frame.len
      <4>1. /\ Bytes(pkts, k) = Bytes(pkts, k - 1) + l /\ Bytes(pkts, k) <= Bytes(pkts, n)
            /\ Bytes(pkts, k - 1) \in Nat /\ Bytes(pkts, n) \in Nat
        BY <1>1, <1>5, <1>6, <3>1, <3>5
      <4> QED
        BY <1>2, <1>7, <2>1, <4>1
    <3> HIDE DEF a, tci, x
    <3>7. l \in Nat \ {0} /\ l <= RX_MAX
      BY MaxLen DEF SaneLen
    <3>8. a + NDP <= frame.len /\ 16 <= frame.len
      BY <1>7, <2>1, <3>4 DEF NDP
    <3>9. NdpItems(frame, Ndp(a, tci, x, l, b)) = <<NdpItem(l, tci, b)>>
      <4>1. NdpFits(frame, a, tci, x, l, b)
        BY <1>7, <3>3, <3>4, <3>6, <3>7, <3>8 DEF NdpFits
      <4> QED
        BY <4>1, NdpDelivers
    <3>10. b => Packet(l, Session(tci), TRUE) = pkts[k]
      BY <3>3
    <3> QED
      BY <2>4, <3>1, <3>2, <3>9, <3>10 DEF NdpItem
  <2> HIDE DEF ss
  <2>6. FlattenSeq(ss) = MbimWalk(pkts)
    BY <1>1, <1>9, <2>4, <2>5, MbimFlat DEF n
  <2>7. cdc_mbim_rx_fixup(frame) = UpToError(MbimWalk(pkts))
    BY <2>2, <2>6, MbimUnfolds DEF ss
  <2>8. PICK b : FirstBad(pkts, b)
    BY <1>1, FirstBadExists DEF n
  <2> QED
    BY <1>1, <2>7, <2>8, WalkStops, MbimKept DEF frame
<1> QED
  BY <1>8, <1>9

\* A single sequence is put behind nothing.
LEMMA FlatOne == ASSUME NEW x PROVE FlattenSeq(<<x>>) = x
<1>1. Len(<<x>>) = 1 /\ <<x>>[1] = x
  OBVIOUS
<1> DEFINE s == <<x>>
<1> HIDE DEF s
<1>2. Len(s) = 1 /\ s[1] = x
  BY <1>1 DEF s
<1>3. FlattenSeq(s) = FlatOf(s)[1] /\ FlatOf(s)[1] = s[1]
  <2>1. Len(s) \in Nat \ {0} /\ 1 \in 1..Len(s)
    BY <1>2
  <2>2. /\ FlattenSeq(s) = FlatOf(s)[Len(s)]
        /\ \A k \in 1..Len(s) : FlatOf(s)[k] = IF k = 1 THEN s[k] ELSE FlatOf(s)[k - 1] \o s[k]
    BY <2>1, FlatSteps
  <2> QED
    BY <1>2, <2>1, <2>2
<1> QED
  BY <1>2, <1>3 DEF s

\* A single packet is delivered.
LEMMA OneWhole == ASSUME NEW p \in Sized PROVE UpToError(<<p>>) = <<p>>
<1>1. <<p>> \in Seq(Sized)
  OBVIOUS
<1> QED
  BY <1>1, NoErrorWhole

\* What a packet from the network stack consists of.
LEMMA SkbParts ==
  ASSUME NEW skb \in Skbs
  PROVE  \E l \in Nat, t \in Int, b \in BOOLEAN, r \in BOOLEAN :
           /\ skb = [len |-> l, tag |-> t, ip |-> b, room |-> r] /\ l <= 31716
           /\ t = NoTag \/ t \in Nat
<1>1. PICK p \in Packets, r \in BOOLEAN : skb = [len |-> p.len, tag |-> p.tag, ip |-> p.ip, room |-> r]
  BY DEF Skbs
<1>2. PICK l \in Lens, t \in Tags, b \in BOOLEAN : p = Packet(l, t, b)
  BY DEF Packets
<1>3. p.len = l /\ p.tag = t /\ p.ip = b
  BY <1>2 DEF Packet
<1>4. l \in 0..(RX_MAX - MBIM_HDR) /\ t \in {NoTag} \cup 0..4095
  BY NetConstants
<1>5. l \in Nat /\ l <= 31716 /\ t \in Int /\ (t = NoTag \/ t \in Nat)
  BY <1>4, MaxLen DEF NoTag
<1> QED
  BY <1>1, <1>3, <1>5

\* What cdc_mbim_tx_fixup() sends, cdc_mbim_rx_fixup() delivers.
LEMMA MbimTrip ==
  ASSUME NEW skb \in Skbs, ~cdc_mbim_tx_refuses(skb)
  PROVE  cdc_mbim_rx_fixup(cdc_mbim_tx_fixup(skb)) = <<Received("MBIM", skb)>>
<1> PICK l \in Nat, t \in Int, b \in BOOLEAN, r \in BOOLEAN :
           /\ skb = [len |-> l, tag |-> t, ip |-> b, room |-> r] /\ l <= 31716
           /\ t = NoTag \/ t \in Nat
  BY SkbParts
<1> DEFINE tci == MbimTci(skb)
           frame == cdc_mbim_tx_fixup(skb)
<1>1. skb.len = l /\ skb.tag = t /\ skb.ip = b
  OBVIOUS
<1>2. l # 0 /\ b /\ ~(t >= 512)
  BY <1>1 DEF cdc_mbim_tx_refuses
<1>3. tci \in Nat /\ tci < 512 /\ tci = IF t = NoTag THEN 0 ELSE t
  BY <1>1, <1>2 DEF MbimTci, NoTag
<1>4. /\ frame.len = MBIM_HDR + l /\ frame.signed /\ frame.wBlockLength = U16(MBIM_HDR + l)
      /\ frame.ndps = <<Ndp(NTH, tci, MBIM_HDR, U16(l), b)>>
  <2>1. skb.tag = t /\ skb.len = l /\ skb.ip = b
    BY <1>1
  <2> HIDE DEF tci
  <2>2. frame = [len |-> MBIM_HDR + l, signed |-> TRUE, wBlockLength |-> U16(MBIM_HDR + l),
                 ndps |-> <<Ndp(NTH, tci, MBIM_HDR, U16(l), b)>>]
    BY <1>1 DEF cdc_mbim_tx_fixup, Ndp, MbimTci, tci
  <2> QED
    BY <2>2
<1> HIDE DEF tci, frame
<1>5. MBIM_HDR + l \in Nat /\ MBIM_HDR + l < 65536 /\ MBIM_HDR + l <= RX_MAX /\ l < 65536
  BY MaxLen
<1>6. U16(l) = l /\ U16(MBIM_HDR + l) = MBIM_HDR + l
  BY <1>5, Widths
<1>7. ~rx_keeps("MBIM", frame) /\ frame.signed /\ ~(frame.wBlockLength > RX_MAX)
  <2>1. ~(frame.len < NTH + NDP)
    BY <1>4, MaxLen DEF NTH, NDP
  <2> QED
    BY <1>4, <1>5, <1>6, <2>1, MaxLen DEF rx_keeps
<1>8. NdpFits(frame, NTH, tci, MBIM_HDR, l, b)
  BY <1>2, <1>3, <1>4, MaxLen DEF NdpFits, NTH, NDP
<1>9. NdpItems(frame, Ndp(NTH, tci, MBIM_HDR, l, b)) = <<Packet(l, Session(tci), TRUE)>>
  <2>1. NdpItems(frame, Ndp(NTH, tci, MBIM_HDR, l, b)) = <<NdpItem(l, tci, b)>>
    BY <1>8, NdpDelivers
  <2>2. NdpItem(l, tci, b) = Packet(l, Session(tci), TRUE)
    BY <1>2 DEF NdpItem
  <2> QED
    BY <2>1, <2>2
<1> DEFINE p == Packet(l, Session(tci), TRUE)
<1>10. [k \in 1..Len(frame.ndps) |-> NdpItems(frame, frame.ndps[k])] = << <<p>> >>
  <2> DEFINE d == Ndp(NTH, tci, MBIM_HDR, l, b)
  <2>1. frame.ndps = <<d>> /\ NdpItems(frame, d) = <<p>>
    BY <1>4, <1>6, <1>9
  <2> HIDE DEF d, p
  <2>2. [k \in 1..Len(<<d>>) |-> NdpItems(frame, <<d>>[k])] = <<NdpItems(frame, d)>>
    OBVIOUS
  <2> QED
    BY <2>1, <2>2
<1>11. cdc_mbim_rx_fixup(frame) = UpToError(<<p>>)
  <2> HIDE DEF p
  <2> QED
    <3>1. cdc_mbim_rx_fixup(frame) =
            UpToError(FlattenSeq([k \in 1..Len(frame.ndps) |-> NdpItems(frame, frame.ndps[k])]))
      BY <1>7, MbimUnfolds
    <3> QED
      BY <1>10, <3>1, FlatOne
<1>12. p \in Sized
  BY <1>3 DEF Packet, Sized, Session, NoTag
<1>13. p = Received("MBIM", skb)
  <2>1. Session(tci) = IF skb.tag = 0 THEN NoTag ELSE skb.tag
    BY <1>1, <1>3 DEF Session
  <2> QED
    BY <1>1, <2>1 DEF Received
<1> HIDE DEF p
<1> QED
  BY <1>11, <1>12, <1>13, OneWhole DEF frame

\* the header of qmi_wwan_tx_fixup()
TxQmap(version, skb) ==
  [pad_len |-> 0, next_hdr |-> TRUE, cd_bit |-> FALSE,
   mux_id |-> IF skb.tag = NoTag THEN QMAP_DEFAULT_MUX_ID ELSE U8(skb.tag),
   pkt_len |-> U16(skb.len), v5 |-> version = "QMAPV5", ip |-> skb.ip]

\* Its fields.
LEMMA TxQmapFields ==
  ASSUME NEW skb, skb.ip, NEW h, h = TxQmap("QMAPV5", skb)
  PROVE  /\ h.pad_len = 0 /\ h.next_hdr /\ ~h.cd_bit /\ h.pkt_len = U16(skb.len) /\ h.v5 /\ h.ip
         /\ h.mux_id = IF skb.tag = NoTag THEN QMAP_DEFAULT_MUX_ID ELSE U8(skb.tag)
BY DEF TxQmap

\* What qmi_wwan_tx_fixup() sends with QMAP v5, qmi_wwan_rx_fixup() delivers.
LEMMA QmapTrip ==
  ASSUME NEW skb \in Skbs, ~qmi_wwan_tx_refuses(skb)
  PROVE  qmi_wwan_rx_fixup(qmi_wwan_tx_fixup("QMAPV5", skb)) = <<Received("QMAPV5", skb)>>
<1> PICK l \in Nat, t \in Int, b \in BOOLEAN, r \in BOOLEAN :
           /\ skb = [len |-> l, tag |-> t, ip |-> b, room |-> r] /\ l <= 31716
           /\ t = NoTag \/ t \in Nat
  BY SkbParts
<1> DEFINE h == TxQmap("QMAPV5", skb)
           frame == <<h>>
           takes == [n \in 1..Len(frame) |-> QmapTakes(frame[n])]
           p == Packet(l, t, TRUE)
<1>1. skb.len = l /\ skb.tag = t /\ skb.ip = b
  OBVIOUS
<1>2. l # 0 /\ b /\ ~(t >= 129)
  BY <1>1 DEF qmi_wwan_tx_refuses, QMAP_DEFAULT_MUX_ID
<1>3. U16(l) = l /\ (t # NoTag => U8(t) = t /\ t # 129)
  BY <1>2, Widths
<1>4. qmi_wwan_tx_fixup("QMAPV5", skb) = frame
  BY DEF qmi_wwan_tx_fixup, TxQmap
<1>5. /\ h.pad_len = 0 /\ h.next_hdr /\ ~h.cd_bit /\ h.pkt_len = l /\ h.v5 /\ h.ip
      /\ h.mux_id = IF t = NoTag THEN QMAP_DEFAULT_MUX_ID ELSE U8(t)
  <2>1. skb.ip
    BY <1>1, <1>2
  <2>2. /\ h.pad_len = 0 /\ h.next_hdr /\ ~h.cd_bit /\ h.pkt_len = U16(skb.len) /\ h.v5 /\ h.ip
        /\ h.mux_id = IF skb.tag = NoTag THEN QMAP_DEFAULT_MUX_ID ELSE U8(skb.tag)
    BY <2>1, TxQmapFields
  <2> HIDE DEF h
  <2> QED
    BY <1>1, <1>3, <2>2
<1> HIDE DEF h
<1>f. Len(frame) = 1 /\ frame[1] = h
  OBVIOUS
<1> HIDE DEF frame
<1>6. QmapTakes(h) = 8 + l /\ QmapHdrSize(h) = 8 /\ QmapData(h) = l
  BY <1>5 DEF QmapTakes, QmapHdrSize, QmapData, QMAP_HDR, QMAP_V5_HDR
<1>7. QmapLeft(frame, 1) = 8 + l
  <2>1. QmapLeft(frame, 1) = Total(takes, 1) - Total(takes, 0)
    BY <1>f DEF QmapLeft
  <2>2. Len(takes) = 1 /\ takes[1] = 8 + l
    BY <1>6, <1>f
  <2> HIDE DEF takes
  <2>3. Total(takes, 0) = 0 /\ Total(takes, 1) = Total(takes, 1 - 1) + takes[1]
    BY <2>2, TotalSteps
  <2> QED
    BY <2>1, <2>2, <2>3
<1>8. QmapTag(h) = t
  BY <1>3, <1>5 DEF QMAP_DEFAULT_MUX_ID, QmapTag
<1>9. QmapItem(frame, 1) = <<p>>
  <2>1. QmapTaken(frame, 1)
    BY <1>5, <1>6, <1>7, <1>f DEF QMAP_HDR, QmapTaken
  <2>2. QmapItem(frame, 1) = <<QmapPacket(h)>>
    BY <1>5, <1>f, <2>1, QmapUnfolds
  <2>3. QmapPacket(h) = p
    BY <1>6, <1>8 DEF QmapPacket
  <2> HIDE DEF p
  <2> QED
    BY <2>2, <2>3
<1> HIDE DEF p
<1>10. [k \in 1..Len(frame) |-> QmapItem(frame, k)] = << <<p>> >>
  <2>1. [k \in 1..Len(frame) |-> QmapItem(frame, k)] = <<QmapItem(frame, 1)>>
    BY <1>f
  <2> QED
    BY <1>9, <2>1
<1>11. qmi_wwan_rx_fixup(frame) = UpToError(<<p>>)
  BY <1>10, FlatOne DEF qmi_wwan_rx_fixup
<1>12. p \in Sized
  BY DEF Packet, Sized, p
<1>13. p = Received("QMAPV5", skb)
  BY <1>1 DEF Received, p
<1> QED
  BY <1>4, <1>11, <1>12, <1>13, OneWhole

\* tx_fixup() and rx_fixup() agree for every packet that fits and every VLAN tag: what one sends the
\* other delivers as the same packet of the same session (MBIM and QMAP v5).
THEOREM NetTxRoundTrip == Spec => []TxRoundTrip
<1>1. TxRoundTrip
  <2> SUFFICES ASSUME NEW info \in {"MBIM", "QMAPV5"}, NEW skb \in Skbs, ~tx_refuses(info, skb)
               PROVE  rx_fixup(info, tx_fixup(info, skb)) = <<Received(info, skb)>>
    BY DEF TxRoundTrip
  <2>1. CASE info = "MBIM"
    BY <2>1, MbimTrip DEF tx_refuses, tx_fixup, rx_fixup
  <2>2. CASE info = "QMAPV5"
    BY <2>2, QmapTrip DEF tx_refuses, tx_fixup, rx_fixup
  <2> QED
    BY <2>1, <2>2
<1> QED
  BY <1>1, PTL

\* rx_fixup() delivers every packet of a frame in order, with its session and without padding: for any
\* number of packets (any MaxPkts), any lengths and sessions, MBIM frames up to rx_max.
THEOREM NetRxDelivered == Spec => []RxDelivered
<1>1. RxDelivered
  <2> SUFFICES ASSUME NEW info \in Infos, NEW pkts \in SeqOf(Sane(info), MaxPkts), Fits(info, pkts)
               PROVE  rx_fixup(info, PeerFrame(info, pkts)) = Deliverable(info, pkts)
    BY DEF RxDelivered
  <2>1. pkts \in Seq(Sane(info))
    BY NetConstants DEF SeqOf
  <2>2. CASE info = "MBIM"
    BY <2>1, <2>2, MbimDelivered DEF PeerFrame, rx_fixup, Fits
  <2>3. CASE info # "MBIM"
    BY <2>1, <2>3, QmapDelivered DEF PeerFrame, rx_fixup
  <2> QED
    BY <2>2, <2>3
<1> QED
  BY <1>1, PTL
=============================================================================
