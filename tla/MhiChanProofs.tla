---------------------------- MODULE MhiChanProofs ----------------------------
(***************************************************************************)
(* Who owns the rings of a channel, for every value of the constants of      *)
(* MhiChan: chan->mutex, the state of the channel and the two threads that   *)
(* may free its buffer ring.                                                *)
(***************************************************************************)
EXTENDS MhiChan, TLAPS

\* inside mhi_prepare_channel() or __mhi_unprepare_channel(), with the mutex; in the
\* removal, before the context is freed
OpLocked == {"p_err", "p_send", "p_wait", "p_ccs", "p_enable", "p_fill", "p_fail",
             "u_err", "u_send", "u_wait", "u_stale", "u_drain", "u_deinit"}
Removing == {"stale", "drain", "client", "stop", "deinit"}

ControlInv ==
  /\ mutex = "op" <=> o \in OpLocked
  /\ mutex = "remove" <=> r \in {"stale", "drain"}
  /\ mutex \in {"free", "op", "remove"}
  /\ ch_state \in {"DISABLED", "ENABLED", "SUSPENDED"}
  /\ ch_state = "SUSPENDED" <=> r \in Removing
  /\ ch_state = "ENABLED" => o \in {"p_fill", "open", "u_lock"}
  /\ o = "p_fill" => ch_state = "ENABLED"
  /\ o \in {"open", "u_lock"} => ch_state # "DISABLED"
  /\ o \in OpLocked \ {"p_fill"} => ch_state = "DISABLED"
  /\ r \in {"deinit", "gone"} => o = "closed"
  /\ base <=> \/ ch_state = "ENABLED" \/ o \in OpLocked
              \/ (ch_state = "SUSPENDED" /\ r_was = "ENABLED")

\* which events and which places belong to which event ring
EventInv ==
  /\ ev \in [Rings -> Seq(Event)] /\ x \in [Rings -> TaskPc]
  /\ sess \in Nat /\ d_sess \in Nat /\ d_rp \in El
  /\ \A g \in Rings : \A i \in 1..Len(ev[g]) : g = IF ev[g][i].type = "CMD" THEN "ctrl" ELSE DataRing
  /\ \A g \in Rings : x[g] \notin {"idle", "run"} => ev[g] # <<>> /\ ev[g][1].type # "CMD"
  /\ \A g \in Rings : InLoop(g) => ch_state = "ENABLED" /\ ev[g][1].type = "TX"

ChanInv == ControlInv /\ EventInv

-----------------------------------------------------------------------------
(* Sequences of events                                                     *)

\* The first event of ring g leaves it.
Dropped(g) ==
  /\ ev' \in [Rings -> Seq(Event)]
  /\ Len(ev'[g]) = Len(ev[g]) - 1
  /\ \A i \in 1..Len(ev'[g]) : ev'[g][i] = ev[g][i + 1]
  /\ \A h \in Rings \ {g} : ev'[h] = ev[h]

\* Event e enters ring g.
Added(g, e) ==
  /\ ev' \in [Rings -> Seq(Event)]
  /\ Len(ev'[g]) = Len(ev[g]) + 1
  /\ \A i \in 1..Len(ev[g]) : ev'[g][i] = ev[g][i]
  /\ ev'[g][Len(ev[g]) + 1] = e
  /\ \A h \in Rings \ {g} : ev'[h] = ev[h]

\* Every event of the data ring that is no command's is stale, all else is as it was.
Marked ==
  /\ ev' \in [Rings -> Seq(Event)]
  /\ \A g \in Rings :
       /\ Len(ev'[g]) = Len(ev[g])
       /\ \A i \in 1..Len(ev[g]) :
            /\ ev'[g][i].type = ev[g][i].type /\ ev'[g][i].idx = ev[g][i].idx
            /\ ev'[g][i].sess = ev[g][i].sess /\ ev'[g][i].ok = ev[g][i].ok
  /\ \A i \in 1..Len(ev[DataRing]) :
        ev'[DataRing][i].stale = (ev[DataRing][i].stale \/ ev[DataRing][i].type # "CMD")

\* The rings a channel knows of.
LEMMA RingNames ==
  /\ "ctrl" \in Rings /\ DataRing \in Rings
  /\ \A g \in Rings : g = "ctrl" \/ g = DataRing
BY DEF Rings, DataRing

\* mhi_recycle_ev_ring_element() takes the first event.
LEMMA RecycleDrops ==
  ASSUME ev \in [Rings -> Seq(Event)], NEW g \in Rings, ev[g] # <<>>,
         mhi_recycle_ev_ring_element(g)
  PROVE  Dropped(g)
<1>1. ev[g] \in Seq(Event)
  OBVIOUS
<1>2. /\ Tail(ev[g]) \in Seq(Event) /\ Len(Tail(ev[g])) = Len(ev[g]) - 1
      /\ \A i \in 1..Len(Tail(ev[g])) : Tail(ev[g])[i] = ev[g][i + 1]
  BY <1>1
<1>3. ev' = [ev EXCEPT ![g] = Tail(ev[g])]
  BY DEF mhi_recycle_ev_ring_element
<1>4. ev'[g] = Tail(ev[g]) /\ ev' \in [Rings -> Seq(Event)] /\ \A h \in Rings \ {g} : ev'[h] = ev[h]
  BY <1>2, <1>3
<1> QED
  BY <1>2, <1>4 DEF Dropped

\* The device puts an event at the end.
LEMMA PutAdds ==
  ASSUME ev \in [Rings -> Seq(Event)], NEW g \in Rings, NEW e \in Event, Put(g, e)
  PROVE  Added(g, e)
<1>1. ev[g] \in Seq(Event)
  OBVIOUS
<1>2. /\ Append(ev[g], e) \in Seq(Event) /\ Len(Append(ev[g], e)) = Len(ev[g]) + 1
      /\ \A i \in 1..Len(ev[g]) : Append(ev[g], e)[i] = ev[g][i]
      /\ Append(ev[g], e)[Len(ev[g]) + 1] = e
  BY <1>1
<1>3. ev' = [ev EXCEPT ![g] = Append(ev[g], e)]
  BY DEF Put
<1>4. ev'[g] = Append(ev[g], e) /\ ev' \in [Rings -> Seq(Event)] /\ \A h \in Rings \ {g} : ev'[h] = ev[h]
  BY <1>2, <1>3
<1> QED
  BY <1>2, <1>4 DEF Added

\* mhi_mark_stale_events() changes no event but in that it is stale.
LEMMA MarkMarks ==
  ASSUME ev \in [Rings -> Seq(Event)], mhi_mark_stale_events
  PROVE  Marked
<1>1. ev[DataRing] \in Seq(Event) /\ DataRing \in Rings
  BY RingNames
<1> DEFINE s == ev[DataRing]
           t == [i \in DOMAIN s |-> Staled(s[i])]
<1>2. Len(s) \in Nat /\ DOMAIN s = 1..Len(s) /\ \A i \in 1..Len(s) : s[i] \in Event
  BY <1>1
<1>3. ev' = [ev EXCEPT ![DataRing] = t]
  BY DEF mhi_mark_stale_events
<1>4. \A e \in Event :
        /\ Staled(e) \in Event
        /\ Staled(e).type = e.type /\ Staled(e).idx = e.idx
        /\ Staled(e).sess = e.sess /\ Staled(e).ok = e.ok
        /\ Staled(e).stale = (e.stale \/ e.type # "CMD")
  BY DEF Staled, Event
<1> HIDE DEF s
<1>5. t \in Seq(Event) /\ Len(t) = Len(s) /\ \A i \in 1..Len(s) : t[i] = Staled(s[i])
  <2>1. t \in [1..Len(s) -> Event] /\ \A i \in 1..Len(s) : t[i] = Staled(s[i])
    BY <1>2, <1>4
  <2> HIDE DEF t
  <2> QED
    BY <1>2, <2>1
<1> HIDE DEF t
<1>6. \A i \in 1..Len(s) :
        /\ t[i].type = s[i].type /\ t[i].idx = s[i].idx /\ t[i].sess = s[i].sess /\ t[i].ok = s[i].ok
        /\ t[i].stale = (s[i].stale \/ s[i].type # "CMD")
  BY <1>2, <1>4, <1>5
<1>7. ev'[DataRing] = t /\ ev' \in [Rings -> Seq(Event)]
      /\ \A h \in Rings \ {DataRing} : ev'[h] = ev[h]
  BY <1>1, <1>3, <1>5
<1>8. \A i \in 1..Len(ev[DataRing]) :
        ev'[DataRing][i].stale = (ev[DataRing][i].stale \/ ev[DataRing][i].type # "CMD")
  BY <1>6, <1>7 DEF s
<1>9. \A g \in Rings :
       /\ Len(ev'[g]) = Len(ev[g])
       /\ \A i \in 1..Len(ev[g]) :
            /\ ev'[g][i].type = ev[g][i].type /\ ev'[g][i].idx = ev[g][i].idx
            /\ ev'[g][i].sess = ev[g][i].sess /\ ev'[g][i].ok = ev[g][i].ok
  BY <1>5, <1>6, <1>7 DEF s
<1> QED
  BY <1>7, <1>8, <1>9 DEF Marked

-----------------------------------------------------------------------------
(* The mutex, the state of the channel and its buffer ring                  *)

\* Initially nobody holds anything.
LEMMA InitChan == Init => ChanInv
<1> SUFFICES ASSUME Init PROVE ChanInv
  OBVIOUS
<1>1. ControlInv
  BY DEF Init, ControlInv, OpLocked, Removing
<1>2. 0 \in El
  BY ChanConstants DEF El
<1>3. ev \in [Rings -> Seq(Event)] /\ x \in [Rings -> TaskPc] /\ \A g \in Rings : ev[g] = <<>> /\ x[g] = "idle"
  BY DEF Init, TaskPc
<1>4. EventInv
  BY <1>2, <1>3 DEF Init, EventInv, InLoop
<1> QED
  BY <1>1, <1>4 DEF ChanInv

\* what ControlInv speaks of
ctlv == <<mutex, o, r, r_was, ch_state, base>>

\* Every step keeps the mutex with its holder, and the buffer ring with the one who has
\* to free it.
LEMMA ControlStep == ControlInv /\ [Next]_vars => ControlInv'
<1> SUFFICES ASSUME ControlInv, [Next]_vars PROVE ControlInv'
  OBVIOUS
<1>0. ASSUME UNCHANGED ctlv PROVE ControlInv'
  BY <1>0 DEF ControlInv, ctlv
<1>1. CASE Queue
  <2>1. UNCHANGED ctlv
    BY <1>1 DEF Queue, QueueSkb, QueueBuf, QueueSteps, QueueSkbLocked, QueueBufFull, QueueGen,
       QueueRing, mhi_gen_tre, ctlv, chan, rings, ov, rv
  <2> QED
    BY <1>0, <2>1
<1>2. CASE Open
  BY <1>2 DEF Open, ControlInv, OpLocked, Removing, chan, rings, rv
<1>3. CASE Close
  BY <1>3 DEF Close, Goto, ControlInv, OpLocked, Removing, chan, rings, rv
<1>4. CASE OpenSteps
  <2>1. CASE PrepareLock
    BY <2>1 DEF PrepareLock, Goto, mhi_init_chan_ctxt, ControlInv, OpLocked, Removing, chan, rv
  <2>2. CASE PrepareErr
    BY <2>2 DEF PrepareErr, Goto, ControlInv, OpLocked, Removing, rings, rv
  <2>3. CASE PrepareSend
    BY <2>3 DEF PrepareSend, Goto, ControlInv, OpLocked, Removing, chan, rings, rv
  <2>4. CASE PrepareWait
    BY <2>4 DEF PrepareWait, Goto, ControlInv, OpLocked, Removing, rings, rv
  <2>5. CASE PrepareCcs
    BY <2>5 DEF PrepareCcs, Goto, ControlInv, OpLocked, Removing, chan, rings, rv
  <2>6. CASE PrepareEnable
    BY <2>6 DEF PrepareEnable, ControlInv, OpLocked, Removing, rings, rv
  <2>7. CASE PrepareFill
    <3>1. /\ UNCHANGED <<r, r_was, ch_state, base>> /\ o = "p_fill"
          /\ \/ UNCHANGED <<o, mutex>>
             \/ o' = "u_lock" /\ mutex' = "free"
      BY <2>7 DEF PrepareFill, mhi_gen_tre, chan, rings, rv
    <3> QED
      BY <3>1 DEF ControlInv, OpLocked, Removing
  <2>8. CASE PrepareDb
    BY <2>8 DEF PrepareDb, Goto, ControlInv, OpLocked, Removing, chan, rings, rv
  <2>9. CASE PrepareFail
    BY <2>9 DEF PrepareFail, Goto, mhi_deinit_chan_ctxt, ControlInv, OpLocked, Removing, chan, rv
  <2>10. CASE UnprepareLock
    BY <2>10 DEF UnprepareLock, Goto, ControlInv, OpLocked, Removing, rings, rv
  <2>11. CASE UnprepareErr
    BY <2>11 DEF UnprepareErr, Goto, ControlInv, OpLocked, Removing, rings, rv
  <2>12. CASE UnprepareSend
    BY <2>12 DEF UnprepareSend, Goto, ControlInv, OpLocked, Removing, chan, rings, rv
  <2>13. CASE UnprepareWait
    BY <2>13 DEF UnprepareWait, Goto, ControlInv, OpLocked, Removing, rings, rv
  <2>14. CASE UnprepareStale
    BY <2>14 DEF UnprepareStale, Goto, ControlInv, OpLocked, Removing, chan, rings, rv
  <2>15. CASE UnprepareDrain
    BY <2>15 DEF UnprepareDrain, mhi_reset_data_chan, DelBoth, Goto, ControlInv, OpLocked, Removing,
       chan, rings, ov, rv
  <2>16. CASE UnprepareDeinit
    BY <2>16 DEF UnprepareDeinit, Goto, mhi_deinit_chan_ctxt, ControlInv, OpLocked, Removing, chan, rv
  <2> QED
    BY <1>4, <2>1, <2>2, <2>3, <2>4, <2>5, <2>6, <2>7, <2>8, <2>9, <2>10, <2>11, <2>12, <2>13,
       <2>14, <2>15, <2>16 DEF OpenSteps, PrepareSteps, UnprepareSteps
<1>5. CASE RemoveStart
  BY <1>5 DEF RemoveStart, ControlInv, OpLocked, Removing, rings, ov
<1>6. CASE RemoveSteps
  <2>1. CASE RemoveLock
    BY <2>1 DEF RemoveLock, ControlInv, OpLocked, Removing, rings, ov
  <2>2. CASE RemoveStale
    BY <2>2 DEF RemoveStale, ControlInv, OpLocked, Removing, chan, rings, ov
  <2>3. CASE RemoveDrain
    BY <2>3 DEF RemoveDrain, mhi_reset_data_chan, DelBoth, ControlInv, OpLocked, Removing, chan,
       rings, ov
  <2>4. CASE RemoveCalled
    BY <2>4 DEF RemoveCalled, ControlInv, OpLocked, Removing, chan, rings, ov
  <2>5. CASE RemoveClient
    BY <2>5 DEF RemoveClient, Goto, ControlInv, OpLocked, Removing, chan, rings
  <2>6. CASE RemoveDeinit
    BY <2>6 DEF RemoveDeinit, RemoveDeinits, mhi_deinit_chan_ctxt, ControlInv, OpLocked, Removing, ov
  <2> QED
    BY <1>6, <2>1, <2>2, <2>3, <2>4, <2>5, <2>6 DEF RemoveSteps
<1>7. CASE Rebind
  BY <1>7 DEF Rebind, ControlInv, OpLocked, Removing, chan, rings, ov
<1>8. CASE Pm
  <2>1. CASE PmRecover
    BY <2>1 DEF PmRecover, ControlInv, OpLocked, Removing, chan, rings, ov
  <2>2. CASE PmError \/ PmSuspend \/ PmResume \/ PmM0Rings
    <3>1. UNCHANGED ctlv
      BY <2>2 DEF PmError, PmSuspend, PmResume, PmM0Rings, ctlv, chan, rings, ov, rv
    <3> QED
      BY <1>0, <3>1
  <2> QED
    BY <1>8, <2>1, <2>2 DEF Pm
<1>9. CASE Device
  <2>1. UNCHANGED ctlv
    BY <1>9 DEF Device, DevCmd, DevLearn, DevXfer, DevDb, ctlv, chan, rings, ov, rv
  <2> QED
    BY <1>0, <2>1
<1>10. ASSUME NEW g \in Rings, Tasklet(g) PROVE ControlInv'
  <2>1. UNCHANGED ctlv
    BY <1>10 DEF Tasklet, TaskStart, TaskEnd, TaskStale, TaskCmd, TaskSee, TaskDb, TaskTx, TaskTake,
       TaskCb, TaskRecycle, TaskTxEnd, DelBoth, mhi_gen_tre, ctlv, chan, rings, ov, rv
  <2> QED
    BY <1>0, <2>1
<1>11. CASE UNCHANGED vars
  BY <1>0, <1>11 DEF vars, ctlv, chan, rings, ov, rv
<1> QED
  BY <1>1, <1>2, <1>3, <1>4, <1>5, <1>6, <1>7, <1>8, <1>9, <1>10, <1>11 DEF Next

-----------------------------------------------------------------------------
(* The tasklets and their events                                           *)

\* A step that leaves the events and the tasklets alone, and does not disable the channel
\* under one that completes transfers.
Aside == /\ UNCHANGED <<ev, x, d_rp, d_sess>> /\ sess' \in Nat
         /\ ch_state' = ch_state \/ ChanLock \/ ch_state # "ENABLED"

\* NextEl() stays in the ring.
LEMMA NextElType == \A i \in El : NextEl(i) \in El
BY ChanConstants DEF NextEl, El

\* Steps of the other threads, but for those that mark or empty the event rings.
LEMMA EventAside == EventInv /\ Aside => EventInv'
BY DEF EventInv, Aside, InLoop, ChanLock

\* A tasklet that takes the next event, or none.
LEMMA EventRecycled ==
  ASSUME EventInv, NEW g \in Rings, ev[g] # <<>>, mhi_recycle_ev_ring_element(g),
         x'[g] = "run", x' \in [Rings -> TaskPc], \A h \in Rings \ {g} : x'[h] = x[h],
         UNCHANGED <<ch_state, sess, d_sess, d_rp>>
  PROVE  EventInv'
<1>1. Dropped(g)
  BY RecycleDrops DEF EventInv
<1>2. \A h \in Rings : Len(ev[h]) \in Nat /\ Len(ev'[h]) \in Nat
  BY <1>1 DEF EventInv, Dropped
<1>3. \A h \in Rings : \A i \in 1..Len(ev'[h]) :
        h = IF ev'[h][i].type = "CMD" THEN "ctrl" ELSE DataRing
  BY <1>1, <1>2 DEF EventInv, Dropped
<1>4. \A h \in Rings : x'[h] \notin {"idle", "run"} => ev'[h] # <<>> /\ ev'[h][1].type # "CMD"
  BY <1>1 DEF EventInv, Dropped
<1>5. \A h \in Rings : InLoop(h)' => ch_state' = "ENABLED" /\ ev'[h][1].type = "TX"
  BY <1>1 DEF EventInv, Dropped, InLoop
<1> QED
  BY <1>1, <1>3, <1>4, <1>5 DEF EventInv, Dropped

\* The device answers: an event comes last.
LEMMA EventPut ==
  ASSUME EventInv, NEW g \in Rings, NEW e \in Event, Put(g, e),
         g = IF e.type = "CMD" THEN "ctrl" ELSE DataRing,
         UNCHANGED <<x, ch_state, sess>>, d_sess' \in Nat, d_rp' \in El
  PROVE  EventInv'
<1>1. Added(g, e)
  BY PutAdds DEF EventInv
<1>2. \A h \in Rings : Len(ev[h]) \in Nat /\ Len(ev'[h]) \in Nat
  BY <1>1 DEF EventInv, Added
<1>3. \A h \in Rings : \A i \in 1..Len(ev'[h]) :
        h = IF ev'[h][i].type = "CMD" THEN "ctrl" ELSE DataRing
  BY <1>1, <1>2 DEF EventInv, Added
<1>4. \A h \in Rings : ev[h] # <<>> => ev'[h] # <<>> /\ ev'[h][1] = ev[h][1]
  <2> SUFFICES ASSUME NEW h \in Rings, ev[h] # <<>> PROVE ev'[h] # <<>> /\ ev'[h][1] = ev[h][1]
    OBVIOUS
  <2>1. ev[h] \in Seq(Event) /\ ev'[h] \in Seq(Event)
    BY <1>1 DEF EventInv, Added
  <2>2. Len(ev[h]) >= 1
    BY <2>1
  <2>3. CASE h = g
    BY <1>1, <2>1, <2>2, <2>3 DEF Added
  <2> QED
    BY <1>1, <2>3 DEF Added
<1>5. \A h \in Rings : x'[h] \notin {"idle", "run"} => ev'[h] # <<>> /\ ev'[h][1].type # "CMD"
  BY <1>4 DEF EventInv
<1>6. \A h \in Rings : InLoop(h)' => ch_state' = "ENABLED" /\ ev'[h][1].type = "TX"
  BY <1>4 DEF EventInv, InLoop
<1> QED
  BY <1>1, <1>3, <1>5, <1>6 DEF EventInv, Added

\* The events of the channel become stale.
LEMMA EventMarked ==
  ASSUME EventInv, mhi_mark_stale_events, UNCHANGED <<x, ch_state, sess, d_sess, d_rp>>
  PROVE  EventInv'
<1>1. Marked
  BY MarkMarks DEF EventInv
<1>2. \A h \in Rings : ev[h] # <<>> => ev'[h] # <<>> /\ ev'[h][1].type = ev[h][1].type
  <2> SUFFICES ASSUME NEW h \in Rings, ev[h] # <<>>
               PROVE  ev'[h] # <<>> /\ ev'[h][1].type = ev[h][1].type
    OBVIOUS
  <2>1. ev[h] \in Seq(Event) /\ ev'[h] \in Seq(Event)
    BY <1>1 DEF EventInv, Marked
  <2>2. Len(ev[h]) >= 1
    BY <2>1
  <2> QED
    BY <1>1, <2>1, <2>2 DEF Marked
<1>3. \A h \in Rings : \A i \in 1..Len(ev'[h]) :
        h = IF ev'[h][i].type = "CMD" THEN "ctrl" ELSE DataRing
  BY <1>1 DEF EventInv, Marked
<1> QED
  BY <1>1, <1>2, <1>3 DEF EventInv, Marked, InLoop

\* A tasklet that goes on at pc, with the event it is at.
LEMMA EventMoved ==
  ASSUME EventInv, NEW g \in Rings, NEW pc \in TaskPc, x' = [x EXCEPT ![g] = pc],
         UNCHANGED <<ev, ch_state, sess, d_sess, d_rp>>,
         pc \notin {"idle", "run"} => ev[g] # <<>> /\ ev[g][1].type # "CMD",
         pc \in {"loop", "cb", "recycle"} => ch_state = "ENABLED" /\ ev[g][1].type = "TX"
  PROVE  EventInv'
<1>1. x' \in [Rings -> TaskPc] /\ x'[g] = pc /\ \A h \in Rings \ {g} : x'[h] = x[h]
  BY DEF EventInv
<1> QED
  BY <1>1 DEF EventInv, InLoop

\* A step of the tasklet of ring g.
LEMMA EventTasklet ==
  ASSUME ChanInv, NEW g \in Rings, Tasklet(g)
  PROVE  EventInv'
<1> USE DEF ChanInv
<1>0. x \in [Rings -> TaskPc] /\ ev[g] \in Seq(Event)
  BY DEF EventInv
<1>h. ev[g] # <<>> => Head(ev[g]) = ev[g][1]
  BY <1>0
<1>r. ASSUME ev[g] # <<>>, mhi_recycle_ev_ring_element(g), x' = [x EXCEPT ![g] = "run"],
             UNCHANGED <<ch_state, sess, d_sess, d_rp>>
      PROVE  EventInv'
  <2>1. x' \in [Rings -> TaskPc] /\ x'[g] = "run" /\ \A h \in Rings \ {g} : x'[h] = x[h]
    BY <1>0, <1>r DEF TaskPc
  <2> QED
    BY <1>r, <2>1, EventRecycled
<1>1. CASE TaskStart(g)
  BY <1>1, EventMoved DEF TaskStart, TaskPc, chan, dev
<1>2. CASE TaskEnd(g)
  BY <1>2, EventMoved DEF TaskEnd, TaskPc, chan, dev
<1>3. CASE TaskStale(g)
  BY <1>0, <1>3, EventRecycled DEF TaskStale, chan, dev, task
<1>4. CASE TaskCmd(g)
  BY <1>0, <1>4, EventRecycled DEF TaskCmd, Is, dev, task
<1>5. CASE TaskSee(g)
  <2>1. ev[g] # <<>> /\ ev[g][1].type # "CMD"
    BY <1>5, <1>h DEF TaskSee, Is
  <2> QED
    BY <1>5, <2>1, EventMoved DEF TaskSee, TaskPc, chan, dev
<1>6. CASE TaskDb(g)
  <2>1. ev[g] # <<>>
    BY <1>6 DEF TaskDb, EventInv
  <2> QED
    BY <1>6, <1>r, <2>1 DEF TaskDb, chan, dev
<1>7. CASE TaskTx(g)
  <2>1. ev[g] # <<>> /\ ev[g][1].type = "TX"
    BY <1>7, <1>h DEF TaskTx, EventInv
  <2>2. CASE MayParse
    BY <1>7, <2>1, <2>2, EventMoved DEF TaskTx, MayParse, TaskPc, chan, dev
  <2>3. CASE ~MayParse
    BY <1>7, <1>r, <2>1, <2>3 DEF TaskTx, chan, dev
  <2> QED
    BY <2>2, <2>3
<1>8. CASE TaskTake(g)
  BY <1>8, EventMoved DEF TaskTake, TaskPc, EventInv, InLoop, chan, dev
<1>9. CASE TaskCb(g)
  BY <1>9, EventMoved DEF TaskCb, TaskPc, EventInv, InLoop, chan, dev
<1>10. CASE TaskRecycle(g)
  BY <1>10, EventMoved DEF TaskRecycle, TaskPc, EventInv, InLoop, chan, dev
<1>11. CASE TaskTxEnd(g)
  <2>1. ev[g] # <<>>
    BY <1>11 DEF TaskTxEnd, EventInv
  <2> QED
    BY <1>11, <1>r, <2>1 DEF TaskTxEnd, chan, dev
<1> QED
  BY <1>1, <1>2, <1>3, <1>4, <1>5, <1>6, <1>7, <1>8, <1>9, <1>10, <1>11 DEF Tasklet

\* A step of the device.
LEMMA EventDevice ==
  ASSUME ChanInv, Device
  PROVE  EventInv'
<1> USE DEF ChanInv
<1>1. sess \in Nat /\ d_sess \in Nat /\ d_rp \in El /\ 0 \in El
  BY ChanConstants DEF EventInv, El
<1>2. ASSUME NEW ok \in BOOLEAN, DevCmd(ok) PROVE EventInv'
  <2> DEFINE e == [type |-> "CMD", stale |-> FALSE, idx |-> 0, sess |-> sess, ok |-> ok]
  <2>1. e \in Event /\ e.type = "CMD"
    BY <1>1 DEF Event
  <2>2. Put("ctrl", e) /\ UNCHANGED <<x, ch_state, sess>> /\ d_sess' \in Nat /\ d_rp' \in El
    BY <1>1, <1>2 DEF DevCmd, chan, task, dev
  <2> HIDE DEF e
  <2> QED
    BY <2>1, <2>2, RingNames, EventPut
<1>3. ASSUME NEW i \in El, DevXfer(i) PROVE EventInv'
  <2> DEFINE e == [type |-> "TX", stale |-> FALSE, idx |-> i, sess |-> d_sess, ok |-> TRUE]
  <2>1. e \in Event /\ e.type = "TX"
    BY <1>1 DEF Event
  <2>2. Put(DataRing, e) /\ UNCHANGED <<x, ch_state, sess>> /\ d_sess' \in Nat /\ d_rp' \in El
    BY <1>1, <1>3, NextElType DEF DevXfer, chan, task
  <2> HIDE DEF e
  <2> QED
    BY <2>1, <2>2, RingNames, EventPut
<1>4. CASE DevDb
  <2> DEFINE e == [type |-> "DB", stale |-> FALSE, idx |-> 0, sess |-> d_sess, ok |-> TRUE]
  <2>1. e \in Event /\ e.type = "DB"
    BY <1>1 DEF Event
  <2>2. Put(DataRing, e) /\ UNCHANGED <<x, ch_state, sess>> /\ d_sess' \in Nat /\ d_rp' \in El
    BY <1>1, <1>4 DEF DevDb, chan, task, dev
  <2> HIDE DEF e
  <2> QED
    BY <2>1, <2>2, RingNames, EventPut
<1>5. CASE DevLearn
  <2>1. UNCHANGED <<x, ch_state, ev, sess, d_sess, d_rp>>
    BY <1>5 DEF DevLearn, chan, task
  <2> QED
    BY <2>1 DEF EventInv, InLoop
<1> QED
  BY <1>2, <1>3, <1>4, <1>5 DEF Device

\* Every step keeps the events and the tasklets as EventInv has them.
LEMMA EventStep == ChanInv /\ [Next]_vars => EventInv'
<1> SUFFICES ASSUME ChanInv, [Next]_vars PROVE EventInv'
  OBVIOUS
<1> USE DEF ChanInv
<1>0. sess \in Nat
  BY DEF EventInv
<1>1. CASE Queue
  <2>1. Aside
    BY <1>0, <1>1 DEF Queue, QueueSkb, QueueBuf, QueueSteps, QueueSkbLocked, QueueBufFull, QueueGen,
       QueueRing, Aside, chan, task, dev
  <2> QED
    BY <2>1, EventAside
<1>2. CASE Open \/ Close \/ Rebind \/ RemoveStart
  <2>1. Aside
    BY <1>0, <1>2 DEF Open, Close, Rebind, RemoveStart, Aside, chan, task, dev
  <2> QED
    BY <2>1, EventAside
<1>3. CASE UnprepareStale
  BY <1>3, EventMarked DEF UnprepareStale, chan, task, dev
<1>4. CASE PrepareSteps
  <2>1. Aside
    BY <1>0, <1>4 DEF PrepareSteps, PrepareLock, mhi_init_chan_ctxt, PrepareErr, PrepareSend,
       PrepareWait, PrepareCcs, PrepareEnable, PrepareFill, PrepareDb, PrepareFail, Aside, chan, task, dev
  <2> QED
    BY <2>1, EventAside
<1>5. CASE UnprepareLock \/ UnprepareErr \/ UnprepareSend \/ UnprepareWait \/ UnprepareDrain
           \/ UnprepareDeinit
  <2>1. Aside
    BY <1>0, <1>5 DEF UnprepareLock, UnprepareErr, UnprepareSend, UnprepareWait, UnprepareDrain,
       UnprepareDeinit, Aside, chan, task, dev
  <2> QED
    BY <2>1, EventAside
<1>6. CASE RemoveStale
  BY <1>6, EventMarked DEF RemoveStale, chan, task, dev
<1>7. CASE RemoveLock \/ RemoveDrain \/ RemoveCalled \/ RemoveClient \/ RemoveDeinit
  <2>1. Aside
    BY <1>0, <1>7 DEF RemoveLock, RemoveDrain, RemoveCalled, RemoveClient, RemoveDeinit, Aside,
       ControlInv, Removing, chan, task, dev
  <2> QED
    BY <2>1, EventAside
<1>8. CASE PmRecover
  <2>1. ev' \in [Rings -> Seq(Event)] /\ d_rp' \in El /\ UNCHANGED <<x, ch_state, sess, d_sess>>
        /\ \A g \in Rings : x[g] = "idle" /\ ev'[g] = <<>>
    BY <1>8, ChanConstants DEF PmRecover, El, chan, task
  <2> QED
    BY <2>1 DEF EventInv, InLoop
<1>9. CASE PmError \/ PmSuspend \/ PmResume \/ PmM0Rings
  <2>1. Aside
    BY <1>0, <1>9 DEF PmError, PmSuspend, PmResume, PmM0Rings, Aside, chan, task, dev
  <2> QED
    BY <2>1, EventAside
<1>10. CASE UNCHANGED vars
  <2>1. Aside
    BY <1>0, <1>10 DEF vars, Aside, chan, task, dev
  <2> QED
    BY <2>1, EventAside
<1> QED
  BY <1>1, <1>2, <1>3, <1>4, <1>5, <1>6, <1>7, <1>8, <1>9, <1>10, EventTasklet, EventDevice
  DEF Next, OpenSteps, UnprepareSteps, RemoveSteps, Pm

-----------------------------------------------------------------------------
(* What follows                                                            *)

\* ChanInv is an invariant, whatever the client and the device do.
LEMMA ChanInvariant == Spec => []ChanInv
<1>1. ChanInv /\ [Next]_vars => ChanInv'
  BY ControlStep, EventStep DEF ChanInv
<1> QED
  BY <1>1, InitChan, PTL DEF Spec

\* A tasklet in the transfer loop is the only one who takes elements out of the ring,
\* which stays allocated: ch_state changes under chan->lock, and the reset and the end of
\* the context follow that change.
THEOREM ChanConsumerAlone == Spec => []ConsumerAlone
<1>1. ChanInv => ConsumerAlone
  <2> SUFFICES ASSUME ChanInv, NEW g \in Rings, InLoop(g)
               PROVE  /\ base /\ o \notin {"u_drain", "u_deinit"} /\ r \notin {"drain", "deinit"}
                      /\ \A h \in Rings \ {g} : ~InLoop(h)
    BY DEF ConsumerAlone
  <2>1. ch_state = "ENABLED"
    BY DEF ChanInv, EventInv
  <2>2. base /\ o \notin {"u_drain", "u_deinit"} /\ r \notin {"drain", "deinit"}
    BY <2>1 DEF ChanInv, ControlInv, OpLocked, Removing
  <2>3. ASSUME NEW h \in Rings, InLoop(h) PROVE h = DataRing
    <3>1. ev[h] # <<>> /\ ev[h][1].type = "TX" /\ ev[h] \in Seq(Event)
      BY <2>3 DEF ChanInv, EventInv, InLoop
    <3>2. 1 \in 1..Len(ev[h])
      BY <3>1
    <3> QED
      BY <2>3, <3>1, <3>2 DEF ChanInv, EventInv
  <2> QED
    BY <2>2, <2>3
<1> QED
  BY <1>1, ChanInvariant, PTL

\* The buffer ring is freed exactly when nobody uses the channel: a failed open, a close
\* and a removal never free it twice and never leave it behind.
THEOREM ChanRingFreed == Spec => []RingFreed
<1>1. ChanInv => RingFreed
  BY DEF ChanInv, ControlInv, RingFreed, OpLocked, Removing
<1> QED
  BY <1>1, ChanInvariant, PTL
=============================================================================
