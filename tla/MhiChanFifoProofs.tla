-------------------------- MODULE MhiChanFifoProofs --------------------------
(***************************************************************************)
(* A channel is a bounded queue, and its counters and events tell the truth, *)
(* for rings of any length: MhiChan where the device answers commands and the *)
(* client's driver is unbound only by a teardown (Prompt).  What the rings hold  *)
(* and what is counted also needs a client that queues with mhi_queue_skb() or   *)
(* mhi_queue_dma(), or a host that fills the ring (SkbOnly).                    *)
(***************************************************************************)
EXTENDS MhiChanProofs, FiniteSetTheorems

\* What MhiChan needs for that: a late answer is taken for that of the next command, and an
\* unbind resets the rings of a channel the device goes on using.
Prompt == ~CmdFaults /\ ~Unbind

\* mhi_queue_buf() does not hold pm_lock while it fills an element, and mhi_uci_remove() does
\* not wait for it: the element may enter the ring after a removal has emptied it.
SkbOnly == Kinds \subseteq {"skb"}
Safe == Prompt /\ SkbOnly

Quiet == \A g \in Rings : x[g] = "idle"

\* the removal, the tasklets and the queueing thread, by the PM state
PmInv ==
  /\ ~InError => r = "none"
  /\ r # "none" => Quiet /\ ccs = "INVALID"
  /\ q \in QueuePc /\ q_kind \in {"skb", "buf"}
  /\ o \in {"open", "u_lock"} /\ r \in Removing => r_was = "ENABLED"
  /\ SkbOnly => /\ q # "idle" => o = "open" /\ ~pre_alloc
                /\ InError => q \in {"idle", "skb"}
                /\ q # "buf" /\ q_kind = "skb"

IsCmd(i) == ev["ctrl"][i].type = "CMD"
CtrlEvs  == 1..Len(ev["ctrl"])
Answered == \E i \in CtrlEvs : IsCmd(i)

\* one command at a time, and its answer
AnswerInv ==
  /\ \A i, j \in CtrlEvs : IsCmd(i) /\ IsCmd(j) => i = j
  /\ \A i \in CtrlEvs : IsCmd(i) => ~ev["ctrl"][i].stale
  /\ d_cmd = 1 <=> Answered
CmdInv ==
  /\ cmds \in {<<>>, <<"START">>, <<"RESET">>}
  /\ c_db \in 0..Len(cmds) /\ d_cmd \in 0..c_db
  /\ cmds # <<>> => InError \/ o \in {"p_wait", "u_wait"}
  /\ o = "p_wait" => cmds # <<"RESET">>
  /\ o = "u_wait" => cmds # <<"START">>
  /\ o \in {"p_send", "u_send", "p_enable"} => cmds = <<>>
  /\ o = "p_ccs" /\ r = "none" => cmds = <<>>
  /\ r = "none" /\ (cmds # <<>> \/ o \in {"p_send", "u_send"}) => ~done
  /\ AnswerInv

Started == d_on /\ d_sess = sess

\* what the host knows of the device's channel, at each place of the opening thread
StartInv ==
  /\ ~InError /\ d_on => d_sess = sess
  /\ ~InError /\ o \in {"closed", "p_lock", "p_err", "p_fail", "u_stale", "u_drain", "u_deinit"}
       => ~d_on
  /\ o = "p_send" => ~d_on
  /\ o = "p_wait" /\ cmds # <<>> /\ d_cmd = 0 => ~d_on
  /\ o = "p_wait" => \A i \in CtrlEvs : IsCmd(i) => (ev["ctrl"][i].ok <=> Started)
  /\ (o = "p_wait" /\ done) \/ o = "p_ccs" => (ccs = "SUCCESS" => Started)
  /\ ~InError /\ ((o = "p_wait" /\ cmds = <<>>) \/ o = "p_ccs") => (ccs # "SUCCESS" => ~d_on)
  /\ o = "p_enable" \/ ch_state = "ENABLED" => Started
  /\ ~InError /\ o = "u_wait" /\ (cmds = <<>> \/ d_cmd = 1) => ~d_on

DataEvs == 1..Len(ev[DataRing])
Loud(i) == ev[DataRing][i].type # "CMD" /\ ~ev[DataRing][i].stale

\* which events of the channel are not stale, and whose they are
EvsFresh ==
  /\ ~InError /\ ~d_on /\ o \notin {"u_wait", "u_stale"} => \A i \in DataEvs : ~Loud(i)
  /\ ~InError \/ ch_state = "ENABLED" \/ o \in {"p_send", "p_wait", "p_ccs", "p_enable"}
       => \A i \in DataEvs : Loud(i) => ev[DataRing][i].sess = sess

\* the event the tasklet is at: a ring without a lock of its own may be marked before the
\* tasklet takes chan->lock
HeadFresh ==
  /\ InLoop(DataRing) => ~ev[DataRing][1].stale
  /\ x[DataRing] = "seen" /\ ev[DataRing][1].stale =>
       /\ ch_state # "ENABLED" /\ o \notin {"p_ccs", "p_enable"} /\ (o = "p_wait" => ~done)
       /\ ~HwRing

FreshInv == EvsFresh /\ HeadFresh

RingType ==
  /\ tre \in [rp : El, wp : El] /\ buf \in [rp : El, wp : El]
  /\ slot \in [El -> Nat] /\ d_wp \in El /\ x_to \in El
  /\ pending_pkts \in Int /\ nr_el \in Int /\ sent \in Nat /\ back \in Nat

Taken == IF x[DataRing] \in {"cb", "recycle"} THEN 1 ELSE 0

\* the rings are empty where a context begins or ends, and have room where an element is
\* about to be filled
RingInv ==
  /\ tre = buf
  /\ ~base => tre.rp = tre.wp
  /\ r \in {"client", "stop", "deinit"} => tre.rp = tre.wp
  /\ o \in {"p_err", "p_send", "p_wait", "p_ccs", "p_enable"} =>
       tre.rp = 0 /\ tre.wp = 0
  /\ o \in {"p_fail", "u_deinit"} => tre.rp = tre.wp
  /\ q \in {"skb", "gen"} => Used(tre) < N - 1
  /\ o = "p_fill" => pre_alloc /\ nr_el >= 0 /\ Used(tre) + nr_el + Taken <= N - 1
  /\ x[DataRing] = "recycle" => pre_alloc

\* elements from p to i; from the read pointer to i
Gap(p, i) == IF i >= p THEN i - p ELSE i - p + N
Dist(i) == Gap(tre.rp, i)
Tx(i)   == ev[DataRing][i].type = "TX" /\ ~ev[DataRing][i].stale
Idx(i)  == ev[DataRing][i].idx
First   == IF InLoop(DataRing) THEN 2 ELSE 1

\* From the read pointer on: where the transfer loop ends, the elements of the events in
\* their order, the device's element, what it knows of and the host's write pointer.  The
\* event whose transfers are being completed has had its place.
Chain == Dist(d_rp) <= Dist(d_wp) /\ Dist(d_wp) <= Dist(tre.wp)
EvsBehind == \A i \in DataEvs : First <= i /\ Tx(i) => Dist(Idx(i)) < Dist(d_rp)
EvsRising == \A i, j \in DataEvs :
               First <= i /\ i < j /\ Tx(i) /\ Tx(j) => Dist(Idx(i)) < Dist(Idx(j))
LoopBehind == InLoop(DataRing) =>
                /\ Dist(x_to) <= Dist(d_rp)
                /\ \A i \in DataEvs : 2 <= i /\ Tx(i) => Dist(x_to) <= Dist(Idx(i))
Ordered == Chain /\ EvsBehind /\ EvsRising /\ LoopBehind

\* the device may be working on the ring
Live == ch_state = "ENABLED" \/ (o \in {"p_wait", "p_ccs", "p_enable"} /\ Started)

OrderInv == Live => Ordered

\* the packets in the ring, but for one that is being queued and with one that is being handed
\* back
Outstanding == Used(tre) - (IF q = "ring" THEN 1 ELSE 0) + (IF x[DataRing] = "cb" THEN 1 ELSE 0)

\* they are counted
Counted ==
  /\ UL => pending_pkts = Outstanding
  /\ ~UL => pending_pkts = 0

-----------------------------------------------------------------------------
(* PM state, removal, queueing                                             *)

USE DEF pmv, chan, rings, cmdv, task, qv, ov, rv, dev

\* Initially all is idle.
LEMMA InitPm == Init => PmInv
BY DEF Init, PmInv, Quiet, InError, QueuePc

\* Every step leaves the client's threads and the removal where the PM state allows it: an
\* error waits for pm_lock, the removal for the tasklets.
LEMMA PmStep == Prompt /\ ChanInv /\ PmInv /\ [Next]_vars => PmInv'
<1> SUFFICES ASSUME Prompt, ChanInv, PmInv, [Next]_vars PROVE PmInv'
  OBVIOUS
<1> USE DEF PmInv, Quiet, InError, QueuePc, Removing
<1>0. ControlInv /\ x \in [Rings -> TaskPc]
  BY DEF ChanInv, EventInv
<1>1. CASE Queue
  BY <1>1 DEF Queue, QueueSkb, QueueBuf, QueueSteps, QueueSkbLocked, QueueBufFull, QueueGen,
     QueueRing, ClientOpen, SkbOnly
<1>2. CASE Open \/ Close
  BY <1>2 DEF Open, Close, Goto
<1>3. CASE PrepareSteps
  BY <1>0, <1>3 DEF ControlInv, OpLocked, PrepareSteps, PrepareLock, PrepareErr, PrepareSend, PrepareWait, PrepareCcs,
     PrepareEnable, PrepareFill, PrepareDb, PrepareFail, Goto
<1>4. CASE UnprepareSteps
  BY <1>0, <1>4 DEF UnprepareSteps, UnprepareLock, UnprepareErr, UnprepareSend, UnprepareWait,
     UnprepareStale, UnprepareDrain, UnprepareDeinit, Goto
<1>5. CASE RemoveStart
  BY <1>5 DEF RemoveStart, Prompt
<1>6. CASE RemoveSteps \/ Rebind
  BY <1>0, <1>6 DEF ControlInv, RemoveSteps, RemoveLock, RemoveStale, RemoveDrain, RemoveCalled, RemoveClient,
     RemoveDeinit, Rebind, Goto
<1>7. CASE Pm
  <2>1. CASE PmError
    BY <2>1 DEF PmError, PmLock, PmRead
  <2>2. CASE PmSuspend \/ PmResume
    BY <2>2 DEF PmSuspend, PmResume
  <2>3. CASE PmM0Rings
    BY <2>3 DEF PmM0Rings
  <2>4. CASE PmRecover
    BY <2>4 DEF PmRecover
  <2> QED
    BY <1>7, <2>1, <2>2, <2>3, <2>4 DEF Pm
<1>8. CASE Device
  BY <1>8 DEF Device, DevCmd, DevLearn, DevXfer, DevDb
<1>9. ASSUME NEW g \in Rings, Tasklet(g) PROVE PmInv'
  <2>1. UNCHANGED <<pm, r, r_was, q, q_kind, o>> /\ r = "none"
    BY <1>9 DEF Tasklet, TaskStart, TaskEnd, TaskStale, TaskCmd, TaskSee, TaskDb, TaskTx, TaskTake,
       TaskCb, TaskRecycle, TaskTxEnd
  <2> QED
    BY <2>1
<1>10. CASE UNCHANGED vars
  BY <1>10 DEF vars
<1> QED
  BY <1>1, <1>2, <1>3, <1>4, <1>5, <1>6, <1>7, <1>8, <1>9, <1>10 DEF Next, OpenSteps

-----------------------------------------------------------------------------
(* The answers of the command ring                                         *)

\* every answer was there before
SameAnswers ==
  \A i \in CtrlEvs' : IsCmd(i)' =>
    \E j \in CtrlEvs : IsCmd(j) /\ ev'["ctrl"][i].ok = ev["ctrl"][j].ok

\* Nothing happened.
LEMMA AnswersAside == AnswerInv /\ UNCHANGED <<ev, d_cmd>> => AnswerInv' /\ SameAnswers
BY DEF AnswerInv, Answered, IsCmd, CtrlEvs, SameAnswers

\* An event that answers no command is recycled.
LEMMA AnswersDropped ==
  ASSUME EventInv, AnswerInv, NEW g \in Rings, ev[g] # <<>>, ev[g][1].type # "CMD",
         mhi_recycle_ev_ring_element(g), UNCHANGED d_cmd
  PROVE  AnswerInv' /\ SameAnswers
<1>1. CASE g # "ctrl"
  <2>1. ev'["ctrl"] = ev["ctrl"]
    BY <1>1, RecycleDrops, RingNames DEF EventInv, Dropped
  <2> QED
    BY <2>1 DEF AnswerInv, Answered, IsCmd, CtrlEvs, SameAnswers
<1>2. CASE g = "ctrl"
  <2>1. ev["ctrl"] \in Seq(Event) /\ Dropped("ctrl") /\ ev'["ctrl"] \in Seq(Event)
    BY <1>2, RecycleDrops, RingNames DEF EventInv, Dropped
  <2>2. Len(ev["ctrl"]) \in Nat /\ Len(ev'["ctrl"]) = Len(ev["ctrl"]) - 1 /\ ~IsCmd(1)
        /\ \A i \in 1..Len(ev'["ctrl"]) : ev'["ctrl"][i] = ev["ctrl"][i + 1]
    BY <1>2, <2>1 DEF Dropped, IsCmd
  <2>3. \A i \in CtrlEvs' : i + 1 \in CtrlEvs /\ (IsCmd(i)' <=> IsCmd(i + 1))
    BY <2>2 DEF CtrlEvs, IsCmd
  <2>4. \A j \in CtrlEvs : IsCmd(j) => j - 1 \in CtrlEvs' /\ IsCmd(j - 1)'
    BY <2>2 DEF CtrlEvs, IsCmd
  <2>5. Answered' <=> Answered
    BY <2>3, <2>4 DEF Answered
  <2>6. SameAnswers /\ \A i \in CtrlEvs' : IsCmd(i)' => ~ev'["ctrl"][i].stale
    BY <2>2, <2>3 DEF AnswerInv, CtrlEvs, SameAnswers
  <2>7. \A i, j \in CtrlEvs' : IsCmd(i)' /\ IsCmd(j)' => i = j
    <3> SUFFICES ASSUME NEW i \in CtrlEvs', NEW j \in CtrlEvs', IsCmd(i)', IsCmd(j)' PROVE i = j
      OBVIOUS
    <3>1. i + 1 = j + 1
      BY <2>3 DEF AnswerInv
    <3> QED
      BY <3>1, <2>2 DEF CtrlEvs
  <2> QED
    BY <2>5, <2>6, <2>7 DEF AnswerInv
<1> QED
  BY <1>1, <1>2

\* The device reports about the transfer ring.
LEMMA AnswersAdded ==
  ASSUME EventInv, AnswerInv, NEW g \in Rings, NEW e \in Event, e.type # "CMD", Put(g, e),
         UNCHANGED d_cmd
  PROVE  AnswerInv' /\ SameAnswers
<1>1. CASE g # "ctrl"
  <2>1. ev'["ctrl"] = ev["ctrl"]
    BY <1>1, PutAdds, RingNames DEF EventInv, Added
  <2> QED
    BY <2>1 DEF AnswerInv, Answered, IsCmd, CtrlEvs, SameAnswers
<1>2. CASE g = "ctrl"
  <2>1. ev["ctrl"] \in Seq(Event) /\ Added("ctrl", e)
    BY <1>2, PutAdds, RingNames DEF EventInv
  <2>2. Len(ev["ctrl"]) \in Nat /\ Len(ev'["ctrl"]) = Len(ev["ctrl"]) + 1
        /\ ev'["ctrl"][Len(ev["ctrl"]) + 1].type # "CMD"
        /\ \A i \in 1..Len(ev["ctrl"]) : ev'["ctrl"][i] = ev["ctrl"][i]
    BY <2>1 DEF Added, IsCmd
  <2>3. \A i \in CtrlEvs' : IsCmd(i)' => i \in CtrlEvs /\ IsCmd(i) /\ ev'["ctrl"][i] = ev["ctrl"][i]
    BY <2>2 DEF CtrlEvs, IsCmd
  <2>4. \A i \in CtrlEvs : IsCmd(i) => i \in CtrlEvs' /\ IsCmd(i)'
    BY <2>2 DEF CtrlEvs, IsCmd
  <2>5. Answered' <=> Answered
    BY <2>3, <2>4 DEF Answered
  <2> QED
    BY <2>3, <2>5 DEF AnswerInv, SameAnswers
<1> QED
  BY <1>1, <1>2

\* mhi_mark_stale_events() marks no answer of a command.
LEMMA AnswersMarked ==
  ASSUME EventInv, AnswerInv, mhi_mark_stale_events, UNCHANGED d_cmd
  PROVE  AnswerInv' /\ SameAnswers
<1>1. Marked /\ "ctrl" \in Rings
  BY MarkMarks, RingNames DEF EventInv
<1>2. CtrlEvs' = CtrlEvs /\ \A i \in CtrlEvs : (IsCmd(i)' <=> IsCmd(i)) /\ ev'["ctrl"][i].ok = ev["ctrl"][i].ok
  BY <1>1 DEF Marked, CtrlEvs, IsCmd
<1>3. \A i \in CtrlEvs : IsCmd(i) => ~ev'["ctrl"][i].stale
  <2>1. CASE DataRing = "ctrl"
    BY <1>1, <2>1 DEF Marked, CtrlEvs, IsCmd, AnswerInv
  <2>2. CASE DataRing # "ctrl"
    <3>1. ev'["ctrl"] = ev["ctrl"]
      BY <2>2, RingNames DEF mhi_mark_stale_events, EventInv
    <3> QED
      BY <3>1 DEF AnswerInv
  <2> QED
    BY <2>1, <2>2
<1> QED
  BY <1>2, <1>3 DEF AnswerInv, Answered, SameAnswers

\* The device answers a command.
LEMMA AnswersGiven ==
  ASSUME EventInv, AnswerInv, ~Answered, NEW e \in Event, e.type = "CMD", ~e.stale, Put("ctrl", e),
         d_cmd' = 1
  PROVE  AnswerInv' /\ \A i \in CtrlEvs' : IsCmd(i)' => ev'["ctrl"][i] = e
<1>1. ev["ctrl"] \in Seq(Event) /\ Added("ctrl", e)
  BY PutAdds, RingNames DEF EventInv
<1>2. Len(ev["ctrl"]) \in Nat /\ Len(ev'["ctrl"]) = Len(ev["ctrl"]) + 1
      /\ ev'["ctrl"][Len(ev["ctrl"]) + 1] = e
      /\ \A i \in 1..Len(ev["ctrl"]) : ev'["ctrl"][i] = ev["ctrl"][i]
  BY <1>1 DEF Added
<1>3. \A i \in CtrlEvs' : IsCmd(i)' <=> i = Len(ev["ctrl"]) + 1
  BY <1>2 DEF CtrlEvs, IsCmd, Answered
<1>4. Answered'
  BY <1>2, <1>3 DEF CtrlEvs, Answered
<1> QED
  BY <1>2, <1>3, <1>4 DEF AnswerInv

\* The answer is taken: none is left.
LEMMA AnswersTaken ==
  ASSUME EventInv, AnswerInv, NEW g \in Rings, ev[g] # <<>>, ev[g][1].type = "CMD",
         mhi_recycle_ev_ring_element(g), d_cmd' = 0
  PROVE  AnswerInv' /\ ~Answered' /\ g = "ctrl" /\ d_cmd = 1
<1>1. ev[g] \in Seq(Event) /\ Len(ev[g]) >= 1
  BY DEF EventInv
<1>2. g = "ctrl"
  BY <1>1 DEF EventInv
<1>3. Len(ev["ctrl"]) \in Nat /\ Len(ev'["ctrl"]) = Len(ev["ctrl"]) - 1 /\ 1 \in CtrlEvs /\ IsCmd(1)
      /\ \A i \in 1..Len(ev'["ctrl"]) : ev'["ctrl"][i] = ev["ctrl"][i + 1]
  BY <1>1, <1>2, RecycleDrops DEF EventInv, Dropped, CtrlEvs, IsCmd
<1>4. d_cmd = 1
  BY <1>3 DEF AnswerInv, Answered
<1>5. \A i \in CtrlEvs' : i + 1 \in CtrlEvs /\ i + 1 # 1 /\ (IsCmd(i)' <=> IsCmd(i + 1))
  BY <1>3 DEF CtrlEvs, IsCmd
<1>6. \A i \in CtrlEvs' : ~IsCmd(i)'
  BY <1>3, <1>5 DEF AnswerInv
<1> QED
  BY <1>2, <1>4, <1>6 DEF AnswerInv, Answered

-----------------------------------------------------------------------------
(* Commands                                                                *)

\* Initially no command was sent.
LEMMA InitCmd == Init => CmdInv
<1> SUFFICES ASSUME Init PROVE CmdInv
  OBVIOUS
<1>1. ev["ctrl"] = <<>>
  BY RingNames DEF Init
<1>2. AnswerInv
  BY <1>1 DEF Init, AnswerInv, Answered, CtrlEvs
<1> QED
  BY <1>2 DEF Init, CmdInv

\* What a command ring with at most one command is.
LEMMA CmdRing ==
  ASSUME CmdInv
  PROVE  /\ Len(cmds) \in {0, 1} /\ c_db \in {0, 1} /\ d_cmd \in {0, 1}
         /\ cmds = <<>> <=> Len(cmds) = 0
         /\ cmds # <<>> => Tail(cmds) = <<>>
         /\ cmds = <<>> => c_db = 0 /\ d_cmd = 0
         /\ \A c \in {"START", "RESET"} : cmds = <<>> => Append(cmds, c) = <<c>>
<1>1. /\ Len(cmds) \in {0, 1} /\ (cmds = <<>> <=> Len(cmds) = 0)
      /\ c_db \in 0..Len(cmds) /\ d_cmd \in 0..c_db
  BY DEF CmdInv
<1>2. c_db \in {0, 1} /\ d_cmd \in {0, 1} /\ (cmds = <<>> => c_db = 0 /\ d_cmd = 0)
  <2>1. \A n \in {0, 1} : \A a \in 0..n : \A b \in 0..a : a \in {0, 1} /\ b \in {0, 1}
                                                       /\ (n = 0 => a = 0 /\ b = 0)
    OBVIOUS
  <2> QED
    BY <1>1, <2>1, Zenon
<1>3. cmds # <<>> => Tail(cmds) = <<>>
  <2>1. Tail(<<"START">>) = <<>> /\ Tail(<<"RESET">>) = <<>>
    OBVIOUS
  <2> QED
    BY <2>1 DEF CmdInv
<1>4. \A c \in {"START", "RESET"} : Append(<<>>, c) = <<c>>
  OBVIOUS
<1> QED
  BY <1>1, <1>2, <1>3, <1>4

\* A step of the opening thread.
LEMMA CmdOpen ==
  ASSUME Prompt, ChanInv, PmInv, CmdInv, OpenSteps
  PROVE  CmdInv'
<1> USE DEF InError, Goto
<1>0. EventInv /\ AnswerInv
  BY DEF ChanInv, CmdInv
<1>a. ASSUME UNCHANGED <<ev, d_cmd>> PROVE AnswerInv'
  BY <1>0, <1>a, AnswersAside
<1>1. CASE PrepareLock
  BY <1>1, <1>a DEF PrepareLock, CmdInv
<1>2. CASE PrepareErr
  BY <1>2, <1>a DEF PrepareErr, CmdInv
<1>3. CASE PrepareSend
  <2>1. cmds = <<>> /\ c_db = 0 /\ d_cmd = 0 /\ Len(cmds) = 0
    BY <1>3, CmdRing DEF PrepareSend, CmdInv
  <2>2. cmds' = <<"START">> /\ o' = "p_wait" /\ d_cmd' = 0 /\ c_db' \in {0, 1}
        /\ UNCHANGED <<ev, done, r, pm>> /\ o = "p_send"
    BY <1>3, <2>1, CmdRing, ChanConstants DEF PrepareSend, mhi_send_cmd
  <2> QED
    BY <2>1, <2>2, <1>a DEF CmdInv
<1>4. CASE PrepareWait
  <2>1. UNCHANGED <<cmds, c_db, d_cmd, ev, r, pm>> /\ o = "p_wait" /\ done' = FALSE
        /\ \/ done /\ o' = "p_ccs"
           \/ InError /\ o' = "p_fail"
    BY <1>4 DEF PrepareWait, TimedOut, Prompt
  <2> QED
    BY <2>1, <1>a DEF CmdInv, PmInv
<1>5. CASE PrepareCcs
  BY <1>5, <1>a DEF PrepareCcs, CmdWorked, CmdInv, PmInv
<1>6. CASE PrepareEnable
  BY <1>6, <1>a DEF PrepareEnable, CmdInv
<1>7. CASE PrepareFill
  BY <1>7, <1>a DEF PrepareFill, CmdInv
<1>8. CASE PrepareDb
  BY <1>8, <1>a DEF PrepareDb, CmdInv
<1>9. CASE PrepareFail
  BY <1>9, <1>a DEF PrepareFail, CmdInv
<1>10. CASE UnprepareLock
  BY <1>10, <1>a DEF UnprepareLock, CmdInv
<1>11. CASE UnprepareErr
  BY <1>11, <1>a DEF UnprepareErr, CmdInv
<1>12. CASE UnprepareSend
  <2>1. cmds = <<>> /\ c_db = 0 /\ d_cmd = 0 /\ Len(cmds) = 0
    BY <1>12, CmdRing DEF UnprepareSend, CmdInv
  <2>2. cmds' = <<"RESET">> /\ o' = "u_wait" /\ d_cmd' = 0 /\ c_db' \in {0, 1}
        /\ UNCHANGED <<ev, done, r, pm>> /\ o = "u_send"
    BY <1>12, <2>1, CmdRing, ChanConstants DEF UnprepareSend, mhi_send_cmd
  <2> QED
    BY <2>1, <2>2, <1>a DEF CmdInv
<1>13. CASE UnprepareWait
  <2>1. UNCHANGED <<cmds, c_db, d_cmd, ev, r, pm>> /\ o = "u_wait" /\ done' = FALSE /\ o' = "u_stale"
        /\ (done \/ InError)
    BY <1>13 DEF UnprepareWait, TimedOut, Prompt
  <2> QED
    BY <2>1, <1>a DEF CmdInv, PmInv
<1>14. CASE UnprepareStale
  <2>1. AnswerInv'
    BY <1>0, <1>14, AnswersMarked DEF UnprepareStale
  <2> QED
    BY <1>14, <2>1 DEF UnprepareStale, CmdInv
<1>15. CASE UnprepareDrain
  BY <1>15, <1>a DEF UnprepareDrain, CmdInv
<1>16. CASE UnprepareDeinit
  BY <1>16, <1>a DEF UnprepareDeinit, CmdInv
<1> QED
  BY <1>1, <1>2, <1>3, <1>4, <1>5, <1>6, <1>7, <1>8, <1>9, <1>10, <1>11, <1>12, <1>13, <1>14,
     <1>15, <1>16 DEF OpenSteps, PrepareSteps, UnprepareSteps

\* The places of a tasklet that recycle an event: what event it is.
LEMMA RecycledEvent ==
  ASSUME ChanInv, NEW g \in Rings
  PROVE  /\ ev[g] # <<>> => Head(ev[g]) = ev[g][1]
         /\ x[g] \in {"seen", "loop", "cb", "recycle"} => ev[g] # <<>> /\ ev[g][1].type # "CMD"
         /\ ev[g] # <<>> /\ ev[g][1].type # "CMD" => g = DataRing
         /\ x[g] \in {"loop", "cb", "recycle"} => ch_state = "ENABLED" /\ ev[g][1].type = "TX"
<1>1. ev[g] \in Seq(Event) /\ (ev[g] # <<>> => 1 \in 1..Len(ev[g]))
  BY DEF ChanInv, EventInv
<1> QED
  BY <1>1 DEF ChanInv, EventInv, InLoop

\* A step of a tasklet.
LEMMA CmdTasklet ==
  ASSUME ChanInv, PmInv, CmdInv, NEW g \in Rings, Tasklet(g)
  PROVE  CmdInv'
<1> USE DEF InError
<1>0. EventInv /\ AnswerInv
  BY DEF ChanInv, CmdInv
<1>k. ASSUME AnswerInv', UNCHANGED <<cmds, c_db, d_cmd, pm, o, r, done>> PROVE CmdInv'
  BY <1>k DEF CmdInv
<1>d. ASSUME mhi_recycle_ev_ring_element(g), ev[g] # <<>>, ev[g][1].type # "CMD",
             UNCHANGED <<cmds, c_db, d_cmd, pm, o, r, done>>
      PROVE  CmdInv'
  BY <1>0, <1>d, <1>k, AnswersDropped
<1>a. ASSUME UNCHANGED <<ev, cmds, c_db, d_cmd, pm, o, r, done>> PROVE CmdInv'
  BY <1>0, <1>a, <1>k, AnswersAside
<1>1. CASE TaskStart(g) \/ TaskEnd(g) \/ TaskSee(g) \/ TaskTake(g) \/ TaskCb(g) \/ TaskRecycle(g)
  BY <1>1, <1>a DEF TaskStart, TaskEnd, TaskSee, TaskTake, TaskCb, TaskRecycle
<1>2. CASE TaskStale(g)
  <2>1. ev[g] # <<>> /\ ev[g][1].stale /\ ev[g] \in Seq(Event) /\ 1 \in 1..Len(ev[g])
    BY <1>0, <1>2, RecycledEvent DEF TaskStale, EventInv
  <2>2. ev[g][1].type # "CMD"
    BY <1>0, <2>1 DEF EventInv, AnswerInv, IsCmd, CtrlEvs
  <2> QED
    BY <1>2, <1>d, <2>1, <2>2 DEF TaskStale
<1>3. CASE TaskCmd(g)
  <2>1. ev[g] # <<>> /\ ev[g][1].type = "CMD"
    BY <1>3, RecycledEvent DEF TaskCmd, Is
  <2>2. d_cmd = 1
    <3>1. ev[g] \in Seq(Event) /\ 1 \in 1..Len(ev[g])
      BY <1>0, <2>1 DEF EventInv
    <3> QED
      BY <1>0, <2>1, <3>1 DEF EventInv, AnswerInv, Answered, IsCmd, CtrlEvs
  <2>3. cmds # <<>> /\ c_db = 1
    BY <2>2, CmdRing DEF CmdInv
  <2>4. cmds' = <<>> /\ c_db' = 0 /\ d_cmd' = 0 /\ UNCHANGED <<pm, o, r>>
    BY <1>3, <2>2, <2>3, CmdRing DEF TaskCmd
  <2>5. AnswerInv'
    BY <1>0, <1>3, <2>1, <2>4, AnswersTaken DEF TaskCmd
  <2>6. o \notin {"p_send", "u_send"} \/ r # "none"
    BY <2>3 DEF CmdInv
  <2> QED
    BY <2>4, <2>5, <2>6 DEF CmdInv
<1>4. CASE TaskDb(g)
  BY <1>4, <1>d, RecycledEvent DEF TaskDb
<1>5. CASE TaskTx(g)
  BY <1>5, <1>a, <1>d, RecycledEvent DEF TaskTx
<1>6. CASE TaskTxEnd(g)
  BY <1>6, <1>d, RecycledEvent DEF TaskTxEnd
<1> QED
  BY <1>1, <1>2, <1>3, <1>4, <1>5, <1>6 DEF Tasklet

\* A step of the device.
LEMMA CmdDevice ==
  ASSUME ChanInv, PmInv, CmdInv, Device
  PROVE  CmdInv'
<1>0. EventInv /\ AnswerInv /\ sess \in Nat /\ d_sess \in Nat /\ 0 \in El
  BY ChanConstants DEF ChanInv, CmdInv, EventInv, El
<1>1. ASSUME NEW ok \in BOOLEAN, DevCmd(ok) PROVE CmdInv'
  <2> DEFINE e == [type |-> "CMD", stale |-> FALSE, idx |-> 0, sess |-> sess, ok |-> ok]
  <2>1. e \in Event /\ e.type = "CMD" /\ ~e.stale
    BY <1>0 DEF Event
  <2>2. d_cmd = 0 /\ c_db = 1 /\ d_cmd' = 1
    BY <1>1, CmdRing DEF DevCmd
  <2>3. Put("ctrl", e) /\ UNCHANGED <<cmds, c_db, pm, o, r, done>>
    BY <1>1 DEF DevCmd
  <2>4. ~Answered
    BY <1>0, <2>2 DEF AnswerInv
  <2> HIDE DEF e
  <2>5. AnswerInv'
    BY <1>0, <2>1, <2>2, <2>3, <2>4, AnswersGiven
  <2> QED
    BY <2>2, <2>3, <2>5 DEF CmdInv, InError
<1>2. ASSUME NEW i \in El, DevXfer(i) PROVE CmdInv'
  <2> DEFINE e == [type |-> "TX", stale |-> FALSE, idx |-> i, sess |-> d_sess, ok |-> TRUE]
  <2>1. e \in Event /\ e.type # "CMD" /\ Put(DataRing, e)
        /\ UNCHANGED <<cmds, c_db, d_cmd, pm, o, r, done>>
    BY <1>0, <1>2 DEF Event, DevXfer
  <2> HIDE DEF e
  <2>2. AnswerInv'
    BY <1>0, <2>1, RingNames, AnswersAdded
  <2> QED
    BY <2>1, <2>2 DEF CmdInv, InError
<1>3. CASE DevDb
  <2> DEFINE e == [type |-> "DB", stale |-> FALSE, idx |-> 0, sess |-> d_sess, ok |-> TRUE]
  <2>1. e \in Event /\ e.type # "CMD" /\ Put(DataRing, e)
        /\ UNCHANGED <<cmds, c_db, d_cmd, pm, o, r, done>>
    BY <1>0, <1>3 DEF Event, DevDb
  <2> HIDE DEF e
  <2>2. AnswerInv'
    BY <1>0, <2>1, RingNames, AnswersAdded
  <2> QED
    BY <2>1, <2>2 DEF CmdInv, InError
<1>4. CASE DevLearn
  BY <1>0, <1>4, AnswersAside DEF DevLearn, CmdInv, InError
<1> QED
  BY <1>1, <1>2, <1>3, <1>4 DEF Device

\* Every step leaves at most one command in the ring, with its answer.
LEMMA CmdStep == Prompt /\ ChanInv /\ PmInv /\ CmdInv /\ [Next]_vars => CmdInv'
<1> SUFFICES ASSUME Prompt, ChanInv, PmInv, CmdInv, [Next]_vars PROVE CmdInv'
  OBVIOUS
<1> USE DEF InError
<1>0. EventInv /\ AnswerInv /\ ControlInv
  BY DEF ChanInv, CmdInv
<1>a. ASSUME UNCHANGED <<ev, d_cmd>> PROVE AnswerInv'
  BY <1>0, <1>a, AnswersAside
<1>1. CASE Queue
  <2>1. UNCHANGED <<ev, cmds, c_db, d_cmd, pm, o, r, done>>
    BY <1>1 DEF Queue, QueueSkb, QueueBuf, QueueSteps, QueueSkbLocked, QueueBufFull, QueueGen, QueueRing
  <2> QED
    BY <2>1, <1>a DEF CmdInv
<1>2. CASE Open \/ Close
  BY <1>2, <1>a DEF Open, Close, Goto, CmdInv
<1>3. CASE RemoveStart
  BY <1>3, <1>a DEF RemoveStart, CmdInv
<1>4. CASE RemoveStale
  <2>1. AnswerInv'
    BY <1>0, <1>4, AnswersMarked DEF RemoveStale
  <2> QED
    BY <1>4, <2>1 DEF RemoveStale, CmdInv
<1>5. CASE RemoveLock \/ RemoveDrain \/ RemoveCalled \/ RemoveClient \/ RemoveDeinit
  BY <1>5, <1>a DEF RemoveLock, RemoveDrain, RemoveCalled, RemoveClient, RemoveDeinit, Goto, CmdInv
<1>6. CASE Rebind
  BY <1>6 DEF Rebind, PmInv
<1>7. CASE PmError \/ PmSuspend \/ PmResume
  BY <1>7, <1>a DEF PmError, PmSuspend, PmResume, CmdInv
<1>8. CASE PmM0Rings
  <2>1. c_db' \in {c_db, Len(cmds)} /\ UNCHANGED <<cmds, d_cmd, ev, pm, o, r, done>>
    BY <1>8 DEF PmM0Rings
  <2> QED
    BY <2>1, <1>a, CmdRing DEF CmdInv
<1>9. CASE PmRecover
  <2>1. ev'["ctrl"] = <<>> /\ d_cmd' = 0 /\ c_db' = 0 /\ cmds' = <<>> /\ o' = "closed"
    BY <1>9, <1>0, RingNames DEF PmRecover, ControlInv
  <2>2. AnswerInv'
    BY <2>1 DEF AnswerInv, Answered, CtrlEvs
  <2> QED
    BY <2>1, <2>2 DEF CmdInv
<1>10. CASE UNCHANGED vars
  BY <1>10, <1>a DEF vars, CmdInv
<1> QED
  BY <1>1, <1>2, <1>3, <1>4, <1>5, <1>6, <1>7, <1>8, <1>9, <1>10, CmdOpen, CmdTasklet, CmdDevice
  DEF Next, RemoveSteps, Pm

-----------------------------------------------------------------------------
(* The host and the device agree on whether the channel is started          *)

\* Initially it is not.
LEMMA InitStart == Init => StartInv
BY DEF Init, StartInv, InError

\* The answers stay true where they stay.
LEMMA StartAside ==
  ASSUME StartInv, SameAnswers,
         UNCHANGED <<pm, o, cmds, d_cmd, done, ccs, ch_state, d_on, d_sess, sess>>
  PROVE  StartInv'
<1>1. o' = "p_wait" => \A i \in CtrlEvs' : IsCmd(i)' => (ev'["ctrl"][i].ok <=> Started')
  BY DEF StartInv, SameAnswers, Started
<1> QED
  BY <1>1 DEF StartInv, Started, InError

\* A step of the opening thread.
LEMMA StartOpen ==
  ASSUME Prompt, ChanInv, PmInv, CmdInv, StartInv, OpenSteps
  PROVE  StartInv'
<1> USE DEF InError, Goto, StartInv
<1>0. ControlInv /\ EventInv /\ AnswerInv
  BY DEF ChanInv, CmdInv
<1>s. ASSUME UNCHANGED <<d_on, d_sess, sess>> PROVE Started' <=> Started
  BY <1>s DEF Started
<1>1. CASE PrepareLock
  BY <1>1 DEF PrepareLock, mhi_init_chan_ctxt, Started
<1>2. CASE PrepareErr
  BY <1>2 DEF PrepareErr, Started
<1>3. CASE PrepareSend
  <2>1. cmds' = <<"START">> /\ o' = "p_wait" /\ d_cmd' = 0 /\ d_cmd = 0
        /\ UNCHANGED <<ev, pm, r, done, ccs, ch_state, d_on, d_sess, sess>> /\ o = "p_send"
    BY <1>3, CmdRing, ChanConstants DEF PrepareSend, mhi_send_cmd, CmdInv
  <2>2. \A i \in CtrlEvs' : ~IsCmd(i)'
    BY <1>0, <2>1 DEF AnswerInv, Answered, IsCmd, CtrlEvs
  <2>3. ~(done' /\ ccs' = "SUCCESS")
    BY <2>1 DEF CmdInv, PmInv
  <2> QED
    BY <2>1, <2>2, <2>3 DEF Started
<1>4. CASE PrepareWait
  <2>1. UNCHANGED <<cmds, d_cmd, ev, r, pm, ccs, ch_state, d_on, d_sess, sess>> /\ o = "p_wait"
        /\ \/ done /\ o' = "p_ccs"
           \/ InError /\ o' = "p_fail"
    BY <1>4 DEF PrepareWait, TimedOut, Prompt
  <2>2. ~InError /\ done => cmds = <<>>
    BY DEF CmdInv, PmInv
  <2> QED
    BY <2>1, <2>2 DEF Started
<1>5. CASE PrepareCcs
  BY <1>5 DEF PrepareCcs, CmdWorked, Started
<1>6. CASE PrepareEnable
  BY <1>6 DEF PrepareEnable, Started
<1>7. CASE PrepareFill
  BY <1>7 DEF PrepareFill, Started
<1>8. CASE PrepareDb
  BY <1>8 DEF PrepareDb, Started
<1>9. CASE PrepareFail
  BY <1>9 DEF PrepareFail, Started
<1>10. CASE UnprepareLock
  <2>1. ch_state # "ENABLED" => InError
    BY <1>0, <1>10 DEF UnprepareLock, ControlInv, PmInv, Removing
  <2> QED
    BY <1>10, <2>1 DEF UnprepareLock, Started
<1>11. CASE UnprepareErr
  BY <1>11 DEF UnprepareErr, Started
<1>12. CASE UnprepareSend
  <2>1. cmds' # <<>> /\ o' = "u_wait" /\ d_cmd' = 0
        /\ UNCHANGED <<ev, pm, ch_state, d_on, d_sess, sess>> /\ o = "u_send"
    BY <1>12, CmdRing, ChanConstants DEF UnprepareSend, mhi_send_cmd, CmdInv
  <2> QED
    BY <2>1 DEF Started
<1>13. CASE UnprepareWait
  <2>1. UNCHANGED <<cmds, d_cmd, ev, pm, ccs, ch_state, d_on, d_sess, sess>> /\ o = "u_wait"
        /\ o' = "u_stale" /\ (done \/ InError)
    BY <1>13 DEF UnprepareWait, TimedOut, Prompt
  <2>2. ~InError /\ done => cmds = <<>>
    BY DEF CmdInv, PmInv
  <2> QED
    BY <2>1, <2>2 DEF Started
<1>14. CASE UnprepareStale
  BY <1>14 DEF UnprepareStale, Started
<1>15. CASE UnprepareDrain
  BY <1>15 DEF UnprepareDrain, Started
<1>16. CASE UnprepareDeinit
  BY <1>16 DEF UnprepareDeinit, Started
<1> QED
  BY <1>1, <1>2, <1>3, <1>4, <1>5, <1>6, <1>7, <1>8, <1>9, <1>10, <1>11, <1>12, <1>13, <1>14,
     <1>15, <1>16 DEF OpenSteps, PrepareSteps, UnprepareSteps

\* A step of a tasklet.
LEMMA StartTasklet ==
  ASSUME ChanInv, PmInv, CmdInv, StartInv, NEW g \in Rings, Tasklet(g)
  PROVE  StartInv'
<1>0. EventInv /\ AnswerInv
  BY DEF ChanInv, CmdInv
<1>d. ASSUME mhi_recycle_ev_ring_element(g), ev[g] # <<>>, ev[g][1].type # "CMD",
             UNCHANGED <<pm, o, cmds, d_cmd, done, ccs, ch_state, d_on, d_sess, sess>>
      PROVE  StartInv'
  BY <1>0, <1>d, StartAside, AnswersDropped
<1>a. ASSUME UNCHANGED <<ev, pm, o, cmds, d_cmd, done, ccs, ch_state, d_on, d_sess, sess>>
      PROVE StartInv'
  BY <1>0, <1>a, StartAside, AnswersAside
<1>1. CASE TaskStart(g) \/ TaskEnd(g) \/ TaskSee(g) \/ TaskTake(g) \/ TaskCb(g) \/ TaskRecycle(g)
  BY <1>1, <1>a DEF TaskStart, TaskEnd, TaskSee, TaskTake, TaskCb, TaskRecycle
<1>2. CASE TaskStale(g)
  <2>1. ev[g] # <<>> /\ ev[g][1].stale /\ ev[g] \in Seq(Event) /\ 1 \in 1..Len(ev[g])
    BY <1>0, <1>2, RecycledEvent DEF TaskStale, EventInv
  <2>2. ev[g][1].type # "CMD"
    BY <1>0, <2>1 DEF EventInv, AnswerInv, IsCmd, CtrlEvs
  <2> QED
    BY <1>2, <1>d, <2>1, <2>2 DEF TaskStale
<1>3. CASE TaskCmd(g)
  <2>1. ev[g] # <<>> /\ ev[g][1].type = "CMD" /\ Head(ev[g]) = ev[g][1]
    BY <1>3, RecycledEvent DEF TaskCmd, Is
  <2>2. g = "ctrl" /\ 1 \in CtrlEvs /\ IsCmd(1)
    <3>1. ev[g] \in Seq(Event) /\ 1 \in 1..Len(ev[g])
      BY <1>0, <2>1 DEF EventInv
    <3> QED
      BY <1>0, <2>1, <3>1 DEF EventInv, IsCmd, CtrlEvs
  <2>3. d_cmd = 1 /\ cmds # <<>>
    BY <1>0, <2>2, CmdRing DEF AnswerInv, Answered
  <2>4. cmds' = <<>> /\ d_cmd' = 0 /\ UNCHANGED <<pm, o, ch_state, d_on, d_sess, sess>>
    BY <1>3, <2>3, CmdRing DEF TaskCmd
  <2>5. ~Answered'
    BY <1>0, <1>3, <2>1, <2>4, AnswersTaken DEF TaskCmd
  <2>6. o = "p_wait" => (ccs' = "SUCCESS" <=> Started)
    BY <1>3, <2>1, <2>2 DEF TaskCmd, StartInv
  <2>7. o \notin {"p_send", "p_enable"} /\ (o = "p_ccs" => r # "none") /\ r = "none"
    BY <1>3, <2>3 DEF CmdInv, PmInv, Quiet, TaskCmd
  <2> QED
    BY <2>3, <2>4, <2>5, <2>6, <2>7 DEF StartInv, Started, InError, Answered
<1>4. CASE TaskDb(g)
  BY <1>4, <1>d, RecycledEvent DEF TaskDb
<1>5. CASE TaskTx(g)
  BY <1>5, <1>a, <1>d, RecycledEvent DEF TaskTx
<1>6. CASE TaskTxEnd(g)
  BY <1>6, <1>d, RecycledEvent DEF TaskTxEnd
<1> QED
  BY <1>1, <1>2, <1>3, <1>4, <1>5, <1>6 DEF Tasklet

\* A step of the device.
LEMMA StartDevice ==
  ASSUME Prompt, ChanInv, PmInv, CmdInv, StartInv, Device
  PROVE  StartInv'
<1>0. EventInv /\ ControlInv /\ AnswerInv /\ sess \in Nat /\ d_sess \in Nat /\ 0 \in El
  BY ChanConstants DEF ChanInv, CmdInv, EventInv, El
<1>1. ASSUME NEW ok \in BOOLEAN, DevCmd(ok) PROVE StartInv'
  <2> DEFINE e == [type |-> "CMD", stale |-> FALSE, idx |-> 0, sess |-> sess, ok |-> ok]
  <2>1. e \in Event /\ e.type = "CMD" /\ ~e.stale /\ e.ok = ok
    BY <1>0 DEF Event
  <2>2. d_cmd = 0 /\ d_cmd' = 1 /\ cmds # <<>> /\ ~InError
    BY <1>1, CmdRing DEF DevCmd, DbValid, InError
  <2>3. Put("ctrl", e) /\ UNCHANGED <<cmds, pm, o, r, done, ccs, ch_state, sess>>
    BY <1>1 DEF DevCmd
  <2>4. ~Answered
    BY <1>0, <2>2 DEF AnswerInv
  <2> HIDE DEF e
  <2>5. \A i \in CtrlEvs' : IsCmd(i)' => ev'["ctrl"][i].ok = ok
    BY <1>0, <2>1, <2>2, <2>3, <2>4, AnswersGiven
  <2>6. o \in {"p_wait", "u_wait"} /\ ch_state # "ENABLED" /\ ~done
    BY <1>0, <2>2 DEF CmdInv, PmInv, ControlInv, OpLocked
  <2>7. CASE o = "p_wait"
    <3>1. cmds[d_cmd + 1] = "START" /\ ~d_on
      BY <2>2, <2>7 DEF CmdInv, StartInv
    <3>2. Started' <=> ok
      BY <1>1, <3>1 DEF DevCmd, Started
    <3>3. d_on' => d_sess' = sess'
      BY <1>1, <3>1 DEF DevCmd
    <3> QED
      BY <2>2, <2>3, <2>5, <2>6, <2>7, <3>2, <3>3 DEF StartInv
  <2>8. CASE o = "u_wait"
    <3>1. cmds[d_cmd + 1] = "RESET"
      BY <2>2, <2>8 DEF CmdInv
    <3>2. ~d_on'
      BY <1>1, <3>1 DEF DevCmd, Prompt
    <3> QED
      BY <2>2, <2>3, <2>6, <2>8, <3>2 DEF StartInv
  <2> QED
    BY <2>6, <2>7, <2>8
<1>2. ASSUME NEW i \in El, DevXfer(i) PROVE StartInv'
  <2> DEFINE e == [type |-> "TX", stale |-> FALSE, idx |-> i, sess |-> d_sess, ok |-> TRUE]
  <2>1. e \in Event /\ e.type # "CMD" /\ Put(DataRing, e)
        /\ UNCHANGED <<pm, o, cmds, d_cmd, done, ccs, ch_state, d_on, d_sess, sess>>
    BY <1>0, <1>2 DEF Event, DevXfer
  <2> HIDE DEF e
  <2> QED
    BY <1>0, <2>1, RingNames, AnswersAdded, StartAside
<1>3. CASE DevDb
  <2> DEFINE e == [type |-> "DB", stale |-> FALSE, idx |-> 0, sess |-> d_sess, ok |-> TRUE]
  <2>1. e \in Event /\ e.type # "CMD" /\ Put(DataRing, e)
        /\ UNCHANGED <<pm, o, cmds, d_cmd, done, ccs, ch_state, d_on, d_sess, sess>>
    BY <1>0, <1>3 DEF Event, DevDb
  <2> HIDE DEF e
  <2> QED
    BY <1>0, <2>1, RingNames, AnswersAdded, StartAside
<1>4. CASE DevLearn
  BY <1>0, <1>4, AnswersAside, StartAside DEF DevLearn
<1> QED
  BY <1>1, <1>2, <1>3, <1>4 DEF Device

\* Every step keeps what the host believes of the device's channel true.
LEMMA StartStep == Prompt /\ ChanInv /\ PmInv /\ CmdInv /\ StartInv /\ [Next]_vars => StartInv'
<1> SUFFICES ASSUME Prompt, ChanInv, PmInv, CmdInv, StartInv, [Next]_vars PROVE StartInv'
  OBVIOUS
<1> USE DEF InError
<1>0. EventInv /\ AnswerInv /\ ControlInv
  BY DEF ChanInv, CmdInv
<1>a. ASSUME UNCHANGED <<ev, pm, o, cmds, d_cmd, done, ccs, ch_state, d_on, d_sess, sess>>
      PROVE StartInv'
  BY <1>0, <1>a, StartAside, AnswersAside
<1>1. CASE Queue
  BY <1>1, <1>a DEF Queue, QueueSkb, QueueBuf, QueueSteps, QueueSkbLocked, QueueBufFull, QueueGen,
     QueueRing
<1>2. CASE Open \/ Close
  BY <1>2 DEF Open, Close, Goto, StartInv, Started
<1>3. CASE RemoveStart
  <2>1. UNCHANGED <<ev, pm, o, cmds, d_cmd, ch_state, d_on, d_sess, sess>> /\ InError /\ ccs' = "INVALID"
    BY <1>3 DEF RemoveStart, Prompt
  <2> QED
    BY <2>1 DEF StartInv, Started, IsCmd, CtrlEvs
<1>4. CASE RemoveStale
  BY <1>0, <1>4, AnswersMarked, StartAside DEF RemoveStale
<1>5. CASE RemoveLock \/ RemoveDrain \/ RemoveCalled
  BY <1>5 DEF RemoveLock, RemoveDrain, RemoveCalled, StartInv, Started, IsCmd, CtrlEvs
<1>6. CASE RemoveClient \/ RemoveDeinit
  BY <1>6 DEF RemoveClient, RemoveDeinit, Goto, StartInv, Started, IsCmd, CtrlEvs, PmInv
<1>7. CASE Rebind
  BY <1>7 DEF Rebind, PmInv
<1>8. CASE PmError \/ PmSuspend \/ PmResume
  BY <1>8 DEF PmError, PmSuspend, PmResume, StartInv, Started, IsCmd, CtrlEvs
<1>9. CASE PmM0Rings
  BY <1>9, <1>a DEF PmM0Rings
<1>10. CASE PmRecover
  BY <1>0, <1>10 DEF PmRecover, ControlInv, StartInv, Started
<1>11. CASE UNCHANGED vars
  BY <1>11, <1>a DEF vars
<1> QED
  BY <1>1, <1>2, <1>3, <1>4, <1>5, <1>6, <1>7, <1>8, <1>9, <1>10, <1>11, StartOpen, StartTasklet,
     StartDevice DEF Next, RemoveSteps, Pm

-----------------------------------------------------------------------------
(* The events of the channel                                               *)

\* every event that is not stale was there before
SameLoud ==
  \A i \in DataEvs' : Loud(i)' =>
    \E j \in DataEvs : Loud(j) /\ ev'[DataRing][i].sess = ev[DataRing][j].sess

\* An event is recycled.
LEMMA LoudDropped ==
  ASSUME EventInv, NEW g \in Rings, ev[g] # <<>>, mhi_recycle_ev_ring_element(g)
  PROVE  SameLoud
<1>1. Dropped(g) /\ DataRing \in Rings
  BY RecycleDrops, RingNames DEF EventInv
<1>2. CASE g # DataRing
  BY <1>1, <1>2 DEF Dropped, SameLoud, DataEvs, Loud
<1>3. CASE g = DataRing
  <2>1. Len(ev[DataRing]) \in Nat /\ Len(ev'[DataRing]) = Len(ev[DataRing]) - 1
        /\ \A i \in 1..Len(ev'[DataRing]) : ev'[DataRing][i] = ev[DataRing][i + 1]
    <3>1. ev[DataRing] \in Seq(Event)
      BY <1>1 DEF EventInv
    <3> QED
      BY <1>1, <1>3, <3>1 DEF Dropped
  <2>2. \A i \in DataEvs' : i + 1 \in DataEvs /\ (Loud(i)' <=> Loud(i + 1))
                              /\ ev'[DataRing][i].sess = ev[DataRing][i + 1].sess
    BY <2>1 DEF DataEvs, Loud
  <2> QED
    BY <2>2 DEF SameLoud
<1> QED
  BY <1>2, <1>3

\* An event is added: either it is the answer of a command, or the one new one.
LEMMA LoudAdded ==
  ASSUME EventInv, NEW g \in Rings, NEW e \in Event, Put(g, e)
  PROVE  /\ e.type = "CMD" => SameLoud
         /\ \A i \in DataEvs' : Loud(i)' =>
              \/ ev'[DataRing][i].sess = e.sess
              \/ \E j \in DataEvs : Loud(j) /\ ev'[DataRing][i].sess = ev[DataRing][j].sess
<1>1. Added(g, e) /\ DataRing \in Rings
  BY PutAdds, RingNames DEF EventInv
<1>2. CASE g # DataRing
  BY <1>1, <1>2 DEF Added, SameLoud, DataEvs, Loud
<1>3. CASE g = DataRing
  <2>1. Len(ev[DataRing]) \in Nat /\ Len(ev'[DataRing]) = Len(ev[DataRing]) + 1
        /\ ev'[DataRing][Len(ev[DataRing]) + 1] = e
        /\ \A i \in 1..Len(ev[DataRing]) : ev'[DataRing][i] = ev[DataRing][i]
    BY <1>1, <1>3 DEF Added, EventInv
  <2>2. \A i \in DataEvs' : \/ ev'[DataRing][i] = e
                            \/ i \in DataEvs /\ ev'[DataRing][i] = ev[DataRing][i]
    BY <2>1 DEF DataEvs
  <2> QED
    BY <2>2 DEF SameLoud, DataEvs, Loud
<1> QED
  BY <1>2, <1>3

\* mhi_mark_stale_events() leaves none.
LEMMA LoudMarked ==
  ASSUME EventInv, mhi_mark_stale_events
  PROVE  \A i \in DataEvs' : ~Loud(i)'
<1>1. Marked /\ DataRing \in Rings
  BY MarkMarks, RingNames DEF EventInv
<1> QED
  BY <1>1 DEF Marked, DataEvs, Loud

\* The first event stays the first one.
LEMMA HeadStays ==
  ASSUME EventInv, NEW g \in Rings, NEW e \in Event, Put(g, e), ev[DataRing] # <<>>
  PROVE  ev'[DataRing][1] = ev[DataRing][1]
<1>1. Added(g, e) /\ DataRing \in Rings /\ ev[DataRing] \in Seq(Event) /\ Len(ev[DataRing]) >= 1
  BY PutAdds, RingNames DEF EventInv
<1> QED
  BY <1>1 DEF Added

\* Initially there are no events.
LEMMA InitFresh == Init => FreshInv
<1> SUFFICES ASSUME Init PROVE FreshInv
  OBVIOUS
<1>1. ev[DataRing] = <<>> /\ x[DataRing] = "idle"
  BY RingNames DEF Init
<1> QED
  BY <1>1 DEF FreshInv, EvsFresh, HeadFresh, DataEvs, InLoop

\* Every step leaves stale what belongs to an earlier context.
LEMMA EvsStep == Prompt /\ ChanInv /\ PmInv /\ CmdInv /\ StartInv /\ EvsFresh /\ [Next]_vars => EvsFresh'
<1> SUFFICES ASSUME Prompt, ChanInv, PmInv, CmdInv, StartInv, EvsFresh, [Next]_vars PROVE EvsFresh'
  OBVIOUS
<1> USE DEF InError
<1>0. EventInv /\ AnswerInv /\ ControlInv
  BY DEF ChanInv, CmdInv
<1>k. ASSUME SameLoud, UNCHANGED <<pm, o, ch_state, d_on, sess>> PROVE EvsFresh'
  BY <1>k DEF EvsFresh, SameLoud
<1>l. UNCHANGED ev => SameLoud
  BY DEF SameLoud, DataEvs, Loud
<1>a. ASSUME UNCHANGED <<ev, pm, o, ch_state, d_on, sess>> PROVE EvsFresh'
  BY <1>a, <1>k, <1>l
<1>q. UNCHANGED ev => DataEvs' = DataEvs /\ \A i \in DataEvs : (Loud(i)' <=> Loud(i))
                       /\ ev'[DataRing][i].sess = ev[DataRing][i].sess
  BY DEF DataEvs, Loud
<1> USE DEF Goto
<1>1. CASE Queue
  BY <1>1, <1>a DEF Queue, QueueSkb, QueueBuf, QueueSteps, QueueSkbLocked, QueueBufFull, QueueGen,
     QueueRing
<1>2. CASE Open \/ Close
  BY <1>2, <1>q DEF Open, Close, EvsFresh
<1>3. CASE PrepareLock
  <2>1. ~InError => \A i \in DataEvs : ~Loud(i)
    BY <1>3 DEF PrepareLock, EvsFresh, StartInv
  <2>2. UNCHANGED <<ev, pm, ch_state, d_on>> /\ o' \in {"closed", "p_err"} /\ o = "p_lock"
        /\ ch_state # "ENABLED"
    BY <1>0, <1>3 DEF PrepareLock, ControlInv
  <2> QED
    BY <2>1, <2>2, <1>q DEF EvsFresh
<1>4. CASE PrepareErr \/ PrepareSend \/ PrepareWait \/ PrepareCcs
  <2>1. /\ UNCHANGED <<ev, pm, ch_state, d_on, sess>>
        /\ o \in {"p_err", "p_send", "p_wait", "p_ccs"} /\ o' \notin {"u_wait", "u_stale"}
        /\ o' \in {"p_send", "p_wait", "p_ccs", "p_enable"} =>
             ~InError \/ o \in {"p_send", "p_wait", "p_ccs", "p_enable"}
    BY <1>4 DEF PrepareErr, PrepareSend, PrepareWait, PrepareCcs
  <2> QED
    BY <2>1, <1>q DEF EvsFresh
<1>5. CASE PrepareEnable
  <2>1. UNCHANGED <<ev, pm, d_on, sess>> /\ o = "p_enable" /\ o' \in {"p_fill", "open"}
    BY <1>5 DEF PrepareEnable
  <2> QED
    BY <2>1, <1>q DEF EvsFresh
<1>6. CASE PrepareFill \/ PrepareDb \/ PrepareFail
  BY <1>6, <1>q DEF PrepareFill, PrepareDb, PrepareFail, EvsFresh
<1>7. CASE UnprepareLock \/ UnprepareErr \/ UnprepareDrain \/ UnprepareDeinit
  <2>1. /\ UNCHANGED <<ev, pm, d_on, sess>> /\ (ch_state' = "ENABLED" => ch_state = "ENABLED")
        /\ o \notin {"u_wait", "u_stale"} /\ o' \notin {"p_send", "p_wait", "p_ccs", "p_enable"}
    BY <1>7 DEF UnprepareLock, UnprepareErr, UnprepareDrain, UnprepareDeinit
  <2> QED
    BY <2>1, <1>q DEF EvsFresh
<1>8. CASE UnprepareSend \/ UnprepareWait
  <2>1. UNCHANGED <<ev, pm, ch_state, d_on, sess>> /\ o' \in {"u_wait", "u_stale"}
    BY <1>8 DEF UnprepareSend, UnprepareWait
  <2> QED
    BY <2>1, <1>q DEF EvsFresh
<1>9. CASE UnprepareStale \/ RemoveStale
  <2>1. \A i \in DataEvs' : ~Loud(i)'
    BY <1>0, <1>9, LoudMarked DEF UnprepareStale, RemoveStale
  <2> QED
    BY <2>1 DEF EvsFresh
<1>10. CASE RemoveStart \/ RemoveDrain \/ RemoveCalled
  BY <1>10, <1>a DEF RemoveStart, RemoveDrain, RemoveCalled
<1>11. CASE RemoveLock \/ RemoveClient \/ RemoveDeinit
  <2>1. /\ UNCHANGED <<ev, pm, d_on, sess>> /\ InError /\ (ch_state' = "ENABLED" => ch_state = "ENABLED")
        /\ o' = o \/ o' = "closed"
    BY <1>11 DEF RemoveLock, RemoveClient, RemoveDeinit, PmInv
  <2> QED
    BY <2>1, <1>q DEF EvsFresh
<1>12. CASE Rebind
  BY <1>12 DEF Rebind, PmInv
<1>13. CASE PmError \/ PmSuspend \/ PmResume \/ PmM0Rings
  <2>1. UNCHANGED <<ev, o, ch_state, d_on, sess>> /\ (~InError' => ~InError)
    BY <1>13 DEF PmError, PmSuspend, PmResume, PmM0Rings
  <2> QED
    BY <2>1, <1>q DEF EvsFresh
<1>14. CASE PmRecover
  <2>1. ev'[DataRing] = <<>>
    BY <1>14, RingNames DEF PmRecover
  <2> QED
    BY <2>1 DEF EvsFresh, DataEvs
<1>15. ASSUME NEW g \in Rings, Tasklet(g) PROVE EvsFresh'
  <2>1. UNCHANGED <<pm, o, ch_state, d_on, sess>>
    BY <1>15 DEF Tasklet, TaskStart, TaskEnd, TaskStale, TaskCmd, TaskSee, TaskDb, TaskTx, TaskTake,
       TaskCb, TaskRecycle, TaskTxEnd
  <2>2. UNCHANGED ev \/ (mhi_recycle_ev_ring_element(g) /\ ev[g] # <<>>)
    BY <1>15, RecycledEvent DEF Tasklet, TaskStart, TaskEnd, TaskStale, TaskCmd, TaskSee, TaskDb,
       TaskTx, TaskTake, TaskCb, TaskRecycle, TaskTxEnd, Is
  <2>3. SameLoud
    BY <1>0, <1>l, <2>2, LoudDropped
  <2> QED
    BY <1>k, <2>1, <2>3
<1>16. ASSUME NEW ok \in BOOLEAN, DevCmd(ok) PROVE EvsFresh'
  <2> DEFINE e == [type |-> "CMD", stale |-> FALSE, idx |-> 0, sess |-> sess, ok |-> ok]
  <2>1. e \in Event /\ e.type = "CMD"
    BY <1>0, ChanConstants DEF Event, EventInv, El
  <2>2. Put("ctrl", e) /\ UNCHANGED <<pm, o, ch_state, sess>>
    BY <1>16 DEF DevCmd
  <2> HIDE DEF e
  <2>3. SameLoud
    BY <1>0, <2>1, <2>2, LoudAdded, RingNames
  <2>4. o \in {"p_wait", "u_wait"}
    BY <1>16, CmdRing DEF DevCmd, DbValid, CmdInv
  <2>5. o = "p_wait" => ~d_on
    BY <1>16, CmdRing DEF DevCmd, DbValid, StartInv
  <2>6. ~InError
    BY <1>16 DEF DevCmd, DbValid
  <2> QED
    BY <2>2, <2>3, <2>4, <2>5, <2>6 DEF EvsFresh, SameLoud
<1>17. ASSUME NEW e \in Event, e.sess = d_sess, Put(DataRing, e), DbValid, d_on,
              UNCHANGED <<pm, o, ch_state, d_on, sess>>
       PROVE  EvsFresh'
  <2>1. ~InError /\ d_sess = sess
    BY <1>17 DEF DbValid, StartInv
  <2>2. \A i \in DataEvs' : Loud(i)' =>
              \/ ev'[DataRing][i].sess = e.sess
              \/ \E j \in DataEvs : Loud(j) /\ ev'[DataRing][i].sess = ev[DataRing][j].sess
    BY <1>0, <1>17, LoudAdded, RingNames
  <2> QED
    BY <1>17, <2>1, <2>2 DEF EvsFresh
<1>18. ASSUME NEW i \in El, DevXfer(i) PROVE EvsFresh'
  <2> DEFINE e == [type |-> "TX", stale |-> FALSE, idx |-> i, sess |-> d_sess, ok |-> TRUE]
  <2>1. e \in Event /\ e.sess = d_sess /\ Put(DataRing, e)
    BY <1>0, <1>18 DEF Event, EventInv, DevXfer
  <2> HIDE DEF e
  <2> QED
    BY <1>17, <1>18, <2>1 DEF DevXfer
<1>19. CASE DevDb
  <2> DEFINE e == [type |-> "DB", stale |-> FALSE, idx |-> 0, sess |-> d_sess, ok |-> TRUE]
  <2>1. e \in Event /\ e.sess = d_sess /\ Put(DataRing, e)
    BY <1>0, <1>19, ChanConstants DEF Event, EventInv, DevDb, El
  <2> HIDE DEF e
  <2> QED
    BY <1>17, <1>19, <2>1 DEF DevDb
<1>20. CASE UNCHANGED vars
  BY <1>20, <1>a DEF vars
<1>21. CASE DevLearn
  BY <1>21, <1>a DEF DevLearn
<1> QED
  BY <1>1, <1>2, <1>3, <1>4, <1>5, <1>6, <1>7, <1>8, <1>9, <1>10, <1>11, <1>12, <1>13, <1>14, <1>15,
     <1>16, <1>18, <1>19, <1>20, <1>21
  DEF Next, OpenSteps, PrepareSteps, UnprepareSteps, RemoveSteps, Pm, Device

\* Every step keeps the event in the transfer loop one that is not stale.
LEMMA HeadStep == Prompt /\ ChanInv /\ PmInv /\ CmdInv /\ HeadFresh /\ [Next]_vars => HeadFresh'
<1> SUFFICES ASSUME Prompt, ChanInv, PmInv, CmdInv, HeadFresh, [Next]_vars PROVE HeadFresh'
  OBVIOUS
<1>0. EventInv /\ ControlInv /\ DataRing \in Rings /\ x \in [Rings -> TaskPc]
  BY RingNames DEF ChanInv, EventInv
<1>i. x'[DataRing] \in {"idle", "run"} => HeadFresh'
  BY DEF HeadFresh, InLoop
<1>a. ASSUME UNCHANGED <<x, ev, ch_state, o, done>> PROVE HeadFresh'
  BY <1>a DEF HeadFresh, InLoop
\* another thread, while the tasklet is not completing transfers
<1>b. ASSUME UNCHANGED <<x, ev>>, ChanLock \/ ch_state' = ch_state,
             ch_state' = "ENABLED" => ch_state = "ENABLED" \/ o = "p_enable",
             o' = "p_ccs" => o = "p_ccs" \/ (o = "p_wait" /\ done),
             o' = "p_enable" => o \in {"p_ccs", "p_enable"},
             o' = "p_wait" /\ done' => r # "none" \/ (o = "p_wait" /\ done)
      PROVE  HeadFresh'
  BY <1>0, <1>b DEF HeadFresh, InLoop, PmInv, Quiet
<1> USE DEF Goto
<1>1. CASE Queue
  BY <1>1, <1>a DEF Queue, QueueSkb, QueueBuf, QueueSteps, QueueSkbLocked, QueueBufFull, QueueGen,
     QueueRing
<1>2. CASE Open \/ Close
  BY <1>2, <1>b DEF Open, Close
<1>3. CASE PrepareLock \/ PrepareErr \/ PrepareWait \/ PrepareCcs
  BY <1>3, <1>b DEF PrepareLock, PrepareErr, PrepareWait, PrepareCcs
<1>4. CASE PrepareSend
  <2>1. done => r # "none"
    BY <1>4 DEF PrepareSend, CmdInv
  <2> QED
    BY <1>4, <1>b, <2>1 DEF PrepareSend
<1>5. CASE PrepareEnable \/ PrepareFill \/ PrepareDb \/ PrepareFail
  BY <1>5, <1>b DEF PrepareEnable, PrepareFill, PrepareDb, PrepareFail
<1>6. CASE UnprepareLock \/ UnprepareErr \/ UnprepareSend \/ UnprepareWait \/ UnprepareDrain
           \/ UnprepareDeinit
  BY <1>6, <1>b DEF UnprepareLock, UnprepareErr, UnprepareSend, UnprepareWait, UnprepareDrain,
     UnprepareDeinit
<1>7. CASE UnprepareStale
  <2>1. ~InLoop(DataRing) /\ UNCHANGED <<x, ch_state>> /\ ch_state # "ENABLED" /\ o' = "u_drain"
    BY <1>0, <1>7 DEF UnprepareStale, ControlInv, OpLocked, EventInv
  <2>2. HwRing => x[DataRing] = "idle"
    BY <1>7 DEF UnprepareStale, mhi_mark_stale_events, DataRing
  <2> QED
    BY <2>1, <2>2 DEF HeadFresh, InLoop
<1>8. CASE RemoveStart \/ RemoveStale
  <2>1. x'[DataRing] = "idle"
    BY <1>0, <1>8 DEF RemoveStart, RemoveStale, Prompt, PmInv, Quiet
  <2> QED
    BY <1>i, <2>1
<1>9. CASE RemoveLock \/ RemoveDrain \/ RemoveCalled \/ RemoveClient \/ RemoveDeinit \/ Rebind
  <2>1. x'[DataRing] = "idle"
    BY <1>0, <1>9 DEF RemoveLock, RemoveDrain, RemoveCalled, RemoveClient, RemoveDeinit, Rebind, PmInv, Quiet
  <2> QED
    BY <1>i, <2>1
<1>10. CASE PmError \/ PmSuspend \/ PmResume \/ PmM0Rings
  BY <1>10, <1>a DEF PmError, PmSuspend, PmResume, PmM0Rings
<1>11. CASE PmRecover
  BY <1>0, <1>11, <1>i DEF PmRecover
<1>12. ASSUME NEW g \in Rings, Tasklet(g) PROVE HeadFresh'
  <2>0. UNCHANGED <<ch_state, o>>
    BY <1>12 DEF Tasklet, TaskStart, TaskEnd, TaskStale, TaskCmd, TaskSee, TaskDb, TaskTx, TaskTake,
       TaskCb, TaskRecycle, TaskTxEnd
  <2>1. CASE TaskStart(g) \/ TaskEnd(g)
    BY <2>0, <2>1, <1>0 DEF TaskStart, TaskEnd, HeadFresh, InLoop
  <2>2. CASE TaskSee(g)
    <3>1. ~ev[g][1].stale
      BY <2>2, RecycledEvent DEF TaskSee, Is
    <3> QED
      BY <2>0, <2>2, <3>1, <1>0 DEF TaskSee, HeadFresh, InLoop
  <2>3. CASE TaskTake(g) \/ TaskCb(g) \/ TaskRecycle(g)
    BY <2>0, <2>3, <1>0 DEF TaskTake, TaskCb, TaskRecycle, HeadFresh, InLoop
  <2>4. CASE TaskTx(g) /\ MayParse
    <3>1. g = DataRing
      BY <2>4, RecycledEvent DEF TaskTx
    <3> QED
      BY <2>0, <2>4, <3>1, <1>0 DEF TaskTx, MayParse, HeadFresh, InLoop
  <2>5. CASE TaskStale(g) \/ TaskCmd(g) \/ TaskDb(g) \/ (TaskTx(g) /\ ~MayParse) \/ TaskTxEnd(g)
    <3>1. mhi_recycle_ev_ring_element(g) /\ ev[g] # <<>> /\ x'[g] = "run"
          /\ \A h \in Rings \ {g} : x'[h] = x[h]
      <4>1. mhi_recycle_ev_ring_element(g) /\ ev[g] # <<>>
        BY <2>5, RecycledEvent DEF TaskStale, TaskCmd, Is, TaskDb, TaskTx, TaskTxEnd
      <4>2. (UNCHANGED x /\ x[g] = "run") \/ x' = [x EXCEPT ![g] = "run"]
        BY <2>5 DEF TaskStale, TaskCmd, TaskDb, TaskTx, TaskTxEnd
      <4> QED
        BY <4>1, <4>2, <1>0
    <3>2. CASE g = DataRing
      BY <3>1, <3>2, <1>i
    <3>3. CASE g # DataRing
      <4>1. ev'[DataRing] = ev[DataRing] /\ x'[DataRing] = x[DataRing]
        BY <1>0, <3>1, <3>3, RecycleDrops DEF EventInv, Dropped
      <4>2. HwRing
        BY <3>3 DEF Rings, DataRing
      <4> QED
        BY <2>0, <4>1, <4>2 DEF HeadFresh, InLoop
    <3> QED
      BY <3>2, <3>3
  <2> QED
    BY <1>12, <2>1, <2>2, <2>3, <2>4, <2>5 DEF Tasklet
<1>13. ASSUME NEW g \in Rings, NEW e \in Event, Put(g, e), UNCHANGED <<x, ch_state, o, done>>
       PROVE  HeadFresh'
  <2>1. x[DataRing] \in {"idle", "run"} \/ ev[DataRing] # <<>>
    BY <1>0 DEF EventInv
  <2>2. ev[DataRing] # <<>> => ev'[DataRing][1] = ev[DataRing][1]
    BY <1>0, <1>13, HeadStays
  <2> QED
    BY <1>13, <1>i, <2>1, <2>2 DEF HeadFresh, InLoop
<1>14. CASE Device /\ ~DevLearn
  <2>1. sess \in Nat /\ d_sess \in Nat /\ 0 \in El
    BY <1>0, ChanConstants DEF EventInv, El
  <2>2. \A ok \in BOOLEAN, s \in Nat, i \in El, t \in {"TX", "DB", "CMD"} :
          [type |-> t, stale |-> FALSE, idx |-> i, sess |-> s, ok |-> ok] \in Event
    BY DEF Event
  <2>3. \E g \in Rings, e \in Event : Put(g, e)
    BY <1>14, <2>1, <2>2, RingNames DEF Device, DevCmd, DevXfer, DevDb
  <2>4. UNCHANGED <<x, ch_state, o, done>>
    BY <1>14 DEF Device, DevCmd, DevLearn, DevXfer, DevDb
  <2> QED
    BY <1>13, <2>3, <2>4
<1>15. CASE UNCHANGED vars \/ DevLearn
  BY <1>15, <1>a DEF vars, DevLearn
<1> QED
  BY <1>1, <1>2, <1>3, <1>4, <1>5, <1>6, <1>7, <1>8, <1>9, <1>10, <1>11, <1>12, <1>14, <1>15
  DEF Next, OpenSteps, PrepareSteps, UnprepareSteps, RemoveSteps, Pm

-----------------------------------------------------------------------------
(* Ring arithmetic                                                         *)

\* Distances in a ring of N elements.
LEMMA Gaps ==
  \A p, i \in El :
    /\ Gap(p, i) \in Nat /\ Gap(p, i) <= N - 1 /\ (Gap(p, i) = 0 <=> i = p)
    /\ Gap(p, i) < N - 1 => Gap(p, NextEl(i)) = Gap(p, i) + 1
    /\ Gap(p, i) = N - 1 => NextEl(i) = p
    /\ Gap(p, i) >= 1 => Gap(NextEl(p), i) = Gap(p, i) - 1
BY ChanConstants DEF El, Gap, NextEl

\* Two elements at the same distance are the same.
LEMMA GapsInject == \A p, i, j \in El : Gap(p, i) = Gap(p, j) => i = j
BY ChanConstants DEF El, Gap

\* What the operations of a ring do to the number of its elements: it is full with N - 1.
LEMMA RingOps ==
  \A t \in [rp : El, wp : El] :
    /\ Used(t) = Gap(t.rp, t.wp) /\ Used(t) \in 0..(N - 1) /\ (Used(t) = 0 <=> t.rp = t.wp)
    /\ mhi_is_ring_full(t) <=> Used(t) = N - 1
    /\ get_nr_avail_ring_elements(t) = N - 1 - Used(t)
    /\ mhi_add_ring_element(t) \in [rp : El, wp : El]
    /\ mhi_add_ring_element(t).rp = t.rp /\ mhi_add_ring_element(t).wp = NextEl(t.wp)
    /\ Used(t) < N - 1 => Used(mhi_add_ring_element(t)) = Used(t) + 1
    /\ mhi_del_ring_element(t) \in [rp : El, wp : El]
    /\ mhi_del_ring_element(t).rp = NextEl(t.rp) /\ mhi_del_ring_element(t).wp = t.wp
    /\ Used(t) > 0 => Used(mhi_del_ring_element(t)) = Used(t) - 1
<1> SUFFICES ASSUME NEW p \in El, NEW w \in El, NEW t, t = [rp |-> p, wp |-> w]
             PROVE  /\ Used(t) = Gap(t.rp, t.wp) /\ Used(t) \in 0..(N - 1) /\ (Used(t) = 0 <=> t.rp = t.wp)
                    /\ mhi_is_ring_full(t) <=> Used(t) = N - 1
                    /\ get_nr_avail_ring_elements(t) = N - 1 - Used(t)
                    /\ mhi_add_ring_element(t) \in [rp : El, wp : El]
                    /\ mhi_add_ring_element(t).rp = t.rp /\ mhi_add_ring_element(t).wp = NextEl(t.wp)
                    /\ Used(t) < N - 1 => Used(mhi_add_ring_element(t)) = Used(t) + 1
                    /\ mhi_del_ring_element(t) \in [rp : El, wp : El]
                    /\ mhi_del_ring_element(t).rp = NextEl(t.rp) /\ mhi_del_ring_element(t).wp = t.wp
                    /\ Used(t) > 0 => Used(mhi_del_ring_element(t)) = Used(t) - 1
  OBVIOUS
<1>0. N \in Nat /\ N >= 2 /\ p \in 0..(N - 1) /\ w \in 0..(N - 1)
  BY ChanConstants DEF El
<1>1. t.rp = p /\ t.wp = w
  OBVIOUS
<1>2. Used(t) = Gap(p, w) /\ Gap(p, w) \in 0..(N - 1) /\ (Gap(p, w) = 0 <=> p = w)
  BY <1>0, <1>1 DEF Used, Gap
<1>3. mhi_is_ring_full(t) <=> Gap(p, w) = N - 1
  BY <1>0, <1>1 DEF mhi_is_ring_full, NextEl, Gap
<1>4. get_nr_avail_ring_elements(t) = N - 1 - Gap(p, w)
  BY <1>0, <1>1 DEF get_nr_avail_ring_elements, Gap
<1>5. NextEl(p) \in El /\ NextEl(w) \in El
  BY NextElType
<1>6. mhi_add_ring_element(t) = [rp |-> p, wp |-> NextEl(w)]
  BY <1>1 DEF mhi_add_ring_element
<1>7. mhi_del_ring_element(t) = [rp |-> NextEl(p), wp |-> w]
  BY <1>1 DEF mhi_del_ring_element
<1>8. Gap(p, w) < N - 1 => Used(mhi_add_ring_element(t)) = Gap(p, w) + 1
  BY <1>0, <1>6 DEF Used, NextEl, Gap
<1>9. Gap(p, w) > 0 => Used(mhi_del_ring_element(t)) = Gap(p, w) - 1
  BY <1>0, <1>7 DEF Used, NextEl, Gap
<1> QED
  BY <1>1, <1>2, <1>3, <1>4, <1>5, <1>6, <1>7, <1>8, <1>9

-----------------------------------------------------------------------------
(* Types of the rings                                                      *)

\* Initially the rings are empty.
LEMMA InitRing == Init => RingType
BY ChanConstants DEF Init, RingType, El

\* An element enters both rings.
LEMMA GenType ==
  ASSUME RingType, mhi_gen_tre
  PROVE  /\ tre' \in [rp : El, wp : El] /\ buf' \in [rp : El, wp : El] /\ slot' \in [El -> Nat]
         /\ sent' \in Nat /\ back' \in Nat
BY RingOps DEF RingType, mhi_gen_tre

\* An element leaves both rings.
LEMMA DelType ==
  ASSUME RingType, DelBoth
  PROVE  /\ tre' \in [rp : El, wp : El] /\ buf' \in [rp : El, wp : El] /\ slot' \in [El -> Nat]
         /\ sent' \in Nat /\ back' \in Nat
BY RingOps DEF RingType, DelBoth

\* Every step keeps the pointers in the ring and the counters numbers.
LEMMA RingTypeStep == ChanInv /\ RingType /\ [Next]_vars => RingType'
<1> SUFFICES ASSUME ChanInv, RingType, [Next]_vars PROVE RingType'
  OBVIOUS
<1>0. 0 \in El /\ d_rp \in El /\ tre \in [rp : El, wp : El] /\ 0 \in Nat
  BY ChanConstants DEF ChanInv, EventInv, El, RingType
<1>a. ASSUME UNCHANGED <<tre, buf, slot, d_wp, x_to, pending_pkts, nr_el, sent, back>>
      PROVE  RingType'
  BY <1>a DEF RingType
<1>1. CASE Queue
  <2>1. CASE QueueGen
    BY <2>1, GenType DEF QueueGen, RingType
  <2>2. CASE QueueRing
    BY <2>2 DEF QueueRing, RingType
  <2> QED
    BY <1>1, <1>a, <2>1, <2>2 DEF Queue, QueueSteps, QueueSkb, QueueBuf, QueueSkbLocked, QueueBufFull
<1>2. CASE Open \/ Close \/ Rebind \/ RemoveStart
  BY <1>2, <1>a DEF Open, Close, Goto, Rebind, RemoveStart
<1>3. CASE PrepareLock
  BY <1>0, <1>3 DEF PrepareLock, mhi_init_chan_ctxt, Goto, RingType
<1>4. CASE PrepareErr \/ PrepareSend \/ PrepareWait \/ PrepareCcs \/ PrepareFail
  BY <1>4, <1>a DEF PrepareErr, PrepareSend, PrepareWait, PrepareCcs, PrepareFail, Goto
<1>5. CASE PrepareEnable
  <2>1. nr_el' \in Int
    BY <1>0, <1>5, RingOps, ChanConstants DEF PrepareEnable, RingType
  <2> QED
    BY <1>5, <2>1 DEF PrepareEnable, RingType
<1>6. CASE PrepareFill
  BY <1>6, GenType DEF PrepareFill, RingType
<1>7. CASE PrepareDb
  BY <1>7, <1>a DEF PrepareDb, Goto
<1>8. CASE UnprepareLock \/ UnprepareErr \/ UnprepareSend \/ UnprepareWait \/ UnprepareStale
           \/ UnprepareDeinit
  BY <1>8, <1>a DEF UnprepareLock, UnprepareErr, UnprepareSend, UnprepareWait, UnprepareStale,
     UnprepareDeinit, Goto
<1>9. CASE UnprepareDrain \/ RemoveDrain
  <2>1. CASE mhi_reset_data_chan
    <3>1. DelBoth /\ pending_pkts' \in Int
      BY <2>1 DEF mhi_reset_data_chan, RingType
    <3> QED
      BY <1>9, <2>1, <3>1, DelType DEF UnprepareDrain, RemoveDrain, RingType, Goto
  <2>2. CASE ~mhi_reset_data_chan
    BY <1>9, <2>2, <1>a DEF UnprepareDrain, RemoveDrain, Goto
  <2> QED
    BY <2>1, <2>2
<1>10. CASE RemoveLock \/ RemoveStale \/ RemoveCalled \/ RemoveClient \/ RemoveDeinit
  BY <1>10, <1>a DEF RemoveLock, RemoveStale, RemoveCalled, RemoveClient, RemoveDeinit, Goto
<1>11. CASE PmError \/ PmResume \/ PmSuspend \/ PmM0Rings
  BY <1>11, <1>a DEF PmError, PmResume, PmSuspend, PmM0Rings
<1>14. CASE PmRecover
  BY <1>0, <1>14 DEF PmRecover, RingType
<1>15. ASSUME NEW g \in Rings, Tasklet(g) PROVE RingType'
  <2>1. CASE TaskStart(g) \/ TaskEnd(g) \/ TaskStale(g) \/ TaskCmd(g) \/ TaskSee(g) \/ TaskTxEnd(g)
    BY <2>1, <1>a DEF TaskStart, TaskEnd, TaskStale, TaskCmd, TaskSee, TaskTxEnd
  <2>2. CASE TaskDb(g)
    BY <2>2, <1>a DEF TaskDb
  <2>3. CASE TaskTx(g)
    <3>1. ev[g] \in Seq(Event) /\ ev[g] # <<>>
      BY <2>3, RecycledEvent DEF TaskTx, ChanInv, EventInv
    <3>2. Head(ev[g]) \in Event
      BY <3>1
    <3>3. NextEl(Head(ev[g]).idx) \in El
      BY <3>2, NextElType DEF Event
    <3> QED
      BY <2>3, <3>3 DEF TaskTx, RingType
  <2>4. CASE TaskTake(g)
    BY <2>4, DelType DEF TaskTake, RingType
  <2>5. CASE TaskCb(g)
    BY <2>5 DEF TaskCb, RingType
  <2>6. CASE TaskRecycle(g)
    <3>1. CASE mhi_gen_tre
      BY <2>6, <3>1, GenType DEF TaskRecycle, RingType
    <3>2. CASE UNCHANGED rings
      BY <2>6, <3>2, <1>a DEF TaskRecycle
    <3> QED
      BY <2>6, <3>1, <3>2 DEF TaskRecycle
  <2> QED
    BY <1>15, <2>1, <2>2, <2>3, <2>4, <2>5, <2>6 DEF Tasklet
<1>16. CASE Device
  BY <1>0, <1>16 DEF Device, DevCmd, DevLearn, DevXfer, DevDb, RingType
<1>17. CASE UNCHANGED vars
  BY <1>17, <1>a DEF vars
<1> QED
  BY <1>1, <1>2, <1>3, <1>4, <1>5, <1>6, <1>7, <1>8, <1>9, <1>10, <1>11, <1>14, <1>15, <1>16, <1>17
  DEF Next, OpenSteps, PrepareSteps, UnprepareSteps, RemoveSteps, Pm

-----------------------------------------------------------------------------
(* The order of the pointers and the events                                *)

\* what the order speaks of
OrdType == EventInv /\ RingType

\* The pointers are elements.
LEMMA OrdElems ==
  ASSUME OrdType
  PROVE  /\ tre.rp \in El /\ tre.wp \in El /\ d_wp \in El /\ d_rp \in El /\ x_to \in El
         /\ Len(ev[DataRing]) \in Nat
         /\ \A i \in DataEvs : Idx(i) \in El
         /\ \A i \in El : Dist(i) \in Nat /\ Dist(i) <= N - 1 /\ (Dist(i) = 0 <=> i = tre.rp)
<1>1. ev[DataRing] \in Seq(Event)
  BY RingNames DEF OrdType, EventInv
<1>2. \A i \in DataEvs : Idx(i) \in El
  <2>1. \A e \in Event : e.idx \in El
    BY DEF Event
  <2>2. \A i \in DataEvs : ev[DataRing][i] \in Event
    BY <1>1 DEF DataEvs
  <2> QED
    BY <2>1, <2>2 DEF Idx
<1>3. tre.rp \in El /\ tre.wp \in El /\ d_wp \in El /\ d_rp \in El /\ x_to \in El
  BY DEF OrdType, EventInv, RingType
<1>4. Len(ev[DataRing]) \in Nat
  BY <1>1
<1>5. \A i \in El : Dist(i) \in Nat /\ Dist(i) <= N - 1 /\ (Dist(i) = 0 <=> i = tre.rp)
  BY <1>3, Gaps DEF Dist
<1> QED
  BY <1>2, <1>3, <1>4, <1>5

\* The events and the read pointer stay.
LEMMA OrdAside ==
  ASSUME Ordered, Chain', UNCHANGED <<ev, x_to, d_rp>>, tre'.rp = tre.rp,
         InLoop(DataRing)' <=> InLoop(DataRing)
  PROVE  Ordered'
<1>1. First' = First /\ DataEvs' = DataEvs
  BY DEF First, DataEvs
<1> QED
  BY <1>1 DEF Ordered, EvsBehind, EvsRising, LoopBehind, Dist, Tx, Idx

\* An event of the ring is recycled, once the elements it stands for are done.
LEMMA OrdDropped ==
  ASSUME OrdType, Ordered, Dropped(DataRing), UNCHANGED <<x_to, d_rp>>, tre'.rp = tre.rp, Chain',
         ~InLoop(DataRing)'
  PROVE  Ordered'
<1>1. Len(ev[DataRing]) \in Nat
  BY OrdElems
<1>2. \A i \in DataEvs' : /\ i + 1 \in DataEvs /\ First <= i + 1 /\ (Tx(i)' <=> Tx(i + 1))
                          /\ Idx(i)' = Idx(i + 1) /\ i \in Nat
  BY <1>1 DEF Dropped, DataEvs, Tx, Idx, First
<1>3. \A i \in El : Dist(i)' = Dist(i)
  BY DEF Dist
<1>4. \A i \in DataEvs : Idx(i) \in El
  BY OrdElems
<1>5. EvsBehind'
  <2> SUFFICES ASSUME NEW i \in DataEvs', Tx(i)' PROVE Dist(Idx(i))' < Dist(d_rp)'
    BY DEF EvsBehind
  <2>1. Dist(Idx(i + 1)) < Dist(d_rp)
    BY <1>2 DEF Ordered, EvsBehind
  <2> QED
    BY <2>1, <1>2 DEF Dist
<1>6. EvsRising'
  <2> SUFFICES ASSUME NEW i \in DataEvs', NEW j \in DataEvs', i < j, Tx(i)', Tx(j)'
               PROVE  Dist(Idx(i))' < Dist(Idx(j))'
    BY DEF EvsRising
  <2>1. Dist(Idx(i + 1)) < Dist(Idx(j + 1))
    BY <1>2 DEF Ordered, EvsRising
  <2> QED
    BY <2>1, <1>2 DEF Dist
<1>7. LoopBehind'
  BY DEF LoopBehind
<1> QED
  BY <1>5, <1>6, <1>7 DEF Ordered

\* The tasklet enters the transfer loop with the first event.
LEMMA OrdEntered ==
  ASSUME OrdType, Ordered, ~InLoop(DataRing), 1 \in DataEvs, Tx(1), x_to' = NextEl(Idx(1)),
         UNCHANGED <<ev, tre, d_rp>>, Chain'
  PROVE  Ordered'
<1> DEFINE D(i) == Gap(tre.rp, i)
<1>1. \A i \in El : D(i) \in Nat /\ D(i) <= N - 1 /\ (D(i) < N - 1 => D(NextEl(i)) = D(i) + 1)
  BY OrdElems, Gaps
<1>2. d_rp \in El /\ \A i \in DataEvs : Idx(i) \in El /\ i \in Nat
  BY OrdElems DEF DataEvs
<1>3. First = 1 /\ DataEvs' = DataEvs /\ \A i \in DataEvs : (Tx(i)' <=> Tx(i)) /\ Idx(i)' = Idx(i)
  BY DEF First, DataEvs, Tx, Idx
<1>4. \A i \in DataEvs : Tx(i) => D(Idx(i)) < D(d_rp)
  BY <1>2, <1>3 DEF Ordered, EvsBehind, Dist, DataEvs
<1>5. \A i, j \in DataEvs : i < j /\ Tx(i) /\ Tx(j) => D(Idx(i)) < D(Idx(j))
  BY <1>2, <1>3 DEF Ordered, EvsRising, Dist, DataEvs
<1>6. x_to' \in El
  BY <1>2, NextElType
<1> HIDE DEF D
<1>7. D(x_to') = D(Idx(1)) + 1
  BY <1>1, <1>2, <1>4, ChanConstants
<1>8. D(x_to') <= D(d_rp) /\ \A i \in DataEvs : 2 <= i /\ Tx(i) => D(x_to') <= D(Idx(i))
  BY <1>1, <1>2, <1>4, <1>5, <1>7
<1>9. EvsBehind'
  BY <1>3, <1>4 DEF EvsBehind, Dist, D
<1>10. EvsRising'
  BY <1>3, <1>5 DEF EvsRising, Dist, D
<1>11. LoopBehind'
  BY <1>3, <1>8 DEF LoopBehind, Dist, D
<1> QED
  BY <1>9, <1>10, <1>11 DEF Ordered

\* The loop takes an element: everything is one element nearer.
LEMMA OrdTaken ==
  ASSUME OrdType, Ordered, InLoop(DataRing), InLoop(DataRing)', tre.rp # x_to, DelBoth,
         UNCHANGED <<ev, x_to, d_rp, d_wp>>
  PROVE  Ordered' /\ Used(tre) > 0
<1> DEFINE D(i) == Gap(tre.rp, i)
           E(i) == Gap(NextEl(tre.rp), i)
<1>1. \A i \in El : D(i) \in Nat /\ E(i) \in Nat /\ (D(i) = 0 <=> i = tre.rp) /\ (D(i) >= 1 => E(i) = D(i) - 1)
  <2>1. tre.rp \in El /\ NextEl(tre.rp) \in El
    BY OrdElems, NextElType
  <2> QED
    BY <2>1, Gaps
<1>2. tre.wp \in El /\ d_wp \in El /\ d_rp \in El /\ x_to \in El
      /\ \A i \in DataEvs : Idx(i) \in El /\ i \in Nat
  BY OrdElems DEF DataEvs
<1>3. First = 2 /\ First' = 2 /\ DataEvs' = DataEvs
      /\ \A i \in DataEvs : (Tx(i)' <=> Tx(i)) /\ Idx(i)' = Idx(i)
  BY DEF First, DataEvs, Tx, Idx
<1>4. tre'.rp = NextEl(tre.rp) /\ tre'.wp = tre.wp /\ Used(tre) = D(tre.wp)
  BY RingOps DEF DelBoth, OrdType, RingType
<1>5. D(x_to) <= D(d_rp) /\ D(d_rp) <= D(d_wp) /\ D(d_wp) <= D(tre.wp)
      /\ \A i \in DataEvs : 2 <= i /\ Tx(i) => D(x_to) <= D(Idx(i))
  BY DEF Ordered, Chain, LoopBehind, Dist
<1>6. \A i \in DataEvs : 2 <= i /\ Tx(i) => D(Idx(i)) < D(d_rp)
  BY <1>3 DEF Ordered, EvsBehind, Dist
<1>7. \A i, j \in DataEvs : 2 <= i /\ i < j /\ Tx(i) /\ Tx(j) => D(Idx(i)) < D(Idx(j))
  BY <1>3 DEF Ordered, EvsRising, Dist
<1>d. \A i \in El : Dist(i)' = E(i)
  BY <1>4 DEF Dist
<1> HIDE DEF D, E
<1>8. D(x_to) >= 1
  BY <1>1, <1>2
<1>9. /\ E(x_to) = D(x_to) - 1 /\ E(d_rp) = D(d_rp) - 1 /\ E(d_wp) = D(d_wp) - 1
      /\ E(tre.wp) = D(tre.wp) - 1
      /\ D(x_to) \in Nat /\ D(d_rp) \in Nat /\ D(d_wp) \in Nat /\ D(tre.wp) \in Nat
  BY <1>1, <1>2, <1>5, <1>8
<1>10. \A i \in DataEvs : 2 <= i /\ Tx(i) => E(Idx(i)) = D(Idx(i)) - 1 /\ D(Idx(i)) \in Nat
  BY <1>1, <1>2, <1>5, <1>8
<1>11. Chain'
  <2>1. E(d_rp) <= E(d_wp) /\ E(d_wp) <= E(tre.wp)
    BY <1>5, <1>9
  <2> QED
    BY <2>1, <1>3, <1>4 DEF Chain, Dist, E
<1>12. EvsBehind'
  <2>1. \A i \in DataEvs : 2 <= i /\ Tx(i) => E(Idx(i)) < E(d_rp)
    BY <1>6, <1>9, <1>10
  <2> QED
    BY <2>1, <1>3, <1>4 DEF EvsBehind, Dist, E
<1>13. EvsRising'
  <2>1. \A i, j \in DataEvs : 2 <= i /\ i < j /\ Tx(i) /\ Tx(j) => E(Idx(i)) < E(Idx(j))
    BY <1>2, <1>7, <1>10
  <2> QED
    BY <2>1, <1>3, <1>4 DEF EvsRising, Dist, E
<1>14. LoopBehind'
  <2>1. E(x_to) <= E(d_rp) /\ \A i \in DataEvs : 2 <= i /\ Tx(i) => E(x_to) <= E(Idx(i))
    BY <1>5, <1>9, <1>10
  <2> QED
    BY <2>1, <1>3, <1>4 DEF LoopBehind, Dist, E
<1> QED
  BY <1>4, <1>5, <1>8, <1>9, <1>11, <1>12, <1>13, <1>14 DEF Ordered

\* The device reports the elements up to i as done.
LEMMA OrdPut ==
  ASSUME OrdType, Ordered, NEW k \in El, NEW e \in Event, e.type = "TX", e.idx = k,
         Added(DataRing, e), d_rp # d_wp, k = d_rp \/ (k = NextEl(d_rp) /\ k # d_wp),
         d_rp' = NextEl(k), UNCHANGED <<x, x_to, tre, d_wp>>
  PROVE  Ordered'
<1> DEFINE D(i) == Gap(tre.rp, i)
<1>1. \A i \in El : D(i) \in Nat /\ D(i) <= N - 1 /\ (D(i) < N - 1 => D(NextEl(i)) = D(i) + 1)
  BY OrdElems, Gaps
<1>2. tre.wp \in El /\ d_wp \in El /\ d_rp \in El /\ x_to \in El
      /\ \A i \in DataEvs : Idx(i) \in El /\ i \in Nat
  BY OrdElems DEF DataEvs
<1>3. D(d_rp) # D(d_wp) /\ (k # d_wp => D(k) # D(d_wp))
  BY <1>2, OrdElems, GapsInject
<1>4. D(d_rp) <= D(d_wp) /\ D(d_wp) <= D(tre.wp)
      /\ (InLoop(DataRing) => D(x_to) <= D(d_rp))
  BY DEF Ordered, Chain, LoopBehind, Dist
<1>n. N \in Nat
  BY ChanConstants
<1>5. D(d_rp) <= D(k) /\ D(k) < D(d_wp) /\ D(NextEl(k)) = D(k) + 1
  <2> HIDE DEF D
  <2>1. D(d_rp) < D(d_wp) /\ D(d_rp) < N - 1
    BY <1>1, <1>2, <1>3, <1>4, <1>n
  <2>2. D(NextEl(d_rp)) = D(d_rp) + 1
    BY <1>1, <1>2, <2>1
  <2>3. D(d_rp) <= D(k) /\ D(k) < D(d_wp)
    BY <1>1, <1>2, <1>3, <2>1, <2>2
  <2> QED
    BY <1>1, <1>2, <2>3, <1>n
<1>6. First' = First /\ (InLoop(DataRing)' <=> InLoop(DataRing)) /\ First \in {1, 2}
  BY DEF First, InLoop
<1>7. Len(ev[DataRing]) \in Nat /\ \A i \in DataEvs' :
        \/ i \in DataEvs /\ (Tx(i)' <=> Tx(i)) /\ Idx(i)' = Idx(i) /\ i < Len(ev[DataRing]) + 1
        \/ i = Len(ev[DataRing]) + 1 /\ Idx(i)' = k
  <2>1. Len(ev[DataRing]) \in Nat /\ Len(ev'[DataRing]) = Len(ev[DataRing]) + 1
        /\ ev'[DataRing][Len(ev[DataRing]) + 1] = e
        /\ \A i \in 1..Len(ev[DataRing]) : ev'[DataRing][i] = ev[DataRing][i]
    BY OrdElems DEF Added
  <2> QED
    BY <2>1 DEF DataEvs, Tx, Idx
<1>8. \A i \in DataEvs : First <= i /\ Tx(i) => D(Idx(i)) < D(d_rp)
  BY DEF Ordered, EvsBehind, Dist
<1>9. \A i, j \in DataEvs : First <= i /\ i < j /\ Tx(i) /\ Tx(j) => D(Idx(i)) < D(Idx(j))
  BY DEF Ordered, EvsRising, Dist
<1>10. InLoop(DataRing) => \A i \in DataEvs : 2 <= i /\ Tx(i) => D(x_to) <= D(Idx(i))
  BY DEF Ordered, LoopBehind, Dist
<1> HIDE DEF D
<1>11. Chain'
  <2>1. D(d_rp') <= D(d_wp) /\ D(d_wp) <= D(tre.wp)
    BY <1>1, <1>2, <1>4, <1>5
  <2> QED
    BY <2>1, <1>6 DEF Chain, Dist, D
<1>12. EvsBehind'
  <2> SUFFICES ASSUME NEW i \in DataEvs', First <= i, Tx(i)' PROVE D(Idx(i)') < D(d_rp')
    BY <1>6 DEF EvsBehind, Dist, D
  <2>1. CASE i \in DataEvs /\ Tx(i) /\ Idx(i)' = Idx(i)
    BY <2>1, <1>1, <1>2, <1>5, <1>8
  <2>2. CASE Idx(i)' = k
    BY <2>2, <1>1, <1>5
  <2> QED
    BY <2>1, <2>2, <1>7
<1>13. EvsRising'
  <2> SUFFICES ASSUME NEW i \in DataEvs', NEW j \in DataEvs', First <= i, i < j, Tx(i)', Tx(j)'
               PROVE  D(Idx(i)') < D(Idx(j)')
    BY <1>6 DEF EvsRising, Dist, D
  <2>0. i \in Nat /\ j \in Nat /\ j <= Len(ev[DataRing]) + 1
    BY <1>7, <1>2
  <2>1. i \in DataEvs /\ Tx(i) /\ Idx(i)' = Idx(i)
    BY <1>7, <2>0
  <2>2. CASE j \in DataEvs /\ Tx(j) /\ Idx(j)' = Idx(j)
    BY <2>1, <2>2, <1>9
  <2>3. CASE Idx(j)' = k
    BY <2>1, <2>3, <1>1, <1>2, <1>5, <1>8
  <2> QED
    BY <2>2, <2>3, <1>7
<1>14. LoopBehind'
  <2> SUFFICES ASSUME InLoop(DataRing)
               PROVE  /\ D(x_to) <= D(d_rp')
                      /\ \A i \in DataEvs' : 2 <= i /\ Tx(i)' => D(x_to) <= D(Idx(i)')
    BY <1>6 DEF LoopBehind, Dist, D
  <2>1. D(x_to) <= D(d_rp')
    BY <1>1, <1>2, <1>4, <1>5
  <2>2. ASSUME NEW i \in DataEvs', 2 <= i, Tx(i)' PROVE D(x_to) <= D(Idx(i)')
    <3>1. CASE i \in DataEvs /\ Tx(i) /\ Idx(i)' = Idx(i)
      BY <2>2, <3>1, <1>10
    <3>2. CASE Idx(i)' = k
      BY <3>2, <1>1, <1>2, <1>4, <1>5
    <3> QED
      BY <2>2, <3>1, <3>2, <1>7
  <2> QED
    BY <2>1, <2>2
<1> QED
  BY <1>11, <1>12, <1>13, <1>14 DEF Ordered

\* Another event enters the ring: an answer, or a request for a doorbell.
LEMMA OrdOther ==
  ASSUME OrdType, Ordered, NEW g \in Rings, NEW e \in Event, e.type # "TX", Added(g, e),
         UNCHANGED <<x, x_to, tre, d_rp>>, Chain'
  PROVE  Ordered'
<1>1. First' = First /\ Len(ev[DataRing]) \in Nat /\ DataRing \in Rings
      /\ (InLoop(DataRing)' <=> InLoop(DataRing))
  BY OrdElems, RingNames DEF First, InLoop
<1>2. \A i \in DataEvs' : Tx(i)' => i \in DataEvs /\ Tx(i) /\ Idx(i)' = Idx(i)
  <2>1. CASE g = DataRing
    BY <1>1, <2>1 DEF Added, DataEvs, Tx, Idx
  <2>2. CASE g # DataRing
    BY <1>1, <2>2 DEF Added, DataEvs, Tx, Idx
  <2> QED
    BY <2>1, <2>2
<1>3. EvsBehind'
  BY <1>1, <1>2 DEF Ordered, EvsBehind, Dist
<1>4. EvsRising'
  BY <1>1, <1>2 DEF Ordered, EvsRising, Dist
<1>5. LoopBehind'
  BY <1>1, <1>2 DEF Ordered, LoopBehind, Dist
<1> QED
  BY <1>3, <1>4, <1>5 DEF Ordered

\* An element enters a ring that has room.
LEMMA OrdFilled ==
  ASSUME OrdType, Ordered, mhi_gen_tre, Used(tre) < N - 1, UNCHANGED <<d_rp, d_wp>>
  PROVE  Chain' /\ tre'.rp = tre.rp
<1>1. tre'.rp = tre.rp /\ tre'.wp = NextEl(tre.wp) /\ Used(tre) = Gap(tre.rp, tre.wp)
  BY RingOps DEF OrdType, RingType, mhi_gen_tre
<1>2. Gap(tre.rp, tre'.wp) = Gap(tre.rp, tre.wp) + 1 /\ Gap(tre.rp, tre.wp) \in Nat
  <2>1. tre.rp \in El /\ tre.wp \in El
    BY OrdElems
  <2> QED
    BY <1>1, <2>1, Gaps
<1>3. Gap(tre.rp, d_wp) \in Nat
  BY OrdElems, Gaps
<1> QED
  BY <1>1, <1>2, <1>3 DEF Ordered, Chain, Dist

Base == Safe /\ ChanInv /\ PmInv /\ CmdInv /\ StartInv /\ FreshInv /\ RingType /\ RingInv

\* While elements are queued or their transfers are completed the channel is enabled.
LEMMA Enabled ==
  ASSUME Base
  PROVE  /\ q # "idle" => o = "open" /\ base /\ ~pre_alloc /\ ch_state # "DISABLED"
         /\ q \in {"gen", "ring"} => ch_state = "ENABLED" /\ r = "none" /\ ~InError
         /\ ch_state = "ENABLED" => base /\ o \in {"p_fill", "open", "u_lock"} /\ r \notin Removing
         /\ o \in OpLocked \ {"p_fill"} => ch_state = "DISABLED"
         /\ o = "p_fill" => ch_state = "ENABLED"
         /\ \A g \in Rings : InLoop(g) => g = DataRing /\ ch_state = "ENABLED" /\ r = "none"
         /\ o \in OpLocked => r \notin {"stale", "drain"}
<1>1. ControlInv /\ PmInv /\ ChanInv /\ SkbOnly
  BY DEF Base, ChanInv, Safe
<1>2. /\ q # "idle" => o = "open" /\ base /\ ~pre_alloc /\ ch_state # "DISABLED"
      /\ q \in {"gen", "ring"} => ch_state = "ENABLED" /\ r = "none" /\ ~InError
  BY <1>1 DEF ControlInv, PmInv, Removing
<1>3. /\ ch_state = "ENABLED" => base /\ o \in {"p_fill", "open", "u_lock"} /\ r \notin Removing
      /\ o \in OpLocked \ {"p_fill"} => ch_state = "DISABLED"
      /\ o = "p_fill" => ch_state = "ENABLED"
      /\ o \in OpLocked => r \notin {"stale", "drain"}
  BY <1>1 DEF ControlInv, Removing, OpLocked
<1>4. ASSUME NEW g \in Rings, InLoop(g) PROVE g = DataRing /\ ch_state = "ENABLED" /\ r = "none"
  BY <1>1, <1>4, RecycledEvent DEF InLoop, PmInv, Quiet
<1> QED
  BY <1>2, <1>3, <1>4

\* The opening and the closing thread.
LEMMA OrderOpen ==
  ASSUME Base, OrderInv, OpenSteps
  PROVE  OrderInv'
<1>0. OrdType /\ ControlInv
  BY DEF Base, OrdType, ChanInv
<1>a. ASSUME UNCHANGED <<ev, x, tre, x_to, d_rp, d_wp>>, Live' => Live PROVE OrderInv'
  <2> SUFFICES ASSUME Live' PROVE Ordered'
    BY DEF OrderInv
  <2>1. Ordered /\ (InLoop(DataRing)' <=> InLoop(DataRing))
    BY <1>a DEF OrderInv, InLoop
  <2>2. Chain'
    BY <1>a, <2>1 DEF Ordered, Chain, Dist
  <2> QED
    BY <1>a, <2>1, <2>2, OrdAside
<1>n. ~Live' => OrderInv'
  BY DEF OrderInv
<1> USE DEF Goto
<1>1. CASE PrepareLock
  BY <1>0, <1>1, <1>n DEF PrepareLock, Live, ControlInv
<1>2. CASE PrepareErr
  BY <1>0, <1>2, <1>n DEF PrepareErr, Live, ControlInv
<1>3. CASE PrepareSend
  <2>1. ch_state' # "ENABLED" /\ ~Started'
    BY <1>0, <1>3 DEF PrepareSend, ControlInv, Base, StartInv, Started
  <2> QED
    BY <2>1, <1>n DEF Live
<1>4. CASE PrepareWait \/ PrepareCcs
  BY <1>4, <1>a DEF PrepareWait, PrepareCcs, Live, Started
<1>5. CASE PrepareEnable
  <2>1. Live
    BY <1>5 DEF PrepareEnable, Live, Base, StartInv
  <2> QED
    BY <1>5, <1>a, <2>1 DEF PrepareEnable
<1>6. CASE PrepareFill
  <2>1. CASE mhi_gen_tre
    <3>1. Used(tre) < N - 1
      <4>1. Used(tre) + nr_el + Taken <= N - 1 /\ nr_el > 0 /\ Taken \in {0, 1}
        BY <1>6 DEF PrepareFill, Base, RingInv, Taken
      <4>2. Used(tre) \in Int /\ nr_el \in Int /\ N \in Nat
        BY <1>0, RingOps, ChanConstants DEF OrdType, RingType
      <4> QED
        BY <4>1, <4>2
    <3>2. Live /\ UNCHANGED <<ev, x, x_to, d_rp, d_wp>>
      BY <1>6, Enabled DEF PrepareFill, Live
    <3>3. Ordered
      BY <3>2 DEF OrderInv
    <3> QED
      BY <1>0, <2>1, <3>1, <3>2, <3>3, OrdFilled, OrdAside DEF InLoop, OrderInv
  <2>2. CASE ~mhi_gen_tre
    <3>1. UNCHANGED <<ev, x, tre, x_to, d_rp, d_wp, ch_state>>
      BY <1>6, <2>2 DEF PrepareFill
    <3>2. ch_state = "ENABLED"
      BY <1>6, Enabled DEF PrepareFill
    <3> QED
      BY <1>a, <3>1, <3>2 DEF Live
  <2> QED
    BY <2>1, <2>2
<1>7. CASE PrepareDb
  <2>1. Live
    BY <1>7, Enabled DEF PrepareDb, Live
  <2> QED
    BY <1>7, <1>a, <2>1 DEF PrepareDb
<1>8. CASE PrepareFail
  BY <1>0, <1>8, <1>n, Enabled DEF PrepareFail, Live, OpLocked
<1>9. CASE UnprepareLock
  BY <1>9, <1>a, <1>n DEF UnprepareLock, Live
<1>10. CASE UnprepareErr \/ UnprepareSend \/ UnprepareWait \/ UnprepareStale \/ UnprepareDrain
            \/ UnprepareDeinit
  <2>1. o \in OpLocked \ {"p_fill"} /\ UNCHANGED ch_state /\ o' \notin {"p_wait", "p_ccs", "p_enable"}
    BY <1>10 DEF UnprepareErr, UnprepareSend, UnprepareWait, UnprepareStale, UnprepareDrain,
       UnprepareDeinit, OpLocked
  <2> QED
    BY <2>1, <1>n, Enabled DEF Live
<1> QED
  BY <1>1, <1>2, <1>3, <1>4, <1>5, <1>6, <1>7, <1>8, <1>9, <1>10
  DEF OpenSteps, PrepareSteps, UnprepareSteps

\* The tasklets.
LEMMA OrderTasklet ==
  ASSUME Base, OrderInv, NEW g \in Rings, Tasklet(g)
  PROVE  OrderInv' /\ (TaskTake(g) => Used(tre) > 0)
<1>0. OrdType /\ ControlInv /\ ChanInv /\ x \in [Rings -> TaskPc] /\ DataRing \in Rings
  BY RingNames DEF Base, OrdType, ChanInv, EventInv
<1>l. Live' <=> Live
  <2>1. UNCHANGED <<ch_state, o, d_on, d_sess, sess>>
    BY DEF Tasklet, TaskStart, TaskEnd, TaskStale, TaskCmd, TaskSee, TaskDb, TaskTx, TaskTake, TaskCb,
       TaskRecycle, TaskTxEnd
  <2> QED
    BY <2>1 DEF Live, Started
<1> SUFFICES ASSUME Live PROVE Ordered' /\ (TaskTake(g) => Used(tre) > 0)
  <2>1. TaskTake(g) => Live
    BY <1>0, RecycledEvent DEF TaskTake, Live
  <2> QED
    BY <1>l, <2>1 DEF OrderInv
<1>o. Ordered
  BY DEF OrderInv
<1>c. UNCHANGED <<tre, d_rp, d_wp>> => Chain'
  BY <1>o DEF Ordered, Chain, Dist
<1>x. ~InLoop(g) /\ x'[g] \in {"idle", "run", "seen"} /\ (\A h \in Rings \ {g} : x'[h] = x[h]) =>
        (InLoop(DataRing)' <=> InLoop(DataRing))
  BY <1>0 DEF InLoop
<1>1. CASE TaskStart(g) \/ TaskEnd(g) \/ TaskSee(g)
  <2>1. UNCHANGED <<tre, ev, x_to, d_rp, d_wp>> /\ ~InLoop(g) /\ x'[g] \in {"idle", "run", "seen"}
        /\ \A h \in Rings \ {g} : x'[h] = x[h]
    BY <1>0, <1>1 DEF TaskStart, TaskEnd, TaskSee, InLoop
  <2> QED
    BY <1>1, <1>c, <1>o, <1>x, <2>1, OrdAside DEF TaskStart, TaskEnd, TaskSee, TaskTake
<1>2. CASE TaskStale(g) \/ TaskCmd(g) \/ TaskDb(g) \/ (TaskTx(g) /\ ~MayParse) \/ TaskTxEnd(g)
  <2>1. mhi_recycle_ev_ring_element(g) /\ ev[g] # <<>> /\ x'[g] = "run" /\ UNCHANGED <<tre, x_to, d_rp>>
        /\ \A h \in Rings \ {g} : x'[h] = x[h]
    <3>1. mhi_recycle_ev_ring_element(g) /\ ev[g] # <<>> /\ UNCHANGED <<tre, x_to, d_rp>>
      BY <1>0, <1>2, RecycledEvent DEF TaskStale, TaskCmd, Is, TaskDb, TaskTx, TaskTxEnd
    <3>2. (UNCHANGED x /\ x[g] = "run") \/ x' = [x EXCEPT ![g] = "run"]
      BY <1>2 DEF TaskStale, TaskCmd, TaskDb, TaskTx, TaskTxEnd
    <3> QED
      BY <1>0, <3>1, <3>2
  <2>2. Dropped(g)
    BY <1>0, <2>1, RecycleDrops DEF ChanInv, EventInv
  <2>3. Chain'
    BY <1>2, <1>c DEF TaskStale, TaskCmd, TaskDb, TaskTx, TaskTxEnd
  <2>4. ~TaskTake(g)
    BY <1>0, <1>2, <2>1 DEF TaskTake
  <2>5. CASE g = DataRing
    <3>1. ~InLoop(DataRing)'
      BY <2>1, <2>5 DEF InLoop
    <3> QED
      BY <1>0, <1>o, <2>1, <2>2, <2>3, <2>4, <2>5, <3>1, OrdDropped
  <2>6. CASE g # DataRing
    <3>1. ev'[DataRing] = ev[DataRing] /\ x'[DataRing] = x[DataRing]
      BY <1>0, <2>1, <2>2, <2>6 DEF Dropped
    <3>2. First' = First /\ DataEvs' = DataEvs /\ (InLoop(DataRing)' <=> InLoop(DataRing))
      BY <3>1 DEF First, DataEvs, InLoop
    <3> QED
      BY <1>o, <2>1, <2>3, <2>4, <3>1, <3>2 DEF Ordered, EvsBehind, EvsRising, LoopBehind, Dist, Tx, Idx
  <2> QED
    BY <2>5, <2>6
<1>3. CASE TaskTx(g) /\ MayParse
  <2>1. ev[g] # <<>> /\ g = DataRing /\ Head(ev[g]) = ev[g][1] /\ Head(ev[g]).type = "TX" /\ x[g] = "seen"
    BY <1>0, <1>3, RecycledEvent DEF TaskTx
  <2>2. 1 \in DataEvs /\ ~InLoop(DataRing)
    BY <1>0, <2>1, OrdElems DEF DataEvs, InLoop, ChanInv, EventInv
  <2>3. Tx(1) /\ x_to' = NextEl(Idx(1)) /\ UNCHANGED <<ev, tre, d_rp, d_wp>>
    BY <1>3, <2>1 DEF TaskTx, MayParse, Tx, Idx, Base, FreshInv, HeadFresh
  <2> QED
    BY <1>0, <1>3, <1>c, <1>o, <2>1, <2>2, <2>3, OrdEntered DEF TaskTake
<1>4. CASE TaskTake(g)
  <2>1. g = DataRing
    BY <1>0, <1>4, RecycledEvent DEF TaskTake
  <2>2. InLoop(DataRing) /\ InLoop(DataRing)' /\ tre.rp # x_to /\ DelBoth
        /\ UNCHANGED <<ev, x_to, d_rp, d_wp>>
    BY <1>0, <1>4, <2>1 DEF TaskTake, InLoop
  <2> QED
    BY <1>0, <1>o, <2>2, OrdTaken
<1>5. CASE TaskCb(g)
  <2>1. UNCHANGED <<tre, ev, x_to, d_rp, d_wp>> /\ (InLoop(DataRing)' <=> InLoop(DataRing))
        /\ ~TaskTake(g)
    BY <1>0, <1>5 DEF TaskCb, InLoop, TaskTake
  <2> QED
    BY <1>c, <1>o, <2>1, OrdAside
<1>6. CASE TaskRecycle(g)
  <2>1. UNCHANGED <<ev, x_to, d_rp, d_wp>> /\ (InLoop(DataRing)' <=> InLoop(DataRing)) /\ ~TaskTake(g)
    BY <1>0, <1>6 DEF TaskRecycle, InLoop, TaskTake
  <2>2. CASE UNCHANGED rings
    BY <1>c, <1>o, <2>1, <2>2, OrdAside
  <2>3. CASE ~mhi_is_ring_full(tre) /\ mhi_gen_tre
    <3>1. Used(tre) < N - 1
      BY <1>0, <2>3, RingOps, ChanConstants DEF OrdType, RingType
    <3> QED
      BY <1>0, <1>o, <2>1, <2>3, <3>1, OrdFilled, OrdAside
  <2> QED
    BY <1>6, <2>2, <2>3 DEF TaskRecycle
<1> QED
  BY <1>1, <1>2, <1>3, <1>4, <1>5, <1>6 DEF Tasklet

\* Every step keeps the pointers and the events in their order.
LEMMA OrderStep == Base /\ OrderInv /\ [Next]_vars => OrderInv'
<1> SUFFICES ASSUME Base, OrderInv, [Next]_vars PROVE OrderInv'
  OBVIOUS
<1>0. OrdType /\ ControlInv /\ ChanInv /\ PmInv /\ CmdInv /\ StartInv /\ EvsFresh /\ RingInv /\ EventInv
  BY DEF Base, OrdType, ChanInv, FreshInv
<1>k. Live => Ordered
  BY DEF OrderInv
<1>a. ASSUME UNCHANGED <<ev, x, tre, x_to, d_rp>>, Live' => Live, Ordered => Chain' PROVE OrderInv'
  BY <1>a, <1>k, OrdAside DEF OrderInv, InLoop
<1>c. ASSUME UNCHANGED <<tre, d_rp, d_wp>>, Ordered PROVE Chain'
  BY <1>c DEF Ordered, Chain, Dist
<1>f. ASSUME UNCHANGED <<ev, x, tre, x_to, d_rp, d_wp>>, Live' => Live PROVE OrderInv'
  BY <1>a, <1>c, <1>f
<1>n. ~Live' => OrderInv'
  BY DEF OrderInv
<1>1. CASE QueueGen
  <2>1. CASE mhi_gen_tre
    <3>1. UNCHANGED <<ev, x, x_to, d_rp, d_wp>> /\ Used(tre) < N - 1 /\ (Live' => Live)
      BY <1>0, <1>1 DEF QueueGen, Live, Started, RingInv
    <3> QED
      BY <1>0, <1>k, <2>1, <3>1, OrdFilled, OrdAside DEF InLoop, OrderInv
  <2>2. CASE ~mhi_gen_tre
    BY <1>1, <1>f, <2>2 DEF QueueGen, Live, Started
  <2> QED
    BY <2>1, <2>2
<1>2. CASE QueueRing
  BY <1>2, <1>f DEF QueueRing, Live, Started
<1>3. CASE QueueSkb \/ QueueBuf \/ QueueSkbLocked \/ QueueBufFull
  BY <1>3, <1>f DEF QueueSkb, QueueBuf, QueueSkbLocked, QueueBufFull, Live, Started
<1>4. CASE Open \/ Close \/ RemoveStart \/ Rebind
  BY <1>4, <1>f DEF Open, Close, Goto, RemoveStart, Rebind, Live, Started
<1>5. CASE RemoveSteps
  <2>1. o \notin {"p_wait", "p_ccs", "p_enable"} \/ r = "lock"
    BY <1>0, <1>5 DEF RemoveSteps, RemoveLock, RemoveStale, RemoveDrain, RemoveCalled, RemoveClient,
       RemoveDeinit, ControlInv, OpLocked, Removing
  <2>2. ch_state' # "ENABLED" /\ (o' = o \/ o' = "closed") /\ (r = "lock" => o \notin OpLocked)
    BY <1>0, <1>5 DEF RemoveSteps, RemoveLock, RemoveStale, RemoveDrain, RemoveCalled, RemoveClient,
       RemoveDeinit, ControlInv, Removing, Goto
  <2> QED
    BY <1>n, <2>1, <2>2 DEF Live, OpLocked
<1>6. CASE PmError \/ PmResume \/ PmSuspend \/ PmM0Rings
  BY <1>6, <1>f DEF PmError, PmResume, PmSuspend, PmM0Rings, Live, Started
<1>7. CASE DevLearn
  <2>1. UNCHANGED <<ev, x, tre, x_to, d_rp>> /\ (Live' => Live) /\ d_wp' = tre.wp
    BY <1>7 DEF DevLearn, Live, Started
  <2>2. ASSUME Ordered PROVE Chain'
    <3>1. Dist(d_rp) \in Nat /\ Dist(d_wp) \in Nat /\ Dist(tre.wp) \in Nat
      BY <1>0, OrdElems
    <3>2. Dist(d_rp) <= Dist(d_wp) /\ Dist(d_wp) <= Dist(tre.wp)
      BY <2>2 DEF Ordered, Chain
    <3>3. Dist(d_rp) <= Dist(tre.wp) /\ Dist(tre.wp) <= Dist(tre.wp)
      BY <3>1, <3>2
    <3> QED
      BY <2>1, <3>3 DEF Chain, Dist
  <2> QED
    BY <1>a, <2>1, <2>2
<1>9. CASE PmRecover
  BY <1>0, <1>9, <1>n DEF PmRecover, Live, ControlInv
<1>10. ASSUME NEW ok \in BOOLEAN, DevCmd(ok) PROVE OrderInv'
  <2> SUFFICES ASSUME Live' PROVE Ordered'
    BY DEF OrderInv
  <2> DEFINE e == [type |-> "CMD", stale |-> FALSE, idx |-> 0, sess |-> sess, ok |-> ok]
  <2>1. e \in Event /\ e.type = "CMD" /\ Put("ctrl", e)
    BY <1>0, <1>10, ChanConstants DEF Event, EventInv, El, DevCmd
  <2> HIDE DEF e
  <2>2. o \in {"p_wait", "u_wait"} /\ ch_state # "ENABLED" /\ UNCHANGED <<o, ch_state, x, tre>> /\ ~InError
    BY <1>0, <1>10, CmdRing, Enabled DEF DevCmd, DbValid, CmdInv, OpLocked, InError
  <2>3. o = "p_wait" /\ Started'
    BY <2>2 DEF Live
  <2>4. ~d_on
    BY <1>0, <1>10, <2>3, CmdRing DEF DevCmd, StartInv
  <2>5. d_rp' = 0 /\ d_wp' = 0 /\ tre.rp = 0 /\ tre.wp = 0
    BY <1>0, <1>10, <2>3, <2>4 DEF DevCmd, Started, RingInv
  <2>6. \A i \in DataEvs' : ~Loud(i)'
    <3>1. SameLoud
      BY <1>0, <2>1, LoudAdded, RingNames
    <3> QED
      BY <1>0, <2>2, <2>3, <2>4, <3>1 DEF EvsFresh, SameLoud
  <2>7. \A i \in DataEvs' : ~Tx(i)'
    BY <2>6 DEF Tx, Loud
  <2>8. ~InLoop(DataRing)'
    BY <1>0, <2>2, RingNames, Enabled DEF InLoop
  <2>9. Chain'
    BY <2>2, <2>5 DEF Chain, Dist, Gap
  <2> QED
    BY <2>7, <2>8, <2>9 DEF Ordered, EvsBehind, EvsRising, LoopBehind
<1>11. ASSUME NEW k \in El, DevXfer(k) PROVE OrderInv'
  <2> SUFFICES ASSUME Live' PROVE Ordered'
    BY DEF OrderInv
  <2> DEFINE e == [type |-> "TX", stale |-> FALSE, idx |-> k, sess |-> d_sess, ok |-> TRUE]
  <2>1. e \in Event /\ e.type = "TX" /\ e.idx = k /\ Put(DataRing, e)
    BY <1>0, <1>11 DEF Event, EventInv, DevXfer
  <2> HIDE DEF e
  <2>2. Added(DataRing, e)
    BY <1>0, <2>1, PutAdds, RingNames DEF EventInv
  <2>3. Ordered
    BY <1>11, <1>k DEF DevXfer, Live, Started
  <2>4. d_rp # d_wp /\ (k = d_rp \/ (k = NextEl(d_rp) /\ k # d_wp)) /\ d_rp' = NextEl(k)
        /\ UNCHANGED <<x, x_to, tre, d_wp>>
    BY <1>11 DEF DevXfer
  <2> QED
    BY <1>0, <2>1, <2>2, <2>3, <2>4, OrdPut
<1>12. CASE DevDb
  <2> SUFFICES ASSUME Live' PROVE Ordered'
    BY DEF OrderInv
  <2> DEFINE e == [type |-> "DB", stale |-> FALSE, idx |-> 0, sess |-> d_sess, ok |-> TRUE]
  <2>1. e \in Event /\ e.type # "TX" /\ Put(DataRing, e)
    BY <1>0, <1>12, ChanConstants DEF Event, EventInv, El, DevDb
  <2> HIDE DEF e
  <2>2. Added(DataRing, e)
    BY <1>0, <2>1, PutAdds, RingNames DEF EventInv
  <2>3. Ordered /\ UNCHANGED <<x, x_to, tre, d_rp, d_wp>>
    BY <1>12, <1>k DEF DevDb, Live, Started
  <2>4. Chain'
    BY <2>3 DEF Ordered, Chain, Dist
  <2> QED
    BY <1>0, <2>1, <2>2, <2>3, <2>4, RingNames, OrdOther
<1>13. CASE UNCHANGED vars
  BY <1>13, <1>f DEF vars, Live, Started
<1> QED
  BY <1>1, <1>2, <1>3, <1>4, <1>5, <1>6, <1>7, <1>9, <1>10, <1>11, <1>12, <1>13, OrderOpen,
     OrderTasklet
  DEF Next, Queue, QueueSteps, Pm, Device

-----------------------------------------------------------------------------
(* What a step does to the rings                                           *)

\* A buffer enters the ring, one leaves it, an empty one is set up or freed, or nothing
\* happens to it.
Fills == mhi_gen_tre /\ Used(tre) < N - 1 /\ base
Takes == DelBoth /\ Used(tre) > 0 /\ base
Resets == ~base /\ base' /\ tre' = [rp |-> 0, wp |-> 0] /\ buf' = tre' /\ slot' = [i \in El |-> 0]
          /\ UNCHANGED <<sent, back>>
Frees == tre.rp = tre.wp /\ ~base' /\ UNCHANGED <<tre, buf, slot, sent, back>>

\* The two rings stay alike, and, where all are emptied, empty when they are not allocated.
LEMMA RingsAlike ==
  ASSUME RingType, tre = buf,
         Fills \/ Takes \/ Resets \/ Frees \/ UNCHANGED rings
  PROVE  tre' = buf' /\ ((~base => tre.rp = tre.wp) => (~base' => tre'.rp = tre'.wp))
<1>1. CASE Fills
  BY <1>1 DEF Fills, mhi_gen_tre
<1>2. CASE Takes
  BY <1>2 DEF Takes, DelBoth
<1>3. CASE Resets \/ Frees \/ UNCHANGED rings
  BY <1>3 DEF Resets, Frees
<1> QED
  BY <1>1, <1>2, <1>3

\* The number of elements after that.
LEMMA RingUsed ==
  ASSUME RingType
  PROVE  /\ Used(tre) \in Nat /\ Used(tre) <= N - 1 /\ N \in Nat /\ (Used(tre) = 0 <=> tre.rp = tre.wp)
         /\ Fills => Used(tre') = Used(tre) + 1
         /\ Takes => Used(tre') = Used(tre) - 1
         /\ Resets => Used(tre') = 0
         /\ Frees \/ UNCHANGED rings => Used(tre') = Used(tre)
<1>1. tre \in [rp : El, wp : El] /\ N \in Nat /\ N >= 2
  BY ChanConstants DEF RingType
<1>2. Used(tre) \in Nat /\ Used(tre) <= N - 1 /\ (Used(tre) = 0 <=> tre.rp = tre.wp)
  BY <1>1, RingOps
<1>3. Fills => Used(tre') = Used(tre) + 1
  BY <1>1, RingOps DEF Fills, mhi_gen_tre
<1>4. Takes => Used(tre') = Used(tre) - 1
  BY <1>1, RingOps DEF Takes, DelBoth
<1>5. Resets => Used(tre') = 0
  BY <1>2 DEF Resets, Used
<1>6. Frees \/ UNCHANGED rings => Used(tre') = Used(tre)
  BY DEF Frees
<1> QED
  BY <1>1, <1>2, <1>3, <1>4, <1>5, <1>6

\* The steps of the opening thread.
LEMMA RingOpen ==
  ASSUME Base, OrderInv, OpenSteps
  PROVE  RingInv' /\ (Fills \/ Takes \/ Resets \/ Frees \/ UNCHANGED rings)
<1>0. ControlInv /\ PmInv /\ RingInv /\ RingType /\ ChanInv /\ N \in Nat /\ DataRing \in Rings
  BY ChanConstants, RingNames DEF Base, ChanInv
<1>1. tre = buf /\ (~base => tre.rp = tre.wp) /\ Taken \in {0, 1}
  BY <1>0 DEF RingInv, Taken
<1>q. q # "idle" => o = "open" /\ ~pre_alloc
  BY Enabled
<1>u. Used(tre) \in Nat /\ (Used(tre) = 0 <=> tre.rp = tre.wp)
  BY <1>0, <1>1, RingUsed
<1>x. UNCHANGED x => Taken' = Taken
  BY DEF Taken
<1> USE DEF Goto
<1>2. CASE PrepareLock
  <2>1. CASE o' = "closed"
    BY <1>0, <1>2, <1>x, <2>1 DEF PrepareLock, RingInv
  <2>2. CASE o' # "closed"
    <3>1. Resets /\ o' = "p_err" /\ base' /\ UNCHANGED <<r, x, q>> /\ q = "idle"
      BY <1>0, <1>2, <1>q, <2>2 DEF PrepareLock, mhi_init_chan_ctxt, Resets, ControlInv, OpLocked
    <3>2. tre'.rp = 0 /\ tre'.wp = 0 /\ tre' = buf'
      BY <3>1 DEF Resets
    <3> QED
      BY <1>0, <3>1, <3>2 DEF RingInv
  <2> QED
    BY <2>1, <2>2
<1>3. CASE PrepareErr \/ PrepareSend \/ PrepareWait \/ PrepareCcs
  BY <1>0, <1>3, <1>x, <1>q DEF PrepareErr, PrepareSend, PrepareWait, PrepareCcs, RingInv
<1>4. CASE PrepareEnable
  <2>1. UNCHANGED <<tre, buf, base, r, q, x>> /\ UNCHANGED rings /\ o = "p_enable"
        /\ \/ pre_alloc /\ o' = "p_fill" /\ nr_el' = get_nr_avail_ring_elements(tre)
           \/ o' = "open"
    BY <1>4 DEF PrepareEnable
  <2>2. tre.rp = tre.wp /\ Used(tre) = 0 /\ get_nr_avail_ring_elements(tre) = N - 1
    <3>1. tre \in [rp : El, wp : El] /\ tre.rp = tre.wp
      BY <1>0, <2>1 DEF RingInv, RingType
    <3> QED
      BY <1>0, <3>1, RingOps
  <2>3. ~InLoop(DataRing)
    BY <1>0, <2>1, Enabled DEF OpLocked
  <2>4. Taken' = 0
    BY <2>1, <2>3 DEF Taken, InLoop
  <2>5. o' = "p_fill" => pre_alloc /\ nr_el' >= 0 /\ Used(tre') + nr_el' + Taken' <= N - 1
    BY <1>0, <2>1, <2>2, <2>4, ChanConstants
  <2> QED
    BY <1>0, <2>1, <2>5, <1>q DEF RingInv
<1>5. CASE PrepareFill
  <2>0. o = "p_fill" /\ nr_el > 0 /\ UNCHANGED <<x, r, q>> /\ ch_state = "ENABLED" /\ base
        /\ q = "idle" /\ r \notin Removing /\ nr_el \in Int /\ pre_alloc
        /\ Used(tre) + nr_el + Taken <= N - 1
    BY <1>0, <1>5, <1>q, Enabled DEF PrepareFill, RingInv, RingType
  <2>1. CASE mhi_gen_tre
    <3>1. Fills
      BY <1>0, <1>1, <1>u, <2>0, <2>1 DEF Fills
    <3>2. Used(tre') = Used(tre) + 1 /\ tre' = buf' /\ base' /\ (o' = "p_fill" => nr_el' = nr_el - 1)
      <4>1. Used(tre') = Used(tre) + 1 /\ tre' = buf'
        BY <1>0, <1>1, <3>1, RingUsed, RingsAlike
      <4>2. base' /\ (o' = "p_fill" => nr_el' = nr_el - 1)
        BY <1>0, <1>5, <2>0, <2>1, <3>1, <1>u, <4>1 DEF PrepareFill, mhi_gen_tre
      <4> QED
        BY <4>1, <4>2
    <3>3. o' \in {"p_fill", "u_lock"}
      BY <1>5, <2>0 DEF PrepareFill
    <3>4. o' = "p_fill" => nr_el' >= 0 /\ Used(tre') + nr_el' + Taken' <= N - 1
      BY <1>0, <1>1, <1>u, <1>x, <2>0, <3>2
    <3> QED
      BY <1>0, <2>0, <3>1, <3>2, <3>3, <3>4 DEF RingInv, Removing
  <2>2. CASE ~mhi_gen_tre
    BY <1>0, <1>5, <2>0, <2>2 DEF PrepareFill, RingInv, Removing
  <2> QED
    BY <2>1, <2>2
<1>6. CASE PrepareDb
  BY <1>0, <1>6, <1>x, <1>q DEF PrepareDb, RingInv
<1>7. CASE PrepareFail
  <2>1. Frees /\ UNCHANGED <<x, r, q, tre, buf>> /\ o' = "closed" /\ tre.rp = tre.wp
    BY <1>0, <1>7 DEF PrepareFail, mhi_deinit_chan_ctxt, RingInv, Frees
  <2> QED
    BY <1>0, <2>1 DEF RingInv
<1>8. CASE UnprepareLock \/ UnprepareErr \/ UnprepareSend \/ UnprepareWait \/ UnprepareStale
  BY <1>0, <1>8, <1>q DEF UnprepareLock, UnprepareErr, UnprepareSend, UnprepareWait, UnprepareStale, RingInv
<1>9. CASE UnprepareDrain
  <2>1. CASE mhi_reset_data_chan
    <3>0. UNCHANGED <<o, x, r, q>> /\ o = "u_drain" /\ q = "idle" /\ r \notin {"client", "stop", "deinit"}
          /\ tre.rp # tre.wp /\ DelBoth /\ base
      BY <1>0, <1>1, <1>9, <2>1, <1>q DEF UnprepareDrain, mhi_reset_data_chan, ControlInv, Removing, OpLocked
    <3>1. Takes
      BY <1>u, <3>0 DEF Takes
    <3>2. tre' = buf' /\ base'
      BY <1>0, <1>1, <3>0, <3>1, RingsAlike DEF DelBoth
    <3> QED
      BY <1>0, <3>0, <3>1, <3>2 DEF RingInv
  <2>2. CASE ~mhi_reset_data_chan
    BY <1>0, <1>9, <1>q, <2>2 DEF UnprepareDrain, RingInv
  <2> QED
    BY <2>1, <2>2
<1>10. CASE UnprepareDeinit
  <2>1. Frees /\ UNCHANGED <<x, r, q, tre, buf>> /\ o' = "closed" /\ tre.rp = tre.wp
    BY <1>0, <1>10 DEF UnprepareDeinit, mhi_deinit_chan_ctxt, RingInv, Frees
  <2> QED
    BY <1>0, <2>1 DEF RingInv
<1> QED
  BY <1>2, <1>3, <1>4, <1>5, <1>6, <1>7, <1>8, <1>9, <1>10
  DEF OpenSteps, PrepareSteps, UnprepareSteps

\* The steps of a tasklet.
LEMMA RingTasklet ==
  ASSUME Base, OrderInv, NEW g \in Rings, Tasklet(g)
  PROVE  RingInv' /\ (Fills \/ Takes \/ UNCHANGED rings)
<1>0. ControlInv /\ PmInv /\ RingInv /\ RingType /\ ChanInv /\ N \in Nat /\ DataRing \in Rings
      /\ x \in [Rings -> TaskPc]
  BY ChanConstants, RingNames DEF Base, ChanInv, EventInv
<1>1. tre = buf /\ (~base => tre.rp = tre.wp)
  BY <1>0 DEF RingInv
<1>u. Used(tre) \in Nat /\ Used(tre) <= N - 1 /\ (Used(tre) = 0 <=> tre.rp = tre.wp)
  BY <1>0, <1>1, RingUsed
<1>o. UNCHANGED <<o, r, q, nr_el>>
  BY DEF Tasklet, TaskStart, TaskEnd, TaskStale, TaskCmd, TaskSee, TaskDb, TaskTx, TaskTake, TaskCb,
     TaskRecycle, TaskTxEnd
<1>n. nr_el \in Int
  BY <1>0 DEF RingType
<1>e. InLoop(g) => g = DataRing /\ ch_state = "ENABLED" /\ base /\ o \in {"p_fill", "open", "u_lock"}
                   /\ r \notin Removing
  BY Enabled
<1>2. CASE TaskStart(g) \/ TaskEnd(g) \/ TaskStale(g) \/ TaskCmd(g) \/ TaskSee(g) \/ TaskDb(g)
           \/ TaskTx(g) \/ TaskTxEnd(g)
  <2>1. UNCHANGED rings
    BY <1>2 DEF TaskStart, TaskEnd, TaskStale, TaskCmd, TaskSee, TaskDb, TaskTx, TaskTxEnd
  <2>2. x'[DataRing] = x[DataRing] \/ (x'[DataRing] \in {"idle", "run", "seen", "loop"})
    BY <1>0, <1>2 DEF TaskStart, TaskEnd, TaskStale, TaskCmd, TaskSee, TaskDb, TaskTx, TaskTxEnd
  <2>3. Taken \in {0, 1} /\ Taken' \in {0, 1} /\ Taken' <= Taken
    BY <2>2 DEF Taken
  <2>6. o = "p_fill" => Used(tre) + nr_el + Taken' <= N - 1
    BY <1>0, <1>n, <1>u, <2>3 DEF RingInv
  <2>7. x'[DataRing] = "recycle" => pre_alloc
    BY <1>0, <2>2 DEF RingInv
  <2> QED
    BY <1>0, <1>o, <2>1, <2>6, <2>7 DEF RingInv
<1>3. CASE TaskTake(g)
  <2>1. InLoop(g) /\ DelBoth /\ Used(tre) > 0 /\ x[g] = "loop" /\ x' = [x EXCEPT ![g] = "cb"]
    BY <1>3, OrderTasklet DEF TaskTake, InLoop
  <2>2. Takes
    BY <1>e, <2>1 DEF Takes
  <2>3. tre' = buf' /\ Used(tre') = Used(tre) - 1 /\ base'
    BY <1>0, <1>1, <1>e, <2>1, <2>2, RingsAlike, RingUsed DEF DelBoth
  <2>4. Taken = 0 /\ Taken' = 1 /\ x'[DataRing] = "cb"
    BY <1>0, <1>e, <2>1 DEF Taken
  <2>5. q \in {"skb", "gen"} => Used(tre') < N - 1
    BY <1>0, <1>u, <2>3
  <2>6. o = "p_fill" => Used(tre') + nr_el + Taken' <= N - 1
    BY <1>0, <1>n, <1>u, <2>3, <2>4 DEF RingInv
  <2> QED
    BY <1>0, <1>e, <1>o, <2>1, <2>2, <2>3, <2>4, <2>5, <2>6 DEF RingInv, Removing
<1>4. CASE TaskCb(g)
  <2>1. InLoop(g) /\ UNCHANGED <<tre, buf, base>> /\ x[g] = "cb" /\ UNCHANGED rings
        /\ x'[g] = IF pre_alloc THEN "recycle" ELSE "loop"
    BY <1>0, <1>4 DEF TaskCb, InLoop
  <2>2. Taken = 1 /\ Taken' \in {0, 1} /\ (x'[DataRing] = "recycle" => pre_alloc)
    BY <1>e, <2>1 DEF Taken
  <2>3. o = "p_fill" => Used(tre) + nr_el + Taken' <= N - 1
    BY <1>0, <1>n, <1>u, <2>2 DEF RingInv
  <2> QED
    BY <1>0, <1>o, <2>1, <2>2, <2>3 DEF RingInv
<1>5. CASE TaskRecycle(g)
  <2>1. InLoop(g) /\ x[g] = "recycle" /\ x'[g] = "loop"
    BY <1>0, <1>5 DEF TaskRecycle, InLoop
  <2>2. Taken = 1 /\ Taken' = 0 /\ x'[DataRing] = "loop" /\ pre_alloc
    BY <1>0, <1>e, <2>1 DEF Taken, RingInv
  <2>3. CASE UNCHANGED rings
    <3>1. o = "p_fill" => Used(tre) + nr_el + Taken' <= N - 1
      BY <1>0, <1>n, <1>u, <2>2 DEF RingInv
    <3> QED
      BY <1>0, <1>e, <1>o, <2>1, <2>2, <2>3, <3>1 DEF RingInv
  <2>4. CASE ~mhi_is_ring_full(tre) /\ mhi_gen_tre
    <3>1. Fills
      BY <1>0, <1>u, <1>e, <2>1, <2>4, RingOps DEF Fills, RingType
    <3>2. tre' = buf' /\ Used(tre') = Used(tre) + 1 /\ base'
      BY <1>0, <1>1, <1>e, <2>1, <3>1, <2>4, RingsAlike, RingUsed DEF mhi_gen_tre
    <3>3. o = "p_fill" => Used(tre') + nr_el + Taken' <= N - 1
      BY <1>0, <1>n, <1>u, <2>2, <3>2 DEF RingInv
    <3>4. q = "idle"
      BY <2>2, Enabled
    <3> QED
      BY <1>0, <1>e, <1>o, <2>1, <2>2, <3>1, <3>2, <3>3, <3>4 DEF RingInv, Removing
  <2> QED
    BY <1>5, <2>3, <2>4 DEF TaskRecycle
<1> QED
  BY <1>2, <1>3, <1>4, <1>5 DEF Tasklet

\* Every step leaves the rings as RingInv has them.
LEMMA RingStep ==
  Base /\ OrderInv /\ [Next]_vars =>
    RingInv' /\ (Fills \/ Takes \/ Resets \/ Frees \/ UNCHANGED rings)
<1> SUFFICES ASSUME Base, OrderInv, [Next]_vars
             PROVE  RingInv' /\ (Fills \/ Takes \/ Resets \/ Frees \/ UNCHANGED rings)
  OBVIOUS
<1>0. ControlInv /\ PmInv /\ RingInv /\ RingType /\ ChanInv /\ N \in Nat
  BY ChanConstants DEF Base, ChanInv
<1>1. tre = buf /\ (~base => tre.rp = tre.wp)
  BY <1>0 DEF RingInv
<1>u. Used(tre) \in Nat /\ Used(tre) <= N - 1 /\ (Used(tre) = 0 <=> tre.rp = tre.wp)
  BY <1>0, <1>1, RingUsed
<1>x. UNCHANGED x => Taken' = Taken
  BY DEF Taken
<1>2. CASE QueueSkb
  <2>1. Used(tre) < N - 1
    BY <1>0, <1>2, <1>u, RingOps DEF QueueSkb, RingType
  <2> QED
    BY <1>0, <1>2, <1>x, <2>1 DEF QueueSkb, RingInv
<1>3. CASE QueueBuf \/ QueueSkbLocked \/ QueueBufFull \/ QueueRing
  <2>1. UNCHANGED <<rings, x, o, r, nr_el>>
        /\ (q' \in {"skb", "gen"} => q \in {"skb", "gen"} \/ ~mhi_is_ring_full(tre))
    BY <1>3, Enabled DEF QueueBuf, QueueSkbLocked, QueueBufFull, QueueRing
  <2>2. ~mhi_is_ring_full(tre) => Used(tre) < N - 1
    BY <1>0, <1>u, RingOps DEF RingType
  <2> QED
    BY <1>0, <1>x, <2>1, <2>2 DEF RingInv
<1>4. CASE QueueGen
  <2>1. CASE mhi_gen_tre
    <3>1. Fills /\ o = "open" /\ r = "none" /\ base /\ UNCHANGED <<x, o, r>>
          /\ q' \notin {"skb", "gen"}
      <4>1. o = "open" /\ r = "none" /\ base /\ UNCHANGED <<x, o, r>> /\ Used(tre) < N - 1
        BY <1>0, <1>4, Enabled DEF QueueGen, RingInv
      <4> QED
        BY <1>4, <2>1, <4>1 DEF QueueGen, Fills
    <3>2. tre' = buf' /\ base'
      BY <1>0, <1>1, <2>1, <3>1, RingsAlike DEF mhi_gen_tre
    <3> QED
      BY <1>0, <3>1, <3>2 DEF RingInv
  <2>2. CASE ~mhi_gen_tre
    BY <1>0, <1>4, <1>x, <2>2 DEF QueueGen, RingInv
  <2> QED
    BY <2>1, <2>2
<1>5. CASE Open \/ Close \/ RemoveStart \/ Rebind
  BY <1>0, <1>5, <1>x DEF Open, Close, Goto, RemoveStart, Rebind, RingInv
<1>6. CASE RemoveLock \/ RemoveStale \/ RemoveCalled \/ RemoveClient
  BY <1>0, <1>6, <1>x DEF RemoveLock, RemoveStale, RemoveCalled, RemoveClient, Goto, RingInv
<1>7. CASE RemoveDrain
  <2>1. CASE mhi_reset_data_chan
    <3>0. UNCHANGED <<o, x, r, q>> /\ r = "drain" /\ o \notin OpLocked /\ tre.rp # tre.wp /\ DelBoth
          /\ base
      BY <1>0, <1>1, <1>7, <2>1 DEF RemoveDrain, mhi_reset_data_chan, ControlInv
    <3>1. Takes
      BY <1>u, <3>0 DEF Takes
    <3>2. tre' = buf' /\ base' /\ Used(tre') = Used(tre) - 1
      BY <1>0, <1>1, <3>0, <3>1, RingsAlike, RingUsed DEF DelBoth
    <3>3. Used(tre') < N - 1
      BY <1>0, <1>u, <3>2
    <3> QED
      BY <1>0, <3>0, <3>1, <3>2, <3>3 DEF RingInv, OpLocked
  <2>2. CASE ~mhi_reset_data_chan
    BY <1>0, <1>7, <1>x, <2>2 DEF RemoveDrain, RingInv
  <2> QED
    BY <2>1, <2>2
<1>8. CASE RemoveDeinit
  <2>1. tre.rp = tre.wp /\ UNCHANGED <<tre, buf, slot, sent, back, x, o, q>> /\ r' = "gone"
        /\ o = "closed"
        /\ (base' = base \/ ~base')
    BY <1>0, <1>8 DEF RemoveDeinit, mhi_deinit_chan_ctxt, RingInv, ControlInv
  <2>2. Frees \/ UNCHANGED rings
    BY <2>1 DEF Frees
  <2> QED
    BY <1>0, <2>1, <2>2 DEF RingInv
<1>9. CASE Pm
  BY <1>0, <1>9, <1>x DEF Pm, PmError, PmSuspend, PmResume, PmM0Rings, PmRecover, RingInv
<1>11. CASE Device
  <2>1. UNCHANGED <<rings, x, o, r, q, nr_el>>
    BY <1>11 DEF Device, DevCmd, DevLearn, DevXfer, DevDb
  <2> QED
    BY <1>0, <1>x, <2>1 DEF RingInv
<1>12. CASE UNCHANGED vars
  BY <1>0, <1>12, <1>x DEF vars, RingInv
<1> QED
  BY <1>2, <1>3, <1>4, <1>5, <1>6, <1>7, <1>8, <1>9, <1>11, <1>12, RingOpen, RingTasklet
  DEF Next, Queue, QueueSteps, RemoveSteps

-----------------------------------------------------------------------------
(* Counting packets                                                        *)

\* Every step counts the packets it queues and completes.
LEMMA CountStep == Base /\ OrderInv /\ Counted /\ [Next]_vars => Counted'
<1> SUFFICES ASSUME Base, OrderInv, Counted, [Next]_vars PROVE Counted'
  OBVIOUS
<1>0. ControlInv /\ PmInv /\ RingInv /\ RingType /\ ChanInv /\ N \in Nat /\ pending_pkts \in Int
      /\ x \in [Rings -> TaskPc] /\ DataRing \in Rings /\ UL \in BOOLEAN /\ (pre_alloc => ~UL)
  BY ChanConstants, RingNames DEF Base, ChanInv, EventInv, RingType
<1>1. tre = buf /\ (~base => tre.rp = tre.wp)
  BY <1>0 DEF RingInv
<1>u. Used(tre) \in Nat /\ Used(tre) <= N - 1 /\ (Used(tre) = 0 <=> tre.rp = tre.wp)
  BY <1>0, <1>1, RingUsed
<1>f. /\ Fills => Used(tre') = Used(tre) + 1
      /\ Takes => Used(tre') = Used(tre) - 1
      /\ Resets => Used(tre') = 0
      /\ Frees \/ UNCHANGED rings => Used(tre') = Used(tre)
  BY <1>0, <1>1, RingUsed
<1>r. Fills \/ Takes \/ Resets \/ Frees \/ UNCHANGED rings
  BY RingStep
<1>a. ASSUME UNCHANGED <<tre, pending_pkts>>, q' = "ring" <=> q = "ring",
             x'[DataRing] = "cb" <=> x[DataRing] = "cb"
      PROVE  Counted'
  BY <1>a DEF Counted, Outstanding
<1>n. ASSUME ~UL, UNCHANGED pending_pkts PROVE Counted'
  BY <1>n DEF Counted
<1>2. CASE QueueGen
  <2>1. CASE mhi_gen_tre /\ q' = "ring"
    <3>1. Used(tre') = Used(tre) + 1
      <4>1. Used(tre) < N - 1 /\ base
        BY <1>0, <1>2, Enabled DEF QueueGen, RingInv
      <4> QED
        BY <1>f, <2>1, <4>1 DEF Fills
    <3>2. q = "gen" /\ UNCHANGED <<pending_pkts, x>>
      BY <1>2 DEF QueueGen
    <3> QED
      BY <1>0, <1>u, <2>1, <3>1, <3>2 DEF Counted, Outstanding
  <2>2. CASE ~(mhi_gen_tre /\ q' = "ring")
    BY <1>2, <1>a, <2>2 DEF QueueGen
  <2> QED
    BY <2>1, <2>2
<1>3. CASE QueueRing
  BY <1>0, <1>3, <1>u DEF QueueRing, Counted, Outstanding
<1>4. CASE QueueSkb \/ QueueBuf \/ QueueSkbLocked \/ QueueBufFull
  BY <1>4, <1>a DEF QueueSkb, QueueBuf, QueueSkbLocked, QueueBufFull
<1>5. CASE Open \/ Close \/ RemoveStart \/ Rebind
  BY <1>5, <1>a DEF Open, Close, RemoveStart, Rebind
<1>6. CASE PrepareLock
  <2>1. UNCHANGED <<pending_pkts, q, x>> /\ Used(tre') = Used(tre)
    <3>1. CASE o' = "closed"
      BY <1>6, <1>u, <3>1 DEF PrepareLock, Goto
    <3>2. CASE o' # "closed"
      <4>1. tre' = [rp |-> 0, wp |-> 0] /\ tre.rp = tre.wp
        BY <1>0, <1>1, <1>6, <3>2 DEF PrepareLock, mhi_init_chan_ctxt, Goto, ControlInv, OpLocked
      <4>2. Used(tre') = 0
        BY <4>1 DEF Used
      <4> QED
        BY <1>6, <1>u, <4>1, <4>2 DEF PrepareLock
    <3> QED
      BY <1>6, <3>1, <3>2 DEF PrepareLock
  <2> QED
    BY <1>0, <1>u, <2>1 DEF Counted, Outstanding
<1>7. CASE PrepareErr \/ PrepareSend \/ PrepareWait \/ PrepareCcs \/ PrepareEnable \/ PrepareDb \/ PrepareFail
  BY <1>7, <1>a DEF PrepareErr, PrepareSend, PrepareWait, PrepareCcs, PrepareEnable, PrepareDb, PrepareFail
<1>8. CASE PrepareFill
  BY <1>0, <1>8, <1>n DEF PrepareFill, RingInv
<1>9. CASE UnprepareLock \/ UnprepareErr \/ UnprepareSend \/ UnprepareWait \/ UnprepareStale \/ UnprepareDeinit
  BY <1>9, <1>a DEF UnprepareLock, UnprepareErr, UnprepareSend, UnprepareWait, UnprepareStale, UnprepareDeinit
<1>10. CASE UnprepareDrain \/ RemoveDrain
  <2>1. CASE mhi_reset_data_chan
    <3>1. Used(tre') = Used(tre) - 1
      BY <1>f, <1>u, <1>1, <2>1 DEF Takes, mhi_reset_data_chan
    <3>2. UNCHANGED <<q, x>>
      BY <1>10 DEF UnprepareDrain, RemoveDrain
    <3> QED
      BY <1>0, <1>u, <2>1, <3>1, <3>2 DEF mhi_reset_data_chan, Counted, Outstanding
  <2>2. CASE ~mhi_reset_data_chan
    BY <1>10, <1>a, <2>2 DEF UnprepareDrain, RemoveDrain
  <2> QED
    BY <2>1, <2>2
<1>11. CASE RemoveLock \/ RemoveStale \/ RemoveCalled \/ RemoveClient \/ RemoveDeinit
  BY <1>11, <1>a DEF RemoveLock, RemoveStale, RemoveCalled, RemoveClient, RemoveDeinit
<1>12. CASE PmError \/ PmSuspend \/ PmResume \/ PmM0Rings \/ PmRecover
  BY <1>12, <1>a DEF PmError, PmSuspend, PmResume, PmM0Rings, PmRecover
<1>13. CASE Device
  BY <1>13, <1>a DEF Device, DevCmd, DevLearn, DevXfer, DevDb
<1>14. ASSUME NEW g \in Rings, Tasklet(g) PROVE Counted'
  <2>0. UNCHANGED q
    BY <1>14 DEF Tasklet, TaskStart, TaskEnd, TaskStale, TaskCmd, TaskSee, TaskDb, TaskTx, TaskTake,
       TaskCb, TaskRecycle, TaskTxEnd
  <2>1. CASE TaskStart(g) \/ TaskEnd(g) \/ TaskStale(g) \/ TaskCmd(g) \/ TaskSee(g) \/ TaskDb(g)
             \/ TaskTx(g) \/ TaskTxEnd(g)
    <3>1. UNCHANGED <<tre, pending_pkts>> /\ (x'[DataRing] = "cb" <=> x[DataRing] = "cb")
      BY <1>0, <2>1 DEF TaskStart, TaskEnd, TaskStale, TaskCmd, TaskSee, TaskDb, TaskTx, TaskTxEnd
    <3> QED
      BY <1>a, <2>0, <3>1
  <2>2. CASE TaskTake(g)
    <3>1. g = DataRing
      BY <1>0, <2>2, RecycledEvent DEF TaskTake
    <3>2. x[DataRing] = "loop" /\ x'[DataRing] = "cb" /\ UNCHANGED pending_pkts
      BY <1>0, <2>2, <3>1 DEF TaskTake
    <3>3. Used(tre') = Used(tre) - 1
      <4>1. Used(tre) > 0 /\ DelBoth
        BY <1>14, <2>2, OrderTasklet DEF TaskTake
      <4> QED
        BY <1>f, <1>u, <1>1, <4>1 DEF Takes
    <3> QED
      BY <1>0, <1>u, <2>0, <3>2, <3>3 DEF Counted, Outstanding
  <2>3. CASE TaskCb(g)
    <3>1. g = DataRing
      BY <1>0, <2>3, RecycledEvent DEF TaskCb
    <3>2. x[DataRing] = "cb" /\ x'[DataRing] # "cb" /\ UNCHANGED tre
          /\ pending_pkts' = IF UL THEN pending_pkts - 1 ELSE pending_pkts
      BY <1>0, <2>3, <3>1 DEF TaskCb
    <3> QED
      BY <1>0, <1>u, <2>0, <3>2 DEF Counted, Outstanding
  <2>4. CASE TaskRecycle(g)
    <3>1. g = DataRing
      BY <1>0, <2>4, RecycledEvent DEF TaskRecycle
    <3> QED
      BY <1>0, <1>n, <2>4, <3>1 DEF TaskRecycle, RingInv
  <2> QED
    BY <1>14, <2>1, <2>2, <2>3, <2>4 DEF Tasklet
<1>15. CASE UNCHANGED vars
  BY <1>15, <1>a DEF vars
<1> QED
  BY <1>2, <1>3, <1>4, <1>5, <1>6, <1>7, <1>8, <1>9, <1>10, <1>11, <1>12, <1>13, <1>14, <1>15
  DEF Next, Queue, QueueSteps, OpenSteps, PrepareSteps, UnprepareSteps, RemoveSteps, Pm

-----------------------------------------------------------------------------
(* The invariant                                                           *)

\* PM state, flags and program counters.
PlainType ==
  /\ pm \in {"M0", "M3", "ERR"} /\ m0_rings \in BOOLEAN
  /\ ccs \in {"INVALID", "SUCCESS", "UNDEFINED_ERR"} /\ done \in BOOLEAN
  /\ base \in BOOLEAN
  /\ o \in OpenPc /\ opens \in Nat
  /\ r \in RemovePc /\ r_was \in {"DISABLED", "ENABLED", "SUSPENDED"}
  /\ d_on \in BOOLEAN

FifoInv == Base /\ PlainType /\ OrderInv /\ Counted

\* Initially the invariant holds.
LEMMA InitFifo == Safe /\ Init => FifoInv
<1> SUFFICES ASSUME Safe, Init PROVE FifoInv
  OBVIOUS
<1>0. 0 \in El /\ x[DataRing] = "idle" /\ Used(tre) = 0
  BY ChanConstants, RingNames DEF Init, El, Used
<1>1. Base
  <2>1. RingInv
    BY <1>0 DEF Init, RingInv, OpLocked
  <2> QED
    BY <2>1, InitChan, InitPm, InitCmd, InitStart, InitFresh, InitRing DEF Base
<1>2. PlainType
  BY DEF Init, PlainType, OpenPc, RemovePc
<1>3. OrderInv
  BY DEF Init, OrderInv, Live
<1>4. Counted
  BY <1>0 DEF Init, Counted, Outstanding
<1> QED
  BY <1>1, <1>2, <1>3, <1>4 DEF FifoInv

\* Every step keeps the types of the flags and of the program counters.
LEMMA PlainStep == ControlInv /\ PlainType /\ [Next]_vars => PlainType'
<1> SUFFICES ASSUME ControlInv, PlainType, [Next]_vars PROVE PlainType'
  OBVIOUS
<1> USE DEF PlainType, OpenPc, RemovePc
<1>c. MaxOpens \in Nat
  BY ChanConstants
<1>1. CASE Queue
  BY <1>1 DEF Queue, QueueSkb, QueueBuf, QueueSteps, QueueSkbLocked, QueueBufFull, QueueGen,
     QueueRing, mhi_gen_tre
<1>2. CASE Open \/ Close
  BY <1>2 DEF Open, Close, Goto
<1>3. CASE PrepareSteps
  BY <1>3 DEF PrepareSteps, PrepareLock, PrepareErr, PrepareSend, PrepareWait, PrepareCcs,
     PrepareEnable, PrepareFill, PrepareDb, PrepareFail, Goto, mhi_init_chan_ctxt, mhi_gen_tre,
     mhi_deinit_chan_ctxt
<1>4. CASE UnprepareSteps
  BY <1>4 DEF UnprepareSteps, UnprepareLock, UnprepareErr, UnprepareSend, UnprepareWait,
     UnprepareStale, UnprepareDrain, UnprepareDeinit, Goto, mhi_reset_data_chan, DelBoth,
     mhi_deinit_chan_ctxt
<1>5. CASE RemoveStart \/ RemoveSteps \/ Rebind
  <2>1. CASE RemoveStart \/ RemoveLock \/ RemoveStale \/ RemoveCalled \/ Rebind
    <3>1. UNCHANGED <<pm, m0_rings, base, o, opens, d_on>>
      BY <2>1 DEF RemoveStart, RemoveLock, RemoveStale, RemoveCalled, Rebind
    <3>2. r' \in {"lock", "stale", "drain", "stop", "none"} /\ (r_was' = r_was \/ r_was' = ch_state)
          /\ ccs' \in {ccs, "INVALID"} /\ done' \in BOOLEAN
      BY <2>1 DEF RemoveStart, RemoveLock, RemoveStale, RemoveCalled, Rebind
    <3> QED
      BY <3>1, <3>2 DEF ControlInv
  <2>2. CASE RemoveDrain
    BY <2>2 DEF RemoveDrain, mhi_reset_data_chan, DelBoth
  <2>3. CASE RemoveClient \/ RemoveDeinit
    BY <2>3 DEF RemoveClient, RemoveDeinit, Goto, mhi_deinit_chan_ctxt
  <2> QED
    BY <1>5, <2>1, <2>2, <2>3 DEF RemoveSteps
<1>6. CASE Pm
  BY <1>6 DEF Pm, PmError, PmSuspend, PmResume, PmM0Rings, PmRecover
<1>8. CASE Device
  <2>1. ASSUME NEW ok \in BOOLEAN, DevCmd(ok) PROVE PlainType'
    <3>1. UNCHANGED <<pm, m0_rings, ccs, done, base, o, opens, r, r_was>> 
      BY <2>1 DEF DevCmd
    <3>2. d_on' = d_on \/ d_on' = TRUE \/ d_on' = FALSE
      BY <2>1 DEF DevCmd
    <3>3. d_on' \in BOOLEAN
      BY <3>2, Zenon
    <3> QED
      BY <3>1, <3>3
  <2>2. ASSUME NEW i \in El, DevXfer(i) PROVE PlainType'
    BY <2>2 DEF DevXfer
  <2>3. CASE DevLearn \/ DevDb
    BY <2>3 DEF DevLearn, DevDb
  <2> QED
    BY <1>8, <2>1, <2>2, <2>3 DEF Device
<1>9. ASSUME NEW g \in Rings, Tasklet(g) PROVE PlainType'
  <2>1. CASE TaskStart(g) \/ TaskEnd(g) \/ TaskStale(g) \/ TaskSee(g) \/ TaskTx(g) \/ TaskCb(g) \/ TaskTxEnd(g)
    <3>1. UNCHANGED <<pm, m0_rings, ccs, done, base, o, opens, r, r_was, d_on>>
      BY <2>1 DEF TaskStart, TaskEnd, TaskStale, TaskSee, TaskTx, TaskCb, TaskTxEnd
    <3> QED
      BY <3>1
  <2>2. CASE TaskDb(g) \/ TaskRecycle(g)
    BY <2>2 DEF TaskDb, TaskRecycle, mhi_gen_tre
  <2>3. CASE TaskCmd(g) \/ TaskTake(g)
    BY <2>3 DEF TaskCmd, TaskTake, DelBoth
  <2> QED
    BY <1>9, <2>1, <2>2, <2>3 DEF Tasklet
<1>10. CASE UNCHANGED vars
  BY <1>10 DEF vars
<1> QED
  BY <1>1, <1>2, <1>3, <1>4, <1>5, <1>6, <1>8, <1>9, <1>10 DEF Next, OpenSteps

\* Every step keeps the invariant.
LEMMA FifoStep == FifoInv /\ [Next]_vars => FifoInv'
<1> SUFFICES ASSUME FifoInv, [Next]_vars PROVE FifoInv'
  OBVIOUS
<1>1. Base /\ PlainType /\ OrderInv /\ Counted
  BY DEF FifoInv
<1>2. Safe /\ Prompt /\ ChanInv /\ PmInv /\ CmdInv /\ StartInv /\ FreshInv /\ RingType /\ RingInv
  BY <1>1 DEF Base, Safe
<1>3. Safe'
  BY <1>2 DEF Safe, Prompt, SkbOnly
<1>4. ChanInv'
  BY <1>2, ControlStep, EventStep DEF ChanInv
<1>5. PmInv' /\ CmdInv' /\ StartInv' /\ FreshInv' /\ RingType'
  BY <1>2, PmStep, CmdStep, StartStep, EvsStep, HeadStep, RingTypeStep DEF FreshInv
<1>6. RingInv'
  BY <1>1, RingStep
<1>7. OrderInv' /\ Counted'
  BY <1>1, OrderStep, CountStep
<1>8. PlainType'
  BY <1>1, <1>2, PlainStep DEF ChanInv
<1> QED
  BY <1>3, <1>4, <1>5, <1>6, <1>7, <1>8 DEF FifoInv, Base

\* It holds in every reachable state.
LEMMA FifoInvariant == Safe /\ Spec => []FifoInv
<1>1. Safe /\ Init => FifoInv
  BY InitFifo
<1>2. FifoInv /\ [Next]_vars => FifoInv'
  BY FifoStep
<1> QED
  BY <1>1, <1>2, PTL DEF Spec

\* Whatever the client queues with: commands, their answers and whose events there are.
SessionInv == Prompt /\ ChanInv /\ PmInv /\ CmdInv /\ StartInv /\ FreshInv

\* It holds in every reachable state.
LEMMA SessionInvariant == Prompt /\ Spec => []SessionInv
<1>1. Prompt /\ Init => SessionInv
  BY InitChan, InitPm, InitCmd, InitStart, InitFresh DEF SessionInv
<1>2. SessionInv /\ [Next]_vars => SessionInv'
  <2> SUFFICES ASSUME SessionInv, [Next]_vars PROVE SessionInv'
    OBVIOUS
  <2>1. Prompt /\ ChanInv /\ PmInv /\ CmdInv /\ StartInv /\ FreshInv
    BY DEF SessionInv
  <2>2. Prompt' /\ ChanInv'
    BY <2>1, ControlStep, EventStep DEF ChanInv, Prompt
  <2>3. PmInv' /\ CmdInv' /\ StartInv' /\ FreshInv'
    BY <2>1, PmStep, CmdStep, StartStep, EvsStep, HeadStep DEF FreshInv
  <2> QED
    BY <2>2, <2>3 DEF SessionInv
<1> QED
  BY <1>1, <1>2, PTL DEF Spec

-----------------------------------------------------------------------------
(* Answers that are owed, whether they come in time or not                  *)

Answers == {i \in CtrlEvs : IsCmd(i)}

\* The device executes only commands it was told of, and each event of the control ring that
\* answers a command has its command in the command ring.
OwedInv ==
  /\ cmds \in Seq({"START", "RESET"}) /\ Len(cmds) <= CmdN - 1
  /\ c_db \in Nat /\ c_db <= Len(cmds) /\ d_cmd \in Nat /\ d_cmd <= c_db
  /\ d_cmd = Cardinality(Answers)
  /\ \A i \in Answers : ~ev["ctrl"][i].stale

\* There are finitely many answers.
LEMMA AnswersFinite ==
  ASSUME EventInv
  PROVE  IsFiniteSet(Answers) /\ Cardinality(Answers) \in Nat /\ ev["ctrl"] \in Seq(Event)
         /\ Len(ev["ctrl"]) \in Nat
<1>1. ev["ctrl"] \in Seq(Event)
  BY RingNames DEF EventInv
<1>2. Len(ev["ctrl"]) \in Nat /\ Answers \in SUBSET (1..Len(ev["ctrl"]))
  BY <1>1 DEF Answers, CtrlEvs
<1>3. IsFiniteSet(1..Len(ev["ctrl"]))
  BY <1>2, FS_Interval
<1>4. IsFiniteSet(Answers)
  BY <1>2, <1>3, FS_Subset
<1> QED
  BY <1>1, <1>2, <1>4, FS_CardinalityType

\* An event is recycled: one answer less, if it was one.
LEMMA OwedDropped ==
  ASSUME EventInv, NEW g \in Rings, ev[g] # <<>>, mhi_recycle_ev_ring_element(g),
         \A i \in Answers : ~ev["ctrl"][i].stale
  PROVE  /\ Cardinality(Answers') = Cardinality(Answers) - (IF ev[g][1].type = "CMD" THEN 1 ELSE 0)
         /\ \A i \in Answers' : ~ev'["ctrl"][i].stale
<1>0. IsFiniteSet(Answers) /\ Cardinality(Answers) \in Nat /\ Len(ev["ctrl"]) \in Nat /\ Dropped(g)
  BY AnswersFinite, RecycleDrops DEF EventInv
<1>1. CASE g # "ctrl"
  <2>1. ev[g] \in Seq(Event) /\ 1 \in 1..Len(ev[g])
    BY DEF EventInv
  <2>2. ev[g][1].type # "CMD" /\ ev'["ctrl"] = ev["ctrl"]
    BY <1>0, <1>1, <2>1, RingNames DEF EventInv, Dropped
  <2>3. Answers' = Answers
    BY <2>2 DEF Answers, CtrlEvs, IsCmd
  <2> QED
    BY <1>0, <2>2, <2>3
<1>2. CASE g = "ctrl"
  <2>1. /\ Len(ev'["ctrl"]) = Len(ev["ctrl"]) - 1 /\ 1 \in CtrlEvs
        /\ \A i \in 1..Len(ev'["ctrl"]) : ev'["ctrl"][i] = ev["ctrl"][i + 1]
    BY <1>0, <1>2, AnswersFinite DEF Dropped, CtrlEvs
  <2>2. \A i \in Answers' : i \in Nat /\ i + 1 \in Answers \ {1} /\ ev'["ctrl"][i] = ev["ctrl"][i + 1]
    BY <1>0, <2>1 DEF Answers, CtrlEvs, IsCmd
  <2>3. \A j \in Answers \ {1} : j - 1 \in Answers' /\ (j - 1) + 1 = j
    BY <1>0, <2>1 DEF Answers, CtrlEvs, IsCmd
  <2> DEFINE S == Answers'
             T == Answers \ {1}
  <2>4. IsFiniteSet(T) /\ Cardinality(T) = Cardinality(Answers) - (IF ev[g][1].type = "CMD" THEN 1 ELSE 0)
    <3>1. 1 \in Answers <=> ev[g][1].type = "CMD"
      BY <1>2, <2>1 DEF Answers, IsCmd
    <3>2. /\ IsFiniteSet(T)
          /\ Cardinality(T) = IF 1 \in Answers THEN Cardinality(Answers) - 1 ELSE Cardinality(Answers)
      BY <1>0, FS_RemoveElement
    <3> QED
      BY <1>0, <3>1, <3>2
  <2>5. ExistsBijection(T, S)
    <3> DEFINE h == [j \in T |-> j - 1]
    <3>1. h \in [T -> S]
      BY <2>3
    <3>2. \A a, b \in T : h[a] = h[b] => a = b
      <4> SUFFICES ASSUME NEW a \in T, NEW b \in T, h[a] = h[b] PROVE a = b
        OBVIOUS
      <4>1. a - 1 = b - 1 /\ (a - 1) + 1 = a /\ (b - 1) + 1 = b
        BY <2>3
      <4> QED
        BY <4>1
    <3>3. \A i \in S : \E j \in T : h[j] = i
      <4> SUFFICES ASSUME NEW i \in S PROVE \E j \in T : h[j] = i
        OBVIOUS
      <4>1. i \in Nat /\ i + 1 \in T
        BY <2>2
      <4>2. h[i + 1] = i
        BY <4>1
      <4> QED
        BY <4>1, <4>2
    <3> HIDE DEF h, S, T
    <3> QED
      BY <3>1, <3>2, <3>3, Zenon DEF ExistsBijection, Bijection, Injection, Surjection, IsInjective
  <2>6. Cardinality(S) = Cardinality(T)
    BY <2>4, <2>5, FS_Bijection
  <2> QED
    BY <2>2, <2>4, <2>6
<1> QED
  BY <1>1, <1>2

\* The device adds an event: one answer more, if it is one.
LEMMA OwedAdded ==
  ASSUME EventInv, NEW g \in Rings, NEW e \in Event, Put(g, e), e.type = "CMD" => g = "ctrl" /\ ~e.stale,
         \A i \in Answers : ~ev["ctrl"][i].stale
  PROVE  /\ Cardinality(Answers') = Cardinality(Answers) + (IF e.type = "CMD" THEN 1 ELSE 0)
         /\ \A i \in Answers' : ~ev'["ctrl"][i].stale
<1>0. IsFiniteSet(Answers) /\ Cardinality(Answers) \in Nat /\ Len(ev["ctrl"]) \in Nat /\ Added(g, e)
  BY AnswersFinite, PutAdds DEF EventInv
<1>1. CASE g # "ctrl"
  <2>1. ev'["ctrl"] = ev["ctrl"]
    BY <1>0, <1>1, RingNames DEF Added
  <2>2. Answers' = Answers
    BY <2>1 DEF Answers, CtrlEvs, IsCmd
  <2> QED
    BY <1>0, <1>1, <2>1, <2>2
<1>2. CASE g = "ctrl"
  <2> DEFINE n == Len(ev["ctrl"])
  <2>1. /\ Len(ev'["ctrl"]) = n + 1 /\ ev'["ctrl"][n + 1] = e
        /\ \A i \in 1..n : ev'["ctrl"][i] = ev["ctrl"][i]
    BY <1>0, <1>2 DEF Added
  <2>2. \A i \in CtrlEvs' : i = n + 1 \/ i \in 1..n
    BY <1>0, <2>1 DEF CtrlEvs
  <2>3. Answers' = IF e.type = "CMD" THEN Answers \cup {n + 1} ELSE Answers
    BY <1>0, <2>1, <2>2 DEF Answers, CtrlEvs, IsCmd
  <2>4. n + 1 \notin Answers
    BY <1>0 DEF Answers, CtrlEvs
  <2>5. Cardinality(Answers \cup {n + 1}) = Cardinality(Answers) + 1
    BY <1>0, <2>4, FS_AddElement
  <2>6. \A i \in Answers' : ~ev'["ctrl"][i].stale
    BY <2>1, <2>2 DEF Answers, CtrlEvs, IsCmd
  <2> QED
    BY <1>0, <2>3, <2>5, <2>6
<1> QED
  BY <1>1, <1>2

\* Marking events stale leaves the answers alone.
LEMMA OwedMarked ==
  ASSUME EventInv, mhi_mark_stale_events, \A i \in Answers : ~ev["ctrl"][i].stale
  PROVE  Answers' = Answers /\ \A i \in Answers' : ~ev'["ctrl"][i].stale
<1>1. Marked /\ "ctrl" \in Rings
  BY MarkMarks, RingNames DEF EventInv
<1>2. Answers' = Answers
  BY <1>1 DEF Marked, Answers, CtrlEvs, IsCmd
<1>3. CASE DataRing = "ctrl"
  BY <1>1, <1>2, <1>3 DEF Marked, Answers, CtrlEvs, IsCmd
<1>4. CASE DataRing # "ctrl"
  <2>1. ev'["ctrl"] = ev["ctrl"]
    BY <1>4, RingNames DEF mhi_mark_stale_events, EventInv
  <2> QED
    BY <1>2, <2>1
<1> QED
  BY <1>2, <1>3, <1>4

\* Initially nothing is owed.
LEMMA InitOwed == Init => OwedInv
<1> SUFFICES ASSUME Init PROVE OwedInv
  OBVIOUS
<1>1. ev["ctrl"] = <<>> /\ cmds = <<>> /\ c_db = 0 /\ d_cmd = 0 /\ CmdN \in Nat /\ CmdN >= 2
  BY RingNames, ChanConstants DEF Init
<1>2. Answers = {}
  BY <1>1 DEF Answers, CtrlEvs
<1> QED
  BY <1>1, <1>2, FS_EmptySet DEF OwedInv

\* Every step sends, executes and answers commands one by one: none is answered twice, and no
\* answer meets an empty command ring, even one that comes after its caller has given up.
LEMMA OwedStep == ChanInv /\ OwedInv /\ [Next]_vars => OwedInv'
<1> SUFFICES ASSUME ChanInv, OwedInv, [Next]_vars PROVE OwedInv'
  OBVIOUS
<1>0. EventInv /\ CmdN \in Nat /\ CmdN >= 2 /\ (\A i \in Answers : ~ev["ctrl"][i].stale)
      /\ Len(cmds) \in Nat /\ sess \in Nat /\ d_sess \in Nat /\ 0 \in El
  BY ChanConstants DEF ChanInv, EventInv, OwedInv, El
<1>e. UNCHANGED ev => Answers' = Answers
  BY DEF Answers, CtrlEvs, IsCmd
<1>a. ASSUME UNCHANGED <<ev, cmds, c_db, d_cmd>> PROVE OwedInv'
  BY <1>a, <1>e DEF OwedInv
<1>s. ASSUME UNCHANGED <<ev, d_cmd>>, NEW c \in {"START", "RESET"}, mhi_send_cmd(c) PROVE OwedInv'
  <2>1. cmds' = Append(cmds, c) /\ Len(cmds) < CmdN - 1 /\ (c_db' = Len(cmds) + 1 \/ c_db' = c_db)
    BY <1>s DEF mhi_send_cmd
  <2>2. cmds' \in Seq({"START", "RESET"}) /\ Len(cmds') = Len(cmds) + 1
    BY <2>1 DEF OwedInv
  <2> QED
    BY <1>0, <1>e, <1>s, <2>1, <2>2 DEF OwedInv
<1>m. ASSUME mhi_mark_stale_events, UNCHANGED <<cmds, c_db, d_cmd>> PROVE OwedInv'
  BY <1>0, <1>m, OwedMarked DEF OwedInv
<1>1. CASE Queue \/ Open \/ Close \/ RemoveStart \/ Rebind
  BY <1>1, <1>a DEF Queue, QueueSkb, QueueBuf, QueueSteps, QueueSkbLocked, QueueBufFull, QueueGen,
     QueueRing, Open, Close, RemoveStart, Rebind
<1>2. CASE PrepareSend \/ UnprepareSend
  BY <1>2, <1>a, <1>s DEF PrepareSend, UnprepareSend, mhi_send_cmd
<1>3. CASE UnprepareStale \/ RemoveStale
  BY <1>3, <1>m DEF UnprepareStale, RemoveStale
<1>4. CASE PrepareLock \/ PrepareErr \/ PrepareWait \/ PrepareCcs \/ PrepareEnable \/ PrepareFill
           \/ PrepareDb \/ PrepareFail
  BY <1>4, <1>a DEF PrepareLock, PrepareErr, PrepareWait, PrepareCcs, PrepareEnable, PrepareFill,
     PrepareDb, PrepareFail
<1>5. CASE UnprepareLock \/ UnprepareErr \/ UnprepareWait \/ UnprepareDrain \/ UnprepareDeinit
  BY <1>5, <1>a DEF UnprepareLock, UnprepareErr, UnprepareWait, UnprepareDrain, UnprepareDeinit
<1>6. CASE RemoveLock \/ RemoveDrain \/ RemoveCalled \/ RemoveClient \/ RemoveDeinit
  BY <1>6, <1>a DEF RemoveLock, RemoveDrain, RemoveCalled, RemoveClient, RemoveDeinit
<1>7. CASE PmError \/ PmSuspend \/ PmResume
  BY <1>7, <1>a DEF PmError, PmSuspend, PmResume
<1>8. CASE PmM0Rings
  BY <1>0, <1>8, <1>e DEF PmM0Rings, OwedInv
<1>9. CASE PmRecover
  <2>1. ev'["ctrl"] = <<>> /\ cmds' = <<>> /\ c_db' = 0 /\ d_cmd' = 0
    BY <1>9, RingNames DEF PmRecover
  <2>2. Answers' = {}
    BY <2>1 DEF Answers, CtrlEvs
  <2> QED
    BY <1>0, <2>1, <2>2, FS_EmptySet DEF OwedInv
<1>10. CASE Device
  <2>1. ASSUME NEW ok \in BOOLEAN, DevCmd(ok) PROVE OwedInv'
    <3> DEFINE e == [type |-> "CMD", stale |-> FALSE, idx |-> 0, sess |-> sess, ok |-> ok]
    <3>1. e \in Event /\ e.type = "CMD" /\ ~e.stale
      BY <1>0 DEF Event
    <3>2. Put("ctrl", e) /\ UNCHANGED <<cmds, c_db>> /\ d_cmd < c_db /\ d_cmd' = d_cmd + 1
      BY <2>1 DEF DevCmd
    <3> HIDE DEF e
    <3>3. Cardinality(Answers') = Cardinality(Answers) + 1 /\ \A i \in Answers' : ~ev'["ctrl"][i].stale
      BY <1>0, <3>1, <3>2, RingNames, OwedAdded
    <3> QED
      BY <1>0, <3>2, <3>3 DEF OwedInv
  <2>2. ASSUME NEW g \in Rings, NEW e \in Event, Put(g, e), e.type # "CMD", UNCHANGED <<cmds, c_db, d_cmd>>
        PROVE  OwedInv'
    <3>1. Cardinality(Answers') = Cardinality(Answers) + 0 /\ \A i \in Answers' : ~ev'["ctrl"][i].stale
      BY <1>0, <2>2, OwedAdded
    <3> QED
      BY <1>0, <2>2, <3>1 DEF OwedInv
  <2>3. ASSUME NEW k \in El, DevXfer(k) PROVE OwedInv'
    <3> DEFINE e == [type |-> "TX", stale |-> FALSE, idx |-> k, sess |-> d_sess, ok |-> TRUE]
    <3>1. e \in Event /\ e.type # "CMD" /\ Put(DataRing, e) /\ UNCHANGED <<cmds, c_db, d_cmd>>
      BY <1>0, <2>3 DEF Event, DevXfer
    <3> HIDE DEF e
    <3> QED
      BY <2>2, <3>1, RingNames
  <2>4. CASE DevDb
    <3> DEFINE e == [type |-> "DB", stale |-> FALSE, idx |-> 0, sess |-> d_sess, ok |-> TRUE]
    <3>1. e \in Event /\ e.type # "CMD" /\ Put(DataRing, e) /\ UNCHANGED <<cmds, c_db, d_cmd>>
      BY <1>0, <2>4 DEF Event, DevDb
    <3> HIDE DEF e
    <3> QED
      BY <2>2, <3>1, RingNames
  <2>5. CASE DevLearn
    BY <1>0, <2>5 DEF DevLearn, OwedInv, Answers, CtrlEvs, IsCmd
  <2> QED
    BY <1>10, <2>1, <2>3, <2>4, <2>5 DEF Device
<1>11. ASSUME NEW g \in Rings, Tasklet(g) PROVE OwedInv'
  <2>d. ASSUME mhi_recycle_ev_ring_element(g), ev[g] # <<>>, ev[g][1].type # "CMD",
               UNCHANGED <<cmds, c_db, d_cmd>>
        PROVE  OwedInv'
    <3>1. Cardinality(Answers') = Cardinality(Answers) - 0 /\ \A i \in Answers' : ~ev'["ctrl"][i].stale
      BY <1>0, <2>d, OwedDropped
    <3> QED
      BY <1>0, <2>d, <3>1 DEF OwedInv
  <2>1. CASE TaskStart(g) \/ TaskEnd(g) \/ TaskSee(g) \/ TaskTake(g) \/ TaskCb(g) \/ TaskRecycle(g)
    BY <2>1, <1>a DEF TaskStart, TaskEnd, TaskSee, TaskTake, TaskCb, TaskRecycle
  <2>2. CASE TaskStale(g)
    <3>1. ev[g] # <<>> /\ ev[g][1].stale /\ ev[g] \in Seq(Event) /\ 1 \in 1..Len(ev[g])
      BY <1>0, <2>2, RecycledEvent DEF TaskStale, EventInv
    <3>2. ev[g][1].type # "CMD"
      BY <1>0, <3>1 DEF EventInv, Answers, IsCmd, CtrlEvs
    <3> QED
      BY <2>2, <2>d, <3>1, <3>2 DEF TaskStale
  <2>3. CASE TaskCmd(g)
    <3>1. ev[g] # <<>> /\ ev[g][1].type = "CMD" /\ mhi_recycle_ev_ring_element(g)
          /\ cmds' = Tail(cmds) /\ c_db' = c_db - 1 /\ d_cmd' = d_cmd - 1
      BY <2>3, RecycledEvent DEF TaskCmd, Is
    <3>2. Cardinality(Answers') = Cardinality(Answers) - 1 /\ \A i \in Answers' : ~ev'["ctrl"][i].stale
      BY <1>0, <3>1, OwedDropped
    <3>3. Cardinality(Answers') \in Nat
      <4>1. EventInv'
        BY EventStep
      <4>2. (IsFiniteSet(Answers) /\ Cardinality(Answers) \in Nat)'
        BY <4>1, AnswersFinite, PTL
      <4> QED
        BY <4>2
    <3>4. d_cmd > 0 /\ Len(cmds) > 0 /\ cmds # <<>>
      BY <1>0, <3>2, <3>3 DEF OwedInv
    <3>5. Tail(cmds) \in Seq({"START", "RESET"}) /\ Len(Tail(cmds)) = Len(cmds) - 1
      BY <3>4 DEF OwedInv
    <3> QED
      BY <1>0, <3>1, <3>2, <3>3, <3>4, <3>5 DEF OwedInv
  <2>4. CASE TaskDb(g)
    BY <2>4, <2>d, RecycledEvent DEF TaskDb
  <2>5. CASE TaskTx(g)
    BY <2>5, <1>a, <2>d, RecycledEvent DEF TaskTx
  <2>6. CASE TaskTxEnd(g)
    BY <2>6, <2>d, RecycledEvent DEF TaskTxEnd
  <2> QED
    BY <1>11, <2>1, <2>2, <2>3, <2>4, <2>5, <2>6 DEF Tasklet
<1>12. CASE UNCHANGED vars
  BY <1>12, <1>a DEF vars
<1> QED
  BY <1>1, <1>2, <1>3, <1>4, <1>5, <1>6, <1>7, <1>8, <1>9, <1>10, <1>11, <1>12
  DEF Next, OpenSteps, PrepareSteps, UnprepareSteps, RemoveSteps, Pm

\* The queueing thread's program counter is one of its own.
QueueType == q \in QueuePc /\ q_kind \in {"skb", "buf"}

\* What holds of every channel, whatever the device answers and whenever its driver is unbound.
AnyInv == ChanInv /\ RingType /\ PlainType /\ OwedInv /\ QueueType

\* It holds in every reachable state.
LEMMA AnyInvariant == Spec => []AnyInv
<1>1. Init => AnyInv
  <2> SUFFICES ASSUME Init PROVE AnyInv
    OBVIOUS
  <2>1. PlainType
    BY DEF Init, PlainType, OpenPc, RemovePc
  <2>2. QueueType
    BY DEF Init, QueueType, QueuePc
  <2> QED
    BY <2>1, <2>2, InitChan, InitRing, InitOwed DEF AnyInv
<1>2. AnyInv /\ [Next]_vars => AnyInv'
  <2> SUFFICES ASSUME AnyInv, [Next]_vars PROVE AnyInv'
    OBVIOUS
  <2>1. ChanInv /\ ControlInv /\ RingType /\ PlainType /\ OwedInv /\ QueueType
    BY DEF AnyInv, ChanInv
  <2>2. ChanInv' /\ RingType' /\ PlainType' /\ OwedInv'
    BY <2>1, ControlStep, EventStep, RingTypeStep, PlainStep, OwedStep DEF ChanInv
  <2>3. ASSUME Queue PROVE QueueType'
    BY <2>1, <2>3 DEF Queue, QueueSkb, QueueBuf, QueueSteps, QueueSkbLocked, QueueBufFull, QueueGen,
       QueueRing, QueueType, QueuePc
  <2>4. ASSUME ~Queue PROVE QueueType'
    <3>1. UNCHANGED <<q, q_kind>>
      <4>1. CASE OpenSteps \/ Open \/ Close
        BY <4>1 DEF OpenSteps, PrepareSteps, PrepareLock, PrepareErr, PrepareSend, PrepareWait, PrepareCcs,
           PrepareEnable, PrepareFill, PrepareDb, PrepareFail, UnprepareSteps, UnprepareLock, UnprepareErr,
           UnprepareSend, UnprepareWait, UnprepareStale, UnprepareDrain, UnprepareDeinit, Open, Close
      <4>2. CASE RemoveStart \/ RemoveSteps \/ Rebind
        BY <4>2 DEF RemoveStart, RemoveSteps, RemoveLock, RemoveStale, RemoveDrain, RemoveCalled,
           RemoveClient, RemoveDeinit, Rebind
      <4>3. CASE Pm \/ Device
        BY <4>3 DEF Pm, PmError, PmSuspend, PmResume, PmM0Rings, PmRecover, Device, DevCmd, DevLearn, DevXfer, DevDb
      <4>4. ASSUME NEW g \in Rings, Tasklet(g) PROVE UNCHANGED <<q, q_kind>>
        BY <4>4 DEF Tasklet, TaskStart, TaskEnd, TaskStale, TaskCmd, TaskSee, TaskDb, TaskTx, TaskTake,
           TaskCb, TaskRecycle, TaskTxEnd
      <4>5. CASE UNCHANGED vars
        BY <4>5 DEF vars
      <4> QED
        BY <2>4, <4>1, <4>2, <4>3, <4>4, <4>5 DEF Next
    <3> QED
      BY <2>1, <3>1 DEF QueueType
  <2> QED
    BY <2>2, <2>3, <2>4 DEF AnyInv
<1> QED
  BY <1>1, <1>2, PTL DEF Spec

-----------------------------------------------------------------------------
(* What follows                                                            *)

\* Type correctness of a channel for every value of the constants: all ring pointers stay inside
\* their ring, and the command ring holds commands, through late answers, unbinds and rebinds.
THEOREM ChanTypeOK == Spec => []TypeOK
<1>1. AnyInv => TypeOK
  <2> SUFFICES ASSUME AnyInv PROVE TypeOK
    OBVIOUS
  <2>1. ControlInv /\ EventInv /\ RingType /\ PlainType /\ QueueType
    BY DEF AnyInv, ChanInv
  <2>2. cmds \in Seq({"START", "RESET"}) /\ c_db \in Int /\ d_cmd \in Int
    BY DEF AnyInv, OwedInv
  <2> QED
    BY <2>1, <2>2 DEF TypeOK, PlainType, ControlInv, EventInv, QueueType, RingType
<1> QED
  BY <1>1, AnyInvariant, PTL

\* mhi_process_cmd_completion() takes an element off the command ring for every answer, without
\* looking which command it answers: there is always one, and the ring never overflows.
AnswersOwed == Cardinality(Answers) <= Len(cmds) /\ Len(cmds) <= CmdN - 1

\* An answer finds a command in the command ring, whoever has given up waiting for it.
THEOREM ChanAnswersOwed == Spec => []AnswersOwed
<1>1. AnyInv => AnswersOwed
  <2> SUFFICES ASSUME AnyInv PROVE AnswersOwed
    OBVIOUS
  <2>1. OwedInv /\ Len(cmds) \in Nat
    BY DEF AnyInv, OwedInv
  <2> QED
    BY <2>1 DEF OwedInv, AnswersOwed
<1> QED
  BY <1>1, AnyInvariant, PTL

\* parse_xfer_event() completes transfers only by events of the present session: those of an
\* earlier one are stale by the time the channel is enabled again.
THEOREM ChanNoStaleEvent == Prompt /\ Spec => []NoStaleEvent
<1>1. SessionInv => NoStaleEvent
  <2> SUFFICES ASSUME SessionInv, NEW g \in Rings, InLoop(g) PROVE Head(ev[g]).sess = sess
    BY DEF NoStaleEvent
  <2>1. ChanInv /\ EventInv /\ FreshInv
    BY DEF SessionInv, ChanInv
  <2>2. g = DataRing /\ ch_state = "ENABLED" /\ ev[g] # <<>> /\ ev[g][1].type = "TX" /\ ev[g] \in Seq(Event)
    BY <2>1, Enabled DEF EventInv, InLoop
  <2>3. 1 \in DataEvs /\ Head(ev[g]) = ev[g][1]
    BY <2>2 DEF DataEvs
  <2>4. Loud(1)
    BY <2>1, <2>2 DEF FreshInv, HeadFresh, Loud
  <2> QED
    BY <2>1, <2>2, <2>3, <2>4 DEF FreshInv, EvsFresh
<1> QED
  BY <1>1, SessionInvariant, PTL

\* pending_pkts counts what is in the ring: each packet is counted once when it is queued
\* and once when it is completed, by an event or by the reset of the channel.
THEOREM ChanPendingBalance == Safe /\ Spec => []PendingBalance
<1>1. FifoInv => PendingBalance
  <2> SUFFICES ASSUME FifoInv PROVE PendingBalance
    OBVIOUS
  <2>1. Base /\ Counted /\ DataRing \in Rings
    BY RingNames DEF FifoInv
  <2>2. \A g \in Rings : x[g] = "cb" => g = DataRing
    BY <2>1, Enabled DEF InLoop
  <2>3. (\E g \in Rings : x[g] = "cb") <=> x[DataRing] = "cb"
    BY <2>1, <2>2
  <2> QED
    BY <2>1, <2>3 DEF PendingBalance, Counted, Outstanding
<1> QED
  BY <1>1, FifoInvariant, PTL

\* mhi_pm_suspend() tests pending_pkts, so the count must never be too small: a suspend
\* finds no packet in the ring but one that is just being queued.
SuspendsIdle == UL /\ PmSuspend => Used(tre) <= (IF q = "ring" THEN 1 ELSE 0)

\* A controller is never suspended over a packet that was queued and not completed.
THEOREM ChanSuspendsIdle == Safe /\ Spec => [][SuspendsIdle]_vars
<1>1. FifoInv => SuspendsIdle
  <2> SUFFICES ASSUME FifoInv, UL, PmSuspend PROVE Used(tre) <= (IF q = "ring" THEN 1 ELSE 0)
    BY DEF SuspendsIdle
  <2>1. pending_pkts = 0 /\ pending_pkts >= Outstanding
    BY DEF FifoInv, Counted, PmSuspend
  <2>2. Used(tre) \in Nat
    BY RingUsed DEF FifoInv, Base
  <2> QED
    BY <2>1, <2>2 DEF Outstanding
<1> QED
  BY <1>1, FifoInvariant, PTL

\* The buffer ring is allocated wherever a pointer of the rings moves: an element is filled or
\* handed back in memory the channel owns.
MovesAllocated == tre' # tre \/ buf' # buf => base'

\* Neither queueing, completion, drain nor recycling walks a ring that has been freed.
THEOREM ChanMovesAllocated == Safe /\ Spec => [][MovesAllocated]_vars
<1>1. FifoInv /\ [Next]_vars => MovesAllocated
  <2> SUFFICES ASSUME FifoInv, [Next]_vars PROVE MovesAllocated
    OBVIOUS
  <2>1. Fills \/ Takes \/ Resets \/ Frees \/ UNCHANGED rings
    BY RingStep DEF FifoInv
  <2> QED
    BY <2>1 DEF MovesAllocated, Fills, Takes, Resets, Frees, mhi_gen_tre, DelBoth
<1> QED
  BY <1>1, FifoInvariant, PTL DEF Spec

\* WARN_ON(atomic_read(&mhi_cntrl->pending_pkts)): when the removal of the client's device is
\* over, no packet is counted.
THEOREM ChanTeardownPktFree == Safe /\ Spec => []TeardownPktFree
<1>1. FifoInv => TeardownPktFree
  <2> SUFFICES ASSUME FifoInv, r = "gone" PROVE pending_pkts = 0
    BY DEF TeardownPktFree
  <2>1. Base /\ Counted /\ ControlInv /\ PmInv /\ SkbOnly /\ RingInv /\ RingType /\ UL \in BOOLEAN
    BY ChanConstants DEF FifoInv, Base, ChanInv, Safe
  <2>2. o = "closed" /\ ~base
    BY <2>1 DEF ControlInv, OpLocked, Removing
  <2>3. Used(tre) = 0
    BY <2>1, <2>2, RingUsed DEF RingInv
  <2>4. q = "idle" /\ x[DataRing] = "idle"
    BY <2>1, <2>2, RingNames DEF PmInv, Quiet
  <2> QED
    BY <2>1, <2>3, <2>4 DEF Counted, Outstanding
<1> QED
  BY <1>1, FifoInvariant, PTL

-----------------------------------------------------------------------------
(* A channel is a bounded queue                                            *)

\* The elements of a ring, and what adding and deleting one does to them.
LEMMA RingElements ==
  ASSUME NEW ring \in [rp : El, wp : El]
  PROVE  /\ \A k \in 1..Used(ring) : Nth(ring, k) \in El /\ Nth(ring, k) # ring.wp
         /\ Used(ring) > 0 => Nth(ring, 1) = ring.rp
         /\ Used(ring) < N - 1 =>
              /\ \A k \in 1..Used(ring) : Nth(mhi_add_ring_element(ring), k) = Nth(ring, k)
              /\ Nth(mhi_add_ring_element(ring), Used(ring) + 1) = ring.wp
         /\ Used(ring) > 0 =>
              \A k \in 1..(Used(ring) - 1) : Nth(mhi_del_ring_element(ring), k) = Nth(ring, k + 1)
<1>1. N \in Nat /\ N >= 2 /\ ring.rp \in El /\ ring.wp \in El
  BY ChanConstants
<1>2. mhi_add_ring_element(ring).rp = ring.rp
  BY DEF mhi_add_ring_element
<1>3. mhi_del_ring_element(ring).rp = NextEl(ring.rp)
  BY DEF mhi_del_ring_element
<1>4. \A k \in 1..Used(ring) : Nth(ring, k) \in El /\ Nth(ring, k) # ring.wp
  BY <1>1 DEF El, Used, Nth
<1>5. Used(ring) > 0 => Nth(ring, 1) = ring.rp
  BY <1>1 DEF El, Nth
<1>6. \A k : Nth(mhi_add_ring_element(ring), k) = Nth(ring, k)
  BY <1>2 DEF Nth
<1>7. Nth(ring, Used(ring) + 1) = ring.wp
  BY <1>1 DEF El, Used, Nth
<1>8. Used(ring) > 0 =>
        \A k \in 1..(Used(ring) - 1) : Nth(mhi_del_ring_element(ring), k) = Nth(ring, k + 1)
  BY <1>1, <1>3 DEF El, Used, Nth, NextEl
<1> QED
  BY <1>4, <1>5, <1>6, <1>7, <1>8

\* Two sequences with the same elements are one.
LEMMA SameSequence ==
  ASSUME NEW S, NEW s \in Seq(S), NEW t \in Seq(S), Len(s) = Len(t), \A i \in 1..Len(s) : s[i] = t[i]
  PROVE  s = t
OBVIOUS

\* The buffers in an allocated ring.
InRingIs ==
  /\ InRing \in Seq(Nat) /\ Len(InRing) = Used(tre) /\ Used(tre) \in Nat
  /\ \A k \in 1..Used(tre) : InRing[k] = slot[Nth(tre, k)]

\* They are the elements between the two pointers.
LEMMA InRingSeq == RingType /\ base => InRingIs
<1> SUFFICES ASSUME RingType, base PROVE InRingIs
  OBVIOUS
<1>1. tre \in [rp : El, wp : El] /\ slot \in [El -> Nat]
  BY DEF RingType
<1>2. Used(tre) \in Nat /\ \A k \in 1..Used(tre) : slot[Nth(tre, k)] \in Nat
  BY <1>1, RingOps, RingElements
<1> DEFINE n == Used(tre)
           s == [k \in 1..n |-> slot[Nth(tre, k)]]
<1>3. InRing = s
  BY DEF InRing
<1> HIDE DEF n
<1>4. s \in [1..n -> Nat] /\ n \in Nat /\ \A k \in 1..n : s[k] = slot[Nth(tre, k)]
  BY <1>2 DEF n
<1> HIDE DEF s
<1>5. s \in Seq(Nat) /\ Len(s) = n
  BY <1>4
<1> QED
  BY <1>3, <1>4, <1>5 DEF n, InRingIs

\* A buffer that enters the ring is accepted at its end.
LEMMA FillsAccept == RingType /\ RingType' /\ tre = buf /\ Fills => Fifo!Accept
<1> SUFFICES ASSUME RingType, RingType', tre = buf, Fills PROVE Fifo!Accept
  OBVIOUS
<1>1. base /\ base' /\ tre \in [rp : El, wp : El] /\ slot \in [El -> Nat] /\ Used(tre) < N - 1
      /\ slot' = [slot EXCEPT ![tre.wp] = sent + 1] /\ tre' = mhi_add_ring_element(tre)
      /\ sent' = sent + 1 /\ back' = back /\ sent \in Nat /\ N \in Nat /\ sent + 1 \in Nat
  BY ChanConstants DEF Fills, mhi_gen_tre, RingType
<1>2. InRing \in Seq(Nat) /\ Len(InRing) = Used(tre) /\ Used(tre) \in Nat
      /\ \A k \in 1..Used(tre) : InRing[k] = slot[Nth(tre, k)]
  BY <1>1, InRingSeq DEF InRingIs
<1>3. InRing' \in Seq(Nat) /\ Len(InRing') = Used(tre') /\ \A k \in 1..Used(tre') : InRing'[k] = slot'[Nth(tre', k)]
  <2>1. base'
    BY <1>1
  <2>2. InRingIs'
    BY <2>1, InRingSeq, PTL
  <2> QED
    BY <2>2 DEF InRingIs
<1>4. Used(tre') = Used(tre) + 1
  BY <1>1, RingOps
<1>5. /\ \A k \in 1..Used(tre) : Nth(tre, k) \in El /\ Nth(tre, k) # tre.wp /\ Nth(tre', k) = Nth(tre, k)
      /\ Nth(tre', Used(tre) + 1) = tre.wp /\ tre.wp \in El
  BY <1>1, RingElements
<1> DEFINE s == InRing
           t == InRing'
           n == Used(tre)
<1>6. /\ \A k \in 1..n : t[k] = s[k]
      /\ t[n + 1] = sent + 1
  <2>1. ASSUME NEW k \in 1..n PROVE t[k] = s[k]
    <3>1. k \in 1..Used(tre')
      BY <1>2, <1>4
    <3>2. t[k] = slot'[Nth(tre, k)]
      BY <1>3, <1>5, <3>1
    <3>3. s[k] = slot[Nth(tre, k)]
      BY <1>2
    <3> QED
      BY <1>1, <1>5, <3>2, <3>3
  <2>2. n + 1 \in 1..Used(tre')
    BY <1>2, <1>4
  <2>3. t[n + 1] = slot'[tre.wp]
    BY <1>3, <1>5, <2>2
  <2> QED
    BY <1>1, <1>5, <2>1, <2>3
<1>7. s \in Seq(Nat) /\ t \in Seq(Nat) /\ Len(s) = n /\ Len(t) = n + 1 /\ n \in Nat
  BY <1>2, <1>3, <1>4
<1> HIDE DEF s, t, n
<1>8. t = Append(s, sent + 1)
  <2>1. Append(s, sent + 1) \in Seq(Nat) /\ Len(Append(s, sent + 1)) = n + 1
        /\ \A k \in 1..n : Append(s, sent + 1)[k] = s[k]
        /\ Append(s, sent + 1)[n + 1] = sent + 1
    BY <1>1, <1>7
  <2>2. \A k \in 1..(n + 1) : t[k] = Append(s, sent + 1)[k]
    BY <1>6, <1>7, <2>1
  <2> QED
    BY <1>7, <2>1, <2>2, SameSequence
<1> QED
  BY <1>1, <1>2, <1>8 DEF Fifo!Accept, s, t

\* A buffer that leaves the ring is the oldest one.
LEMMA TakesHandBack == RingType /\ RingType' /\ tre = buf /\ base /\ Takes => Fifo!HandBack
<1> SUFFICES ASSUME RingType, RingType', tre = buf, base, Takes PROVE Fifo!HandBack
  OBVIOUS
<1>1. base /\ base' /\ tre \in [rp : El, wp : El] /\ Used(tre) > 0 /\ slot' = slot
      /\ tre' = mhi_del_ring_element(tre) /\ back' = slot[tre.rp] /\ sent' = sent /\ N \in Nat
  BY ChanConstants DEF Takes, DelBoth, RingType
<1>2. InRing \in Seq(Nat) /\ Len(InRing) = Used(tre) /\ Used(tre) \in Nat
      /\ \A k \in 1..Used(tre) : InRing[k] = slot[Nth(tre, k)]
  BY <1>1, InRingSeq DEF InRingIs
<1>3. InRing' \in Seq(Nat) /\ Len(InRing') = Used(tre') /\ \A k \in 1..Used(tre') : InRing'[k] = slot'[Nth(tre', k)]
  <2>1. base'
    BY <1>1
  <2>2. InRingIs'
    BY <2>1, InRingSeq, PTL
  <2> QED
    BY <2>2 DEF InRingIs
<1>4. Used(tre') = Used(tre) - 1
  BY <1>1, RingOps
<1>5. /\ \A k \in 1..(Used(tre) - 1) : Nth(tre', k) = Nth(tre, k + 1)
      /\ Nth(tre, 1) = tre.rp
  BY <1>1, RingElements
<1> DEFINE s == InRing
           t == InRing'
           n == Used(tre)
<1>6. (\A k \in 1..(n - 1) : t[k] = s[k + 1]) /\ s[1] = back'
  <2>1. ASSUME NEW k \in 1..(n - 1) PROVE t[k] = s[k + 1]
    <3>1. k \in 1..Used(tre') /\ k + 1 \in 1..Used(tre)
      BY <1>2, <1>4
    <3> QED
      BY <1>1, <1>2, <1>3, <1>5, <3>1
  <2>2. 1 \in 1..n
    BY <1>1, <1>2
  <2> QED
    BY <1>1, <1>2, <1>5, <2>1, <2>2
<1>7. s \in Seq(Nat) /\ t \in Seq(Nat) /\ Len(s) = n /\ Len(t) = n - 1 /\ n \in Nat /\ n > 0
  BY <1>1, <1>2, <1>3, <1>4
<1> HIDE DEF s, t, n
<1>8. s # <<>> /\ Head(s) = s[1] /\ t = Tail(s)
  <2>1. s # <<>> /\ Head(s) = s[1] /\ Tail(s) \in Seq(Nat) /\ Len(Tail(s)) = n - 1
        /\ \A k \in 1..(n - 1) : Tail(s)[k] = s[k + 1]
    BY <1>7
  <2>2. t = Tail(s)
    BY <1>6, <1>7, <2>1, SameSequence
  <2> QED
    BY <2>1, <2>2
<1> QED
  BY <1>1, <1>6, <1>8 DEF Fifo!HandBack, s, t

\* An empty ring holds no buffer.
LEMMA InRingEmpty == RingType /\ tre.rp = tre.wp => InRing = <<>>
<1> SUFFICES ASSUME RingType, tre.rp = tre.wp PROVE InRing = <<>>
  OBVIOUS
<1>1. CASE base
  <2>1. tre \in [rp : El, wp : El]
    BY DEF RingType
  <2>2. Used(tre) = 0
    BY <2>1, RingOps
  <2>3. InRing \in Seq(Nat) /\ Len(InRing) = 0
    BY <1>1, <2>2, InRingSeq DEF InRingIs
  <2> QED
    BY <2>3
<1>2. CASE ~base
  BY <1>2 DEF InRing
<1> QED
  BY <1>1, <1>2

\* A channel implements the bounded queue: every buffer that entered the ring leaves it exactly
\* once and in the order in which it was queued, by a transfer event or by the reset of the
\* channel, and never are more than N - 1 outstanding.
THEOREM ChanImplementsFifo == Safe /\ Spec => FifoRefined
<1>1. Init => Fifo!FifoInit
  BY DEF Init, Fifo!FifoInit, InRing
<1>2. FifoInv /\ FifoInv' /\ [Next]_vars => [Fifo!Accept \/ Fifo!HandBack]_(Fifo!fvars)
  <2> SUFFICES ASSUME FifoInv, FifoInv', [Next]_vars
               PROVE  Fifo!Accept \/ Fifo!HandBack \/ UNCHANGED Fifo!fvars
    OBVIOUS
  <2>1. Base /\ OrderInv /\ RingType /\ RingInv /\ tre = buf
    BY DEF FifoInv, Base, RingInv
  <2>2. RingType'
    BY DEF FifoInv, Base
  <2>3. Fills \/ Takes \/ Resets \/ Frees \/ UNCHANGED rings
    BY <2>1, RingStep
  <2>4. CASE Resets
    <3>1. InRing = <<>>
      BY <2>4 DEF InRing, Resets
    <3>2. (InRing = <<>>)'
      <4>1. (tre.rp = tre.wp)'
        BY <2>4 DEF Resets
      <4> QED
        BY <2>2, <4>1, InRingEmpty, PTL
    <3> QED
      BY <2>4, <3>1, <3>2 DEF Resets, Fifo!fvars
  <2>5. CASE Frees
    <3>1. InRing = <<>>
      BY <2>1, <2>5, InRingEmpty DEF Frees
    <3>2. InRing' = <<>>
      BY <2>5 DEF Frees, InRing
    <3> QED
      BY <2>5, <3>1, <3>2 DEF Frees, Fifo!fvars
  <2>6. CASE UNCHANGED rings
    BY <2>6 DEF InRing, Fifo!fvars
  <2> QED
    BY <2>1, <2>2, <2>3, <2>4, <2>5, <2>6, FillsAccept, TakesHandBack DEF Takes
<1> QED
  BY <1>1, <1>2, FifoInvariant, PTL DEF Spec, FifoRefined, Fifo!FifoSpec
=============================================================================
