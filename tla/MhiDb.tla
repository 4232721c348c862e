------------------------------- MODULE MhiDb -------------------------------
(***************************************************************************)
(* The doorbell of one started channel (mhi_ring_chan_db() and its callers  *)
(* in core/main.c, the M0 handler of core/pm.c).                            *)
(*                                                                         *)
(* Three threads ring it:                                                  *)
(*   queue  the client that has filled an element, or the host where it     *)
(*          fills or recycles one: pm_lock and chan->lock for reading       *)
(*   m0     mhi_pm_m0_transition(): both for reading, but chan->lock for     *)
(*          writing where it resets db_mode                                 *)
(*   event  the tasklet with an OOB or a DB_MODE event: chan->lock for       *)
(*          writing, then pm_lock for reading                               *)
(* Locks held for reading let two of them ring at once: each access to the   *)
(* ring, the context, db_mode and the register is a step.                   *)
(*                                                                         *)
(* Pointers are counted, without the wrap that MhiChan has.  An element      *)
(* enters the ring without pm_lock, as in mhi_queue_buf(): what a thread     *)
(* that holds it can do is part of that.                                    *)
(***************************************************************************)
EXTENDS Integers

CONSTANT MaxBufs   \* bound: elements queued in one behaviour

ASSUME DbConstants == MaxBufs \in Nat

VARIABLES
  cfg,             \* the channel's doorbell mode: never changes
  pm,              \* PM state
  at, val,         \* per thread: pc; the write pointer it has read
  wp, rp,          \* transfer ring: write pointer, read pointer
  ctxt_wp,         \* the write pointer in the channel's context
  db_mode,         \* burst mode: the next doorbell is written
  d_rp, d_db,      \* device: next element, last doorbell
  d_poll, d_asked, \* device: reads the context by itself; an event asks for a doorbell
  raced            \* history: the last thread to read wp was not alone

ring  == <<wp, rp>>
host  == <<ctxt_wp, db_mode>>
dev   == <<d_rp, d_db, d_poll, d_asked>>
vars  == <<cfg, pm, at, val, ring, host, dev, raced>>

-----------------------------------------------------------------------------
Ringers == {"queue", "m0", "event"}
Inside  == {"read", "ctxt", "mode", "db", "clear"}
HasRead == {"ctxt", "mode", "db", "clear"}
Pc      == {"idle", "test", "set"} \cup Inside
Config  == [burst : BOOLEAN, reset_req : BOOLEAN, m2_no_db : BOOLEAN]

\* mhi_init_chan_ctxt() and the start of the channel
Init ==
  /\ cfg \in Config
  /\ pm = "M0"
  /\ at = [n \in Ringers |-> "idle"] /\ val = [n \in Ringers |-> 0]
  /\ wp = 0 /\ rp = 0 /\ ctxt_wp = 0 /\ db_mode = TRUE
  /\ d_rp = 0 /\ d_db = 0 /\ d_poll = FALSE /\ d_asked = FALSE
  /\ raced = FALSE

\* MHI_DB_ACCESS_VALID
DbValid == pm = "M0" \/ (pm = "M2" /\ ~cfg.m2_no_db)

\* pm_lock may be taken for writing
PmLock == at["m0"] # "set" /\ \A n \in Ringers : at[n] \notin Inside

\* chan->lock may be taken, for writing, for reading
ChanWrite == \A n \in Ringers : at[n] \notin Inside
ChanRead  == at["event"] \notin Inside

Goto(n, pc) == at' = [at EXCEPT ![n] = pc]

\* what the device takes for the write pointer
Known == IF d_poll THEN ctxt_wp ELSE d_db

-----------------------------------------------------------------------------
(* mhi_ring_chan_db(), mhi_db_brstmode() and mhi_db_brstmode_disable()      *)

RingRead(n) ==
  /\ at[n] = "read"
  /\ val' = [val EXCEPT ![n] = wp]
  /\ raced' = (\E m \in Ringers \ {n} : at[m] \in HasRead)
  /\ Goto(n, "ctxt")
  /\ UNCHANGED <<cfg, pm, ring, host, dev>>

RingCtxt(n) ==
  /\ at[n] = "ctxt"
  /\ ctxt_wp' = val[n]
  /\ Goto(n, "mode")
  /\ UNCHANGED <<cfg, pm, val, ring, db_mode, dev, raced>>

RingMode(n) ==
  /\ at[n] = "mode"
  /\ Goto(n, IF cfg.burst /\ ~db_mode THEN "idle" ELSE "db")
  /\ UNCHANGED <<cfg, pm, val, ring, host, dev, raced>>

\* mhi_write_db(); the device goes on by reading the context
RingDb(n) ==
  /\ at[n] = "db"
  /\ d_db' = val[n] /\ d_poll' = cfg.burst
  /\ Goto(n, IF cfg.burst THEN "clear" ELSE "idle")
  /\ UNCHANGED <<cfg, pm, val, ring, host, d_rp, d_asked, raced>>

RingClear(n) ==
  /\ at[n] = "clear"
  /\ db_mode' = FALSE
  /\ Goto(n, "idle")
  /\ UNCHANGED <<cfg, pm, val, ring, ctxt_wp, dev, raced>>

mhi_ring_chan_db(n) == RingRead(n) \/ RingCtxt(n) \/ RingMode(n) \/ RingDb(n) \/ RingClear(n)

-----------------------------------------------------------------------------
(* The threads that ring.                                                  *)

\* mhi_gen_tre()
QueueGen ==
  /\ at["queue"] = "idle" /\ wp < MaxBufs
  /\ wp' = wp + 1
  /\ Goto("queue", "test")
  /\ UNCHANGED <<cfg, pm, val, rp, host, dev, raced>>

\* under pm_lock: "likely(MHI_DB_ACCESS_VALID(mhi_cntrl))"
QueueTest ==
  /\ at["queue"] = "test" /\ (DbValid => ChanRead)
  /\ Goto("queue", IF DbValid THEN "read" ELSE "idle")
  /\ UNCHANGED <<cfg, pm, val, ring, host, dev, raced>>

\* the device is in M0: the first section of mhi_pm_m0_transition()
M0Start ==
  /\ at["m0"] = "idle" /\ pm \in {"M0", "M2", "M3"} /\ PmLock
  /\ pm' = "M0"
  /\ Goto("m0", "test")
  /\ UNCHANGED <<cfg, val, ring, host, dev, raced>>

\* mutant: the channel's db_mode is left as it is
M0SetNothing ==
  /\ at["m0"] = "test" /\ ChanWrite
  /\ Goto("m0", "set")
  /\ UNCHANGED <<cfg, pm, val, ring, host, dev, raced>>

\* under pm_lock from here on
M0Set ==
  /\ at["m0"] = "test"
  /\ \/ cfg.reset_req /\ ChanWrite /\ db_mode' = TRUE
     \/ ~cfg.reset_req /\ UNCHANGED db_mode
  /\ Goto("m0", "set")
  /\ UNCHANGED <<cfg, pm, val, ring, ctxt_wp, dev, raced>>

\* "Only ring DB if ring is not empty"
M0Test ==
  /\ at["m0"] = "set" /\ ChanRead
  /\ Goto("m0", IF wp # rp THEN "read" ELSE "idle")
  /\ UNCHANGED <<cfg, pm, val, ring, host, dev, raced>>

\* parse_xfer_event(), OOB and DB_MODE
EventTest ==
  /\ d_asked /\ at["event"] = "idle" /\ ChanWrite
  /\ d_asked' = FALSE /\ db_mode' = TRUE
  /\ Goto("event", IF wp # rp /\ DbValid THEN "read" ELSE "idle")
  /\ UNCHANGED <<cfg, pm, val, ring, ctxt_wp, d_rp, d_db, d_poll, raced>>

\* parse_xfer_event(): a transfer is completed
EventTx ==
  /\ rp < d_rp /\ ChanRead
  /\ rp' = rp + 1
  /\ UNCHANGED <<cfg, pm, at, val, wp, host, dev, raced>>

-----------------------------------------------------------------------------
(* The other PM transitions; the state events are handled by the tasklet    *)
(* that runs mhi_pm_m0_transition().                                        *)

PmM2 ==
  /\ pm = "M0" /\ at["m0"] = "idle" /\ PmLock
  /\ pm' = "M2"
  /\ UNCHANGED <<cfg, at, val, ring, host, dev, raced>>

\* mhi_pm_suspend()
PmSuspend ==
  /\ pm = "M0" /\ PmLock
  /\ pm' = "M3_ENTER"
  /\ UNCHANGED <<cfg, at, val, ring, host, dev, raced>>

\* mhi_pm_m3_transition(); a device that wants its mode reset forgets that it is polling
PmM3 ==
  /\ pm = "M3_ENTER" /\ at["m0"] = "idle" /\ PmLock
  /\ pm' = "M3"
  /\ \/ cfg.reset_req /\ d_poll /\ d_poll' = FALSE /\ d_db' = d_rp
     \/ ~(cfg.reset_req /\ d_poll) /\ UNCHANGED <<d_poll, d_db>>
  /\ UNCHANGED <<cfg, at, val, ring, host, d_rp, d_asked, raced>>

Pm == PmM2 \/ PmSuspend \/ PmM3

-----------------------------------------------------------------------------
(* The device (external).                                                  *)

DevXfer ==
  /\ pm # "M3" /\ d_rp < Known
  /\ d_rp' = d_rp + 1
  /\ UNCHANGED <<cfg, pm, at, val, ring, host, d_db, d_poll, d_asked, raced>>

\* out of elements: it stops polling and asks for a doorbell
DevAsk ==
  /\ pm # "M3" /\ d_rp = Known /\ ~d_asked
  /\ d_asked' = TRUE /\ d_poll' = FALSE /\ d_db' = Known
  /\ UNCHANGED <<cfg, pm, at, val, ring, host, d_rp, raced>>

-----------------------------------------------------------------------------
Next ==
  \/ \E n \in Ringers : mhi_ring_chan_db(n)
  \/ QueueGen \/ QueueTest \/ M0Start \/ M0Set \/ M0Test \/ EventTest \/ EventTx
  \/ Pm \/ DevXfer \/ DevAsk

Spec == Init /\ [][Next]_vars

-----------------------------------------------------------------------------
(* What is checked.                                                        *)

\* Type correctness.
TypeOK ==
  /\ cfg \in Config
  /\ pm \in {"M0", "M2", "M3_ENTER", "M3"}
  /\ at \in [Ringers -> Pc] /\ val \in [Ringers -> Nat]
  /\ wp \in Nat /\ rp \in Nat /\ ctxt_wp \in Nat /\ d_rp \in Nat /\ d_db \in Nat
  /\ {db_mode, d_poll, d_asked, raced} \subseteq BOOLEAN

\* nobody rings, has yet to ring or was asked to
Settled == pm = "M0" /\ (\A n \in Ringers : at[n] = "idle") /\ ~d_asked

\* When nobody has a doorbell left to ring the device knows of every element in the ring,
\* through bursts, M2 and suspends, unless the last doorbell was rung by two threads at once:
\* mhi_queue_*() and the M0 handler hold pm_lock and chan->lock for reading only.
LostOnlyByRace == Settled /\ ~raced => Known = wp
=============================================================================
