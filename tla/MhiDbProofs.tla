----------------------------- MODULE MhiDbProofs -----------------------------
(***************************************************************************)
(* A doorbell is lost only when two threads ring at once: MhiDb for every     *)
(* number of elements and every doorbell mode.                              *)
(***************************************************************************)
EXTENDS MhiDb, TLAPS

\* nobody is told of an element that is not in the ring
Bounds ==
  /\ rp <= d_rp /\ d_rp <= wp /\ ctxt_wp <= wp /\ d_db <= wp
  /\ \A n \in Ringers : val[n] <= wp

\* a thread that rings keeps the device out of M3
AwakeInv == pm = "M3" => at["m0"] = "idle" /\ \A n \in Ringers : at[n] \notin Inside

\* a device in burst mode that is not rung polls, has asked, or is about to be reset
ModeInv ==
  /\ cfg.burst /\ ~db_mode =>
       d_poll \/ d_asked \/ (cfg.reset_req /\ (pm = "M3" \/ at["m0"] = "test"))
  /\ \A n \in Ringers : at[n] = "clear" => cfg.burst /\ (d_poll \/ d_asked)
  /\ cfg.burst /\ ~d_poll => d_db = d_rp

\* somebody has yet to read the write pointer
Due == pm # "M0" \/ d_asked \/ \E n \in Ringers : at[n] \in {"test", "set", "read"}

\* a thread that rings alone: it is the only one, and what it has read is what the device will
\* know of
Alone(n) ==
  /\ \A m \in Ringers : at[m] \in HasRead => m = n
  /\ d_rp <= val[n] /\ d_db <= val[n] /\ ctxt_wp <= val[n]
  /\ val[n] = wp \/ Due
  /\ at[n] # "ctxt" => ctxt_wp = val[n]
  /\ at[n] = "clear" => Known = val[n]

\* the device knows of every element, or will be told
Told == d_rp <= Known /\ (Known = wp \/ Due)

AloneInv ==
  ~raced =>
    /\ \A n \in Ringers : at[n] \in HasRead => Alone(n)
    /\ (\A n \in Ringers : at[n] \notin HasRead) => Told

DbInv == TypeOK /\ Bounds /\ AwakeInv /\ ModeInv /\ AloneInv

USE DEF ring, host, dev, Ringers, Inside, HasRead, Pc

-----------------------------------------------------------------------------
\* Initially nothing is in the ring.
LEMMA InitDb == Init => DbInv
<1> SUFFICES ASSUME Init PROVE DbInv
  OBVIOUS
<1>1. TypeOK
  BY DEF Init, TypeOK
<1>2. Bounds /\ AwakeInv /\ ModeInv
  BY DEF Init, Bounds, AwakeInv, ModeInv
<1>3. AloneInv
  BY DEF Init, AloneInv, Told, Known
<1> QED
  BY <1>1, <1>2, <1>3 DEF DbInv

\* What a thread's step does to the program counters.
LEMMA Moves ==
  ASSUME TypeOK, NEW n \in Ringers, NEW pc \in Pc, Goto(n, pc)
  PROVE  /\ at' \in [Ringers -> Pc] /\ at'[n] = pc
         /\ \A m \in Ringers \ {n} : at'[m] = at[m]
BY DEF TypeOK, Goto

\* Every step keeps the types.
LEMMA TypeStep == TypeOK /\ [Next]_vars => TypeOK'
<1> SUFFICES ASSUME TypeOK, [Next]_vars PROVE TypeOK'
  OBVIOUS
<1> USE DEF TypeOK
<1>c. cfg.burst \in BOOLEAN /\ Known \in Nat
  BY DEF Config, Known
<1>1. ASSUME NEW n \in Ringers, RingRead(n) PROVE TypeOK'
  <2>1. at' \in [Ringers -> Pc] /\ val' \in [Ringers -> Nat]
    BY <1>1, Moves DEF RingRead
  <2>2. raced' \in BOOLEAN
    BY <1>1, Zenon DEF RingRead
  <2> QED
    BY <1>1, <2>1, <2>2 DEF RingRead
<1>2. ASSUME NEW n \in Ringers, RingCtxt(n) \/ RingMode(n) \/ RingClear(n) PROVE TypeOK'
  <2>1. at' \in [Ringers -> Pc]
    BY <1>2, Moves DEF RingCtxt, RingMode, RingClear
  <2> QED
    BY <1>2, <2>1 DEF RingCtxt, RingMode, RingClear
<1>3. ASSUME NEW n \in Ringers, RingDb(n) PROVE TypeOK'
  <2>1. at' \in [Ringers -> Pc]
    BY <1>3, Moves DEF RingDb
  <2> QED
    BY <1>3, <1>c, <2>1 DEF RingDb
<1>4. CASE QueueGen \/ QueueTest \/ M0Start \/ M0Test
  <2>1. at' \in [Ringers -> Pc]
    BY <1>4, Moves DEF QueueGen, QueueTest, M0Start, M0Test
  <2> QED
    BY <1>4, <2>1 DEF QueueGen, QueueTest, M0Start, M0Test
<1>5. CASE M0Set \/ EventTest
  <2>1. at' \in [Ringers -> Pc]
    BY <1>5, Moves DEF M0Set, EventTest
  <2> QED
    BY <1>5, <2>1 DEF M0Set, EventTest
<1>6. CASE EventTx \/ PmM2 \/ PmSuspend
  BY <1>6 DEF EventTx, PmM2, PmSuspend
<1>7. CASE PmM3
  <2>1. pm' = "M3" /\ UNCHANGED <<cfg, at, val, ring, host, d_rp, d_asked, raced>>
    BY <1>7 DEF PmM3
  <2>2. d_db' \in Nat /\ d_poll' \in BOOLEAN
    BY <1>7 DEF PmM3
  <2> QED
    BY <2>1, <2>2
<1>8. CASE DevXfer
  BY <1>8 DEF DevXfer
<1>9. CASE DevAsk
  <2>1. UNCHANGED <<cfg, pm, at, val, ring, host, d_rp, raced>> /\ d_asked' = TRUE /\ d_poll' = FALSE
    BY <1>9 DEF DevAsk
  <2>2. d_db' \in Nat
    BY <1>9, <1>c DEF DevAsk
  <2> QED
    BY <2>1, <2>2
<1>10. CASE UNCHANGED vars
  BY <1>10 DEF vars
<1> QED
  BY <1>1, <1>2, <1>3, <1>4, <1>5, <1>6, <1>7, <1>8, <1>9, <1>10 DEF Next, mhi_ring_chan_db, Pm

\* Every step keeps the pointers in order.
LEMMA BoundsStep == TypeOK /\ Bounds /\ [Next]_vars => Bounds'
<1> SUFFICES ASSUME TypeOK, Bounds, [Next]_vars PROVE Bounds'
  OBVIOUS
<1> USE DEF TypeOK, Bounds
<1>1. ASSUME NEW n \in Ringers, mhi_ring_chan_db(n) PROVE Bounds'
  <2>1. CASE RingRead(n)
    <3>1. val' = [val EXCEPT ![n] = wp] /\ UNCHANGED <<ring, host, dev>>
      BY <2>1 DEF RingRead
    <3>2. \A m \in Ringers : val'[m] <= wp
      BY <3>1
    <3> QED
      BY <3>1, <3>2
  <2>2. CASE RingCtxt(n)
    BY <2>2 DEF RingCtxt
  <2>3. CASE RingDb(n)
    BY <2>3 DEF RingDb
  <2>4. CASE RingMode(n) \/ RingClear(n)
    BY <2>4 DEF RingMode, RingClear
  <2> QED
    BY <1>1, <2>1, <2>2, <2>3, <2>4 DEF mhi_ring_chan_db
<1>2. CASE QueueGen \/ QueueTest \/ M0Start \/ M0Set \/ M0Test \/ EventTest \/ EventTx
  BY <1>2 DEF QueueGen, QueueTest, M0Start, M0Set, M0Test, EventTest, EventTx
<1>3. CASE Pm \/ DevXfer \/ DevAsk
  BY <1>3 DEF Pm, PmM2, PmSuspend, PmM3, DevXfer, DevAsk, Known
<1>4. CASE UNCHANGED vars
  BY <1>4 DEF vars
<1> QED
  BY <1>1, <1>2, <1>3, <1>4 DEF Next

\* Every step keeps the device out of M3 while a doorbell is rung.
LEMMA AwakeStep == TypeOK /\ AwakeInv /\ [Next]_vars => AwakeInv'
<1> SUFFICES ASSUME TypeOK, AwakeInv, [Next]_vars PROVE AwakeInv'
  OBVIOUS
<1> USE DEF TypeOK, AwakeInv
<1>1. ASSUME NEW n \in Ringers, mhi_ring_chan_db(n) PROVE AwakeInv'
  BY <1>1 DEF mhi_ring_chan_db, RingRead, RingCtxt, RingMode, RingDb, RingClear
<1>2. CASE QueueGen \/ QueueTest \/ M0Start \/ M0Set \/ M0Test \/ EventTest \/ EventTx
  BY <1>2 DEF QueueGen, QueueTest, M0Start, M0Set, M0Test, EventTest, EventTx, Goto, DbValid
<1>3. CASE Pm \/ DevXfer \/ DevAsk
  BY <1>3 DEF Pm, PmM2, PmSuspend, PmM3, PmLock, DevXfer, DevAsk
<1>4. CASE UNCHANGED vars
  BY <1>4 DEF vars
<1> QED
  BY <1>1, <1>2, <1>3, <1>4 DEF Next

\* Every step keeps a device that is not rung polling, or asking, or about to be reset.
LEMMA ModeStep == TypeOK /\ Bounds /\ AwakeInv /\ ModeInv /\ [Next]_vars => ModeInv'
<1> SUFFICES ASSUME TypeOK, Bounds, AwakeInv, ModeInv, [Next]_vars PROVE ModeInv'
  OBVIOUS
<1> USE DEF TypeOK, ModeInv, Config
<1>1. ASSUME NEW n \in Ringers, mhi_ring_chan_db(n) PROVE ModeInv'
  <2>1. CASE RingRead(n)
    <3>1. UNCHANGED <<cfg, pm, host, dev>> /\ at[n] = "read" /\ Goto(n, "ctxt")
      BY <2>1 DEF RingRead
    <3> QED
      BY <3>1, Moves
  <2>2. CASE RingCtxt(n)
    <3>1. UNCHANGED <<cfg, pm, db_mode, dev>> /\ at[n] = "ctxt" /\ Goto(n, "mode")
      BY <2>2 DEF RingCtxt
    <3> QED
      BY <3>1, Moves
  <2>3. CASE RingMode(n)
    <3>1. /\ UNCHANGED <<cfg, pm, host, dev>> /\ at[n] = "mode"
          /\ Goto(n, "idle") \/ Goto(n, "db")
      BY <2>3 DEF RingMode
    <3> QED
      BY <3>1, Moves
  <2>4. CASE RingDb(n)
    <3>1. UNCHANGED <<cfg, pm, host, d_rp, d_asked>> /\ at[n] = "db" /\ d_poll' = cfg.burst
      BY <2>4 DEF RingDb
    <3>2. CASE cfg.burst
      <4>1. Goto(n, "clear")
        BY <2>4, <3>2 DEF RingDb
      <4> QED
        BY <3>1, <3>2, <4>1, Moves
    <3>3. CASE ~cfg.burst
      <4>1. Goto(n, "idle")
        BY <2>4, <3>3 DEF RingDb
      <4> QED
        BY <3>1, <3>3, <4>1, Moves
    <3> QED
      BY <3>2, <3>3
  <2>5. CASE RingClear(n)
    <3>1. UNCHANGED <<cfg, pm, dev>> /\ at[n] = "clear" /\ Goto(n, "idle")
      BY <2>5 DEF RingClear
    <3> QED
      BY <3>1, Moves
  <2> QED
    BY <1>1, <2>1, <2>2, <2>3, <2>4, <2>5 DEF mhi_ring_chan_db
<1>2. CASE QueueGen \/ QueueTest
  <2>1. /\ UNCHANGED <<cfg, pm, host, dev>>
        /\ Goto("queue", "test") \/ Goto("queue", "idle") \/ Goto("queue", "read")
    BY <1>2 DEF QueueGen, QueueTest
  <2> QED
    BY <2>1, Moves
<1>3. CASE M0Start
  <2>1. UNCHANGED <<cfg, host, dev>> /\ at["m0"] = "idle" /\ pm' = "M0" /\ Goto("m0", "test")
    BY <1>3 DEF M0Start
  <2> QED
    BY <2>1, Moves
<1>4. CASE M0Set
  <2>1. /\ UNCHANGED <<cfg, pm, dev>> /\ at["m0"] = "test" /\ Goto("m0", "set")
        /\ (cfg.reset_req /\ db_mode') \/ (~cfg.reset_req /\ UNCHANGED db_mode)
    BY <1>4 DEF M0Set
  <2> QED
    BY <2>1, Moves
<1>5. CASE M0Test
  <2>1. /\ UNCHANGED <<cfg, pm, host, dev>> /\ at["m0"] = "set"
        /\ Goto("m0", "idle") \/ Goto("m0", "read")
    BY <1>5 DEF M0Test
  <2> QED
    BY <2>1, Moves
<1>6. CASE EventTest
  <2>1. /\ UNCHANGED <<cfg, pm, d_rp, d_db, d_poll>> /\ db_mode' = TRUE
        /\ ChanWrite /\ (Goto("event", "idle") \/ Goto("event", "read"))
    BY <1>6 DEF EventTest
  <2> QED
    BY <2>1, Moves DEF ChanWrite
<1>7. CASE EventTx \/ PmM2 \/ PmSuspend
  BY <1>7 DEF EventTx, PmM2, PmSuspend
<1>8. CASE PmM3
  BY <1>8 DEF PmM3, PmLock
<1>9. CASE DevXfer
  BY <1>9 DEF DevXfer, Known
<1>10. CASE DevAsk
  BY <1>10 DEF DevAsk, Known
<1>11. CASE UNCHANGED vars
  BY <1>11 DEF vars
<1> QED
  BY <1>1, <1>2, <1>3, <1>4, <1>5, <1>6, <1>7, <1>8, <1>9, <1>10, <1>11 DEF Next, Pm

\* Every step of mhi_ring_chan_db() keeps what a thread that rings alone relies on.
LEMMA RingStep ==
  ASSUME DbInv, NEW n \in Ringers, mhi_ring_chan_db(n)
  PROVE  AloneInv'
<1> USE DEF DbInv, TypeOK, Bounds
<1>1. CASE RingRead(n)
  <2>1. /\ UNCHANGED <<cfg, pm, ring, host, dev>> /\ at[n] = "read" /\ Goto(n, "ctxt")
        /\ val' = [val EXCEPT ![n] = wp]
        /\ raced' = (\E m \in Ringers \ {n} : at[m] \in HasRead)
    BY <1>1 DEF RingRead
  <2>2. at'[n] = "ctxt" /\ (\A m \in Ringers \ {n} : at'[m] = at[m]) /\ val'[n] = wp
    BY <2>1, Moves
  <2> SUFFICES ASSUME ~raced' PROVE Alone(n)' /\ \A m \in Ringers : at'[m] \in HasRead => m = n
    BY <2>2 DEF AloneInv
  <2>3. \A m \in Ringers : at'[m] \in HasRead => m = n
    BY <2>1, <2>2
  <2> QED
    BY <2>1, <2>2, <2>3 DEF Alone
<1>2. CASE RingCtxt(n)
  <2>1. /\ UNCHANGED <<cfg, pm, val, ring, db_mode, dev, raced>> /\ at[n] = "ctxt" /\ Goto(n, "mode")
        /\ ctxt_wp' = val[n]
    BY <1>2 DEF RingCtxt
  <2>2. at'[n] = "mode" /\ (\A m \in Ringers \ {n} : at'[m] = at[m])
    BY <2>1, Moves
  <2>3. Due' <=> Due
    BY <2>1, <2>2 DEF Due
  <2> QED
    BY <2>1, <2>2, <2>3 DEF AloneInv, Alone
<1>3. CASE RingMode(n)
  <2>1. UNCHANGED <<cfg, pm, val, ring, host, dev, raced>> /\ at[n] = "mode"
    BY <1>3 DEF RingMode
  <2>2. CASE cfg.burst /\ ~db_mode
    <3>1. at'[n] = "idle" /\ (\A m \in Ringers \ {n} : at'[m] = at[m])
      BY <1>3, <2>2, Moves DEF RingMode
    <3>2. Due' <=> Due
      BY <2>1, <3>1 DEF Due
    <3>3. d_poll \/ Due
      BY <2>1, <2>2 DEF ModeInv, AwakeInv, Due
    <3>4. ~d_poll => d_db = d_rp
      BY <2>2 DEF ModeInv
    <3> QED
      BY <2>1, <3>1, <3>2, <3>3, <3>4 DEF AloneInv, Alone, Told, Known
  <2>3. CASE ~(cfg.burst /\ ~db_mode)
    <3>1. at'[n] = "db" /\ (\A m \in Ringers \ {n} : at'[m] = at[m])
      BY <1>3, <2>3, Moves DEF RingMode
    <3>2. Due' <=> Due
      BY <2>1, <3>1 DEF Due
    <3> QED
      BY <2>1, <3>1, <3>2 DEF AloneInv, Alone, Known
  <2> QED
    BY <2>2, <2>3
<1>4. CASE RingDb(n)
  <2>1. /\ UNCHANGED <<cfg, pm, val, ring, host, d_rp, d_asked, raced>> /\ at[n] = "db"
        /\ d_db' = val[n] /\ d_poll' = cfg.burst
    BY <1>4 DEF RingDb
  <2>2. CASE cfg.burst
    <3>1. at'[n] = "clear" /\ (\A m \in Ringers \ {n} : at'[m] = at[m])
      BY <1>4, <2>2, Moves DEF RingDb
    <3>2. Due' <=> Due
      BY <2>1, <3>1 DEF Due
    <3> QED
      BY <2>1, <2>2, <3>1, <3>2 DEF AloneInv, Alone, Known
  <2>3. CASE ~cfg.burst
    <3>1. at'[n] = "idle" /\ (\A m \in Ringers \ {n} : at'[m] = at[m])
      BY <1>4, <2>3, Moves DEF RingDb
    <3>2. Due' <=> Due
      BY <2>1, <3>1 DEF Due
    <3> QED
      BY <2>1, <2>3, <3>1, <3>2 DEF AloneInv, Alone, Told, Known
  <2> QED
    BY <2>2, <2>3
<1>5. CASE RingClear(n)
  <2>1. UNCHANGED <<cfg, pm, val, ring, ctxt_wp, dev, raced>> /\ at[n] = "clear" /\ Goto(n, "idle")
    BY <1>5 DEF RingClear
  <2>2. at'[n] = "idle" /\ (\A m \in Ringers \ {n} : at'[m] = at[m])
    BY <2>1, Moves
  <2>3. Due' <=> Due
    BY <2>1, <2>2 DEF Due
  <2> QED
    BY <2>1, <2>2, <2>3 DEF AloneInv, Alone, Told, Known
<1> QED
  BY <1>1, <1>2, <1>3, <1>4, <1>5 DEF mhi_ring_chan_db

\* So does every other step.
LEMMA AloneStep == DbInv /\ [Next]_vars => AloneInv'
<1> SUFFICES ASSUME DbInv, [Next]_vars PROVE AloneInv'
  OBVIOUS
<1> USE DEF DbInv, TypeOK, Bounds
<1>1. ASSUME NEW n \in Ringers, mhi_ring_chan_db(n) PROVE AloneInv'
  BY <1>1, RingStep
<1>2. CASE QueueGen
  <2>1. UNCHANGED <<cfg, pm, val, host, dev, raced>> /\ at["queue"] = "idle" /\ Goto("queue", "test")
    BY <1>2 DEF QueueGen
  <2>2. at'["queue"] = "test" /\ (\A m \in Ringers \ {"queue"} : at'[m] = at[m])
    BY <2>1, Moves
  <2>3. Due'
    BY <2>2 DEF Due
  <2> QED
    BY <2>1, <2>2, <2>3 DEF AloneInv, Alone, Told, Known
<1>3. CASE QueueTest
  <2>1. UNCHANGED <<cfg, pm, val, ring, host, dev, raced>> /\ at["queue"] = "test"
    BY <1>3 DEF QueueTest
  <2>2. /\ at'["queue"] = IF DbValid THEN "read" ELSE "idle"
        /\ \A m \in Ringers \ {"queue"} : at'[m] = at[m]
    BY <1>3, Moves DEF QueueTest
  <2>3. Due'
    BY <2>1, <2>2 DEF Due, DbValid
  <2> QED
    BY <2>1, <2>2, <2>3 DEF AloneInv, Alone, Told, Known
<1>4. CASE M0Start
  <2>1. UNCHANGED <<cfg, val, ring, host, dev, raced>> /\ at["m0"] = "idle" /\ Goto("m0", "test")
    BY <1>4 DEF M0Start
  <2>2. at'["m0"] = "test" /\ (\A m \in Ringers \ {"m0"} : at'[m] = at[m])
    BY <2>1, Moves
  <2>3. Due'
    BY <2>2 DEF Due
  <2> QED
    BY <2>1, <2>2, <2>3 DEF AloneInv, Alone, Told, Known
<1>5. CASE M0Set
  <2>1. UNCHANGED <<cfg, pm, val, ring, ctxt_wp, dev, raced>> /\ at["m0"] = "test" /\ Goto("m0", "set")
    BY <1>5 DEF M0Set
  <2>2. at'["m0"] = "set" /\ (\A m \in Ringers \ {"m0"} : at'[m] = at[m])
    BY <2>1, Moves
  <2>3. Due'
    BY <2>2 DEF Due
  <2> QED
    BY <2>1, <2>2, <2>3 DEF AloneInv, Alone, Told, Known
<1>6. CASE M0Test
  <2>1. UNCHANGED <<cfg, pm, val, ring, host, dev, raced>> /\ at["m0"] = "set"
    BY <1>6 DEF M0Test
  <2>2. /\ at'["m0"] = IF wp # rp THEN "read" ELSE "idle"
        /\ \A m \in Ringers \ {"m0"} : at'[m] = at[m]
    BY <1>6, Moves DEF M0Test
  <2>3. Due' \/ d_rp = wp
    BY <2>1, <2>2 DEF Due
  <2> QED
    BY <2>1, <2>2, <2>3 DEF AloneInv, Alone, Told, Known
<1>7. CASE EventTest
  <2>1. UNCHANGED <<cfg, pm, val, ring, ctxt_wp, d_rp, d_db, d_poll, raced>> /\ ChanWrite
    BY <1>7 DEF EventTest
  <2>2. /\ at'["event"] = IF wp # rp /\ DbValid THEN "read" ELSE "idle"
        /\ \A m \in Ringers \ {"event"} : at'[m] = at[m]
    BY <1>7, Moves DEF EventTest
  <2>3. Due' \/ d_rp = wp
    BY <2>1, <2>2 DEF Due, DbValid
  <2> QED
    BY <2>1, <2>2, <2>3 DEF AloneInv, Alone, Told, Known, ChanWrite
<1>8. CASE EventTx
  <2>1. UNCHANGED <<cfg, pm, at, val, wp, host, dev, raced>>
    BY <1>8 DEF EventTx
  <2> QED
    BY <2>1 DEF AloneInv, Alone, Told, Known, Due
<1>9. CASE PmM2 \/ PmSuspend
  <2>1. UNCHANGED <<cfg, at, val, ring, host, dev, raced>> /\ Due'
    BY <1>9 DEF PmM2, PmSuspend, Due
  <2> QED
    BY <2>1 DEF AloneInv, Alone, Told, Known
<1>10. CASE PmM3
  <2>1. UNCHANGED <<cfg, at, val, ring, host, d_rp, d_asked, raced>> /\ PmLock /\ Due'
    BY <1>10 DEF PmM3, Due
  <2>2. \A n \in Ringers : at'[n] \notin HasRead
    BY <2>1 DEF PmLock
  <2>3. ~raced => d_rp <= Known'
    BY <1>10, <2>1, <2>2 DEF PmM3, AloneInv, Told, Known
  <2> QED
    BY <2>1, <2>2, <2>3 DEF AloneInv, Told
<1>11. CASE DevXfer
  <2>1. /\ UNCHANGED <<cfg, pm, at, val, ring, host, d_db, d_poll, d_asked, raced>>
        /\ d_rp' = d_rp + 1 /\ d_rp < Known
    BY <1>11 DEF DevXfer
  <2>2. Due' <=> Due
    BY <2>1 DEF Due
  <2> QED
    BY <2>1, <2>2 DEF AloneInv, Alone, Told, Known
<1>12. CASE DevAsk
  <2>1. /\ UNCHANGED <<cfg, pm, at, val, ring, host, d_rp, raced>>
        /\ d_asked' = TRUE /\ d_poll' = FALSE /\ d_db' = Known
    BY <1>12 DEF DevAsk
  <2>2. Due'
    BY <2>1 DEF Due
  <2> QED
    BY <2>1, <2>2 DEF AloneInv, Alone, Told, Known
<1>13. CASE UNCHANGED vars
  BY <1>13 DEF vars, AloneInv, Alone, Told, Known, Due
<1> QED
  BY <1>1, <1>2, <1>3, <1>4, <1>5, <1>6, <1>7, <1>8, <1>9, <1>10, <1>11, <1>12, <1>13 DEF Next, Pm

-----------------------------------------------------------------------------
\* The invariant behind DbLostOnlyByRace.
THEOREM DbInvariant == Spec => []DbInv
<1>1. DbInv /\ [Next]_vars => DbInv'
  BY TypeStep, BoundsStep, AwakeStep, ModeStep, AloneStep DEF DbInv
<1> QED
  BY <1>1, InitDb, PTL DEF Spec

\* The device misses an element only where two threads ring at once, for every number of
\* elements, every doorbell mode and every M2, suspend and burst: when the doorbells of
\* mhi_queue_*(), the M0 handler and the OOB events have been rung the device knows of all.
THEOREM DbLostOnlyByRace == Spec => []LostOnlyByRace
<1>1. DbInv => LostOnlyByRace
  BY DEF DbInv, AloneInv, Told, Due, LostOnlyByRace, Settled
<1> QED
  BY <1>1, DbInvariant, PTL
=============================================================================
