---------------------------- MODULE RescanProofs ----------------------------
(***************************************************************************)
(* The ring of the work queue is never corrupted, and a disk rescan is     *)
(* marked pending exactly while somebody is responsible for it, for every  *)
(* ring size and every number of controllers, plugs and usbscan commands.  *)
(***************************************************************************)
EXTENDS Rescan, TLAPS

\* What the position of a thread says about where it came from: only the queue leads to
\* the disk rescan's own turn.
PositionOK(s) ==
  /\ s.pc \in {"run", "work", "end"} => s.from = "run"
  /\ s.pc = "detect" => s.from \in {"run", "usbscan"}

ThreadsOK == \A t \in Threads : PositionOK(th[t])

\* The inductive invariant.
IInv == TypeOK /\ RingOK /\ PendingIsOwned /\ ThreadsOK

\* A step of thread t that leaves it in state s, which is not responsible for a rescan.
Moves(t, s) == th' = [th EXCEPT ![t] = s] /\ s \in ThreadState /\ PositionOK(s)
Free(s) == /\ s.pc \notin {"enqueue", "undo", "end"}
           /\ s.pc = "detect" => s.from = "usbscan"

\* Going to a position keeps the rest of the thread's state.
LEMMA GotoMoves ==
  ASSUME TypeOK, NEW t \in Threads,
         NEW pc \in {"wait", "run", "work", "take", "scan", "ports", "mark", "enqueue", "undo", "detect", "end"},
         Goto(t, pc)
  PROVE  LET s == [pc |-> pc, ctl |-> th[t].ctl, from |-> th[t].from]
         IN  th' = [th EXCEPT ![t] = s] /\ s \in ThreadState
<1> DEFINE r == th[t]
           s == [pc |-> pc, ctl |-> r.ctl, from |-> r.from]
<1>1. r \in ThreadState
  BY DEF TypeOK
<1>2. s \in ThreadState
  BY <1>1 DEF ThreadState
<1>3. [r EXCEPT !.pc = pc] = s
  BY <1>1 DEF ThreadState
<1>4. th' = [th EXCEPT ![t] = [r EXCEPT !.pc = pc]]
  BY DEF Goto
<1> QED BY <1>2, <1>3, <1>4

\* The sequence over the controllers stays within them.
LEMMA NextCtlMoves ==
  ASSUME TypeOK, NEW t \in Threads,
         NEW pc \in {"take", "scan"}, NEW done \in {"wait", "scan", "detect"},
         NextCtl(t, pc, done)
  PROVE  \E s \in ThreadState : /\ th' = [th EXCEPT ![t] = s]
                                /\ s.pc \in {pc, done} /\ s.from = th[t].from
<1> DEFINE c == th[t].ctl
           s1 == [pc |-> pc, ctl |-> IF c < NumCtl THEN c + 1 ELSE 1, from |-> th[t].from]
           s2 == [pc |-> done, ctl |-> FirstCtl(t), from |-> th[t].from]
<1>1. /\ c \in 1 .. NumCtl /\ th[t].from \in {"run", "take", "usbscan"} /\ NumCtl \in Nat \ {0}
  BY RescanConstants DEF TypeOK, ThreadState, Controllers
<1>2. s1 \in ThreadState /\ s2 \in ThreadState
  BY <1>1 DEF ThreadState, Controllers, FirstCtl
<1>3. CASE c # LastCtl(t)
  <2>1. th' = [th EXCEPT ![t] = s1]
    BY <1>3 DEF NextCtl
  <2> QED BY <2>1, <1>2
<1>4. CASE c = LastCtl(t)
  <2>1. th' = [th EXCEPT ![t] = s2]
    BY <1>4 DEF NextCtl
  <2> QED BY <2>1, <1>2
<1> QED BY <1>3, <1>4

\* After a scan a thread is not responsible for a disk rescan.
LEMMA AfterScanMoves ==
  ASSUME TypeOK, NEW t \in Threads, AfterScan(t)
  PROVE  \E s \in ThreadState : Moves(t, s) /\ Free(s)
<1>1. th[t].from \in {"run", "take", "usbscan"}
  BY DEF TypeOK, ThreadState
<1>2. CASE th[t].from = "run"
  <2>1. Goto(t, "run") BY <1>2 DEF AfterScan
  <2> QED BY <2>1, <1>2, GotoMoves DEF Moves, Free, PositionOK
<1>3. CASE th[t].from = "take"
  <2>1. NextCtl(t, "take", "wait") BY <1>3 DEF AfterScan
  <2> QED BY <2>1, <1>3, NextCtlMoves DEF Moves, Free, PositionOK
<1>4. CASE th[t].from = "usbscan"
  <2>1. NextCtl(t, "scan", "detect") BY <1>4 DEF AfterScan
  <2> QED BY <2>1, <1>4, NextCtlMoves DEF Moves, Free, PositionOK
<1> QED BY <1>1, <1>2, <1>3, <1>4

\* Who is responsible after a move.
LEMMA MoveDoers ==
  ASSUME TypeOK, ThreadsOK, NEW t \in Threads, NEW s \in ThreadState, Moves(t, s)
  PROVE  /\ th' \in [Threads -> ThreadState] /\ ThreadsOK'
         /\ Free(s) => Doers' = Doers \ {t}
         /\ ~Free(s) => Doers' = Doers \cup {t}
<1>1. th \in [Threads -> ThreadState] /\ th'[t] = s /\ \A u \in Threads \ {t} : th'[u] = th[u]
  BY DEF TypeOK, Moves
<1>2. th' \in [Threads -> ThreadState]
  BY <1>1 DEF Moves
<1>3. ThreadsOK'
  BY <1>1 DEF ThreadsOK, Moves
<1>4. \A u \in Threads \ {t} : Doing(u)' <=> Doing(u)
  BY <1>1 DEF Doing
<1>5. Doing(t)' <=> ~Free(s)
  BY <1>1 DEF Doing, Free
<1> QED BY <1>2, <1>3, <1>4, <1>5 DEF Doers

\* workqueue_enqueue writes one free cell and moves head past it, or refuses.
LEMMA EnqueueRing ==
  ASSUME TypeOK, RingOK, NEW w \in Work, workqueue_enqueue(w)
  PROVE  /\ queue' \in [Cells -> Work \cup {NULL}] /\ head' \in Cells /\ tail' \in Cells
         /\ RingOK'
         /\ HasRoom => queue[head] = NULL /\ queue' = [queue EXCEPT ![head] = w]
         /\ ~HasRoom => queue' = queue
<1>1. CASE HasRoom
  <2>1. queue' = [queue EXCEPT ![head] = w] /\ head' = Succ(head) /\ tail' = tail
    BY <1>1 DEF workqueue_enqueue
  <2>2. w # NULL /\ w \in Work \cup {NULL} /\ queue \in [Cells -> Work \cup {NULL}]
    BY DEF TypeOK, Work, DISK, NULL, Controllers
  <2>3. head \in Cells /\ tail \in Cells /\ QSize \in Nat /\ QSize >= 2
    BY RescanConstants DEF TypeOK
  <2>4. ~InQueue(head) /\ Succ(head) \in Cells
    BY <2>3 DEF InQueue, Succ, Cells
  <2>5. \A i \in Cells : InQueue(i)' <=> InQueue(i) \/ i = head
    BY <1>1, <2>1, <2>3 DEF InQueue, HasRoom, Succ, Cells
  <2>6. \A i \in Cells : queue'[i] = IF i = head THEN w ELSE queue[i]
    BY <2>1, <2>2
  <2>7. RingOK'
    BY <2>2, <2>5, <2>6 DEF RingOK
  <2> QED BY <1>1, <2>1, <2>2, <2>3, <2>4, <2>7 DEF RingOK
<1>2. CASE ~HasRoom
  BY <1>2 DEF workqueue_enqueue, ring, TypeOK, RingOK, InQueue
<1> QED BY <1>1, <1>2

\* workqueue_run takes one item, which is there, and frees its cell.
LEMMA PopRing ==
  ASSUME TypeOK, RingOK, workqueue_pop
  PROVE  /\ queue' \in [Cells -> Work \cup {NULL}] /\ head' \in Cells /\ tail' \in Cells
         /\ RingOK'
         /\ queue[tail] \in Work /\ queue' = [queue EXCEPT ![tail] = NULL]
<1>1. head # tail /\ queue' = [queue EXCEPT ![tail] = NULL] /\ tail' = Succ(tail) /\ head' = head
  BY DEF workqueue_pop
<1>2. queue \in [Cells -> Work \cup {NULL}]
  BY DEF TypeOK
<1>3. head \in Cells /\ tail \in Cells /\ QSize \in Nat /\ QSize >= 2
  BY RescanConstants DEF TypeOK
<1>4. InQueue(tail) /\ Succ(tail) \in Cells
  BY <1>1, <1>3 DEF InQueue, Succ, Cells
<1>5. \A i \in Cells : InQueue(i)' <=> InQueue(i) /\ i # tail
  BY <1>1, <1>3 DEF InQueue, Succ, Cells
<1>6. \A i \in Cells : queue'[i] = IF i = tail THEN NULL ELSE queue[i]
  BY <1>1, <1>2
<1>7. RingOK'
  BY <1>5, <1>6 DEF RingOK
<1>8. queue[tail] \in Work
  BY <1>2, <1>3, <1>4 DEF RingOK
<1> QED BY <1>1, <1>2, <1>3, <1>4, <1>7, <1>8

\* Queueing the rescan of a controller leaves the disk items alone, queueing a disk item
\* adds its cell, and taking an item removes its cell.
LEMMA RingDiskCells ==
  ASSUME TypeOK, NEW i \in Cells, NEW w \in Work \cup {NULL}, queue' = [queue EXCEPT ![i] = w]
  PROVE  /\ w # DISK => DiskCells' = DiskCells \ {i}
         /\ w = DISK => DiskCells' = DiskCells \cup {i}
<1>1. \A j \in Cells : queue'[j] = IF j = i THEN w ELSE queue[j]
  BY DEF TypeOK
<1> QED BY <1>1 DEF DiskCells

\* The parts of TypeOK other than the queue and the threads.
RestOK ==
  /\ flag \in [Controllers -> BOOLEAN] /\ pending \in BOOLEAN /\ again \in BOOLEAN
  /\ change \in [Controllers -> BOOLEAN] /\ dirty \in [Controllers -> BOOLEAN] /\ stale \in BOOLEAN
  /\ plugs \in 0 .. MaxPlugs /\ scans \in 0 .. MaxScans

QueueOK == queue \in [Cells -> Work \cup {NULL}] /\ head \in Cells /\ tail \in Cells

\* The invariant in the parts the actions change.
LEMMA InvParts ==
  IInv <=> /\ QueueOK /\ RestOK /\ th \in [Threads -> ThreadState]
           /\ RingOK /\ PendingIsOwned /\ ThreadsOK
  BY DEF IInv, TypeOK, QueueOK, RestOK

\* The same, of the state after a step.
LEMMA InvPartsNext ==
  IInv' <=> /\ QueueOK' /\ RestOK' /\ th' \in [Threads -> ThreadState]
            /\ RingOK' /\ PendingIsOwned' /\ ThreadsOK'
  BY DEF IInv, TypeOK, QueueOK, RestOK

\* A step that leaves the ring alone.
LEMMA RingSame ==
  ASSUME IInv, UNCHANGED ring
  PROVE  QueueOK' /\ RingOK' /\ DiskCells' = DiskCells
  BY DEF IInv, TypeOK, ring, QueueOK, RingOK, InQueue, DiskCells

\* A step that leaves the ring and the mark alone and moves a thread that is and stays
\* without responsibility.
LEMMA FreeMove ==
  ASSUME IInv, NEW t \in Threads, NEW s \in ThreadState, Moves(t, s), Free(s), ~Doing(t),
         UNCHANGED ring, pending' = pending
  PROVE  QueueOK' /\ RingOK' /\ th' \in [Threads -> ThreadState] /\ ThreadsOK' /\ PendingIsOwned'
<1>1. th' \in [Threads -> ThreadState] /\ ThreadsOK' /\ Doers' = Doers \ {t}
  BY MoveDoers DEF IInv
<1>2. Doers' = Doers
  BY <1>1 DEF Doers
<1>3. QueueOK' /\ RingOK' /\ DiskCells' = DiskCells
  BY RingSame
<1>4. PendingIsOwned
  BY DEF IInv
<1> QED BY <1>1, <1>2, <1>3, <1>4 DEF PendingIsOwned

\* The same with the state after a scan.
LEMMA FreeAfterScan ==
  ASSUME IInv, NEW t \in Threads, AfterScan(t), ~Doing(t), UNCHANGED ring, pending' = pending
  PROVE  QueueOK' /\ RingOK' /\ th' \in [Threads -> ThreadState] /\ ThreadsOK' /\ PendingIsOwned'
<1>1. PICK s \in ThreadState : Moves(t, s) /\ Free(s)
  BY AfterScanMoves DEF IInv
<1> QED BY <1>1, FreeMove

\* The interrupt's steps: a controller's item never counts as a disk rescan.
LEMMA InterruptKeeps ==
  ASSUME IInv, NEW c \in Controllers, HotPlug(c) \/ poll_changes(c)
  PROVE  IInv'
<1>1. QueueOK /\ RestOK /\ th \in [Threads -> ThreadState] /\ PendingIsOwned /\ ThreadsOK
  BY InvParts
<1>2. CASE HotPlug(c)
  <2>1. RestOK' BY <1>1, <1>2, RescanConstants DEF HotPlug, RestOK, disk
  <2>2. QueueOK' /\ RingOK' /\ DiskCells' = DiskCells BY <1>2, RingSame DEF HotPlug
  <2>3. th' = th /\ pending' = pending BY <1>2 DEF HotPlug, disk
  <2>4. Doers' = Doers /\ ThreadsOK' BY <2>3, <1>1 DEF Doers, Doing, ThreadsOK
  <2>5. PendingIsOwned' BY <2>2, <2>3, <2>4, <1>1 DEF PendingIsOwned
  <2> QED BY <2>1, <2>2, <2>3, <2>4, <2>5, <1>1, InvPartsNext
<1>3. CASE poll_changes(c)
  <2>1. RestOK' BY <1>1, <1>3 DEF poll_changes, RestOK, disk, count
  <2>2. workqueue_enqueue(c) /\ c \in Work /\ c # DISK /\ th' = th /\ pending' = pending
    BY <1>3 DEF poll_changes, disk, Work, DISK, Controllers
  <2>3. /\ QueueOK' /\ RingOK'
        /\ HasRoom => queue[head] = NULL /\ queue' = [queue EXCEPT ![head] = c]
        /\ ~HasRoom => queue' = queue
    BY <2>2, EnqueueRing DEF IInv, QueueOK
  <2>4. DiskCells' = DiskCells
    <3>1. CASE HasRoom
      <4>1. DiskCells' = DiskCells \ {head}
        BY <3>1, <2>2, <2>3, <1>1, RingDiskCells DEF IInv, QueueOK
      <4>2. head \notin DiskCells
        BY <3>1, <2>3 DEF DiskCells, NULL, DISK
      <4> QED BY <4>1, <4>2
    <3>2. CASE ~HasRoom BY <3>2, <2>3 DEF DiskCells
    <3> QED BY <3>1, <3>2
  <2>5. Doers' = Doers /\ ThreadsOK' BY <2>2, <1>1 DEF Doers, Doing, ThreadsOK
  <2>6. PendingIsOwned' BY <2>2, <2>4, <2>5, <1>1 DEF PendingIsOwned
  <2> QED BY <2>1, <2>2, <2>3, <2>5, <2>6, <1>1, InvPartsNext
<1> QED BY <1>2, <1>3

\* The sysmgr thread wakes up, and usbscan begins.
LEMMA BeginKeeps ==
  ASSUME IInv, Wake \/ usbscan
  PROVE  IInv'
<1> DEFINE s1 == [pc |-> "run", ctl |-> 1, from |-> "run"]
           s2 == [pc |-> "take", ctl |-> FirstCtl("console"), from |-> "usbscan"]
<1>1. QueueOK /\ RestOK /\ "sysmgr" \in Threads /\ "console" \in Threads
  BY InvParts DEF Threads
<1>2. s1 \in ThreadState /\ s2 \in ThreadState /\ Free(s1) /\ Free(s2) /\ PositionOK(s1) /\ PositionOK(s2)
  BY RescanConstants DEF ThreadState, Free, PositionOK, FirstCtl, Controllers
<1> HIDE DEF s1, s2
<1>3. CASE Wake
  <2>1. th' = [th EXCEPT !["sysmgr"] = s1] /\ ~Doing("sysmgr") /\ UNCHANGED ring /\ pending' = pending
    BY <1>3 DEF Wake, s1, At, Doing, disk
  <2>2. RestOK' BY <1>1, <1>3 DEF Wake, RestOK, disk, ports, count
  <2>3. QueueOK' /\ RingOK' /\ th' \in [Threads -> ThreadState] /\ ThreadsOK' /\ PendingIsOwned'
    BY <1>1, <1>2, <2>1, FreeMove DEF Moves
  <2> QED BY <2>2, <2>3, InvPartsNext
<1>4. CASE usbscan
  <2>1. th' = [th EXCEPT !["console"] = s2] /\ ~Doing("console") /\ UNCHANGED ring /\ pending' = pending
    BY <1>4 DEF usbscan, s2, At, Doing, disk
  <2>2. RestOK' BY <1>1, <1>4, RescanConstants DEF usbscan, RestOK, disk, ports
  <2>3. QueueOK' /\ RingOK' /\ th' \in [Threads -> ThreadState] /\ ThreadsOK' /\ PendingIsOwned'
    BY <1>1, <1>2, <2>1, FreeMove DEF Moves
  <2> QED BY <2>2, <2>3, InvPartsNext
<1> QED BY <1>3, <1>4

\* workqueue_run hands the responsibility for a disk rescan from the item to the thread.
LEMMA RunKeeps ==
  ASSUME IInv, NEW t \in Threads, workqueue_run(t)
  PROVE  IInv'
<1> DEFINE s1 == [pc |-> "detect", ctl |-> 1, from |-> "run"]
           s2 == [pc |-> "work", ctl |-> queue[tail], from |-> "run"]
           s3 == [pc |-> "take", ctl |-> 1, from |-> "take"]
<1>1. QueueOK /\ RestOK /\ PendingIsOwned /\ TypeOK /\ RingOK /\ ThreadsOK
  BY InvParts DEF IInv
<1>2. RestOK' /\ pending' = pending
  BY <1>1 DEF workqueue_run, RestOK, disk, ports, count
<1>3. ~Doing(t) /\ t \notin Doers
  BY DEF workqueue_run, At, Doing, Doers
<1>4. CASE workqueue_pop
  <2>1. QueueOK' /\ RingOK' /\ queue[tail] \in Work /\ queue' = [queue EXCEPT ![tail] = NULL]
    BY <1>1, <1>4, PopRing DEF QueueOK
  <2>2. DiskCells' = DiskCells \ {tail}
    <3>1. tail \in Cells /\ NULL \in Work \cup {NULL} /\ NULL # DISK
      BY <1>1 DEF QueueOK, NULL, DISK
    <3> QED BY <1>1, <2>1, <3>1, RingDiskCells
  <2>3. th' = [th EXCEPT ![t] = IF queue[tail] = DISK THEN s1 ELSE s2]
    BY <1>4 DEF workqueue_run, workqueue_pop
  <2>4. CASE queue[tail] = DISK
    <3>1. s1 \in ThreadState /\ PositionOK(s1) /\ ~Free(s1)
      BY RescanConstants DEF ThreadState, PositionOK, Free, Controllers
    <3>2. th' \in [Threads -> ThreadState] /\ ThreadsOK' /\ Doers' = Doers \cup {t}
      BY <3>1, <2>3, <2>4, <1>1, MoveDoers DEF Moves
    <3>3. tail \in DiskCells
      BY <1>1, <2>4 DEF DiskCells, QueueOK
    <3>4. PendingIsOwned'
      BY <3>2, <3>3, <2>2, <1>1, <1>2 DEF PendingIsOwned
    <3> QED BY <1>2, <2>1, <3>2, <3>4, InvPartsNext
  <2>5. CASE queue[tail] # DISK
    <3>1. s2 \in ThreadState /\ PositionOK(s2) /\ Free(s2)
      BY <2>1, <2>5 DEF ThreadState, PositionOK, Free, Work
    <3>2. th' \in [Threads -> ThreadState] /\ ThreadsOK' /\ Doers' = Doers \ {t}
      BY <3>1, <2>3, <2>5, <1>1, MoveDoers DEF Moves
    <3>3. tail \notin DiskCells
      BY <2>5 DEF DiskCells
    <3>4. PendingIsOwned'
      <4>1. DiskCells' = DiskCells /\ Doers' = Doers BY <3>2, <3>3, <2>2, <1>3
      <4> QED BY <4>1, <1>1, <1>2 DEF PendingIsOwned
    <3> QED BY <1>2, <2>1, <3>2, <3>4, InvPartsNext
  <2> QED BY <2>4, <2>5
<1>5. CASE ~workqueue_pop
  <2>1. UNCHANGED ring /\ th' = [th EXCEPT ![t] = s3]
    BY <1>5 DEF workqueue_run
  <2>2. s3 \in ThreadState /\ PositionOK(s3) /\ Free(s3)
    BY RescanConstants DEF ThreadState, PositionOK, Free, Controllers
  <2>3. QueueOK' /\ RingOK' /\ th' \in [Threads -> ThreadState] /\ ThreadsOK' /\ PendingIsOwned'
    BY <2>1, <2>2, <1>2, <1>3, FreeMove DEF Moves
  <2> QED BY <1>2, <2>3, InvPartsNext
<1> QED BY <1>4, <1>5

\* The steps that only move a thread on: none of them takes or drops the responsibility.
LEMMA ScanKeeps ==
  ASSUME IInv, NEW t \in Threads,
         rescan_work(t) \/ take_rescan_pending(t) \/ rescan_begin(t) \/ rescan_end(t)
  PROVE  IInv'
<1>1. /\ QueueOK /\ RestOK /\ TypeOK /\ PositionOK(th[t])
      /\ th[t].ctl \in Controllers /\ th[t].from \in {"run", "take", "usbscan"}
  BY InvParts DEF IInv, ThreadsOK, TypeOK, ThreadState
<1>2. RestOK' /\ pending' = pending /\ UNCHANGED ring
  BY <1>1 DEF rescan_work, take_rescan_pending, rescan_begin, rescan_end, RestOK, disk, ports, count
<1>3. ~Doing(t)
  BY DEF rescan_work, take_rescan_pending, rescan_begin, rescan_end, At, Doing
<1>4. ASSUME NEW pc \in {"run", "scan", "ports", "mark"}, Goto(t, pc), pc = "run" => th[t].from = "run"
      PROVE  \E s \in ThreadState : Moves(t, s) /\ Free(s)
  BY <1>1, <1>4, GotoMoves DEF Moves, Free, PositionOK
<1>5. ASSUME NEW done \in {"wait", "scan"}, NextCtl(t, "take", done)
      PROVE  \E s \in ThreadState : Moves(t, s) /\ Free(s)
  <2>1. PICK s \in ThreadState : /\ th' = [th EXCEPT ![t] = s]
                                 /\ s.pc \in {"take", done} /\ s.from = th[t].from
    BY <1>1, <1>5, NextCtlMoves
  <2> QED BY <2>1 DEF Moves, Free, PositionOK
<1>6. \E s \in ThreadState : Moves(t, s) /\ Free(s)
  <2>1. CASE rescan_work(t)
    BY <2>1, <1>1, <1>4 DEF rescan_work, At, PositionOK
  <2>2. CASE take_rescan_pending(t)
    BY <2>2, <1>4, <1>5 DEF take_rescan_pending
  <2>3. CASE rescan_begin(t)
    BY <2>3, <1>4 DEF rescan_begin
  <2>4. CASE rescan_end(t)
    BY <2>4, <1>1, <1>4, AfterScanMoves DEF rescan_end
  <2> QED BY <2>1, <2>2, <2>3, <2>4
<1>7. QueueOK' /\ RingOK' /\ th' \in [Threads -> ThreadState] /\ ThreadsOK' /\ PendingIsOwned'
  BY <1>2, <1>3, <1>6, FreeMove
<1> QED BY <1>2, <1>7, InvPartsNext

\* disk_request_rescan takes the responsibility, gives it to the queue or gives it up.
LEMMA RequestKeeps ==
  ASSUME IInv, NEW t \in Threads, request_mark(t) \/ request_enqueue(t) \/ request_undo(t)
  PROVE  IInv'
<1>1. QueueOK /\ RestOK /\ TypeOK /\ RingOK /\ PendingIsOwned /\ ThreadsOK /\ DISK \in Work
  BY InvParts DEF IInv, Work
<1>2. ASSUME AfterScan(t)
      PROVE  th' \in [Threads -> ThreadState] /\ ThreadsOK' /\ Doers' = Doers \ {t}
  <2>1. PICK s \in ThreadState : Moves(t, s) /\ Free(s)
    BY <1>1, <1>2, AfterScanMoves
  <2> QED BY <2>1, <1>1, MoveDoers
<1>3. ASSUME NEW pc \in {"enqueue", "undo"}, Goto(t, pc)
      PROVE  th' \in [Threads -> ThreadState] /\ ThreadsOK' /\ Doers' = Doers \cup {t}
  <2>1. PICK s \in ThreadState : Moves(t, s) /\ ~Free(s)
    BY <1>1, <1>3, GotoMoves DEF Moves, Free, PositionOK
  <2> QED BY <2>1, <1>1, MoveDoers
<1>4. CASE request_mark(t)
  <2>1. RestOK' /\ UNCHANGED ring
    BY <1>1, <1>4 DEF request_mark, RestOK, ports, count
  <2>2. QueueOK' /\ RingOK' /\ DiskCells' = DiskCells
    BY <2>1, RingSame
  <2>3. t \notin Doers
    BY <1>4 DEF request_mark, At, Doers, Doing
  <2>4. CASE pending
    <3>1. AfterScan(t) /\ pending' = pending BY <1>4, <2>4 DEF request_mark
    <3>2. Doers' = Doers BY <3>1, <1>2, <2>3
    <3>3. PendingIsOwned' BY <3>1, <3>2, <2>2, <1>1 DEF PendingIsOwned
    <3> QED BY <3>1, <1>2, <3>3, <2>1, <2>2, InvPartsNext
  <2>5. CASE ~pending
    <3>1. Goto(t, "enqueue") /\ pending' = TRUE BY <1>4, <2>5 DEF request_mark
    <3>2. DiskCells = {} /\ Doers = {} BY <2>5, <1>1 DEF PendingIsOwned
    <3>3. Doers' = {t} BY <3>1, <3>2, <1>3
    <3>4. PendingIsOwned' BY <3>1, <3>2, <3>3, <2>2 DEF PendingIsOwned
    <3> QED BY <3>1, <1>3, <3>4, <2>1, <2>2, InvPartsNext
  <2> QED BY <2>4, <2>5
<1>5. CASE request_enqueue(t) \/ request_undo(t)
  <2>1. t \in Doers
    BY <1>5 DEF request_enqueue, request_undo, At, Doers, Doing
  <2>2. pending /\ DiskCells = {} /\ Doers = {t}
    BY <2>1, <1>1 DEF PendingIsOwned
  <2>3. CASE request_enqueue(t)
    <3>1. RestOK' /\ pending' = pending /\ workqueue_enqueue(DISK)
      BY <1>1, <2>3 DEF request_enqueue, RestOK, disk, ports, count
    <3>2. /\ QueueOK' /\ RingOK'
          /\ HasRoom => queue' = [queue EXCEPT ![head] = DISK]
          /\ ~HasRoom => queue' = queue
      BY <3>1, <1>1, EnqueueRing DEF QueueOK
    <3>3. CASE HasRoom
      <4>1. head \in Cells /\ DISK \in Work \cup {NULL} BY <1>1 DEF QueueOK
      <4>2. DiskCells' = {head} BY <4>1, <3>2, <3>3, <2>2, <1>1, RingDiskCells
      <4>3. AfterScan(t) BY <2>3, <3>3 DEF request_enqueue
      <4>4. Doers' = {} BY <4>3, <1>2, <2>2
      <4>5. PendingIsOwned' BY <4>2, <4>4, <3>1, <2>2 DEF PendingIsOwned
      <4> QED BY <4>3, <1>2, <4>5, <3>1, <3>2, InvPartsNext
    <3>4. CASE ~HasRoom
      <4>1. Goto(t, "undo") BY <2>3, <3>4 DEF request_enqueue
      <4>2. DiskCells' = {} BY <3>2, <3>4, <2>2 DEF DiskCells
      <4>3. Doers' = {t} BY <4>1, <1>3, <2>2
      <4>4. PendingIsOwned' BY <4>2, <4>3, <3>1, <2>2 DEF PendingIsOwned
      <4> QED BY <4>1, <1>3, <4>4, <3>1, <3>2, InvPartsNext
    <3> QED BY <3>3, <3>4
  <2>4. CASE request_undo(t)
    <3>1. RestOK' /\ pending' = FALSE /\ UNCHANGED ring /\ AfterScan(t)
      BY <1>1, <2>4 DEF request_undo, RestOK, ports, count
    <3>2. QueueOK' /\ RingOK' /\ DiskCells' = {}
      BY <3>1, <2>2, RingSame
    <3>3. Doers' = {} BY <3>1, <1>2, <2>2
    <3>4. PendingIsOwned' BY <3>1, <3>2, <3>3 DEF PendingIsOwned
    <3> QED BY <3>1, <3>2, <3>4, <1>2, InvPartsNext
  <2> QED BY <1>5, <2>3, <2>4
<1> QED BY <1>4, <1>5

\* disk_rescan_work keeps the responsibility until no request has come in meanwhile.
LEMMA DiskWorkKeeps ==
  ASSUME IInv, NEW t \in Threads, detect_disks_quick(t) \/ disk_rescan_work(t)
  PROVE  IInv'
<1>1. /\ QueueOK /\ RestOK /\ TypeOK /\ PendingIsOwned /\ ThreadsOK /\ PositionOK(th[t])
      /\ th[t].from \in {"run", "take", "usbscan"}
  BY InvParts DEF IInv, ThreadsOK, TypeOK, ThreadState
<1>2. RestOK' /\ UNCHANGED ring
  BY <1>1 DEF detect_disks_quick, disk_rescan_work, RestOK, ports, count
<1>3. QueueOK' /\ RingOK' /\ DiskCells' = DiskCells
  BY <1>2, RingSame
<1>4. CASE detect_disks_quick(t) /\ th[t].from = "usbscan"
  <2>1. Goto(t, "wait") /\ pending' = pending /\ ~Doing(t)
    BY <1>4 DEF detect_disks_quick, At, Doing
  <2>2. PICK s \in ThreadState : Moves(t, s) /\ Free(s)
    BY <1>1, <2>1, GotoMoves DEF Moves, Free, PositionOK
  <2>3. th' \in [Threads -> ThreadState] /\ ThreadsOK' /\ PendingIsOwned'
    BY <1>2, <2>1, <2>2, FreeMove
  <2> QED BY <1>2, <1>3, <2>3, InvPartsNext
<1>5. CASE (detect_disks_quick(t) /\ th[t].from # "usbscan") \/ disk_rescan_work(t)
  <2>1. t \in Doers /\ th[t].from = "run"
    BY <1>1, <1>5 DEF detect_disks_quick, disk_rescan_work, At, Doers, Doing, PositionOK
  <2>2. pending /\ DiskCells = {} /\ Doers = {t}
    BY <2>1, <1>1 DEF PendingIsOwned
  <2>3. ASSUME NEW pc \in {"detect", "end"}, Goto(t, pc), pending' = TRUE
        PROVE  th' \in [Threads -> ThreadState] /\ ThreadsOK' /\ PendingIsOwned'
    <3>1. PICK s \in ThreadState : Moves(t, s) /\ ~Free(s)
      BY <1>1, <2>1, <2>3, GotoMoves DEF Moves, Free, PositionOK
    <3>2. th' \in [Threads -> ThreadState] /\ ThreadsOK' /\ Doers' = {t}
      BY <3>1, <1>1, <2>2, MoveDoers
    <3> QED BY <3>2, <2>2, <2>3, <1>3 DEF PendingIsOwned
  <2>4. CASE detect_disks_quick(t) /\ th[t].from # "usbscan"
    <3>1. Goto(t, "end") /\ pending' = TRUE
      <4>1. Goto(t, "end") /\ pending' = pending BY <2>4 DEF detect_disks_quick
      <4> QED BY <4>1, <2>2, <1>1 DEF RestOK
    <3> QED BY <3>1, <2>3, <1>2, <1>3, InvPartsNext
  <2>5. CASE disk_rescan_work(t) /\ again
    <3>1. Goto(t, "detect") /\ pending' = TRUE
      BY <2>5, <1>1 DEF disk_rescan_work, RestOK
    <3> QED BY <3>1, <2>3, <1>2, <1>3, InvPartsNext
  <2>6. CASE disk_rescan_work(t) /\ ~again
    <3>1. Goto(t, "run") /\ pending' = FALSE
      BY <2>6, <1>1 DEF disk_rescan_work, RestOK
    <3>2. PICK s \in ThreadState : Moves(t, s) /\ Free(s)
      BY <1>1, <2>1, <3>1, GotoMoves DEF Moves, Free, PositionOK
    <3>3. th' \in [Threads -> ThreadState] /\ ThreadsOK' /\ Doers' = {}
      BY <3>2, <1>1, <2>2, MoveDoers
    <3>4. PendingIsOwned' BY <3>1, <3>3, <2>2, <1>3 DEF PendingIsOwned
    <3> QED BY <3>3, <3>4, <1>2, <1>3, InvPartsNext
  <2> QED BY <1>5, <2>4, <2>5, <2>6
<1> QED BY <1>4, <1>5

\* The inductive invariant holds of every behaviour of the queue and its users.
THEOREM Invariance == Spec => []IInv
<1>1. Init => IInv
  <2> SUFFICES ASSUME Init PROVE IInv
    OBVIOUS
  <2>1. QueueOK
    BY RescanConstants DEF Init, QueueOK, Cells
  <2>2. RestOK
    <3>1. plugs \in 0 .. MaxPlugs /\ scans \in 0 .. MaxScans
      BY RescanConstants DEF Init
    <3>2. change \in [Controllers -> BOOLEAN] /\ flag \in [Controllers -> BOOLEAN]
      BY DEF Init
    <3>3. pending \in BOOLEAN /\ again \in BOOLEAN /\ stale \in BOOLEAN /\ dirty = change
      BY DEF Init
    <3> QED BY <3>1, <3>2, <3>3 DEF RestOK
  <2>3. th \in [Threads -> ThreadState] /\ ThreadsOK
    BY RescanConstants DEF Init, ThreadState, ThreadsOK, PositionOK, Controllers
  <2>4. RingOK
    BY RescanConstants DEF Init, RingOK, InQueue, Cells
  <2>5. DiskCells = {} /\ Doers = {}
    BY DEF Init, DiskCells, Doers, Doing, NULL, DISK
  <2>6. PendingIsOwned
    BY <2>5 DEF Init, PendingIsOwned
  <2> QED BY <2>1, <2>2, <2>3, <2>4, <2>6, InvParts
<1>2. IInv /\ [Next]_vars => IInv'
  <2> SUFFICES ASSUME IInv, [Next]_vars PROVE IInv'
    OBVIOUS
  <2>1. CASE Next
    <3>1. ASSUME NEW c \in Controllers, HotPlug(c) \/ poll_changes(c) PROVE IInv'
      BY <3>1, InterruptKeeps
    <3>2. ASSUME Wake \/ usbscan PROVE IInv'
      BY <3>2, BeginKeeps
    <3>3. ASSUME NEW t \in Threads, Step(t) PROVE IInv'
      BY <3>3, RunKeeps, ScanKeeps, RequestKeeps, DiskWorkKeeps DEF Step
    <3> QED BY <2>1, <3>1, <3>2, <3>3 DEF Next
  <2>2. CASE UNCHANGED vars
    <3>1. UNCHANGED ring /\ th' = th /\ pending' = pending
      BY <2>2 DEF vars, disk
    <3>2. QueueOK' /\ RingOK' /\ DiskCells' = DiskCells
      BY <3>1, RingSame
    <3>3. RestOK'
      BY <2>2, InvParts DEF vars, disk, ports, count, RestOK
    <3>4. th' \in [Threads -> ThreadState] /\ ThreadsOK' /\ Doers' = Doers
      BY <3>1, InvParts DEF ThreadsOK, Doers, Doing
    <3>5. PendingIsOwned'
      BY <3>1, <3>2, <3>4, InvParts DEF PendingIsOwned
    <3> QED BY <3>2, <3>3, <3>4, <3>5, InvPartsNext
  <2> QED BY <2>1, <2>2
<1> QED BY <1>1, <1>2, PTL DEF Spec

\* The cells between tail and head, and no others, hold work: workqueue_run loses no item
\* and runs none twice, in rings of every size.
THEOREM RingSafe == Spec => []RingOK
<1>1. IInv => RingOK BY DEF IInv
<1> QED BY <1>1, Invariance, PTL

\* The indices stay inside the ring and the flags keep their types.
THEOREM TypeCorrect == Spec => []TypeOK
<1>1. IInv => TypeOK BY DEF IInv
<1> QED BY <1>1, Invariance, PTL

\* disk_rescan_pending is set exactly while one item or one thread will do the rescan or
\* take the mark back: no mark is left behind that would silence every later request.
THEOREM PendingSafe == Spec => []PendingIsOwned
<1>1. IInv => PendingIsOwned BY DEF IInv
<1> QED BY <1>1, Invariance, PTL
=============================================================================
