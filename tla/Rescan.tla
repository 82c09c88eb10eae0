------------------------------- MODULE Rescan -------------------------------
(***************************************************************************)
(* The work queue (kernel/proc/workqueue.c) and its users: the polls of    *)
(* the USB controllers in the timer interrupt, which ask for a rescan of   *)
(* the ports, and disk_request_rescan (fs/disk.c), called by a rescan that *)
(* found or lost a storage device.  The sysmgr thread runs the queue and   *)
(* then looks at the request flags itself.  The usbscan command does the   *)
(* same work from the console; as the first thing it does enables          *)
(* interrupts (hal_enable_interrupts in *_take_rescan_pending), its steps  *)
(* interleave with everything else.                                        *)
(*                                                                         *)
(* Each section with interrupts off is one step.  A scan is two: it begins, *)
(* and it ends with the change bits cleared, by which time a storage device *)
(* may have come or gone.                                                  *)
(***************************************************************************)
EXTENDS Integers, FiniteSets

CONSTANTS QSize,        \* WORKQUEUE_SIZE
          MaxPlugs,     \* bound: changes of a port
          MaxScans,     \* bound: usbscan commands
          NumCtl,       \* the controllers: xHCI, EHCI, OHCI, UHCI in this order
          AckOnPoll     \* the ones whose poll clears the port's change bit

ASSUME RescanConstants ==
  /\ QSize \in Nat /\ QSize >= 2
  /\ NumCtl \in Nat \ {0} /\ MaxPlugs \in Nat /\ MaxScans \in Nat
  /\ AckOnPoll \subseteq 1 .. NumCtl

VARIABLES
  queue, head, tail,    \* the ring of work items
  flag,                 \* *_rescan_pending
  pending, again,       \* disk_rescan_pending, disk_rescan_again
  th,                   \* where the sysmgr thread and the console are
  change,               \* the hardware's port change bits
  dirty,                \* a poll has seen a change and no scan has begun since
  stale,                \* storage devices changed and the disk list is older
  plugs, scans          \* counted against the bounds

ring == <<queue, head, tail>>
disk == <<pending, again, stale>>
ports == <<change, dirty>>
count == <<plugs, scans>>
vars == <<ring, flag, disk, th, ports, count>>

\* Their drivers repeat the same code; c stands for its place.
Controllers == 1 .. NumCtl
Cells == 0 .. QSize - 1
NULL == -1
DISK == 0                                 \* disk_rescan_work; i is *_rescan_work of i
Work == {DISK} \cup Controllers
Threads == {"sysmgr", "console"}

\* from is where a scan returns to: the queue, the flags of sysmgr_thread, or usbscan.
ThreadState ==
  [pc : {"wait", "run", "work", "take", "scan", "ports", "mark", "enqueue", "undo", "detect", "end"},
   ctl : Controllers, from : {"run", "take", "usbscan"}]

Init ==
  /\ queue = [i \in Cells |-> NULL] /\ head = 0 /\ tail = 0
  /\ flag = [c \in Controllers |-> FALSE] /\ pending = FALSE /\ again = FALSE
  /\ th = [t \in Threads |-> [pc |-> "wait", ctl |-> 1, from |-> "run"]]
  /\ change = [c \in Controllers |-> FALSE] /\ dirty = change /\ stale = FALSE
  /\ plugs = 0 /\ scans = 0

-----------------------------------------------------------------------------
(* The work queue *)

Succ(i) == IF i + 1 = QSize THEN 0 ELSE i + 1

HasRoom == Succ(head) # tail

\* Mutant: the full ring is not noticed.
workqueue_enqueue_full(w) ==
  queue' = [queue EXCEPT ![head] = w] /\ head' = Succ(head) /\ tail' = tail

workqueue_enqueue(w) ==
  IF HasRoom THEN queue' = [queue EXCEPT ![head] = w] /\ head' = Succ(head) /\ tail' = tail
  ELSE UNCHANGED ring

workqueue_pop ==
  /\ head # tail
  /\ queue' = [queue EXCEPT ![tail] = NULL] /\ tail' = Succ(tail) /\ head' = head

-----------------------------------------------------------------------------
(* The timer interrupt *)

HotPlug(c) ==
  /\ plugs < MaxPlugs /\ plugs' = plugs + 1
  /\ change' = [change EXCEPT ![c] = TRUE]
  /\ UNCHANGED <<ring, flag, disk, th, dirty, scans>>

\* *_poll_changes and *_queue_rescan.
poll_changes(c) ==
  /\ ~flag[c] /\ change[c]
  /\ flag' = [flag EXCEPT ![c] = TRUE]
  /\ workqueue_enqueue(c)
  /\ change' = [change EXCEPT ![c] = c \notin AckOnPoll]
  /\ dirty' = [dirty EXCEPT ![c] = TRUE]
  /\ UNCHANGED <<disk, th, count>>

-----------------------------------------------------------------------------
(* Thread steps *)

At(t, pc) == th[t].pc = pc
Goto(t, pc) == th' = [th EXCEPT ![t].pc = pc]

\* sysmgr_thread begins with xHCI; usbscan does it last.
FirstCtl(t) == IF t = "console" /\ NumCtl > 1 THEN 2 ELSE 1
LastCtl(t) == IF t = "console" THEN 1 ELSE NumCtl

\* The next controller of a sequence over all of them, or its end.
NextCtl(t, pc, done) ==
  LET c == th[t].ctl  from == th[t].from IN
  th' = [th EXCEPT ![t] =
           IF c # LastCtl(t) THEN [pc |-> pc, ctl |-> IF c < NumCtl THEN c + 1 ELSE 1, from |-> from]
           ELSE [pc |-> done, ctl |-> FirstCtl(t), from |-> from]]

AfterScan(t) ==
  CASE th[t].from = "run" -> Goto(t, "run")
    [] th[t].from = "take" -> NextCtl(t, "take", "wait")
    [] th[t].from = "usbscan" -> NextCtl(t, "scan", "detect")

\* The sysmgr thread is woken by an interrupt.
Wake ==
  /\ At("sysmgr", "wait")
  /\ th' = [th EXCEPT !["sysmgr"] = [pc |-> "run", ctl |-> 1, from |-> "run"]]
  /\ UNCHANGED <<ring, flag, disk, ports, count>>

\* The console runs usbscan.
usbscan ==
  /\ At("console", "wait")
  /\ scans < MaxScans /\ scans' = scans + 1
  /\ th' = [th EXCEPT !["console"] = [pc |-> "take", ctl |-> FirstCtl("console"), from |-> "usbscan"]]
  /\ UNCHANGED <<ring, flag, disk, ports, plugs>>

\* workqueue_run takes the next item, or the thread goes on to the flags.
workqueue_run(t) ==
  /\ At(t, "run")
  /\ \/ /\ workqueue_pop
        /\ th' = [th EXCEPT ![t] =
                    IF queue[tail] = DISK THEN [pc |-> "detect", ctl |-> 1, from |-> "run"]
                    ELSE [pc |-> "work", ctl |-> queue[tail], from |-> "run"]]
     \/ /\ head = tail /\ UNCHANGED ring
        /\ th' = [th EXCEPT ![t] = [pc |-> "take", ctl |-> 1, from |-> "take"]]
  /\ UNCHANGED <<flag, disk, ports, count>>

\* *_rescan_work: scan if the flag is still set.
rescan_work(t) ==
  /\ At(t, "work")
  /\ flag' = [flag EXCEPT ![th[t].ctl] = FALSE]
  /\ Goto(t, IF flag[th[t].ctl] THEN "scan" ELSE "run")
  /\ UNCHANGED <<ring, disk, ports, count>>

\* Mutant: the sysmgr thread clears the flag and leaves the scan to the queued item.
take_rescan_pending_drop(t) ==
  /\ At(t, "take")
  /\ flag' = [flag EXCEPT ![th[t].ctl] = FALSE]
  /\ IF th[t].from = "take" THEN NextCtl(t, "take", "wait") ELSE NextCtl(t, "take", "scan")
  /\ UNCHANGED <<ring, disk, ports, count>>

\* *_take_rescan_pending: sysmgr_thread scans at once when a flag was set; usbscan clears
\* all the flags and then scans every controller.
take_rescan_pending(t) ==
  /\ At(t, "take")
  /\ flag' = [flag EXCEPT ![th[t].ctl] = FALSE]
  /\ CASE th[t].from = "usbscan" -> NextCtl(t, "take", "scan")
       [] th[t].from # "usbscan" /\ flag[th[t].ctl] -> Goto(t, "scan")
       [] OTHER -> NextCtl(t, "take", "wait")
  /\ UNCHANGED <<ring, disk, ports, count>>

\* *_rescan_all_ports begins ...
rescan_begin(t) ==
  /\ At(t, "scan")
  /\ dirty' = [dirty EXCEPT ![th[t].ctl] = FALSE]
  /\ Goto(t, "ports")
  /\ UNCHANGED <<ring, flag, disk, change, count>>

\* Mutant: a storage device that came or went is not reported.
rescan_end_silent(t) ==
  /\ At(t, "ports")
  /\ change' = [change EXCEPT ![th[t].ctl] = FALSE]
  /\ stale' \in {stale, TRUE} /\ AfterScan(t)
  /\ UNCHANGED <<ring, flag, pending, again, dirty, count>>

\* ... and ends; a storage device that came or went asks for a rescan of the disks.
rescan_end(t) ==
  /\ At(t, "ports")
  /\ change' = [change EXCEPT ![th[t].ctl] = FALSE]
  /\ \/ stale' = TRUE /\ Goto(t, "mark")
     \/ stale' = stale /\ AfterScan(t)
  /\ UNCHANGED <<ring, flag, pending, again, dirty, count>>

\* disk_request_rescan, its three sections with interrupts off.
request_mark(t) ==
  /\ At(t, "mark")
  /\ IF pending THEN again' = TRUE /\ pending' = pending /\ AfterScan(t)
     ELSE pending' = TRUE /\ again' = again /\ Goto(t, "enqueue")
  /\ UNCHANGED <<ring, flag, ports, stale, count>>

request_enqueue(t) ==
  /\ At(t, "enqueue")
  /\ workqueue_enqueue(DISK)
  /\ IF HasRoom THEN AfterScan(t) ELSE Goto(t, "undo")
  /\ UNCHANGED <<flag, disk, ports, count>>

\* Mutant: the request stays marked although nothing was queued.
request_undo_none(t) ==
  At(t, "undo") /\ AfterScan(t) /\ UNCHANGED <<ring, flag, disk, ports, count>>

request_undo(t) ==
  /\ At(t, "undo")
  /\ pending' = FALSE /\ AfterScan(t)
  /\ UNCHANGED <<ring, flag, again, ports, stale, count>>

\* detect_disks_quick, of disk_rescan_work and of usbscan, counted from where it begins.
detect_disks_quick(t) ==
  /\ At(t, "detect")
  /\ stale' = FALSE
  /\ Goto(t, IF th[t].from = "usbscan" THEN "wait" ELSE "end")
  /\ UNCHANGED <<ring, flag, pending, again, ports, count>>

\* The end of a turn of disk_rescan_work.
disk_rescan_work(t) ==
  /\ At(t, "end")
  /\ again' = FALSE
  /\ pending' = again
  /\ Goto(t, IF again THEN "detect" ELSE "run")
  /\ UNCHANGED <<ring, flag, ports, stale, count>>

Step(t) ==
  \/ workqueue_run(t) \/ rescan_work(t) \/ take_rescan_pending(t)
  \/ rescan_begin(t) \/ rescan_end(t)
  \/ request_mark(t) \/ request_enqueue(t) \/ request_undo(t)
  \/ detect_disks_quick(t) \/ disk_rescan_work(t)

Next ==
  \/ \E c \in Controllers : HotPlug(c) \/ poll_changes(c)
  \/ Wake \/ usbscan
  \/ \E t \in Threads : Step(t)

Spec == Init /\ [][Next]_vars

\* The timer fires, the sysmgr thread is scheduled again and again, and a usbscan that
\* has begun goes on; nobody has to plug anything or type usbscan.
Fairness ==
  /\ \A c \in Controllers : WF_vars(poll_changes(c))
  /\ WF_vars(Wake)
  /\ \A t \in Threads : WF_vars(Step(t))

FairSpec == Spec /\ Fairness

-----------------------------------------------------------------------------
(* Properties *)

TypeOK ==
  /\ queue \in [Cells -> Work \cup {NULL}] /\ head \in Cells /\ tail \in Cells
  /\ flag \in [Controllers -> BOOLEAN] /\ pending \in BOOLEAN /\ again \in BOOLEAN
  /\ th \in [Threads -> ThreadState]
  /\ change \in [Controllers -> BOOLEAN] /\ dirty \in [Controllers -> BOOLEAN] /\ stale \in BOOLEAN
  /\ plugs \in 0 .. MaxPlugs /\ scans \in 0 .. MaxScans

InQueue(i) == IF tail <= head THEN tail <= i /\ i < head ELSE tail <= i \/ i < head

\* The cells from tail to head hold work and the others hold nothing, so workqueue_run,
\* which stops at the first NULL, never stops early or runs an item twice.
RingOK == \A i \in Cells : InQueue(i) <=> queue[i] # NULL

\* The disk rescan is marked pending exactly as long as somebody will do it: one item in
\* the queue, or one thread about to queue it, taking the mark back, or doing it.
DiskCells == {i \in Cells : queue[i] = DISK}
Doing(t) == \/ th[t].pc \in {"enqueue", "undo", "end"}
            \/ th[t].pc = "detect" /\ th[t].from # "usbscan"
Doers == {t \in Threads : Doing(t)}
PendingIsOwned ==
  /\ pending <=> (DiskCells # {} \/ Doers # {})
  /\ \A i, j \in DiskCells : i = j
  /\ \A t, u \in Doers : t = u
  /\ DiskCells = {} \/ Doers = {}

\* A change that a poll has noticed is followed by a scan, also when the ring was full and
\* the item was refused: the thread looks at the flags itself.
ChangeScanned == \A c \in Controllers : dirty[c] ~> ~dirty[c]

\* When storage devices have come or gone, the disk list is read again, in every run in
\* which the ring never refuses a request: disk_request_rescan does not try again.
Refused == \E t \in Threads : At(t, "undo")
DisksSeen == []~Refused => (stale ~> ~stale)
=============================================================================
