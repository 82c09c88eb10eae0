----------------------------- MODULE ProcProofs -----------------------------
(***************************************************************************)
(* Proofs about Proc for every number of slots, pids and descriptors.      *)
(*                                                                         *)
(* They inherit Proc's atomic operations of the kernel threads.  Of what   *)
(* is proved here, PidsUnique, VforkParentWakes, ForegroundAlive and       *)
(* FdOwnerKnown are lost when a launch is preempted (module Launch).       *)
(*                                                                         *)
(* Good(k) is what every C function of proc.c preserves; there is one      *)
(* lemma per function.  A handler composes functions, so its step          *)
(* preserves Good by composing lemmas; what Return needs to keep the CPU   *)
(* and current_proc in agreement is Lands(k, c).                           *)
(***************************************************************************)
EXTENDS Proc, TLAPS, WellFoundedInduction

PidOK(k) ==
  /\ \A i, j \in Slots : k.proc_table[i].pid = k.proc_table[j].pid
                          => i = j \/ k.proc_table[i].pid = 0
  /\ \A i \in Live(k) : k.proc_table[i].pid # 0
  /\ \A i \in Slots : k.proc_table[i].pid < k.next_pid

RunOK(k) == \A i \in Slots : k.proc_table[i].state = "RUNNING" <=> i = k.current

AddrOK(k) == k.current # NoProc => k.cr3 = page_dir(k, k.current)

VforkOK(k) ==
  \A i \in Slots : k.proc_table[i].state = "BLOCKED" =>
    \E j \in Live(k) : j # i /\ k.proc_table[j].vfork_parent_pid = k.proc_table[i].pid

FgOK(k) == k.foreground_pid # 0 => proc_pid_active(k, k.foreground_pid)

FdOK(k) ==
  \A f \in Files : k.fd_owner[f] # 0 =>
    \E i \in Slots : k.proc_table[i].pid = k.fd_owner[f] /\ k.proc_table[i].state # "UNUSED"

Good(k) == /\ k \in Kernel
           /\ PidOK(k) /\ RunOK(k) /\ AddrOK(k) /\ VforkOK(k) /\ FgOK(k) /\ FdOK(k)

\* The fields Good is about, and the ones that tell where a handler returns to.
SameTable(r, k) == /\ r.proc_table = k.proc_table
                   /\ r.next_pid = k.next_pid /\ r.fd_owner = k.fd_owner
SameRun(r, k) == r.current = k.current /\ r.cr3 = k.cr3
SameFg(r, k) == r.foreground_pid = k.foreground_pid
SameExit(r, k) == /\ r.sched_next = k.sched_next /\ r.to_shell = k.to_shell
                  /\ r.kill_requested_pid = k.kill_requested_pid
                  /\ r.console = k.console /\ r.pending = k.pending /\ r.boot = k.boot

\* Every live process is untouched, and pids are only ever handed out.
Keeps(r, k) == /\ r.next_pid = 1 => k.next_pid = 1
               /\ \A j \in Live(k) : r.proc_table[j] = k.proc_table[j]

\* A record that differs in other fields only is as good.
LEMMA GoodSame ==
  ASSUME NEW k, NEW r \in Kernel, Good(k), SameTable(r, k), SameRun(r, k), SameFg(r, k)
  PROVE  Good(r)
BY DEF Good, SameTable, SameRun, SameFg, PidOK, RunOK, AddrOK, VforkOK, FgOK, FdOK,
       Live, Vacant, page_dir, proc_pid_active

\* What is said about the table and the running process only depends on those fields.
LEMMA TableSame ==
  ASSUME NEW k, NEW r, Good(k), r.proc_table = k.proc_table, r.next_pid = k.next_pid, SameRun(r, k)
  PROVE  Live(r) = Live(k) /\ PidOK(r) /\ RunOK(r) /\ AddrOK(r) /\ VforkOK(r)
<1>1. /\ PidOK(k) /\ RunOK(k) /\ AddrOK(k) /\ VforkOK(k)
      /\ r.current = k.current /\ r.cr3 = k.cr3
  BY DEF Good, SameRun
<1>2. Live(r) = Live(k) BY DEF Live, Vacant
<1>3. PidOK(r) BY <1>1, <1>2 DEF PidOK
<1>4. RunOK(r) BY <1>1 DEF RunOK
<1>5. AddrOK(r) BY <1>1 DEF AddrOK, page_dir
<1>6. VforkOK(r) BY <1>1, <1>2 DEF VforkOK
<1> QED BY <1>2, <1>3, <1>4, <1>5, <1>6

\* The slot that proc_cleanup zeroes is a process record.
LEMMA BlankType == Blank \in Process
BY ProcConstants DEF Blank, Process, States, Pids, ExitCodes

-----------------------------------------------------------------------------
\* A slot that nobody depends on: no running context, blocked parent or foreground pid.
Idle(k, i) == /\ i \in Slots /\ i # k.current
              /\ \/ i \in Vacant(k)
                 \/ k.proc_table[i].vfork_parent_pid = 0 /\ k.proc_table[i].pid # k.foreground_pid

\* proc_cleanup keeps the kernel good when nobody depends on the slot.
LEMMA CleanupGood ==
  ASSUME NEW k, Good(k), NEW i, Idle(k, i)
  PROVE  /\ Good(proc_cleanup(k, i))
         /\ proc_cleanup(k, i).proc_table = [k.proc_table EXCEPT ![i] = Blank]
         /\ proc_cleanup(k, i).next_pid = k.next_pid
         /\ SameRun(proc_cleanup(k, i), k) /\ SameFg(proc_cleanup(k, i), k)
         /\ SameExit(proc_cleanup(k, i), k)
<1> DEFINE r == proc_cleanup(k, i)
<1> DEFINE fd == sys_close_fds_for_pid(k.fd_owner, k.proc_table[i].pid)
<1> DEFINE pt == [k.proc_table EXCEPT ![i] = Blank]
<1>0. k \in Kernel /\ i \in Slots /\ k.current # i BY DEF Good, Idle
<1>1. r = [k EXCEPT !.proc_table = pt, !.fd_owner = fd] BY DEF proc_cleanup
<1>2. fd \in [Files -> Pids]
  BY <1>0, ProcConstants DEF Kernel, sys_close_fds_for_pid, Pids
<1>3. pt \in [Slots -> Process] BY <1>0, BlankType DEF Kernel
<1>f. \A f \in Files : fd[f] = IF k.fd_owner[f] = k.proc_table[i].pid THEN 0 ELSE k.fd_owner[f]
  BY DEF sys_close_fds_for_pid
<1>p. /\ \A j \in Slots : j # i => pt[j] = k.proc_table[j]
      /\ pt[i].pid = 0 /\ pt[i].state = "UNUSED"
  BY <1>0 DEF Kernel, Blank
<1> HIDE DEF fd, pt, r
<1>4. r \in Kernel BY <1>0, <1>1, <1>2, <1>3 DEF Kernel
<1>5. r.proc_table = pt /\ r.fd_owner = fd BY <1>0, <1>1 DEF Kernel
<1>6. r.next_pid = k.next_pid /\ SameRun(r, k) /\ SameFg(r, k)
  BY <1>0, <1>1 DEF Kernel, SameRun, SameFg
<1>7. SameExit(r, k) BY <1>0, <1>1 DEF Kernel, SameExit
<1>8. Live(r) = Live(k) \ {i} BY <1>0, <1>5, <1>p DEF Live, Vacant
<1>9. i \in Live(k) => /\ k.proc_table[i].vfork_parent_pid = 0
                       /\ k.proc_table[i].pid # k.foreground_pid
  BY DEF Idle, Live
<1>10. PidOK(r)
  <2>1. k.next_pid > 0 BY <1>0, ProcConstants DEF Kernel
  <2> QED BY <2>1, <1>0, <1>5, <1>6, <1>p, <1>8, <1>9 DEF Good, PidOK, Live
<1>11. RunOK(r) BY <1>0, <1>5, <1>6, <1>p DEF Good, RunOK, SameRun
<1>12. AddrOK(r)
  <2>1. k.current \in Slots \cup {NoProc} BY <1>0 DEF Kernel
  <2> QED BY <2>1, <1>0, <1>5, <1>6, <1>p DEF Good, AddrOK, SameRun, page_dir
<1>13. VforkOK(r)
  <2> SUFFICES ASSUME NEW b \in Slots, r.proc_table[b].state = "BLOCKED"
               PROVE  \E j \in Live(r) : j # b /\ r.proc_table[j].vfork_parent_pid = r.proc_table[b].pid
    BY DEF VforkOK
  <2>1. b # i /\ r.proc_table[b] = k.proc_table[b] /\ b \in Live(k)
    BY <1>5, <1>p DEF Live, Vacant
  <2>2. PICK j \in Live(k) : j # b /\ k.proc_table[j].vfork_parent_pid = k.proc_table[b].pid
    BY <2>1 DEF Good, VforkOK
  <2>3. k.proc_table[b].pid # 0 BY <2>1 DEF Good, PidOK
  <2>4. j # i BY <1>9, <2>2, <2>3
  <2> QED BY <1>5, <1>p, <1>8, <2>1, <2>2, <2>4 DEF Live
<1>14. FgOK(r) BY <1>5, <1>6, <1>p, <1>8, <1>9 DEF Good, FgOK, SameFg, proc_pid_active, Live
<1>15. FdOK(r) BY <1>0, <1>5, <1>p, <1>f DEF Good, FdOK
<1> QED BY <1>4, <1>5, <1>6, <1>7, <1>10, <1>11, <1>12, <1>13, <1>14, <1>15 DEF Good, r, pt

-----------------------------------------------------------------------------
\* The lowest slot of a nonempty set exists: the loops over the table find it.
LEMMA LeastIn ==
  ASSUME NEW S \in SUBSET Slots, S # {}
  PROVE  Least(S) \in S /\ \A y \in S : Least(S) <= y
<1>1. S \subseteq Nat BY ProcConstants DEF Slots
<1>2. PICK x \in S : \A y \in S : ~(<<y, x>> \in OpToRel(<, Nat))
  BY <1>1, NatLessThanWellFounded, WFMin
<1>3. ASSUME NEW y \in S PROVE x <= y
  <2>1. x \in Nat /\ y \in Nat BY <1>1
  <2>2. y < x => <<y, x>> \in OpToRel(<, Nat) BY <2>1 DEF OpToRel
  <2>3. ~(y < x) BY <2>2, <1>2, Zenon
  <2> QED BY <2>1, <2>3
<1> QED BY <1>3 DEF Least

\* A creation that may go ahead has a vacant slot.
LEMMA FirstVacantIn ==
  ASSUME NEW k, CanCreate(k)
  PROVE  FirstVacant(k) \in Vacant(k) /\ FirstVacant(k) \in Slots
BY LeastIn DEF CanCreate, FirstVacant, Vacant

\* Putting a newly numbered process into a cleaned slot.
LEMMA FillGood ==
  ASSUME NEW k, Good(k), NEW i \in Slots, k.proc_table[i] = Blank,
         NEW p \in Process, p.pid = k.next_pid, p.state \in {"UNUSED", "READY"},
         NEW r \in Kernel, r.proc_table = [k.proc_table EXCEPT ![i] = p],
         r.next_pid = k.next_pid + 1, r.fd_owner = k.fd_owner,
         SameRun(r, k), SameFg(r, k)
  PROVE  Good(r)
<1>0. k \in Kernel /\ k.next_pid \in Nat \ {0} BY ProcConstants DEF Good, Kernel
<1>b. Blank.pid = 0 /\ Blank.state = "UNUSED" BY DEF Blank
<1>p. /\ \A j \in Slots : j # i => r.proc_table[j] = k.proc_table[j]
      /\ r.proc_table[i] = p
  BY <1>0 DEF Kernel
<1>1. k.current # i /\ i \notin Live(k) BY <1>b DEF Good, RunOK, Live, Vacant
<1>2. Live(k) \subseteq Live(r) /\ Live(r) \subseteq Live(k) \cup {i}
  BY <1>p, <1>1 DEF Live, Vacant
<1>n. \A j \in Slots : k.proc_table[j].pid \in Nat
  BY <1>0, ProcConstants DEF Kernel, Process, Pids
<1>3. PidOK(r) BY <1>0, <1>n, <1>p, <1>2 DEF Good, PidOK, Live
<1>4. RunOK(r) BY <1>p, <1>1 DEF Good, RunOK, SameRun
<1>5. AddrOK(r)
  <2>1. k.current \in Slots \cup {NoProc} BY <1>0 DEF Kernel
  <2> QED BY <2>1, <1>p, <1>1 DEF Good, AddrOK, SameRun, page_dir
<1>6. VforkOK(r) BY <1>p, <1>1, <1>2 DEF Good, VforkOK, Live
<1>7. FgOK(r) BY <1>p, <1>1, <1>2 DEF Good, FgOK, SameFg, proc_pid_active, Live
<1>8. FdOK(r) BY <1>p, <1>b DEF Good, FdOK
<1> QED BY <1>3, <1>4, <1>5, <1>6, <1>7, <1>8 DEF Good

\* What a creation leaves in its slot is a process record.
LEMMA NewProcessType ==
  ASSUME NEW p \in Pids, NEW kernel \in BOOLEAN, NEW parent \in Pids, NEW mem \in BOOLEAN
  PROVE  /\ new_process(p, kernel, parent, mem) \in Process
         /\ new_process(p, kernel, parent, mem).pid = p
         /\ new_process(p, kernel, parent, mem).state = IF mem THEN "READY" ELSE "UNUSED"
         /\ new_process(p, kernel, parent, mem).vfork_parent_pid = parent
BY ProcConstants DEF new_process, Process, States, ExitCodes

\* Creation: clean the first vacant slot, number it and fill it.
LEMMA PlaceGood ==
  ASSUME NEW k, Good(k), CanCreate(k),
         NEW p \in Process, p.pid = k.next_pid, p.state \in {"UNUSED", "READY"}
  PROVE  /\ Good(place(k, p))
         /\ place(k, p).proc_table = [k.proc_table EXCEPT ![FirstVacant(k)] = p]
         /\ place(k, p).next_pid = k.next_pid + 1
         /\ SameRun(place(k, p), k) /\ SameFg(place(k, p), k) /\ SameExit(place(k, p), k)
<1> DEFINE i == FirstVacant(k)
           c == proc_cleanup(k, i)
           r == place(k, p)
           pt == [c.proc_table EXCEPT ![i] = p]
<1>1. i \in Slots /\ Idle(k, i) BY FirstVacantIn DEF Idle, Good, RunOK, Vacant
<1>2. /\ Good(c) /\ c.proc_table = [k.proc_table EXCEPT ![i] = Blank]
      /\ c.next_pid = k.next_pid /\ SameRun(c, k) /\ SameFg(c, k) /\ SameExit(c, k)
  BY <1>1, CleanupGood
<1>3. k.next_pid \in 1 .. MaxPid /\ k.next_pid + 1 \in 1 .. MaxPid + 1
  BY ProcConstants DEF Good, Kernel, CanCreate
<1>4. /\ c \in Kernel /\ c.proc_table[i] = Blank
      /\ pt \in [Slots -> Process] /\ pt = [k.proc_table EXCEPT ![i] = p]
  BY <1>1, <1>2 DEF Good, Kernel
<1>5. r = [c EXCEPT !.proc_table = pt, !.next_pid = k.next_pid + 1]
  BY <1>2 DEF place
<1> HIDE DEF r, c, i, pt
<1>6. r \in Kernel BY <1>3, <1>4, <1>5 DEF Kernel
<1>7. /\ r.proc_table = pt
      /\ r.next_pid = k.next_pid + 1 /\ r.fd_owner = c.fd_owner
      /\ SameRun(r, c) /\ SameFg(r, c) /\ SameExit(r, c)
  BY <1>4, <1>5 DEF Kernel, SameRun, SameFg, SameExit
<1>8. Good(r) BY <1>1, <1>2, <1>4, <1>6, <1>7, FillGood DEF pt
<1>9. SameRun(r, k) /\ SameFg(r, k) /\ SameExit(r, k)
  BY <1>2, <1>7 DEF SameRun, SameFg, SameExit
<1> QED BY <1>4, <1>7, <1>8, <1>9 DEF r, c, i, pt

\* The pid a creation hands out is a pid, and not 0.
LEMMA NextPidType ==
  ASSUME NEW k, Good(k), CanCreate(k)
  PROVE  k.next_pid \in Pids /\ k.next_pid # 0 /\ 0 \in Pids
BY ProcConstants DEF Good, Kernel, CanCreate, Pids

\* Creating a process leaves everything else alone; if it succeeds the process is alive.
LEMMA CreateGood ==
  ASSUME NEW k, Good(k), NEW kernel \in BOOLEAN, NEW mem \in BOOLEAN
  PROVE  /\ Good(proc_create(k, kernel, mem))
         /\ SameRun(proc_create(k, kernel, mem), k) /\ SameFg(proc_create(k, kernel, mem), k)
         /\ SameExit(proc_create(k, kernel, mem), k) /\ Keeps(proc_create(k, kernel, mem), k)
         /\ CanCreate(k) /\ mem =>
              /\ proc_pid_active(proc_create(k, kernel, mem), k.next_pid)
              /\ proc_create(k, kernel, mem).proc_table =
                   [k.proc_table EXCEPT ![FirstVacant(k)] = new_process(k.next_pid, kernel, 0, mem)]
<1> DEFINE r == proc_create(k, kernel, mem)
           p == new_process(k.next_pid, kernel, 0, mem)
           i == FirstVacant(k)
<1>1. CASE CanCreate(k)
  <2>1. r = place(k, p) BY <1>1 DEF proc_create
  <2>2. p \in Process /\ p.pid = k.next_pid /\ p.state = IF mem THEN "READY" ELSE "UNUSED"
    BY <1>1, NextPidType, NewProcessType
  <2> HIDE DEF r, p, i
  <2>3. /\ Good(r) /\ SameRun(r, k) /\ SameFg(r, k) /\ SameExit(r, k)
        /\ r.proc_table = [k.proc_table EXCEPT ![i] = p] /\ r.next_pid = k.next_pid + 1
    BY <1>1, <2>1, <2>2, PlaceGood DEF i
  <2>4. i \in Slots /\ i \in Vacant(k) BY <1>1, FirstVacantIn DEF i
  <2>5. r.proc_table[i] = p BY <2>3, <2>4 DEF Good, Kernel
  <2>6. mem => proc_pid_active(r, k.next_pid)
    BY <1>1, <2>2, <2>4, <2>5, NextPidType DEF proc_pid_active, Live, Vacant
  <2>7. Keeps(r, k)
    <3>1. k.next_pid \in Nat \ {0} BY ProcConstants DEF Good, Kernel
    <3>2. \A j \in Live(k) : j # i BY <2>4 DEF Live
    <3> QED BY <2>3, <2>4, <3>1, <3>2 DEF Keeps, Live, Good, Kernel
  <2> QED BY <2>3, <2>6, <2>7 DEF r, p, i
<1>2. CASE ~CanCreate(k)
  BY <1>2 DEF proc_create, SameRun, SameFg, SameExit, Keeps
<1> QED BY <1>1, <1>2

\* bin_create_process: the same, also when the image cannot be loaded and the slot is
\* cleaned again.
LEMMA BinCreateGood ==
  ASSUME NEW k, Good(k), NEW mem \in BOOLEAN, NEW load \in BOOLEAN
  PROVE  /\ Good(bin_create_process(k, mem, load))
         /\ SameRun(bin_create_process(k, mem, load), k)
         /\ SameFg(bin_create_process(k, mem, load), k)
         /\ SameExit(bin_create_process(k, mem, load), k)
         /\ Keeps(bin_create_process(k, mem, load), k)
         /\ CanCreate(k) /\ mem /\ load =>
              proc_pid_active(bin_create_process(k, mem, load), k.next_pid)
<1> DEFINE c == proc_create(k, FALSE, mem)
           r == bin_create_process(k, mem, load)
           i == FirstVacant(k)
<1>1. CASE ~(CanCreate(k) /\ mem /\ ~load)
  <2>1. r = c BY <1>1 DEF bin_create_process
  <2> QED BY <1>1, <2>1, CreateGood
<1>2. CASE CanCreate(k) /\ mem /\ ~load
  \* Nobody depends on the new process yet, so its slot can be cleaned.
  <2> DEFINE p == new_process(k.next_pid, FALSE, 0, mem)
  <2>1. r = proc_cleanup(c, i) BY <1>2 DEF bin_create_process
  <2>2. i \in Slots /\ i \in Vacant(k) BY <1>2, FirstVacantIn
  <2>3. /\ Good(c) /\ SameRun(c, k) /\ SameFg(c, k) /\ SameExit(c, k)
        /\ c.proc_table = [k.proc_table EXCEPT ![i] = p] /\ Keeps(c, k)
    BY <1>2, CreateGood
  <2>4. p.vfork_parent_pid = 0 /\ p.pid = k.next_pid BY DEF new_process
  <2> HIDE DEF p, c, i, r
  <2>5. c.proc_table[i] = p BY <2>2, <2>3 DEF Good, Kernel
  <2>6. c.current # i BY <2>2, <2>3 DEF Good, RunOK, SameRun, Vacant
  <2>7. k.foreground_pid # k.next_pid
    <3>1. k.next_pid # 0 BY <1>2, NextPidType
    <3>2. \A j \in Slots : k.proc_table[j].pid \in Nat /\ k.next_pid \in Nat
      BY ProcConstants DEF Good, Kernel, Process, Pids
    <3> QED BY <3>1, <3>2 DEF Good, FgOK, PidOK, proc_pid_active, Live
  <2>8. Idle(c, i) BY <2>2, <2>3, <2>4, <2>5, <2>6, <2>7 DEF Idle, SameFg
  <2>9. /\ Good(r) /\ SameRun(r, c) /\ SameFg(r, c) /\ SameExit(r, c)
        /\ r.proc_table = [c.proc_table EXCEPT ![i] = Blank] /\ r.next_pid = c.next_pid
    BY <2>1, <2>3, <2>8, CleanupGood
  <2>10. SameRun(r, k) /\ SameFg(r, k) /\ SameExit(r, k)
    BY <2>3, <2>9 DEF SameRun, SameFg, SameExit
  <2>11. Keeps(r, k)
    <3>1. \A j \in Live(k) : j # i BY <2>2 DEF Live
    <3>2. c.proc_table \in [Slots -> Process] BY <2>3 DEF Good, Kernel
    <3> QED BY <2>2, <2>3, <2>9, <3>1, <3>2 DEF Keeps, Live
  <2> QED BY <1>2, <2>9, <2>10, <2>11 DEF r
<1> QED BY <1>1, <1>2

\* proc_start_sysmgr_watchdog creates at most one thread and touches nothing else.
LEMMA WatchdogGood ==
  ASSUME NEW k, Good(k), NEW mem \in BOOLEAN
  PROVE  LET r == proc_start_sysmgr_watchdog(k, mem) IN
         Good(r) /\ SameRun(r, k) /\ SameFg(r, k) /\ SameExit(r, k) /\ Keeps(r, k)
<1> DEFINE c == proc_create(k, TRUE, mem)
           w == IF CanCreate(k) /\ mem THEN k.next_pid ELSE c.watchdog_pid
           s == [c EXCEPT !.watchdog_pid = w]
           r == proc_start_sysmgr_watchdog(k, mem)
<1>1. Good(c) /\ SameRun(c, k) /\ SameFg(c, k) /\ SameExit(c, k) /\ Keeps(c, k) BY CreateGood
<1>2. w \in Pids BY <1>1, NextPidType DEF Good, Kernel
<1>3. r = k \/ r = s BY DEF proc_start_sysmgr_watchdog
<1> HIDE DEF c, w, r
<1>4. s \in Kernel /\ SameTable(s, c) /\ SameRun(s, c) /\ SameFg(s, c) /\ SameExit(s, c)
  BY <1>1, <1>2 DEF Good, Kernel, SameTable, SameRun, SameFg, SameExit
<1> HIDE DEF s
<1>5. Good(s) BY <1>1, <1>4, GoodSame
<1> QED BY <1>1, <1>3, <1>4, <1>5 DEF r, SameTable, SameRun, SameFg, SameExit, Keeps

\* proc_start_reaper creates at most two threads and touches nothing else.
LEMMA StartReaperGood ==
  ASSUME NEW k, Good(k), NEW mem \in BOOLEAN, NEW mem2 \in BOOLEAN
  PROVE  LET r == proc_start_reaper(k, mem, mem2) IN
         Good(r) /\ SameRun(r, k) /\ SameFg(r, k) /\ SameExit(r, k) /\ Keeps(r, k)
<1> DEFINE c == proc_create(k, TRUE, mem)
           s == [c EXCEPT !.reaper_enabled = TRUE, !.reaper_pid = k.next_pid]
           r == proc_start_reaper(k, mem, mem2)
<1>1. Good(c) /\ SameRun(c, k) /\ SameFg(c, k) /\ SameExit(c, k) /\ Keeps(c, k) BY CreateGood
<1>2. \/ r = c
      \/ r = proc_start_sysmgr_watchdog(k, mem2)
      \/ CanCreate(k) /\ r = proc_start_sysmgr_watchdog(s, mem2)
  BY DEF proc_start_reaper
<1> HIDE DEF c, r
<1>3. ASSUME CanCreate(k)
      PROVE  Good(s) /\ SameRun(s, k) /\ SameFg(s, k) /\ SameExit(s, k) /\ Keeps(s, k)
  <2>1. s \in Kernel /\ SameTable(s, c) /\ SameRun(s, c) /\ SameFg(s, c) /\ SameExit(s, c)
    BY <1>1, <1>3, NextPidType DEF Good, Kernel, SameTable, SameRun, SameFg, SameExit
  <2> HIDE DEF s
  <2> QED BY <1>1, <2>1, GoodSame DEF SameTable, SameRun, SameFg, SameExit, Keeps
<1> HIDE DEF s
<1>4. CASE CanCreate(k) /\ r = proc_start_sysmgr_watchdog(s, mem2)
  <2>1. Good(r) /\ SameRun(r, s) /\ SameFg(r, s) /\ SameExit(r, s) /\ Keeps(r, s)
    BY <1>3, <1>4, WatchdogGood
  <2>2. Live(k) \subseteq Live(s) BY <1>3, <1>4 DEF Keeps, Live, Vacant
  <2> QED BY <1>3, <1>4, <2>1, <2>2 DEF r, SameRun, SameFg, SameExit, Keeps
<1> QED BY <1>1, <1>2, <1>4, WatchdogGood DEF r

-----------------------------------------------------------------------------
\* The scan finds a runnable slot.
LEMMA FindNextIn ==
  ASSUME NEW k, NEW start
  PROVE  LET n == proc_find_next(k, start) IN
         n # NoProc => n \in Slots /\ n \in Runnable(k)
<1>1. Runnable(k) \in SUBSET Slots BY DEF Runnable
<1>2. {i \in Runnable(k) : i > start} \in SUBSET Slots BY <1>1
<1> QED BY <1>1, <1>2, LeastIn DEF proc_find_next

\* Reaping cleans EXITED slots only, and not the one whose stack is in use.
LEMMA ReapGood ==
  ASSUME NEW k, Good(k), NEW c
  PROVE  LET r == proc_reap(k, c) IN
         /\ Good(r) /\ SameRun(r, k) /\ SameFg(r, k) /\ SameExit(r, k)
         /\ r.next_pid = k.next_pid
         /\ \A j \in Slots : \/ r.proc_table[j] = k.proc_table[j]
                              \/ /\ r.proc_table[j] = Blank /\ j # c
                                 /\ k.proc_table[j].state = "EXITED"
<1> DEFINE dead == {i \in Slots \ {k.current, c} : k.proc_table[i].state = "EXITED"}
           gone == {k.proc_table[i].pid : i \in dead}
           pt == [i \in Slots |-> IF i \in dead THEN Blank ELSE k.proc_table[i]]
           fd == [f \in Files |-> IF k.fd_owner[f] \in gone THEN 0 ELSE k.fd_owner[f]]
           rp == IF k.reaper_pid \in gone THEN 0 ELSE k.reaper_pid
           wp == IF k.watchdog_pid \in gone THEN 0 ELSE k.watchdog_pid
           r == proc_reap(k, c)
<1>0. k \in Kernel BY DEF Good
<1>1. r = [k EXCEPT !.proc_table = pt, !.fd_owner = fd, !.reaper_pid = rp, !.watchdog_pid = wp]
  BY DEF proc_reap
<1>2. pt \in [Slots -> Process] BY <1>0, BlankType DEF Kernel
<1>3. fd \in [Files -> Pids] /\ rp \in Pids /\ wp \in Pids
  BY <1>0, ProcConstants DEF Kernel, Pids
<1>4. /\ \A j \in Slots : j \notin dead => pt[j] = k.proc_table[j]
      /\ \A j \in dead : j \in Slots /\ pt[j] = Blank /\ j # c /\ j # k.current
      /\ \A j \in dead : k.proc_table[j].state = "EXITED" /\ k.proc_table[j].pid \in gone
  <2>1. \A j \in dead : j \in Slots /\ j # c /\ j # k.current /\ k.proc_table[j].state = "EXITED"
    OBVIOUS
  <2>2. \A j \in dead : k.proc_table[j].pid \in gone OBVIOUS
  <2> HIDE DEF dead, gone
  <2> QED BY <2>1, <2>2
<1>5. \A f \in Files : fd[f] = 0 \/ (fd[f] = k.fd_owner[f] /\ k.fd_owner[f] \notin gone)
  <2> HIDE DEF gone
  <2> QED OBVIOUS
<1> HIDE DEF dead, gone, pt, fd, rp, wp, r
<1>6. r \in Kernel BY <1>0, <1>1, <1>2, <1>3 DEF Kernel
<1>7. r.proc_table = pt /\ r.fd_owner = fd BY <1>0, <1>1 DEF Kernel
<1>8. r.next_pid = k.next_pid /\ SameRun(r, k) /\ SameFg(r, k) /\ SameExit(r, k)
  BY <1>0, <1>1 DEF Kernel, SameRun, SameFg, SameExit
<1>b. Blank.pid = 0 /\ Blank.state = "UNUSED" BY DEF Blank
<1>9. Live(r) = Live(k) BY <1>4, <1>7, <1>b DEF Live, Vacant
<1>l. \A j \in Live(k) : j \in Slots /\ j \notin dead BY <1>4 DEF Live, Vacant
<1>10. PidOK(r)
  <2>1. k.next_pid > 0 BY <1>0, ProcConstants DEF Kernel
  <2> QED BY <2>1, <1>4, <1>7, <1>8, <1>9, <1>b, <1>l DEF Good, PidOK
<1>11. RunOK(r) BY <1>4, <1>7, <1>8, <1>b DEF Good, RunOK, SameRun
<1>12. AddrOK(r)
  <2>1. k.current \in Slots \cup {NoProc} BY <1>0 DEF Kernel
  <2> QED BY <2>1, <1>4, <1>7, <1>8 DEF Good, AddrOK, SameRun, page_dir
<1>13. VforkOK(r) BY <1>4, <1>7, <1>9, <1>b, <1>l DEF Good, VforkOK
<1>14. FgOK(r) BY <1>4, <1>7, <1>8, <1>9, <1>l DEF Good, FgOK, SameFg, proc_pid_active
<1>15. FdOK(r) BY <1>4, <1>5, <1>7 DEF Good, FdOK
<1> QED BY <1>4, <1>6, <1>7, <1>8, <1>10, <1>11, <1>12, <1>13, <1>14, <1>15 DEF Good, r

\* Switching to a runnable slot: what it does to each slot, and that it keeps Good.
LEMMA SwitchGood ==
  ASSUME NEW k, Good(k), NEW n \in Slots, k.proc_table[n].state \in {"READY", "RUNNING"}
  PROVE  LET r == switch_to(k, n) IN
         /\ Good(r) /\ r.current = n /\ SameFg(r, k) /\ SameExit(r, k)
         /\ r.next_pid = k.next_pid /\ r.fd_owner = k.fd_owner /\ Live(r) = Live(k)
         /\ \A j \in Slots :
              /\ r.proc_table[j].pid = k.proc_table[j].pid
              /\ r.proc_table[j].vfork_parent_pid = k.proc_table[j].vfork_parent_pid
              /\ j # n /\ j # k.current => r.proc_table[j].state = k.proc_table[j].state
<1> DEFINE st(j) == IF j = n THEN "RUNNING"
                    ELSE IF j = k.current /\ k.proc_table[j].state = "RUNNING" THEN "READY"
                    ELSE k.proc_table[j].state
           pt == [j \in Slots |-> [k.proc_table[j] EXCEPT !.state = st(j)]]
           r == switch_to(k, n)
<1>0. k \in Kernel /\ k.proc_table \in [Slots -> Process] BY DEF Good, Kernel
<1>1. r = [k EXCEPT !.proc_table = pt, !.current = n, !.cr3 = page_dir(k, n)]
  BY Zenon DEF switch_to
<1>2. ASSUME NEW j \in Slots
      PROVE  /\ pt[j] \in Process /\ pt[j].state = st(j)
             /\ pt[j].pid = k.proc_table[j].pid
             /\ pt[j].is_kernel = k.proc_table[j].is_kernel
             /\ pt[j].vfork_parent_pid = k.proc_table[j].vfork_parent_pid
  <2>1. k.proc_table[j] \in Process BY <1>0
  <2>2. st(j) \in States BY <2>1 DEF Process, States
  <2>3. pt[j] = [k.proc_table[j] EXCEPT !.state = st(j)] OBVIOUS
  <2> HIDE DEF pt, st
  <2> QED BY <2>1, <2>2, <2>3 DEF Process
<1>3. pt \in [Slots -> Process] BY <1>2
<1>4. page_dir(k, n) \in Pids BY <1>0, ProcConstants DEF page_dir, Process, Pids
<1>s. \A j \in Slots : /\ st(j) = "RUNNING" <=> j = n
                       /\ st(j) \in {"UNUSED", "EXITED"} <=> k.proc_table[j].state \in {"UNUSED", "EXITED"}
                       /\ st(j) = "BLOCKED" => k.proc_table[j].state = "BLOCKED"
                       /\ st(j) = "UNUSED" => k.proc_table[j].state = "UNUSED"
                       /\ j # n /\ j # k.current => st(j) = k.proc_table[j].state
  BY DEF Good, RunOK
<1> HIDE DEF pt, r, st
<1>5. r \in Kernel BY <1>0, <1>1, <1>3, <1>4 DEF Kernel
<1>6. /\ r.proc_table = pt /\ r.current = n /\ r.cr3 = page_dir(k, n)
      /\ r.next_pid = k.next_pid /\ r.fd_owner = k.fd_owner /\ SameFg(r, k)
  BY <1>0, <1>1 DEF Kernel, SameFg
<1>7. SameExit(r, k) BY <1>0, <1>1 DEF Kernel, SameExit
<1>8. Live(r) = Live(k) BY <1>2, <1>6, <1>s DEF Live, Vacant
<1>9. PidOK(r) BY <1>2, <1>6, <1>8 DEF Good, PidOK, Live
<1>10. RunOK(r) BY <1>2, <1>6, <1>s DEF RunOK
<1>11. AddrOK(r) BY <1>2, <1>6 DEF AddrOK, page_dir
<1>12. VforkOK(r) BY <1>2, <1>6, <1>8, <1>s DEF Good, VforkOK, Live
<1>13. FgOK(r) BY <1>2, <1>6, <1>8 DEF Good, FgOK, SameFg, proc_pid_active, Live
<1>14. FdOK(r) BY <1>2, <1>6, <1>s DEF Good, FdOK
<1> QED BY <1>2, <1>5, <1>6, <1>7, <1>8, <1>9, <1>10, <1>11, <1>12, <1>13, <1>14, <1>s DEF Good, r

\* Saving the interrupted context changes nothing that Good is about.
LEMMA SaveGood ==
  ASSUME NEW k, Good(k)
  PROVE  LET r == save_context(k) IN
         /\ Good(r) /\ SameRun(r, k) /\ SameFg(r, k) /\ SameExit(r, k)
         /\ r.next_pid = k.next_pid /\ r.fd_owner = k.fd_owner
         /\ \A j \in Slots : /\ r.proc_table[j].pid = k.proc_table[j].pid
                             /\ r.proc_table[j].is_kernel = k.proc_table[j].is_kernel
                             /\ r.proc_table[j].state = k.proc_table[j].state
                             /\ r.proc_table[j].vfork_parent_pid = k.proc_table[j].vfork_parent_pid
<1> DEFINE c == k.current
           p == [k.proc_table[c] EXCEPT !.ctx = TRUE]
           pt == [k.proc_table EXCEPT ![c] = p]
           r == save_context(k)
<1>0. k \in Kernel BY DEF Good
<1>1. CASE c = NoProc
  BY <1>1 DEF save_context, SameRun, SameFg, SameExit
<1>2. CASE c # NoProc
  <2>1. c \in Slots /\ k.proc_table \in [Slots -> Process] BY <1>0, <1>2 DEF Kernel
  <2>2. r = [k EXCEPT !.proc_table = pt] BY <1>2 DEF save_context
  <2>3. /\ p \in Process /\ p.pid = k.proc_table[c].pid /\ p.is_kernel = k.proc_table[c].is_kernel
        /\ p.state = k.proc_table[c].state
        /\ p.vfork_parent_pid = k.proc_table[c].vfork_parent_pid
    BY <2>1 DEF Process
  <2> HIDE DEF p, r
  <2>4. /\ pt \in [Slots -> Process] /\ pt[c] = p
        /\ \A j \in Slots : j # c => pt[j] = k.proc_table[j]
    BY <2>1, <2>3
  <2> HIDE DEF pt
  <2>5. r \in Kernel /\ r.proc_table = pt BY <1>0, <2>2, <2>4 DEF Kernel
  <2>6. /\ SameRun(r, k) /\ SameFg(r, k) /\ SameExit(r, k)
        /\ r.next_pid = k.next_pid /\ r.fd_owner = k.fd_owner
    BY <1>0, <2>2 DEF Kernel, SameRun, SameFg, SameExit
  <2>7. \A j \in Slots : /\ r.proc_table[j].pid = k.proc_table[j].pid
                         /\ r.proc_table[j].is_kernel = k.proc_table[j].is_kernel
                         /\ r.proc_table[j].state = k.proc_table[j].state
                         /\ r.proc_table[j].vfork_parent_pid = k.proc_table[j].vfork_parent_pid
    BY <2>3, <2>4, <2>5
  <2>8. Live(r) = Live(k) BY <2>7 DEF Live, Vacant
  <2>9. PidOK(r) /\ RunOK(r) /\ FdOK(r)
    BY <2>6, <2>7, <2>8 DEF Good, PidOK, RunOK, FdOK, SameRun, Live
  <2>10. AddrOK(r) /\ VforkOK(r) /\ FgOK(r)
    BY <2>1, <2>6, <2>7, <2>8 DEF Good, AddrOK, VforkOK, FgOK, SameRun, SameFg, page_dir,
                             proc_pid_active, Live
  <2> QED BY <2>5, <2>6, <2>7, <2>9, <2>10 DEF Good, r
<1> QED BY <1>1, <1>2

-----------------------------------------------------------------------------
\* proc_schedule either leaves the current process running or makes another one current
\* and its context the one to resume; it does not clean the slot of stack c.
LEMMA ScheduleGood ==
  ASSUME NEW k, Good(k), NEW save \in BOOLEAN, NEW c
  PROVE  LET r == proc_schedule(k, save, c) IN
         /\ Good(r) /\ SameFg(r, k) /\ r.next_pid = k.next_pid
         /\ r.to_shell = k.to_shell /\ r.kill_requested_pid = k.kill_requested_pid
         /\ r.console = k.console /\ r.pending = k.pending /\ r.boot = k.boot
         /\ \/ r.sched_next = k.sched_next /\ r.current = k.current
            \/ r.sched_next = r.current /\ r.current \in Slots
         /\ c \in Slots => r.proc_table[c].pid = k.proc_table[c].pid
<1> DEFINE q == IF k.reaper_enabled THEN k ELSE proc_reap(k, c)
           n == proc_find_next(q, q.current)
           s == IF save THEN save_context(q) ELSE q
           w == switch_to(s, n)
           r == proc_schedule(k, save, c)
<1>1. /\ Good(q) /\ SameRun(q, k) /\ SameFg(q, k) /\ SameExit(q, k) /\ q.next_pid = k.next_pid
      /\ c \in Slots => q.proc_table[c].pid = k.proc_table[c].pid
  BY ReapGood DEF SameRun, SameFg, SameExit
<1>2. r = IF n = NoProc \/ n = q.current THEN q ELSE [w EXCEPT !.sched_next = n]
  BY DEF proc_schedule
<1> HIDE DEF q
<1>3. /\ Good(s) /\ SameRun(s, q) /\ SameFg(s, q) /\ SameExit(s, q) /\ s.next_pid = q.next_pid
      /\ \A j \in Slots : /\ s.proc_table[j].pid = q.proc_table[j].pid
                          /\ s.proc_table[j].state = q.proc_table[j].state
  BY <1>1, SaveGood DEF SameRun, SameFg, SameExit
<1>4. CASE n = NoProc \/ n = q.current
  BY <1>1, <1>2, <1>4 DEF SameRun, SameFg, SameExit
<1>5. CASE ~(n = NoProc \/ n = q.current)
  <2>1. n \in Slots /\ q.proc_table[n].state \in {"READY", "RUNNING"}
    BY <1>5, FindNextIn DEF Runnable
  <2> HIDE DEF n, s, r
  <2>2. /\ Good(w) /\ w.current = n /\ SameFg(w, s) /\ SameExit(w, s) /\ w.next_pid = s.next_pid
        /\ \A j \in Slots : w.proc_table[j].pid = s.proc_table[j].pid
    BY <1>3, <2>1, SwitchGood
  <2> HIDE DEF w
  <2>3. r = [w EXCEPT !.sched_next = n] BY <1>2, <1>5
  <2>4. r \in Kernel BY <2>1, <2>2, <2>3 DEF Good, Kernel
  <2>5. /\ SameTable(r, w) /\ SameRun(r, w) /\ SameFg(r, w) /\ r.sched_next = n
        /\ r.to_shell = w.to_shell /\ r.kill_requested_pid = w.kill_requested_pid
        /\ r.console = w.console /\ r.pending = w.pending /\ r.boot = w.boot
    BY <2>2, <2>3 DEF Good, Kernel, SameTable, SameRun, SameFg
  <2>6. Good(r) BY <2>2, <2>4, <2>5, GoodSame
  <2> QED BY <1>1, <1>3, <2>1, <2>2, <2>5, <2>6 DEF SameTable, SameRun, SameFg, SameExit, r
<1> QED BY <1>4, <1>5

-----------------------------------------------------------------------------
\* What waking the vfork parent of slot i does to each slot: a BLOCKED process whose pid
\* slot i names becomes READY, and slot i names no parent any more.
LEMMA WakeFields ==
  ASSUME NEW k \in Kernel, NEW i \in Slots
  PROVE  LET r == proc_wake_vfork_parent(k, i)
             parent == k.proc_table[i].vfork_parent_pid
         IN  /\ r \in Kernel /\ SameRun(r, k) /\ SameFg(r, k) /\ SameExit(r, k)
             /\ r.next_pid = k.next_pid /\ r.fd_owner = k.fd_owner
             /\ r.reap_pending = k.reap_pending /\ r.reaper_enabled = k.reaper_enabled
             /\ r.proc_table[i].vfork_parent_pid = 0
             /\ \A j \in Slots :
                  /\ r.proc_table[j].pid = k.proc_table[j].pid
                  /\ r.proc_table[j].is_kernel = k.proc_table[j].is_kernel
                  /\ j # i => r.proc_table[j].vfork_parent_pid = k.proc_table[j].vfork_parent_pid
                  /\ r.proc_table[j].state =
                       IF parent # 0 /\ k.proc_table[j].pid = parent /\ k.proc_table[j].state = "BLOCKED"
                       THEN "READY" ELSE k.proc_table[j].state
<1> DEFINE parent == k.proc_table[i].vfork_parent_pid
           st(j) == IF k.proc_table[j].pid = parent /\ k.proc_table[j].state = "BLOCKED"
                    THEN "READY" ELSE k.proc_table[j].state
           pt == [j \in Slots |-> [k.proc_table[j] EXCEPT !.state = st(j)]]
           q == [pt EXCEPT ![i].vfork_parent_pid = 0]
           r == proc_wake_vfork_parent(k, i)
<1>0. k.proc_table \in [Slots -> Process] BY DEF Kernel
<1>1. CASE parent = 0
  <2>1. r = k BY <1>1 DEF proc_wake_vfork_parent
  <2> HIDE DEF r
  <2> QED BY <1>1, <2>1 DEF r, SameRun, SameFg, SameExit
<1>2. CASE parent # 0
  <2>1. r = [k EXCEPT !.proc_table = q] BY <1>2, Zenon DEF proc_wake_vfork_parent
  <2>2. ASSUME NEW j \in Slots
        PROVE  /\ pt[j] \in Process /\ pt[j].state = st(j)
               /\ pt[j].pid = k.proc_table[j].pid
               /\ pt[j].is_kernel = k.proc_table[j].is_kernel
               /\ pt[j].vfork_parent_pid = k.proc_table[j].vfork_parent_pid
    <3>1. k.proc_table[j] \in Process BY <1>0
    <3>2. st(j) \in States BY <3>1 DEF Process, States
    <3>3. pt[j] = [k.proc_table[j] EXCEPT !.state = st(j)] OBVIOUS
    <3> HIDE DEF pt, st
    <3> QED BY <3>1, <3>2, <3>3 DEF Process
  <2>3. pt \in [Slots -> Process] BY <2>2
  <2> DEFINE p == [pt[i] EXCEPT !.vfork_parent_pid = 0]
  <2> HIDE DEF pt
  <2>4. /\ p \in Process /\ p.state = pt[i].state /\ p.pid = pt[i].pid
        /\ p.is_kernel = pt[i].is_kernel /\ p.vfork_parent_pid = 0
    BY <2>2, ProcConstants DEF Process, Pids
  <2>5. q = [pt EXCEPT ![i] = p] OBVIOUS
  <2> HIDE DEF q, p, r
  <2>6. /\ q \in [Slots -> Process] /\ q[i] = p
        /\ \A j \in Slots : j # i => q[j] = pt[j]
    BY <2>3, <2>4, <2>5
  <2>7. r \in Kernel /\ r.proc_table = q BY <2>1, <2>6 DEF Kernel
  <2>8. /\ SameRun(r, k) /\ SameFg(r, k) /\ SameExit(r, k)
        /\ r.next_pid = k.next_pid /\ r.fd_owner = k.fd_owner
        /\ r.reap_pending = k.reap_pending /\ r.reaper_enabled = k.reaper_enabled
    BY <2>1 DEF Kernel, SameRun, SameFg, SameExit
  <2> QED BY <1>2, <2>2, <2>4, <2>6, <2>7, <2>8 DEF r
<1> QED BY <1>1, <1>2

\* What ending the process in slot i does.
LEMMA EndFields ==
  ASSUME NEW k \in Kernel, NEW i \in Slots, NEW code \in ExitCodes
  PROVE  LET r == end_process(k, i, code)
             parent == k.proc_table[i].vfork_parent_pid
         IN  /\ r \in Kernel /\ SameRun(r, k) /\ SameExit(r, k)
             /\ r.next_pid = k.next_pid /\ r.fd_owner = k.fd_owner
             /\ r.foreground_pid = IF k.foreground_pid = k.proc_table[i].pid THEN 0
                                   ELSE k.foreground_pid
             /\ r.proc_table[i].state = "EXITED"
             /\ \A j \in Slots :
                  /\ r.proc_table[j].pid = k.proc_table[j].pid
                  /\ r.proc_table[j].is_kernel = k.proc_table[j].is_kernel
                  /\ j # i => r.proc_table[j].vfork_parent_pid = k.proc_table[j].vfork_parent_pid
                  /\ j # i => r.proc_table[j].state =
                       IF parent # 0 /\ k.proc_table[j].pid = parent /\ k.proc_table[j].state = "BLOCKED"
                       THEN "READY" ELSE k.proc_table[j].state
<1> DEFINE e == [k EXCEPT !.proc_table[i].exit_code = code, !.proc_table[i].state = "EXITED"]
           p == [k.proc_table[i] EXCEPT !.exit_code = code, !.state = "EXITED"]
           pt == [k.proc_table EXCEPT ![i] = p]
           v == proc_wake_vfork_parent(e, i)
           fg == IF v.foreground_pid = k.proc_table[i].pid THEN 0 ELSE v.foreground_pid
           rp == v.reap_pending \/ k.reaper_enabled
           r == end_process(k, i, code)
<1>0. k.proc_table \in [Slots -> Process] BY DEF Kernel
<1>1. e = [k EXCEPT !.proc_table = pt] BY <1>0 DEF Kernel
<1>2. /\ p \in Process /\ p.state = "EXITED" /\ p.pid = k.proc_table[i].pid
      /\ p.is_kernel = k.proc_table[i].is_kernel
      /\ p.vfork_parent_pid = k.proc_table[i].vfork_parent_pid
  BY <1>0 DEF Process, States
<1>r. r = [v EXCEPT !.foreground_pid = fg, !.reap_pending = rp]
  BY DEF end_process
<1> HIDE DEF e, p, r
<1>3. /\ pt \in [Slots -> Process] /\ pt[i] = p
      /\ \A j \in Slots : j # i => pt[j] = k.proc_table[j]
  BY <1>0, <1>2
<1> HIDE DEF pt
<1>4. e \in Kernel /\ e.proc_table = pt BY <1>1, <1>3 DEF Kernel
<1>5. /\ SameRun(e, k) /\ SameFg(e, k) /\ SameExit(e, k)
      /\ e.next_pid = k.next_pid /\ e.fd_owner = k.fd_owner
  BY <1>1 DEF Kernel, SameRun, SameFg, SameExit
<1>6. /\ v \in Kernel /\ SameRun(v, e) /\ SameFg(v, e) /\ SameExit(v, e)
      /\ v.next_pid = e.next_pid /\ v.fd_owner = e.fd_owner
      /\ \A j \in Slots :
                  /\ v.proc_table[j].pid = e.proc_table[j].pid
                  /\ v.proc_table[j].is_kernel = e.proc_table[j].is_kernel
                  /\ j # i => v.proc_table[j].vfork_parent_pid = e.proc_table[j].vfork_parent_pid
                  /\ v.proc_table[j].state =
                       IF /\ e.proc_table[i].vfork_parent_pid # 0
                          /\ e.proc_table[j].pid = e.proc_table[i].vfork_parent_pid
                          /\ e.proc_table[j].state = "BLOCKED"
                       THEN "READY" ELSE e.proc_table[j].state
  BY <1>4, WakeFields
<1>7. fg \in Pids /\ rp \in BOOLEAN BY <1>6, ProcConstants DEF Kernel, Pids
<1>f. fg = IF k.foreground_pid = k.proc_table[i].pid THEN 0 ELSE k.foreground_pid
  BY <1>5, <1>6 DEF SameFg
<1> HIDE DEF v, fg, rp
<1>8. r \in Kernel BY <1>6, <1>7, <1>r DEF Kernel
<1>9. /\ SameTable(r, v) /\ SameRun(r, v) /\ SameExit(r, v) /\ r.foreground_pid = fg
  BY <1>6, <1>r DEF Kernel, SameTable, SameRun, SameExit
<1>10. r.proc_table[i].state = "EXITED" BY <1>2, <1>3, <1>4, <1>6, <1>9 DEF SameTable
<1>11. ASSUME NEW j \in Slots
       PROVE  /\ r.proc_table[j].pid = k.proc_table[j].pid
              /\ r.proc_table[j].is_kernel = k.proc_table[j].is_kernel
  BY <1>2, <1>3, <1>4, <1>6, <1>9 DEF SameTable
<1>12. ASSUME NEW j \in Slots, j # i
       PROVE  /\ r.proc_table[j].vfork_parent_pid = k.proc_table[j].vfork_parent_pid
              /\ r.proc_table[j].state =
                   IF /\ k.proc_table[i].vfork_parent_pid # 0
                      /\ k.proc_table[j].pid = k.proc_table[i].vfork_parent_pid
                      /\ k.proc_table[j].state = "BLOCKED"
                   THEN "READY" ELSE k.proc_table[j].state
  BY <1>2, <1>3, <1>4, <1>6, <1>9, <1>12 DEF SameTable
<1>13. SameRun(r, k) /\ SameExit(r, k) /\ r.next_pid = k.next_pid /\ r.fd_owner = k.fd_owner
  BY <1>5, <1>6, <1>9 DEF SameTable, SameRun, SameExit
<1> QED BY <1>8, <1>9, <1>10, <1>11, <1>12, <1>13, <1>f DEF r

\* Ending a live process keeps Good, once it is no longer the current one.
LEMMA EndGood ==
  ASSUME NEW k, Good(k), NEW i \in Live(k), NEW code \in ExitCodes, NEW r \in Kernel,
         SameTable(r, end_process(k, i, code)), SameFg(r, end_process(k, i, code)),
         r.current = (IF i = k.current THEN NoProc ELSE k.current), r.cr3 = k.cr3
  PROVE  Good(r)
<1> DEFINE parent == k.proc_table[i].vfork_parent_pid
<1>0. k \in Kernel /\ i \in Slots BY DEF Good, Live
<1>1. /\ r.next_pid = k.next_pid /\ r.fd_owner = k.fd_owner
      /\ r.foreground_pid = IF k.foreground_pid = k.proc_table[i].pid THEN 0 ELSE k.foreground_pid
      /\ r.proc_table[i].state = "EXITED"
  BY <1>0, EndFields DEF SameTable, SameFg
<1>2. \A j \in Slots :
         /\ r.proc_table[j].pid = k.proc_table[j].pid
         /\ r.proc_table[j].is_kernel = k.proc_table[j].is_kernel
         /\ j # i => r.proc_table[j].vfork_parent_pid = k.proc_table[j].vfork_parent_pid
         /\ j # i => r.proc_table[j].state =
              IF parent # 0 /\ k.proc_table[j].pid = parent /\ k.proc_table[j].state = "BLOCKED"
              THEN "READY" ELSE k.proc_table[j].state
  BY <1>0, EndFields DEF SameTable
<1>3. Live(r) = Live(k) \ {i} BY <1>0, <1>1, <1>2 DEF Live, Vacant
<1>4. PidOK(r) BY SMTT(40), <1>1, <1>2, <1>3 DEF Good, PidOK, Live
<1>5. RunOK(r)
  <2>1. i # NoProc BY <1>0, ProcConstants DEF Slots, NoProc
  <2>2. ASSUME NEW j \in Slots PROVE j # NoProc BY ProcConstants DEF Slots, NoProc
  <2> QED BY <1>0, <1>1, <1>2, <2>1, <2>2 DEF Good, RunOK
<1>6. AddrOK(r)
  <2>1. k.current \in Slots \cup {NoProc} BY <1>0 DEF Kernel
  <2> QED BY <2>1, <1>2 DEF Good, AddrOK, page_dir
<1>7. VforkOK(r)
  <2> SUFFICES ASSUME NEW b \in Slots, r.proc_table[b].state = "BLOCKED"
               PROVE  \E j \in Live(r) : j # b /\ r.proc_table[j].vfork_parent_pid = r.proc_table[b].pid
    BY DEF VforkOK
  <2>1. b # i /\ k.proc_table[b].state = "BLOCKED" BY <1>1, <1>2
  <2>2. b \in Live(k) /\ k.proc_table[b].pid # 0 BY <2>1 DEF Good, PidOK, Live, Vacant
  <2>3. PICK j \in Live(k) : j # b /\ k.proc_table[j].vfork_parent_pid = k.proc_table[b].pid
    BY <2>1 DEF Good, VforkOK
  <2>4. j # i
    <3>1. parent # k.proc_table[b].pid BY <1>2, <2>1, <2>2
    <3> QED BY <2>3, <3>1
  <2> QED BY <1>2, <1>3, <2>3, <2>4 DEF Live
<1>8. FgOK(r) BY <1>1, <1>2, <1>3 DEF Good, FgOK, proc_pid_active, Live
<1>9. FdOK(r) BY SMTT(40), <1>1, <1>2 DEF Good, FdOK
<1> QED BY <1>4, <1>5, <1>6, <1>7, <1>8, <1>9 DEF Good

\* exit clears current_proc.
LEMMA ExitGood ==
  ASSUME NEW k, Good(k), k.current # NoProc, NEW code \in ExitCodes
  PROVE  LET r == proc_exit(k, code) IN
         /\ Good(r) /\ r.current = NoProc /\ SameExit(r, k) /\ r.next_pid = k.next_pid
         /\ k.foreground_pid # proc_current_pid(k) => SameFg(r, k)
         /\ r.proc_table[k.current].pid = k.proc_table[k.current].pid
<1> DEFINE e == end_process(k, k.current, code)
           r == proc_exit(k, code)
<1>0. k \in Kernel /\ k.current \in Slots /\ k.current \in Live(k)
  BY DEF Good, Kernel, RunOK, Live, Vacant
<1>1. r = [e EXCEPT !.current = NoProc] BY DEF proc_exit
<1>2. /\ e \in Kernel /\ SameRun(e, k) /\ SameExit(e, k) /\ e.next_pid = k.next_pid
      /\ e.foreground_pid = IF k.foreground_pid = k.proc_table[k.current].pid THEN 0
                            ELSE k.foreground_pid
      /\ e.proc_table[k.current].pid = k.proc_table[k.current].pid
  BY <1>0, EndFields
<1> HIDE DEF e, r
<1>3. r \in Kernel /\ r.current = NoProc /\ r.cr3 = k.cr3 BY <1>1, <1>2 DEF Kernel, SameRun
<1>4. SameTable(r, e) /\ SameFg(r, e) /\ SameExit(r, e)
  BY <1>1, <1>2 DEF Kernel, SameTable, SameFg, SameExit
<1>5. Good(r) BY <1>0, <1>3, <1>4, EndGood DEF e
<1> QED BY <1>2, <1>3, <1>4, <1>5 DEF SameTable, SameFg, SameExit, proc_current_pid, r

-----------------------------------------------------------------------------
\* Where a handler that entered with the CPU in context c returns to is the process it
\* leaves current.
Lands(k, c) ==
  IF k.sched_next # NoProc THEN k.sched_next = k.current
  ELSE IF k.to_shell THEN k.current = NoProc
  ELSE k.current = c

\* The kernel between two handlers.
Quiet(k, c) == Good(k) /\ k.sched_next = NoProc /\ ~k.to_shell /\ k.current = c

\* The end of exit, of a fault and of a kill lands on the next process or in the shell.
LEMMA ExitSwitchGood ==
  ASSUME NEW k, NEW c, Quiet(k, c), c # NoProc, NEW code \in ExitCodes
  PROVE  LET r == exit_and_switch(k, code, c) IN
         /\ Good(r) /\ Lands(r, c) /\ r.kill_requested_pid = k.kill_requested_pid
         /\ r.next_pid = k.next_pid /\ r.pending = k.pending /\ r.console = k.console
         /\ SameFg(r, k) \/ (r.to_shell /\ r.sched_next = NoProc)
         /\ r.proc_table[c].pid = k.proc_table[c].pid
<1> DEFINE e == proc_exit(k, code)
           no == FALSE
           s == proc_schedule(e, no, c)
           r == exit_and_switch(k, code, c)
           es == [e EXCEPT !.to_shell = TRUE]
           ss == [s EXCEPT !.to_shell = TRUE]
<1>0. c \in Slots /\ NoProc \notin Slots BY ProcConstants DEF Quiet, Good, Kernel, Slots, NoProc
<1>1. r = IF k.foreground_pid = proc_current_pid(k) THEN es
          ELSE IF s.current = NoProc THEN ss ELSE s
  BY DEF exit_and_switch
<1>2. /\ Good(e) /\ e.current = NoProc /\ SameExit(e, k) /\ e.next_pid = k.next_pid
      /\ k.foreground_pid # proc_current_pid(k) => SameFg(e, k)
      /\ e.proc_table[c].pid = k.proc_table[c].pid
  BY ExitGood DEF Quiet
<1>n. no \in BOOLEAN OBVIOUS
<1> HIDE DEF e, r, no
<1>3. /\ Good(s) /\ SameFg(s, e) /\ s.next_pid = e.next_pid
      /\ s.to_shell = e.to_shell /\ s.kill_requested_pid = e.kill_requested_pid
      /\ s.console = e.console /\ s.pending = e.pending
      /\ \/ s.sched_next = e.sched_next /\ s.current = e.current
         \/ s.sched_next = s.current /\ s.current \in Slots
      /\ s.proc_table[c].pid = e.proc_table[c].pid
  BY SMTT(40), <1>0, <1>2, <1>n, ScheduleGood
<1> HIDE DEF s
<1>4. /\ es \in Kernel /\ SameTable(es, e) /\ SameRun(es, e) /\ SameFg(es, e) /\ es.to_shell
      /\ es.sched_next = e.sched_next /\ es.kill_requested_pid = e.kill_requested_pid
      /\ es.console = e.console /\ es.pending = e.pending
  BY <1>2 DEF Good, Kernel, SameTable, SameRun, SameFg
<1>5. /\ ss \in Kernel /\ SameTable(ss, s) /\ SameRun(ss, s) /\ SameFg(ss, s) /\ ss.to_shell
      /\ ss.sched_next = s.sched_next /\ ss.kill_requested_pid = s.kill_requested_pid
      /\ ss.console = s.console /\ ss.pending = s.pending
  BY <1>3 DEF Good, Kernel, SameTable, SameRun, SameFg
<1> HIDE DEF es, ss
<1>6. CASE k.foreground_pid = proc_current_pid(k)
  <2>1. Good(es) BY <1>2, <1>4, GoodSame
  <2> QED BY <1>1, <1>2, <1>4, <1>6, <2>1 DEF Quiet, Lands, SameExit, SameRun, SameTable, r
<1>7. CASE k.foreground_pid # proc_current_pid(k) /\ s.current = NoProc
  <2>1. Good(ss) BY <1>3, <1>5, GoodSame
  <2>2. r = ss BY <1>1, <1>7
  <2>3. ss.sched_next = NoProc /\ ss.current = NoProc
    BY <1>0, <1>2, <1>3, <1>5, <1>7 DEF Quiet, SameExit, SameRun
  <2> QED BY <1>2, <1>3, <1>5, <1>7, <2>1, <2>2, <2>3
          DEF Quiet, Lands, SameExit, SameRun, SameTable, SameFg, r
<1>8. CASE k.foreground_pid # proc_current_pid(k) /\ s.current # NoProc
  BY <1>0, <1>1, <1>2, <1>3, <1>8 DEF Quiet, Lands, SameExit, SameRun, SameFg, r
<1> QED BY <1>6, <1>7, <1>8

\* Who has the console: the user, a program to be started, the foreground process, or
\* the shell that the handler returns to.
ConOK(k) == \/ k.console \/ k.pending # {} \/ k.foreground_pid # 0 \/ k.next_pid = 1
            \/ k.to_shell /\ k.sched_next = NoProc

\* The inductive invariant, of the kernel record and of the CPU's context.
Safe(k, c) == /\ Quiet(k, c) /\ k.kill_requested_pid = 0 /\ ConOK(k)
              /\ k.next_pid = 1 => k.boot = "init"

\* What a handler that entered in context c with record k leaves for Return.
Done(r, k, c) == /\ Good(r) /\ Lands(r, c) /\ r.kill_requested_pid = 0 /\ ConOK(r)
                 /\ r.next_pid = 1 => r.boot = "init" /\ ~r.to_shell
                 /\ c # NoProc => r.proc_table[c].pid = k.proc_table[c].pid

\* A handler that only creates or changes records.
LEMMA DonePlain ==
  ASSUME NEW k, NEW c, Safe(k, c), NEW r, Good(r), SameRun(r, k),
         r.sched_next = k.sched_next, r.to_shell = k.to_shell, r.kill_requested_pid = 0,
         ConOK(r), r.next_pid = 1 => r.boot = "init",
         c # NoProc => r.proc_table[c].pid = k.proc_table[c].pid
  PROVE  Done(r, k, c)
BY DEF Done, Safe, Quiet, Lands, SameRun

\* A live process has a pid, so pids have been handed out.
LEMMA Numbered ==
  ASSUME NEW k, NEW c, Safe(k, c), c # NoProc
  PROVE  c \in Slots /\ c \in Live(k) /\ k.proc_table[c].pid # 0 /\ k.next_pid # 1
<1>1. k \in Kernel /\ c \in Slots BY DEF Safe, Quiet, Good, Kernel
<1>2. c \in Live(k) BY <1>1 DEF Safe, Quiet, Good, RunOK, Live, Vacant
<1>3. k.proc_table[c].pid # 0 /\ k.proc_table[c].pid < k.next_pid
  BY <1>1, <1>2 DEF Safe, Quiet, Good, PidOK
<1>4. k.proc_table[c].pid \in Nat BY <1>1, ProcConstants DEF Kernel, Process, Pids
<1> QED BY <1>1, <1>2, <1>3, <1>4

\* A handler that creates processes, entered from a process or from an idle loop that
\* init has left.
LEMMA DoneCreate ==
  ASSUME NEW k, NEW c, Safe(k, c), NEW r, Good(r), SameRun(r, k), SameFg(r, k),
         SameExit(r, k), Keeps(r, k), c # NoProc \/ k.console \/ k.boot # "init"
  PROVE  Done(r, k, c)
<1>1. c # NoProc => r.proc_table[c].pid = k.proc_table[c].pid
  BY Numbered DEF Keeps
<1>2. r.next_pid = 1 => r.boot = "init" BY DEF Keeps, Safe, SameExit
<1>3. ConOK(r)
  <2>1. CASE k.next_pid = 1
    <3>1. k.console BY <2>1, Numbered DEF Safe
    <3> QED BY <3>1 DEF ConOK, SameExit
  <2>2. CASE k.next_pid # 1
    BY <2>2 DEF ConOK, Safe, SameExit, SameFg
  <2> QED BY <2>1, <2>2
<1> QED BY <1>1, <1>2, <1>3, DonePlain DEF SameExit, Safe

-----------------------------------------------------------------------------
\* A kill of another process ends it; a kill of the current one is only a request.
LEMMA KillGood ==
  ASSUME NEW k, NEW c, Safe(k, c), NEW p \in Pids, NEW force \in BOOLEAN
  PROVE  LET r == proc_kill(k, p, force) IN
         /\ Quiet(r, c) /\ r.next_pid = k.next_pid /\ r.boot = k.boot /\ ConOK(r)
         /\ \A j \in Slots : r.proc_table[j].pid = k.proc_table[j].pid
         /\ \/ r.kill_requested_pid = 0
            \/ c # NoProc /\ r.kill_requested_pid = proc_current_pid(r)
<1> DEFINE mine == {i \in Live(k) : k.proc_table[i].pid = p}
           i == Least(mine)
           e == end_process(k, i, 0)
           con == e.console \/ k.foreground_pid = p
           q == [k EXCEPT !.kill_requested_pid = p]
           x == [e EXCEPT !.console = con]
           r == proc_kill(k, p, force)
<1>0. k \in Kernel /\ Good(k) BY DEF Safe, Quiet, Good
<1>1. mine # {} => i \in Slots /\ i \in Live(k) /\ k.proc_table[i].pid = p
  <2>1. mine \in SUBSET Slots BY DEF Live
  <2> QED BY <2>1, LeastIn
<1>2. \/ r = k
      \/ mine # {} /\ i = k.current /\ r = q
      \/ mine # {} /\ i # k.current /\ r = x
  BY DEF proc_kill
<1> HIDE DEF mine, i, r
<1>3. CASE r = k
  BY <1>3 DEF Safe, Quiet, r
<1>4. CASE mine # {} /\ i = k.current /\ r = q
  <2>1. q \in Kernel /\ SameTable(q, k) /\ SameRun(q, k) /\ SameFg(q, k) /\ q.kill_requested_pid = p
    BY <1>0 DEF Kernel, SameTable, SameRun, SameFg
  <2>2. q.sched_next = k.sched_next /\ q.to_shell = k.to_shell /\ q.console = k.console
        /\ q.pending = k.pending /\ q.boot = k.boot
    BY <1>0 DEF Kernel
  <2> HIDE DEF q
  <2>3. Good(q) BY <1>0, <2>1, GoodSame
  <2>4. c # NoProc /\ p = proc_current_pid(q)
    <3>1. i # NoProc BY <1>1, <1>4, ProcConstants DEF Slots, NoProc
    <3> QED BY <1>1, <1>4, <2>1, <3>1 DEF Safe, Quiet, SameTable, SameRun, proc_current_pid
  <2> QED BY <1>4, <2>1, <2>2, <2>3, <2>4 DEF Safe, Quiet, ConOK, SameTable, SameRun, SameFg, r
<1>5. CASE mine # {} /\ i # k.current /\ r = x
  <2>0. 0 \in ExitCodes BY DEF ExitCodes
  <2>1. /\ e \in Kernel /\ SameRun(e, k) /\ SameExit(e, k) /\ e.next_pid = k.next_pid
        /\ e.foreground_pid = IF k.foreground_pid = p THEN 0 ELSE k.foreground_pid
        /\ \A j \in Slots : e.proc_table[j].pid = k.proc_table[j].pid
    BY <1>0, <1>1, <1>5, <2>0, EndFields
  <2>2. con \in BOOLEAN /\ (con <=> k.console \/ k.foreground_pid = p)
    BY <2>1 DEF Kernel, SameExit
  <2> HIDE DEF e, con
  <2>3. x \in Kernel /\ SameTable(x, e) /\ SameRun(x, e) /\ SameFg(x, e) /\ x.console = con
    BY <2>1, <2>2 DEF Kernel, SameTable, SameRun, SameFg
  <2>4. x.sched_next = e.sched_next /\ x.to_shell = e.to_shell /\ x.pending = e.pending
        /\ x.boot = e.boot /\ x.kill_requested_pid = e.kill_requested_pid
    BY <2>1 DEF Kernel
  <2> HIDE DEF x
  <2>5. Good(x) BY <1>0, <1>1, <1>5, <2>0, <2>1, <2>3, EndGood DEF e, SameRun
  <2>6. ConOK(x)
    BY <2>1, <2>2, <2>3, <2>4 DEF Safe, Quiet, ConOK, SameTable, SameFg, SameExit
  <2> QED BY <1>5, <2>1, <2>3, <2>4, <2>5, <2>6
          DEF Safe, Quiet, SameTable, SameRun, SameExit, r
<1> QED BY <1>2, <1>3, <1>4, <1>5

\* The pending request is served at the end of the interrupt that made it.
LEMMA HandleKillGood ==
  ASSUME NEW k, NEW c, Safe(k, c), NEW q, Quiet(q, c), q.next_pid = k.next_pid,
         q.boot = k.boot, ConOK(q),
         \A j \in Slots : q.proc_table[j].pid = k.proc_table[j].pid,
         \/ q.kill_requested_pid = 0
         \/ c # NoProc /\ q.kill_requested_pid = proc_current_pid(q)
  PROVE  Done(proc_handle_kill(q, c), k, c)
<1> DEFINE z == [q EXCEPT !.kill_requested_pid = 0]
           s == exit_and_switch(z, 0, c)
           r == proc_handle_kill(q, c)
<1>0. q \in Kernel /\ Good(q) /\ k \in Kernel BY DEF Safe, Quiet, Good
<1>n. c = NoProc \/ c \in Slots BY <1>0 DEF Quiet, Kernel
<1>1. CASE q.kill_requested_pid = 0
  <2>1. r = q BY <1>1 DEF proc_handle_kill
  <2> QED BY <1>1, <1>n, <2>1 DEF Done, Safe, Quiet, Lands, r
<1>2. CASE q.kill_requested_pid # 0
  <2>1. c # NoProc /\ r = s BY <1>2 DEF proc_handle_kill, Quiet
  <2>2. /\ z \in Kernel /\ SameTable(z, q) /\ SameRun(z, q) /\ SameFg(z, q)
        /\ z.kill_requested_pid = 0
    BY <1>0, ProcConstants DEF Kernel, SameTable, SameRun, SameFg, Pids
  <2>3. /\ z.sched_next = q.sched_next /\ z.to_shell = q.to_shell /\ z.console = q.console
        /\ z.pending = q.pending
    BY <1>0 DEF Kernel
  <2> HIDE DEF z, r
  <2>4. Quiet(z, c) BY <1>0, <2>2, <2>3, GoodSame DEF Quiet, SameRun
  <2>5. 0 \in ExitCodes BY DEF ExitCodes
  <2>6. /\ Good(s) /\ Lands(s, c) /\ s.kill_requested_pid = 0
        /\ s.next_pid = z.next_pid /\ s.pending = z.pending /\ s.console = z.console
        /\ SameFg(s, z) \/ (s.to_shell /\ s.sched_next = NoProc)
        /\ s.proc_table[c].pid = z.proc_table[c].pid
    BY SMTT(40), <2>1, <2>2, <2>4, <2>5, ExitSwitchGood
  <2> HIDE DEF s
  <2>7. ConOK(s) BY <2>2, <2>3, <2>6 DEF ConOK, Quiet, SameTable, SameFg
  <2>8. s.next_pid # 1 BY <2>1, <2>2, <2>6, Numbered DEF SameTable
  <2> QED BY <1>n, <2>1, <2>2, <2>6, <2>7, <2>8 DEF Done, SameTable, r
<1> QED BY <1>1, <1>2

\* exit and a fault of the process that runs.
LEMMA ExitDone ==
  ASSUME NEW k, NEW c, Safe(k, c), c # NoProc, NEW code \in ExitCodes
  PROVE  Done(exit_and_switch(k, code, c), k, c)
<1> DEFINE r == exit_and_switch(k, code, c)
<1>1. /\ Good(r) /\ Lands(r, c) /\ r.kill_requested_pid = k.kill_requested_pid
      /\ r.next_pid = k.next_pid /\ r.pending = k.pending /\ r.console = k.console
      /\ SameFg(r, k) \/ (r.to_shell /\ r.sched_next = NoProc)
      /\ r.proc_table[c].pid = k.proc_table[c].pid
  BY ExitSwitchGood DEF Safe
<1>2. k.next_pid # 1 BY Numbered
<1> HIDE DEF r
<1> QED BY <1>1, <1>2 DEF Done, Safe, ConOK, Quiet, SameFg, r

\* A switch of the CPU, from a record as good as the one the handler entered with.
LEMMA ScheduleDone ==
  ASSUME NEW k, NEW c, Safe(k, c), NEW s, Safe(s, c), s.proc_table = k.proc_table,
         NEW save \in BOOLEAN
  PROVE  Done(proc_schedule(s, save, c), k, c)
<1> DEFINE r == proc_schedule(s, save, c)
<1>1. /\ Good(r) /\ SameFg(r, s) /\ r.next_pid = s.next_pid
      /\ r.to_shell = s.to_shell /\ r.kill_requested_pid = s.kill_requested_pid
      /\ r.console = s.console /\ r.pending = s.pending /\ r.boot = s.boot
      /\ \/ r.sched_next = s.sched_next /\ r.current = s.current
         \/ r.sched_next = r.current /\ r.current \in Slots
      /\ c \in Slots => r.proc_table[c].pid = s.proc_table[c].pid
  BY ScheduleGood DEF Safe, Quiet
<1>2. c # NoProc => c \in Slots BY DEF Safe, Quiet, Good, Kernel
<1>3. NoProc \notin Slots BY ProcConstants DEF Slots, NoProc
<1> HIDE DEF r
<1>4. Lands(r, c) BY <1>1, <1>3 DEF Safe, Quiet, Lands
<1>5. ConOK(r) BY <1>1 DEF Safe, Quiet, ConOK, SameFg
<1> QED BY <1>1, <1>2, <1>4, <1>5 DEF Safe, Quiet, Done, r

\* Ctrl+E kills another process or leaves a request against the current one.
LEMMA KeyboardKillGood ==
  ASSUME NEW k, NEW c, Safe(k, c)
  PROVE  LET r == keyboard_kill(k) IN
         /\ Quiet(r, c) /\ r.next_pid = k.next_pid /\ r.boot = k.boot /\ ConOK(r)
         /\ \A j \in Slots : r.proc_table[j].pid = k.proc_table[j].pid
         /\ \/ r.kill_requested_pid = 0
            \/ c # NoProc /\ r.kill_requested_pid = proc_current_pid(r)
<1> DEFINE no == FALSE
           p == k.foreground_pid
           kl == proc_kill(k, p, no)
           cp == proc_current_pid(k)
           q == [k EXCEPT !.kill_requested_pid = cp]
           r == keyboard_kill(k)
<1>0. k \in Kernel /\ Good(k) /\ p \in Pids BY DEF Safe, Quiet, Good, Kernel
<1>1. no \in BOOLEAN OBVIOUS
<1>2. \/ p # 0 /\ r = kl
      \/ p = 0 /\ k.current # NoProc /\ r = q
      \/ r = k
  BY DEF keyboard_kill, proc_current_is_user
<1> HIDE DEF no, p, r
<1>3. CASE r = kl BY <1>0, <1>1, <1>3, KillGood DEF r
<1>4. CASE k.current # NoProc /\ r = q
  <2>1. cp \in Pids /\ cp = k.proc_table[k.current].pid
    BY <1>0, <1>4 DEF Kernel, Process, proc_current_pid
  <2> HIDE DEF cp
  <2>2. q \in Kernel /\ SameTable(q, k) /\ SameRun(q, k) /\ SameFg(q, k) /\ q.kill_requested_pid = cp
    BY <1>0, <2>1 DEF Kernel, SameTable, SameRun, SameFg
  <2>3. q.sched_next = k.sched_next /\ q.to_shell = k.to_shell /\ q.console = k.console
        /\ q.pending = k.pending /\ q.boot = k.boot
    BY <1>0 DEF Kernel
  <2> HIDE DEF q
  <2>4. Good(q) BY <1>0, <2>2, GoodSame
  <2>5. c # NoProc /\ cp = proc_current_pid(q)
    BY <1>4, <2>1, <2>2 DEF Safe, Quiet, SameTable, SameRun, proc_current_pid
  <2> QED BY <1>4, <2>2, <2>3, <2>4, <2>5 DEF Safe, Quiet, ConOK, SameTable, SameRun, SameFg, r
<1>5. CASE r = k BY <1>5 DEF Safe, Quiet, r
<1> QED BY <1>2, <1>3, <1>4, <1>5

\* The timer counts the slice of the current process and schedules at its end.
LEMMA TimerDone ==
  ASSUME NEW k, NEW c, Safe(k, c)
  PROVE  Done(timer_callback(k, c), k, c)
<1> DEFINE p == proc_current_pid(k)
           t == 1 + IF p = k.slice_pid THEN k.slice_ticks ELSE 0
           tk == (k.tick + 1) % TickMod
           st == IF p = 0 THEN 0 ELSE t % SliceTicks
           s == [k EXCEPT !.tick = tk, !.slice_pid = p, !.slice_ticks = st]
           yes == TRUE
           r == timer_callback(k, c)
<1>0. k \in Kernel BY DEF Safe, Quiet, Good
<1>1. p \in Pids BY <1>0, ProcConstants DEF Kernel, Process, proc_current_pid, Pids
<1>2. tk \in 0 .. TickMod - 1
  <2>1. k.tick + 1 \in Nat BY <1>0, ProcConstants DEF Kernel
  <2> QED BY <2>1, ProcConstants
<1>3. t \in Nat BY <1>0, ProcConstants DEF Kernel
<1> HIDE DEF p, t, tk
<1>4. st \in 0 .. SliceTicks - 1 BY <1>3, ProcConstants
<1>5. r = s \/ r = proc_schedule(s, yes, c) BY DEF timer_callback, p, t, tk
<1> HIDE DEF st
<1>6. s \in Kernel BY <1>0, <1>1, <1>2, <1>4 DEF Kernel
<1>7. SameTable(s, k) /\ SameRun(s, k) /\ SameFg(s, k) /\ SameExit(s, k)
  BY <1>0 DEF Kernel, SameTable, SameRun, SameFg, SameExit
<1>8. yes \in BOOLEAN OBVIOUS
<1> HIDE DEF s, r, yes
<1>9. Good(s) BY <1>6, <1>7, GoodSame DEF Safe, Quiet
<1>10. Safe(s, c) BY <1>7, <1>9 DEF Safe, Quiet, ConOK, SameTable, SameRun, SameFg, SameExit
<1>11. Done(s, k, c)
  BY <1>7, <1>9, <1>10, DonePlain DEF Safe, SameTable, SameRun, SameExit
<1> QED BY <1>5, <1>7, <1>8, <1>10, <1>11, ScheduleDone DEF SameTable, r

\* Blocking a process that is not the current one and has a live child to wake it.
LEMMA BlockGood ==
  ASSUME NEW w, Good(w), NEW c \in Live(w), c # w.current,
         NEW i \in Live(w), i # c, w.proc_table[i].vfork_parent_pid = w.proc_table[c].pid,
         NEW r \in Kernel,
         \A j \in Slots : j # c => r.proc_table[j] = w.proc_table[j],
         r.proc_table[c].state = "BLOCKED",
         r.proc_table[c].pid = w.proc_table[c].pid,
         r.proc_table[c].is_kernel = w.proc_table[c].is_kernel,
         r.proc_table[c].vfork_parent_pid = w.proc_table[c].vfork_parent_pid,
         r.next_pid = w.next_pid, r.fd_owner = w.fd_owner, SameRun(r, w), SameFg(r, w)
  PROVE  /\ Good(r)
         /\ \A j \in Slots : r.proc_table[j].pid = w.proc_table[j].pid
<1>0. c \in Slots /\ i \in Slots BY DEF Live
<1>3. Live(r) = Live(w) BY <1>0 DEF Live, Vacant
<1>4. \A j \in Slots : /\ r.proc_table[j].pid = w.proc_table[j].pid
                       /\ r.proc_table[j].is_kernel = w.proc_table[j].is_kernel
                       /\ r.proc_table[j].vfork_parent_pid = w.proc_table[j].vfork_parent_pid
  BY <1>0
<1>w. PidOK(w) /\ VforkOK(w) BY DEF Good
<1>5. PidOK(r) BY <1>3, <1>4, <1>w DEF PidOK, Live
<1>6. RunOK(r) BY <1>0 DEF Good, RunOK, SameRun
<1>7. AddrOK(r)
  <2>1. w.current \in Slots \cup {NoProc} BY DEF Good, Kernel
  <2> QED BY <2>1, <1>4 DEF Good, AddrOK, SameRun, page_dir
<1>8. VforkOK(r)
  <2> SUFFICES ASSUME NEW b \in Slots, r.proc_table[b].state = "BLOCKED"
               PROVE  \E j \in Live(r) : j # b /\ r.proc_table[j].vfork_parent_pid = r.proc_table[b].pid
    BY DEF VforkOK
  <2>1. CASE b = c BY <1>0, <1>3, <1>4, <2>1
  <2>2. CASE b # c
    <3>1. w.proc_table[b].state = "BLOCKED" BY <2>2
    <3>2. PICK j \in Live(w) : j # b /\ w.proc_table[j].vfork_parent_pid = w.proc_table[b].pid
      BY <1>w, <3>1 DEF VforkOK
    <3>3. j \in Slots BY DEF Live
    <3> QED BY <1>3, <1>4, <3>2, <3>3
  <2> QED BY <2>1, <2>2
<1>9. FgOK(r) BY <1>3, <1>4 DEF Good, FgOK, SameFg, proc_pid_active, Live
<1>10. FdOK(r) BY <1>0, <1>4 DEF Good, FdOK
<1> QED BY <1>4, <1>5, <1>6, <1>7, <1>8, <1>9, <1>10 DEF Good

\* fork makes the child current and blocks the caller, whom the child names.
LEMMA ForkDone ==
  ASSUME NEW k, NEW c, Safe(k, c), c # NoProc, NEW dir \in BOOLEAN, NEW mem \in BOOLEAN
  PROVE  Done(proc_fork(k, dir, mem), k, c)
<1> DEFINE i == FirstVacant(k)
           parent == IF dir THEN k.proc_table[c].pid ELSE 0
           ok == dir /\ mem
           no == FALSE
           p == new_process(k.next_pid, no, parent, ok)
           f == place(k, p)
           sv == save_context(f)
           w == switch_to(sv, i)
           b == [w.proc_table EXCEPT ![c] = [w.proc_table[c] EXCEPT !.state = "BLOCKED"]]
           x == [w EXCEPT !.proc_table = b, !.sched_next = i]
           r == proc_fork(k, dir, mem)
<1>0. k \in Kernel /\ Good(k) /\ k.current = c BY DEF Safe, Quiet, Good
<1>1. c \in Slots /\ c \in Live(k) /\ k.proc_table[c].pid # 0 /\ k.next_pid # 1 BY Numbered
<1>2. parent \in Pids /\ ok \in BOOLEAN /\ no \in BOOLEAN
  BY <1>0, <1>1, ProcConstants DEF Kernel, Process, Pids
<1>3. \/ ~CanCreate(k) /\ r = k
      \/ CanCreate(k) /\ ~ok /\ r = f
      \/ CanCreate(k) /\ ok /\ r = x
  BY <1>0, Zenon DEF proc_fork
<1>4. CASE ~CanCreate(k) /\ r = k
  BY <1>0, <1>4, DonePlain DEF Safe, SameRun, r
<1> HIDE DEF r, no, ok, parent
<1>5. ASSUME CanCreate(k)
      PROVE  /\ Good(f) /\ SameRun(f, k) /\ SameFg(f, k) /\ SameExit(f, k)
             /\ f.next_pid = k.next_pid + 1
             /\ f.proc_table = [k.proc_table EXCEPT ![i] = p]
             /\ p \in Process /\ p.state = (IF ok THEN "READY" ELSE "UNUSED")
             /\ p.vfork_parent_pid = parent
             /\ i \in Slots /\ i # c /\ f.proc_table[i] = p /\ f.proc_table[c] = k.proc_table[c]
  <2>1. /\ p \in Process /\ p.pid = k.next_pid /\ p.vfork_parent_pid = parent
        /\ p.state = (IF ok THEN "READY" ELSE "UNUSED")
    BY <1>2, <1>5, <1>0, NextPidType, NewProcessType
  <2> HIDE DEF p
  <2>2. i \in Slots /\ i # c BY <1>1, <1>5, FirstVacantIn DEF Live
  <2>3. /\ Good(f) /\ SameRun(f, k) /\ SameFg(f, k) /\ SameExit(f, k)
        /\ f.next_pid = k.next_pid + 1
        /\ f.proc_table = [k.proc_table EXCEPT ![i] = p]
    BY <1>0, <1>5, <2>1, PlaceGood
  <2> HIDE DEF f, i
  <2>4. f.proc_table[i] = p /\ f.proc_table[c] = k.proc_table[c]
    BY <1>0, <1>1, <2>2, <2>3 DEF Kernel
  <2> QED BY <2>1, <2>2, <2>3, <2>4
<1>6. CASE CanCreate(k) /\ ~ok /\ r = f
  <2>1. Keeps(f, k)
    <3>1. \A j \in Live(k) : j # i BY <1>6, FirstVacantIn DEF Live
    <3>2. k.next_pid \in Nat \ {0} BY <1>0, ProcConstants DEF Kernel
    <3> HIDE DEF f, p, i
    <3> QED BY <1>0, <1>5, <1>6, <3>1, <3>2 DEF Keeps, Live, Kernel
  <2> HIDE DEF f
  <2> QED BY <1>5, <1>6, <2>1, DoneCreate DEF r
<1>7. CASE CanCreate(k) /\ ok /\ r = x
  <2> HIDE DEF p, i, f
  <2>1. /\ Good(sv) /\ SameRun(sv, f) /\ SameFg(sv, f) /\ SameExit(sv, f)
        /\ sv.next_pid = f.next_pid
        /\ \A j \in Slots : /\ sv.proc_table[j].pid = f.proc_table[j].pid
                            /\ sv.proc_table[j].state = f.proc_table[j].state
                            /\ sv.proc_table[j].vfork_parent_pid = f.proc_table[j].vfork_parent_pid
    BY <1>5, <1>7, SaveGood
  <2> HIDE DEF sv
  <2>2. sv.proc_table[i].state \in {"READY", "RUNNING"} BY <1>5, <1>7, <2>1
  <2>3. /\ Good(w) /\ w.current = i /\ SameFg(w, sv) /\ SameExit(w, sv)
        /\ w.next_pid = sv.next_pid /\ Live(w) = Live(sv)
        /\ \A j \in Slots :
             /\ w.proc_table[j].pid = sv.proc_table[j].pid
             /\ w.proc_table[j].vfork_parent_pid = sv.proc_table[j].vfork_parent_pid
    BY <1>5, <1>7, <2>1, <2>2, SwitchGood
  <2>4. i \in Live(w) /\ c \in Live(w)
    <3>1. sv.proc_table[c].state \notin {"UNUSED", "EXITED"}
      BY <1>1, <1>5, <1>7, <2>1 DEF Live, Vacant
    <3> QED BY <1>1, <1>5, <1>7, <2>2, <2>3, <3>1 DEF Live, Vacant
  <2> HIDE DEF w
  <2>5. w.proc_table[i].vfork_parent_pid = w.proc_table[c].pid
    BY <1>1, <1>5, <1>7, <2>1, <2>3 DEF ok, parent
  <2>6. b \in [Slots -> Process]
    BY <1>1, <2>3 DEF Good, Kernel, Process, States
  <2>b. /\ \A j \in Slots : j # c => b[j] = w.proc_table[j]
        /\ b[c].state = "BLOCKED" /\ b[c].pid = w.proc_table[c].pid
        /\ b[c].is_kernel = w.proc_table[c].is_kernel
        /\ b[c].vfork_parent_pid = w.proc_table[c].vfork_parent_pid
    BY <1>1, <2>3 DEF Good, Kernel, Process
  <2> HIDE DEF b
  <2>7. x \in Kernel BY <1>5, <1>7, <2>3, <2>6 DEF Good, Kernel
  <2>8. /\ x.proc_table = b /\ x.next_pid = w.next_pid /\ x.fd_owner = w.fd_owner
        /\ SameRun(x, w) /\ SameFg(x, w) /\ x.sched_next = i
        /\ x.kill_requested_pid = w.kill_requested_pid /\ x.to_shell = w.to_shell
        /\ x.console = w.console /\ x.pending = w.pending
    BY <2>3 DEF Good, Kernel, SameRun, SameFg
  <2> HIDE DEF x
  <2>9. Good(x) /\ \A j \in Slots : x.proc_table[j].pid = w.proc_table[j].pid
    <3>2. c # w.current /\ i # c BY <1>5, <1>7, <2>3
    <3>3. x.next_pid = w.next_pid /\ x.fd_owner = w.fd_owner BY <2>8
    <3>4. SameRun(x, w) /\ SameFg(x, w) /\ Good(w) BY <2>3, <2>8
    <3> QED BY <2>4, <2>5, <2>7, <2>8, <2>b, <3>2, <3>3, <3>4, BlockGood
  <2>10. Lands(x, c)
    <3>1. i # NoProc BY <1>5, <1>7, ProcConstants DEF Slots, NoProc
    <3> QED BY <2>3, <2>8, <3>1 DEF Lands, SameRun
  <2>11. x.next_pid # 1
    <3>1. k.next_pid \in Nat \ {0} BY <1>0, ProcConstants DEF Kernel
    <3>2. x.next_pid = k.next_pid + 1 BY <1>5, <1>7, <2>1, <2>3, <2>8
    <3> QED BY <3>1, <3>2
  <2>12. ConOK(x)
    BY SMTT(40), <1>1, <1>5, <1>7, <2>1, <2>3, <2>8 DEF Safe, Quiet, ConOK, SameFg, SameExit
  <2>13. x.kill_requested_pid = 0
    BY <1>5, <1>7, <2>1, <2>3, <2>8 DEF Safe, SameExit
  <2>14. x.proc_table[c].pid = k.proc_table[c].pid BY SMTT(40), <1>1, <1>5, <1>7, <2>1, <2>3, <2>9
  <2> QED BY <1>7, <2>9, <2>10, <2>11, <2>12, <2>13, <2>14 DEF Done, r
<1> QED BY <1>3, <1>4, <1>6, <1>7

\* exec wakes the parent and resumes the caller's slot with a new frame.
LEMMA ExecDone ==
  ASSUME NEW k, NEW c, Safe(k, c), c # NoProc
  PROVE  Done(proc_exec(k, c), k, c)
<1> DEFINE v == proc_wake_vfork_parent(k, c)
           parent == k.proc_table[c].vfork_parent_pid
           p == [v.proc_table[c] EXCEPT !.ctx = TRUE]
           pt == [v.proc_table EXCEPT ![c] = p]
           r == proc_exec(k, c)
<1>0. k \in Kernel /\ Good(k) /\ k.current = c BY DEF Safe, Quiet, Good
<1>1. c \in Slots /\ c \in Live(k) /\ k.next_pid # 1 BY Numbered
<1>c. c # NoProc OBVIOUS
<1>2. /\ v \in Kernel /\ SameRun(v, k) /\ SameFg(v, k) /\ SameExit(v, k)
      /\ v.next_pid = k.next_pid /\ v.fd_owner = k.fd_owner
      /\ \A j \in Slots :
           /\ v.proc_table[j].pid = k.proc_table[j].pid
           /\ v.proc_table[j].is_kernel = k.proc_table[j].is_kernel
           /\ j # c => v.proc_table[j].vfork_parent_pid = k.proc_table[j].vfork_parent_pid
           /\ v.proc_table[j].state =
                IF parent # 0 /\ k.proc_table[j].pid = parent /\ k.proc_table[j].state = "BLOCKED"
                THEN "READY" ELSE k.proc_table[j].state
  BY <1>0, <1>1, WakeFields
<1>3. r = [v EXCEPT !.proc_table = pt, !.sched_next = c] BY DEF proc_exec
<1> HIDE DEF v, r
<1>4. v.proc_table \in [Slots -> Process] BY <1>2 DEF Kernel
<1>5. /\ p \in Process /\ p.pid = v.proc_table[c].pid /\ p.state = v.proc_table[c].state
      /\ p.is_kernel = v.proc_table[c].is_kernel
  BY <1>1, <1>4 DEF Process
<1> HIDE DEF p
<1>6. /\ pt \in [Slots -> Process] /\ pt[c] = p
      /\ \A j \in Slots : j # c => pt[j] = v.proc_table[j]
  BY <1>1, <1>4, <1>5
<1> HIDE DEF pt
<1>7. r \in Kernel /\ r.proc_table = pt /\ r.sched_next = c
  BY <1>1, <1>2, <1>3, <1>6 DEF Kernel
<1>8. /\ SameRun(r, v) /\ SameFg(r, v) /\ r.next_pid = v.next_pid /\ r.fd_owner = v.fd_owner
      /\ r.kill_requested_pid = v.kill_requested_pid /\ r.console = v.console
      /\ r.pending = v.pending
  BY <1>2, <1>3 DEF Kernel, SameRun, SameFg
<1>9. \A j \in Slots :
         /\ r.proc_table[j].pid = k.proc_table[j].pid
         /\ r.proc_table[j].is_kernel = k.proc_table[j].is_kernel
         /\ j # c => r.proc_table[j].vfork_parent_pid = k.proc_table[j].vfork_parent_pid
         /\ r.proc_table[j].state =
              IF parent # 0 /\ k.proc_table[j].pid = parent /\ k.proc_table[j].state = "BLOCKED"
              THEN "READY" ELSE k.proc_table[j].state
  <2> SUFFICES ASSUME NEW j \in Slots
               PROVE  /\ r.proc_table[j].pid = v.proc_table[j].pid
                      /\ r.proc_table[j].is_kernel = v.proc_table[j].is_kernel
                      /\ j # c => r.proc_table[j].vfork_parent_pid = v.proc_table[j].vfork_parent_pid
                      /\ r.proc_table[j].state = v.proc_table[j].state
    BY <1>2
  <2>1. CASE j = c BY <1>5, <1>6, <1>7, <2>1
  <2>2. CASE j # c BY <1>6, <1>7, <2>2
  <2> QED BY <2>1, <2>2
<1>10. SameRun(r, k) /\ SameFg(r, k) /\ r.next_pid = k.next_pid /\ r.fd_owner = k.fd_owner
  BY <1>2, <1>8 DEF SameRun, SameFg
<1>11. Live(r) = Live(k) BY <1>9 DEF Live, Vacant
<1>12. PidOK(r) /\ RunOK(r) /\ FdOK(r)
  <2>1. PidOK(k) /\ RunOK(k) /\ FdOK(k) /\ r.current = k.current
    BY <1>10 DEF Safe, Quiet, Good, SameRun
  <2>2. PidOK(r) BY <1>9, <1>10, <1>11, <2>1 DEF PidOK, Live
  <2>3. RunOK(r) BY <1>9, <2>1 DEF RunOK
  <2>4. FdOK(r) BY SMTT(40), <1>9, <1>10, <2>1 DEF FdOK
  <2> QED BY <2>2, <2>3, <2>4
<1>13. AddrOK(r) /\ FgOK(r)
  BY <1>0, <1>1, <1>9, <1>10, <1>11 DEF Good, AddrOK, FgOK, SameRun, SameFg, page_dir, proc_pid_active, Live
<1>14. VforkOK(r)
  <2> SUFFICES ASSUME NEW b \in Slots, r.proc_table[b].state = "BLOCKED"
               PROVE  \E j \in Live(r) : j # b /\ r.proc_table[j].vfork_parent_pid = r.proc_table[b].pid
    BY DEF VforkOK
  <2>1. k.proc_table[b].state = "BLOCKED" BY <1>9
  <2>2. b \in Live(k) /\ k.proc_table[b].pid # 0 BY <1>0, <2>1 DEF Good, PidOK, Live, Vacant
  <2>3. PICK j \in Live(k) : j # b /\ k.proc_table[j].vfork_parent_pid = k.proc_table[b].pid
    BY <1>0, <2>1 DEF Good, VforkOK
  <2>4. j # c
    <3>1. parent # k.proc_table[b].pid BY <1>9, <2>1, <2>2
    <3> QED BY <2>3, <3>1
  <2> QED BY <1>9, <1>11, <2>3, <2>4 DEF Live
<1>15. Good(r) BY <1>7, <1>12, <1>13, <1>14 DEF Good
<1>16. Lands(r, c) BY <1>0, <1>7, <1>10 DEF Lands, SameRun
<1>17. ConOK(r) /\ r.kill_requested_pid = 0
  BY <1>2, <1>8 DEF Safe, Quiet, ConOK, SameFg, SameExit
<1> QED BY <1>1, <1>9, <1>10, <1>15, <1>16, <1>17 DEF Done, r

-----------------------------------------------------------------------------
\* The assembly stub resumes the context the handler left, which is the current one.
LEMMA ReturnSafe ==
  ASSUME NEW k, Safe(kern, cpu), Done(k, kern, cpu), Return(k)
  PROVE  /\ Safe(kern', cpu')
         /\ cpu # NoProc => kern'.proc_table[cpu].pid = kern.proc_table[cpu].pid
<1> DEFINE shell == k.sched_next = NoProc /\ k.to_shell
           bt == IF shell THEN "reaper" ELSE k.boot
           con == k.console \/ shell
<1>0. k \in Kernel /\ Good(k) BY DEF Done, Good
<1>1. /\ cpu' = (IF k.sched_next # NoProc THEN k.sched_next
                 ELSE IF k.to_shell THEN NoProc ELSE cpu)
      /\ kern' = [k EXCEPT !.sched_next = NoProc, !.to_shell = FALSE, !.boot = bt, !.console = con]
  BY DEF Return
<1>2. bt \in {"init", "reaper", "wait"} /\ con \in BOOLEAN BY <1>0 DEF Kernel
<1>3. (con <=> k.console \/ shell) /\ (~shell => bt = k.boot) /\ (shell => k.to_shell)
  BY <1>0 DEF Kernel
<1>s. (shell <=> k.sched_next = NoProc /\ k.to_shell) OBVIOUS
<1> HIDE DEF bt, con, shell
<1>4. kern' \in Kernel /\ SameTable(kern', k) /\ SameRun(kern', k) /\ SameFg(kern', k)
  BY <1>0, <1>1, <1>2 DEF Kernel, SameTable, SameRun, SameFg
<1>5. /\ kern'.sched_next = NoProc /\ kern'.to_shell = FALSE /\ kern'.boot = bt
      /\ kern'.console = con /\ kern'.pending = k.pending
      /\ kern'.kill_requested_pid = k.kill_requested_pid
  BY <1>0, <1>1 DEF Kernel
<1>6. Good(kern') BY <1>0, <1>4, GoodSame
<1>7. kern'.current = cpu' BY <1>1, <1>4 DEF Done, Lands, SameRun
<1>8. ConOK(kern') BY <1>3, <1>s, <1>4, <1>5 DEF Done, ConOK, SameTable, SameFg
<1>9. kern'.next_pid = 1 => kern'.boot = "init" BY <1>3, <1>4, <1>5 DEF Done, SameTable
<1>10. Safe(kern', cpu') BY <1>5, <1>6, <1>7, <1>8, <1>9 DEF Safe, Quiet, Done
<1> QED BY <1>4, <1>10 DEF Done, SameTable

\* open and close change the owner of one descriptor, to the caller or to nobody.
LEMMA FdDone ==
  ASSUME NEW k, NEW c, Safe(k, c), c # NoProc, NEW f \in Files,
         NEW p, p = 0 \/ p = proc_current_pid(k)
  PROVE  Done([k EXCEPT !.fd_owner[f] = p], k, c)
<1> DEFINE fd == [k.fd_owner EXCEPT ![f] = p]
           r == [k EXCEPT !.fd_owner[f] = p]
<1>0. k \in Kernel /\ Good(k) /\ k.current = c BY DEF Safe, Quiet, Good
<1>1. c \in Slots /\ c \in Live(k) BY Numbered
<1>2. p \in Pids /\ (p # 0 => p = k.proc_table[c].pid)
  BY <1>0, <1>1, ProcConstants DEF Kernel, Process, Pids, proc_current_pid
<1>3. r = [k EXCEPT !.fd_owner = fd] OBVIOUS
<1>4. /\ fd \in [Files -> Pids] /\ fd[f] = p
      /\ \A g \in Files : g # f => fd[g] = k.fd_owner[g]
  BY <1>0, <1>2 DEF Kernel
<1> HIDE DEF fd
<1>5. r \in Kernel /\ r.fd_owner = fd /\ r.proc_table = k.proc_table /\ r.next_pid = k.next_pid
  BY <1>0, <1>3, <1>4 DEF Kernel
<1>6. SameRun(r, k) /\ SameFg(r, k) /\ SameExit(r, k)
  BY <1>0, <1>3 DEF Kernel, SameRun, SameFg, SameExit
<1> HIDE DEF r
<1>7. Live(r) = Live(k) BY <1>5 DEF Live, Vacant
<1>8. PidOK(r) /\ RunOK(r) /\ AddrOK(r) /\ VforkOK(r) /\ FgOK(r)
  <2>1. FgOK(k) /\ r.foreground_pid = k.foreground_pid BY <1>0, <1>6 DEF Good, SameFg
  <2>2. FgOK(r) BY <1>5, <1>7, <2>1 DEF FgOK, proc_pid_active
  <2> QED BY <1>0, <1>5, <1>6, <2>2, TableSame
<1>9. FdOK(r)
  <2>1. k.proc_table[c].state # "UNUSED" BY <1>1 DEF Live, Vacant
  <2> QED BY <1>0, <1>1, <1>2, <1>4, <1>5, <2>1 DEF Good, FdOK
<1>10. Good(r) BY <1>5, <1>8, <1>9 DEF Good
<1>11. Keeps(r, k) BY <1>5 DEF Keeps
<1> QED BY <1>6, <1>10, <1>11, DoneCreate DEF r

\* A command line asks for programs and takes the console away.
LEMMA RequestDone ==
  ASSUME NEW k, NEW c, Safe(k, c), k.console, NEW ask \in SUBSET Programs, ask # {}
  PROVE  Done(proc_handle_kill([k EXCEPT !.pending = @ \cup ask, !.console = FALSE], c), k, c)
<1> DEFINE pd == k.pending \cup ask
           r == [k EXCEPT !.pending = pd, !.console = FALSE]
<1>0. k \in Kernel /\ Good(k) BY DEF Safe, Quiet, Good
<1>1. pd \in SUBSET Programs /\ pd # {} BY <1>0 DEF Kernel
<1> HIDE DEF pd
<1>2. r \in Kernel /\ r.pending = pd BY <1>0, <1>1 DEF Kernel
<1>3. /\ SameTable(r, k) /\ SameRun(r, k) /\ SameFg(r, k) /\ r.sched_next = k.sched_next
      /\ r.to_shell = k.to_shell /\ r.kill_requested_pid = k.kill_requested_pid
      /\ r.boot = k.boot
  BY <1>0 DEF Kernel, SameTable, SameRun, SameFg
<1> HIDE DEF r
<1>4. Good(r) BY <1>0, <1>2, <1>3, GoodSame
<1>5. Quiet(r, c) /\ ConOK(r) BY <1>1, <1>2, <1>3, <1>4 DEF Safe, Quiet, ConOK, SameRun
<1> QED BY <1>3, <1>5, HandleKillGood DEF Safe, SameTable, r, pd

\* proc_reap_background is proc_reap or nothing.
LEMMA ReapBackgroundGood ==
  ASSUME NEW k, Good(k), NEW c
  PROVE  LET r == proc_reap_background(k, c) IN
         /\ Good(r) /\ SameRun(r, k) /\ SameFg(r, k) /\ SameExit(r, k)
         /\ r.next_pid = k.next_pid
         /\ c \in Slots => r.proc_table[c] = k.proc_table[c]
<1> DEFINE q == proc_reap(k, c)
           s == [q EXCEPT !.reap_pending = FALSE]
           r == proc_reap_background(k, c)
<1>1. r = k \/ r = s BY DEF proc_reap_background
<1>2. /\ Good(q) /\ SameRun(q, k) /\ SameFg(q, k) /\ SameExit(q, k) /\ q.next_pid = k.next_pid
      /\ c \in Slots => q.proc_table[c] = k.proc_table[c]
  BY ReapGood
<1> HIDE DEF q, r
<1>3. s \in Kernel /\ SameTable(s, q) /\ SameRun(s, q) /\ SameFg(s, q) /\ SameExit(s, q)
  BY <1>2 DEF Good, Kernel, SameTable, SameRun, SameFg, SameExit
<1> HIDE DEF s
<1>4. Good(s) BY <1>2, <1>3, GoodSame
<1> QED BY <1>1, <1>2, <1>3, <1>4 DEF SameTable, SameRun, SameFg, SameExit, r

\* sysmgr starts a program and makes it the foreground process, or gives the console back.
LEMMA LaunchDone ==
  ASSUME NEW k, NEW c, Safe(k, c), c # NoProc, NEW program, NEW mem \in BOOLEAN, NEW load \in BOOLEAN
  PROVE  LET b == [bin_create_process(k, mem, load) EXCEPT !.pending = @ \ {program}]
             started == CanCreate(k) /\ mem /\ load
         IN  Done(IF started THEN [b EXCEPT !.foreground_pid = k.next_pid]
                  ELSE [b EXCEPT !.console = TRUE], k, c)
<1> DEFINE q == bin_create_process(k, mem, load)
           pd == q.pending \ {program}
           b == [q EXCEPT !.pending = pd]
           started == CanCreate(k) /\ mem /\ load
           x == [b EXCEPT !.foreground_pid = k.next_pid]
           y == [b EXCEPT !.console = TRUE]
<1>0. k \in Kernel /\ Good(k) BY DEF Safe, Quiet, Good
<1>1. c \in Slots /\ c \in Live(k) /\ k.next_pid # 1 BY Numbered
<1>2. /\ Good(q) /\ SameRun(q, k) /\ SameFg(q, k) /\ SameExit(q, k) /\ Keeps(q, k)
      /\ started => proc_pid_active(q, k.next_pid)
  BY <1>0, BinCreateGood
<1>3. started => k.next_pid \in Pids /\ k.next_pid # 0 BY <1>0, NextPidType
<1> HIDE DEF q, started
<1>4. pd \in SUBSET Programs BY <1>2 DEF Good, Kernel
<1> HIDE DEF pd
<1>5. /\ b \in Kernel /\ SameTable(b, q) /\ SameRun(b, q) /\ SameFg(b, q)
      /\ b.sched_next = q.sched_next /\ b.to_shell = q.to_shell
      /\ b.kill_requested_pid = q.kill_requested_pid /\ b.boot = q.boot
  BY <1>2, <1>4 DEF Good, Kernel, SameTable, SameRun, SameFg
<1> HIDE DEF b
<1>6. c # NoProc /\ q.next_pid # 1 /\ q.proc_table[c].pid = k.proc_table[c].pid
  BY <1>1, <1>2 DEF Keeps
<1>7. CASE started
  <2>1. /\ x \in Kernel /\ SameTable(x, b) /\ SameRun(x, b) /\ x.foreground_pid = k.next_pid
        /\ x.sched_next = b.sched_next /\ x.to_shell = b.to_shell
        /\ x.kill_requested_pid = b.kill_requested_pid
    BY <1>3, <1>5, <1>7 DEF Kernel, SameTable, SameRun
  <2> HIDE DEF x
  <2>2. x.proc_table = q.proc_table /\ x.next_pid = q.next_pid /\ x.fd_owner = q.fd_owner /\ SameRun(x, q)
    BY <1>5, <2>1 DEF SameTable, SameRun
  <2>3. Live(x) = Live(q) BY <2>2 DEF Live, Vacant
  <2>4. FgOK(x) BY <1>2, <1>7, <2>1, <2>2, <2>3 DEF FgOK, proc_pid_active
  <2>5. PidOK(x) /\ RunOK(x) /\ AddrOK(x) /\ VforkOK(x) /\ FdOK(x)
    <3>1. Good(q) BY <1>2
    <3>2. FdOK(x) BY <2>2, <3>1 DEF Good, FdOK
    <3> QED BY <2>2, <3>1, <3>2, TableSame
  <2>6. Good(x) BY <2>1, <2>4, <2>5 DEF Good
  <2>7. ConOK(x) BY <1>3, <1>7, <2>1 DEF ConOK
  <2>8. /\ SameRun(x, k) /\ x.sched_next = k.sched_next /\ x.to_shell = k.to_shell
        /\ x.kill_requested_pid = 0
    BY <1>2, <1>5, <2>1, <2>2 DEF Safe, SameRun, SameExit
  <2>9. Done(x, k, c) BY <1>6, <2>2, <2>6, <2>7, <2>8, DonePlain
  <2> QED BY <1>7, <2>9 DEF x, b, pd, q, started
<1>8. CASE ~started
  <2>1. /\ y \in Kernel /\ SameTable(y, b) /\ SameRun(y, b) /\ SameFg(y, b) /\ y.console = TRUE
        /\ y.sched_next = b.sched_next /\ y.to_shell = b.to_shell
        /\ y.kill_requested_pid = b.kill_requested_pid
    BY <1>5 DEF Kernel, SameTable, SameRun, SameFg
  <2> HIDE DEF y
  <2>2. SameTable(y, q) /\ SameRun(y, q) /\ SameFg(y, q)
    BY <1>5, <2>1 DEF SameTable, SameRun, SameFg
  <2>3. Good(y) BY <1>2, <2>1, <2>2, GoodSame
  <2>4. ConOK(y) BY <2>1 DEF ConOK
  <2>5. /\ SameRun(y, k) /\ y.sched_next = k.sched_next /\ y.to_shell = k.to_shell
        /\ y.kill_requested_pid = 0
    BY <1>2, <1>5, <2>1, <2>2 DEF Safe, SameRun, SameExit
  <2>6. Done(y, k, c) BY <1>6, <2>2, <2>3, <2>4, <2>5, DonePlain DEF SameTable
  <2> QED BY <1>8, <2>6 DEF y, b, pd, q, started
<1> QED BY <1>7, <1>8

\* The boot context creates init, enters it and makes it the foreground process.
LEMMA StartInitDone ==
  ASSUME NEW k, Safe(k, NoProc), CanCreate(k)
  PROVE  Done([switch_to(proc_create(k, FALSE, TRUE), FirstVacant(k)) EXCEPT
                 !.foreground_pid = k.next_pid, !.sched_next = FirstVacant(k)], k, NoProc)
<1> DEFINE i == FirstVacant(k)
           no == FALSE
           yes == TRUE
           q == proc_create(k, no, yes)
           w == switch_to(q, i)
           r == [w EXCEPT !.foreground_pid = k.next_pid, !.sched_next = i]
<1>0. k \in Kernel /\ Good(k) BY DEF Safe, Quiet, Good
<1>b. no \in BOOLEAN /\ yes \in BOOLEAN /\ yes OBVIOUS
<1>1. i \in Slots /\ i # NoProc BY FirstVacantIn, ProcConstants DEF Slots, NoProc
<1>2. k.next_pid \in Pids /\ k.next_pid # 0 BY <1>0, NextPidType
<1>g. r = [w EXCEPT !.foreground_pid = k.next_pid, !.sched_next = i] OBVIOUS
<1> SUFFICES Done(r, k, NoProc) BY Zenon
<1> HIDE DEF no, yes, r
<1>3. /\ Good(q) /\ SameRun(q, k) /\ SameExit(q, k) /\ Keeps(q, k)
      /\ proc_pid_active(q, k.next_pid)
      /\ q.proc_table = [k.proc_table EXCEPT ![i] = new_process(k.next_pid, no, 0, yes)]
  BY <1>0, <1>b, CreateGood
<1>4. q.proc_table[i].state \in {"READY", "RUNNING"}
  <2>1. new_process(k.next_pid, no, 0, yes).state = "READY" BY <1>b DEF new_process
  <2> HIDE DEF q, i
  <2> QED BY <1>0, <1>1, <1>3, <2>1 DEF Kernel
<1>c. Good(q) BY <1>3
<1> HIDE DEF q, i
<1>5. /\ Good(w) /\ w.current = i /\ SameExit(w, q) /\ w.next_pid = q.next_pid
      /\ Live(w) = Live(q) /\ \A j \in Slots : w.proc_table[j].pid = q.proc_table[j].pid
  BY <1>1, <1>c, <1>4, SwitchGood
<1> HIDE DEF w
<1>6. /\ r \in Kernel /\ SameTable(r, w) /\ SameRun(r, w) /\ r.foreground_pid = k.next_pid
      /\ r.sched_next = i /\ r.to_shell = w.to_shell
      /\ r.kill_requested_pid = w.kill_requested_pid /\ r.boot = w.boot
  BY <1>1, <1>2, <1>5, <1>g DEF Good, Kernel, SameTable, SameRun
<1>7. Live(r) = Live(w) BY <1>6 DEF Live, Vacant, SameTable
<1>8. FgOK(r)
  BY <1>3, <1>5, <1>6, <1>7 DEF FgOK, proc_pid_active, SameTable, Live
<1>9. PidOK(r) /\ RunOK(r) /\ AddrOK(r) /\ VforkOK(r) /\ FdOK(r)
  <2>1. /\ Good(w) /\ SameRun(r, w) /\ r.proc_table = w.proc_table
        /\ r.next_pid = w.next_pid /\ r.fd_owner = w.fd_owner
    BY <1>5, <1>6 DEF SameTable
  <2>2. FdOK(r) BY <2>1 DEF Good, FdOK
  <2> QED BY <2>1, <2>2, TableSame
<1>10. Good(r) BY <1>6, <1>8, <1>9 DEF Good
<1>11. Lands(r, NoProc) BY <1>1, <1>5, <1>6 DEF Lands, SameRun
<1>12. ConOK(r) BY <1>2, <1>6 DEF ConOK
<1>13. r.kill_requested_pid = 0 /\ (r.next_pid = 1 => r.boot = "init" /\ ~r.to_shell)
  BY <1>3, <1>5, <1>6 DEF Safe, Quiet, SameTable, SameExit, Keeps
<1> QED BY <1>10, <1>11, <1>12, <1>13 DEF Done

\* The idle loop starts the sysmgr and watchdog threads.
LEMMA IdleReaperDone ==
  ASSUME NEW k, NEW c, Safe(k, c), k.boot = "reaper", NEW mem \in BOOLEAN, NEW mem2 \in BOOLEAN
  PROVE  Done([proc_start_reaper(k, mem, mem2) EXCEPT !.boot = "wait"], k, c)
<1> DEFINE q == proc_start_reaper(k, mem, mem2)
           r == [q EXCEPT !.boot = "wait"]
<1>1. Good(q) /\ SameRun(q, k) /\ SameFg(q, k) /\ SameExit(q, k) /\ Keeps(q, k)
  BY StartReaperGood DEF Safe, Quiet
<1> HIDE DEF q
<1>2. /\ r \in Kernel /\ SameTable(r, q) /\ SameRun(r, q) /\ SameFg(r, q)
      /\ r.sched_next = q.sched_next /\ r.to_shell = q.to_shell
      /\ r.kill_requested_pid = q.kill_requested_pid
      /\ r.console = q.console /\ r.pending = q.pending
  BY <1>1 DEF Good, Kernel, SameTable, SameRun, SameFg
<1> HIDE DEF r
<1>3. Good(r) BY <1>1, <1>2, GoodSame
<1>4. k.next_pid # 1 /\ r.next_pid # 1 BY <1>1, <1>2 DEF Safe, Keeps, SameTable
<1>5. ConOK(r) BY <1>1, <1>2, <1>4 DEF Safe, Quiet, ConOK, SameFg, SameExit
<1>6. c # NoProc => r.proc_table[c].pid = k.proc_table[c].pid
  BY <1>1, <1>2, Numbered DEF Keeps, SameTable
<1>7. /\ SameRun(r, k) /\ r.sched_next = k.sched_next /\ r.to_shell = k.to_shell
      /\ r.kill_requested_pid = 0
  BY <1>1, <1>2 DEF Safe, SameRun, SameExit
<1>8. Done(r, k, c) BY <1>3, <1>4, <1>5, <1>6, <1>7, DonePlain
<1> QED BY <1>8 DEF r, q

\* The idle loop reaps, then enters the next runnable process or goes round again.
LEMMA IdleNextDone ==
  ASSUME NEW k, Safe(k, NoProc), k.boot = "wait"
  PROVE  LET q == proc_reap_background(k, NoProc)
             n == proc_find_next(q, q.current)
         IN  Done(IF k.current # NoProc THEN [k EXCEPT !.boot = "reaper"]
                  ELSE IF n = NoProc THEN [q EXCEPT !.boot = "reaper"]
                  ELSE [switch_to(q, n) EXCEPT !.sched_next = n], k, NoProc)
<1> DEFINE q == proc_reap_background(k, NoProc)
           n == proc_find_next(q, q.current)
           w == switch_to(q, n)
           y == [q EXCEPT !.boot = "reaper"]
           x == [w EXCEPT !.sched_next = n]
<1>0. Good(k) /\ k.current = NoProc /\ k.next_pid # 1 BY DEF Safe, Quiet
<1>1. /\ Good(q) /\ SameRun(q, k) /\ SameFg(q, k) /\ SameExit(q, k) /\ q.next_pid = k.next_pid
  BY <1>0, ReapBackgroundGood
<1>2. n # NoProc => n \in Slots /\ q.proc_table[n].state \in {"READY", "RUNNING"}
  BY FindNextIn DEF Runnable
<1> HIDE DEF q, n
<1>3. CASE n = NoProc
  <2>1. /\ y \in Kernel /\ SameTable(y, q) /\ SameRun(y, q) /\ SameFg(y, q)
        /\ y.sched_next = q.sched_next /\ y.to_shell = q.to_shell
        /\ y.kill_requested_pid = q.kill_requested_pid
        /\ y.console = q.console /\ y.pending = q.pending
    BY <1>1 DEF Good, Kernel, SameTable, SameRun, SameFg
  <2> HIDE DEF y
  <2>2. Good(y) BY <1>1, <2>1, GoodSame
  <2>3. y.next_pid # 1 BY <1>0, <1>1, <2>1 DEF SameTable
  <2>4. ConOK(y) BY <1>0, <1>1, <2>1 DEF Safe, Quiet, ConOK, SameFg, SameExit
  <2>5. /\ SameRun(y, k) /\ y.sched_next = k.sched_next /\ y.to_shell = k.to_shell
        /\ y.kill_requested_pid = 0
    BY <1>1, <2>1 DEF Safe, SameRun, SameExit
  <2>6. Done(y, k, NoProc) BY <2>2, <2>3, <2>4, <2>5, DonePlain
  <2> QED BY <1>0, <1>3, <2>6 DEF y, q, n
<1>4. CASE n # NoProc
  <2>1. Good(w) /\ w.current = n /\ SameFg(w, q) /\ SameExit(w, q) /\ w.next_pid = q.next_pid
    BY <1>1, <1>2, <1>4, SwitchGood
  <2> HIDE DEF w
  <2>2. /\ x \in Kernel /\ SameTable(x, w) /\ SameRun(x, w) /\ SameFg(x, w)
        /\ x.sched_next = n /\ x.to_shell = w.to_shell
        /\ x.kill_requested_pid = w.kill_requested_pid
        /\ x.console = w.console /\ x.pending = w.pending
    BY <1>2, <1>4, <2>1 DEF Good, Kernel, SameTable, SameRun, SameFg
  <2> HIDE DEF x
  <2>3. Good(x) BY <2>1, <2>2, GoodSame
  <2>4. x.next_pid # 1 BY <1>0, <1>1, <2>1, <2>2 DEF SameTable
  <2>5. ConOK(x) BY <1>0, <1>1, <2>1, <2>2 DEF Safe, Quiet, ConOK, SameFg, SameExit
  <2>6. Lands(x, NoProc) BY <1>4, <2>1, <2>2 DEF Lands, SameRun
  <2>7. x.kill_requested_pid = 0 BY <1>1, <2>1, <2>2 DEF Safe, SameExit
  <2>8. Done(x, k, NoProc) BY <2>3, <2>4, <2>5, <2>6, <2>7 DEF Done
  <2> QED BY <1>0, <1>4, <2>8 DEF x, w, q, n
<1> QED BY <1>3, <1>4

-----------------------------------------------------------------------------
\* The inductive invariant.
IInv == Safe(kern, cpu)

\* Before any process exists.
LEMMA InitSafe == Init => IInv
<1> SUFFICES ASSUME Init PROVE Safe(kern, cpu) BY DEF IInv
<1>1. /\ kern.proc_table = [i \in Slots |-> Blank] /\ kern.current = NoProc /\ cpu = NoProc
      /\ kern.next_pid = 1 /\ kern.kill_requested_pid = 0 /\ kern.foreground_pid = 0
      /\ kern.sched_next = NoProc /\ kern.to_shell = FALSE /\ kern.boot = "init"
      /\ kern.fd_owner = [f \in Files |-> 0]
  BY DEF Init
<1>2. kern \in Kernel
  <2>1. 0 \in Pids /\ 1 \in 1 .. MaxPid + 1 /\ 0 \in 0 .. SliceTicks - 1
        /\ 0 \in 0 .. TickMod - 1
    BY ProcConstants DEF Pids
  <2>2. [i \in Slots |-> Blank] \in [Slots -> Process] BY BlankType
  <2> QED BY <2>1, <2>2 DEF Init, Kernel
<1>3. \A i \in Slots : /\ kern.proc_table[i].pid = 0 /\ kern.proc_table[i].state = "UNUSED"
                       /\ i # NoProc
  BY SMTT(40), <1>1, ProcConstants DEF Blank, Slots, NoProc
<1>4. Live(kern) = {} BY <1>3 DEF Live, Vacant
<1>5. PidOK(kern) /\ RunOK(kern) /\ AddrOK(kern) BY <1>1, <1>3, <1>4 DEF PidOK, RunOK, AddrOK
<1>6. VforkOK(kern) /\ FgOK(kern) /\ FdOK(kern) BY <1>1, <1>3 DEF VforkOK, FgOK, FdOK
<1> QED BY <1>1, <1>2, <1>5, <1>6 DEF Safe, Quiet, ConOK, Good

\* Every step preserves the invariant and leaves its own stack's slot alone.
LEMMA NextSafe ==
  ASSUME UsbKeyboard = FALSE, IInv, Next
  PROVE  /\ Safe(kern', cpu')
         /\ cpu # NoProc => kern'.proc_table[cpu].pid = kern.proc_table[cpu].pid
<1> DEFINE Result == /\ Safe(kern', cpu')
                     /\ cpu # NoProc => kern'.proc_table[cpu].pid = kern.proc_table[cpu].pid
<1>0. Safe(kern, cpu) /\ Good(kern) BY DEF IInv, Safe, Quiet
<1>g. Result <=> /\ Safe(kern', cpu')
                 /\ cpu # NoProc => kern'.proc_table[cpu].pid = kern.proc_table[cpu].pid
  OBVIOUS
<1> SUFFICES Result BY <1>g
<1> HIDE DEF Result
<1>r. ASSUME NEW k, Done(k, kern, cpu), Return(k) PROVE Result BY <1>0, <1>r, <1>g, ReturnSafe
<1>u. InUser => cpu # NoProc BY DEF InUser
<1>t. \A p : InThread(p) => cpu # NoProc BY DEF InThread
<1>c. 1 \in ExitCodes /\ 0 \in ExitCodes BY DEF ExitCodes
<1>1. CASE Exit
  <2>1. PICK code \in ExitCodes : InUser /\ Return(exit_and_switch(kern, code, cpu)) BY <1>1 DEF Exit
  <2>2. Done(exit_and_switch(kern, code, cpu), kern, cpu) BY <1>0, <1>u, <2>1, ExitDone
  <2> QED BY <1>r, <2>1, <2>2
<1>2. CASE handle_user_exception
  <2>1. InUser /\ Return(exit_and_switch(kern, 1, cpu)) BY <1>2 DEF handle_user_exception
  <2>2. Done(exit_and_switch(kern, 1, cpu), kern, cpu) BY <1>0, <1>c, <1>u, <2>1, ExitDone
  <2> QED BY <1>r, <2>1, <2>2
<1>3. CASE Yield
  <2> DEFINE yes == TRUE
  <2>1. InUser /\ Return(proc_schedule(kern, yes, cpu)) BY <1>3 DEF Yield
  <2>b. yes \in BOOLEAN OBVIOUS
  <2> HIDE DEF yes
  <2>2. Done(proc_schedule(kern, yes, cpu), kern, cpu) BY <1>0, <2>b, ScheduleDone
  <2> QED BY <1>r, <2>1, <2>2
<1>4. CASE SpawnThread
  <2> DEFINE no == FALSE
  <2>1. PICK mem \in BOOLEAN : InUser /\ Return(proc_create(kern, no, mem))
    BY <1>4 DEF SpawnThread
  <2>b. no \in BOOLEAN OBVIOUS
  <2> HIDE DEF no
  <2> DEFINE k == proc_create(kern, no, mem)
  <2>2. Good(k) /\ SameRun(k, kern) /\ SameFg(k, kern) /\ SameExit(k, kern) /\ Keeps(k, kern)
    BY <1>0, <2>b, CreateGood
  <2> HIDE DEF k
  <2>3. Done(k, kern, cpu) BY <1>0, <1>u, <2>1, <2>2, DoneCreate
  <2> QED BY <1>r, <2>1, <2>3 DEF k
<1>5. CASE StartSysmgr \/ sysmgr_watchdog_thread
  <2>1. PICK mem \in BOOLEAN, mem2 \in BOOLEAN :
          cpu # NoProc /\ Return(proc_start_reaper(kern, mem, mem2))
    BY <1>5, <1>u, <1>t DEF StartSysmgr, sysmgr_watchdog_thread
  <2> DEFINE k == proc_start_reaper(kern, mem, mem2)
  <2>2. Good(k) /\ SameRun(k, kern) /\ SameFg(k, kern) /\ SameExit(k, kern) /\ Keeps(k, kern)
    BY <1>0, StartReaperGood
  <2> HIDE DEF k
  <2>3. Done(k, kern, cpu) BY <1>0, <2>1, <2>2, DoneCreate
  <2> QED BY <1>r, <2>1, <2>3 DEF k
<1>6. CASE Spawn
  <2>1. PICK mem \in BOOLEAN, load \in BOOLEAN :
          InUser /\ Return(bin_create_process(kern, mem, load))
    BY <1>6 DEF Spawn
  <2> DEFINE k == bin_create_process(kern, mem, load)
  <2>2. Good(k) /\ SameRun(k, kern) /\ SameFg(k, kern) /\ SameExit(k, kern) /\ Keeps(k, kern)
    BY <1>0, BinCreateGood
  <2> HIDE DEF k
  <2>3. Done(k, kern, cpu) BY <1>0, <1>u, <2>1, <2>2, DoneCreate
  <2> QED BY <1>r, <2>1, <2>3 DEF k
<1>7. CASE Exec
  <2>1. InUser /\ Return(proc_exec(kern, cpu)) BY <1>7 DEF Exec
  <2>2. Done(proc_exec(kern, cpu), kern, cpu) BY <1>0, <1>u, <2>1, ExecDone
  <2> QED BY <1>r, <2>1, <2>2
<1>8. CASE Fork
  <2>1. PICK dir \in BOOLEAN, mem \in BOOLEAN : InUser /\ Return(proc_fork(kern, dir, mem))
    BY <1>8 DEF Fork
  <2>2. Done(proc_fork(kern, dir, mem), kern, cpu) BY <1>0, <1>u, <2>1, ForkDone
  <2> QED BY <1>r, <2>1, <2>2
<1>9. CASE Open
  <2>1. PICK f \in Files : InUser /\ Return([kern EXCEPT !.fd_owner[f] = proc_current_pid(kern)])
    BY <1>9 DEF Open
  <2>2. Done([kern EXCEPT !.fd_owner[f] = proc_current_pid(kern)], kern, cpu)
    BY <1>0, <1>u, <2>1, FdDone
  <2> QED BY <1>r, <2>1, <2>2
<1>10. CASE Close
  <2>1. PICK f \in Files : InUser /\ Return([kern EXCEPT !.fd_owner[f] = 0])
    BY <1>10 DEF Close
  <2>2. Done([kern EXCEPT !.fd_owner[f] = 0], kern, cpu)
    BY <1>0, <1>u, <2>1, FdDone
  <2> QED BY <1>r, <2>1, <2>2
<1>11. CASE TimerTick
  \* With a PS/2 keyboard the request can only come from the keyboard's own interrupt.
  <2>1. Return(proc_handle_kill(timer_callback(kern, cpu), cpu)) BY <1>11 DEF TimerTick, Irq
  <2> DEFINE k == timer_callback(kern, cpu)
  <2>2. Done(k, kern, cpu) BY <1>0, TimerDone
  <2>3. proc_handle_kill(k, cpu) = k BY <2>2 DEF Done, proc_handle_kill
  <2> QED BY <1>r, <2>1, <2>2, <2>3
<1>12. CASE KeyboardKill
  <2> DEFINE k == keyboard_kill(kern)
  <2>1. Return(proc_handle_kill(k, cpu)) BY <1>12 DEF KeyboardKill, Irq
  <2>2. /\ Quiet(k, cpu) /\ k.next_pid = kern.next_pid /\ k.boot = kern.boot /\ ConOK(k)
        /\ \A j \in Slots : k.proc_table[j].pid = kern.proc_table[j].pid
        /\ \/ k.kill_requested_pid = 0
           \/ cpu # NoProc /\ k.kill_requested_pid = proc_current_pid(k)
    BY <1>0, KeyboardKillGood
  <2> HIDE DEF k
  <2>3. Done(proc_handle_kill(k, cpu), kern, cpu) BY <1>0, <2>2, HandleKillGood
  <2> QED BY <1>r, <2>1, <2>3
<1>13. CASE KillCommand
  <2>0. PICK p \in 1 .. MaxPid, force \in BOOLEAN : Irq(proc_kill(kern, p, force))
    BY <1>13 DEF KillCommand
  <2> DEFINE k == proc_kill(kern, p, force)
  <2>1. Return(proc_handle_kill(k, cpu)) BY <2>0 DEF Irq
  <2>p. p \in Pids BY ProcConstants DEF Pids
  <2>2. /\ Quiet(k, cpu) /\ k.next_pid = kern.next_pid /\ k.boot = kern.boot /\ ConOK(k)
        /\ \A j \in Slots : k.proc_table[j].pid = kern.proc_table[j].pid
        /\ \/ k.kill_requested_pid = 0
           \/ cpu # NoProc /\ k.kill_requested_pid = proc_current_pid(k)
    BY <1>0, <2>p, KillGood
  <2> HIDE DEF k
  <2>3. Done(proc_handle_kill(k, cpu), kern, cpu) BY <1>0, <2>2, HandleKillGood
  <2> QED BY <1>r, <2>1, <2>3
<1>14. CASE BinBackground
  <2>1. PICK mem \in BOOLEAN, load \in BOOLEAN :
          kern.console /\ Return(proc_handle_kill(bin_create_process(kern, mem, load), cpu))
    BY <1>14 DEF BinBackground, Irq
  <2> DEFINE k == bin_create_process(kern, mem, load)
  <2>2. Good(k) /\ SameRun(k, kern) /\ SameFg(k, kern) /\ SameExit(k, kern) /\ Keeps(k, kern)
    BY <1>0, BinCreateGood
  <2> HIDE DEF k
  <2>3. Done(k, kern, cpu) BY <1>0, <2>1, <2>2, DoneCreate
  <2>4. proc_handle_kill(k, cpu) = k BY <2>3 DEF Done, proc_handle_kill
  <2> QED BY <1>r, <2>1, <2>3, <2>4 DEF k
<1>15. CASE RequestPrograms
  <2> DEFINE k(ask) == proc_handle_kill([kern EXCEPT !.pending = @ \cup ask, !.console = FALSE], cpu)
  <2>1. PICK ask \in SUBSET Programs : kern.console /\ ask # {} /\ Return(k(ask))
    BY <1>15 DEF RequestPrograms, Irq
  <2>2. Done(k(ask), kern, cpu) BY <1>0, <2>1, RequestDone
  <2> HIDE DEF k
  <2> QED BY <1>r, <2>1, <2>2
<1>16. CASE SysmgrReap
  <2> DEFINE k == proc_reap_background(kern, cpu)
  <2>1. cpu # NoProc /\ Return(k) BY <1>16, <1>t DEF SysmgrReap
  <2>2. cpu \in Slots /\ cpu \in Live(kern) /\ kern.next_pid # 1 BY <1>0, <2>1, Numbered
  <2>3. /\ Good(k) /\ SameRun(k, kern) /\ SameFg(k, kern) /\ SameExit(k, kern)
        /\ k.next_pid = kern.next_pid /\ k.proc_table[cpu] = kern.proc_table[cpu]
    BY <1>0, <2>2, ReapBackgroundGood
  <2> HIDE DEF k
  <2>4. ConOK(k) /\ k.kill_requested_pid = 0
    BY <1>0, <2>2, <2>3 DEF Safe, Quiet, ConOK, SameFg, SameExit
  <2>5. Done(k, kern, cpu) BY <1>0, <2>2, <2>3, <2>4, DonePlain DEF SameExit
  <2> QED BY <1>r, <2>1, <2>5
<1>17. CASE SysmgrLaunch
  <2> DEFINE b(program, mem, load) ==
               [bin_create_process(kern, mem, load) EXCEPT !.pending = @ \ {program}]
             k(program, mem, load) ==
               IF CanCreate(kern) /\ mem /\ load
               THEN [b(program, mem, load) EXCEPT !.foreground_pid = kern.next_pid]
               ELSE [b(program, mem, load) EXCEPT !.console = TRUE]
  <2>1. PICK program \in Programs : sysmgr_launch_process(program) BY <1>17 DEF SysmgrLaunch
  <2>2. PICK mem \in BOOLEAN, load \in BOOLEAN : cpu # NoProc /\ Return(k(program, mem, load))
    BY <2>1, <1>t DEF sysmgr_launch_process
  <2>3. Done(k(program, mem, load), kern, cpu) BY <1>0, <2>2, LaunchDone
  <2> HIDE DEF k
  <2> QED BY <1>r, <2>2, <2>3
<1>18. CASE StartInit
  <2> DEFINE k == [switch_to(proc_create(kern, FALSE, TRUE), FirstVacant(kern)) EXCEPT
                     !.foreground_pid = kern.next_pid, !.sched_next = FirstVacant(kern)]
  <2>1. cpu = NoProc /\ CanCreate(kern) /\ Return(k) BY <1>18 DEF StartInit
  <2>2. Done(k, kern, cpu) BY <1>0, <2>1, StartInitDone
  <2> HIDE DEF k
  <2> QED BY <1>r, <2>1, <2>2
<1>19. CASE IdleStartReaper
  <2> DEFINE k(mem, mem2) == [proc_start_reaper(kern, mem, mem2) EXCEPT !.boot = "wait"]
  <2>1. PICK mem \in BOOLEAN, mem2 \in BOOLEAN : kern.boot = "reaper" /\ Return(k(mem, mem2))
    BY <1>19 DEF IdleStartReaper
  <2>2. Done(k(mem, mem2), kern, cpu) BY <1>0, <2>1, IdleReaperDone
  <2> HIDE DEF k
  <2> QED BY <1>r, <2>1, <2>2
<1>20. CASE IdleTakeNext
  <2> DEFINE q == proc_reap_background(kern, NoProc)
             n == proc_find_next(q, q.current)
             k == IF kern.current # NoProc THEN [kern EXCEPT !.boot = "reaper"]
                  ELSE IF n = NoProc THEN [q EXCEPT !.boot = "reaper"]
                  ELSE [switch_to(q, n) EXCEPT !.sched_next = n]
  <2>1. cpu = NoProc /\ kern.boot = "wait" /\ Return(k) BY <1>20 DEF IdleTakeNext
  <2>2. Done(k, kern, cpu) BY <1>0, <2>1, IdleNextDone
  <2> HIDE DEF k
  <2> QED BY <1>r, <2>1, <2>2
<1> QED
  BY <1>1, <1>2, <1>3, <1>4, <1>5, <1>6, <1>7, <1>8, <1>9, <1>10, <1>11, <1>12, <1>13,
     <1>14, <1>15, <1>16, <1>17, <1>18, <1>19, <1>20 DEF Next

-----------------------------------------------------------------------------
\* With keys taken from the PS/2 interrupt, the invariant holds for any number of process
\* slots, pids, descriptors and slice length.
THEOREM Invariance ==
  ASSUME UsbKeyboard = FALSE PROVE Spec => []IInv
<1>1. Init => IInv BY InitSafe
<1>2. IInv /\ [Next]_vars => IInv'
  <2>1. CASE Next BY <2>1, NextSafe DEF IInv
  <2>2. CASE UNCHANGED vars
    <3>1. IInv /\ kern' = kern /\ cpu' = cpu => Safe(kern', cpu') BY Zenon DEF IInv
    <3>2. kern' = kern /\ cpu' = cpu BY <2>2 DEF vars
    <3> QED BY <3>1, <3>2 DEF IInv
  <2> QED BY <2>1, <2>2
<1> QED BY <1>1, <1>2, PTL DEF Spec

\* The properties the model checker checks on small tables follow from the invariant.
LEMMA InvariantImplies ==
  IInv => /\ TypeOK /\ PidsUnique /\ RunsCurrent /\ OwnAddressSpace /\ VforkParentWakes
          /\ ForegroundAlive /\ ConsoleReturns /\ FdOwnerKnown /\ KillServed
<1> SUFFICES ASSUME IInv
             PROVE  /\ TypeOK /\ PidsUnique /\ RunsCurrent /\ OwnAddressSpace /\ VforkParentWakes
                    /\ ForegroundAlive /\ ConsoleReturns /\ FdOwnerKnown /\ KillServed
  OBVIOUS
<1>1. Good(kern) /\ cpu = kern.current BY DEF IInv, Safe, Quiet
<1>2. TypeOK BY <1>1 DEF TypeOK, Good, Kernel
<1>3. PidsUnique /\ RunsCurrent BY <1>1 DEF PidsUnique, RunsCurrent, Good, PidOK, RunOK
<1>4. OwnAddressSpace /\ VforkParentWakes
  BY <1>1 DEF OwnAddressSpace, VforkParentWakes, Good, AddrOK, VforkOK
<1>5. ForegroundAlive /\ FdOwnerKnown BY <1>1 DEF ForegroundAlive, FdOwnerKnown, Good, FgOK, FdOK
<1>6. ConsoleReturns /\ KillServed
  BY DEF ConsoleReturns, KillServed, IInv, Safe, Quiet, ConOK
<1> QED BY <1>2, <1>3, <1>4, <1>5, <1>6

\* Every kernel global keeps its type.
THEOREM TypeCorrect ==
  ASSUME UsbKeyboard = FALSE PROVE Spec => []TypeOK
BY Invariance, InvariantImplies, PTL

\* wait, kill and the descriptor table never confuse two processes.
THEOREM PidsAreUnique ==
  ASSUME UsbKeyboard = FALSE PROVE Spec => []PidsUnique
BY Invariance, InvariantImplies, PTL

\* The processor always executes current_proc, the only RUNNING process.
THEOREM CpuRunsCurrent ==
  ASSUME UsbKeyboard = FALSE PROVE Spec => []RunsCurrent
BY Invariance, InvariantImplies, PTL

\* A process executes in its own page directory, however it got the processor.
THEOREM RunsInOwnSpace ==
  ASSUME UsbKeyboard = FALSE PROVE Spec => []OwnAddressSpace
BY Invariance, InvariantImplies, PTL

\* Whoever fork blocked can be woken.
THEOREM BlockedCanWake ==
  ASSUME UsbKeyboard = FALSE PROVE Spec => []VforkParentWakes
BY Invariance, InvariantImplies, PTL

\* The foreground pid never dangles, and the console is never lost.
THEOREM ConsoleIsKept ==
  ASSUME UsbKeyboard = FALSE PROVE Spec => []ConsoleKept
<1>1. IInv => ConsoleKept
  BY InvariantImplies DEF ConsoleKept
<1> QED BY <1>1, Invariance, PTL

\* Descriptors are closed with their owner's slot.
THEOREM DescriptorsClosed ==
  ASSUME UsbKeyboard = FALSE PROVE Spec => []FdOwnerKnown
BY Invariance, InvariantImplies, PTL

\* Kill requests by key or command are served in the interrupt that makes them.
THEOREM KillsAreServed ==
  ASSUME UsbKeyboard = FALSE PROVE Spec => []KillServed
BY Invariance, InvariantImplies, PTL

\* No handler frees the kernel stack it runs on.
THEOREM OwnStackKept ==
  ASSUME UsbKeyboard = FALSE PROVE Spec => StackKept
<1>1. IInv /\ [Next]_vars =>
        [cpu # NoProc => kern'.proc_table[cpu].pid = kern.proc_table[cpu].pid]_vars
  BY NextSafe DEF vars
<1> QED BY <1>1, Invariance, PTL DEF Spec, StackKept
=============================================================================
