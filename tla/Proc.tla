-------------------------------- MODULE Proc --------------------------------
(***************************************************************************)
(* The process table, the scheduler and the kill and reap protocol of      *)
(* kernel/proc/proc.c, with the system calls, interrupts and kernel        *)
(* threads that drive them.                                                *)
(*                                                                         *)
(* There is one CPU.  A system call and an interrupt handler run with      *)
(* interrupts off, so each is one step.  The kernel's globals are the      *)
(* fields of the record kern; each C function that changes them is an      *)
(* operator from a record to a record with the function's name, and a      *)
(* handler is their composition in the order of the code.  The variable    *)
(* cpu is not a global of the kernel: it is the context whose registers    *)
(* the processor really holds, which the assembly stubs change.            *)
(*                                                                         *)
(* The sysmgr and watchdog threads and the idle loop run with interrupts   *)
(* on.  Here each of their operations is one step as well: this module     *)
(* describes the executions in which no timer tick falls inside the        *)
(* creation of a process by one of them.  Module Launch splits the launch  *)
(* of a program and shows which properties depend on that.                 *)
(***************************************************************************)
EXTENDS Integers, FiniteSets

CONSTANTS MaxProcs,     \* MAX_PROCS
          MaxPid,       \* bound: the last pid handed out; then creation fails
          MaxOpenFiles, \* MAX_OPEN_FILES
          SliceTicks,   \* PROC_TIME_SLICE_TICKS
          TickMod,      \* bound: tick is kept modulo this (2 tells ticks apart, 1 does not)
          UsbKeyboard   \* TRUE if keys are polled from the timer interrupt

ASSUME ProcConstants ==
  /\ MaxProcs \in Nat \ {0}
  /\ MaxPid \in Nat
  /\ MaxOpenFiles \in Nat
  /\ SliceTicks \in Nat \ {0}
  /\ TickMod \in Nat \ {0}
  /\ UsbKeyboard \in BOOLEAN

VARIABLES kern, cpu

vars == <<kern, cpu>>

Slots == 0 .. MaxProcs - 1
NoProc == -1            \* current_proc = NULL, current_index = -1; the boot context
Pids == 0 .. MaxPid
Files == 0 .. MaxOpenFiles - 1
ExitCodes == {0, 1}     \* a killed process has code 0; a fault and exit may have 1

Programs == {"exec", "shell"}  \* sysmgr_exec_pending, sysmgr_user_shell_pending

States == {"UNUSED", "READY", "RUNNING", "BLOCKED", "EXITED"}

\* process_t.  ctx is context_esp # 0: the slot has a frame to resume.
Process == [state : States, pid : Pids, is_kernel : BOOLEAN, ctx : BOOLEAN,
            exit_code : ExitCodes, vfork_parent_pid : Pids]

Blank == [state |-> "UNUSED", pid |-> 0, is_kernel |-> FALSE, ctx |-> FALSE,
          exit_code |-> 0, vfork_parent_pid |-> 0]

(***************************************************************************)
(* sched_next is the slot whose context sched_next_esp points to; to_shell *)
(* says that the handler made the interrupted frame return into            *)
(* bin_exit_trampoline; cr3 is the pid that owns the loaded page           *)
(* directory, 0 for the kernel's; fd_owner[f] is 0 when descriptor f is    *)
(* not used; boot is where the boot context is: about to start init, or at *)
(* one of the two points of sysmgr_idle_loop; console is                   *)
(* keyboard_input_enabled (and not shell_suspended): Enter runs a command; *)
(* pending is the set of programs the sysmgr thread is asked to start.     *)
(***************************************************************************)
Kernel == [proc_table : [Slots -> Process], current : Slots \cup {NoProc},
           next_pid : 1 .. MaxPid + 1, reaper_enabled : BOOLEAN,
           reap_pending : BOOLEAN, reaper_pid : Pids, watchdog_pid : Pids,
           kill_requested_pid : Pids, foreground_pid : Pids,
           sched_next : Slots \cup {NoProc}, to_shell : BOOLEAN, cr3 : Pids,
           fd_owner : [Files -> Pids], slice_ticks : 0 .. SliceTicks - 1,
           slice_pid : Pids, boot : {"init", "reaper", "wait"},
           tick : 0 .. TickMod - 1, console : BOOLEAN, pending : SUBSET Programs]

Init ==
  /\ kern = [proc_table |-> [i \in Slots |-> Blank], current |-> NoProc,
             next_pid |-> 1, reaper_enabled |-> FALSE, reap_pending |-> FALSE,
             reaper_pid |-> 0, watchdog_pid |-> 0, kill_requested_pid |-> 0,
             foreground_pid |-> 0, sched_next |-> NoProc, to_shell |-> FALSE,
             cr3 |-> 0, fd_owner |-> [f \in Files |-> 0], slice_ticks |-> 0,
             slice_pid |-> 0, boot |-> "init", tick |-> 0, console |-> FALSE, pending |-> {}]
  /\ cpu = NoProc

-----------------------------------------------------------------------------
(* The table *)

Least(S) == CHOOSE x \in S : \A y \in S : x <= y

Vacant(k) == {i \in Slots : k.proc_table[i].state \in {"UNUSED", "EXITED"}}
Live(k) == Slots \ Vacant(k)
FirstVacant(k) == Least(Vacant(k))

proc_current_pid(k) == IF k.current = NoProc THEN 0 ELSE k.proc_table[k.current].pid
proc_current_is_user(k) == k.current # NoProc /\ ~k.proc_table[k.current].is_kernel
proc_pid_active(k, p) == p # 0 /\ \E i \in Live(k) : k.proc_table[i].pid = p

page_dir(k, i) == IF k.proc_table[i].is_kernel THEN 0 ELSE k.proc_table[i].pid

sys_close_fds_for_pid(owner, p) ==
  [f \in Files |-> IF owner[f] = p THEN 0 ELSE owner[f]]

\* Mutant: the descriptors of the cleaned process stay open.
proc_cleanup_open(k, i) == [k EXCEPT !.proc_table[i] = Blank]

proc_cleanup(k, i) ==
  [k EXCEPT !.proc_table[i] = Blank,
            !.fd_owner = sys_close_fds_for_pid(@, k.proc_table[i].pid)]

\* What a creation leaves in its slot.  One that runs out of memory (mem is FALSE) leaves
\* the slot UNUSED with the pid it had already been given.
new_process(p, kernel, parent, mem) ==
  [state |-> IF mem THEN "READY" ELSE "UNUSED", pid |-> p, is_kernel |-> kernel,
   ctx |-> mem, exit_code |-> 0, vfork_parent_pid |-> parent]

CanCreate(k) == Vacant(k) # {} /\ k.next_pid <= MaxPid

\* Mutant: next_pid is not advanced.
place_same_pid(k, p) ==
  [proc_cleanup(k, FirstVacant(k)) EXCEPT !.proc_table[FirstVacant(k)] = p]

\* Clean the first vacant slot and put process p into it.
place(k, p) ==
  [proc_cleanup(k, FirstVacant(k)) EXCEPT !.proc_table[FirstVacant(k)] = p,
                                          !.next_pid = @ + 1]

\* proc_create_common and proc_create_kernel_common with a process running, or with
\* make_current false.
proc_create(k, kernel, mem) ==
  IF CanCreate(k) THEN place(k, new_process(k.next_pid, kernel, 0, mem)) ELSE k

\* load is FALSE when the image cannot be loaded: the new slot is cleaned again.
bin_create_process(k, mem, load) ==
  LET c == proc_create(k, FALSE, mem)
  IN  IF CanCreate(k) /\ mem /\ ~load THEN proc_cleanup(c, FirstVacant(k)) ELSE c

proc_start_sysmgr_watchdog(k, mem) ==
  IF proc_pid_active(k, k.watchdog_pid) THEN k
  ELSE [proc_create(k, TRUE, mem) EXCEPT
          !.watchdog_pid = IF CanCreate(k) /\ mem THEN k.next_pid ELSE @]

proc_start_reaper(k, mem, mem2) ==
  LET alive == k.reaper_enabled /\ proc_pid_active(k, k.reaper_pid)
      started == CanCreate(k) /\ mem
      c == proc_create(k, TRUE, mem)
      s == [c EXCEPT !.reaper_enabled = TRUE, !.reaper_pid = k.next_pid]
  IN  IF alive THEN proc_start_sysmgr_watchdog(k, mem2)
      ELSE IF ~started THEN c
      ELSE proc_start_sysmgr_watchdog(s, mem2)

-----------------------------------------------------------------------------
(* Scheduling, exit, kill and reap *)

Runnable(k) == {i \in Slots : /\ k.proc_table[i].state \in {"READY", "RUNNING"}
                              /\ k.proc_table[i].ctx}

\* Mutant: the scan always begins at slot 0.
proc_find_next_lowest(k, start) ==
  IF Runnable(k) = {} THEN NoProc ELSE Least(Runnable(k))

\* The first runnable slot after start, cyclically; start itself comes last.
proc_find_next(k, start) ==
  LET after == {i \in Runnable(k) : i > start}
  IN  IF Runnable(k) = {} THEN NoProc
      ELSE Least(IF after # {} THEN after ELSE Runnable(k))

\* Mutants: the slot whose stack is in use is freed; the scan begins at slot 1.
proc_reap_own(k, c) ==
  [k EXCEPT !.proc_table = [i \in Slots |-> IF i # k.current /\ k.proc_table[i].state = "EXITED"
                                            THEN Blank ELSE k.proc_table[i]]]
proc_reap_from_1(k, c) ==
  [k EXCEPT !.proc_table = [i \in Slots |-> IF i \notin {0, k.current, c} /\ k.proc_table[i].state = "EXITED"
                                            THEN Blank ELSE k.proc_table[i]]]

\* The context the CPU runs is on the kernel stack of slot c, so c is not freed.
proc_reap(k, c) ==
  LET dead == {i \in Slots \ {k.current, c} : k.proc_table[i].state = "EXITED"}
      gone == {k.proc_table[i].pid : i \in dead}
  IN  [k EXCEPT !.proc_table = [i \in Slots |-> IF i \in dead THEN Blank ELSE k.proc_table[i]],
                !.fd_owner = [f \in Files |-> IF k.fd_owner[f] \in gone THEN 0 ELSE k.fd_owner[f]],
                !.reaper_pid = IF @ \in gone THEN 0 ELSE @,
                !.watchdog_pid = IF @ \in gone THEN 0 ELSE @]

proc_reap_background(k, c) ==
  IF k.reaper_enabled /\ ~k.reap_pending THEN k
  ELSE [proc_reap(k, c) EXCEPT !.reap_pending = FALSE]

\* Mutant: the page directory is not loaded.
switch_to_same_dir(k, n) ==
  [k EXCEPT !.proc_table = [i \in Slots |->
                 IF i = n THEN [k.proc_table[i] EXCEPT !.state = "RUNNING"]
                 ELSE IF i = k.current /\ k.proc_table[i].state = "RUNNING"
                 THEN [k.proc_table[i] EXCEPT !.state = "READY"]
                 ELSE k.proc_table[i]],
            !.current = n]

\* Slot n becomes the running process in its own address space; the one that ran,
\* if it is still RUNNING, becomes READY.
switch_to(k, n) ==
  LET state(i) == IF i = n THEN "RUNNING"
                  ELSE IF i = k.current /\ k.proc_table[i].state = "RUNNING" THEN "READY"
                  ELSE k.proc_table[i].state
  IN  [k EXCEPT !.proc_table = [i \in Slots |-> [k.proc_table[i] EXCEPT !.state = state(i)]],
                !.current = n,
                !.cr3 = page_dir(k, n)]

save_context(k) ==
  IF k.current = NoProc THEN k ELSE [k EXCEPT !.proc_table[k.current].ctx = TRUE]

\* Mutant: the next process becomes current but its context is not the one resumed.
proc_schedule_no_esp(k, save, c) ==
  LET n == proc_find_next(k, k.current)
  IN  IF n = NoProc \/ n = k.current THEN k ELSE switch_to(k, n)

proc_schedule(k, save, c) ==
  LET r == IF k.reaper_enabled THEN k ELSE proc_reap(k, c)
      n == proc_find_next(r, r.current)
      s == IF save THEN save_context(r) ELSE r
  IN  IF n = NoProc \/ n = r.current THEN r
      ELSE [switch_to(s, n) EXCEPT !.sched_next = n]

proc_wake_vfork_parent(k, i) ==
  LET parent == k.proc_table[i].vfork_parent_pid
      woken(j) == IF k.proc_table[j].pid = parent /\ k.proc_table[j].state = "BLOCKED"
                  THEN "READY" ELSE k.proc_table[j].state
      pt == [j \in Slots |-> [k.proc_table[j] EXCEPT !.state = woken(j)]]
  IN  IF parent = 0 THEN k
      ELSE [k EXCEPT !.proc_table = [pt EXCEPT ![i].vfork_parent_pid = 0]]

\* Mutant: the vfork parent is not woken.
end_process_no_wake(k, i, code) ==
  [k EXCEPT !.proc_table[i].exit_code = code, !.proc_table[i].state = "EXITED",
            !.foreground_pid = IF @ = k.proc_table[i].pid THEN 0 ELSE @,
            !.reap_pending = @ \/ k.reaper_enabled]

\* What proc_exit and proc_kill do to the slot that ends.
end_process(k, i, code) ==
  LET e == [k EXCEPT !.proc_table[i].exit_code = code,
                     !.proc_table[i].state = "EXITED"]
  IN  [proc_wake_vfork_parent(e, i) EXCEPT
         !.foreground_pid = IF @ = k.proc_table[i].pid THEN 0 ELSE @,
         !.reap_pending = @ \/ k.reaper_enabled]

proc_exit(k, code) ==
  IF k.current = NoProc THEN k
  ELSE [end_process(k, k.current, code) EXCEPT !.current = NoProc]

\* The common end of exit, of a fault and of a kill: the foreground process returns to
\* the shell, any other one hands the CPU on, or goes to the shell when nothing is runnable.
exit_and_switch(k, code, c) ==
  LET foreground == k.foreground_pid = proc_current_pid(k)
      e == proc_exit(k, code)
      s == proc_schedule(e, FALSE, c)
  IN  IF foreground THEN [e EXCEPT !.to_shell = TRUE]
      ELSE IF s.current = NoProc THEN [s EXCEPT !.to_shell = TRUE]
      ELSE s

\* Mutants: the console is not given back; an exited process is killed once more.
proc_kill_keep_console(k, p, force) ==
  LET mine == {i \in Live(k) : k.proc_table[i].pid = p}
      i == Least(mine)
  IN  IF p = 0 \/ mine = {} \/ (k.proc_table[i].is_kernel /\ ~force) THEN k
      ELSE IF i = k.current THEN [k EXCEPT !.kill_requested_pid = p]
      ELSE end_process(k, i, 0)
proc_kill_exited(k, p, force) ==
  LET mine == {i \in Slots : k.proc_table[i].state # "UNUSED" /\ k.proc_table[i].pid = p}
      i == Least(mine)
  IN  IF p = 0 \/ mine = {} \/ (k.proc_table[i].is_kernel /\ ~force) THEN k
      ELSE IF i = k.current THEN [k EXCEPT !.kill_requested_pid = p]
      ELSE [end_process(k, i, 0) EXCEPT !.console = @ \/ k.foreground_pid = p]

proc_kill(k, p, force) ==
  LET mine == {i \in Live(k) : k.proc_table[i].pid = p}
      i == Least(mine)
      refused == k.proc_table[i].is_kernel /\ ~force
  IN  IF p = 0 \/ mine = {} \/ refused THEN k
      ELSE IF i = k.current THEN [k EXCEPT !.kill_requested_pid = p]
      ELSE [end_process(k, i, 0) EXCEPT !.console = @ \/ k.foreground_pid = p]

proc_handle_kill(k, c) ==
  IF \/ k.kill_requested_pid = 0
     \/ k.current = NoProc
     \/ k.kill_requested_pid # proc_current_pid(k)
  THEN k
  ELSE exit_and_switch([k EXCEPT !.kill_requested_pid = 0], 0, c)

\* Ctrl+E.
keyboard_kill(k) ==
  CASE k.foreground_pid # 0 -> proc_kill(k, k.foreground_pid, FALSE)
    [] k.foreground_pid = 0 /\ proc_current_is_user(k) ->
         [k EXCEPT !.kill_requested_pid = proc_current_pid(k)]
    [] OTHER -> k

timer_callback(k, c) ==
  LET p == proc_current_pid(k)
      t == 1 + IF p = k.slice_pid THEN k.slice_ticks ELSE 0
      s == [k EXCEPT !.tick = (@ + 1) % TickMod, !.slice_pid = p,
                     !.slice_ticks = IF p = 0 THEN 0 ELSE t % SliceTicks]
  IN  IF p # 0 /\ t >= SliceTicks THEN proc_schedule(s, TRUE, c) ELSE s

\* A child with a copy of the caller's frame; the caller is BLOCKED until the child
\* execs or ends.  dir and mem are the outcomes of the allocations.
proc_fork(k, dir, mem) ==
  LET i == FirstVacant(k)
      parent == IF dir THEN k.proc_table[k.current].pid ELSE 0
      r == place(k, new_process(k.next_pid, FALSE, parent, dir /\ mem))
  IN  IF ~CanCreate(k) THEN k
      ELSE IF ~(dir /\ mem) THEN r
      ELSE [switch_to(save_context(r), i) EXCEPT
              !.proc_table[k.current].state = "BLOCKED", !.sched_next = i]

\* A new image in slot i, resumed at its entry point.
proc_exec(k, i) ==
  [proc_wake_vfork_parent(k, i) EXCEPT !.proc_table[i].ctx = TRUE, !.sched_next = i]

-----------------------------------------------------------------------------
(* Steps *)

\* The stubs of interrupt.asm: resume sched_next_esp if it is set, the interrupted
\* frame otherwise; a redirected frame resumes in the boot context, which gives the
\* console back (bin_return_to_shell) and goes on with its idle loop.
Return(k) ==
  LET shell == k.sched_next = NoProc /\ k.to_shell
  IN  /\ cpu' = IF k.sched_next # NoProc THEN k.sched_next
                ELSE IF k.to_shell THEN NoProc ELSE cpu
      /\ kern' = [k EXCEPT !.sched_next = NoProc, !.to_shell = FALSE,
                           !.boot = IF shell THEN "reaper" ELSE @,
                           !.console = @ \/ shell]

\* Mutant: the pending kill request is not looked at.
Irq_no_kill(k) == Return(k)

\* irq_dispatch: the handler, then the pending kill request.
Irq(k) == Return(proc_handle_kill(k, cpu))

InUser == cpu # NoProc /\ cpu = kern.current /\ ~kern.proc_table[cpu].is_kernel
InThread(p) == cpu # NoProc /\ cpu = kern.current /\ kern.proc_table[cpu].pid = p /\ p # 0

Exit == InUser /\ \E code \in ExitCodes : Return(exit_and_switch(kern, code, cpu))

handle_user_exception == InUser /\ Return(exit_and_switch(kern, 1, cpu))

Yield == InUser /\ Return(proc_schedule(kern, TRUE, cpu))

SpawnThread == InUser /\ \E mem \in BOOLEAN : Return(proc_create(kern, FALSE, mem))

StartSysmgr == InUser /\ \E mem, mem2 \in BOOLEAN : Return(proc_start_reaper(kern, mem, mem2))

Spawn == InUser /\ \E mem, load \in BOOLEAN : Return(bin_create_process(kern, mem, load))

Exec == InUser /\ Return(proc_exec(kern, cpu))

Fork == InUser /\ \E dir, mem \in BOOLEAN : Return(proc_fork(kern, dir, mem))

Open ==
  /\ InUser
  /\ \E f \in Files :
       /\ kern.fd_owner[f] = 0
       /\ \A g \in Files : g < f => kern.fd_owner[g] # 0
       /\ Return([kern EXCEPT !.fd_owner[f] = proc_current_pid(kern)])

Close ==
  /\ InUser
  /\ \E f \in Files : /\ kern.fd_owner[f] = proc_current_pid(kern)
                      /\ Return([kern EXCEPT !.fd_owner[f] = 0])

\* The timer interrupt; with a USB keyboard its poll may find Ctrl+E first.
TimerTick ==
  \E key \in IF UsbKeyboard THEN BOOLEAN ELSE {FALSE} :
    Irq(timer_callback(IF key THEN keyboard_kill(kern) ELSE kern, cpu))

KeyboardKill == Irq(keyboard_kill(kern))

\* Console commands, run by the keyboard interrupt on Enter.
KillCommand ==
  kern.console /\ \E p \in 1 .. MaxPid, force \in BOOLEAN : Irq(proc_kill(kern, p, force))

BinBackground ==
  kern.console /\ \E mem, load \in BOOLEAN : Irq(bin_create_process(kern, mem, load))

\* bin, gui and sh, or two of them on one line joined by &&.
RequestPrograms ==
  /\ kern.console
  /\ \E ask \in SUBSET Programs :
       /\ ask # {} /\ ("exec" \in ask => "exec" \notin kern.pending)
       /\ Irq([kern EXCEPT !.pending = @ \cup ask, !.console = FALSE])

\* The sysmgr thread.
SysmgrReap ==
  /\ InThread(kern.reaper_pid)
  /\ kern.reap_pending
  /\ Return(proc_reap_background(kern, cpu))

sysmgr_launch_process(program) ==
  /\ InThread(kern.reaper_pid)
  /\ program \in kern.pending
  /\ \E mem, load \in BOOLEAN :
       LET k == [bin_create_process(kern, mem, load) EXCEPT !.pending = @ \ {program}]
           started == CanCreate(kern) /\ mem /\ load
       IN  Return(IF started THEN [k EXCEPT !.foreground_pid = kern.next_pid]
                  ELSE [k EXCEPT !.console = TRUE])

SysmgrLaunch ==
  \E program \in Programs :
    /\ program = "shell" => "exec" \notin kern.pending
    /\ sysmgr_launch_process(program)

\* The watchdog thread.
sysmgr_watchdog_thread ==
  InThread(kern.watchdog_pid) /\ \E mem, mem2 \in BOOLEAN : Return(proc_start_reaper(kern, mem, mem2))

\* The boot context: start_init with a loadable init, then the idle loop.
StartInit ==
  /\ cpu = NoProc /\ kern.boot = "init" /\ CanCreate(kern)
  /\ LET i == FirstVacant(kern)
     IN  Return([switch_to(proc_create(kern, FALSE, TRUE), i) EXCEPT
                   !.foreground_pid = kern.next_pid, !.sched_next = i])

IdleStartReaper ==
  /\ cpu = NoProc /\ kern.boot = "reaper"
  /\ \E mem, mem2 \in BOOLEAN :
       Return([proc_start_reaper(kern, mem, mem2) EXCEPT !.boot = "wait"])

IdleTakeNext ==
  /\ cpu = NoProc /\ kern.boot = "wait"
  /\ LET k == proc_reap_background(kern, NoProc)
         n == proc_find_next(k, k.current)
     IN  Return(IF kern.current # NoProc THEN [kern EXCEPT !.boot = "reaper"]
                ELSE IF n = NoProc THEN [k EXCEPT !.boot = "reaper"]
                ELSE [switch_to(k, n) EXCEPT !.sched_next = n])

Next ==
  \/ Exit \/ handle_user_exception \/ Yield \/ SpawnThread \/ StartSysmgr \/ Spawn
  \/ Exec \/ Fork \/ Open \/ Close
  \/ TimerTick \/ KeyboardKill \/ KillCommand \/ BinBackground
  \/ RequestPrograms \/ SysmgrReap \/ SysmgrLaunch \/ sysmgr_watchdog_thread
  \/ StartInit \/ IdleStartReaper \/ IdleTakeNext

Spec == Init /\ [][Next]_vars
\* The hardware timer keeps firing, a kernel thread that gets the CPU again and again
\* makes progress, and the boot context runs whenever it has the CPU.  Each formula is
\* the weak or strong fairness of its action, written with the action's guard.
Fairness ==
  /\ []<><<TimerTick>>_vars
  /\ []<>(InThread(kern.reaper_pid) /\ kern.reap_pending) => []<><<SysmgrReap>>_vars
  /\ []<>(cpu # NoProc \/ kern.boot # "init") \/ []<><<StartInit>>_vars
  /\ []<>(cpu # NoProc \/ kern.boot # "reaper") \/ []<><<IdleStartReaper>>_vars
  /\ []<>(cpu # NoProc \/ kern.boot # "wait") \/ []<><<IdleTakeNext>>_vars

FairSpec == Spec /\ Fairness

-----------------------------------------------------------------------------
(* Properties *)

TypeOK == kern \in Kernel /\ cpu \in Slots \cup {NoProc}

\* A pid that wait, kill and the descriptor table look up names at most one slot, and
\* every live process has one, although failed creations leave pids behind in unused
\* slots and slots are reused in every order.
PidsUnique ==
  /\ \A i, j \in Slots : kern.proc_table[i].pid = kern.proc_table[j].pid
                          => i = j \/ kern.proc_table[i].pid = 0
  /\ \A i \in Live(kern) : kern.proc_table[i].pid # 0
  /\ \A i \in Slots : kern.proc_table[i].pid < kern.next_pid

\* The processor executes the context of the process that the kernel takes for the
\* current one, which is the only RUNNING process (or the boot context when there is
\* none), after every combination of schedule, exit and kill in one interrupt.
RunsCurrent ==
  /\ cpu = kern.current
  /\ \A i \in Slots : kern.proc_table[i].state = "RUNNING" <=> i = kern.current

\* A process runs with its own page directory loaded.
OwnAddressSpace ==
  kern.current # NoProc => kern.cr3 = page_dir(kern, kern.current)

\* A process that fork blocked always has a live child that will wake it: whichever way
\* the child ends (exit, fault, either kind of kill) or execs, the parent is woken.
VforkParentWakes ==
  \A i \in Slots : kern.proc_table[i].state = "BLOCKED" =>
    \E j \in Live(kern) : j # i /\ kern.proc_table[j].vfork_parent_pid = kern.proc_table[i].pid

\* The foreground pid, which Ctrl+E kills and whose exit gives the console back, is
\* always that of a live process.
ForegroundAlive ==
  kern.foreground_pid # 0 => proc_pid_active(kern, kern.foreground_pid)

\* The console is taken from the user only for a program that is starting or is the
\* live foreground process (or for init, before it first returns): no exit or kill
\* leaves the machine without a shell to type at.
ConsoleReturns ==
  kern.console \/ kern.pending # {} \/ kern.foreground_pid # 0 \/ kern.next_pid = 1

\* Somebody can always be typed at: through every order of launches, exits and kills the
\* foreground pid names a live process, and without one the console is the user's.
ConsoleKept == ForegroundAlive /\ ConsoleReturns

\* A descriptor in use belongs to a process that is still in the table: none survives
\* the cleaning of its owner's slot.
FdOwnerKnown ==
  \A f \in Files : kern.fd_owner[f] # 0 =>
    \E i \in Slots : kern.proc_table[i].pid = kern.fd_owner[f] /\ kern.proc_table[i].state # "UNUSED"

\* A kill request made by a key or a command has been served when its interrupt returns.
KillServed == kern.kill_requested_pid = 0

\* "Fully integrated with the existing PS/2 input handling": a key from a USB keyboard,
\* taken in the timer interrupt, kills as one from the PS/2 interrupt does, so the
\* processor never goes on executing a process that has been killed.
KilledStops == cpu # NoProc => kern.proc_table[cpu].state # "EXITED"

\* "Avoid freeing the kernel stack we are currently running on": no step cleans the slot
\* on whose kernel stack it runs.
StackKept == [][cpu # NoProc => kern'.proc_table[cpu].pid = kern.proc_table[cpu].pid]_vars

\* What SYS_WAIT answers for p: 0 while it runs, 1 once it has exited, 2 when unknown.
wait_result(k, p) ==
  LET mine == {i \in Slots : k.proc_table[i].pid = p}
  IN  IF \E i \in mine : k.proc_table[i].state = "EXITED" THEN 1
      ELSE IF \E i \in mine : k.proc_table[i].state # "UNUSED" THEN 0
      ELSE 2

\* The answers of wait for a pid only move from running to exited to unknown, and the
\* exit code it reports never changes: no process comes back, whoever reuses its slot.
WaitMonotone ==
  [][\A p \in 1 .. MaxPid : p < kern.next_pid =>
       /\ wait_result(kern', p) >= wait_result(kern, p)
       /\ \A i \in Slots : /\ kern.proc_table[i].pid = p /\ kern.proc_table[i].state = "EXITED"
                            /\ kern'.proc_table[i].pid = p
                            => kern'.proc_table[i].exit_code = kern.proc_table[i].exit_code]_vars

\* A process that is ready to run gets the CPU, or is killed first.
ReadyRuns ==
  \A i \in Slots : (i \in Runnable(kern)) ~> (kern.proc_table[i].state # "READY")

\* While the sysmgr thread lives, every slot waiting to be reaped is cleaned or reused.
ExitedReaped ==
  \A p \in 1 .. MaxPid :
    (wait_result(kern, p) = 1 /\ kern.reap_pending)
      ~> (wait_result(kern, p) = 2 \/ ~proc_pid_active(kern, kern.reaper_pid))
=============================================================================
