------------------------------ MODULE MCLaunch ------------------------------
(***************************************************************************)
(* Launch from boot, and from one state it reaches: init has returned to   *)
(* the shell and been reaped, the sysmgr thread runs, the watchdog could   *)
(* not be created for want of memory, and one program runs in the          *)
(* background.  Starting there leaves the pids for the launches and forks. *)
(***************************************************************************)
EXTENDS Launch

Process0(state, pid, kernel) ==
  [state |-> state, pid |-> pid, is_kernel |-> kernel, ctx |-> TRUE, exit_code |-> 0,
   vfork_parent_pid |-> 0]

Booted ==
  [proc_table |-> [i \in Slots |-> CASE i = 0 -> Process0("RUNNING", 2, TRUE)
                                     [] i = 1 -> Process0("READY", 4, FALSE)
                                     [] OTHER -> Blank],
   current |-> 0, next_pid |-> 5, reaper_enabled |-> TRUE, reap_pending |-> FALSE,
   reaper_pid |-> 2, watchdog_pid |-> 0, kill_requested_pid |-> 0, foreground_pid |-> 0,
   sched_next |-> NoProc, to_shell |-> FALSE, cr3 |-> 0, fd_owner |-> [f \in Files |-> 0],
   slice_ticks |-> 0, slice_pid |-> 2, boot |-> "wait", tick |-> 0, console |-> TRUE,
   pending |-> {}]

BootedSpec ==
  /\ kern = Booted /\ cpu = 0 /\ launch = NotLaunching
  /\ [][LaunchNext]_lvars
=============================================================================
