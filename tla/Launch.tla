------------------------------- MODULE Launch -------------------------------
(***************************************************************************)
(* Proc takes the launch of a requested program as one step.  In the code  *)
(* sysmgr_launch_process runs in the sysmgr thread with interrupts on, so  *)
(* every other step can come between its parts.  This module splits it     *)
(* where interrupts are on: the slot is claimed, the process is made READY *)
(* without a context, the image is loaded and the frame built (one         *)
(* irq_save section), and the foreground pid is set.  The claim itself,    *)
(* scan to pid, is kept as one step, and so is the creation of kernel      *)
(* threads.                                                                *)
(***************************************************************************)
EXTENDS Proc

VARIABLE launch   \* where the sysmgr thread is, and the slot its pointer p names

lvars == <<kern, cpu, launch>>

NotLaunching == [at |-> "idle", slot |-> 0]

LaunchStates == [at : {"idle", "claimed", "ready", "built"}, slot : Slots]

LaunchInit == Init /\ launch = NotLaunching

At(point) == InThread(kern.reaper_pid) /\ launch.at = point

\* The thread's stack, and the launch with it, is gone once the thread has been killed.
KeepLaunch ==
  launch' = IF kern'.reaper_pid = kern.reaper_pid /\ proc_pid_active(kern', kern'.reaper_pid)
            THEN launch ELSE NotLaunching

\* bin_create_process returned NULL: the console is given back.
Failed(k) == Return([k EXCEPT !.console = TRUE]) /\ launch' = NotLaunching

GoOn(k, point) == Return(k) /\ launch' = [launch EXCEPT !.at = point]

\* proc_create_common up to the pid: the slot is clean, and still UNUSED.
Claim ==
  /\ At("idle")
  /\ \E program \in kern.pending :
       /\ program = "shell" => "exec" \notin kern.pending
       /\ LET k == [kern EXCEPT !.pending = @ \ {program}]
          IN  IF CanCreate(k)
              THEN /\ Return(place(k, new_process(k.next_pid, FALSE, 0, FALSE)))
                   /\ launch' = [at |-> "claimed", slot |-> FirstVacant(k)]
              ELSE Failed(k)

\* The rest of proc_create_common: directory, stacks, READY with no context.
MakeReady ==
  /\ At("claimed")
  /\ \/ GoOn([kern EXCEPT !.proc_table[launch.slot].state = "READY",
                          !.proc_table[launch.slot].ctx = FALSE], "ready")
     \/ Failed([kern EXCEPT !.proc_table[launch.slot].state = "UNUSED"])

\* The interrupts-off part of bin_create_process.
Load ==
  /\ At("ready")
  /\ \/ GoOn([kern EXCEPT !.proc_table[launch.slot].ctx = TRUE], "built")
     \/ Failed(proc_cleanup(kern, launch.slot))

SetForeground ==
  /\ At("built")
  /\ Return([kern EXCEPT !.foreground_pid = kern.proc_table[launch.slot].pid])
  /\ launch' = NotLaunching

Others ==
  \/ Exit \/ handle_user_exception \/ Yield \/ SpawnThread \/ StartSysmgr \/ Spawn
  \/ Exec \/ Fork \/ Open \/ Close
  \/ TimerTick \/ KeyboardKill \/ KillCommand \/ BinBackground \/ RequestPrograms
  \/ (SysmgrReap /\ launch.at = "idle")
  \/ sysmgr_watchdog_thread \/ StartInit \/ IdleStartReaper \/ IdleTakeNext

LaunchNext ==
  \/ Claim \/ MakeReady \/ Load \/ SetForeground
  \/ (Others /\ KeepLaunch)

LaunchSpec == LaunchInit /\ [][LaunchNext]_lvars

-----------------------------------------------------------------------------
(* Properties *)

\* "exit_to_shell": once the console has been given up for a program, there is a program
\* still to be started, one being started, or a live foreground one whose exit returns
\* to the shell.
ExitsToShell ==
  \/ kern.console \/ kern.pending # {} \/ launch.at # "idle" \/ kern.next_pid = 1
  \/ proc_pid_active(kern, kern.foreground_pid)

\* "fork() -> pid (parent), 0 (child)": the frame in which the child returns 0 is the one
\* it is resumed with; nobody takes the context of a live child away.
ForkChildKept ==
  [][\A i \in Live(kern) :
       /\ kern.proc_table[i].vfork_parent_pid # 0 /\ kern.proc_table[i].ctx
       /\ kern'.proc_table[i].pid = kern.proc_table[i].pid
       => kern'.proc_table[i].ctx]_lvars
=============================================================================
