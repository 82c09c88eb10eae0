# A TLA+ model of orionOS

orionOS is a 32-bit x86 kernel in C for one CPU. This directory models its
process management, work queue, heap, file systems, drives and mounts, USB core,
keyboards and text editor in TLA+, checks them with TLC, and proves the first
three, and one property of the USB core, with TLAPS.

## How the system executes

- A system call (`int 0xA5`) and an interrupt handler run with interrupts off.
  Each is one atomic step unless it turns them on itself.
- The sysmgr thread, the watchdog thread and the boot context's idle loop run
  with interrupts on: the timer can preempt them anywhere.
- A handler does not switch contexts itself. It sets `sched_next_esp`, or
  redirects the interrupted frame, and the stubs of `cpu/interrupt.asm` act on it.
- The timer never schedules when there is no current process. The foreground
  process returns through `bin_exit_trampoline` to the boot context.
- A console command runs inside the keyboard's handler (`user_input` in
  `kernel.c`): in IRQ1, or, for a USB keyboard, in the timer interrupt that
  polls it. A command that enables interrupts or waits gets nested interrupts,
  which poll the same keyboards.
- Ports and disks are scanned by the sysmgr thread, from the work queue, while
  commands and interrupts go on.

## Parts and modules

| Part of the source | Module | What is hard |
|---|---|---|
| `kernel/proc/proc.c`, `bin.c`, process calls of `syscall.c`, `cpu/` | `Proc` | several operations in one interrupt, slot reuse |
| launch by `sysmgr.c`, preempted | `Launch` | claim and use of a slot with interrupts on |
| `workqueue.c`, rescan requests of `disk.c` and the USB controllers | `Rescan` | full ring, flags taken by two threads |
| `mm/mem.c` | `Heap`, `Allocator` | split, coalesce, commits that fail half way |
| `fs/fat16.c` | `FatDir`, `Fat16` | chains, long names, full volumes |
| `fs/fat32.c` | `FatDir`, `Fat32` | the same, and the current directory |
| `fs/xvfs.c` | `Xvfs` | consecutive blocks, one-block directories |
| `ata.c`, `disk.c`, `ramdisk.c`, `fscmd.c`, `fsbg.c`, disk commands of `cmd.c` | `Storage` | three ideas of what is mounted, scans in between |
| `keyboard.c`, `hid_boot_kbd.c` | `Keyboard` | commands inside the poll, lost releases |
| descriptor parsers of `usb.c` and `hid_boot_kbd.c` | `Hid` | state carried between items |
| `fs/note.c` | `Note` | edges of lines, buffer and screen |
| mass storage of `usb.c` | `Msc` | lost, late and repeated transfers |
| enumeration and device tables of `usb.c`, port scans of `xhci.c`, `ehci.c`, `ohci.c` | `Devices` | devices that come and go while they are looked at |

`MC*` modules and `.cfg` files instantiate them for TLC; `ProcProofs`,
`RescanProofs`, `HeapProofs` and `DevicesProofs` hold the proofs. `PROJECT.json` maps every
definition to its source lines, and lists the components and the hazards.

### Proc and Launch

The kernel's globals are the fields of the record `kern`; every C function that
changes them is an operator from record to record with the function's name.
`cpu` is the context the processor really executes. `Return` is the assembly
stub, `Irq` is a handler followed by `proc_handle_kill`. `Launch` extends `Proc`
and splits `sysmgr_launch_process` where interrupts are on: claim the slot, make
it READY without a context, load and build the frame, set the foreground pid.

`Proc` takes each operation of a kernel thread as one step. It describes the
executions in which no tick falls inside such an operation, and so do the proofs
about it. With a launch preempted (`Launch`), `PidsUnique`, `VforkParentWakes`,
`ConsoleKept` and, with a descriptor, `FdOwnerKnown` are lost; the two runs of
`Launch` show two consequences. The scan-to-pid claim and the creation of kernel
threads are single steps in `Launch` too.

### Rescan

The ring of the work queue and its users: the polls of the controllers in the
timer interrupt, `disk_request_rescan`, the part of the sysmgr thread that runs
the queue and looks at the flags, and `usbscan`. Each section with interrupts off
is a step. The console is a second thread: the first `*_take_rescan_pending` of
`usbscan` turns interrupts on in the middle of the keyboard interrupt. `dirty` and
`stale` are history: what has been noticed and not yet been looked at.

### Heap

`list.hdr` maps the addresses of the listed headers to their contents. A commit
of pages may fail at any page; `mapped` is the end of what is really mapped.
`Allocator` is what callers rely on: a pointer is aligned, inside the heap, and
its bytes belong to nobody else.

### FatDir, Fat16, Fat32, Xvfs

A volume is its allocation table or bitmap, its directories as sequences of
slots, and its data as numbered sectors. Every operation of a driver is one
action: the console commands and system calls that change a volume run with
interrupts off. The sysmgr thread's reading of program files can be preempted;
that is not modelled. `FatDir` is the code that `fat16.c` and `fat32.c`
each have a copy of (short and long names, directory walks); it is mapped to one
of the copies. `Fat16`'s creation is the one of the driver table. XVFS names have
at most 15 characters.

Each operation sets `hurt` when it runs into one of the known deviations below,
and the run does not follow a damaged volume further (`Sound`). The properties
say that nothing else damages a volume.

### Storage

The media behind each drive number, the table `disks[]` with its probe, the
console's mount, the drivers' own idea of drive and geometry, the format
routines with the layouts they compute, partitioning, the RAM disk, `cp -b` and
`svrd`. The scan of the work queue is a thread of its own, one drive per step;
`svrd` is split where it mounts, writes and goes back. Inside a volume there is
only a tree of files.

### Keyboard, Hid, Note, Msc, Devices

`Keyboard` turns reports into scan codes and scan codes into the console's line,
its history and the key buffer. `frames` is the stack of handlers that wait for
the command they started; a nested poll may use, drop or refill the keyboard of
an outer handler, which goes on with what it finds. `kb.past`, `ghost.sent`,
`ghost.lost` are history.

`Hid` and `Note` are operators: the report parsers as folds over items, the
editor as a function of buffer and key. `Msc` is the bulk-only transport with
tags, toggles, retries and recovery against a stick that may lose, delay or
refuse any transfer.

`Devices` composes them. The ports, the addresses and the change bits are the
hardware; a scan is a thread whose steps end where the code waits for a transfer
or where another context could look at the tables (`DropMove`, `DropRenumber`,
`DropClear`). EHCI and OHCI scan alike and are one kind of controller, xHCI is
the other. One scan runs at a time; the code does not exclude `usbscan` and the
work queue from scanning together.

## Runs

| Run | Shows |
|---|---|
| `proc` | seven invariants and two action properties of `Proc` |
| `proc_live` | a ready process runs and an exited one is reaped |
| `proc_usb_kill` | violation: Ctrl+E on a USB keyboard in the tick that ends the slice leaves a killed process executing |
| `launch_exit_to_shell` | violation: a launched program that exits early leaves the console disabled |
| `launch_fork` | violation: a fork during a launch loses its child |
| `rescan` | ring, mark of the disk request, every noticed change is scanned, a storage change is followed by a new disk list |
| `heap` | the block list, the heap in use is mapped, `Heap` implements `Allocator` |
| `fat16`, `fat32` | chains are sound, readers agree, names or the current directory are right, files follow the operations |
| `xvfs` | blocks are owned, readers agree, files and the free count follow the operations |
| `storage` | the mount stays true, a format is found again, `cp -b` reaches the disk it names, `svrd` restores the console |
| `devices` | tables name live devices; modifiers, repeats, history and text follow the keys; layouts are what descriptors say; storage calls that succeed moved the right sectors |

Every passing property has a mutant of the code's model that breaks it.

### Bounds

`proc`. Four slots hold init, the two kernel threads and one more process; reuse
and a full table both happen. `MaxPid` stands for a full table once pids run out,
so pid wrap-around is not covered. `TickMod` is 1 where ticks need not be told
apart. The `launch_*` runs start from a booted state (`Booted`) that is reached
from boot in seven states.

`rescan`. Three usable cells, so that requests are refused. Two controllers are
enough for the two kinds of poll: UHCI's clears the change bit, the others leave
it to the scan.

`heap`. The header's 16 bytes, a page of 64 bytes, a heap that ends inside its
fifth page, sizes that need one word or most of a hole, and no alignment or one
of 64. Splits with and without a leading part, gaps that become a block, go to
the last block or are lost, a full heap and commits of two pages that fail at
either page all happen.

`fat16`, `fat32`, `xvfs`. Each run has two small volumes: one that fills up, with
directories that grow or are full, and one for long names (FAT) or files of
several blocks (XVFS); four or five operations each. The view leaves out the
record of the last operation and the number of operations so far;
action properties are checked on every step.

`storage`. Two machines with whole and partitioned media of the three kinds, two
sticks to plug in, four drives, three commands or media changes.

`devices`. Fourteen worlds, each a machine with the inputs one question needs:
modifiers with faults, two keyboards, one keyboard whose handlers nest, a
keyboard with the report protocol, history, sticks, mixed devices, a hub,
`usbscan`, the editor, keyboard and mouse descriptors and configurations built
item by item, and a stick with two faults. `Shallow` bounds how deep handlers
nest and, in the editor's world, the commands typed. The view forgets what
nothing reads again. These worlds end, so deadlock is not checked.

### Fairness

`Proc` (`FairSpec`): the hardware timer keeps firing; the sysmgr thread, when it
gets the CPU again and again with work pending, does it; the boot context goes on
while it has the CPU. The formulas are written with the guards instead of
`ENABLED`. With an unbounded stream of exits a ready process could wait for ever,
since the scan restarts at slot 0 after an exit; the bound on pids excludes that,
so `ReadyRuns` does not speak about it.

`Rescan`: the timer's polls keep coming, the sysmgr thread is woken and goes on,
the console goes on with a command it has begun. A thread that has the CPU is not
stopped for ever, since the scheduler is round-robin.

## Proofs

### Proc

For every number of slots, pids and descriptors, without a USB keyboard
(`UsbKeyboard = FALSE`, a hypothesis of every theorem: `proc_usb_kill` shows it
is needed). The inductive invariant `IInv` joins the invariants with the facts
that make them inductive: no handler leaves `sched_next` or `to_shell` set, no
kill request is pending between steps, and the boot context is still before
`start_init` as long as no pid has been handed out. `Good` is what every C
function preserves, one lemma per function; a handler composes the lemmas in the
order of the code.

Proved: `TypeOK`, `PidsUnique`, `RunsCurrent`, `OwnAddressSpace`,
`VforkParentWakes`, `ConsoleKept`, `FdOwnerKnown`, `KillServed`, `StackKept`. Only
model-checked: `WaitMonotone` and liveness. Nothing is proved about `Launch`.

### Rescan

For every ring size and number of controllers. The invariant ties each cell of
the ring to head and tail, and the mark `disk_rescan_pending` to the one item or
thread that is responsible for it; `RingOK` and `PendingIsOwned` follow. The two
liveness properties are only model-checked.

### Heap

For every size of header, page and heap and all requests. `Good` says that a list
is a chain in address order whose blocks do not overlap and end below a bound.
Dividing, joining, marking, growing and appending keep it: for each there is a
lemma on the resulting list, header by header where links change, and one that the
list is good. `kmalloc` and `kfree` compose them. `HeapSafe` is the invariant,
`HeapAllocates` the refinement: the new block is disjoint from the held ones
because it is one of the blocks of a good list, and so are they.

### Devices

For every size of the tables, every set of ports and every device plugged in:
`DrivesNamed`, a part of `EntriesLive`. A drive number belongs to one stick, also
between the three steps in which a stick is taken out. The invariant says what the
table looks like in between: after the last stick has been copied over the one
that goes, the two cells are equal and every other cell has its number; a stick
that is being probed has its number behind the ones that are counted.

### Only model-checked

The file systems, `Storage`, and the rest of `Devices` and its parts. Their operations walk
chains, trees and item lists, and what such recursion computes for every input is
out of the prover's reach; so are fairness and `ENABLED`.

## Known deviations

Places where the code does something its caller would not expect. The models
follow the code; the properties exempt these cases by name (`hurt`, `loose`,
`lost`, `missed`, `torn`).

FAT16. A directory that grows for a long name keeps an end mark before the new
entry (`fat16.c:979`); `is_dir_empty` looks at one cluster (2042); a file is
accepted as the last directory of a path (259); `mv` onto itself deletes the file
(2309); a failed overwrite leaves the entry on its freed chain (1699); the current
directory can be removed (2098).

FAT32. `..` goes by the second slot, also in the root (`fat32.c:1969`); the second
pass of the allocation skips the entries before the hint in its own sector (106);
links and frees are not mirrored (1378); an overwrite loses the old clusters
(1366) and on a full volume the file's end (1367); `cp` onto itself zeroes the file
(1659); a write through a directory's entry overwrites its entries (1336).

XVFS. Of a file only the first block is marked (`xvfs.c:460`); a directory is full
although it has deleted entries (449); the free count is not written back (1125);
blocks behind the volume's end are handed out (149); `cp` onto a directory
overwrites its block (721); the current directory can be removed (1011).

Storage. The caches of `cp -b` (`fsbg.c:80`) outlive a mount, and `cp -b` sets the
console's driver up for another disk. A failed `fat32_init` has changed the driver's
parameters (`fat32.c:747`). A FAT32 format of fewer than 65559 sectors writes a
table of no sectors; a FAT16 volume of fewer than 4085 clusters is not accepted, and
`fat16_init` then takes another FAT16 partition. A format does not refresh the table.
Writing goes by the table's kind of file system, everything else by the console's.
Copying a directory into itself ends only when the path is too long.

Keyboards. Ctrl stays on until Ctrl+E; the prefix 0xE0 is shared by all keyboards
and stays set after Alt or Ctrl with it, so that the next Shift release is not
seen, and while a command started by the keypad's Enter runs. One Shift release
clears Shift. An unplugged or silent keyboard leaves Shift on. With the report
protocol an outer handler puts an old report back after its command. Between the
end of a command and the clearing of the line (`kernel.c:262`) a nested Enter runs
the line again.

Editor. A line as wide as the buffer loses a character when loaded; an empty last
line is not saved; a file is cut at 8191 bytes; Right stops on lines wider than the
screen; joining the first line shown leaves the cursor above the window.

USB. The data toggle moves once per transfer and not once per packet
(`usb.c:868`). Changes on hub ports are not watched. Addresses start at 1 again in
every scan of EHCI and OHCI while later ports still have theirs. xHCI's
acknowledgement at the end of a port's enumeration takes a change made meanwhile
with it. A failed enumeration keeps its xHCI slot, and `usbscan` does not find the
devices of xHCI ports again. Unplugging a stick gives its drive number to the last
one, and a storage call that is under way goes on with the other stick
(`usb.c:1720`). A failed bulk-only reset can leave a stick waiting for data, and it
takes the next command for it.

## Not modelled

- Process management: a `start_init` that fails and leaves `current_proc` on a
  cleaned slot; `fg`, which saves the boot context inside an interrupt; the freed
  page directory that is still loaded in the boot context; exit codes equal to a
  `WAIT_*` answer; wrap-around of pids.
- Rescan: a sysmgr thread killed with `kill -f` while it works off the queue.
- Heap: two callers inside `mem.c` at once, which the code does not exclude; sizes
  near 2^32; pointers that `kmalloc` did not return; the frames a failed commit
  loses.
- System calls that read, write or draw; the GUI message ring. Each copies data in
  one uninterrupted call.
- The page allocator's bitmap and the page tables.
- Registers, rings and schedules of the disk and USB controllers, and UHCI's own
  stack for keyboards and mice: device I/O.
- The timer tasks, which nothing in the kernel schedules.
- The ELF loader, configuration, log, audio, screen, fonts, the mouse pointer and
  PCI: bytes, drawing and register programming.
- User programs and their libraries.
