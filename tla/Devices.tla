------------------------------ MODULE Devices ------------------------------
(***************************************************************************)
(* The USB core (drivers/usb/usb.c) and the port scans of its controllers  *)
(* together with the keyboards and the editor: devices come and go, the    *)
(* sysmgr thread enumerates them and fills the tables, the timer interrupt *)
(* polls them, and keys reach the console's line or the editor.            *)
(*                                                                         *)
(* Two kinds of controller differ in how they scan: EHCI and OHCI ("old")  *)
(* drop all their devices and scan every port; xHCI keeps a slot for each  *)
(* device and looks at the ports that changed.  A transfer to a device     *)
(* works only while the device has the address it was given.               *)
(***************************************************************************)
EXTENDS Keyboard, Hid, Note, Msc

CONSTANTS
    MaxStorage, \* USB_MAX_STORAGE_DEVS
    MaxHid,     \* USB_MAX_HID_DEVS
    Configs,    \* configuration descriptor of each kind of device
    Descs       \* report descriptor of each kind of device

ASSUME TablesAssumption == MaxStorage \in Nat /\ MaxHid \in Nat

VARIABLES
    bus,        \* the ports and the controllers
    tab,        \* usb.c: storage_devs and hid_devs
    scan,       \* the scan that is going on
    ed,         \* note.c
    desc        \* descriptors of some device

devvars == <<vars, bus, tab, scan, ed, desc, mscvars>>

HCs == {"old", "xhci"}
Ports == DOMAIN w.ports
HcOf(p) == w.ports[p].hc

\* A port of the controller itself, and the ports of the hub at p.
RootPorts(hc) == {p \in Ports : HcOf(p) = hc /\ w.ports[p].hub = 0}
HubPorts(p) == {q \in Ports : w.ports[q].hub = p}

NoCell == [dev |-> <<>>, drive |-> -1]
Idle == [pc |-> "idle", rest |-> <<>>, todo |-> <<>>, dev |-> <<>>, i |-> 0, conn |-> FALSE, cmd |-> 0]

DevInit ==
    /\ KbdInit
    /\ bus = [at |-> [p \in Ports |-> "none"], addr |-> [p \in Ports |-> <<>>], chg |-> {}, pend |-> {}, next |-> 1,
              slots |-> [n \in 1 .. Cardinality(Ports) |-> 0], missed |-> {}, moves |-> 0]
    /\ tab = [cells |-> [i \in 1 .. MaxStorage |-> NoCell], count |-> 0, mice |-> <<>>, ignore |-> FALSE]
    /\ scan = Idle
    /\ ed = [mode |-> "off", buf |-> <<<<>>>>, cy |-> 0, cx |-> 0, scroll |-> 0, file |-> w.file]
    /\ desc \in w.desc
    /\ MscInit(w.msc)

(***************************************************************************)
(* The ports.  A device that is plugged in or out, or whose port is reset, *)
(* has no address; the ones behind a hub go with it.                       *)
(***************************************************************************)
Below(p) == {p} \cup HubPorts(p)

Silent(b, S) == [b EXCEPT !.addr = [p \in Ports |-> IF p \in S THEN <<>> ELSE b.addr[p]]]

\* Nothing watches the ports of a hub: their changes are missed.
Moved(b, p) ==
    IF w.ports[p].hub # 0 THEN [b EXCEPT !.missed = @ \cup {p}, !.moves = @ + 1]
    ELSE [b EXCEPT !.chg = @ \cup {p}, !.missed = @ \ {p}, !.moves = @ + 1]

Plug ==
    \E p \in Ports, k \in w.plug :
        /\ bus.moves < w.moves /\ bus.at[p] = "none"
        /\ w.ports[p].hub # 0 => k # "hub" /\ bus.at[w.ports[p].hub] = "hub"
        /\ bus' = [Moved(bus, p) EXCEPT !.at = [@ EXCEPT ![p] = k]]
        /\ UNCHANGED <<vars, tab, scan, ed, desc, mscvars>>

Unplug ==
    \E p \in Ports :
        /\ bus.moves < w.moves /\ bus.at[p] # "none"
        /\ bus' = [Silent(Moved(bus, p), Below(p))
                     EXCEPT !.at = [q \in Ports |-> IF q \in Below(p) THEN "none" ELSE bus.at[q]]]
        /\ UNCHANGED <<vars, tab, scan, ed, desc, mscvars>>

\* A rescan is asked for once; the old controllers acknowledge the change then.
ehci_poll_changes(b) ==
    LET c == b.chg \cap RootPorts("old")
    IN  IF c = {} \/ "old" \in b.pend THEN b ELSE [b EXCEPT !.chg = @ \ {Min(c)}, !.pend = @ \cup {"old"}]

xhci_poll_changes(b) ==
    IF b.chg \cap RootPorts("xhci") = {} THEN b ELSE [b EXCEPT !.pend = @ \cup {"xhci"}]

\* What usb_poll does after the keyboards.
poll_changes(b) == xhci_poll_changes(ehci_poll_changes(b))

(***************************************************************************)
(* The tables.                                                             *)
(***************************************************************************)
\* Mice that have gone.  The last one fills a gap in the code; nothing reads the order.
usb_hid_drop(t, gone) == [t EXCEPT !.mice = SelectSeq(@, LAMBDA d : d \notin gone), !.ignore = ~(ToSet(t.mice) \subseteq gone)]

\* A mouse gets an entry, unless there is none or a request fails.
usb_hid_attach(t, ep, dev) ==
    IF ep = 0 \/ Len(t.mice) >= MaxHid THEN {t} ELSE {t, [t EXCEPT !.mice = Append(@, dev), !.ignore = TRUE]}

find_dev_by_drive(t, n) == {t.cells[i].dev : i \in {j \in 1 .. t.count : t.cells[j].drive = n}}

(***************************************************************************)
(* A scan.  rest are the controllers still to scan and todo the ports of   *)
(* this one.  The thread and the command do not scan at the same time      *)
(* here; in the code nothing keeps them apart.                             *)
(***************************************************************************)
RescanWork ==
    \E hc \in bus.pend :
        /\ scan = Idle
        /\ bus' = [bus EXCEPT !.pend = @ \ {hc}]
        /\ scan' = [Idle EXCEPT !.pc = "begin", !.rest = <<hc>>]
        /\ UNCHANGED <<vars, tab, ed, desc, mscvars>>

\* A command, in handler cmd.  usb_hid_reset and usb_storage_reset come first;
\* they leave the slots of xHCI alone.
dispatch_usbscan ==
    /\ w.usbscan /\ bus.moves < w.moves /\ scan = Idle
    /\ frames # <<>> /\ Last(frames).pc = "run"
    /\ Goes(hid_boot_kbd_init(State), UNION {ModsOf(i) : i \in {j \in Slots : kbds[j].active}})
    /\ bus' = [bus EXCEPT !.pend = {}, !.moves = @ + 1]
    /\ tab' = [cells |-> [i \in 1 .. MaxStorage |-> NoCell], count |-> 0, mice |-> <<>>, ignore |-> FALSE]
    /\ scan' = [Idle EXCEPT !.pc = "begin", !.rest = <<"old", "xhci">>, !.cmd = Len(frames)]
    /\ UNCHANGED <<ps2, ed, desc, mscvars>>

\* A command that scans waits for the handlers above its own.
Scans(pc) == scan.pc = pc /\ (scan.cmd = 0 \/ Len(frames) = scan.cmd)

\* The next port, the next controller or the end.
Onward(s, todo) ==
    [Idle EXCEPT !.pc = IF todo # <<>> THEN "port" ELSE IF s.rest # <<>> THEN "begin" ELSE "idle",
                 !.todo = todo, !.rest = s.rest, !.cmd = IF todo # <<>> \/ s.rest # <<>> THEN s.cmd ELSE 0]

\* *_rescan_all_ports: the old controllers first drop their devices, the sticks one by one.
BeginScan ==
    LET hc == Head(scan.rest)
        s == [scan EXCEPT !.rest = Tail(@)]
        ports == SetToSortSeq(RootPorts(hc), <)
    IN  /\ Scans("begin")
        /\ IF hc = "xhci"
           THEN /\ scan' = Onward(s, ports)
                /\ UNCHANGED <<vars, tab, bus>>
           ELSE /\ scan' = [s EXCEPT !.pc = "drop", !.todo = ports]
                /\ Goes(hid_boot_kbd_drop_controller(State, "old"),
                        UNION {ModsOf(i) : i \in {j \in Slots : kbds[j].active /\ kbds[j].dev[1] = "old"}})
                /\ tab' = usb_hid_drop(tab, {d \in ToSet(tab.mice) : d[1] = "old"})
                /\ bus' = [bus EXCEPT !.next = 1]
                /\ UNCHANGED ps2
        /\ UNCHANGED <<ed, desc, mscvars>>

\* usb_storage_drop_device, for the device that left its slot or for all of the
\* old controllers: the last stick moves into the cell and is renumbered.
Doomed == {i \in 1 .. tab.count : IF scan.dev = <<>> THEN tab.cells[i].dev[1] = "old" ELSE tab.cells[i].dev = scan.dev}

DropMove ==
    /\ Scans("drop") /\ Doomed # {}
    /\ tab' = [tab EXCEPT !.cells = [@ EXCEPT ![Min(Doomed)] = tab.cells[tab.count]]]
    /\ scan' = [scan EXCEPT !.pc = "renumber", !.i = Min(Doomed)]
    /\ UNCHANGED <<vars, bus, ed, desc, mscvars>>

\* (variant) the stick keeps the number it had.
DropRenumber_kept ==
    /\ Scans("renumber")
    /\ scan' = [scan EXCEPT !.pc = "clear"]
    /\ UNCHANGED <<vars, bus, tab, ed, desc, mscvars>>

DropRenumber ==
    /\ Scans("renumber")
    /\ tab' = [tab EXCEPT !.cells = [@ EXCEPT ![scan.i] = [dev |-> tab.cells[scan.i].dev, drive |-> scan.i - 1]]]
    /\ scan' = [scan EXCEPT !.pc = "clear"]
    /\ UNCHANGED <<vars, bus, ed, desc, mscvars>>

DropClear ==
    /\ Scans("clear")
    /\ tab' = [tab EXCEPT !.cells = [@ EXCEPT ![tab.count] = NoCell], !.count = @ - 1]
    /\ scan' = [scan EXCEPT !.pc = "drop", !.i = 0]
    /\ UNCHANGED <<vars, bus, ed, desc, mscvars>>

\* The sticks of the old controllers are gone: on to the ports.
DropDone ==
    /\ Scans("drop") /\ Doomed = {} /\ scan.dev = <<>>
    /\ scan' = Onward(scan, scan.todo)
    /\ UNCHANGED <<vars, bus, tab, ed, desc, mscvars>>

\* The end of xhci_release_slot, and of the port if nothing was connected to it.
ReleaseDone ==
    LET p == Head(scan.todo)
    IN  /\ Scans("drop") /\ Doomed = {} /\ scan.dev # <<>>
        /\ Goes(hid_boot_kbd_drop_device(State, scan.dev),
                UNION {ModsOf(i) : i \in {j \in Slots : kbds[j].active /\ kbds[j].dev = scan.dev}})
        /\ scan' = IF scan.conn THEN [scan EXCEPT !.pc = "reset", !.dev = <<>>] ELSE Onward(scan, Tail(scan.todo))
        /\ bus' = [bus EXCEPT !.slots = [@ EXCEPT ![scan.dev[2]] = 0],
                              !.chg = IF scan.conn THEN @ ELSE @ \ {p},
                              !.missed = IF ~scan.conn /\ bus.at[p] # "none" THEN @ \cup {p} ELSE @]
        /\ UNCHANGED <<tab, ps2, ed, desc, mscvars>>

(***************************************************************************)
(* One port.                                                               *)
(***************************************************************************)
xhci_find_slot_by_port(p) == {n \in DOMAIN bus.slots : bus.slots[n] = p}

\* ehci_scan_ports, ohci_scan_ports, xhci_scan_ports, and the loop of usb_handle_hub,
\* where the status of a port may not be had.
ScanPort ==
    LET p == Head(scan.todo)
        slot == IF HcOf(p) = "xhci" THEN xhci_find_slot_by_port(p) ELSE {}
        conn == bus.at[p] # "none"
        skip == Onward(scan, Tail(scan.todo))
    IN  /\ Scans("port")
        /\ IF slot # {} /\ (~conn \/ p \in bus.chg)
           THEN /\ tab' = usb_hid_drop(tab, {<<"xhci", Min(slot)>>})
                /\ scan' = [scan EXCEPT !.pc = "drop", !.dev = <<"xhci", Min(slot)>>, !.conn = conn]
                /\ UNCHANGED bus
           ELSE /\ scan' \in IF ~conn \/ slot # {} THEN {skip}
                             ELSE {[scan EXCEPT !.pc = "reset"]} \cup {skip : q \in {w.ports[p].hub} \ {0}}
                /\ bus' = IF HcOf(p) = "xhci" /\ ~conn THEN [bus EXCEPT !.chg = @ \ {p}] ELSE bus
                /\ UNCHANGED tab
        /\ UNCHANGED <<vars, ed, desc, mscvars>>

reset_port(b, p) == [Silent(b, Below(p)) EXCEPT !.chg = @ \ {p}, !.missed = @ \ Below(p)]

\* The reset takes the port's change, and its device's address; it can fail.
ResetPort ==
    LET p == Head(scan.todo)
        skip == Onward(scan, Tail(scan.todo))
    IN  /\ Scans("reset")
        /\ IF bus.at[p] = "none" THEN scan' = skip /\ UNCHANGED bus
           ELSE /\ scan' \in {[scan EXCEPT !.pc = "open"], skip}
                /\ bus' = reset_port(bus, p)
        /\ UNCHANGED <<vars, tab, ed, desc, mscvars>>

\* An address for the device at p: of the old controllers the next number, of
\* xHCI a slot, but not for devices behind a hub.
alloc_address(p) == IF HcOf(p) = "old" THEN bus.next ELSE Min({m \in DOMAIN bus.slots : bus.slots[m] = 0})

xhci_usbhc_enum_open(b, n, p) == [b EXCEPT !.slots = [@ EXCEPT ![n] = p]]

enum_set_address(b, n, p) == [b EXCEPT !.addr = [@ EXCEPT ![p] = <<HcOf(p), n>>]]

\* usb_enumerate_default until the device has its address.  xHCI keeps the slot
\* when the device does not answer.
OpenDevice ==
    LET p == Head(scan.todo)
        n == alloc_address(p)
        full == tab.count >= MaxStorage /\ Len(tab.mice) >= MaxHid
        used == IF HcOf(p) = "old" THEN [bus EXCEPT !.next = @ + 1] ELSE xhci_usbhc_enum_open(bus, n, p)
    IN  /\ Scans("open")
        /\ \/ /\ scan' = [scan EXCEPT !.pc = "done"]
              /\ UNCHANGED bus
           \/ /\ ~full /\ (IF HcOf(p) = "xhci" THEN w.ports[p].hub = 0 ELSE bus.next < 127)
              /\ \/ bus' = used /\ scan' = [scan EXCEPT !.pc = "done"]
                 \/ /\ bus.at[p] # "none"
                    /\ bus' = enum_set_address(used, n, p)
                    /\ scan' = [scan EXCEPT !.pc = "config", !.dev = <<HcOf(p), n>>]
        /\ UNCHANGED <<vars, tab, ed, desc, mscvars>>

\* The ports of a hub come next, before the ones after the hub's own.
usb_handle_hub(s, p) == [s EXCEPT !.pc = "done", !.todo = <<p>> \o SetToSortSeq(HubPorts(p), <) \o Tail(@)]

\* The rest of usb_enumerate_default, as long as the device answers.
Configure ==
    LET p == Head(scan.todo)
        c == usb_parse_config(Configs[bus.at[p]])
        done == [scan EXCEPT !.pc = "done"]
        nobulk == c.best = NoAlt
    IN  /\ Scans("config")
        /\ \/ scan' = done /\ UNCHANGED <<vars, tab>>
           \/ /\ bus.addr[p] = scan.dev
              /\ IF c.hub
                 THEN /\ scan' = usb_handle_hub(scan, p)
                      /\ UNCHANGED <<vars, tab>>
                 ELSE IF nobulk /\ ~c.present
                 THEN /\ scan' = done
                      /\ IF c.hid["kbd"].ep = 0 THEN UNCHANGED vars
                         ELSE /\ \/ Goes(hid_boot_kbd_add_device(State, scan.dev,
                                                                 hid_parse_report_desc(Descs[bus.at[p]], FALSE) # <<>>), {})
                                 \/ Goes(State, {})
                              /\ UNCHANGED ps2
                      /\ tab' \in usb_hid_attach(tab, c.hid["mouse"].ep, scan.dev)
                 ELSE IF nobulk \/ tab.count >= MaxStorage THEN scan' = done /\ UNCHANGED <<vars, tab>>
                 ELSE /\ scan' = [scan EXCEPT !.pc = "probe"]
                      /\ tab' = [tab EXCEPT !.cells = [@ EXCEPT ![tab.count + 1] = [dev |-> scan.dev, drive |-> tab.count]]]
                      /\ UNCHANGED vars
        /\ UNCHANGED <<bus, ed, desc, mscvars>>

\* The capacity of a stick, which takes a while, decides whether it is counted.
Probe ==
    /\ Scans("probe")
    /\ scan' = [scan EXCEPT !.pc = "done"]
    /\ \/ UNCHANGED tab
       \/ bus.addr[Head(scan.todo)] = scan.dev /\ tab' = [tab EXCEPT !.count = @ + 1]
    /\ UNCHANGED <<vars, bus, ed, desc, mscvars>>

\* xHCI takes the changes of the port once more, those of the meantime with them.
PortDone ==
    LET p == Head(scan.todo)
    IN  /\ Scans("done")
        /\ scan' = Onward(scan, Tail(scan.todo))
        /\ bus' = IF HcOf(p) = "old" \/ w.ports[p].hub # 0 THEN bus
                  ELSE [bus EXCEPT !.chg = @ \ {p}, !.missed = IF p \in bus.chg THEN @ \cup {p} ELSE @]
        /\ UNCHANGED <<vars, tab, ed, desc, mscvars>>

(***************************************************************************)
(* Keys and keyboards.  usb_poll looks at the ports after the keyboards,   *)
(* once the command that a key started has ended.                          *)
(***************************************************************************)
PollTail(from) == bus' = IF frames' = from THEN poll_changes(bus) ELSE bus

UsbPoll == Poll /\ PollTail(frames) /\ UNCHANGED <<tab, scan, ed, desc, mscvars>>

Returns ==
    /\ HandlerReturns
    /\ IF Last(frames).slot = 0 THEN UNCHANGED bus ELSE PollTail(Front(frames))
    /\ UNCHANGED <<tab, scan, ed, desc, mscvars>>

usb == <<bus, tab, scan, ed, desc, mscvars>>

\* A command ends once its scan and its editor have.
CommandEnds == user_input_done /\ scan.cmd # Len(frames) /\ ed.mode = "off" /\ UNCHANGED usb
KeyReport == Report /\ UNCHANGED usb
KeyError == TransferError /\ UNCHANGED usb
KeyPs2 == Ps2Key /\ UNCHANGED usb
KeyCallback == keyboard_callback /\ UNCHANGED usb
ShellBack == ShellResumes /\ UNCHANGED usb
GetKey == w.getkey /\ ed.mode = "off" /\ getkey_nonblock /\ UNCHANGED usb
FlushKeys == w.getkey /\ ed.mode = "off" /\ keyboard_flush /\ UNCHANGED usb

\* The command "note": it takes the keys from the line.
NoteOpen ==
    /\ w.edit /\ ed.mode = "off" /\ frames # <<>> /\ Last(frames).pc = "run"
    /\ Goes([State EXCEPT !.kb = [note_keybuf_clear_unsafe(@) EXCEPT !.on = FALSE]], {})
    /\ ed' = note_open(ed)
    /\ UNCHANGED <<ps2, bus, tab, scan, desc, mscvars>>

NoteKey ==
    /\ ed.mode # "off" /\ kb.nhead # kb.ntail
    /\ ed' = note_key(ed, kb.note[kb.ntail])
    /\ Goes([State EXCEPT !.kb = [note_keybuf_pop(@) EXCEPT !.on = ed'.mode = "off"]], {})
    /\ UNCHANGED <<ps2, bus, tab, scan, desc, mscvars>>

\* The descriptors of a device are whatever it says.
GrowReport ==
    /\ Len(desc.d) < w.len
    /\ \E it \in w.items : desc' = [desc EXCEPT !.d = Append(@, it)]
    /\ UNCHANGED <<vars, bus, tab, scan, ed, mscvars>>

GrowConfig ==
    /\ Len(desc.c) < w.len
    /\ \E it \in w.citems : desc' = [desc EXCEPT !.c = Append(@, it)]
    /\ UNCHANGED <<vars, bus, tab, scan, ed, mscvars>>

(***************************************************************************)
(* The storage calls, with the rest of the machine as it is.               *)
(***************************************************************************)
others == <<vars, bus, tab, scan, ed, desc>>

StorageCall == Enter /\ UNCHANGED others
StorageChunk == Sectors /\ UNCHANGED others
StorageReady == msc_wait_ready /\ UNCHANGED others
StorageCapacity == msc_scsi_read_capacity /\ UNCHANGED others
StorageCbw == Cbw /\ UNCHANGED others
StorageIn == DataIn /\ UNCHANGED others
StorageOut == DataOut /\ UNCHANGED others
StorageStatus == Status /\ UNCHANGED others
StorageRecovery == msc_reset_recovery /\ UNCHANGED others

DevNext ==
    \/ Plug \/ Unplug \/ RescanWork \/ dispatch_usbscan
    \/ BeginScan \/ DropMove \/ DropRenumber \/ DropClear \/ DropDone \/ ReleaseDone
    \/ ScanPort \/ ResetPort \/ OpenDevice \/ Configure \/ Probe \/ PortDone
    \/ UsbPoll \/ Returns \/ CommandEnds \/ KeyReport \/ KeyError \/ KeyPs2 \/ KeyCallback \/ ShellBack
    \/ GetKey \/ FlushKeys \/ NoteOpen \/ NoteKey \/ GrowReport \/ GrowConfig
    \/ StorageCall \/ StorageChunk \/ StorageReady \/ StorageCapacity
    \/ StorageCbw \/ StorageIn \/ StorageOut \/ StorageStatus \/ StorageRecovery

DevSpec == DevInit /\ [][DevNext]_devvars

(***************************************************************************)
(* Properties.                                                             *)
(***************************************************************************)
Entries == {tab.cells[i].dev : i \in 1 .. tab.count} \cup {tab.mice[i] : i \in DOMAIN tab.mice}
             \cup {kbds[i].dev : i \in {j \in Slots : kbds[j].active}}

\* A scan that will look at the ports of device d is asked for or has begun.
\* A change that the code loses counts as well: one behind a hub, or one on
\* an xHCI port while the port was being enumerated.
Awaited(d) ==
    IF d[1] = "old"
    THEN \/ "old" \in bus.pend
         \/ \E p \in Ports : HcOf(p) = "old" /\ p \in bus.chg \cup bus.missed
         \/ scan.pc = "begin" /\ "old" \in ToSet(scan.rest)
         \/ scan.pc \in {"drop", "renumber", "clear"} /\ scan.dev = <<>>
    ELSE \/ bus.slots[d[2]] \in bus.chg \cup bus.missed
         \/ scan.pc \in {"drop", "renumber", "clear"} /\ scan.dev = d

\* A drive number belongs to one stick, also while another stick is being taken
\* out of the table, and to the cell of that number unless one is
\* (usb_storage_drop_device, find_dev_by_drive).
DrivesNamed ==
    /\ tab.count \in 0 .. MaxStorage
    /\ \A n \in 0 .. MaxStorage : \A d, e \in find_dev_by_drive(tab, n) : d = e
    /\ scan.pc \notin {"renumber", "clear"} => \A i \in 1 .. tab.count : tab.cells[i].drive = i - 1

\* Every keyboard, mouse and stick in the tables is a device that answers at
\* that address, or the change of its port is still to be handled; a drive
\* number belongs to one stick, also while another is being taken out of the
\* table; and PS/2 input is ignored exactly while a USB device replaces it
\* (usb_storage_drop_device, usb_drop_controller_devices, *_scan_ports).
EntriesLive ==
    /\ \A d \in Entries : (\E p \in Ports : bus.addr[p] = d) \/ Awaited(d)
    /\ DrivesNamed
    /\ kb.ignore = (\E i \in Slots : kbds[i].active) /\ tab.ignore = (tab.mice # <<>>)

\* The keys typed into the editor do to the text what they would do to a
\* plain sequence of characters, in the order typed, while every line fits
\* on the screen; saving writes that text (note, note_key_emit).
TextStep ==
    ed.mode # "off" /\ kb'.nhead = kb.nhead /\ kb'.ntail # kb.ntail =>
        LET k == Head(kb.pend)
        IN  /\ ed.mode = "edit" /\ Fits(ed.buf) /\ Fits(ed'.buf) =>
                 [t |-> TextOf(ed'.buf), p |-> PosOf(ed')] = Flat(TextOf(ed.buf), PosOf(ed), k)
            /\ ed.mode = "command" /\ k = 115 => ed'.file = TextOf(ed.buf)
            /\ ed.mode = "edit" \/ k # 115 => ed'.file = ed.file


=============================================================================
