--------------------------- MODULE DevicesProofs ---------------------------
(***************************************************************************)
(* Drive numbers of USB sticks, for tables of every size, every number of  *)
(* ports and every device that is plugged in: the part of EntriesLive that *)
(* the threads looking up a drive rely on.                                 *)
(***************************************************************************)
EXTENDS Devices, TLAPS, WellFoundedInduction

\* The table, its cells and the scan are the records the model makes of them.
IsScan(s) ==
    s = [pc |-> s.pc, rest |-> s.rest, todo |-> s.todo, dev |-> s.dev, i |-> s.i, conn |-> s.conn, cmd |-> s.cmd]

IsTab(t) ==
    /\ t = [cells |-> t.cells, count |-> t.count, mice |-> t.mice, ignore |-> t.ignore]
    /\ t.cells = [i \in 1 .. MaxStorage |-> t.cells[i]]
    /\ \A i \in 1 .. MaxStorage : t.cells[i] = [dev |-> t.cells[i].dev, drive |-> t.cells[i].drive]
    /\ t.count \in 0 .. MaxStorage

\* While a stick is taken out, its cell is a copy of the last one; while a new
\* one is probed, its cell behind the others has its number already.
IInv ==
    /\ IsTab(tab) /\ IsScan(scan)
    /\ scan.pc # "renumber" => \A i \in 1 .. tab.count : tab.cells[i].drive = i - 1
    /\ scan.pc = "renumber" =>
         /\ scan.i \in 1 .. tab.count
         /\ tab.cells[scan.i] = tab.cells[tab.count] /\ tab.cells[tab.count].drive = tab.count - 1
         /\ \A i \in (1 .. tab.count) \ {scan.i} : tab.cells[i].drive = i - 1
    /\ scan.pc = "clear" => tab.count > 0
    /\ scan.pc = "probe" => tab.count < MaxStorage /\ tab.cells[tab.count + 1].drive = tab.count

(***************************************************************************)
(* Steps that leave the cells alone.                                       *)
(***************************************************************************)
\* The table and the scan are as they were.
LEMMA Quiet ==
  ASSUME IInv, UNCHANGED <<tab, scan>>
  PROVE  IInv'
BY DEF IInv, IsTab, IsScan

\* Only the mice changed, and no stick is being taken out or probed.
LEMMA Same ==
  ASSUME IInv, tab'.cells = tab.cells, tab'.count = tab.count,
         tab' = [cells |-> tab'.cells, count |-> tab'.count, mice |-> tab'.mice, ignore |-> tab'.ignore],
         IsScan(scan'), scan.pc # "renumber", scan'.pc \notin {"renumber", "clear", "probe"}
  PROVE  IInv'
BY DEF IInv, IsTab

\* The scan moved on and the table is as it was.
LEMMA SameTab ==
  ASSUME IInv, UNCHANGED tab, IsScan(scan'), scan.pc # "renumber", scan'.pc \notin {"renumber", "clear", "probe"}
  PROVE  IInv'
BY Same DEF IInv, IsTab

\* What the scan is after a port.
LEMMA OnwardScan ==
  ASSUME NEW s, NEW todo
  PROVE  IsScan(Onward(s, todo)) /\ Onward(s, todo).pc \in {"port", "begin", "idle"}
<1> DEFINE more == todo # <<>> \/ s.rest # <<>>
           pc == IF todo # <<>> THEN "port" ELSE IF s.rest # <<>> THEN "begin" ELSE "idle"
           cmd == IF more THEN s.cmd ELSE 0
<1>1. pc \in {"port", "begin", "idle"} OBVIOUS
<1>2. Onward(s, todo) = [Idle EXCEPT !.pc = pc, !.todo = todo, !.rest = s.rest, !.cmd = cmd] BY Zenon DEF Onward
<1> HIDE DEF pc, cmd
<1>3. Onward(s, todo) = [pc |-> pc, rest |-> s.rest, todo |-> todo, dev |-> <<>>, i |-> 0, conn |-> FALSE, cmd |-> cmd]
  BY <1>2 DEF Idle
<1> QED BY <1>1, <1>3 DEF IsScan

\* A scan that takes another state.
LEMMA ScanGoes ==
  ASSUME NEW s, IsScan(s), NEW pc, NEW t, t = [s EXCEPT !.pc = pc]
  PROVE  IsScan(t) /\ t.pc = pc
BY DEF IsScan

\* The fields of a table that is put together.
LEMMA Fields ==
  ASSUME NEW f, NEW n, NEW a, NEW b, NEW u, u = [cells |-> f, count |-> n, mice |-> a, ignore |-> b]
  PROVE  u.cells = f /\ u.count = n /\ u = [cells |-> u.cells, count |-> u.count, mice |-> u.mice, ignore |-> u.ignore]
OBVIOUS

\* The table with cell j written and n sticks counted.
WithCell(t, j, c, n) ==
    [cells |-> [t.cells EXCEPT ![j] = c], count |-> n, mice |-> t.mice, ignore |-> t.ignore]

LEMMA PutCell ==
  ASSUME NEW t, IsTab(t), NEW j \in 1 .. MaxStorage, NEW c, c = [dev |-> c.dev, drive |-> c.drive],
         NEW n \in 0 .. MaxStorage
  PROVE  /\ IsTab(WithCell(t, j, c, n))
         /\ WithCell(t, j, c, n).count = n
         /\ WithCell(t, j, c, n).cells[j] = c
         /\ \A i \in 1 .. MaxStorage : i # j => WithCell(t, j, c, n).cells[i] = t.cells[i]
<1> DEFINE f == [t.cells EXCEPT ![j] = c]
           u == WithCell(t, j, c, n)
<1>1. DOMAIN t.cells = 1 .. MaxStorage BY DEF IsTab
<1>2. f[j] = c /\ \A i \in 1 .. MaxStorage : i # j => f[i] = t.cells[i] BY <1>1
<1>3. f = [i \in 1 .. MaxStorage |-> f[i]] BY <1>1
<1>4. \A i \in 1 .. MaxStorage : f[i] = [dev |-> f[i].dev, drive |-> f[i].drive]
  <2> SUFFICES ASSUME NEW i \in 1 .. MaxStorage PROVE f[i] = [dev |-> f[i].dev, drive |-> f[i].drive] OBVIOUS
  <2>1. CASE i = j BY <2>1, <1>2
  <2>2. CASE i # j
    <3>1. f[i] = t.cells[i] BY <2>2, <1>2
    <3> QED BY <3>1 DEF IsTab
  <2> QED BY <2>1, <2>2
<1>5. u.cells = f /\ u.count = n /\ u = [cells |-> u.cells, count |-> u.count, mice |-> u.mice, ignore |-> u.ignore]
  BY Fields DEF WithCell
<1> HIDE DEF f, u
<1>6. IsTab(u) BY <1>3, <1>4, <1>5, Zenon DEF IsTab
<1> QED BY <1>2, <1>5, <1>6 DEF u

(***************************************************************************)
(* Taking a stick out.                                                     *)
(***************************************************************************)
\* A set of naturals has a smallest member.
LEMMA SmallestIn ==
  ASSUME NEW S \in SUBSET Nat, S # {}
  PROVE  Min(S) \in S
<1> DEFINE less == {ss \in Nat \X Nat : ss[1] < ss[2]}
<1>1. IsWellFoundedOn(less, Nat) BY NatLessThanWellFounded DEF OpToRel
<1> HIDE DEF less
<1>2. PICK n \in S : \A m \in S : ~(<<m, n>> \in less) BY <1>1, WFMin
<1>3. \A m \in Nat : m < n => <<m, n>> \in less BY DEF less
<1>4. ASSUME NEW m \in S PROVE n <= m
  <2>1. m \in Nat /\ n \in Nat OBVIOUS
  <2>2. ~(<<m, n>> \in less) BY <1>2
  <2>3. ~(m < n) BY <2>1, <2>2, <1>3
  <2> QED BY <2>1, <2>3
<1> QED BY <1>4 DEF Min

\* A doomed stick is a stick of the table.
LEMMA MinDoomed ==
  ASSUME IInv, Doomed # {}
  PROVE  Min(Doomed) \in 1 .. tab.count
<1>1. Doomed \subseteq 1 .. tab.count BY DEF Doomed
<1>2. tab.count \in Nat BY TablesAssumption DEF IInv, IsTab
<1>3. Doomed \in SUBSET Nat BY <1>1, <1>2
<1> QED BY <1>1, <1>3, SmallestIn

\* The last stick is copied over the doomed one.
LEMMA DropMoveInv == IInv /\ DropMove => IInv'
<1> SUFFICES ASSUME IInv, DropMove PROVE IInv' OBVIOUS
<1> DEFINE m == Min(Doomed)
           c == tab.cells[tab.count]
<1>1. m \in 1 .. tab.count BY MinDoomed DEF DropMove
<1>2. scan.pc = "drop" /\ scan' = [scan EXCEPT !.pc = "renumber", !.i = m] BY DEF DropMove, Scans
<1>3. tab' = [tab EXCEPT !.cells = [tab.cells EXCEPT ![m] = c]] BY Zenon DEF DropMove
<1> HIDE DEF m
<1>4. tab.count \in Nat /\ MaxStorage \in Nat /\ tab.count <= MaxStorage /\ tab.count \in 1 .. MaxStorage
  BY <1>1, TablesAssumption DEF IInv, IsTab
<1>5. c = [dev |-> c.dev, drive |-> c.drive] /\ c.drive = tab.count - 1
  <2>1. c = [dev |-> c.dev, drive |-> c.drive] BY <1>4, Zenon DEF IInv, IsTab
  <2>2. \A i \in 1 .. tab.count : tab.cells[i].drive = i - 1 BY <1>2 DEF IInv
  <2>3. tab.count \in 1 .. tab.count BY <1>4
  <2> QED BY <2>1, <2>2, <2>3
<1> HIDE DEF c
<1>6. tab' = WithCell(tab, m, c, tab.count) BY <1>3 DEF IInv, IsTab, WithCell
<1>7. /\ IsTab(tab') /\ tab'.count = tab.count /\ tab'.cells[m] = c
      /\ \A i \in 1 .. MaxStorage : i # m => tab'.cells[i] = tab.cells[i]
  <2>1. m \in 1 .. MaxStorage /\ tab.count \in 0 .. MaxStorage /\ IsTab(tab) BY <1>1, <1>4 DEF IInv
  <2>2. c = [dev |-> c.dev, drive |-> c.drive] BY <1>5
  <2> QED BY <2>1, <2>2, <1>6, PutCell
<1>8. IsScan(scan') /\ scan'.pc = "renumber" /\ scan'.i = m BY <1>2 DEF IInv, IsScan
<1>9. tab'.cells[tab.count] = c BY <1>4, <1>7 DEF c
<1>10. \A i \in (1 .. tab.count) \ {m} : tab'.cells[i].drive = i - 1 BY <1>2, <1>4, <1>7 DEF IInv
<1> QED BY <1>1, <1>5, <1>7, <1>8, <1>9, <1>10 DEF IInv

\* The stick that was copied gets the number of its new cell.
LEMMA DropRenumberInv == IInv /\ DropRenumber => IInv'
<1> SUFFICES ASSUME IInv, DropRenumber PROVE IInv' OBVIOUS
<1> DEFINE m == scan.i
           c == [dev |-> tab.cells[m].dev, drive |-> m - 1]
<1>1. scan.pc = "renumber" /\ scan' = [scan EXCEPT !.pc = "clear"] BY DEF DropRenumber, Scans
<1>2. m \in 1 .. tab.count BY <1>1 DEF IInv
<1>3. tab.count \in Nat /\ MaxStorage \in Nat /\ tab.count <= MaxStorage BY TablesAssumption DEF IInv, IsTab
<1>4. tab' = [tab EXCEPT !.cells = [tab.cells EXCEPT ![m] = c]] BY Zenon DEF DropRenumber
<1>6. c = [dev |-> c.dev, drive |-> c.drive] /\ c.drive = m - 1 OBVIOUS
<1> HIDE DEF c, m
<1>7. tab' = WithCell(tab, m, c, tab.count) BY <1>4 DEF IInv, IsTab, WithCell
<1>8. /\ IsTab(tab') /\ tab'.count = tab.count /\ tab'.cells[m] = c
      /\ \A i \in 1 .. MaxStorage : i # m => tab'.cells[i] = tab.cells[i]
  <2>1. m \in 1 .. MaxStorage /\ tab.count \in 0 .. MaxStorage /\ IsTab(tab) BY <1>2, <1>3 DEF IInv
  <2>2. c = [dev |-> c.dev, drive |-> c.drive] BY <1>6
  <2> QED BY <2>1, <2>2, <1>7, PutCell
<1>9. IsScan(scan') /\ scan'.pc = "clear" BY <1>1, ScanGoes DEF IInv
<1>10. \A i \in (1 .. tab.count) \ {m} : tab'.cells[i].drive = i - 1 BY <1>1, <1>3, <1>8 DEF IInv, m
<1>11. \A i \in 1 .. tab.count : tab'.cells[i].drive = i - 1 BY <1>2, <1>6, <1>8, <1>10
<1> QED BY <1>2, <1>3, <1>8, <1>9, <1>11 DEF IInv

\* The last cell is emptied and no longer counted.
LEMMA DropClearInv == IInv /\ DropClear => IInv'
<1> SUFFICES ASSUME IInv, DropClear PROVE IInv' OBVIOUS
<1>1. scan.pc = "clear" /\ scan' = [scan EXCEPT !.pc = "drop", !.i = 0] BY DEF DropClear, Scans
<1>2. tab.count \in Nat /\ tab.count > 0 /\ MaxStorage \in Nat /\ tab.count <= MaxStorage
  BY <1>1, TablesAssumption DEF IInv, IsTab
<1>3. tab' = [tab EXCEPT !.cells = [tab.cells EXCEPT ![tab.count] = NoCell], !.count = tab.count - 1]
  BY Zenon DEF DropClear
<1>4. NoCell = [dev |-> NoCell.dev, drive |-> NoCell.drive] BY DEF NoCell
<1>5. /\ IsTab(tab') /\ tab'.count = tab.count - 1
      /\ \A i \in 1 .. MaxStorage : i # tab.count => tab'.cells[i] = tab.cells[i]
  <2>1. tab.count \in 1 .. MaxStorage /\ tab.count - 1 \in 0 .. MaxStorage /\ IsTab(tab) BY <1>2 DEF IInv
  <2>2. tab' = WithCell(tab, tab.count, NoCell, tab.count - 1) BY <1>3 DEF IInv, IsTab, WithCell
  <2> QED BY <2>1, <2>2, <1>4, PutCell
<1>6. IsScan(scan') /\ scan'.pc = "drop" BY <1>1 DEF IInv, IsScan
<1>7. \A i \in 1 .. tab.count - 1 : tab'.cells[i].drive = i - 1 BY <1>1, <1>2, <1>5 DEF IInv
<1> QED BY <1>5, <1>6, <1>7 DEF IInv

(***************************************************************************)
(* Mice, and the ports.                                                    *)
(***************************************************************************)
\* Dropping mice leaves the sticks alone.
LEMMA HidDrop ==
  ASSUME NEW t, IsTab(t), NEW gone, NEW u, u = usb_hid_drop(t, gone)
  PROVE  u.cells = t.cells /\ u.count = t.count
         /\ u = [cells |-> u.cells, count |-> u.count, mice |-> u.mice, ignore |-> u.ignore]
<1> DEFINE left == SelectSeq(t.mice, LAMBDA d : d \notin gone)
           ig == ~(ToSet(t.mice) \subseteq gone)
<1>1. u = [t EXCEPT !.mice = left, !.ignore = ig] BY Zenon DEF usb_hid_drop
<1> HIDE DEF left, ig
<1>2. u = [cells |-> t.cells, count |-> t.count, mice |-> left, ignore |-> ig] BY <1>1 DEF IsTab
<1> QED BY <1>2, Fields

\* So does adding one.
LEMMA HidAttach ==
  ASSUME NEW t, IsTab(t), NEW ep, NEW dev, NEW u \in usb_hid_attach(t, ep, dev)
  PROVE  u.cells = t.cells /\ u.count = t.count
         /\ u = [cells |-> u.cells, count |-> u.count, mice |-> u.mice, ignore |-> u.ignore]
<1>1. CASE u = t BY <1>1 DEF IsTab
<1>2. CASE u = [t EXCEPT !.mice = Append(t.mice, dev), !.ignore = TRUE]
  <2>1. u = [cells |-> t.cells, count |-> t.count, mice |-> Append(t.mice, dev), ignore |-> TRUE] BY <1>2 DEF IsTab
  <2> QED BY <2>1, Fields
<1> QED BY <1>1, <1>2, Zenon DEF usb_hid_attach

LEMMA RescanWorkInv == IInv /\ RescanWork => IInv'
<1> SUFFICES ASSUME IInv, RescanWork PROVE IInv' OBVIOUS
<1>1. PICK hc \in bus.pend : scan = Idle /\ scan' = [Idle EXCEPT !.pc = "begin", !.rest = <<hc>>] /\ UNCHANGED tab
  BY DEF RescanWork
<1>2. scan.pc = "idle" BY <1>1 DEF Idle
<1>3. IsScan(scan') /\ scan'.pc = "begin" BY <1>1 DEF Idle, IsScan
<1> QED BY <1>1, <1>2, <1>3, SameTab

\* The command empties the tables first.
LEMMA UsbscanInv == IInv /\ dispatch_usbscan => IInv'
<1> SUFFICES ASSUME IInv, dispatch_usbscan PROVE IInv' OBVIOUS
<1> DEFINE none == [i \in 1 .. MaxStorage |-> NoCell]
<1>1. /\ tab' = [cells |-> none, count |-> 0, mice |-> <<>>, ignore |-> FALSE]
      /\ scan' = [Idle EXCEPT !.pc = "begin", !.rest = <<"old", "xhci">>, !.cmd = Len(frames)]
  BY DEF dispatch_usbscan
<1>2. IsScan(scan') /\ scan'.pc = "begin" BY <1>1 DEF Idle, IsScan
<1>3. \A i \in 1 .. MaxStorage : none[i] = [dev |-> none[i].dev, drive |-> none[i].drive] BY DEF NoCell
<1>4. none = [i \in 1 .. MaxStorage |-> none[i]] OBVIOUS
<1> HIDE DEF none
<1>5. tab'.cells = none /\ tab'.count = 0 BY <1>1
<1>6. tab' = [cells |-> tab'.cells, count |-> tab'.count, mice |-> tab'.mice, ignore |-> tab'.ignore] BY <1>1
<1>7. IsTab(tab') BY <1>3, <1>4, <1>5, <1>6, TablesAssumption DEF IsTab
<1> QED BY <1>2, <1>5, <1>7 DEF IInv

LEMMA BeginScanInv == IInv /\ BeginScan => IInv'
<1> SUFFICES ASSUME IInv, BeginScan PROVE IInv' OBVIOUS
<1> DEFINE hc == Head(scan.rest)
           left == Tail(scan.rest)
           s == [scan EXCEPT !.rest = left]
           ports == SetToSortSeq(RootPorts(hc), <)
           gone == {d \in ToSet(tab.mice) : d[1] = "old"}
<1>1. scan.pc = "begin" BY DEF BeginScan, Scans
<1>2. \/ scan' = Onward(s, ports) /\ UNCHANGED tab
      \/ scan' = [s EXCEPT !.pc = "drop", !.todo = ports] /\ tab' = usb_hid_drop(tab, gone)
  BY Zenon DEF BeginScan
<1> HIDE DEF ports, gone, left
<1>3. IsScan(s) BY DEF IInv, IsScan
<1> HIDE DEF s
<1>4. CASE scan' = Onward(s, ports) /\ UNCHANGED tab
  <2>1. IsScan(scan') /\ scan'.pc \in {"port", "begin", "idle"} BY <1>4, OnwardScan
  <2> QED BY <1>1, <1>4, <2>1, SameTab
<1>5. CASE scan' = [s EXCEPT !.pc = "drop", !.todo = ports] /\ tab' = usb_hid_drop(tab, gone)
  <2>1. IsScan(scan') /\ scan'.pc = "drop" BY <1>3, <1>5 DEF IsScan
  <2>2. /\ tab'.cells = tab.cells /\ tab'.count = tab.count
        /\ tab' = [cells |-> tab'.cells, count |-> tab'.count, mice |-> tab'.mice, ignore |-> tab'.ignore]
    BY <1>5, HidDrop DEF IInv
  <2> QED BY <1>1, <2>1, <2>2, Same
<1> QED BY <1>2, <1>4, <1>5

\* The next port, or the end: the table is as it was.
LEMMA OnwardInv ==
  ASSUME IInv, scan.pc # "renumber", UNCHANGED tab, NEW todo, scan' = Onward(scan, todo)
  PROVE  IInv'
<1>1. IsScan(scan') /\ scan'.pc \in {"port", "begin", "idle"} BY OnwardScan
<1> QED BY <1>1, SameTab

\* Another state of the same port.
LEMMA StaysInv ==
  ASSUME IInv, scan.pc # "renumber", UNCHANGED tab, NEW pc \in {"reset", "open", "done", "drop"},
         scan' = [scan EXCEPT !.pc = pc]
  PROVE  IInv'
<1>1. IsScan(scan') /\ scan'.pc = pc BY ScanGoes DEF IInv
<1> QED BY <1>1, SameTab

LEMMA DropDoneInv == IInv /\ DropDone => IInv'
BY OnwardInv DEF DropDone, Scans

LEMMA ReleaseDoneInv == IInv /\ ReleaseDone => IInv'
<1> SUFFICES ASSUME IInv, ReleaseDone PROVE IInv' OBVIOUS
<1> DEFINE todo == Tail(scan.todo)
<1>1. scan.pc = "drop" /\ UNCHANGED tab BY DEF ReleaseDone, Scans
<1>2. scan' = [scan EXCEPT !.pc = "reset", !.dev = <<>>] \/ scan' = Onward(scan, todo) BY Zenon DEF ReleaseDone
<1> HIDE DEF todo
<1>3. CASE scan' = [scan EXCEPT !.pc = "reset", !.dev = <<>>]
  <2>1. IsScan(scan') /\ scan'.pc = "reset" BY <1>3 DEF IInv, IsScan
  <2> QED BY <1>1, <2>1, SameTab
<1> QED BY <1>1, <1>2, <1>3, OnwardInv

LEMMA ScanPortInv == IInv /\ ScanPort => IInv'
<1> SUFFICES ASSUME IInv, ScanPort PROVE IInv' OBVIOUS
<1> DEFINE p == Head(scan.todo)
           slot == IF HcOf(p) = "xhci" THEN xhci_find_slot_by_port(p) ELSE {}
           conn == bus.at[p] # "none"
           todo == Tail(scan.todo)
           dev == <<"xhci", Min(slot)>>
<1>1. scan.pc = "port" BY DEF ScanPort, Scans
<1>2. \/ scan' = [scan EXCEPT !.pc = "drop", !.dev = dev, !.conn = conn] /\ tab' = usb_hid_drop(tab, {dev})
      \/ scan' = [scan EXCEPT !.pc = "reset"] /\ UNCHANGED tab
      \/ scan' = Onward(scan, todo) /\ UNCHANGED tab
  BY Zenon DEF ScanPort
<1> HIDE DEF slot, conn, todo, dev
<1>3. CASE scan' = [scan EXCEPT !.pc = "drop", !.dev = dev, !.conn = conn] /\ tab' = usb_hid_drop(tab, {dev})
  <2>1. IsScan(scan') /\ scan'.pc = "drop" BY <1>3 DEF IInv, IsScan
  <2>2. /\ tab'.cells = tab.cells /\ tab'.count = tab.count
        /\ tab' = [cells |-> tab'.cells, count |-> tab'.count, mice |-> tab'.mice, ignore |-> tab'.ignore]
    BY <1>3, HidDrop DEF IInv
  <2> QED BY <1>1, <2>1, <2>2, Same
<1>4. CASE scan' = [scan EXCEPT !.pc = "reset"] /\ UNCHANGED tab BY <1>1, <1>4, StaysInv
<1>5. CASE scan' = Onward(scan, todo) /\ UNCHANGED tab BY <1>1, <1>5, OnwardInv
<1> QED BY <1>2, <1>3, <1>4, <1>5

LEMMA ResetPortInv == IInv /\ ResetPort => IInv'
<1> SUFFICES ASSUME IInv, ResetPort PROVE IInv' OBVIOUS
<1> DEFINE todo == Tail(scan.todo)
<1>1. scan.pc = "reset" /\ UNCHANGED tab BY DEF ResetPort, Scans
<1>2. scan' = [scan EXCEPT !.pc = "open"] \/ scan' = Onward(scan, todo) BY Zenon DEF ResetPort
<1> HIDE DEF todo
<1> QED BY <1>1, <1>2, StaysInv, OnwardInv

LEMMA OpenDeviceInv == IInv /\ OpenDevice => IInv'
<1> SUFFICES ASSUME IInv, OpenDevice PROVE IInv' OBVIOUS
<1> DEFINE dev == <<HcOf(Head(scan.todo)), alloc_address(Head(scan.todo))>>
<1>1. scan.pc = "open" /\ UNCHANGED tab BY DEF OpenDevice, Scans
<1>2. scan' = [scan EXCEPT !.pc = "done"] \/ scan' = [scan EXCEPT !.pc = "config", !.dev = dev] BY Zenon DEF OpenDevice
<1> HIDE DEF dev
<1>3. CASE scan' = [scan EXCEPT !.pc = "config", !.dev = dev]
  <2>1. IsScan(scan') /\ scan'.pc = "config" BY <1>3 DEF IInv, IsScan
  <2> QED BY <1>1, <2>1, SameTab
<1> QED BY <1>1, <1>2, <1>3, StaysInv

LEMMA PortDoneInv == IInv /\ PortDone => IInv'
<1> SUFFICES ASSUME IInv, PortDone PROVE IInv' OBVIOUS
<1> DEFINE todo == Tail(scan.todo)
<1>1. scan.pc = "done" /\ UNCHANGED tab BY DEF PortDone, Scans
<1>2. scan' = Onward(scan, todo) BY Zenon DEF PortDone
<1> HIDE DEF todo
<1> QED BY <1>1, <1>2, OnwardInv

(***************************************************************************)
(* A new stick.                                                            *)
(***************************************************************************)
\* Its cell is written behind the ones that are counted.
LEMMA NewStickInv ==
  ASSUME IInv, scan.pc = "config", tab.count < MaxStorage, scan' = [scan EXCEPT !.pc = "probe"],
         tab' = [tab EXCEPT !.cells = [tab.cells EXCEPT ![tab.count + 1] = [dev |-> scan.dev, drive |-> tab.count]]]
  PROVE  IInv'
<1> DEFINE c == [dev |-> scan.dev, drive |-> tab.count]
           j == tab.count + 1
<1>1. tab.count \in Nat /\ MaxStorage \in Nat BY TablesAssumption DEF IInv, IsTab
<1>2. j \in 1 .. MaxStorage /\ tab.count \in 0 .. MaxStorage /\ IsTab(tab) BY <1>1 DEF IInv
<1>3. c = [dev |-> c.dev, drive |-> c.drive] /\ c.drive = tab.count OBVIOUS
<1>4. tab' = WithCell(tab, j, c, tab.count) BY DEF IInv, IsTab, WithCell
<1> HIDE DEF c, j
<1>5. /\ IsTab(tab') /\ tab'.count = tab.count /\ tab'.cells[j] = c
      /\ \A i \in 1 .. MaxStorage : i # j => tab'.cells[i] = tab.cells[i]
  <2>1. c = [dev |-> c.dev, drive |-> c.drive] BY <1>3
  <2> QED BY ONLY <1>2, <1>4, <2>1, PutCell
<1>6. IsScan(scan') /\ scan'.pc = "probe" BY ScanGoes DEF IInv
<1>7. \A i \in 1 .. tab.count : tab'.cells[i].drive = i - 1 BY <1>1, <1>5 DEF IInv, j
<1>8. tab'.cells[tab.count + 1].drive = tab.count BY <1>3, <1>5 DEF j
<1> QED BY <1>5, <1>6, <1>7, <1>8 DEF IInv

LEMMA ConfigureInv == IInv /\ Configure => IInv'
<1> SUFFICES ASSUME IInv, Configure PROVE IInv' OBVIOUS
<1> DEFINE p == Head(scan.todo)
           ep == usb_parse_config(Configs[bus.at[p]]).hid["mouse"].ep
           full == tab.count >= MaxStorage
           todo == <<p>> \o SetToSortSeq(HubPorts(p), <) \o Tail(scan.todo)
           f == [tab.cells EXCEPT ![tab.count + 1] = [dev |-> scan.dev, drive |-> tab.count]]
<1>1. scan.pc = "config" BY DEF Configure, Scans
<1>2. \/ scan' = [scan EXCEPT !.pc = "done"] /\ UNCHANGED tab
      \/ scan' = usb_handle_hub(scan, p) /\ UNCHANGED tab
      \/ scan' = [scan EXCEPT !.pc = "done"] /\ tab' \in usb_hid_attach(tab, ep, scan.dev)
      \/ ~full /\ scan' = [scan EXCEPT !.pc = "probe"] /\ tab' = [tab EXCEPT !.cells = f]
  BY Zenon DEF Configure
<1>3. usb_handle_hub(scan, p) = [scan EXCEPT !.pc = "done", !.todo = todo] BY Zenon DEF usb_handle_hub
<1>4. ~full => tab.count < MaxStorage BY TablesAssumption DEF IInv, IsTab
<1> HIDE DEF ep, full, todo, p
<1>5. CASE scan' = usb_handle_hub(scan, p) /\ UNCHANGED tab
  <2>1. IsScan(scan') /\ scan'.pc = "done" BY <1>3, <1>5 DEF IInv, IsScan
  <2> QED BY <1>1, <1>5, <2>1, SameTab
<1>6. CASE scan' = [scan EXCEPT !.pc = "done"] /\ tab' \in usb_hid_attach(tab, ep, scan.dev)
  <2>1. IsScan(scan') /\ scan'.pc = "done" BY <1>6, ScanGoes DEF IInv
  <2>2. /\ tab'.cells = tab.cells /\ tab'.count = tab.count
        /\ tab' = [cells |-> tab'.cells, count |-> tab'.count, mice |-> tab'.mice, ignore |-> tab'.ignore]
    BY <1>6, HidAttach DEF IInv
  <2> QED BY <1>1, <2>1, <2>2, Same
<1>7. CASE ~full /\ scan' = [scan EXCEPT !.pc = "probe"] /\ tab' = [tab EXCEPT !.cells = f]
  BY <1>1, <1>4, <1>7, NewStickInv, Zenon
<1>8. CASE scan' = [scan EXCEPT !.pc = "done"] /\ UNCHANGED tab BY <1>1, <1>8, StaysInv
<1> QED BY <1>2, <1>5, <1>6, <1>7, <1>8, Zenon

\* A stick that answers is counted.
LEMMA ProbeInv == IInv /\ Probe => IInv'
<1> SUFFICES ASSUME IInv, Probe PROVE IInv' OBVIOUS
<1>1. scan.pc = "probe" /\ scan' = [scan EXCEPT !.pc = "done"] BY DEF Probe, Scans
<1>2. CASE UNCHANGED tab BY <1>1, <1>2, StaysInv
<1>3. CASE tab' = [tab EXCEPT !.count = tab.count + 1]
  <2>1. tab.count \in Nat /\ MaxStorage \in Nat /\ tab.count < MaxStorage /\ tab.cells[tab.count + 1].drive = tab.count
    BY <1>1, TablesAssumption DEF IInv, IsTab
  <2>2. tab' = [cells |-> tab.cells, count |-> tab.count + 1, mice |-> tab.mice, ignore |-> tab.ignore]
    BY <1>3 DEF IInv, IsTab
  <2>3. /\ tab'.cells = tab.cells /\ tab'.count = tab.count + 1
        /\ tab' = [cells |-> tab'.cells, count |-> tab'.count, mice |-> tab'.mice, ignore |-> tab'.ignore]
    BY <2>2, Fields
  <2>4. IsTab(tab') BY <2>1, <2>3 DEF IInv, IsTab
  <2>5. IsScan(scan') /\ scan'.pc = "done" BY <1>1, ScanGoes DEF IInv
  <2>6. \A i \in 1 .. tab.count : tab.cells[i].drive = i - 1 BY <1>1 DEF IInv
  <2>7. \A i \in 1 .. tab.count + 1 : tab.cells[i].drive = i - 1 BY <2>1, <2>6
  <2> QED BY <2>3, <2>4, <2>5, <2>7 DEF IInv
<1> QED BY <1>2, <1>3 DEF Probe

(***************************************************************************)
(* The invariant, and what it says.                                        *)
(***************************************************************************)
LEMMA InitInv == DevInit => IInv
<1> SUFFICES ASSUME DevInit PROVE IInv OBVIOUS
<1> DEFINE none == [i \in 1 .. MaxStorage |-> NoCell]
<1>1. tab = [cells |-> none, count |-> 0, mice |-> <<>>, ignore |-> FALSE] /\ scan = Idle BY DEF DevInit
<1>2. IsScan(scan) /\ scan.pc = "idle" BY <1>1 DEF Idle, IsScan
<1>3. \A i \in 1 .. MaxStorage : none[i] = [dev |-> none[i].dev, drive |-> none[i].drive] BY DEF NoCell
<1>4. none = [i \in 1 .. MaxStorage |-> none[i]] OBVIOUS
<1> HIDE DEF none
<1>5. tab.cells = none /\ tab.count = 0 BY <1>1
<1>6. tab = [cells |-> tab.cells, count |-> tab.count, mice |-> tab.mice, ignore |-> tab.ignore] BY <1>1
<1>7. IsTab(tab) BY <1>3, <1>4, <1>5, <1>6, TablesAssumption DEF IsTab
<1> QED BY <1>2, <1>5, <1>7 DEF IInv

LEMMA NextInv == IInv /\ [DevNext]_devvars => IInv'
<1> SUFFICES ASSUME IInv, [DevNext]_devvars PROVE IInv' OBVIOUS
<1>1. CASE UNCHANGED <<tab, scan>> BY <1>1, Quiet
<1>2. devvars' = devvars => UNCHANGED <<tab, scan>> BY DEF devvars
<1>3. Plug \/ Unplug => UNCHANGED <<tab, scan>> BY DEF Plug, Unplug
<1>4. UsbPoll \/ Returns => UNCHANGED <<tab, scan>> BY DEF UsbPoll, Returns
<1>5. CommandEnds \/ KeyReport \/ KeyError \/ KeyPs2 \/ KeyCallback \/ ShellBack \/ GetKey \/ FlushKeys
        => UNCHANGED <<tab, scan>>
  BY DEF CommandEnds, KeyReport, KeyError, KeyPs2, KeyCallback, ShellBack, GetKey, FlushKeys, usb
<1>6. NoteOpen \/ NoteKey \/ GrowReport \/ GrowConfig => UNCHANGED <<tab, scan>>
  BY DEF NoteOpen, NoteKey, GrowReport, GrowConfig
<1>7. StorageCall \/ StorageChunk \/ StorageReady \/ StorageCapacity \/ StorageCbw \/ StorageIn \/ StorageOut
        \/ StorageStatus \/ StorageRecovery => UNCHANGED <<tab, scan>>
  BY DEF StorageCall, StorageChunk, StorageReady, StorageCapacity, StorageCbw, StorageIn, StorageOut, StorageStatus,
         StorageRecovery, others
<1>8. RescanWork \/ dispatch_usbscan \/ BeginScan => IInv' BY RescanWorkInv, UsbscanInv, BeginScanInv
<1>9. DropMove \/ DropRenumber \/ DropClear \/ DropDone \/ ReleaseDone => IInv'
  BY DropMoveInv, DropRenumberInv, DropClearInv, DropDoneInv, ReleaseDoneInv
<1>10. ScanPort \/ ResetPort \/ OpenDevice \/ Configure \/ Probe \/ PortDone => IInv'
  BY ScanPortInv, ResetPortInv, OpenDeviceInv, ConfigureInv, ProbeInv, PortDoneInv
<1> QED BY <1>1, <1>2, <1>3, <1>4, <1>5, <1>6, <1>7, <1>8, <1>9, <1>10, Zenon DEF DevNext

\* Of two cells with a number, one is the copy of the other.
LEMMA Named == IInv => DrivesNamed
<1> SUFFICES ASSUME IInv PROVE DrivesNamed OBVIOUS
<1>1. tab.count \in Nat /\ tab.count \in 0 .. MaxStorage BY TablesAssumption DEF IInv, IsTab
<1>2. ASSUME NEW i \in 1 .. tab.count, NEW j \in 1 .. tab.count, tab.cells[i].drive = tab.cells[j].drive
      PROVE  tab.cells[i].dev = tab.cells[j].dev
  <2>1. CASE scan.pc # "renumber" BY <1>1, <1>2, <2>1 DEF IInv
  <2>2. CASE scan.pc = "renumber"
    <3>1. /\ scan.i \in 1 .. tab.count
          /\ tab.cells[scan.i] = tab.cells[tab.count] /\ tab.cells[tab.count].drive = tab.count - 1
          /\ \A k \in (1 .. tab.count) \ {scan.i} : tab.cells[k].drive = k - 1
      BY <2>2 DEF IInv
    <3>2. CASE i # scan.i /\ j # scan.i BY <1>1, <1>2, <3>1, <3>2
    <3>3. CASE i = scan.i /\ j # scan.i
      <4>1. tab.cells[j].drive = j - 1 /\ tab.cells[i].drive = tab.count - 1 BY <3>1, <3>3
      <4>2. j = tab.count BY <4>1, <1>1, <1>2
      <4> QED BY <4>2, <3>1, <3>3
    <3>4. CASE i # scan.i /\ j = scan.i
      <4>1. tab.cells[i].drive = i - 1 /\ tab.cells[j].drive = tab.count - 1 BY <3>1, <3>4
      <4>2. i = tab.count BY <4>1, <1>1, <1>2
      <4> QED BY <4>2, <3>1, <3>4
    <3>5. CASE i = scan.i /\ j = scan.i BY <3>5
    <3> QED BY <3>2, <3>3, <3>4, <3>5
  <2> QED BY <2>1, <2>2
<1>3. ASSUME NEW n \in 0 .. MaxStorage, NEW d \in find_dev_by_drive(tab, n), NEW e \in find_dev_by_drive(tab, n)
      PROVE  d = e
  <2>1. PICK i \in 1 .. tab.count : tab.cells[i].drive = n /\ d = tab.cells[i].dev BY <1>3 DEF find_dev_by_drive
  <2>2. PICK j \in 1 .. tab.count : tab.cells[j].drive = n /\ e = tab.cells[j].dev BY <1>3 DEF find_dev_by_drive
  <2> QED BY <1>2, <2>1, <2>2
<1>4. scan.pc \notin {"renumber", "clear"} => \A i \in 1 .. tab.count : tab.cells[i].drive = i - 1 BY DEF IInv
<1> QED BY <1>1, <1>3, <1>4 DEF DrivesNamed

\* A drive number always belongs to one stick, and outside of a removal to the
\* cell of that number (usb_storage_drop_device, usb_enumerate_default).
THEOREM DrivesAreNamed == DevSpec => []DrivesNamed
<1>1. DevInit => IInv BY InitInv
<1>2. IInv /\ [DevNext]_devvars => IInv' BY NextInv
<1>3. IInv => DrivesNamed BY Named
<1> QED BY <1>1, <1>2, <1>3, PTL DEF DevSpec
=============================================================================
