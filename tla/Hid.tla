-------------------------------- MODULE Hid --------------------------------
(***************************************************************************)
(* What the USB drivers read out of descriptors: the layout of a           *)
(* keyboard's or a mouse's reports (hid_parse_report_desc, once in         *)
(* hid_boot_kbd.c and once in usb.c) and the interfaces of a device        *)
(* (usb_parse_config in usb.c).  A descriptor is a sequence of items; the  *)
(* bytes they are coded in are left out.                                   *)
(***************************************************************************)
EXTENDS Integers, FiniteSets, FiniteSetsExt, SequencesExt

\* HID_REPORT_MAX_TRACKED, and the usage pages and usages the drivers know.
Tracked == 4
PageKbd == 7
PageButton == 9
PageGeneric == 1
Axes == {48, 49, 56}

NoField == [off |-> -1, count |-> 0, size |-> 0]
NoInfo(id) == [id |-> id, off |-> 0, mods |-> NoField, keys |-> NoField, buttons |-> NoField,
               axis |-> [u \in Axes |-> NoField]]
NoLocal == [usages |-> <<>>, min |-> 0, max |-> 0, range |-> FALSE]

hid_local_usage(l, idx) ==
    IF idx < Len(l.usages) THEN l.usages[idx + 1]
    ELSE IF l.range /\ l.min <= l.max /\ l.min + idx <= l.max THEN l.min + idx ELSE 0

\* The tables by report id, in the order in which the ids come up.
hid_get_report_info(infos, id) ==
    IF (\E i \in DOMAIN infos : infos[i].id = id) \/ Len(infos) = Tracked THEN infos ELSE Append(infos, NoInfo(id))

\* Element idx of an input item of c elements of s bits that starts at bit off.
see_key(info, g, l, var, off, idx) ==
    LET u == hid_local_usage(l, idx)
    IN  IF g.page # PageKbd THEN info
        ELSE IF var /\ g.size = 1 /\ u \in 224 .. 231
        THEN IF info.mods # NoField THEN info
             ELSE [info EXCEPT !.mods = [off |-> off + idx, count |-> IF g.count > 8 THEN 8 ELSE g.count, size |-> 1]]
        ELSE IF ~var /\ g.size = 8 /\ info.keys = NoField
        THEN [info EXCEPT !.keys = [off |-> off, count |-> g.count, size |-> 8]]
        ELSE info

see_axis(info, g, l, var, rel, off, idx) ==
    LET u == hid_local_usage(l, idx)
    IN  IF g.page = PageButton /\ var /\ g.size = 1
        THEN IF info.buttons # NoField THEN info
             ELSE [info EXCEPT !.buttons = [off |-> off + idx, count |-> g.count, size |-> 1]]
        ELSE IF g.page = PageGeneric /\ var /\ u \in Axes /\ info.axis[u] = NoField
        THEN [info EXCEPT !.axis = [@ EXCEPT ![u] = [off |-> off + idx * g.size, count |-> 1, size |-> g.size,
                                                          rel |-> rel]]]
        ELSE info


\* An input item: its fields are entered where they are new, and the report grows.
input_item(p, it, mouse) ==
    LET infos == hid_get_report_info(p.infos, p.g.id)
        See(info, idx) == IF mouse THEN see_axis(info, p.g, p.l, it.var, it.rel, info.off, idx)
                          ELSE see_key(info, p.g, p.l, it.var, info.off, idx)
        Seen(info) == IF it.const THEN info
                      ELSE FoldLeft(LAMBDA acc, i : See(acc, i - 1), info, [i \in 1 .. p.g.count |-> i])
        Grown(info) == IF info.id # p.g.id \/ p.g.size = 0 \/ p.g.count = 0 THEN info
                       ELSE [Seen(info) EXCEPT !.off = @ + p.g.count * p.g.size]
    IN  [p EXCEPT !.l = NoLocal, !.infos = <<>> \o [i \in DOMAIN infos |-> Grown(infos[i])]]

parse_item(p, it, mouse) ==
    CASE it.t = "global" -> [p EXCEPT !.g = [@ EXCEPT ![it.f] = it.v]]
      [] it.t = "usage"  -> [p EXCEPT !.l = [@ EXCEPT !.usages = IF Len(@) < 16 THEN Append(@, it.v) ELSE @]]
      [] it.t = "min"    -> [p EXCEPT !.l = [@ EXCEPT !.min = it.v, !.range = TRUE]]
      [] it.t = "max"    -> [p EXCEPT !.l = [@ EXCEPT !.max = it.v, !.range = TRUE]]
      [] it.t = "input"  -> input_item(p, it, mouse)
      [] it.t = "main"   -> [p EXCEPT !.l = NoLocal]

Whole(info, mouse) ==
    IF mouse THEN info.axis[48] # NoField /\ info.axis[49] # NoField /\ info.buttons # NoField
    ELSE info.keys # NoField /\ info.mods # NoField

Usable(info, mouse) ==
    IF mouse THEN info.axis[48] # NoField /\ info.axis[49] # NoField ELSE info.keys # NoField

\* The first whole report, or else the first usable one.
pick_report(infos, mouse) ==
    LET whole == {i \in DOMAIN infos : Whole(infos[i], mouse)}
        usable == {i \in DOMAIN infos : Usable(infos[i], mouse)}
        First(S) == infos[CHOOSE i \in S : \A j \in S : i <= j]
    IN  IF whole # {} THEN <<First(whole)>> ELSE IF usable # {} THEN <<First(usable)>> ELSE <<>>

hid_parse_items(d, mouse) ==
    FoldLeft(LAMBDA p, it : parse_item(p, it, mouse),
             [infos |-> <<>>, l |-> NoLocal, g |-> [page |-> 0, size |-> 0, id |-> 0, count |-> 0]], d)

\* The parser of usb.c, and that of hid_boot_kbd.c, which knows keyboards only.
hid_parse_report_desc(d, mouse) == pick_report(hid_parse_items(d, mouse).infos, mouse)

(***************************************************************************)
(* A report is the set of its bits that are one.                           *)
(***************************************************************************)
hid_get_bits(bits, off, n) == FoldSet(LAMBDA i, acc : IF off + i \in bits THEN acc + 2^i ELSE acc, 0, 0 .. n - 1)

hid_get_bits_signed(bits, off, n) ==
    LET v == hid_get_bits(bits, off, n)
    IN  IF n > 0 /\ v >= 2^(n - 1) THEN v - 2^n ELSE v

\* A report of n bytes is read when it is the one the layout is about, and
\* holds all of its fields; the id, if any, comes before them.
Readable(r, fields, bits, n) ==
    LET base == IF r.id = 0 THEN 0 ELSE 8
    IN  /\ r.id # 0 => n >= 1 /\ hid_get_bits(bits, 0, 8) = r.id
        /\ \A f \in fields : f # NoField => base + f.off + f.count * f.size <= 8 * n

kbd_report_extract(r, bits, n) ==
    LET base == IF r.id = 0 THEN 0 ELSE 8
    IN  IF ~Readable(r, {r.keys, r.mods}, bits, n) THEN <<>>
        ELSE <<[mod |-> IF r.mods = NoField THEN {}
                        ELSE {b \in 0 .. r.mods.count - 1 : base + r.mods.off + b \in bits},
                keys |-> [j \in 1 .. r.keys.count |-> hid_get_bits(bits, base + r.keys.off + 8 * (j - 1), 8)]]>>

\* Movement, wheel and buttons, from a report.
usb_hid_mouse_process(r, bits, n) ==
    LET base == IF r.id = 0 THEN 0 ELSE 8
        Axis(u) == LET a == r.axis[u]
                   IN  IF a = NoField \/ a.size > 16 THEN 0
                       ELSE IF a.rel THEN hid_get_bits_signed(bits, base + a.off, a.size)
                       ELSE hid_get_bits(bits, base + a.off, a.size)
    IN  IF \/ ~Readable(r, {r.axis[u] : u \in Axes} \cup {r.buttons}, bits, n)
           \/ r.axis[48].size > 16 \/ r.axis[49].size > 16
        THEN <<>>
        ELSE <<[dx |-> Axis(48), dy |-> Axis(49), wheel |-> Axis(56),
                buttons |-> IF r.buttons = NoField THEN 0
                            ELSE hid_get_bits(bits, base + r.buttons.off, Min({r.buttons.count, 8})) % 8]>>

(***************************************************************************)
(* usb_parse_config: the interfaces of a device.  Of the alternate         *)
(* settings of the first storage interface the one with the most endpoints *)
(* is taken, then the one with the larger packets.                         *)
(***************************************************************************)
NoAlt == [num |-> -1, alt |-> 0, eps |-> 0, in |-> 0, out |-> 0, inmps |-> 0, outmps |-> 0]
NoHid == [num |-> 0, ep |-> 0, mps |-> 0, len |-> 0]

Better(a, b) ==
    LET sum(x) == x.inmps + x.outmps
    IN  \/ b = NoAlt
        \/ a.eps > b.eps
        \/ a.eps = b.eps /\ sum(a) > sum(b)
        \/ a.eps = b.eps /\ sum(a) = sum(b) /\ a.inmps > b.inmps

\* The setting that ends here, if it is one of storage with both endpoints.
keep_alt(p) ==
    IF p.kind = "msc" /\ p.cur.in # 0 /\ p.cur.out # 0 /\ Better(p.cur, p.best) THEN [p EXCEPT !.best = p.cur] ELSE p

config_iface(p, d) ==
    LET k == keep_alt(p)
        first == IF d.class = "msc" /\ k.first = -1 THEN d.num ELSE k.first
        q == [k EXCEPT !.first = first, !.hub = @ \/ d.class = "hub", !.present = @ \/ d.class = "msc",
                       !.kind = IF d.class = "msc" /\ d.num # first THEN "other" ELSE d.class]
    IN  CASE q.kind = "msc" -> [q EXCEPT !.cur = [NoAlt EXCEPT !.num = d.num, !.alt = d.alt, !.eps = d.eps]]
          [] q.kind \in {"kbd", "mouse"} -> [q EXCEPT !.hid = [@ EXCEPT ![q.kind] = [@ EXCEPT !.num = d.num]]]
          [] OTHER -> q

config_endpoint(p, d) ==
    CASE p.kind = "msc" /\ d.type = "bulk" ->
            [p EXCEPT !.cur = IF d.in THEN [@ EXCEPT !.in = d.ep, !.inmps = d.mps]
                              ELSE [@ EXCEPT !.out = d.ep, !.outmps = d.mps]]
      [] p.kind \in {"kbd", "mouse"} /\ d.type = "intr" /\ d.in /\ p.hid[p.kind].ep = 0 ->
            [p EXCEPT !.hid = [@ EXCEPT ![p.kind] = [@ EXCEPT !.ep = d.ep, !.mps = d.mps]]]
      [] OTHER -> p

usb_parse_config(cfg) ==
    keep_alt(FoldLeft(LAMBDA p, d :
                        CASE d.t = "iface" -> config_iface(p, d)
                          [] d.t = "hid" -> IF p.kind \notin {"kbd", "mouse"} THEN p
                                            ELSE [p EXCEPT !.hid = [@ EXCEPT ![p.kind] = [@ EXCEPT !.len = d.len]]]
                          [] d.t = "ep" -> config_endpoint(p, d),
                      [kind |-> "none", first |-> -1, hub |-> FALSE, present |-> FALSE, cur |-> NoAlt, best |-> NoAlt,
                       hid |-> [k \in {"kbd", "mouse"} |-> NoHid]], cfg))

(***************************************************************************)
(* What the descriptors say, item by item.                                 *)
(***************************************************************************)
\* Fields of the input items of a report descriptor: one record per element,
\* with the bit it starts at among the elements of the same report id.
GlobalAt(d, i, f) ==
    LET set == {j \in 1 .. i - 1 : d[j].t = "global" /\ d[j].f = f}
    IN  IF set = {} THEN 0 ELSE d[Max(set)].v

Inputs(d, id) == {i \in DOMAIN d : d[i].t = "input" /\ GlobalAt(d, i, "id") = id}

StartOf(d, i) ==
    FoldSet(LAMBDA j, acc : acc + GlobalAt(d, j, "size") * GlobalAt(d, j, "count"), 0,
            {j \in Inputs(d, GlobalAt(d, i, "id")) : j < i})

\* The usage of element n of input item i, from the local items since the last main item.
UsageOf(d, i, n) ==
    LET mains == {0} \cup {j \in 1 .. i - 1 : d[j].t \in {"input", "main"}}
        local == SubSeq(d, Max(mains) + 1, i - 1)
        usages == SelectSeq(local, LAMBDA it : it.t = "usage")
        Of(t) == SelectSeq(local, LAMBDA it : it.t = t)
        Bound(t) == IF Of(t) = <<>> THEN 0 ELSE Last(Of(t)).v
    IN  IF n < Len(usages) THEN usages[n + 1].v
        ELSE IF Of("min") \o Of("max") # <<>> /\ Bound("min") + n <= Bound("max") THEN Bound("min") + n ELSE 0

Elements(d, id) ==
    UNION {{[item |-> i, n |-> n, page |-> GlobalAt(d, i, "page"), size |-> GlobalAt(d, i, "size"),
             count |-> GlobalAt(d, i, "count"), var |-> d[i].var, usage |-> UsageOf(d, i, n),
             off |-> StartOf(d, i) + n * GlobalAt(d, i, "size")] : n \in 0 .. GlobalAt(d, i, "count") - 1} :
           i \in {j \in Inputs(d, id) : ~d[j].const /\ GlobalAt(d, j, "size") > 0}}

Earliest(S) == CHOOSE e \in S : \A f \in S : e.item < f.item \/ (e.item = f.item /\ e.n <= f.n)

\* The fields of report id that a keyboard (or a mouse) driver is after.
KeysIn(d, id) == {e \in Elements(d, id) : e.page = PageKbd /\ ~e.var /\ e.size = 8}
ModsIn(d, id) == {e \in Elements(d, id) : e.page = PageKbd /\ e.var /\ e.size = 1 /\ e.usage \in 224 .. 231}
ButtonsIn(d, id) == {e \in Elements(d, id) : e.page = PageButton /\ e.var /\ e.size = 1}
AxisIn(d, id, u) == {e \in Elements(d, id) : e.page = PageGeneric /\ e.var /\ e.usage = u}

SameField(f, S) == IF S = {} THEN f = NoField ELSE f.off = Earliest(S).off /\ f.size = Earliest(S).size

LayoutIs(d, mouse, found) ==
    LET ids == {GlobalAt(d, i, "id") : i \in {j \in DOMAIN d : d[j].t = "input"}}
        usable == {id \in ids : IF mouse THEN AxisIn(d, id, 48) # {} /\ AxisIn(d, id, 49) # {} ELSE KeysIn(d, id) # {}}
        whole == {id \in usable : IF mouse THEN ButtonsIn(d, id) # {} ELSE ModsIn(d, id) # {}}
    IN  /\ found = <<>> <=> usable = {}
        /\ found # <<>> =>
             LET r == found[1]
             IN  /\ r.id \in IF whole = {} THEN usable ELSE whole
                 /\ r.off = FoldSet(LAMBDA i, acc : acc + GlobalAt(d, i, "size") * GlobalAt(d, i, "count"), 0,
                                    Inputs(d, r.id))
                 /\ IF mouse THEN /\ SameField(r.buttons, ButtonsIn(d, r.id))
                                  /\ \A u \in Axes : SameField(r.axis[u], AxisIn(d, r.id, u))
                    ELSE SameField(r.keys, KeysIn(d, r.id)) /\ SameField(r.mods, ModsIn(d, r.id))

LayoutOf(d, mouse) == LayoutIs(d, mouse, hid_parse_report_desc(d, mouse))

\* A report made from the items -- the id, the first key and the modifiers, or
\* v to the right and up -- is read back as what was put into it.
ReadsBackAs(d, mouse, v, found) ==
    LET r == found[1]
        base == IF r.id = 0 THEN 0 ELSE 8
        Bits(off, n, x) == {off + i : i \in {j \in 0 .. n - 1 : (x % 2^n) \div 2^j % 2 = 1}}
        At(S, x) == IF S = {} THEN {} ELSE LET e == Earliest(S) IN Bits(base + e.off, e.size, x)
        id == Bits(0, base, r.id)
        len == (base + r.off + 7) \div 8
        Wide(u) == \A e \in AxisIn(d, r.id, u) : e.size \in 2 .. 16
    IN  found # <<>> =>
          IF mouse
          THEN Wide(48) /\ Wide(49) /\ r.axis[48].rel /\ r.axis[49].rel =>
                 LET got == usb_hid_mouse_process(r, id \cup At(AxisIn(d, r.id, 48), v) \cup At(AxisIn(d, r.id, 49), -v), len)
                 IN  got # <<>> /\ got[1].dx = v /\ got[1].dy = -v /\ got[1].buttons = 0
          ELSE LET mods == UNION {Bits(base + e.off, 1, 1) : e \in ModsIn(d, r.id)}
                   got == kbd_report_extract(r, id \cup At(KeysIn(d, r.id), 41) \cup mods, len)
               IN  got # <<>> /\ got[1].keys[1] = 41 /\ (ModsIn(d, r.id) # {} => 0 \in got[1].mod)

ReadsBack(d, mouse, v) == ReadsBackAs(d, mouse, v, hid_parse_report_desc(d, mouse))

\* The settings of the first storage interface that have both endpoints.
Settings(c) ==
    LET ifaces == {i \in DOMAIN c : c[i].t = "iface"}
        msc == {i \in ifaces : c[i].class = "msc"}
        EndOf(i) == Min({j \in ifaces : j > i} \cup {Len(c) + 1})
        Ep(i, in) == {j \in i + 1 .. EndOf(i) - 1 : c[j].t = "ep" /\ c[j].type = "bulk" /\ c[j].in = in}
    IN  {[at |-> i, alt |-> c[i].alt, eps |-> c[i].eps, in |-> c[Max(Ep(i, TRUE))], out |-> c[Max(Ep(i, FALSE))]] :
            i \in {j \in msc : c[j].num = c[Min(msc)].num /\ Ep(j, TRUE) # {} /\ Ep(j, FALSE) # {}}}

ConfigOf(c) ==
    LET p == usb_parse_config(c)
        rank(s) == <<s.eps, s.in.mps + s.out.mps, s.in.mps, -s.at>>
        above(a, b) == \E k \in 1 .. 4 : a[k] > b[k] /\ \A j \in 1 .. k - 1 : a[j] = b[j]
    IN  /\ p.best = NoAlt <=> Settings(c) = {}
        /\ \A s \in Settings(c) : (\A t \in Settings(c) \ {s} : above(rank(s), rank(t)))
               => /\ p.best.alt = s.alt /\ p.best.in = s.in.ep /\ p.best.out = s.out.ep
                  /\ p.best.inmps = s.in.mps /\ p.best.outmps = s.out.mps
=============================================================================
