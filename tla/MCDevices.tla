----------------------------- MODULE MCDevices -----------------------------
EXTENDS Devices

\* Items of report descriptors.
G(f, v) == [t |-> "global", f |-> f, v |-> v]
L(t, v) == [t |-> t, v |-> v]
In(k, v, r) == [t |-> "input", const |-> k, var |-> v, rel |-> r]

\* Items of configurations.
If(c, n, a, e) == [t |-> "iface", class |-> c, num |-> n, alt |-> a, eps |-> e]
Ep(t, in, e, m) == [t |-> "ep", type |-> t, in |-> in, ep |-> e, mps |-> m]
HidLen == [t |-> "hid", len |-> 9]

MCConfigs ==
    LET kbd == <<If("kbd", 0, 0, 1), HidLen, Ep("intr", TRUE, 1, 8)>>
        mouse == <<If("mouse", 1, 0, 1), HidLen, Ep("intr", TRUE, 2, 4)>>
    IN  [k \in {"kbd", "rkbd", "mouse", "combo", "stick", "hub"} |->
           CASE k \in {"kbd", "rkbd"} -> kbd [] k = "mouse" -> mouse [] k = "combo" -> kbd \o mouse
             [] k = "stick" -> <<If("msc", 0, 0, 2), Ep("bulk", TRUE, 1, 64), Ep("bulk", FALSE, 2, 64)>>
             [] k = "hub" -> <<If("hub", 0, 0, 1), Ep("intr", TRUE, 1, 1)>>]

MCDescs == [k \in DOMAIN MCConfigs |-> IF k = "rkbd" THEN <<G("page", 7), G("size", 8), G("count", 2), In(FALSE, FALSE, FALSE)>>
                                       ELSE <<>>]

R(m, k) == [mod |-> m, keys |-> k]
Old == [hc |-> "old", hub |-> 0]
X == [hc |-> "xhci", hub |-> 0]
Behind(p) == [hc |-> "old", hub |-> p]

NoMsc == [last |-> {0}, sectors |-> 0, slow |-> FALSE, faults |-> 0, calls |-> 0, counts |-> {}, lbas |-> {}]

\* A machine with nothing to do.
W0 == [line |-> 2, hist |-> 1, note |-> 2, depth |-> 1, keys |-> 2, reports |-> {}, ps2 |-> {}, down |-> 1, faults |-> FALSE,
       ports |-> <<>>, plug |-> {}, moves |-> 0, usbscan |-> FALSE, getkey |-> FALSE, edit |-> FALSE, file |-> <<>>,
       desc |-> {[d |-> <<>>, c |-> <<>>]}, items |-> {}, citems |-> {}, len |-> 0, msc |-> NoMsc]

\* One boot keyboard with modifiers, faults, and a PS/2 Shift.
WMods == [W0 EXCEPT !.ports = <<Old>>, !.plug = {"kbd"}, !.moves = 2, !.ps2 = {42}, !.faults = TRUE,
                    !.reports = {R({}, <<0, 0>>), R({1}, <<0, 0>>), R({1}, <<1, 1>>), R({2}, <<4, 0>>)}]
\* Keyboards that run commands inside each other's handlers.
WTwo == [W0 EXCEPT !.ports = <<Old, X>>, !.plug = {"kbd"}, !.moves = 2, !.depth = 2,
                   !.reports = {R({}, <<0, 0>>), R({}, <<5, 40>>)}]
WOne == [WTwo EXCEPT !.ports = <<Old>>, !.moves = 2, !.reports = @ \cup {R({}, <<4, 0>>)}]
WReport == [W0 EXCEPT !.ports = <<X>>, !.plug = {"rkbd"}, !.moves = 2, !.depth = 2,
                      !.reports = {R({}, <<0, 0>>), R({}, <<4, 0>>), R({}, <<5, 88>>)}, !.getkey = TRUE]
WHist == [W0 EXCEPT !.hist = 2, !.ps2 = {30, 48, 28, 72, 80, 14}]
\* Devices come and go.
WOld == [W0 EXCEPT !.ports = <<Old, Old, Old>>, !.plug = {"stick"}, !.moves = 5]
WMix == [W0 EXCEPT !.ports = <<Old, X, X>>, !.plug = {"stick", "combo"}, !.moves = 4]
WHub == [W0 EXCEPT !.ports = <<Old, Behind(1), Behind(1)>>, !.plug = {"hub", "stick", "mouse"}, !.moves = 5]
WScan == [W0 EXCEPT !.ports = <<X>>, !.plug = {"kbd", "stick"}, !.moves = 3, !.usbscan = TRUE, !.ps2 = {28, 48}]
\* The editor.
WNote == [W0 EXCEPT !.ps2 = {28, 31, 14, 75, 77, 72, 80, 1}, !.edit = TRUE, !.file = <<9>>]
\* Descriptors.
WDesc == [W0 EXCEPT !.desc = {[d |-> <<G("page", 7), G("size", 8), G("count", 2)>>, c |-> <<>>]}, !.len = 6,
                    !.items = {G("id", 1), G("size", 1), L("usage", 224), L("min", 225), L("max", 231),
                               In(FALSE, FALSE, FALSE), In(FALSE, TRUE, TRUE), In(TRUE, TRUE, FALSE), [t |-> "main"]}]
WMouse == [WDesc EXCEPT !.desc = {[d |-> <<G("page", 1), G("size", 8), G("count", 2), L("usage", 48), L("usage", 49)>>, c |-> <<>>]}, !.len = 9,
                        !.items = {G("id", 2), G("page", 9), G("size", 1), L("usage", 56), In(FALSE, TRUE, TRUE), In(TRUE, TRUE, FALSE), [t |-> "main"]}]
WConf == [W0 EXCEPT !.desc = {[d |-> <<>>, c |-> <<If("msc", 0, 0, 2), Ep("bulk", TRUE, 1, 64), Ep("bulk", FALSE, 2, 64)>>]}, !.len = 7,
                    !.citems = {If("msc", 0, 1, 2), If("msc", 0, 2, 3), If("msc", 1, 0, 3), If("kbd", 2, 0, 1),
                                Ep("bulk", TRUE, 1, 64), Ep("bulk", FALSE, 2, 64), Ep("bulk", TRUE, 3, 128), HidLen}]
WMsc == [W0 EXCEPT !.msc = [last |-> {0, 9, 10, 11}, sectors |-> 4, slow |-> TRUE, faults |-> 2, calls |-> 2,
                             counts |-> {1, 2, 4}, lbas |-> {0}]]

MCWorlds == {WMods, WTwo, WOne, WReport, WHist, WOld, WMix, WHub, WScan, WNote, WDesc, WMouse, WConf, WMsc}

\* Handlers inside each other; and where the editor is, only its command is given.
Shallow ==
    /\ Len(frames) <= w.depth
    /\ w.edit => /\ kb.line \in {<<>>, <<115>>} /\ kb.past \in {<<>>, <<<<115>>>>}
                 /\ kb.cur = Len(kb.line) /\ ~kb.saved /\ ~kb.susp

\* Cells of the ring that hold no key and what nothing reads are left out.
Ring == [j \in 1 .. (kb.nhead - kb.ntail) % w.note |-> kb.note[(kb.ntail + j - 1) % w.note]]

\* A closed editor is its file; an open one will write its file anew, as x is not typed.
Editor == IF ed.mode = "off" THEN [file |-> ed.file] ELSE [ed EXCEPT !.file = <<>>]

View == <<w, [kb EXCEPT !.note = Ring, !.nhead = 0, !.ntail = 0, !.scratch = IF kb.saved THEN @ ELSE <<>>], kbds, frames, ps2, ghost.lost, ghost.reused,
          [i \in Slots |-> IF kbds[i].active THEN ghost.sent[i] ELSE NoReport], bus, tab, scan, Editor, desc, mscvars>>
=============================================================================
