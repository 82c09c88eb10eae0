------------------------------ MODULE Keyboard ------------------------------
(***************************************************************************)
(* Keys, from the reports of USB keyboards (drivers/usb/hid_boot_kbd.c)    *)
(* and the PS/2 port to the console's line and the key buffer of the       *)
(* programs (drivers/keyboard.c).                                          *)
(*                                                                         *)
(* The driver polls the keyboards from the timer interrupt and turns the   *)
(* difference of two reports into PS/2 scan codes.  Enter runs the command *)
(* inside that interrupt (kernel.c, user_input): a command that waits gets *)
(* nested timer interrupts, which poll the same keyboards.  frames holds   *)
(* the handlers that wait for their command.  Time is left out: a repeat   *)
(* or a timeout may be due at any poll.                                    *)
(***************************************************************************)
EXTENDS Integers, FiniteSets, SequencesExt

CONSTANTS
    Slots,      \* HID_KBD_MAX_DEVS
    Worlds      \* what a run plays: sizes, reports, PS/2 keys, keyboards

VARIABLES
    w,          \* the world
    kb,         \* keyboard.c
    kbds,       \* hid_boot_kbd.c: the table of keyboards
    frames,     \* handlers interrupted by the command they started
    ps2,        \* the PS/2 keyboard: keys down, codes not yet read
    ghost       \* what the properties remember

vars == <<w, kb, kbds, frames, ps2, ghost>>

Max1(a, b) == IF a > b THEN a ELSE b

(***************************************************************************)
(* Tables.                                                                 *)
(***************************************************************************)
set1 == <<30, 48, 46, 32, 18, 33, 34, 35, 23, 36, 37, 38, 50, 49, 24, 25, 16, 19, 31, 20, 22, 47, 17, 45, 21, 44,
          2, 3, 4, 5, 6, 7, 8, 9, 10, 11, 28, 1, 14, 15, 57, 12, 13, 26, 27, 43, 86, 39, 40, 41, 51, 52, 53, 58,
          59, 60, 61, 62, 63, 64, 65, 66, 67, 68, 87, 88, 0, 70, 0, 82, 71, 73, 83, 79, 81, 77, 75, 80, 72, 69,
          53, 55, 74, 78, 28, 79, 80, 81, 75, 76, 77, 71, 72, 73, 82, 83, 86, 93>>

NoCode == [ext |-> FALSE, sc |-> 0]

hid_usage_to_set1(u) ==
    IF u \in 4 .. 101 THEN [ext |-> u \in (73 .. 82) \cup {84, 88, 101}, sc |-> set1[u - 3]] ELSE NoCode

\* Bit of the report's first byte to scan code.
mods == [b \in 0 .. 7 |-> [ext |-> b \in {3, 4, 6, 7}, sc |-> <<29, 42, 56, 91, 29, 54, 56, 92>>[b + 1]]]

sc_ascii == <<27, 49, 50, 51, 52, 53, 54, 55, 56, 57, 48, 45, 61, 8, 9, 113, 119, 101, 114, 116, 121, 117, 105,
              111, 112, 91, 93, 10, 0, 97, 115, 100, 102, 103, 104, 106, 107, 108, 59, 39, 96, 0, 92, 122, 120,
              99, 118, 98, 110, 109, 44, 46, 47, 0, 42, 0, 32>>

sc_ascii_shift == <<27, 33, 64, 35, 36, 37, 94, 38, 42, 40, 41, 95, 43, 8, 9, 0, 0, 0, 0, 0, 0, 0, 0,
                    0, 0, 123, 125, 10, 0, 0, 0, 0, 0, 0, 0, 0, 0, 0, 58, 34, 126, 0, 124, 0, 0,
                    0, 0, 0, 0, 0, 60, 62, 63, 0, 42, 0, 32>>

(***************************************************************************)
(* keyboard.c: the key buffer of the programs (note_keybuf).  pend is a    *)
(* ghost: the codes that a reader has still to get.                        *)
(***************************************************************************)
note_keybuf_clear_unsafe(k) == [k EXCEPT !.nhead = 0, !.ntail = 0, !.pressed = FALSE, !.pend = <<>>]

LastOf(s, n) == SubSeq(s, Max1(1, Len(s) - n + 1), Len(s))

note_key_emit(k, c) ==
    LET next == (k.nhead + 1) % w.note
    IN  [k EXCEPT !.ntail = IF next = @ THEN (@ + 1) % w.note ELSE @,
                  !.note = [@ EXCEPT ![k.nhead] = c], !.nhead = next, !.pressed = TRUE,
                  !.pend = LastOf(Append(@, c), w.note - 1)]

note_keybuf_pop(k) ==
    LET t == IF k.nhead # k.ntail THEN (k.ntail + 1) % w.note ELSE k.ntail
    IN  [k EXCEPT !.ntail = t, !.pressed = k.nhead # t, !.pend = IF @ = <<>> THEN @ ELSE Tail(@)]

(***************************************************************************)
(* keyboard.c: the console's line and its history.  past is a ghost: the   *)
(* commands entered, without repetitions, as far back as the table goes.   *)
(***************************************************************************)
reset_modifiers(k) == [k EXCEPT !.shift = FALSE, !.altl = FALSE, !.altr = FALSE, !.e0 = FALSE]

hist_push(k) ==
    IF k.line = <<>> \/ (k.hsize > 0 /\ k.hist[(k.hhead - 1 + w.hist) % w.hist] = k.line) THEN k
    ELSE [k EXCEPT !.hist = [@ EXCEPT ![k.hhead] = k.line], !.hsize = IF @ < w.hist THEN @ + 1 ELSE @,
                   !.hhead = (@ + 1) % w.hist, !.past = LastOf(Append(@, k.line), w.hist)]

SetLine(k, l) == [k EXCEPT !.line = l, !.cur = Len(l)]

\* (variant) the table is read from its start, whatever its head is.
load_history_view_flat(k) == SetLine(k, k.hist[(k.hsize - 1 - k.view + w.hist) % w.hist])

load_history_view(k) == SetLine(k, k.hist[(k.hhead - 1 - k.view + w.hist) % w.hist])

arrow_up(k) ==
    load_history_view(IF k.view = -1 THEN [k EXCEPT !.scratch = k.line, !.saved = TRUE, !.view = 0]
                      ELSE IF k.view < k.hsize - 1 THEN [k EXCEPT !.view = @ + 1] ELSE k)

arrow_down(k) ==
    IF k.view > 0 THEN load_history_view([k EXCEPT !.view = @ - 1])
    ELSE SetLine([k EXCEPT !.view = -1], IF k.saved THEN k.scratch ELSE <<>>)

NOTE_KEY == [sc \in {75, 77, 72, 80} |-> CASE sc = 75 -> 144 [] sc = 77 -> 145 [] sc = 72 -> 146 [] sc = 80 -> 147]

\* An arrow key; the ones that do nothing leave the modifiers alone.
arrow(k, sc) ==
    CASE ~k.on                              -> reset_modifiers(note_key_emit(k, NOTE_KEY[sc]))
      [] k.on /\ sc = 75 /\ k.cur > 0           -> reset_modifiers([k EXCEPT !.cur = @ - 1])
      [] k.on /\ sc = 77 /\ k.cur < Len(k.line) -> reset_modifiers([k EXCEPT !.cur = @ + 1])
      [] k.on /\ sc = 72 /\ k.hsize > 0         -> reset_modifiers(arrow_up(k))
      [] k.on /\ sc = 80 /\ k.view # -1         -> reset_modifiers(arrow_down(k))
      [] OTHER                              -> k

Blank(l) == \A i \in DOMAIN l : l[i] \in {9, 32}

\* The tail of Enter, after user_input has returned.
enter_done(k) == reset_modifiers([k EXCEPT !.line = <<>>, !.cur = 0, !.view = -1, !.saved = FALSE])

\* Enter: an empty line is done with at once, any other one starts a command.
enter(k) ==
    IF ~k.on THEN note_key_emit(k, 10)
    ELSE LET h == hist_push(k)
         IN  IF Blank(k.line) THEN enter_done(h) ELSE [h EXCEPT !.on = FALSE, !.cmd = TRUE]

backspace(k) ==
    IF ~k.on THEN note_key_emit(k, 8)
    ELSE IF k.cur > 0 THEN [k EXCEPT !.line = RemoveAt(@, k.cur), !.cur = @ - 1] ELSE k

insert_char(k, c) ==
    IF c = 0 THEN k
    ELSE IF ~k.on THEN note_key_emit(k, c)
    ELSE IF Len(k.line) < w.line - 1 THEN [k EXCEPT !.line = InsertAt(@, k.cur + 1, c), !.cur = @ + 1]
    ELSE k

translate_numpad(sc, num) ==
    CASE sc = 55 -> 42 [] sc = 74 -> 45 [] sc = 78 -> 43
      [] sc \in 71 .. 83 \ {74, 78} -> IF num THEN <<55, 56, 57, 0, 52, 53, 54, 0, 49, 50, 51, 48, 46>>[sc - 70] ELSE 0
      [] OTHER -> 0

\* The character of a plain key; alt gives the other half of the code page.
char_of(k, sc) ==
    LET base == sc_ascii[sc]
    IN  IF k.altl THEN (sc + 255) % 256
        ELSE IF k.altr THEN sc + 126
        ELSE IF base \in 97 .. 122 THEN (IF k.shift # k.caps THEN base - 32 ELSE base)
        ELSE IF k.shift THEN sc_ascii_shift[sc] ELSE base


break_code(k, sc) ==
    IF k.e0 THEN [k EXCEPT !.e0 = FALSE, !.altr = @ /\ sc # 56]
    ELSE [k EXCEPT !.altl = @ /\ sc # 56, !.shift = @ /\ sc \notin {42, 54}]

\* Numpad Enter leaves the prefix set while its command runs.
extended(k, sc) ==
    LET p == [k EXCEPT !.e0 = FALSE]
    IN  CASE sc = 28                            -> IF enter(k).cmd THEN enter(k) ELSE enter(p)
          [] sc = 53                            -> insert_char(p, 47)
          [] sc \in DOMAIN NOTE_KEY             -> [arrow(k, sc) EXCEPT !.e0 = FALSE]
          [] sc \in {73, 81} /\ k.on            -> reset_modifiers(p)
          [] OTHER                              -> p

plain(k, sc) ==
    LET np == translate_numpad(sc, k.num)
    IN  CASE sc = 14                            -> backspace(k)
          [] sc = 28                            -> enter(k)
          [] sc = 1                             -> reset_modifiers(IF k.on THEN k ELSE note_key_emit(k, 27))
          [] np # 0                             -> insert_char(k, np)
          [] ~k.num /\ sc \in DOMAIN NOTE_KEY   -> arrow(k, sc)
          [] ~k.num /\ sc \in {73, 81}          -> reset_modifiers(k)
          [] sc \in 1 .. 57 \ {1, 14, 28, 55}   -> insert_char(k, char_of(k, sc))
          [] OTHER                              -> k

\* Ctrl+E ends the foreground program or the script (proc_kill, see Proc).
keyboard_handle_scancode(k, sc) ==
    CASE sc = 224                               -> [k EXCEPT !.e0 = TRUE]
      [] sc >= 128 /\ sc # 224                  -> break_code(k, sc - 128)
      [] sc = 56                                -> IF k.e0 THEN [k EXCEPT !.altr = TRUE] ELSE [k EXCEPT !.altl = TRUE]
      [] sc \in {42, 54}                        -> [k EXCEPT !.shift = TRUE]
      [] sc = 58                                -> [k EXCEPT !.caps = ~@]
      [] sc = 69                                -> [k EXCEPT !.num = ~@]
      [] sc = 29                                -> [k EXCEPT !.ctrl = TRUE]
      [] sc = 18 /\ k.ctrl                      -> reset_modifiers([k EXCEPT !.ctrl = FALSE])
      [] OTHER                                  -> IF k.e0 THEN extended(k, sc) ELSE plain(k, sc)

(***************************************************************************)
(* hid_boot_kbd.c.  A report has modifier bits and a sequence of usages.   *)
(***************************************************************************)
NoReport == [mod |-> {}, keys |-> <<>>]
NoKbd == [active |-> FALSE, dev |-> <<>>, proto |-> FALSE, buf |-> NoReport, done |-> "no", prev |-> NoReport,
          rep |-> 0]

InReport(r, u) == u \in {r.keys[j] : j \in DOMAIN r.keys} \ {0}

hid_report_has_rollover(r) == \E j \in DOMAIN r.keys : r.keys[j] \in 1 .. 3

send_scancode(k, c, make) ==
    keyboard_handle_scancode(IF c.ext THEN keyboard_handle_scancode(k, 224) ELSE k, IF make THEN c.sc ELSE c.sc + 128)

hid_boot_kbd_refresh_ps2_ignore(s) == [s EXCEPT !.kb.ignore = \E i \in Slots : s.kbds[i].active]

hid_boot_kbd_deactivate(s, i) ==
    hid_boot_kbd_refresh_ps2_ignore([s EXCEPT !.kbds = [@ EXCEPT ![i] = [NoKbd EXCEPT !.buf = s.kbds[i].buf]]])

Put(s, i, d) == [s EXCEPT !.kbds = [@ EXCEPT ![i] = d]]

\* Changed modifiers, in the order of the table.
send_mods(k, old, new) ==
    FoldLeft(LAMBDA acc, b : IF (b \in old) = (b \in new) THEN acc ELSE send_scancode(acc, mods[b], b \in new),
             k, <<0, 1, 2, 3, 4, 5, 6, 7>>)

\* Keys of the previous report that are no longer down.
send_breaks(s, i, r) ==
    FoldLeft(LAMBDA acc, u :
                LET c == hid_usage_to_set1(u)
                IN  IF u = 0 \/ InReport(r, u) \/ c.sc = 0 THEN acc
                    ELSE [Put(acc, i, [acc.kbds[i] EXCEPT !.rep = IF @ = u THEN 0 ELSE @])
                          EXCEPT !.kb = send_scancode(acc.kb, c, FALSE)],
             s, s.kbds[i].prev.keys)

\* What the handler works on: the buffer itself, which a nested poll may fill
\* again, or in the report protocol the copy it took; and the keys it remembers.
Live(s, i, copy) == IF copy.live THEN s.kbds[i].buf ELSE copy.r
Prev(s, i, copy) == IF s.kbds[i].proto # copy.live THEN s.kbds[i].prev ELSE NoReport

\* What a key did to keyboard.c; the command it may start interrupts the handler f.
Typed(s, k, f) == [s EXCEPT !.kb = [k EXCEPT !.cmd = FALSE], !.frames = IF k.cmd THEN Append(@, f) ELSE @]

\* Keys that went down, from the j-th on; a command stops the loop in a frame.
send_makes(s, i, copy, from, new) ==
    LET down(acc, j, k, n) ==
            [stop |-> k.cmd, new |-> n,
             s |-> Typed(acc.s, k, [pc |-> "run", slot |-> i, at |-> j, new |-> n, copy |-> copy])]
        key(acc, j, u) ==
            IF acc.stop \/ j < from \/ u <= 3 \/ InReport(Prev(acc.s, i, copy), u) \/ hid_usage_to_set1(u).sc = 0 THEN acc
            ELSE down(acc, j, send_scancode(acc.s.kb, hid_usage_to_set1(u), TRUE), IF acc.new = 0 THEN u ELSE acc.new)
        usage(r, j) == IF j \in DOMAIN r.keys THEN r.keys[j] ELSE 0
    IN  FoldLeft(LAMBDA acc, j : key(acc, j, usage(Live(acc.s, i, copy), j)),
                 [stop |-> FALSE, new |-> new, s |-> s], [j \in 1 .. w.keys |-> j])

\* The end of process_report, and the rearming of the transfer.
report_done(s, i, copy, new) ==
    LET d == s.kbds[i]
        r == Live(s, i, copy)
    IN  Put(s, i, [d EXCEPT !.rep = IF new # 0 THEN new ELSE IF InReport(r, @) THEN @ ELSE 0,
                            !.prev = IF d.proto # copy.live THEN r ELSE @,
                            !.done = IF d.active THEN "no" ELSE @])

makes_and_done(s, i, copy, from, new) ==
    LET end(m) == IF m.stop THEN m.s ELSE report_done(m.s, i, copy, m.new)
    IN  end(send_makes(s, i, copy, from, new))

process_report(s, i) ==
    LET d == s.kbds[i]
        r == d.buf
        t == [s EXCEPT !.kb = send_mods(@, d.prev.mod, r.mod)]
    IN  IF ~d.proto /\ hid_report_has_rollover(r) THEN Put(s, i, [d EXCEPT !.done = "no"])
        ELSE makes_and_done(send_breaks(t, i, r), i, [live |-> ~d.proto, r |-> r], 1, 0)

repeat_key(s, i, d) ==
    Typed([s EXCEPT !.echo = @ \cup {<<i, d.rep>>}], send_scancode(s.kb, hid_usage_to_set1(d.rep), TRUE),
          [pc |-> "run", slot |-> i, at |-> 0, new |-> 0, copy |-> [live |-> ~d.proto, r |-> NoReport]])

\* (variant) a key repeats as long as no report has said otherwise.
repeat_tick_blind(s, i) == IF s.kbds[i].rep = 0 THEN s ELSE repeat_key(s, i, s.kbds[i])

repeat_tick(s, i) ==
    LET d == s.kbds[i]
    IN  IF d.rep = 0 THEN s
        ELSE IF ~InReport(d.prev, d.rep) THEN Put(s, i, [d EXCEPT !.rep = 0])
        ELSE repeat_key(s, i, d)

\* async_in_check and what follows it.
check_report(s, i) ==
    CASE s.kbds[i].done = "no"  -> s
      [] s.kbds[i].done = "err" -> hid_boot_kbd_deactivate(s, i)
      [] s.kbds[i].done = "yes" -> process_report(s, i)

\* Keyboard i, when its reports stopped coming (late) or a repeat is due.
poll_one(s, i, late, due) ==
    LET timeout == IF i \in late THEN Put(s, i, [s.kbds[i] EXCEPT !.rep = 0, !.prev = NoReport]) ELSE s
        rest(t) == IF t.frames # s.frames THEN t ELSE check_report(t, i)
    IN  IF ~s.kbds[i].active THEN s ELSE rest(IF i \in due THEN repeat_tick(timeout, i) ELSE timeout)

\* The keyboards from slot i on, until one of them starts a command.
poll_from(s, first, late, due) ==
    FoldLeft(LAMBDA acc, i : IF i < first \/ acc.frames # s.frames THEN acc ELSE poll_one(acc, i, late, due),
             s, SetToSortSeq(Slots, <))

hid_boot_kbd_poll(s, late, due) == poll_from(s, 1, late, due)

\* The handler goes on after its command.
resume(s, f, late, due) ==
    LET rest(t) == IF t.frames # s.frames THEN t ELSE poll_from(t, f.slot + 1, late, due)
    IN  IF f.slot = 0 THEN s
        ELSE rest(IF f.at > 0 THEN makes_and_done(s, f.slot, f.copy, f.at + 1, f.new)
                  ELSE IF s.kbds[f.slot].active THEN check_report(s, f.slot) ELSE s)

hid_boot_kbd_add_device(s, dev, proto) ==
    LET free == {i \in Slots : ~s.kbds[i].active}
        i == CHOOSE i \in free : \A j \in free : i <= j
    IN  IF free = {} THEN s
        ELSE hid_boot_kbd_refresh_ps2_ignore(Put(s, i, [NoKbd EXCEPT !.active = TRUE, !.dev = dev, !.proto = proto]))

\* Keyboards that have gone: one device, or all of a controller.
drop_kbds(s, gone) ==
    FoldLeft(LAMBDA acc, i : IF i \in gone THEN hid_boot_kbd_deactivate(acc, i) ELSE acc, s, SetToSortSeq(Slots, <))

hid_boot_kbd_drop_device(s, dev) == drop_kbds(s, {i \in Slots : s.kbds[i].active /\ s.kbds[i].dev = dev})

hid_boot_kbd_drop_controller(s, hc) == drop_kbds(s, {i \in Slots : s.kbds[i].active /\ s.kbds[i].dev[1] = hc})

hid_boot_kbd_init(s) == hid_boot_kbd_refresh_ps2_ignore([s EXCEPT !.kbds = [i \in Slots |-> NoKbd]])

(***************************************************************************)
(* Steps.                                                                  *)
(***************************************************************************)
KbdInit ==
    /\ w \in Worlds
    /\ kb = [e0 |-> FALSE, shift |-> FALSE, caps |-> FALSE, altl |-> FALSE, altr |-> FALSE, num |-> FALSE,
             ctrl |-> FALSE, ignore |-> FALSE, on |-> TRUE, cmd |-> FALSE, susp |-> FALSE,
             line |-> <<>>, cur |-> 0, hist |-> [i \in 0 .. w.hist - 1 |-> <<>>], hhead |-> 0, hsize |-> 0,
             view |-> -1, scratch |-> <<>>, saved |-> FALSE, past |-> <<>>,
             note |-> [i \in 0 .. w.note - 1 |-> 0], nhead |-> 0, ntail |-> 0, pressed |-> FALSE, pend |-> <<>>]
    /\ kbds = [i \in Slots |-> NoKbd]
    /\ frames = <<>>
    /\ ps2 = [down |-> {}, q |-> <<>>]
    /\ ghost = [lost |-> {}, sent |-> [i \in Slots |-> NoReport], echo |-> {}, reused |-> {}]

State == [kb |-> kb, kbds |-> kbds, frames |-> frames, echo |-> {}]

\* Modifiers the driver knows to be down on keyboard i.
ModsOf(i) == kbds[i].prev.mod \cup (IF kbds[i].done = "no" THEN {} ELSE kbds[i].buf.mod)

FlagOn(k, b) == (b \in {1, 5} /\ k.shift) \/ (b = 2 /\ k.altl) \/ (b = 6 /\ k.altr)

\* The step to s, in which releases of the modifiers in gone are never seen.
\* reused are the slots given to another keyboard while a handler of the slot waits.
Goes(s, gone) ==
    /\ kb' = s.kb /\ kbds' = s.kbds /\ frames' = s.frames
    /\ ghost' = [ghost EXCEPT !.lost = {b \in @ \cup gone : FlagOn(s.kb, b)}, !.echo = s.echo,
                              !.reused = {i \in Slots : s.kbds[i].active /\ IF kbds[i].active THEN i \in @
                                                                             ELSE \E j \in DOMAIN frames : frames[j].slot = i}]
    /\ UNCHANGED w

\* A keyboard delivers a report, or its transfer fails.
Report ==
    \E i \in Slots, r \in w.reports :
        /\ kbds[i].active /\ kbds[i].done = "no"
        /\ r # ghost.sent[i]
        /\ kbds' = [kbds EXCEPT ![i] = [@ EXCEPT !.buf = r, !.done = "yes"]]
        /\ ghost' = [ghost EXCEPT !.sent = [@ EXCEPT ![i] = IF hid_report_has_rollover(r) THEN @ ELSE r], !.echo = {}]
        /\ UNCHANGED <<w, kb, frames, ps2>>

TransferError ==
    \E i \in Slots :
        /\ w.faults /\ kbds[i].active /\ kbds[i].done = "no"
        /\ kbds' = [kbds EXCEPT ![i] = [@ EXCEPT !.done = "err"]]
        /\ ghost' = [ghost EXCEPT !.echo = {}]
        /\ UNCHANGED <<w, kb, frames, ps2>>

\* usb_poll, from the timer interrupt.
Poll ==
    \E late \in SUBSET {i \in Slots : w.faults /\ kbds[i].active /\ kbds[i].prev # NoReport},
       due \in SUBSET {i \in Slots : kbds[i].rep # 0} :
        /\ Goes(hid_boot_kbd_poll(State, late, due),
                UNION {ModsOf(i) : i \in late \cup {j \in Slots : kbds[j].done = "err"}})
        /\ UNCHANGED ps2

\* The PS/2 keyboard: a key moves, and its code is read by the interrupt.
Ps2Key ==
    \E sc \in w.ps2 :
        /\ ps2.q = <<>> /\ (sc \in ps2.down \/ Cardinality(ps2.down) < w.down)
        /\ ps2' = IF sc \in ps2.down THEN [down |-> ps2.down \ {sc}, q |-> <<sc + 128>>]
                  ELSE [down |-> ps2.down \cup {sc}, q |-> <<sc>>]
        /\ ghost' = [ghost EXCEPT !.echo = {}]
        /\ UNCHANGED <<w, kb, kbds, frames>>

keyboard_callback ==
    /\ ps2.q # <<>>
    /\ ps2' = [ps2 EXCEPT !.q = Tail(@)]
    /\ IF kb.ignore THEN Goes(State, {b \in 0 .. 7 : mods[b].sc + 128 = Head(ps2.q)})
       ELSE Goes(Typed(State, keyboard_handle_scancode(kb, Head(ps2.q)), [pc |-> "run", slot |-> 0]), {})

\* The command of the innermost handler ends; it may have suspended the shell.
user_input_done ==
    \E susp \in BOOLEAN :
        /\ frames # <<>> /\ Last(frames).pc = "run"
        /\ Goes([State EXCEPT !.kb = [@ EXCEPT !.on = ~susp, !.susp = susp],
                              !.frames = ReplaceAt(@, Len(@), [Last(@) EXCEPT !.pc = "ret"])], {})
        /\ UNCHANGED ps2

HandlerReturns ==
    \E late \in SUBSET {i \in Slots : w.faults /\ kbds[i].active /\ kbds[i].prev # NoReport},
       due \in SUBSET {i \in Slots : kbds[i].rep # 0} :
        /\ frames # <<>> /\ Last(frames).pc = "ret"
        /\ Goes(resume([State EXCEPT !.kb = enter_done(@), !.frames = Front(@)], Last(frames), late, due),
                UNION {ModsOf(i) : i \in late \cup {j \in Slots : kbds[j].done = "err"}})
        /\ UNCHANGED ps2

\* The program ends, or sysmgr could not start it: the shell reads keys again.
ShellResumes ==
    /\ kb.susp
    /\ Goes([State EXCEPT !.kb = [@ EXCEPT !.susp = FALSE, !.on = TRUE]], {})
    /\ UNCHANGED ps2

\* A command or a program reads a key, or throws away what was typed.
getkey_nonblock ==
    /\ ~kb.on
    /\ Goes([State EXCEPT !.kb = note_keybuf_pop(@)], {})
    /\ UNCHANGED ps2

keyboard_flush ==
    /\ ~kb.on
    /\ Goes([State EXCEPT !.kb = reset_modifiers(note_keybuf_clear_unsafe(@))], {})
    /\ UNCHANGED ps2

(***************************************************************************)
(* Properties.                                                             *)
(***************************************************************************)
\* Modifiers that some keyboard has down, as far as a report or a code says.
Down == UNION {ModsOf(i) : i \in {j \in Slots : kbds[j].active}}
          \cup {b \in 0 .. 7 : mods[b].sc \in ps2.down \/ (ps2.q # <<>> /\ mods[b].sc + 128 = Head(ps2.q))}


\* A key repeats (repeat_tick) only while the last report of its keyboard has
\* it down, or until the report that releases it has been handled.  This is
\* about the boot protocol, and about slots not given to another keyboard
\* under a waiting handler.
RepeatStep ==
    \A e \in ghost'.echo :
        LET d == kbds[e[1]]
        IN  d.proto \/ e[1] \in ghost.reused \/ InReport(ghost.sent[e[1]], e[2]) \/ (d.done # "no" /\ InReport(d.prev, e[2]))

RepeatsHeld == [][RepeatStep]_vars

\* Up and Down show the commands entered, the latest first, as far back as
\* the table goes, and Down past the latest brings back the line being typed.
HistoryShows ==
    LET u == arrow_up(kb)
        d == arrow_down(kb)
        Cmd(v) == kb.past[Len(kb.past) - v]
    IN  /\ Len(kb.past) = kb.hsize
        /\ kb.hsize > 0 => u.line = Cmd(u.view)
        /\ kb.view > 0 => d.line = Cmd(d.view)
        /\ kb.hsize > 0 /\ kb.view = -1 => arrow_down(u).line = kb.line
=============================================================================
