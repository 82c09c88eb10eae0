-------------------------------- MODULE Msc --------------------------------
(***************************************************************************)
(* The mass-storage class of drivers/usb/usb.c: SCSI commands over the     *)
(* bulk-only transport, for a stick behind EHCI or OHCI.  The commands of  *)
(* one call are run one after the other; a command that goes wrong is      *)
(* retried after a reset recovery, whose requests can go wrong as well.    *)
(*                                                                         *)
(* A packet is a sector, another short answer, or a status.  Driver and    *)
(* stick keep a data toggle for each direction: a packet with the wrong    *)
(* one is acknowledged and thrown away.  The driver moves its toggle once  *)
(* per transfer, the stick once per packet.                                *)
(***************************************************************************)
EXTENDS Integers, FiniteSets, SequencesExt

CONSTANTS
    Chunk,      \* sectors per command: 32
    BotRetries, \* USB_MSC_BOT_RETRIES
    TurRetries, \* USB_MSC_TUR_RETRIES
    CapRetries, \* USB_MSC_READ_CAPACITY_RETRIES
    MaxLba      \* 0xFFFFFFFF

VARIABLES
    lim,        \* what can happen: the capacities, the calls and the faults
    call,       \* the call of the driver's users and how far it has got
    bot,        \* msc_bot_cmd: the command, and the driver's toggles and tags
    stick       \* the device

mscvars == <<lim, call, bot, stick>>

Junk == <<"junk">>
NoWant == [n |-> 0, lba |-> 0, tag |-> 0]

NoCall == [op |-> "none", at |-> "idle", lba |-> 0, n |-> 0, done |-> 0, tries |-> 0, buf |-> <<>>, data |-> <<>>,
           blocks |-> 0, ok |-> FALSE, was |-> <<>>, torn |-> {}]

MscInit(l) ==
    /\ lim = l
    /\ call = NoCall
    /\ bot = [cmd |-> "none", pc |-> "idle", tag |-> 0, tries |-> 0, in |-> 0, out |-> 0, got |-> <<>>, ok |-> FALSE]
    /\ \E last \in l.last :
        stick = [med |-> [i \in 0 .. l.sectors - 1 |-> <<"old", i>>], last |-> last, q |-> <<>>, want |-> NoWant,
                 in |-> 0, out |-> 0, ready |-> ~l.slow, faults |-> 0, calls |-> 0]

(***************************************************************************)
(* The stick.                                                              *)
(***************************************************************************)
Csw(tag, st) == [k |-> "csw", tag |-> tag, v |-> st]
Packet(k, v) == [k |-> k, tag |-> 0, v |-> v]

\* Sectors of this command: the chunk that the call has reached.
Count == IF call.n - call.done > Chunk THEN Chunk ELSE call.n - call.done
First == call.lba + call.done

\* A command packet.  One that comes where data is expected is taken for data.
Execute(s, c, tag) ==
    IF s.want.n > 0
    THEN [s EXCEPT !.med = [@ EXCEPT ![s.want.lba] = Junk], !.want = NoWant, !.q = Append(@, Csw(s.want.tag, 0))]
    ELSE CASE c = "tur"   -> [s EXCEPT !.q = Append(@, Csw(tag, IF s.ready THEN 0 ELSE 1)), !.ready = TRUE]
           [] c = "sense" -> [s EXCEPT !.q = @ \o <<Packet("sense", 0), Csw(tag, 0)>>]
           [] c = "cap10" -> [s EXCEPT !.q = @ \o <<Packet("cap", IF s.last < MaxLba THEN s.last ELSE MaxLba), Csw(tag, 0)>>]
           [] c = "cap16" -> [s EXCEPT !.q = @ \o <<Packet("cap", s.last), Csw(tag, 0)>>]
           [] c = "read"  -> [s EXCEPT !.q = @ \o [i \in 1 .. Count |-> Packet("sector", s.med[First + i - 1])] \o <<Csw(tag, 0)>>]
           [] c = "write" -> [s EXCEPT !.want = [n |-> Count, lba |-> First, tag |-> tag]]

\* Packets to the stick, the first with toggle t.
Accept(s, t, p) ==
    IF s.out # t THEN s
    ELSE LET r == [s EXCEPT !.out = 1 - @]
         IN  IF p.k = "cbw" THEN Execute(r, p.v, p.tag)
             ELSE IF r.want.n = 0 THEN r
             ELSE [r EXCEPT !.med = [@ EXCEPT ![r.want.lba] = p.v],
                            !.want = IF @.n = 1 THEN NoWant ELSE [@ EXCEPT !.n = @ - 1, !.lba = @ + 1],
                            !.q = IF r.want.n = 1 THEN Append(@, Csw(r.want.tag, 0)) ELSE @]

Send(s, t, ps) == FoldLeft(LAMBDA a, p : [s |-> Accept(a.s, a.t, p), t |-> 1 - a.t], [s |-> s, t |-> t], ps).s

\* A transfer of at most n packets from the stick.  It ends with a short packet.
Fetch(s, t, n) ==
    LET Take(a, p) == IF a.end THEN a
                      ELSE LET b == [a EXCEPT !.used = @ + 1]
                           IN  IF (s.in + a.used) % 2 # (t + Len(a.got)) % 2 THEN b
                               ELSE [b EXCEPT !.got = Append(@, p), !.end = p.k # "sector" \/ Len(a.got) + 1 = n]
    IN  FoldLeft(Take, [got |-> <<>>, used |-> 0, end |-> FALSE], s.q)

\* The stick after k of its packets have been taken.
Taken(s, k) == [s EXCEPT !.q = SubSeq(@, k + 1, Len(@)), !.in = (@ + k) % 2]

(***************************************************************************)
(* msc_bot_cmd.  Every transfer and every request can fail, up to a bound, *)
(* whether the stick has seen it or not.                                   *)
(***************************************************************************)
Fault(s) == [s EXCEPT !.faults = @ + 1]
CanFail == stick.faults < lim.faults

msc_bot_cmd(b, c) == [b EXCEPT !.cmd = c, !.pc = "cbw", !.tries = 0, !.ok = FALSE, !.got = <<>>]

HasData(c) == c # "tur"

Cbw ==
    /\ bot.pc = "cbw"
    /\ UNCHANGED <<lim, call>>
    /\ LET p == [k |-> "cbw", v |-> bot.cmd, tag |-> bot.tag + 1]
           s == Send(stick, bot.out, <<p>>)
           b == [bot EXCEPT !.tag = @ + 1]
       IN  \/ /\ stick' = s
              /\ bot' = [b EXCEPT !.out = 1 - @, !.pc = IF HasData(bot.cmd) THEN "data" ELSE "csw"]
           \/ /\ CanFail
              /\ stick' \in {Fault(stick), Fault(s)}
              /\ bot' = [b EXCEPT !.pc = "retry"]

\* The data phase; the length of what comes is not looked at.
DataIn ==
    LET n == IF bot.cmd = "read" THEN Count ELSE 1
        f == Fetch(stick, bot.in, n)
    IN  /\ bot.pc = "data" /\ bot.cmd # "write"
        /\ UNCHANGED <<lim, call>>
        /\ \/ /\ stick' = Taken(stick, f.used)
              /\ bot' = IF f.end THEN [bot EXCEPT !.in = 1 - @, !.got = f.got, !.pc = "csw"] ELSE [bot EXCEPT !.pc = "retry"]
           \/ /\ CanFail
              /\ \E k \in 0 .. f.used : stick' = Fault(Taken(stick, k))
              /\ bot' = [bot EXCEPT !.pc = "retry"]

DataOut ==
    LET ps == [i \in 1 .. Count |-> Packet("sector", call.data[call.done + i])]
    IN  /\ bot.pc = "data" /\ bot.cmd = "write"
        /\ UNCHANGED <<lim, call>>
        /\ \/ /\ stick' = Send(stick, bot.out, ps)
              /\ bot' = [bot EXCEPT !.out = 1 - @, !.pc = "csw"]
           \/ /\ CanFail
              /\ \E k \in 0 .. Count : stick' = Fault(Send(stick, bot.out, SubSeq(ps, 1, k)))
              /\ bot' = [bot EXCEPT !.pc = "retry"]

\* What the status decides: the command ends, or is tried again.
\* (variant) the tag of the status is not compared.
check_csw_untagged(b, p) ==
    IF p.k # "csw" \/ p.v = 2 THEN [b EXCEPT !.pc = "retry"] ELSE [b EXCEPT !.pc = "idle", !.ok = p.v = 0]

check_csw(b, p) ==
    IF p.k # "csw" \/ p.tag # b.tag \/ p.v = 2 THEN [b EXCEPT !.pc = "retry"] ELSE [b EXCEPT !.pc = "idle", !.ok = p.v = 0]

Status ==
    LET f == Fetch(stick, bot.in, 1)
    IN  /\ bot.pc = "csw"
        /\ UNCHANGED <<lim, call>>
        /\ \/ /\ stick' = Taken(stick, f.used)
              /\ bot' = IF f.end THEN check_csw([bot EXCEPT !.in = 1 - @], f.got[1]) ELSE [bot EXCEPT !.pc = "retry"]
           \/ /\ CanFail
              /\ \E k \in 0 .. f.used : stick' = Fault(Taken(stick, k))
              /\ bot' = [bot EXCEPT !.pc = "retry"]

\* The reset and the two clear-halt requests; nobody looks whether they work.
msc_reset_recovery ==
    \E bad \in SUBSET {"reset", "in", "out"} :
        /\ bot.pc = "retry"
        /\ bad # {} => CanFail
        /\ stick' = LET s == IF bad = {} THEN stick ELSE Fault(stick)
                    IN  [s EXCEPT !.q = IF "reset" \in bad THEN @ ELSE <<>>, !.want = IF "reset" \in bad THEN @ ELSE NoWant,
                                  !.in = IF "in" \in bad THEN @ ELSE 0, !.out = IF "out" \in bad THEN @ ELSE 0]
        /\ bot' = [bot EXCEPT !.in = 0, !.out = 0, !.tries = @ + 1, !.pc = IF bot.tries + 1 < BotRetries THEN "cbw" ELSE "idle"]
        /\ UNCHANGED <<lim, call>>

(***************************************************************************)
(* The callers.                                                            *)
(***************************************************************************)
\* usb_storage_read_sectors, usb_storage_write_sectors, and
\* msc_scsi_read_capacity with its msc_wait_ready.
Begin(c, at) == call' = [c EXCEPT !.at = at] /\ bot' = msc_bot_cmd(bot, at)
Ends(c, ok) == call' = [c EXCEPT !.at = "idle", !.ok = ok] /\ UNCHANGED bot

Span(c) == c.lba .. c.lba + c.n - 1

\* A call; torn are the sectors of earlier writes that failed.
Enter ==
    /\ call.at = "idle" /\ stick.calls < lim.calls
    /\ stick' = [stick EXCEPT !.calls = @ + 1]
    /\ UNCHANGED lim
    /\ LET fresh == [NoCall EXCEPT !.was = stick.med,
                                   !.torn = call.torn \cup IF call.op = "write" /\ ~call.ok THEN Span(call) ELSE {}]
       IN  \/ Begin([fresh EXCEPT !.op = "probe"], "tur")
           \/ \E n \in lim.counts, lba \in lim.lbas, op \in {"read", "write"} :
                /\ lba + n <= lim.sectors
                /\ Begin([fresh EXCEPT !.op = op, !.lba = lba, !.n = n,
                                        !.data = IF op = "write" THEN [i \in 1 .. n |-> <<"new", stick.calls, i>>] ELSE <<>>], op)

\* A chunk has ended.
Sectors ==
    LET c == [call EXCEPT !.done = @ + Count, !.buf = @ \o [i \in DOMAIN bot.got |-> bot.got[i].v]]
    IN  /\ call.at \in {"read", "write"} /\ bot.pc = "idle"
        /\ IF ~bot.ok THEN Ends(call, FALSE) ELSE IF c.done < c.n THEN Begin(c, c.at) ELSE Ends(c, TRUE)
        /\ UNCHANGED <<lim, stick>>

\* msc_wait_ready: ready, or asked why not, up to TurRetries times.
msc_wait_ready ==
    /\ call.at \in {"tur", "sense"} /\ call.op = "probe" /\ bot.pc = "idle"
    /\ IF call.at = "tur" /\ ~bot.ok THEN Begin(call, "sense")
       ELSE IF call.at = "sense" /\ call.tries + 1 < TurRetries THEN Begin([call EXCEPT !.tries = @ + 1], "tur")
       ELSE Begin([call EXCEPT !.tries = 0, !.op = "capacity"], "cap10")
    /\ UNCHANGED <<lim, stick>>

\* READ CAPACITY (16) is asked when the answer of (10) says that it is too large.
msc_scsi_read_capacity ==
    LET last == bot.got[1].v
        Blocks(m) == [call EXCEPT !.blocks = IF m >= MaxLba THEN MaxLba ELSE m + 1]
    IN  /\ call.op = "capacity" /\ call.at # "idle" /\ bot.pc = "idle"
        /\ CASE call.at = "cap10" -> IF ~bot.ok THEN Begin(call, "sense")
                                     ELSE IF last = MaxLba THEN Begin(call, "cap16") ELSE Ends(Blocks(last), TRUE)
             [] call.at = "cap16" -> IF bot.ok THEN Ends(Blocks(last), TRUE) ELSE Ends(call, FALSE)
             [] call.at = "sense" -> IF call.tries + 1 < CapRetries THEN Begin([call EXCEPT !.tries = @ + 1], "cap10")
                                     ELSE Ends(call, FALSE)
        /\ UNCHANGED <<lim, stick>>

(***************************************************************************)
(* Properties.                                                             *)
(***************************************************************************)
\* A read or a write that returns true has moved exactly the sectors it was
\* asked for, a capacity that is returned is the stick's, and a call touches
\* no other sectors, except some of an earlier write that failed -- whatever
\* transfers were lost, retried or answered late (msc_bot_cmd,
\* usb_storage_read_sectors, usb_storage_write_sectors, msc_scsi_read_capacity).
BotTrue ==
    call.op # "none" =>
      /\ \A i \in DOMAIN stick.med : \/ stick.med[i] = call.was[i]
                                     \/ i \in call.torn \/ (call.op = "write" /\ i \in Span(call))
      /\ call.at = "idle" /\ call.ok =>
           CASE call.op = "read"     -> call.buf = [i \in 1 .. call.n |-> stick.med[call.lba + i - 1]]
             [] call.op = "write"    -> \A i \in 1 .. call.n : stick.med[call.lba + i - 1] = call.data[i]
             [] call.op = "capacity" -> call.blocks = IF stick.last >= MaxLba THEN MaxLba ELSE stick.last + 1
=============================================================================
