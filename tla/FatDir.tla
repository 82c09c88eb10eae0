------------------------------- MODULE FatDir -------------------------------
(***************************************************************************)
(* Directories of a FAT volume, as fs/fat16.c and fs/fat32.c both read and *)
(* write them (each file has its own copy of this code).  A directory is   *)
(* the sequence of its slots.  A short name is a pair <<b, k>>, the 8.3    *)
(* name of base b with the alias number k.  A name as it is typed is a     *)
(* record: its key, the name folded to upper case (a pair with a negative  *)
(* number is a name no 8.3 name can spell), and the number of long-name    *)
(* slots it takes (0 for an upper-case 8.3 name).                          *)
(***************************************************************************)
EXTENDS Integers, Sequences, FiniteSets, SequencesExt

Dot == [key |-> <<".", 0>>, parts |-> 0]
DotDot == [key |-> <<"..", 0>>, parts |-> 0]

End == [t |-> "end"]        \* Name[0] = 0x00
Deleted == [t |-> "del"]    \* Name[0] = 0xE5
Lfn(seq, last, chk, key) ==
    [t |-> "lfn", seq |-> seq, last |-> last, chk |-> chk, key |-> key]
Entry(sn, isdir, first, size) ==
    [t |-> "ent", sn |-> sn, isdir |-> isdir, first |-> first, size |-> size]
Free(slot) == slot.t \in {"end", "del"}
IsDot(e) == e.sn \in {Dot.key, DotDot.key}

\* The slots in front of the first end slot.
BeforeEnd(s) ==
    LET ends == {i \in DOMAIN s : s[i].t = "end"}
    IN  IF ends = {} THEN s ELSE SubSeq(s, 1, Min(ends) - 1)

(***************************************************************************)
(* Long names.                                                             *)
(***************************************************************************)
\* The eleven bytes summed to one: different names may have the same sum.
lfn_checksum(sn) == sn[2]

NoKey == <<"", 0>>
NoLfn == [active |-> FALSE, chk |-> 0, expected |-> 0, keys |-> <<>>, slots |-> <<>>]

\* The last part comes first and starts a run; any gap ends it.
lfn_push(st, e, pos) ==
    LET s == IF e.last
             THEN [NoLfn EXCEPT !.active = TRUE, !.chk = e.chk, !.expected = e.seq]
             ELSE st
    IN  IF ~s.active \/ e.seq # s.expected THEN NoLfn
        ELSE [s EXCEPT !.slots = Append(@, pos), !.keys = Append(@, e.key),
                       !.expected = @ - 1]

\* An entry with the long name in front of it, if that is whole and its own.
dir_item(e, pos, lfn) ==
    LET whole == lfn.active /\ lfn.expected = 0 /\ lfn_checksum(e.sn) = lfn.chk
    IN  [e |-> e, pos |-> pos,
         long |-> IF whole /\ Cardinality(ToSet(lfn.keys)) = 1 THEN lfn.keys[1] ELSE NoKey,
         lfns |-> IF whole THEN lfn.slots ELSE <<>>]

\* The items of a directory.
iterate_dir(s) ==
    LET step(acc, i) ==
            CASE s[i].t = "del" -> [acc EXCEPT !.lfn = NoLfn]
              [] s[i].t = "lfn" -> [acc EXCEPT !.lfn = lfn_push(acc.lfn, s[i], i)]
              [] OTHER -> [lfn |-> NoLfn,
                           items |-> Append(acc.items, dir_item(s[i], i, acc.lfn))]
    IN  FoldLeft(step, [lfn |-> NoLfn, items |-> <<>>],
                 [i \in 1 .. Len(BeforeEnd(s)) |-> i]).items

dir_item_matches(item, name) == item.long = name.key \/ item.e.sn = name.key

NoItem == [e |-> Entry(NoKey, FALSE, 0, 0), pos |-> 0, long |-> NoKey, lfns |-> <<>>]

first_match(items, name) ==
    LET hit == {i \in DOMAIN items : dir_item_matches(items[i], name)}
    IN  IF hit = {} THEN NoItem ELSE items[Min(hit)]

find_entry(s, name) == first_match(iterate_dir(s), name)

(***************************************************************************)
(* Names of new entries.                                                   *)
(***************************************************************************)
short_name_exists(s, sn) ==
    \E i \in DOMAIN BeforeEnd(s) : s[i].t = "ent" /\ s[i].sn = sn

\* Upper-case 8.3 names have no long-name slots.
name_needs_lfn(name) == name.parts > 0

\* The 8.3 name that is left of a name when it is cut and folded.
extract_base_ext(name) ==
    IF name.key[2] < 0 THEN <<name.key[1], 0>> ELSE name.key


\* The short name of a new entry: an alias when a long name's is taken, and
\* NoKey when there is none left.
generate_short_name(s, name, max) ==
    LET cand == extract_base_ext(name)
        free == {k \in 1 .. max : ~short_name_exists(s, <<cand[1], k>>)}
    IN  IF ~short_name_exists(s, cand) THEN cand
        ELSE IF ~name_needs_lfn(name) \/ free = {} THEN NoKey
        ELSE <<cand[1], Min(free)>>

\* The first run of n free slots, 0 when there is none.
free_run(s, n) ==
    LET runs == {i \in 1 .. Len(s) - n + 1 : \A j \in i .. i + n - 1 : Free(s[j])}
    IN  IF runs = {} THEN 0 ELSE Min(runs)

\* The slots written for a new entry: its long name, last part first.
write_lfn_entries(name, e) ==
    [i \in 1 .. name.parts |->
        Lfn(name.parts - i + 1, i = 1, lfn_checksum(e.sn), name.key)] \o <<e>>

(***************************************************************************)
(* Listings.                                                               *)
(***************************************************************************)
upto(s, max) == SubSeq(s, 1, IF Len(s) < max THEN Len(s) ELSE max)

\* The entries without looking at long names.
read_dir(s, max) == upto(SelectSeq(BeforeEnd(s), LAMBDA x : x.t = "ent"), max)

\* The names as they are shown, without the dots.
list_dir_lfn(s, max) ==
    LET items == SelectSeq(iterate_dir(s), LAMBDA x : ~IsDot(x.e))
    IN  upto([i \in DOMAIN items |->
                [name |-> IF items[i].long # NoKey THEN items[i].long ELSE items[i].e.sn,
                 isdir |-> items[i].e.isdir]], max)

(***************************************************************************)
(* Paths: absolute or not, and the names on them.                          *)
(***************************************************************************)
dirname(path) == [path EXCEPT !.comps = Front(path.comps)]
basename(path) == Last(path.comps)

\* "." is dropped and ".." takes the last name off.
normalize_path(base, path) ==
    FoldLeft(LAMBDA p, n : IF n = Dot THEN p
                           ELSE IF n = DotDot THEN (IF p = <<>> THEN p ELSE Front(p))
                           ELSE Append(p, n),
             IF path.abs THEN <<>> ELSE base, path.comps)
=============================================================================
