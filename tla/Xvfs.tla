------------------------------- MODULE Xvfs -------------------------------
(***************************************************************************)
(* The XVFS volume of fs/xvfs.c: a bitmap of blocks, directories of one    *)
(* block, and files in consecutive blocks from the one their entry names.  *)
(* Every operation runs to its end before the next one starts.  A block of *)
(* data is a number; names have at most fifteen characters.                *)
(***************************************************************************)
EXTENDS Integers, Sequences, FiniteSets, SequencesExt

CONSTANT
    Volumes         \* the volumes, and the operations tried on each

VARIABLES
    sb,             \* the superblock xvfs_init read, and the operations tried
    vol,            \* the blocks on disk and the superblock's free count
    free_blocks,    \* sb.free_blocks, the count in memory
    cwd,            \* current_dir_block and current_path
    hurt,           \* an operation that damages the volume has run
    done,           \* the last operation: what it did, to which entries
    ops             \* the operations so far

vars == <<sb, vol, free_blocks, cwd, hurt, done, ops>>

total_blocks == sb.total_blocks \* blocks of the volume
Bits == sb.Bits                 \* bits of the bitmap blocks (a multiple of 4096 in the code)
data_start == sb.data_start     \* the first data block, the root directory (10 in the code)
MaxFiles == sb.MaxFiles         \* entries of a directory (XVFS_MAX_FILES, 20 in the code)
FilePaths == sb.FilePaths       \* the paths given to write and rm
DirPaths == sb.DirPaths         \* the paths given to mkdir, rmdir and cd
Copies == sb.Copies             \* the pairs of paths given to cp and mv
Contents == sb.Contents         \* what is written, sequences of blocks
MaxOps == sb.MaxOps             \* operations in a behaviour

Empty == [t |-> "end"]      \* name[0] = 0x00
Deleted == [t |-> "del"]    \* name[0] = 0xE5
Entry(name, isdir, start, size) ==
    [t |-> "ent", name |-> name, isdir |-> isdir, start |-> start, size |-> size]
NoEntries == <<>> \o [i \in 1 .. MaxFiles |-> Empty]
NoEntry == Entry("", FALSE, 0, 0)

Blocks(e) == IF e.isdir \/ e.size = 0 THEN {e.start} ELSE e.start .. e.start + e.size - 1

(***************************************************************************)
(* The bitmap.  m is the volume with the count in memory.                  *)
(***************************************************************************)
\* The count follows the bit, when it changes.
xvfs_mark_block(m, b, used) ==
    [v |-> [m.v EXCEPT !.bits[b] = used],
     free |-> IF m.v.bits[b] = used THEN m.free
              ELSE IF ~used THEN m.free + 1
              ELSE IF m.free > 0 THEN m.free - 1 ELSE 0]

\* (variant) the block is not marked.
xvfs_find_free_block_unmarked(m) ==
    LET free == {b \in 0 .. Bits - 1 : ~m.v.bits[b] /\ b >= data_start}
    IN  IF free = {} THEN [m |-> m, b |-> 0] ELSE [m |-> m, b |-> Min(free)]

\* The first clear bit outside the reserved area, to the end of the bitmap.
xvfs_find_free_block(m) ==
    LET free == {b \in 0 .. Bits - 1 : ~m.v.bits[b] /\ b >= data_start}
    IN  IF free = {} THEN [m |-> m, b |-> 0]
        ELSE [m |-> xvfs_mark_block(m, Min(free), TRUE), b |-> Min(free)]

Clear(v) == Cardinality({b \in 0 .. Bits - 1 : ~v.bits[b]})

xvfs_free_clusters(m) == IF m.free # 0 THEN m.free ELSE Clear(m.v)

(***************************************************************************)
(* Directories and paths.                                                  *)
(***************************************************************************)
slots(v, d, P(_)) == {i \in 1 .. MaxFiles : v.ents[d][i].t = "ent" /\ P(v.ents[d][i])}
first(v, d, P(_)) == IF slots(v, d, P) = {} THEN 0 ELSE Min(slots(v, d, P))
slot_of(v, d, name) == first(v, d, LAMBDA e : e.name = name)
file_slot(v, d, name) == first(v, d, LAMBDA e : e.name = name /\ ~e.isdir)
dir_slot(v, d, name) == first(v, d, LAMBDA e : e.name = name /\ e.isdir)

\* The directory a path names (want_dir), or the one that holds its last
\* name, which need not be there.  Block 0 is none.
xvfs_resolve_path(v, here, path, want_dir) ==
    LET RECURSIVE walk(_, _)
        walk(d, names) ==
            LET i == slot_of(v, d, Head(names))
                last == Tail(names) = <<>>
            IN  IF names = <<>> THEN d
                ELSE IF last /\ ~want_dir THEN d
                ELSE IF i = 0 THEN 0
                ELSE IF ~v.ents[d][i].isdir THEN 0
                ELSE walk(v.ents[d][i].start, Tail(names))
    IN  walk(IF path.abs THEN data_start ELSE here, path.comps)

last_name(path) == IF path.comps = <<>> THEN "" ELSE Last(path.comps)

xvfs_find_entry(v, here, path) ==
    LET d == xvfs_resolve_path(v, here, path, FALSE)
        i == slot_of(v, d, last_name(path))
    IN  IF path.comps = <<>> \/ d = 0 THEN NoEntry
        ELSE IF i = 0 THEN NoEntry ELSE v.ents[d][i]

xvfs_find_file(v, here, path) ==
    LET d == xvfs_resolve_path(v, here, path, FALSE)
        i == file_slot(v, d, last_name(path))
    IN  IF d = 0 THEN NoEntry ELSE IF i = 0 THEN NoEntry ELSE v.ents[d][i]

xvfs_read_dir_entries(v, d) == SelectSeq(v.ents[d], LAMBDA e : e.t = "ent")

(***************************************************************************)
(* Files.                                                                  *)
(***************************************************************************)
\* Blocks are written one after the other from the first.
write_blocks(v, start, data) ==
    [v EXCEPT !.secs = [b \in DOMAIN v.secs |->
        IF b \in start .. start + Len(data) - 1 THEN data[b - start + 1] ELSE v.secs[b]]]

\* A new entry takes a slot that was never used (0x00, or 0xFF, which is
\* never written); a deleted one (0xE5) is not taken.
create_slot(v, d) ==
    LET free == {i \in 1 .. MaxFiles : v.ents[d][i] = Empty}
    IN  IF free = {} THEN 0 ELSE Min(free)

\* One block is allocated whatever the size.
xvfs_create_file(m, here, path, data) ==
    LET d == xvfs_resolve_path(m.v, here, path, FALSE)
        slot == create_slot(m.v, d)
        a == xvfs_find_free_block(m)
        w == write_blocks(a.m.v, a.b, data)
    IN  IF d = 0 THEN [ok |-> FALSE, m |-> m]
        ELSE IF slot = 0 THEN [ok |-> FALSE, m |-> m]
        ELSE IF a.b = 0 THEN [ok |-> FALSE, m |-> m]
        ELSE [ok |-> TRUE, m |-> [a.m EXCEPT !.v =
                 [w EXCEPT !.ents[d] = ReplaceAt(@, slot, Entry(last_name(path), FALSE, a.b, Len(data)))]]]

\* An overwrite goes to the entry's blocks, whatever is behind them.
xvfs_write_file(m, here, path, data) ==
    LET d == xvfs_resolve_path(m.v, here, path, FALSE)
        i == slot_of(m.v, d, last_name(path))
        w == write_blocks(m.v, m.v.ents[d][i].start, data)
    IN  IF d = 0 THEN [ok |-> FALSE, m |-> m]
        ELSE IF i = 0 THEN xvfs_create_file(m, here, path, data)
        ELSE [ok |-> TRUE, m |-> [m EXCEPT !.v = [w EXCEPT !.ents[d][i].size = Len(data)]]]


\* The blocks of the size are cleared and freed: none of an empty file.
xvfs_rm(m, here, path) ==
    LET d == xvfs_resolve_path(m.v, here, path, FALSE)
        i == file_slot(m.v, d, last_name(path))
        e == m.v.ents[d][i]
        zeroed == write_blocks(m.v, e.start, [n \in 1 .. e.size |-> 0])
        freed == FoldLeft(LAMBDA x, n : xvfs_mark_block(x, e.start + n - 1, FALSE),
                          [m EXCEPT !.v = zeroed], [n \in 1 .. e.size |-> n])
    IN  IF d = 0 THEN [ok |-> FALSE, m |-> m]
        ELSE IF i = 0 THEN [ok |-> FALSE, m |-> m]
        ELSE [ok |-> TRUE, m |-> [freed EXCEPT !.v.ents[d] = ReplaceAt(@, i, Deleted)]]

xvfs_read_file_by_name(v, e) == [i \in 1 .. e.size |-> v.secs[e.start + i - 1]]

\* The part of a file from offset, as far as the file goes.
xvfs_read_file_range(v, e, offset, size) ==
    LET want == IF offset + size > e.size THEN e.size - offset ELSE size
    IN  IF offset >= e.size THEN [ok |-> FALSE, data |-> <<>>]
        ELSE [ok |-> TRUE, data |-> [i \in 1 .. want |-> v.secs[e.start + offset + i - 1]]]


\* The same for system calls: the count of what was read, 0 past the end.
xvfs_read_file(v, e, offset, size) ==
    LET want == IF offset + size > e.size THEN e.size - offset ELSE size
    IN  IF offset >= e.size THEN <<>>
        ELSE [i \in 1 .. want |-> v.secs[e.start + offset + i - 1]]

xvfs_cat(v, e) ==
    LET RECURSIVE show(_, _)
        show(b, n) == IF n = 0 THEN <<>> ELSE <<v.secs[b]>> \o show(b + 1, n - 1)
    IN  show(e.start, e.size)

\* The source is read before the destination is removed.  A destination
\* that is a directory is looked at for an entry of its own name, and then
\* written to like a file.
xvfs_cp(m, here, src, dst) ==
    LET d == xvfs_resolve_path(m.v, here, src, FALSE)
        e == xvfs_find_file(m.v, here, src)
        into == xvfs_resolve_path(m.v, here, dst, TRUE)
        target == IF into # 0 THEN into ELSE xvfs_resolve_path(m.v, here, dst, FALSE)
        old == slot_of(m.v, target, last_name(dst))
        w == IF old # 0 THEN xvfs_rm(m, here, dst).m ELSE m
    IN  IF d = 0 THEN [ok |-> FALSE, m |-> m]
        ELSE IF e = NoEntry THEN [ok |-> FALSE, m |-> m]
        ELSE IF target = 0 THEN [ok |-> FALSE, m |-> m]
        ELSE xvfs_write_file(w, here, dst, xvfs_read_file_by_name(m.v, e))

xvfs_mv(m, here, src, dst) ==
    LET c == xvfs_cp(m, here, src, dst)
    IN  IF xvfs_resolve_path(m.v, here, dst, FALSE) = 0 THEN [ok |-> FALSE, m |-> m]
        ELSE IF ~c.ok THEN c
        ELSE xvfs_rm(c.m, here, src)

(***************************************************************************)
(* Directories.                                                            *)
(***************************************************************************)
xvfs_create_dir_at(m, d, name) ==
    LET free == {i \in 1 .. MaxFiles : m.v.ents[d][i].t # "ent"}
        a == xvfs_find_free_block(m)
        newdir == [i \in 1 .. MaxFiles |-> IF i = 1 THEN Entry(".", TRUE, a.b, 0)
                                           ELSE IF i = 2 THEN Entry("..", TRUE, d, 0) ELSE Empty]
    IN  IF slot_of(m.v, d, name) # 0 \/ free = {} THEN [ok |-> FALSE, m |-> m]
        ELSE IF a.b = 0 THEN [ok |-> FALSE, m |-> m]
        ELSE [ok |-> TRUE, m |-> [a.m EXCEPT !.v.ents[a.b] = newdir,
                                             !.v.ents[d][Min(free)] = Entry(name, TRUE, a.b, 0)]]

xvfs_mkdir_path(m, here, path) ==
    LET d == xvfs_resolve_path(m.v, here, path, FALSE)
    IN  IF path.comps = <<>> \/ d = 0 THEN [ok |-> FALSE, m |-> m]
        ELSE xvfs_create_dir_at(m, d, last_name(path))

Inside(v, d) == {i \in 1 .. MaxFiles : v.ents[d][i].t = "ent" /\ v.ents[d][i].name \notin {".", ".."}}

xvfs_rmdir(m, here, path) ==
    LET d == xvfs_resolve_path(m.v, here, path, FALSE)
        i == dir_slot(m.v, d, last_name(path))
        b == m.v.ents[d][i].start
        freed == xvfs_mark_block(m, b, FALSE)
    IN  IF d = 0 THEN [ok |-> FALSE, m |-> m]
        ELSE IF i = 0 THEN [ok |-> FALSE, m |-> m]
        ELSE IF Inside(m.v, b) # {} THEN [ok |-> FALSE, m |-> m]
        ELSE [ok |-> TRUE, m |-> [freed EXCEPT !.v.ents[d] = ReplaceAt(@, i, Deleted)]]

(***************************************************************************)
(* What the volume holds, for the properties.                              *)
(***************************************************************************)
Items(v, d) == {v.ents[d][i] : i \in Inside(v, d)}

Dirs(v) ==
    LET RECURSIVE reach(_)
        reach(S) == LET T == S \cup {e.start : e \in {x \in UNION {Items(v, d) : d \in S} : x.isdir}}
                    IN  IF T = S THEN S ELSE reach(T)
    IN  reach({data_start})

Live(v) == UNION {{[d |-> d, e |-> e] : e \in Items(v, d)} : d \in Dirs(v)}

\* Every file with the entries that lead to it and its content.
Files(v) == {[d |-> x.d, name |-> x.e.name, data |-> xvfs_read_file_by_name(v, x.e)]
                : x \in {y \in Live(v) : ~y.e.isdir}}

Mem == [v |-> vol, free |-> free_blocks]

(***************************************************************************)
(* The operations.  A volume is hurt by a write to a directory's entry, by *)
(* removing the current directory, by removing a "." entry, and by a file  *)
(* of several blocks, of which only the first is marked.                   *)
(***************************************************************************)
NoOp == [op |-> "none", path |-> [abs |-> TRUE, comps |-> <<>>], data |-> <<>>,
         ok |-> FALSE, touched |-> {}]

Finish(op, path, data, r, damage, touched) ==
    /\ ops < MaxOps
    /\ ops' = ops + 1
    /\ UNCHANGED sb
    /\ vol' = r.m.v
    /\ free_blocks' = r.m.free
    /\ hurt' = (hurt \/ damage \/ Len(data) > 1 \/ cwd.b \notin Dirs(r.m.v))
    /\ done' = [op |-> op, path |-> path, data |-> data, ok |-> r.ok, touched |-> touched]

Touch(path) == {<<xvfs_resolve_path(vol, cwd.b, path, FALSE), last_name(path)>>}

Write == \E p \in FilePaths, data \in Contents :
    /\ UNCHANGED cwd
    /\ Finish("write", p, data, xvfs_write_file(Mem, cwd.b, p, data),
              xvfs_find_entry(vol, cwd.b, p).isdir, Touch(p))

Rm == \E p \in FilePaths :
    /\ UNCHANGED cwd
    /\ Finish("rm", p, <<>>, xvfs_rm(Mem, cwd.b, p), FALSE, Touch(p))

Cp == \E pp \in Copies :
    /\ UNCHANGED cwd
    /\ Finish("cp", pp[2], xvfs_read_file_by_name(vol, xvfs_find_file(vol, cwd.b, pp[1])),
              xvfs_cp(Mem, cwd.b, pp[1], pp[2]),
              xvfs_find_entry(vol, cwd.b, pp[2]).isdir, Touch(pp[2]))

Mv == \E pp \in Copies :
    /\ UNCHANGED cwd
    /\ Finish("mv", pp[2], xvfs_read_file_by_name(vol, xvfs_find_file(vol, cwd.b, pp[1])),
              xvfs_mv(Mem, cwd.b, pp[1], pp[2]),
              xvfs_find_entry(vol, cwd.b, pp[2]).isdir, Touch(pp[1]) \cup Touch(pp[2]))

Mkdir == \E p \in DirPaths :
    /\ UNCHANGED cwd
    /\ Finish("mkdir", p, <<>>, xvfs_mkdir_path(Mem, cwd.b, p), FALSE, Touch(p))

Rmdir == \E p \in DirPaths :
    LET r == xvfs_rmdir(Mem, cwd.b, p)
    IN  /\ UNCHANGED cwd
        /\ Finish("rmdir", p, <<>>, r, r.ok /\ last_name(p) = ".", Touch(p))

\* The path is made plain first, then followed from the root.
xvfs_cd(p) ==
    LET plain == FoldLeft(LAMBDA q, n : IF n = "." THEN q
                                        ELSE IF n = ".." THEN (IF q = <<>> THEN q ELSE Front(q))
                                        ELSE Append(q, n),
                          IF p.abs THEN <<>> ELSE cwd.path, p.comps)
    IN  [b |-> xvfs_resolve_path(vol, data_start, [abs |-> TRUE, comps |-> plain], TRUE),
         path |-> plain]

Cd == \E p \in DirPaths :
    /\ xvfs_cd(p).b # 0
    /\ cwd' = xvfs_cd(p)
    /\ done' = NoOp
    /\ UNCHANGED <<sb, vol, free_blocks, hurt, ops>>

\* xvfs_init: the superblock is read again, with the count it was written
\* with when the volume was formatted.
Mount ==
    /\ free_blocks' = vol.free
    /\ cwd' = [b |-> data_start, path |-> <<>>]
    /\ done' = [NoOp EXCEPT !.op = "mount"]
    /\ UNCHANGED <<sb, vol, hurt, ops>>

\* A volume as xvfs_format_at leaves it, mounted.
Init ==
    /\ sb \in Volumes
    /\ vol = [bits |-> [b \in 0 .. Bits - 1 |-> b <= data_start],
              ents |-> [b \in 0 .. Bits - 1 |-> NoEntries],
              secs |-> [b \in 0 .. Bits + 2 |-> 0],
              free |-> total_blocks - data_start - 1]
    /\ free_blocks = vol.free
    /\ cwd = [b |-> data_start, path |-> <<>>]
    /\ hurt = FALSE
    /\ ops = 0
    /\ done = NoOp

Next == Write \/ Rm \/ Cp \/ Mv \/ Mkdir \/ Rmdir \/ Cd \/ Mount

Spec == Init /\ [][Next]_vars

(***************************************************************************)
(* Properties.                                                             *)
(***************************************************************************)
\* A clear bit is a block nobody uses (xvfs_find_free_block: "all in use,
\* pass" of a byte of ones): the blocks of every live entry are marked, and
\* no two entries share one.
BlocksOwned ==
    ~hurt =>
    /\ \A x \in Live(vol) : \A b \in Blocks(x.e) : b < Bits /\ vol.bits[b]
    /\ \A x, y \in Live(vol) : x # y => Blocks(x.e) \cap Blocks(y.e) = {}

\* The free count in memory changes as the number of clear bits does.
CountFollows ==
    done'.op # "mount" /\ free_blocks > 0 =>
        free_blocks' - free_blocks = Clear(vol') - Clear(vol)

\* An operation leaves the content of every file it is not about alone.
OthersKept ==
    ~hurt' => \A f \in Files(vol) :
        f \in Files(vol') \/ <<f.d, f.name>> \in done'.touched

\* A write, copy or move that reports success is read back whole; a copy
\* onto itself too, since the source is read before it is removed.
ReadBack ==
    done'.ok /\ ~hurt' /\ done'.op \in {"write", "cp"} =>
        LET e == xvfs_find_file(vol', cwd.b, done'.path)
        IN  e # NoEntry /\ xvfs_read_file_by_name(vol', e) = done'.data


\* The four readers return the same blocks of every file, wherever a range
\* starts and ends.
ReadersAgree ==
    \A x \in {y \in Live(vol) : ~y.e.isdir} :
        LET whole == xvfs_read_file_by_name(vol, x.e)
        IN  /\ xvfs_cat(vol, x.e) = whole
            /\ \A o \in 0 .. x.e.size - 1, n \in 1 .. x.e.size :
                  LET part == SubSeq(whole, o + 1, IF o + n < x.e.size THEN o + n ELSE x.e.size)
                  IN  /\ xvfs_read_file(vol, x.e, o, n) = part
                      /\ xvfs_read_file_range(vol, x.e, o, n) = [ok |-> TRUE, data |-> part]
=============================================================================
