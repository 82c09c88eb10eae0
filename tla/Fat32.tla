------------------------------- MODULE Fat32 -------------------------------
(***************************************************************************)
(* The FAT32 volume of fs/fat32.c: the allocation table with its mirrors,  *)
(* the directory and data clusters, and the file operations of the console *)
(* and of the system calls.  The root is cluster 2, like any directory it  *)
(* never grows.  Every operation runs to its end before the next starts.   *)
(***************************************************************************)
EXTENDS FatDir

CONSTANT
    Volumes         \* the volumes, and the operations tried on each

VARIABLES
    bpb,            \* the parameters fat32_init read, and the operations tried
    vol,            \* the volume on disk, with fat32_alloc_hint
    cwd,            \* current_dir_cluster32 and current_path
    hurt,           \* an operation that damages the volume has run
    done,           \* the last operation: what it did, to which entries
    ops             \* the operations so far

vars == <<bpb, vol, cwd, hurt, done, ops>>

FATSz == bpb.FATSz              \* sectors of an allocation table
EntsPerFatSec == bpb.EntsPerFatSec\* its entries in a sector
NumFATs == bpb.NumFATs          \* the table and its mirrors
RootEntry == bpb.RootEntry      \* the root's table entry: 0 after fat32_format_at, else EOC
SecPerClus == bpb.SecPerClus    \* sectors in a cluster
EntsPerSec == bpb.EntsPerSec    \* directory entries in a sector
MaxAlias == bpb.MaxAlias        \* aliases tried for a short name (10000 in the code)
FilePaths == bpb.FilePaths      \* the paths given to file operations
RmPaths == bpb.RmPaths          \* the paths given to rm
DirPaths == bpb.DirPaths        \* the paths given to mkdir and rmdir
CdPaths == bpb.CdPaths          \* the paths given to cd
Copies == bpb.Copies            \* the pairs of paths given to cp and mv
Contents == bpb.Contents        \* what is written, sequences of sectors
MaxOps == bpb.MaxOps            \* operations in a behaviour

Total == FATSz * EntsPerFatSec
Root == 2
Cl == Root .. (Total - 1)
EOC == 268435455            \* 0x0FFFFFFF

ZeroSecs == <<>> \o [i \in 1 .. SecPerClus |-> 0]
ZeroEnts == <<>> \o [i \in 1 .. SecPerClus * EntsPerSec |-> End]
Unknown == [i \in 1 .. SecPerClus |-> -1]   \* sectors outside the data area

(***************************************************************************)
(* The allocation table.  v.fat[1] is the table, the others its mirrors.   *)
(***************************************************************************)
\* Entries 0 and 1 are set, so a walk that reaches one of them stops.
fat32_get_fat_entry(v, c) == IF c < 2 THEN EOC ELSE v.fat[1][c]

\* Links and frees are written to the first table only.
fat_write(v, c, x) == [v EXCEPT !.fat = ReplaceAt(@, 1, [@[1] EXCEPT ![c] = x])]

\* An allocation writes its whole sector to every mirror.
sync_mirrors(v, s) ==
    [v EXCEPT !.fat = [f \in 1 .. NumFATs |->
        [c \in 0 .. Total - 1 |-> IF c \div EntsPerFatSec = s THEN v.fat[1][c] ELSE v.fat[f][c]]]]

\* The first pass goes from the hint to the end of the table; the second
\* over the sectors before the hint's, so not over the hint's own.
alloc_order(hint) ==
    LET start == IF hint < 3 \/ hint >= Total THEN 3 ELSE hint
        second == (start \div EntsPerFatSec) * EntsPerFatSec
        table == [i \in 1 .. Total |-> i - 1]
    IN  SelectSeq(table, LAMBDA c : c >= start) \o SelectSeq(table, LAMBDA c : c >= 3 /\ c < second)

\* (variant) the cluster at the hint is taken without a look at its entry.
fat32_alloc_cluster_taken(v) ==
    LET order == alloc_order(v.hint)
        c == order[1]
    IN  [v |-> [sync_mirrors(fat_write(v, c, EOC), c \div EntsPerFatSec) EXCEPT !.hint = c + 1], cl |-> c]

fat32_alloc_cluster(v) ==
    LET marked(c) == sync_mirrors(fat_write(v, c, EOC), c \div EntsPerFatSec)
        take(c) == [v |-> [marked(c) EXCEPT !.secs[c] = ZeroSecs, !.ents[c] = ZeroEnts, !.hint = c + 1],
                    cl |-> c]
        first(free) == IF free = <<>> THEN [v |-> v, cl |-> 0] ELSE take(free[1])
    IN  first(SelectSeq(alloc_order(v.hint), LAMBDA c : v.fat[1][c] = 0))

\* The clusters from c on, as fat32_next_cluster visits them.
chain(v, c) ==
    LET RECURSIVE walk(_, _)
        walk(x, n) == IF x \notin Cl \/ n = 0 THEN <<>>
                      ELSE <<x>> \o walk(v.fat[1][x], n - 1)
    IN  walk(c, Total)

free_chain(v, c) == FoldLeft(LAMBDA w, x : fat_write(w, x, 0), v, chain(v, c))


\* rm also clears the clusters.
wipe_chain(v, c) ==
    FoldLeft(LAMBDA w, x : [w EXCEPT !.secs[x] = ZeroSecs, !.ents[x] = ZeroEnts],
             free_chain(v, c), chain(v, c))

(***************************************************************************)
(* Directories and paths.                                                  *)
(***************************************************************************)
dir_slots(v, d) == FlattenSeq([i \in 1 .. Len(chain(v, d)) |-> v.ents[chain(v, d)[i]]])

fat32_dir_write_raw(v, d, pos, slot) ==
    LET n == SecPerClus * EntsPerSec
        c == chain(v, d)[((pos - 1) \div n) + 1]
    IN  [v EXCEPT !.ents[c] = ReplaceAt(@, ((pos - 1) % n) + 1, slot)]

fat32_iterate_dir(v, d) == iterate_dir(dir_slots(v, d))

fat32_find_entry_slot(v, d, name) == find_entry(dir_slots(v, d), name)

fat32_find_free_slots(v, d, needed) == free_run(dir_slots(v, d), needed)

\* The parent named by the second slot of a directory.
parent_slot(v, d) ==
    LET e == v.ents[d][2] IN IF e.t = "ent" THEN e.first ELSE 0

\* ".." is the second slot of the directory, whatever it holds; a name is
\* the first directory it matches.  0 is none.
fat32_find_dir_cluster(v, d, name) ==
    LET matches(i) == i.e.isdir /\ dir_item_matches(i, name) /\ i.e.first \in Cl
        first(hits) == IF hits = <<>> THEN 0 ELSE hits[1].e.first
        parent == parent_slot(v, d)
    IN  IF name = Dot THEN d
        ELSE IF name = DotDot THEN (IF parent < 2 THEN Root ELSE parent)
        ELSE first(SelectSeq(fat32_iterate_dir(v, d), matches))

fat32_resolve_dir(v, here, path) ==
    LET RECURSIVE walk(_, _)
        walk(c, names) ==
            IF names = <<>> \/ c = 0 THEN c
            ELSE walk(fat32_find_dir_cluster(v, c, Head(names)), Tail(names))
    IN  walk(IF path.abs THEN Root ELSE here, path.comps)

fat32_find_file(v, here, path) ==
    LET d == fat32_resolve_dir(v, here, dirname(path))
    IN  IF path.comps = <<>> \/ d = 0 THEN NoItem
        ELSE fat32_find_entry_slot(v, d, basename(path))

\* ".." from the root stays there, and drops the last name of the path.
fat32_cd(v, here, path) ==
    LET up(acc, parent) ==
            IF acc.cl = Root THEN [acc EXCEPT !.path = <<>>]
            ELSE [acc EXCEPT !.cl = IF parent < 2 \/ parent = acc.cl THEN Root ELSE parent,
                             !.path = IF @ = <<>> THEN @ ELSE Front(@)]
        down(acc, name, next) ==
            IF next = 0 THEN [acc EXCEPT !.ok = FALSE]
            ELSE [acc EXCEPT !.cl = next, !.path = Append(@, name)]
        step(acc, name) ==
            IF ~acc.ok \/ name = Dot THEN acc
            ELSE IF name = DotDot THEN up(acc, parent_slot(v, acc.cl))
            ELSE down(acc, name, fat32_find_dir_cluster(v, acc.cl, name))
    IN  FoldLeft(step, [ok |-> TRUE, cl |-> IF path.abs THEN Root ELSE here.cl,
                        path |-> IF path.abs THEN <<>> ELSE here.path], path.comps)

(***************************************************************************)
(* Making entries.                                                         *)
(***************************************************************************)
\* The checks and steps create_file and mkdir share.
new_entry_in(v, d, name, sn, pos, a) ==
    LET refused == \/ name \in {Dot, DotDot}
                   \/ d = 0
                   \/ fat32_find_entry_slot(v, d, name).pos # 0
                   \/ sn = NoKey
                   \/ pos = 0
                   \/ a.cl = 0
    IN  IF refused THEN [ok |-> FALSE, v |-> v]
        ELSE [ok |-> TRUE, v |-> a.v, d |-> d, sn |-> sn, pos |-> pos, cl |-> a.cl]

new_entry(v, here, path) ==
    LET in(d, name) == new_entry_in(v, d, name, generate_short_name(dir_slots(v, d), name, MaxAlias),
                                    fat32_find_free_slots(v, d, name.parts + 1), fat32_alloc_cluster(v))
    IN  IF path.comps = <<>> THEN [ok |-> FALSE, v |-> v]
        ELSE in(fat32_resolve_dir(v, here, dirname(path)), basename(path))

put_entry(n, name, entry) ==
    LET slots == write_lfn_entries(name, entry)
    IN  FoldLeft(LAMBDA w, i : fat32_dir_write_raw(w, n.d, n.pos + i - 1, slots[i]),
                 n.v, [i \in DOMAIN slots |-> i])

\* A new file has one cluster and no bytes.
fat32_create_file(v, here, path) ==
    LET put(n) == IF ~n.ok THEN n
                  ELSE [ok |-> TRUE, v |-> put_entry(n, basename(path), Entry(n.sn, FALSE, n.cl, 0))]
    IN  put(new_entry(v, here, path))

\* Every sector of the new cluster starts with the two dot entries.
dots(self, parent) ==
    [i \in 1 .. SecPerClus * EntsPerSec |->
        CASE i % EntsPerSec = 1 -> Entry(Dot.key, TRUE, self, 0)
          [] i % EntsPerSec = 2 -> Entry(DotDot.key, TRUE, parent, 0)
          [] OTHER -> End]

\* (variant) ".." names the current directory.
fat32_mkdir_here(v, here, path) ==
    LET put(n) == put_entry(n, basename(path), Entry(n.sn, TRUE, n.cl, 0))
        made(n) == IF ~n.ok THEN n
                   ELSE [ok |-> TRUE, v |-> [put(n) EXCEPT !.ents[n.cl] = dots(n.cl, here)]]
    IN  made(new_entry(v, here, path))

fat32_mkdir(v, here, path) ==
    LET put(n) == put_entry(n, basename(path), Entry(n.sn, TRUE, n.cl, 0))
        made(n) == IF ~n.ok THEN n
                   ELSE [ok |-> TRUE, v |-> [put(n) EXCEPT !.ents[n.cl] = dots(n.cl, n.d)]]
    IN  made(new_entry(v, here, path))

(***************************************************************************)
(* File contents.                                                          *)
(***************************************************************************)
write_secs(v, c, data) ==
    [v EXCEPT !.secs[c] = [i \in 1 .. SecPerClus |->
                              IF i <= Len(data) THEN data[i] ELSE v.secs[c][i]]]

\* The first cluster is kept and every further one is new.
write_chain(v, first, data) ==
    LET part(i) == SubSeq(data, (i - 1) * SecPerClus + 1,
                          IF i * SecPerClus < Len(data) THEN i * SecPerClus ELSE Len(data))
        more(acc, i, a) ==
            IF ~acc.ok \/ a.cl = 0 THEN [acc EXCEPT !.ok = FALSE]
            ELSE [ok |-> TRUE, cl |-> a.cl,
                  v |-> write_secs(fat_write(a.v, acc.cl, a.cl), a.cl, part(i))]
    IN  FoldLeft(LAMBDA acc, i : more(acc, i, fat32_alloc_cluster(acc.v)),
                 [ok |-> TRUE, cl |-> first, v |-> write_secs(v, first, part(1))],
                 [i \in 1 .. ((Len(data) + SecPerClus - 1) \div SecPerClus) - 1 |-> i + 1])

\* The entry gets the size when all of the data is written.  A missing file
\* is created.
RECURSIVE fat32_write_file(_, _, _, _)
fat32_write_file(v, here, path, data) ==
    LET again(made) == IF made.ok THEN fat32_write_file(made.v, here, path, data) ELSE made
        sized(d, item, w) ==
            IF ~w.ok THEN [ok |-> FALSE, v |-> w.v]
            ELSE [ok |-> TRUE, v |-> fat32_dir_write_raw(w.v, d, item.pos, [item.e EXCEPT !.size = Len(data)])]
        into(d, item) ==
            IF item.pos = 0 THEN again(fat32_create_file(v, here, path))
            ELSE sized(d, item, write_chain(v, item.e.first, data))
        in(d) == IF d = 0 THEN [ok |-> FALSE, v |-> v]
                 ELSE into(d, fat32_find_entry_slot(v, d, basename(path)))
    IN  IF path.comps = <<>> THEN [ok |-> FALSE, v |-> v]
        ELSE in(fat32_resolve_dir(v, here, dirname(path)))

\* (variant) every cluster is copied from the offset in the first.
fat32_read_file_range_skip(v, e, offset, size) ==
    LET want == IF offset + size > e.size THEN e.size - offset ELSE size
        from == offset % SecPerClus
        cs == chain(v, e.first)
        first == (offset \div SecPerClus) + 1
        bytes == FlattenSeq([i \in 1 .. Len(cs) - first + 1 |->
                                SubSeq(v.secs[cs[first + i - 1]], from + 1, SecPerClus)])
    IN  IF offset >= e.size THEN [ok |-> FALSE, data |-> <<>>]
        ELSE [ok |-> TRUE, data |-> SubSeq(bytes, 1, want)]

\* Whole clusters are skipped, then clusters are copied until the size is
\* reached or the chain ends; the walk only stops at an end mark.
fat32_read_file_range(v, e, offset, size) ==
    LET want == IF offset + size > e.size THEN e.size - offset ELSE size
        RECURSIVE hop(_, _)
        hop(c, n) == IF n = 0 \/ c = EOC THEN c ELSE hop(fat32_get_fat_entry(v, c), n - 1)
        RECURSIVE copy(_, _, _)
        copy(c, from, n) ==
            LET secs == IF c \in Cl THEN v.secs[c] ELSE Unknown
                part == SubSeq(secs, from + 1, IF from + n < SecPerClus THEN from + n ELSE SecPerClus)
            IN  IF n = 0 \/ c = EOC THEN <<>>
                ELSE part \o copy(fat32_get_fat_entry(v, c), 0, n - Len(part))
        start == hop(e.first, offset \div SecPerClus)
    IN  IF offset >= e.size \/ start = EOC THEN [ok |-> FALSE, data |-> <<>>]
        ELSE [ok |-> TRUE, data |-> copy(start, offset % SecPerClus, want)]

\* The whole file: nothing is read of an empty one.
fat32_read_file_by_name(v, e) ==
    IF e.size = 0 THEN <<>> ELSE fat32_read_file_range(v, e, 0, e.size).data

\* What is shown of a file: cluster by cluster until its size is used up.
fat32_cat(v, e) ==
    LET step(acc, c) == LET n == IF acc.left > SecPerClus THEN SecPerClus ELSE acc.left
                        IN  [out |-> acc.out \o SubSeq(v.secs[c], 1, n), left |-> acc.left - n]
    IN  FoldLeft(step, [out |-> <<>>, left |-> e.size], chain(v, e.first)).out

fat32_read_dir(v, d, max) == read_dir(dir_slots(v, d), max)

fat32_list_dir_lfn(v, d, max) == list_dir_lfn(dir_slots(v, d), max)

(***************************************************************************)
(* Removing, copying and moving.                                           *)
(***************************************************************************)
mark_deleted(v, d, item) ==
    FoldLeft(LAMBDA w, pos : fat32_dir_write_raw(w, d, pos, Deleted),
             v, Append(item.lfns, item.pos))

\* Any entry, a directory too.
fat32_rm(v, here, path) ==
    LET remove(d, item) ==
            IF item.pos = 0 THEN [ok |-> FALSE, v |-> v]
            ELSE [ok |-> TRUE, v |-> mark_deleted(wipe_chain(v, item.e.first), d, item)]
    IN  remove(fat32_resolve_dir(v, here, dirname(path)), fat32_find_file(v, here, path))

\* Only the first sector is looked at, from its third entry on.
dir_empty(v, c) ==
    LET s == BeforeEnd(SubSeq(v.ents[c], 1, EntsPerSec))
    IN  \A i \in 3 .. Len(s) : s[i].t # "ent" \/ IsDot(s[i])

fat32_rmdir(v, here, path) ==
    LET remove(d, item) ==
            IF item.pos = 0 \/ ~item.e.isdir THEN [ok |-> FALSE, v |-> v]
            ELSE IF ~dir_empty(v, item.e.first) THEN [ok |-> FALSE, v |-> v]
            ELSE [ok |-> TRUE, v |-> mark_deleted(free_chain(v, item.e.first), d, item)]
    IN  remove(fat32_resolve_dir(v, here, dirname(path)), fat32_find_file(v, here, path))

\* A destination that is a directory stands for the source's name in it.
into_dir(v, here, src, dst) ==
    IF dst.comps = <<>> \/ fat32_find_file(v, here, dst).e.isdir
    THEN [dst EXCEPT !.comps = Append(@, basename(src))] ELSE dst

\* A destination that is a file is removed before the source is read.
fat32_cp(v, here, src, dst) ==
    LET removed(old) == IF old.pos # 0 /\ ~old.e.isdir THEN fat32_rm(v, here, dst).v ELSE v
        copy(item, w) ==
            IF item.pos = 0 \/ item.e.isdir \/ fat32_resolve_dir(v, here, dirname(dst)) = 0
            THEN [ok |-> FALSE, v |-> v]
            ELSE fat32_write_file(w, here, into_dir(v, here, src, dst), fat32_read_file_by_name(w, item.e))
    IN  copy(fat32_find_file(v, here, src), removed(fat32_find_file(v, here, dst)))

\* What is at the destination is removed, a directory too.
fat32_mv(v, here, src, dst) ==
    LET seen(r) == [r EXCEPT !.ok = @ /\ fat32_find_file(r.v, here, dst).pos # 0]
        remove(c) == IF c.ok THEN seen(fat32_rm(c.v, here, src)) ELSE c
    IN  IF fat32_find_file(v, here, src).pos = 0 THEN [ok |-> FALSE, v |-> v]
        ELSE remove(fat32_cp(fat32_rm(v, here, dst).v, here, src, dst))

(***************************************************************************)
(* What the volume holds, for the properties.                              *)
(***************************************************************************)
Items(v, d) == {i \in ToSet(fat32_iterate_dir(v, d)) : ~IsDot(i.e)}

\* The directories reached from the root.
Dirs(v) ==
    LET RECURSIVE reach(_)
        reach(S) == LET T == S \cup {i.e.first : i \in {x \in UNION {Items(v, d) : d \in S} : x.e.isdir}}
                    IN  IF T = S THEN S ELSE reach(T)
    IN  reach({Root})

Live(v) == UNION {{[d |-> d, e |-> i.e] : i \in Items(v, d)} : d \in Dirs(v)}

\* Every file with the entries that lead to it and its content.
Files(v) ==
    LET RECURSIVE below(_, _)
        below(d, trail) ==
            UNION {LET t == Append(trail, <<d, i.e.sn>>)
                   IN  IF i.e.isdir THEN below(i.e.first, t)
                       ELSE {[trail |-> t, data |-> fat32_read_file_by_name(v, i.e)]}
                   : i \in Items(v, d)}
    IN  below(Root, <<>>)

(***************************************************************************)
(* The operations.  A volume is hurt by a write to a directory's entry, by *)
(* an overwrite that runs out of clusters, by a copy onto itself, by       *)
(* removing the current directory or one with entries in it, and by        *)
(* removing a "." or ".." entry.                                           *)
(***************************************************************************)
Orphans(v, item) == item.e.isdir /\ (IsDot(item.e) \/ Items(v, item.e.first) # {})

NoOp == [op |-> "none", path |-> [abs |-> TRUE, comps |-> <<>>], data |-> <<>>,
         ok |-> FALSE, touched |-> {}]

Finish(op, path, data, r, damage, touched) ==
    /\ ops < MaxOps
    /\ ops' = ops + 1
    /\ UNCHANGED bpb
    /\ vol' = r.v
    /\ hurt' = (hurt \/ damage \/ cwd.cl \notin Dirs(r.v))
    /\ done' = [op |-> op, path |-> path, data |-> data, ok |-> r.ok, touched |-> touched]

\* The entry a path names, by its directory and its short name.
Touch(v, path) ==
    {<<fat32_resolve_dir(v, cwd.cl, dirname(path)), fat32_find_file(v, cwd.cl, path).e.sn>>}

Found(p) == fat32_find_file(vol, cwd.cl, p)

Wrote(p, data, r, old) ==
    /\ UNCHANGED cwd
    /\ Finish("write", p, data, r, old.e.isdir \/ (~r.ok /\ old.pos # 0), Touch(r.v, p))

Write == \E p \in FilePaths, data \in Contents :
    Wrote(p, data, fat32_write_file(vol, cwd.cl, p, data), Found(p))

Rm == \E p \in RmPaths :
    /\ UNCHANGED cwd
    /\ Finish("rm", p, <<>>, fat32_rm(vol, cwd.cl, p), Orphans(vol, Found(p)), Touch(vol, p))

Copied(src, dst, r) ==
    /\ UNCHANGED cwd
    /\ Finish("cp", dst, fat32_read_file_by_name(vol, Found(src).e), r,
              Touch(vol, src) = Touch(vol, dst), Touch(r.v, dst) \cup Touch(vol, dst))

Cp == \E pp \in Copies :
    Copied(pp[1], into_dir(vol, cwd.cl, pp[1], pp[2]), fat32_cp(vol, cwd.cl, pp[1], pp[2]))

MovedTo(src, dst, r) ==
    /\ UNCHANGED cwd
    /\ Finish("mv", dst, fat32_read_file_by_name(vol, Found(src).e), r,
              Found(src).pos # 0 /\ Orphans(vol, Found(dst)),
              Touch(vol, src) \cup Touch(vol, dst) \cup Touch(r.v, dst))

Mv == \E pp \in Copies : MovedTo(pp[1], pp[2], fat32_mv(vol, cwd.cl, pp[1], pp[2]))

Made(p, r) ==
    /\ UNCHANGED cwd
    /\ Finish("mkdir", p, <<>>, r, FALSE, Touch(r.v, p))

Mkdir == \E p \in DirPaths : Made(p, fat32_mkdir(vol, cwd.cl, p))

RemovedDir(p, r) ==
    /\ UNCHANGED cwd
    /\ Finish("rmdir", p, <<>>, r, r.ok /\ Orphans(vol, Found(p)), Touch(vol, p))

Rmdir == \E p \in DirPaths : RemovedDir(p, fat32_rmdir(vol, cwd.cl, p))

Went(r) ==
    /\ r.ok
    /\ cwd' = [cl |-> r.cl, path |-> r.path]
    /\ done' = NoOp
    /\ UNCHANGED <<bpb, vol, hurt, ops>>

Cd == \E p \in CdPaths : Went(fat32_cd(vol, cwd, p))

\* fat32_init by m_disk: the search for free clusters starts over.
Mount ==
    /\ vol' = [vol EXCEPT !.hint = 3]
    /\ cwd' = [cl |-> Root, path |-> <<>>]
    /\ done' = NoOp
    /\ UNCHANGED <<bpb, hurt, ops>>

\* A formatted volume: the first two entries are set, the root is empty.
\* fat32_format_at leaves the mirrors zero.
Init ==
    /\ bpb \in Volumes
    /\ LET table == [c \in 0 .. Total - 1 |-> IF c < 2 THEN EOC ELSE IF c = Root THEN RootEntry ELSE 0]
       IN  vol = [fat |-> [f \in 1 .. NumFATs |->
                              IF f = 1 \/ RootEntry = EOC THEN table ELSE [c \in DOMAIN table |-> 0]],
                  hint |-> 3,
                  ents |-> [c \in Cl |-> ZeroEnts], secs |-> [c \in Cl |-> ZeroSecs]]
    /\ cwd = [cl |-> Root, path |-> <<>>]
    /\ hurt = FALSE
    /\ ops = 0
    /\ done = NoOp

Next == Write \/ Rm \/ Cp \/ Mv \/ Mkdir \/ Rmdir \/ Cd \/ Mount

Spec == Init /\ [][Next]_vars

(***************************************************************************)
(* Properties.                                                             *)
(***************************************************************************)
\* Every live entry has a chain that ends and holds its size, and no cluster
\* is in two chains or is the root (fat32_alloc_cluster, the links of
\* fat32_write_file and the frees of fat32_rm and fat32_rmdir).
ChainsSound ==
    LET L == Live(vol)
        own(x) == ToSet(chain(vol, x.e.first))
    IN  ~hurt =>
        /\ \A x \in L : /\ own(x) # {} /\ Root \notin own(x)
                        /\ vol.fat[1][Last(chain(vol, x.e.first))] = EOC
                        /\ x.e.size <= Cardinality(own(x)) * SecPerClus
        /\ \A x, y \in L : x # y => own(x) \cap own(y) = {}

\* An operation leaves the content of every file it is not about alone.
OthersKept ==
    ~hurt' => \A f \in Files(vol) :
        f \in Files(vol') \/ ToSet(f.trail) \cap done'.touched # {}

\* A write or a copy that reports success is read back whole.
ReadBack ==
    done'.op \in {"write", "cp"} /\ done'.ok /\ ~hurt' =>
        LET i == fat32_find_file(vol', cwd.cl, done'.path)
        IN  i.pos # 0 /\ fat32_read_file_by_name(vol', i.e) = done'.data


\* The reader of ranges and cat return the same sectors of every file, and
\* the walks over a directory (with long names, without, and for the
\* listing) see the same entries.
ReadersAgree ==
    ~hurt =>
    /\ \A x \in {y \in Live(vol) : ~y.e.isdir /\ y.e.size > 0} :
         LET whole == fat32_cat(vol, x.e)
         IN  \A o \in 0 .. x.e.size - 1, n \in 1 .. x.e.size :
                fat32_read_file_range(vol, x.e, o, n) =
                    [ok |-> TRUE, data |-> SubSeq(whole, o + 1, IF o + n < x.e.size THEN o + n ELSE x.e.size)]
    /\ \A d \in Dirs(vol) :
         LET items == fat32_iterate_dir(vol, d)
         IN  /\ fat32_read_dir(vol, d, Len(items) + 1) = [i \in DOMAIN items |-> items[i].e]
             /\ Len(fat32_list_dir_lfn(vol, d, MaxOps)) = Cardinality(Items(vol, d))

\* The path that is shown names the current directory: the names of
\* current_path lead from the root to current_dir_cluster32, so the parent
\* that ".." finds in the directory is the one the path drops to.
CwdTrue ==
    ~hurt => fat32_resolve_dir(vol, Root, [abs |-> TRUE, comps |-> cwd.path]) = cwd.cl
=============================================================================
