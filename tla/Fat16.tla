------------------------------- MODULE Fat16 -------------------------------
(***************************************************************************)
(* The FAT16 volume of fs/fat16.c: the allocation table, the root          *)
(* directory, the directory clusters and the data clusters, and the file   *)
(* operations of the console and of the system calls on them.  Every       *)
(* operation runs to its end before the next one starts.                   *)
(*                                                                         *)
(* A sector of data is a number (0 is a sector of zeros).                  *)
(***************************************************************************)
EXTENDS FatDir

CONSTANT
    Volumes         \* the volumes, and the operations tried on each

VARIABLES
    bpb,            \* the parameters fat16_init read, and the operations tried
    vol,            \* the volume on disk, with fat16_alloc_hint
    cwd,            \* current_dir_cluster16
    hurt,           \* an operation that damages the volume has run
    done,           \* the last operation: what it did, to which entries
    ops             \* the operations so far

vars == <<bpb, vol, cwd, hurt, done, ops>>

Total == bpb.Total              \* FAT entries; clusters are 2 .. Total - 1
SecPerClus == bpb.SecPerClus    \* data sectors in a cluster
EntsPerClus == bpb.EntsPerClus  \* directory entries in a cluster
RootEntCnt == bpb.RootEntCnt    \* directory entries of the root directory
MaxAlias == bpb.MaxAlias        \* aliases tried for a short name (10000 in the code)
FilePaths == bpb.FilePaths      \* the paths given to file operations
RmPaths == bpb.RmPaths          \* the paths given to rm
DirPaths == bpb.DirPaths        \* the paths given to directory operations
Copies == bpb.Copies            \* the pairs of paths given to cp and mv
Contents == bpb.Contents        \* what is written, sequences of sectors
MaxOps == bpb.MaxOps            \* operations in a behaviour

Cl == 2 .. (Total - 1)
EOC == 65535
NoDir == 65535              \* 0xFFFF, the error of fat16_resolve_dir

ZeroSecs == <<>> \o [i \in 1 .. SecPerClus |-> 0]
ZeroEnts == <<>> \o [i \in 1 .. EntsPerClus |-> End]

(***************************************************************************)
(* The allocation table.                                                   *)
(***************************************************************************)
fat16_set_fat_entry(v, c, x) == [v EXCEPT !.fat[c] = x]

\* The first free entry at or after the hint, then from 2 up to the hint.
alloc_cluster(v) ==
    LET start == IF v.hint \in Cl THEN v.hint ELSE 2
        order(i) == 2 + ((start + i - 3) % (Total - 2))
        free == {i \in 1 .. Total - 2 : v.fat[order(i)] = 0}
        take(c) == [v |-> [fat16_set_fat_entry(v, c, EOC) EXCEPT !.hint = c + 1], cl |-> c]
    IN  IF free = {} THEN [v |-> v, cl |-> 0] ELSE take(order(Min(free)))

\* The clusters from c on, as fat16_next_cluster visits them.
chain(v, c) ==
    LET RECURSIVE walk(_, _)
        walk(x, n) == IF x \notin Cl \/ n = 0 THEN <<>>
                      ELSE <<x>> \o walk(v.fat[x], n - 1)
    IN  walk(c, Total)

\* (variant) only the first cluster is freed.
free_cluster_chain_head(v, c) == IF c \in Cl THEN fat16_set_fat_entry(v, c, 0) ELSE v

free_cluster_chain(v, c) ==
    [v EXCEPT !.fat = [x \in Cl |-> IF x \in ToSet(chain(v, c)) THEN 0 ELSE v.fat[x]]]


zero_cluster(v, c) == [v EXCEPT !.secs[c] = ZeroSecs, !.ents[c] = ZeroEnts]

\* rm and write_file free a chain and clear its clusters.
wipe_chain(v, c) ==
    FoldLeft(zero_cluster, free_cluster_chain(v, c), chain(v, c))

(***************************************************************************)
(* A directory is the root's slots, or those of its clusters in order.     *)
(***************************************************************************)
dir_slots(v, d) == IF d = 0 THEN v.root
                   ELSE FlattenSeq([i \in 1 .. Len(chain(v, d)) |-> v.ents[chain(v, d)[i]]])

fat16_dir_write_raw(v, d, pos, slot) ==
    IF d = 0 THEN [v EXCEPT !.root[pos] = slot]
    ELSE LET c == chain(v, d)[((pos - 1) \div EntsPerClus) + 1]
         IN  [v EXCEPT !.ents[c] = ReplaceAt(@, ((pos - 1) % EntsPerClus) + 1, slot)]

fat16_iterate_dir(v, d) == iterate_dir(dir_slots(v, d))

fat16_find_entry_slot(v, d, name) == find_entry(dir_slots(v, d), name)

(***************************************************************************)
(* Paths.                                                                  *)
(***************************************************************************)
\* A name that is a file ends the walk: at the last component the directory
\* that holds it is the result, before that the path is invalid.
fat16_resolve_dir(v, here, path) ==
    LET RECURSIVE walk(_, _)
        walk(c, names) ==
            IF names = <<>> THEN c
            ELSE LET item == fat16_find_entry_slot(v, c, Head(names))
                 IN  IF item.pos = 0 THEN NoDir
                     ELSE IF ~item.e.isdir
                          THEN IF Tail(names) = <<>> THEN c ELSE NoDir
                          ELSE walk(item.e.first, Tail(names))
    IN  walk(IF path.abs THEN 0 ELSE here, path.comps)

fat16_find_file_path(v, here, path) ==
    LET RECURSIVE walk(_, _)
        walk(c, names) ==
            LET item == fat16_find_entry_slot(v, c, Head(names))
            IN  IF item.pos = 0 THEN NoItem
                ELSE IF Tail(names) = <<>> THEN item
                ELSE IF ~item.e.isdir THEN NoItem
                ELSE walk(item.e.first, Tail(names))
    IN  IF path.comps = <<>> THEN NoItem
        ELSE walk(IF path.abs THEN 0 ELSE here, path.comps)

(***************************************************************************)
(* Making a directory entry.                                               *)
(***************************************************************************)
\* The first run of free slots; a directory without one grows by clusters
\* and the slots are the first of the new clusters.  The root cannot grow.
grow_dir(acc, d, a) ==
    IF ~acc.ok \/ a.cl = 0 THEN [acc EXCEPT !.ok = FALSE]
    ELSE [acc EXCEPT !.v = zero_cluster(fat16_set_fat_entry(a.v, Last(chain(acc.v, d)), a.cl), a.cl)]

find_free_slots(v, d, s, run, needed) ==
    IF run # 0 THEN [ok |-> TRUE, v |-> v, pos |-> run]
    ELSE IF d = 0 THEN [ok |-> FALSE, v |-> v, pos |-> 0]
    ELSE FoldLeft(LAMBDA acc, i : grow_dir(acc, d, alloc_cluster(acc.v)), [ok |-> TRUE, v |-> v, pos |-> Len(s) + 1],
                  [i \in 1 .. (needed + EntsPerClus - 1) \div EntsPerClus |-> i])

fat16_find_free_slots(v, d, needed) ==
    find_free_slots(v, d, dir_slots(v, d), free_run(dir_slots(v, d), needed), needed)

\* The checks and steps create_file and mkdir share: the slots of the new
\* entry and its first cluster, before anything is written to the directory.
first_cluster(d, sn, slots, a) ==
    IF ~slots.ok THEN [ok |-> FALSE, v |-> slots.v]
    ELSE IF a.cl = 0 THEN [ok |-> FALSE, v |-> a.v]
    ELSE [ok |-> TRUE, v |-> a.v, d |-> d, sn |-> sn, pos |-> slots.pos, cl |-> a.cl]

new_entry_in(v, d, name, sn) ==
    LET refused == \/ name \in {Dot, DotDot}
                   \/ d = NoDir
                   \/ fat16_find_entry_slot(v, d, name).pos # 0
                   \/ sn = NoKey
        take(slots) == first_cluster(d, sn, slots, alloc_cluster(slots.v))
    IN  IF refused THEN [ok |-> FALSE, v |-> v]
        ELSE take(fat16_find_free_slots(v, d, name.parts + 1))

new_entry(v, here, path) ==
    LET name == basename(path)
        in(d) == new_entry_in(v, d, name, generate_short_name(dir_slots(v, d), name, MaxAlias))
    IN  in(fat16_resolve_dir(v, here, dirname(path)))

put_entry(n, v, name, entry) ==
    LET slots == write_lfn_entries(name, entry)
    IN  FoldLeft(LAMBDA w, i : fat16_dir_write_raw(w, n.d, n.pos + i - 1, slots[i]),
                 v, [i \in DOMAIN slots |-> i])

\* A first cluster always, then one for each further cluster of the size;
\* when the volume is full the file keeps the clusters it has.
more_clusters(acc, a) ==
    IF acc.full \/ a.cl = 0 THEN [acc EXCEPT !.full = TRUE]
    ELSE [full |-> FALSE, prev |-> a.cl,
          v |-> zero_cluster(fat16_set_fat_entry(a.v, acc.prev, a.cl), a.cl)]

create_file(n, name, size) ==
    IF ~n.ok THEN n
    ELSE [ok |-> TRUE,
          v |-> put_entry(n, FoldLeft(LAMBDA acc, i : more_clusters(acc, alloc_cluster(acc.v)),
                                      [full |-> FALSE, prev |-> n.cl, v |-> n.v],
                                      [i \in 2 .. (size + SecPerClus - 1) \div SecPerClus |-> i]).v,
                          name, Entry(n.sn, FALSE, n.cl, size))]

fat16_create_file(v, here, path, size) == create_file(new_entry(v, here, path), basename(path), size)

(***************************************************************************)
(* File contents.                                                          *)
(***************************************************************************)
\* The sectors of one cluster, the ones past the data as they were.
write_secs(v, c, data) ==
    [v EXCEPT !.secs[c] = [i \in 1 .. SecPerClus |->
                              IF i <= Len(data) THEN data[i] ELSE v.secs[c][i]]]

\* Clusters are taken one by one; first is 0 for an empty file.
write_chain(v, data) ==
    LET clusters == (Len(data) + SecPerClus - 1) \div SecPerClus
        part(i) == SubSeq(data, (i - 1) * SecPerClus + 1,
                          IF i * SecPerClus < Len(data) THEN i * SecPerClus ELSE Len(data))
        linked(acc, a) == IF acc.first = 0 THEN a.v ELSE fat16_set_fat_entry(a.v, acc.prev, a.cl)
        next(acc, i, a) ==
            IF ~acc.ok \/ a.cl = 0 THEN [acc EXCEPT !.ok = FALSE]
            ELSE [ok |-> TRUE, prev |-> a.cl, v |-> write_secs(linked(acc, a), a.cl, part(i)),
                  first |-> IF acc.first = 0 THEN a.cl ELSE acc.first]
    IN  FoldLeft(LAMBDA acc, i : next(acc, i, alloc_cluster(acc.v)),
                 [ok |-> TRUE, first |-> 0, prev |-> 0, v |-> v], [i \in 1 .. clusters |-> i])

\* The old chain is freed before the new one is taken; the entry is only
\* written when all of the data was.  A missing file is created first.
Refused(v) == [ok |-> FALSE, v |-> v, torn |-> FALSE]

overwrite(d, item, w, size) ==
    IF ~w.ok THEN [ok |-> FALSE, v |-> w.v, torn |-> TRUE]
    ELSE [ok |-> TRUE, torn |-> FALSE,
          v |-> fat16_dir_write_raw(w.v, d, item.pos, Entry(item.e.sn, FALSE, w.first, size))]

RECURSIVE fat16_write_file(_, _, _, _)
fat16_write_file(v, here, path, data) ==
    LET again(made) == IF made.ok THEN fat16_write_file(made.v, here, path, data) ELSE Refused(made.v)
        into(d, item) ==
            IF item.pos = 0 THEN again(fat16_create_file(v, here, path, 0))
            ELSE IF item.e.isdir THEN Refused(v)
            ELSE overwrite(d, item, write_chain(wipe_chain(v, item.e.first), data), Len(data))
        in(d) == IF d = NoDir THEN Refused(v) ELSE into(d, fat16_find_entry_slot(v, d, basename(path)))
    IN  in(fat16_resolve_dir(v, here, dirname(path)))

\* What a read of the whole file returns.
fat16_read_file(v, e) ==
    LET cs == chain(v, e.first)
        all == FlattenSeq([i \in 1 .. Len(cs) |-> v.secs[cs[i]]])
    IN  SubSeq(all, 1, IF e.size < Len(all) THEN e.size ELSE Len(all))

\* A part of a file, in sectors: skip whole clusters, then copy cluster by
\* cluster.  An empty file has no first cluster and is an error.
fat16_read_part(v, e, offset, size) ==
    LET want == IF size > e.size - offset THEN e.size - offset ELSE size
        skip == offset \div SecPerClus
        RECURSIVE copy(_, _, _)
        copy(c, from, n) ==
            LET part == SubSeq(v.secs[c], from + 1, IF from + n < SecPerClus THEN from + n ELSE SecPerClus)
            IN  IF n <= 0 \/ c = EOC THEN <<>>
                ELSE part \o copy(v.fat[c], 0, n - Len(part))
        RECURSIVE hop(_, _)
        hop(c, n) == IF n = 0 \/ c = EOC THEN c ELSE hop(v.fat[c], n - 1)
    IN  IF e.first = 0 THEN [ok |-> FALSE, data |-> <<>>]
        ELSE IF offset >= e.size THEN [ok |-> TRUE, data |-> <<>>]
        ELSE [ok |-> TRUE, data |-> copy(hop(e.first, skip), offset % SecPerClus, want)]

\* (variant) the copy starts at the beginning of the first cluster.
fat16_read_file_range_aligned(v, e, offset, size) ==
    LET cs == chain(v, e.first)
        first == (offset \div SecPerClus) + 1
        want == IF offset + size > e.size THEN e.size - offset ELSE size
        bytes == FlattenSeq([i \in 1 .. Len(cs) - first + 1 |-> v.secs[cs[first + i - 1]]])
    IN  IF offset >= e.size \/ first > Len(cs) THEN [ok |-> FALSE, data |-> <<>>]
        ELSE [ok |-> TRUE, data |-> SubSeq(bytes, 1, want)]

\* The program loader's reader: a start past the end is an error, and the
\* chain is followed while whole clusters are to be skipped.
fat16_read_file_range(v, e, offset, size) ==
    LET want == IF offset + size > e.size THEN e.size - offset ELSE size
        cs == chain(v, e.first)
        first == (offset \div SecPerClus) + 1
        bytes == FlattenSeq([i \in 1 .. Len(cs) - first + 1 |-> v.secs[cs[first + i - 1]]])
        from == offset % SecPerClus
    IN  IF offset >= e.size \/ first > Len(cs) THEN [ok |-> FALSE, data |-> <<>>]
        ELSE [ok |-> TRUE, data |-> SubSeq(bytes, from + 1, from + want)]

\* What is shown of a file: cluster by cluster until its size is used up.
fat16_cat(v, e) ==
    LET step(acc, c) == LET n == IF acc.left > SecPerClus THEN SecPerClus ELSE acc.left
                        IN  [out |-> acc.out \o SubSeq(v.secs[c], 1, n), left |-> acc.left - n]
    IN  FoldLeft(step, [out |-> <<>>, left |-> e.size], chain(v, e.first)).out

fat16_read_dir(v, d, max) == read_dir(dir_slots(v, d), max)

fat16_list_dir_lfn(v, d, max) == list_dir_lfn(dir_slots(v, d), max)

mark_deleted(v, d, item) ==
    FoldLeft(LAMBDA w, pos : fat16_dir_write_raw(w, d, pos, Deleted),
             v, Append(item.lfns, item.pos))

rm_item(v, d, item) ==
    IF item.pos = 0 THEN [ok |-> FALSE, v |-> v]
    ELSE [ok |-> TRUE, v |-> mark_deleted(wipe_chain(v, item.e.first), d, item)]

fat16_rm(v, here, path) ==
    LET in(d) == IF d = NoDir THEN [ok |-> FALSE, v |-> v]
                 ELSE rm_item(v, d, fat16_find_entry_slot(v, d, basename(path)))
    IN  in(fat16_resolve_dir(v, here, dirname(path)))

make_dir(n, name) ==
    LET w == put_entry(n, n.v, name, Entry(n.sn, TRUE, n.cl, 0))
        dots == [i \in 1 .. EntsPerClus |->
                    IF i = 1 THEN Entry(Dot.key, TRUE, n.cl, 0)
                    ELSE IF i = 2 THEN Entry(DotDot.key, TRUE, n.d, 0) ELSE End]
    IN  IF ~n.ok THEN n
        ELSE [ok |-> TRUE, v |-> [zero_cluster(w, n.cl) EXCEPT !.ents[n.cl] = dots]]

fat16_mkdir(v, here, path) == make_dir(new_entry(v, here, path), basename(path))

\* Only the first cluster is looked at, up to the first end slot.  Cluster 0
\* has no place of its own: its address is clamped to cluster 2's.
is_dir_empty(v, c) ==
    LET s == v.ents[IF c < 2 THEN 2 ELSE c]
        used == {i \in DOMAIN s : s[i].t = "ent" /\ ~IsDot(s[i])}
        ends == {i \in DOMAIN s : s[i].t = "end"}
    IN  \A i \in used : \E j \in ends : j < i

rmdir_item(v, d, item) ==
    IF item.pos = 0 \/ ~item.e.isdir THEN [ok |-> FALSE, v |-> v]
    ELSE IF ~is_dir_empty(v, item.e.first) THEN [ok |-> FALSE, v |-> v]
    ELSE [ok |-> TRUE, v |-> mark_deleted(free_cluster_chain(v, item.e.first), d, item)]

fat16_rmdir(v, here, path) ==
    LET in(d) == IF d = NoDir THEN [ok |-> FALSE, v |-> v]
                 ELSE rmdir_item(v, d, fat16_find_entry_slot(v, d, basename(path)))
    IN  in(fat16_resolve_dir(v, here, dirname(path)))

\* A destination that is a directory stands for the source's name in it.
into_dir(v, here, src, dst) ==
    IF dst = [abs |-> TRUE, comps |-> <<>>] \/ fat16_find_file_path(v, here, dst).e.isdir
    THEN [dst EXCEPT !.comps = Append(@, basename(src))] ELSE dst

\* An empty file is not copied.
fat16_cp(v, here, src, dst) ==
    LET copy(item) == IF item.pos = 0 \/ item.e.size = 0 THEN Refused(v)
                      ELSE fat16_write_file(v, here, into_dir(v, here, src, dst), fat16_read_file(v, item.e))
    IN  copy(fat16_find_file_path(v, here, src))

fat16_mv(v, here, src, dst) ==
    LET remove(c) == IF c.ok THEN fat16_rm(c.v, here, src) @@ [torn |-> FALSE] ELSE c
    IN  IF fat16_find_file_path(v, here, src).pos = 0 THEN Refused(v)
        ELSE remove(fat16_cp(v, here, src, into_dir(v, here, src, dst)))

(***************************************************************************)
(* What the volume holds, for the properties.                              *)
(***************************************************************************)
Items(v, d) == {i \in ToSet(fat16_iterate_dir(v, d)) : ~IsDot(i.e)}

\* The directories reached from the root.
Dirs(v) ==
    LET RECURSIVE reach(_)
        reach(S) == LET T == S \cup {i.e.first : i \in {x \in UNION {Items(v, d) : d \in S} : x.e.isdir}}
                    IN  IF T = S THEN S ELSE reach(T)
    IN  reach({0})

Live(v) == UNION {{[d |-> d, e |-> i.e] : i \in Items(v, d)} : d \in Dirs(v)}

\* Every file with the entries that lead to it and its content.
Files(v) ==
    LET RECURSIVE below(_, _)
        below(d, trail) ==
            UNION {LET t == Append(trail, <<d, i.e.sn>>)
                   IN  IF i.e.isdir THEN below(i.e.first, t)
                       ELSE {[trail |-> t, size |-> i.e.size, data |-> fat16_read_file(v, i.e)]}
                   : i \in Items(v, d)}
    IN  below(0, <<>>)

(***************************************************************************)
(* The operations.  "touched" are the entries an operation is about; a     *)
(* volume is hurt by a write that runs out of clusters after the old chain *)
(* was freed, by removing the current directory or one with entries in it, *)
(* and by removing a "." or ".." entry.                                    *)
(***************************************************************************)
Orphans(v, item) == item.e.isdir /\ Items(v, item.e.first) # {}

Finish(op, path, data, r, torn, touched) ==
    /\ ops < MaxOps
    /\ ops' = ops + 1
    /\ UNCHANGED bpb
    /\ vol' = r.v
    /\ hurt' = (hurt \/ torn \/ (cwd'.cl \notin Dirs(r.v)))
    /\ done' = [op |-> op, path |-> path, data |-> data, ok |-> r.ok, touched |-> touched]

NoOp == [op |-> "none", path |-> [abs |-> TRUE, comps |-> <<>>], data |-> <<>>,
         ok |-> FALSE, touched |-> {}]

\* The entry a path names, by its directory and its short name.
Touch(v, path) ==
    LET in(d) == IF d = NoDir THEN {} ELSE {<<d, fat16_find_entry_slot(v, d, basename(path)).e.sn>>}
    IN  IF path.comps = <<>> THEN {} ELSE in(fat16_resolve_dir(v, cwd.cl, dirname(path)))

Wrote(p, data, r) ==
    /\ UNCHANGED cwd
    /\ Finish("write", p, data, r, r.torn, Touch(r.v, p))

\* Saving through the file-system table: create with the size, then write.
Create == \E p \in FilePaths, data \in Contents :
    Wrote(p, data, fat16_write_file(fat16_create_file(vol, cwd.cl, p, Len(data)).v, cwd.cl, p, data))

Write == \E p \in FilePaths, data \in Contents :
    Wrote(p, data, fat16_write_file(vol, cwd.cl, p, data))

Removed(p, r, item) ==
    /\ UNCHANGED cwd
    /\ Finish("rm", p, <<>>, r, r.ok /\ Orphans(vol, item), Touch(vol, p))

Rm == \E p \in RmPaths : Removed(p, fat16_rm(vol, cwd.cl, p), fat16_find_file_path(vol, cwd.cl, p))

Source(p) == fat16_read_file(vol, fat16_find_file_path(vol, cwd.cl, p).e)

Cp == \E pp \in Copies :
    Wrote(into_dir(vol, cwd.cl, pp[1], pp[2]), Source(pp[1]), fat16_cp(vol, cwd.cl, pp[1], pp[2]))

MovedTo(src, dst, r) ==
    /\ UNCHANGED cwd
    /\ Finish("mv", dst, Source(src), r, r.torn, Touch(vol, src) \cup Touch(r.v, dst))

Mv == \E pp \in Copies :
    MovedTo(pp[1], into_dir(vol, cwd.cl, pp[1], pp[2]), fat16_mv(vol, cwd.cl, pp[1], pp[2]))

Made(p, r) ==
    /\ UNCHANGED cwd
    /\ Finish("mkdir", p, <<>>, r, FALSE, Touch(r.v, p))

Mkdir == \E p \in DirPaths : Made(p, fat16_mkdir(vol, cwd.cl, p))

RemovedDir(p, r, item) ==
    /\ UNCHANGED cwd
    /\ Finish("rmdir", p, <<>>, r, r.ok /\ (Orphans(vol, item) \/ IsDot(item.e)), Touch(vol, p))

Rmdir == \E p \in DirPaths : RemovedDir(p, fat16_rmdir(vol, cwd.cl, p), fat16_find_file_path(vol, cwd.cl, p))

Cd == \E p \in DirPaths \cup {[abs |-> FALSE, comps |-> <<DotDot>>]} :
    LET names == normalize_path(cwd.path, p)
        c == fat16_resolve_dir(vol, 0, [abs |-> TRUE, comps |-> names])
    IN  /\ c # NoDir
        /\ cwd' = [cl |-> c, path |-> names]
        /\ done' = NoOp
        /\ UNCHANGED <<bpb, vol, hurt, ops>>

\* fat16_init by m_disk: the search for free clusters starts over.
Mount ==
    /\ vol' = [vol EXCEPT !.hint = 2]
    /\ cwd' = [cl |-> 0, path |-> <<>>]
    /\ done' = NoOp
    /\ UNCHANGED <<bpb, hurt, ops>>

\* A volume as fat16_format_at leaves it: every cluster free and zero.
Init ==
    /\ bpb \in Volumes
    /\ vol = [fat |-> [c \in Cl |-> 0], hint |-> 2,
              root |-> [i \in 1 .. RootEntCnt |-> End],
              ents |-> [c \in Cl |-> ZeroEnts], secs |-> [c \in Cl |-> ZeroSecs]]
    /\ cwd = [cl |-> 0, path |-> <<>>]
    /\ hurt = FALSE
    /\ ops = 0
    /\ done = NoOp

Next == Create \/ Write \/ Rm \/ Cp \/ Mv \/ Mkdir \/ Rmdir \/ Cd \/ Mount

Spec == Init /\ [][Next]_vars

(***************************************************************************)
(* Properties.                                                             *)
(***************************************************************************)
\* Every live entry has a chain that ends, no cluster is in two chains, a
\* file's chain holds all of its size, and a cluster is marked used exactly
\* when it is in the chain of a live entry: nothing is lost and nothing is
\* shared (the order of _alloc_cluster, the links and fat16_set_fat_entry in
\* create, write, rm, mkdir and rmdir).
ChainsSound ==
    LET L == Live(vol)
        own(x) == ToSet(chain(vol, x.e.first))
    IN  ~hurt =>
        /\ \A x \in L : /\ own(x) = {} => x.e.first = 0 /\ x.e.size = 0
                        /\ own(x) # {} => vol.fat[Last(chain(vol, x.e.first))] = EOC
                        /\ x.e.size <= Cardinality(own(x)) * SecPerClus
        /\ \A x, y \in L : x # y => own(x) \cap own(y) = {}
        /\ UNION {own(x) : x \in L} = {c \in Cl : vol.fat[c] # 0}

\* An operation leaves the content of every file it is not about alone.
OthersKept ==
    ~hurt' => \A f \in Files(vol) :
        f \in Files(vol') \/ ToSet(f.trail) \cap done'.touched # {}

\* The readers agree: the part reader, the loader's reader and cat return the
\* same bytes of every file, and the three walks over a directory (with long
\* names, without, and for the listing) see the same entries.
ReadersAgree ==
    ~hurt =>
    /\ \A x \in {y \in Live(vol) : ~y.e.isdir /\ y.e.size > 0} :
         LET whole == fat16_read_file(vol, x.e)
         IN  /\ fat16_cat(vol, x.e) = whole
             /\ \A o \in 0 .. x.e.size - 1, n \in 1 .. x.e.size :
                    LET part == SubSeq(whole, o + 1, IF o + n < x.e.size THEN o + n ELSE x.e.size)
                    IN  /\ fat16_read_part(vol, x.e, o, n) = [ok |-> TRUE, data |-> part]
                        /\ fat16_read_file_range(vol, x.e, o, n) = [ok |-> TRUE, data |-> part]
    /\ \A d \in Dirs(vol) :
         LET items == fat16_iterate_dir(vol, d)
         IN  /\ fat16_read_dir(vol, d, MaxOps + 2) = [i \in DOMAIN items |-> items[i].e]
             /\ Len(fat16_list_dir_lfn(vol, d, MaxOps)) = Cardinality(Items(vol, d))

ParentIsDir(v, path) ==
    dirname(path).comps = <<>> \/ fat16_find_file_path(v, cwd.cl, dirname(path)).e.isdir

\* A write or a copy into a directory that reports success is read back
\* whole through the same path.
ReadBack ==
    done'.op = "write" /\ done'.ok /\ ParentIsDir(vol, done'.path) =>
        LET i == fat16_find_file_path(vol', cwd.cl, done'.path)
        IN  i.pos # 0 /\ i.e.size = Len(done'.data)
            /\ fat16_read_file(vol', i.e) = done'.data


\* No two entries of a directory have the same short name ("File already
\* exists!").
NamesUnique ==
    \A d \in Dirs(vol) : \A i, j \in DOMAIN dir_slots(vol, d) :
        LET s == dir_slots(vol, d)
        IN  i # j /\ s[i].t = "ent" /\ s[j].t = "ent" => s[i].sn # s[j].sn

\* Every long-name entry belongs to the run of one live entry, and nothing
\* in use lies behind the end of a directory.
LfnWhole ==
    \A d \in Dirs(vol) :
        LET s == dir_slots(vol, d)
            items == ToSet(fat16_iterate_dir(vol, d))
        IN  \A i \in DOMAIN s : ~Free(s[i]) =>
                Cardinality({x \in items : i = x.pos \/ i \in ToSet(x.lfns)}) = 1

=============================================================================
