------------------------------ MODULE Storage ------------------------------
(***************************************************************************)
(* Drives and volumes: which medium a drive number stands for (ata.c,      *)
(* ramdisk.c), the table of disks (disk.c), partitioning and formatting    *)
(* (cmd.c, fscmd.c and the format and init routines of the three file      *)
(* systems), the console's mounted drive (m_disk_num), the copy between    *)
(* disks (fsbg.c), and saving the RAM disk to another drive (svrd).        *)
(*                                                                         *)
(* A volume is its boot record, the places its format wrote, and a tree of *)
(* files; what the drivers do inside a volume is in Fat16, Fat32 and Xvfs. *)
(* A driver that is used on a medium that no longer holds the volume it    *)
(* was set up for sets `hurt', and the behaviour is not followed further.  *)
(***************************************************************************)
EXTENDS Integers, Sequences, FiniteSets, TLC, SequencesExt

CONSTANTS
    MaxDisks,    \* MAX_DISKS
    UsbBase,     \* USB_DRIVE_BASE
    AhciPorts,   \* ahci_sata_port_count()
    Pata,        \* the PATA positions with a drive (ata_available)
    Worlds,      \* the media the machine may start with, per unit
    Sticks,      \* media that may be plugged into a USB slot
    Image,       \* the medium that a file with contents 2 is an image of
    Files,       \* paths of files the console writes
    Dirs,        \* paths of directories the console makes and enters
    Sources,     \* paths "cp -b" copies from
    Targets,     \* directories "cp -b" copies to
    MaxPath,     \* components of the longest path that fits a path buffer
    MaxOps       \* bound on the commands and media changes

VARIABLES
    st,      \* drives, table, console, drivers
    scan,    \* next drive of the background detect_disks_quick, MaxDisks when idle
    job,     \* a cmd_save_ramdisk in progress
    done,    \* the last command and its result
    ops

vars == <<st, scan, job, done, ops>>

Disks == 0 .. MaxDisks - 1
FS == {"FAT16", "FAT32", "XVFS"}
Bases == {0, 1, 2048}
Units == {<<"ahci", p>> : p \in 0 .. AhciPorts - 1} \cup {<<"pata", p>> : p \in Pata}
         \cup {<<"usb", p>> : p \in 0 .. MaxDisks - UsbBase - 1} \cup {<<"ram", 0>>, <<"none", 0>>}

NoVol == [fs |-> "none"]
NoMedium == [size |-> 0]
Nowhere == [drive |-> -1, bpb |-> [tot |-> 0], geo |-> [fat |-> 0, root |-> 0]]

(***************************************************************************)
(* Drive numbers.                                                          *)
(***************************************************************************)
ata_build_drive_map ==
    LET room == IF AhciPorts < UsbBase THEN AhciPorts ELSE UsbBase
        before(p) == Cardinality({q \in Pata : q < p})
    IN  [d \in 0 .. room - 1 |-> <<"ahci", d>>] @@
        [d \in {x \in {AhciPorts + before(p) : p \in Pata} : x < UsbBase} |->
            <<"pata", CHOOSE p \in Pata : AhciPorts + before(p) = d>>]

ata_drive_backend(s, d) ==
    LET mapped(drive_map) == IF d \in DOMAIN drive_map THEN drive_map[d] ELSE <<"none", 0>>
    IN  IF s.ram = d /\ d >= 0 THEN <<"ram", 0>>
        ELSE IF d >= UsbBase THEN <<"usb", d - UsbBase>>
        ELSE mapped(ata_build_drive_map)

ata_get_sector_count(s, d) == s.media[ata_drive_backend(s, d)].size

Medium(s, d) == s.media[ata_drive_backend(s, d)]

PutUnit(s, at, m) == [s EXCEPT !.media = [u \in Units |-> IF u = at THEN m ELSE s.media[u]]]

PutMedium(s, d, m) == PutUnit(s, ata_drive_backend(s, d), m)

PutVol(m, base, v) == [m EXCEPT !.vol = [b \in Bases |-> IF b = base THEN v ELSE m.vol[b]]]

(***************************************************************************)
(* The table of disks.                                                     *)
(***************************************************************************)
\* Sector 0 is looked at for a file system first and for partitions then, of
\* which only the first one counts.
fs_quick_probe(s, d) ==
    LET inside(m, base) == [kind |-> IF m.vol[base].fs \in FS THEN m.vol[base].fs ELSE "MBR", base |-> base]
        probe(m) == IF m.size = 0 THEN [kind |-> "None", base |-> 0]
                    ELSE IF ~m.aa THEN [kind |-> "Unknown", base |-> 0]
                    ELSE IF m.vol[0].fs \in FS THEN [kind |-> m.vol[0].fs, base |-> 0]
                    ELSE IF m.table = <<>> THEN [kind |-> "Unknown", base |-> 0]
                    ELSE inside(m, m.table[1].first)
    IN  probe(Medium(s, d))

PutDisk(s, d, e) == [s EXCEPT !.disks = [x \in Disks |-> IF x = d THEN e ELSE s.disks[x]]]

\* One turn of the loop of detect_disks_quick.
detect_disk(s, d) ==
    LET ntfs(p) == p.kind # "None" /\ Medium(s, d).vol[p.base].fs = "NTFS"
        put(p) == PutDisk(s, d, [present |-> p.kind # "None", base |-> p.base,
                                 fs |-> IF ntfs(p) THEN "Unknown" ELSE p.kind])
    IN  put(fs_quick_probe(s, d))

detect_disks_quick(s) == FoldLeft(detect_disk, s, [i \in 1 .. MaxDisks |-> i - 1])

refresh_disk_kind(s, d) ==
    LET put(p) == PutDisk(s, d, [s.disks[d] EXCEPT !.base = p.base,
                                     !.fs = IF p.kind = "None" THEN "Unknown" ELSE p.kind])
    IN  put(fs_quick_probe(s, d))

m_disk_exists(s, d) == d \in Disks /\ s.disks[d].present

(***************************************************************************)
(* What a format writes and what the driver makes of it.  Sectors are      *)
(* numbered from the start of the disk.                                    *)
(***************************************************************************)
\* The size of the table is worked out from clusters counted with a table of
\* 250 sectors.  (Below 533 sectors the 32-bit difference wraps round, and the
\* 16-bit table size comes out as 0, which is raised to 1: the quotient here.)
fat16_format_at(base, total) ==
    LET clusters == (total - (1 + 32 + 2 * 250)) \div 4
        fatsz == (clusters * 2 + 511) \div 512
        b == [tot |-> total, spc |-> 4, rsvd |-> 1, fats |-> 2, ents |-> 512,
              fatsz |-> IF fatsz < 1 THEN 1 ELSE fatsz]
    IN  [fs |-> "FAT16", bpb |-> b, files |-> <<>>,
         lay |-> [fat |-> base + b.rsvd, root |-> base + b.rsvd + b.fats * b.fatsz],
         last |-> base + b.rsvd + b.fats * b.fatsz + 31]

\* One sector per cluster when that makes enough clusters; a smaller volume
\* keeps a table of no sectors.
fat32_format_at(base, total) ==
    LET clusters == total - (32 + 2)
        big == clusters >= 65525
        b == [tot |-> total, spc |-> IF big THEN 1 ELSE 8, rsvd |-> 32, fats |-> 2, ents |-> 0,
              fatsz |-> IF big THEN (clusters * 4 + 511) \div 512 ELSE 0]
    IN  [fs |-> "FAT32", bpb |-> b, files |-> <<>>,
         lay |-> [fat |-> base + b.rsvd, root |-> base + b.rsvd + b.fats * b.fatsz],
         last |-> base + b.rsvd + b.fats * b.fatsz]

xvfs_format_at(base, total) ==
    [fs |-> "XVFS", bpb |-> [tot |-> total, bitmap |-> 2, data |-> 10], files |-> <<>>,
     lay |-> [fat |-> base + 2, root |-> base + 10], last |-> base + 10]

format_at(fs, base, total) ==
    CASE fs = "FAT16" -> fat16_format_at(base, total)
      [] fs = "FAT32" -> fat32_format_at(base, total)
      [] fs = "XVFS" -> xvfs_format_at(base, total)

probe_fat16_pbr(m, base) ==
    /\ m.vol[base].fs = "FAT16"
    /\ LET b == m.vol[base].bpb
           clusters == (b.tot - (b.rsvd + b.fats * b.fatsz + (b.ents * 32 + 511) \div 512)) \div b.spc
       IN  clusters >= 4085 /\ clusters < 65525

find_fat16_in_mbr(m) ==
    SelectSeq(m.table, LAMBDA e : e.type \in {4, 6, 14} /\ probe_fat16_pbr(m, e.first))

SetDriver(s, fs, r) == [s EXCEPT !.drv = [f \in FS |-> IF f = fs THEN r ELSE s.drv[f]]]

fat16_init(s, d, base0) ==
    LET set(base, b) ==
            SetDriver(s, "FAT16", [drive |-> d, bpb |-> b,
                geo |-> [fat |-> base + b.rsvd, root |-> base + b.rsvd + b.fats * b.fatsz]])
        at(m, base) == IF m.size = 0 \/ ~probe_fat16_pbr(m, base) THEN [ok |-> FALSE, s |-> s]
                       ELSE [ok |-> TRUE, s |-> set(base, m.vol[base].bpb)]
        start(m, parts) == IF probe_fat16_pbr(m, base0) THEN base0 ELSE IF parts # <<>> THEN parts[1].first ELSE 0
        on(m) == at(m, start(m, find_fat16_in_mbr(m)))
    IN  on(Medium(s, d))

\* The record is copied to the driver before it is looked at.
fat32_init(s, d, base) ==
    LET set(b) ==
            IF b.fatsz = 0
            THEN [ok |-> FALSE, s |-> [SetDriver(s, "FAT32", [s.drv["FAT32"] EXCEPT !.bpb = b])
                                       EXCEPT !.loose = @ \/ s.con.fs = "FAT32"]]
            ELSE [ok |-> TRUE, s |-> SetDriver(s, "FAT32", [drive |-> d, bpb |-> b,
                     geo |-> [fat |-> base + b.rsvd, root |-> base + b.rsvd + b.fats * b.fatsz]])]
        on(m) == IF m.size = 0 \/ m.vol[base].fs # "FAT32" THEN [ok |-> FALSE, s |-> s]
                 ELSE set(m.vol[base].bpb)
    IN  on(Medium(s, d))

xvfs_init(s, d, base) ==
    LET set(b) == SetDriver(s, "XVFS", [drive |-> d, bpb |-> b,
                      geo |-> [fat |-> base + b.bitmap, root |-> base + b.data]])
        on(m) == IF m.size = 0 \/ m.vol[base].fs # "XVFS" THEN [ok |-> FALSE, s |-> s]
                 ELSE [ok |-> TRUE, s |-> set(m.vol[base].bpb)]
    IN  on(Medium(s, d))

fs_init(s, fs, d, base) ==
    CASE fs = "FAT16" -> fat16_init(s, d, base)
      [] fs = "FAT32" -> fat32_init(s, d, base)
      [] fs = "XVFS" -> xvfs_init(s, d, base)

(***************************************************************************)
(* The files of a volume, as a driver sees them.  `files' maps a path, a    *)
(* sequence of names from the root, to a directory or to contents.          *)
(***************************************************************************)
\* Where on the medium of its drive a driver finds the volume it was set up for.
VolsOf(s, fs) ==
    LET on(r, m) == IF r.drive < 0 \/ m.size = 0 THEN {}
                    ELSE {b \in Bases : /\ m.vol[b].fs = fs /\ m.vol[b].bpb = r.bpb /\ m.vol[b].lay = r.geo
                                        /\ b = 0 \/ m.vol[0].fs \notin FS}
    IN  on(s.drv[fs], Medium(s, s.drv[fs].drive))

Reaches(s, fs) == VolsOf(s, fs) # {}
VolBase(s, fs) == CHOOSE b \in VolsOf(s, fs) : TRUE
FilesOf(s, fs) == Medium(s, s.drv[fs].drive).vol[VolBase(s, fs)].files

PutFiles(s, fs, files) ==
    LET put(m, b) == PutVol(m, b, [m.vol[b] EXCEPT !.files = files])
    IN  PutMedium(s, s.drv[fs].drive, put(Medium(s, s.drv[fs].drive), VolBase(s, fs)))

Has(files, p) == p # <<>> /\ p \in DOMAIN files
IsDir(files, p) == p = <<>> \/ (p \in DOMAIN files /\ files[p].dir)
With(files, p, e) == [q \in DOMAIN files \cup {p} |-> IF q = p THEN e ELSE files[q]]

Fail(s) == [ok |-> FALSE, s |-> s]
Lost(s) == [ok |-> FALSE, s |-> [s EXCEPT !.hurt = TRUE]]

\* Write, make or replace the file p.  A directory of that name is damaged.
drv_write(s, fs, p, data) ==
    LET put(f) == IF p = <<>> \/ ~IsDir(f, Front(p)) THEN Fail(s)
                  ELSE IF IsDir(f, p) THEN Lost(s)
                  ELSE [ok |-> TRUE, s |-> PutFiles(s, fs, With(f, p, [dir |-> FALSE, data |-> data]))]
    IN  IF Reaches(s, fs) THEN put(FilesOf(s, fs)) ELSE Lost(s)

drv_mkdir(s, fs, p) ==
    LET make(f) == IF p = <<>> \/ Has(f, p) \/ ~IsDir(f, Front(p)) THEN Fail(s)
                   ELSE [ok |-> TRUE, s |-> PutFiles(s, fs, With(f, p, [dir |-> TRUE, data |-> 0]))]
    IN  IF Reaches(s, fs) THEN make(FilesOf(s, fs)) ELSE Lost(s)

(***************************************************************************)
(* The console's drive.                                                    *)
(***************************************************************************)
NoCon == [drive |-> -1, fs |-> "none", path |-> <<>>]

fs_unmount_all(s) ==
    [s EXCEPT !.con = NoCon, !.drv = [f \in FS |-> [s.drv[f] EXCEPT !.drive = -1]]]

\* The entry of the table says what a probe of the drive says now.
Fresh(s, d) ==
    m_disk_exists(s, d) /\ [kind |-> s.disks[d].fs, base |-> s.disks[d].base] = fs_quick_probe(s, d)

\* (variant) the console moves to the drive before its driver accepts it.
m_disk_num_early(s, d) ==
    LET kind == s.disks[d].fs
        moved(t, i) == [i.s EXCEPT !.con = [drive |-> d, fs |-> t.disks[d].fs, path |-> <<>>], !.loose = ~Fresh(t, d)]
        mount(t) == IF t.disks[d].fs \notin FS THEN t
                    ELSE moved(t, fs_init(t, t.disks[d].fs, d, t.disks[d].base))
    IN  IF ~m_disk_exists(s, d) THEN s
        ELSE mount(IF kind \in {"Unknown", "MBR"} THEN refresh_disk_kind(s, d) ELSE s)

m_disk_num(s, d) ==
    LET kind == s.disks[d].fs
        moved(t, i) ==
            IF ~i.ok THEN i.s
            ELSE [i.s EXCEPT !.con = [drive |-> d, fs |-> t.disks[d].fs, path |-> <<>>], !.loose = ~Fresh(t, d)]
        mount(t) == IF t.disks[d].fs \notin FS THEN t
                    ELSE moved(t, fs_init(t, t.disks[d].fs, d, t.disks[d].base))
    IN  IF ~m_disk_exists(s, d) THEN s
        ELSE mount(IF kind \in {"Unknown", "MBR"} THEN refresh_disk_kind(s, d) ELSE s)

\* The argument is one digit; another one is refused.
m_disk(s, arg) == IF arg \in Disks THEN m_disk_num(s, arg) ELSE s

\* Writing goes by the table's entry of the drive, everything else by current_fs.
fscmd_write_file(s, p, data) ==
    LET fs == s.disks[s.con.drive].fs
    IN  IF fs \in FS THEN drv_write(s, fs, p, data) ELSE Fail(s)

fscmd_mkdir(s, p) == IF s.con.fs \in FS THEN drv_mkdir(s, s.con.fs, p) ELSE Fail(s)

fscmd_cd(s, p) ==
    IF s.con.fs \notin FS THEN s
    ELSE IF ~Reaches(s, s.con.fs) THEN Lost(s).s
    ELSE IF ~IsDir(FilesOf(s, s.con.fs), p) THEN s
    ELSE [s EXCEPT !.con.path = p]

\* Contents of a file through the console; 0 when there is none.
fscmd_read_file_by_name(s, p) ==
    LET read(f) == IF IsDir(f, p) \/ ~Has(f, p) THEN 0 ELSE f[p].data
    IN  IF s.con.fs \notin FS \/ ~Reaches(s, s.con.fs) THEN 0 ELSE read(FilesOf(s, s.con.fs))

(***************************************************************************)
(* The RAM disk.                                                           *)
(***************************************************************************)
ramdisk_find_free_drive(s) ==
    LET free == {d \in Disks : ~s.disks[d].present}
    IN  IF free = {} THEN -1 ELSE CHOOSE d \in free : \A e \in free : e <= d

ramdisk_attach(s, m) ==
    LET t(d) == PutUnit([s EXCEPT !.ram = d], <<"ram", 0>>, m)
        on(d) == IF s.ram >= 0 \/ m.size = 0 \/ d < 0 THEN s
                 ELSE refresh_disk_kind(PutDisk(t(d), d, [s.disks[d] EXCEPT !.present = TRUE]), d)
    IN  on(ramdisk_find_free_drive(s))

(***************************************************************************)
(* Formatting and partitioning.                                            *)
(***************************************************************************)
\* A change to the medium of the console's drive takes the volume from under it.
Touched(s, d) == [s EXCEPT !.loose = @ \/ (s.con.drive >= 0 /\ ata_drive_backend(s, d) =
                                                               ata_drive_backend(s, s.con.drive))]

\* The partition the table's base belongs to, or the first one.
format_part(s, d) ==
    LET pick(same) == IF same # {} THEN CHOOSE i \in same : \A j \in same : i <= j ELSE 1
        of(m) == IF s.disks[d].base = 0 \/ ~m.aa \/ m.table = <<>> THEN 0
                 ELSE pick({i \in DOMAIN m.table : m.table[i].first = s.disks[d].base})
    IN  of(Medium(s, d))


fscmd_format(s, d, fs) ==
    LET type == CASE fs = "FAT16" -> 6 [] fs = "FAT32" -> 12 [] fs = "XVFS" -> 131
        whole(m) == [PutVol(m, 0, format_at(fs, 0, m.size)) EXCEPT !.aa = TRUE, !.table = <<>>]
        typed(m, i) == IF i = 0 THEN m
                       ELSE [m EXCEPT !.table = ReplaceAt(@, i, [m.table[i] EXCEPT !.type = type])]
        inside(m, i, base, total) == typed(PutVol(m, base, format_at(fs, base, total)), i)
        at(m, i, base, total) ==
            IF base = 0 \/ total = 0 THEN PutMedium(s, d, whole(m))
            ELSE [PutMedium(s, d, inside(m, i, base, total)) EXCEPT !.hurt = @ \/ m.vol[0].fs \in FS]
        left(m, base) == IF m.size > base THEN m.size - base ELSE 0
        on(m, i) == IF i = 0 THEN at(m, i, s.disks[d].base, left(m, s.disks[d].base))
                    ELSE at(m, i, m.table[i].first, m.table[i].sectors)
    IN  IF Medium(s, d).size = 0 THEN Fail(s)
        ELSE [ok |-> TRUE, s |-> Touched(on(Medium(s, d), format_part(s, d)), d)]

\* What lies at the start of the new partition is what was there before, if
\* the files of the old volume have not overwritten it (kept).
dispatch_part(s, d, kept) ==
    LET new(m, start) ==
            [m EXCEPT !.aa = TRUE, !.table = <<[type |-> 131, first |-> start, sectors |-> m.size - start]>>,
                      !.vol = [b \in Bases |-> IF b = start /\ kept THEN m.vol[b] ELSE NoVol]]
        at(m, start) ==
            IF ~m_disk_exists(s, d) \/ m.size = 0 THEN Fail(s)
            ELSE IF m.aa /\ m.table # <<>> THEN Fail(s)
            ELSE IF m.size <= start THEN Fail(s)
            ELSE [ok |-> TRUE, s |-> detect_disks_quick(Touched(PutMedium(s, d, new(m, start)), d))]
    IN  at(Medium(s, d), IF Medium(s, d).size <= 2049 THEN 1 ELSE 2048)

\* The first sector gets the boot code and keeps the partition table, and the
\* second stage goes behind it.
install_write(s, d, sects) ==
    LET new(m) == [m EXCEPT !.aa = TRUE, !.vol = [b \in Bases |-> IF b <= sects THEN NoVol ELSE m.vol[b]]]
        over(t) == IF Medium(s, d).vol[0].fs # "none" THEN Touched(t, d) ELSE t
    IN  over(PutMedium(s, d, new(Medium(s, d))))

\* sects: sectors of the boot file behind its first one.
cmd_install_boot(s, d, sects, force) ==
    LET firsts(table) == {table[i].first : i \in DOMAIN table} \ {0}
        refused(m) ==
            \/ s.con.fs \notin FS \/ ~m_disk_exists(s, d) \/ m.size = 0
            \/ ~force /\ s.disks[d].base = 0 /\ s.disks[d].fs \in FS
            \/ sects = 0 \/ (sects + 1) \div 2 > 127
            \/ ~force /\ firsts(m.table) = {}
            \/ \E f \in firsts(m.table) : sects + 1 > f
    IN  IF refused(Medium(s, d)) THEN Fail(s) ELSE [ok |-> TRUE, s |-> install_write(s, d, sects)]

(***************************************************************************)
(* Copies between disks.  c: file systems and numbers of the two disks.     *)
(***************************************************************************)
\* The first disk of the kind that can be set up, once.  The console's own
\* driver is set up anew with it.
fsbg_auto_mount_if_needed(s, fs) ==
    LET tried(t, i) ==
            IF ~i.ok THEN i.s
            ELSE [i.s EXCEPT !.bg.ready = [f \in FS |-> f = fs \/ t.bg.ready[f]], !.loose = TRUE]
        try(t, d) ==
            IF t.bg.ready[fs] \/ ~t.disks[d].present \/ t.disks[d].fs # fs THEN t
            ELSE tried(t, fs_init(t, fs, d, t.disks[d].base))
    IN  FoldLeft(try, s, [i \in 1 .. MaxDisks |-> i - 1])

fsbg_mounted(s, fs, d, i) ==
    IF ~i.ok THEN Fail(i.s)
    ELSE [ok |-> TRUE, s |-> [i.s EXCEPT !.bg.at = [f \in FS |-> IF f = fs THEN d ELSE s.bg.at[f]], !.loose = TRUE]]

\* (variant) a driver that is set up is taken to be on the right disk.
fsbg_mount_disk_any(s, fs, d) ==
    IF ~s.disks[d].present THEN Fail(s)
    ELSE IF s.bg.at[fs] >= 0 THEN [ok |-> TRUE, s |-> s]
    ELSE fsbg_mounted(s, fs, d, fs_init(s, fs, d, s.disks[d].base))

fsbg_mount_disk(s, fs, d) ==
    IF ~s.disks[d].present THEN Fail(s)
    ELSE IF s.bg.at[fs] = d THEN [ok |-> TRUE, s |-> s]
    ELSE fsbg_mounted(s, fs, d, fs_init(s, fs, d, s.disks[d].base))

fsbg_join_path(base, name) == [ok |-> Len(base) < MaxPath, path |-> Append(base, name)]

fsbg_is_dir_by_fs(s, fs, d, p) ==
    LET look(m) == IF ~m.ok THEN m
                   ELSE IF p # <<>> /\ ~Reaches(m.s, fs) THEN Lost(m.s)
                   ELSE [ok |-> p = <<>> \/ IsDir(FilesOf(m.s, fs), p), s |-> m.s]
    IN  look(fsbg_mount_disk(s, fs, d))

fsbg_mkdir_by_fs(s, fs, d, p) ==
    LET make(m) == IF m.ok THEN drv_mkdir(m.s, fs, p) ELSE m
    IN  make(fsbg_mount_disk(s, fs, d))

\* The source is read before the destination's disk is mounted: with one
\* driver for both there is no reading after that.
fsbg_copy_file_disk(s, c, src, dst) ==
    LET write(b, data) == IF b.ok THEN drv_write(b.s, c.dfs, dst, data) ELSE b
        copy(a, f) == IF Has(f, src) THEN write(fsbg_mount_disk(a.s, c.dfs, c.dd), f[src].data) ELSE Fail(a.s)
        read(a) == IF ~a.ok THEN a
                   ELSE IF ~Reaches(a.s, c.sfs) THEN Lost(a.s)
                   ELSE copy(a, FilesOf(a.s, c.sfs))
    IN  read(fsbg_mount_disk(s, c.sfs, c.sd))

\* The names in a directory, in the order of its entries.
fsbg_list_dir_entries(files, p) ==
    SetToSeq({Last(q) : q \in {x \in DOMAIN files : Front(x) = p}})

RECURSIVE fsbg_copy_dir_recursive(_, _, _, _)
fsbg_copy_dir_recursive(s, c, src, dst) ==
    LET entry(r, n, from, to, isdir) ==
            IF ~r.ok \/ r.s.hurt THEN [r EXCEPT !.ok = FALSE]
            ELSE IF ~from.ok \/ ~to.ok THEN Fail(r.s)
            ELSE IF isdir THEN fsbg_copy_dir_recursive(r.s, c, from.path, to.path)
            ELSE fsbg_copy_file_disk(r.s, c, from.path, to.path)
        entries(a, listed, names) ==
            FoldLeft(LAMBDA r, n : entry(r, n, fsbg_join_path(src, n), fsbg_join_path(dst, n),
                                         listed[Append(src, n)].dir),
                     [ok |-> TRUE, s |-> a.s], names)
        copy(a, listed) == IF IsDir(listed, src) THEN entries(a, listed, fsbg_list_dir_entries(listed, src))
                           ELSE Fail(a.s)
        list(a) == IF ~a.ok THEN a
                   ELSE IF ~Reaches(a.s, c.sfs) THEN Lost(a.s)
                   ELSE copy(a, FilesOf(a.s, c.sfs))
        from_source(there) == IF there.ok THEN list(fsbg_mount_disk(there.s, c.sfs, c.sd)) ELSE there
        at(b, f) == IF Has(f, dst) THEN [ok |-> IsDir(f, dst), s |-> b.s]
                    ELSE fsbg_mkdir_by_fs(b.s, c.dfs, c.dd, dst)
        target(b) == IF ~b.ok THEN b
                     ELSE IF ~Reaches(b.s, c.dfs) THEN Lost(b.s)
                     ELSE at(b, FilesOf(b.s, c.dfs))
    IN  from_source(target(fsbg_mount_disk(s, c.dfs, c.dd)))

fsbg_copy_disk(s, sd, src, dd, dir) ==
    LET to == IF src = <<>> THEN [ok |-> TRUE, path |-> dir] ELSE fsbg_join_path(dir, Last(src))
        copy(c, isdir) ==
            IF isdir.s.hurt THEN isdir
            ELSE IF isdir.ok THEN IF to.ok THEN fsbg_copy_dir_recursive(isdir.s, c, src, to.path) ELSE Fail(isdir.s)
            ELSE IF ~Reaches(isdir.s, c.sfs) THEN Lost(isdir.s)
            ELSE IF ~Has(FilesOf(isdir.s, c.sfs), src) \/ ~to.ok THEN Fail(isdir.s)
            ELSE fsbg_copy_file_disk(isdir.s, c, src, to.path)
        mounted(c) == fsbg_auto_mount_if_needed(fsbg_auto_mount_if_needed(s, c.sfs), c.dfs)
        between(c) == IF {c.sfs, c.dfs} \subseteq FS
                      THEN copy(c, fsbg_is_dir_by_fs(mounted(c), c.sfs, sd, src)) ELSE Fail(s)
    IN  between([sfs |-> s.disks[sd].fs, dfs |-> s.disks[dd].fs, sd |-> sd, dd |-> dd])

(***************************************************************************)
(* Start and commands.                                                     *)
(***************************************************************************)
\* ata_init_all, detect_disks_quick, the RAM disk a boot module brings, and
\* the mount of the last drive.
kernel_main(w) ==
    LET s == [media |-> w.media, ram |-> -1, con |-> NoCon,
              disks |-> [d \in Disks |-> [present |-> FALSE, base |-> 0, fs |-> "None"]],
              drv |-> [f \in FS |-> Nowhere],
              bg |-> [ready |-> [f \in FS |-> FALSE], at |-> [f \in FS |-> -1]],
              loose |-> FALSE, hurt |-> FALSE]
    IN  m_disk(ramdisk_attach(detect_disks_quick(s), w.module), MaxDisks - 1)

NoJob == [pc |-> "idle"]

Init ==
    /\ \E w \in Worlds : st = kernel_main(w)
    /\ scan = MaxDisks
    /\ job = NoJob
    /\ done = [op |-> "none"]
    /\ ops = 0

Command(op, r) ==
    /\ job.pc = "idle"
    /\ ops < MaxOps
    /\ st' = r.s
    /\ done' = [op EXCEPT !.ok = r.ok]
    /\ ops' = ops + 1
    /\ UNCHANGED <<scan, job>>

Done(s) == [ok |-> TRUE, s |-> s]

ramdisk_load_from_path(s, p) ==
    LET load(data) == IF s.ram >= 0 \/ s.con.fs \notin FS \/ data = 0 THEN s
                      ELSE ramdisk_attach(s, IF data = 2 THEN Image ELSE [Image EXCEPT !.aa = FALSE])
    IN  load(fscmd_read_file_by_name(s, p))

\* The first program asks for the drive of the boot line (rd=, none: -1), with
\* the last drive to fall back on, and an image file on it (ramdisk=).
parse_bootcmd ==
    /\ ops = 0
    /\ \E d \in Disks \cup {-1}, p \in Files \cup {<<>>} :
        LET back(t) == IF t.con.fs = "none" THEN m_disk(t, MaxDisks - 1) ELSE t
            image(t) == IF p = <<>> THEN t ELSE ramdisk_load_from_path(t, p)
        IN  Command([op |-> "boot", ok |-> TRUE],
                    Done(IF m_disk_exists(st, d) THEN image(back(m_disk_num(st, d)))
                         ELSE m_disk(st, MaxDisks - 1)))

dispatch_disk == \E d \in Disks : Command([op |-> "disk", ok |-> TRUE], Done(m_disk(st, d)))

dispatch_md == \E p \in Dirs : Command([op |-> "md", ok |-> TRUE], fscmd_mkdir(st, p))

dispatch_cd == \E p \in Dirs : Command([op |-> "cd", ok |-> TRUE], Done(fscmd_cd(st, p)))

dispatch_mkimg ==
    /\ st.con.fs \in FS
    /\ \E p \in Files : Command([op |-> "mkimg", ok |-> TRUE], fscmd_write_file(st, p, 1))

dispatch_format ==
    \E d \in Disks, fs \in FS :
        Command([op |-> "format", d |-> d, fs |-> fs, ok |-> TRUE], fscmd_format(st, d, fs))

Part == \E d \in Disks, kept \in BOOLEAN : Command([op |-> "part", ok |-> TRUE], dispatch_part(st, d, kept))

InstallBoot ==
    \E d \in Disks, sects \in {0, 1, 60, 255}, force \in BOOLEAN :
        Command([op |-> "install", d |-> d, ok |-> TRUE], cmd_install_boot(st, d, sects, force))

dispatch_diskscan == Command([op |-> "diskscan", ok |-> TRUE], Done(detect_disks_quick(st)))

\* The slots are given out anew, in the order in which the sticks are found.
\* A stick behind an xHCI port keeps its device slot, and is not found again.
dispatch_usbscan ==
    \E xhci \in SUBSET (UsbBase .. MaxDisks - 1) :
        LET free == [st EXCEPT !.con = IF @.drive >= UsbBase THEN NoCon ELSE @]
            left == SelectSeq([i \in 1 .. MaxDisks - UsbBase |-> UsbBase + i - 1],
                              LAMBDA d : d \notin xhci /\ st.media[<<"usb", d - UsbBase>>].size > 0)
            found == [u \in Units |-> IF u[1] # "usb" THEN st.media[u]
                                      ELSE IF u[2] < Len(left) THEN st.media[<<"usb", left[u[2] + 1] - UsbBase>>]
                                      ELSE NoMedium]
        IN  Command([op |-> "usbscan", ok |-> TRUE], Done(detect_disks_quick([free EXCEPT !.media = found])))

dispatch_cp ==
    \E sd \in Disks, dd \in Disks, src \in Sources, dir \in Targets :
        Command([op |-> "cp", sd |-> sd, dd |-> dd, src |-> src, dir |-> dir, ok |-> TRUE],
                fsbg_copy_disk(st, sd, src, dd, dir))

(***************************************************************************)
(* cmd_save_ramdisk: mount the destination, write, go back.                *)
(***************************************************************************)
SaveBegin ==
    \E d \in Disks, p \in Files :
        /\ job.pc = "idle" /\ ops < MaxOps
        /\ st.ram >= 0 /\ m_disk_exists(st, d) /\ d # st.ram
        /\ d # st.con.drive \/ st.con.fs \in FS
        /\ job' = [pc |-> IF d # st.con.drive THEN "mount" ELSE "write", d |-> d, path |-> p,
                   con |-> st.con, back |-> d # st.con.drive, sound |-> ~st.loose, ok |-> FALSE]
        /\ done' = [op |-> "svrd"]
        /\ ops' = ops + 1
        /\ UNCHANGED <<st, scan>>

save_back(s) ==
    LET cd(t) == IF t.con.drive = job.con.drive /\ job.con.path # <<>> THEN fscmd_cd(t, job.con.path) ELSE t
    IN  IF job.con.drive < 0 THEN fs_unmount_all(s) ELSE cd(m_disk_num(s, job.con.drive))

SaveMounted(t) ==
    /\ job.pc = "mount"
    /\ IF t.con.drive = job.d /\ t.con.fs # "none"
       THEN st' = t /\ job' = [job EXCEPT !.pc = "write"]
       ELSE st' = save_back(t) /\ job' = NoJob
    /\ UNCHANGED <<scan, done, ops>>

SaveMount == SaveMounted(m_disk_num(st, job.d))

SaveWritten(r) ==
    /\ job.pc = "write"
    /\ st' = r.s
    /\ job' = IF job.back THEN [job EXCEPT !.pc = "back", !.ok = r.ok] ELSE NoJob
    /\ UNCHANGED <<scan, done, ops>>

SaveWrite == SaveWritten(fscmd_write_file(st, job.path, 3))

\* (variant) the drive is mounted again and its root is left as the directory.
save_back_root(s) == IF job.con.drive < 0 THEN fs_unmount_all(s) ELSE m_disk_num(s, job.con.drive)

SaveBack_root ==
    /\ job.pc = "back"
    /\ st' = save_back_root(st)
    /\ job' = NoJob
    /\ UNCHANGED <<scan, done, ops>>

SaveBack ==
    /\ job.pc = "back"
    /\ st' = save_back(st)
    /\ job' = NoJob
    /\ UNCHANGED <<scan, done, ops>>

(***************************************************************************)
(* Sticks come and go, and the work queue looks at the disks again, one    *)
(* drive after the other, between the steps of the console.                *)
(***************************************************************************)
Moved == /\ job' = IF job.pc = "idle" THEN job ELSE [job EXCEPT !.sound = FALSE]
         /\ done' = [op |-> "plug"]
         /\ ops' = ops + 1
         /\ UNCHANGED scan

\* usb_storage_drop_device: the last stick moves into the slot of the one that went.
Unplug ==
    \E d \in Disks :
        LET held == {e \in UsbBase .. MaxDisks - 1 : st.media[<<"usb", e - UsbBase>>].size > 0}
            last == UsbBase + Cardinality(held) - 1
        IN  /\ ops < MaxOps
            /\ d \in held
            /\ st' = [Touched(Touched(st, d), last) EXCEPT !.media =
                        [u \in Units |-> IF u = <<"usb", last - UsbBase>> THEN NoMedium
                                         ELSE IF u = <<"usb", d - UsbBase>> THEN st.media[<<"usb", last - UsbBase>>]
                                         ELSE st.media[u]]]
            /\ Moved

Plug ==
    \E d \in Disks, m \in Sticks :
        /\ ops < MaxOps
        /\ d >= UsbBase /\ \A e \in UsbBase .. d : (st.media[<<"usb", e - UsbBase>>].size = 0) <=> (e = d)
        /\ st' = [Touched(st, d) EXCEPT !.media = [u \in Units |-> IF u = <<"usb", d - UsbBase>> THEN m
                                                                   ELSE st.media[u]]]
        /\ Moved

DetectBegin == scan = MaxDisks /\ scan' = 0 /\ UNCHANGED <<st, job, done, ops>>

DetectDrive ==
    /\ scan < MaxDisks
    /\ st' = detect_disk(st, scan)
    /\ scan' = scan + 1
    /\ UNCHANGED <<job, done, ops>>

Next ==
    \/ parse_bootcmd
    \/ dispatch_disk \/ dispatch_md \/ dispatch_cd \/ dispatch_mkimg
    \/ dispatch_format \/ Part \/ InstallBoot
    \/ dispatch_diskscan \/ dispatch_usbscan \/ dispatch_cp
    \/ SaveBegin \/ SaveMount \/ SaveWrite \/ SaveBack
    \/ Unplug \/ Plug
    \/ DetectBegin \/ DetectDrive

Spec == Init /\ [][Next]_vars

(***************************************************************************)
(* Properties.                                                             *)
(***************************************************************************)
Sound == ~st.hurt

\* FAT16 volumes with few clusters are passed over for another partition.
Accepted(s, d, e) == e.fs = "FAT16" => probe_fat16_pbr(Medium(s, d), e.base)

\* The console's drive, the entry of the table and the driver's own drive and
\* geometry belong together, through failed mounts, svrd and the scans of the
\* work queue (m_disk_num, cmd.c:758), as long as the entry was up to date when
\* the drive was mounted and nobody formats or removes the medium or copies
\* between disks.
MountHolds ==
    st.con.fs \in FS /\ ~st.loose =>
        /\ st.drv[st.con.fs].drive = st.con.drive
        /\ Reaches(st, st.con.fs)
        /\ st.disks[st.con.drive].fs = st.con.fs

FormatStep ==
    (ops' # ops /\ done'.op = "format" /\ done'.ok /\ Fresh(st, done'.d)) =>
        LET d == done'.d
            p == fs_quick_probe(st', d)
            v == Medium(st', d).vol[p.base]
            i == fs_init(st', done'.fs, d, p.base)
            room == IF p.base = 0 THEN Medium(st', d).size ELSE Medium(st', d).table[1].sectors
        IN  /\ p = [kind |-> done'.fs, base |-> st.disks[d].base]
            /\ v.files = <<>> /\ v.last < p.base + room
            /\ i.ok /\ Accepted(st', d, [fs |-> done'.fs, base |-> p.base]) => i.s.drv[done'.fs].geo = v.lay
            /\ \A u \in Units, b \in Bases :
                   st.media[u].size > 0 /\ <<u, b>> # <<ata_drive_backend(st, d), p.base>>
                       => st'.media[u].vol[b] = st.media[u].vol[b]


CachesTrue(fss) == \A fs \in fss : st.bg.at[fs] >= 0 => st.drv[fs].drive = st.bg.at[fs]

CopyStep ==
    (/\ ops' # ops /\ done'.op = "cp" /\ done'.ok
     /\ \A d \in {done'.sd, done'.dd} : Fresh(st, d) /\ Accepted(st, d, st.disks[d])
     /\ CachesTrue({st.disks[done'.sd].fs, st.disks[done'.dd].fs})) =>
        LET at(x) == <<ata_drive_backend(st, x), st.disks[x].base>>
            from == at(done'.sd)
            to == at(done'.dd)
            old == st.media[from[1]].vol[from[2]].files
            new == st'.media[to[1]].vol[to[2]].files
            moved(q) == done'.dir \o SubSeq(q, IF done'.src = <<>> THEN 1 ELSE Len(done'.src), Len(q))
            under == {q \in DOMAIN old : IsPrefix(done'.src, q)}
        IN  /\ \A q \in under : moved(q) \in DOMAIN new /\ new[moved(q)] = old[q]
            /\ \A u \in Units, b \in Bases :
                   st.media[u].size > 0 /\ <<u, b>> # to => st'.media[u].vol[b] = st.media[u].vol[b]
            /\ LET was == st.media[to[1]].vol[to[2]].files
               IN  \A q \in DOMAIN new \ {moved(x) : x \in under} : q \in DOMAIN was /\ new[q] = was[q]

\* "cp -b" that reports success has put the whole tree of the source on the
\* disk that was named, and nothing else anywhere, although the two disks may
\* share one driver that is set up for each of them in turn
\* (fsbg_copy_dir_recursive, fsbg.c:388).
CopyReaches == [][CopyStep]_vars

SaveStep ==
    /\ job.pc \in {"mount", "back"} /\ job'.pc = "idle" /\ job.sound /\ ~st'.hurt => st'.con = job.con
    /\ job.pc = "write" /\ job'.pc # "write" /\ job.sound =>
           \A u \in Units, b \in Bases :
               st.media[u].size > 0 /\ st'.media[u].vol[b] # st.media[u].vol[b]
                   => u = ata_drive_backend(st, job.d) /\ st'.media[u].vol[b].files[job.path].data = 3

\* svrd writes to the drive it was given, and leaves the console on the drive
\* and in the directory it found it, whether or not the destination could be
\* mounted, while the work queue scans the disks (cmd_save_ramdisk, cmd.c:1384).
SaveRestores == [][SaveStep]_vars
=============================================================================
