----------------------------- MODULE MCStorage -----------------------------
EXTENDS Storage

MCFiles == {<<3>>}
MCDirs == {<<2>>}
MCSources == {<<1>>, <<2>>}
MCTargets == {<<>>, <<2>>}
MCPata == {0}

Dir == [dir |-> TRUE, data |-> 0]
File(n) == [dir |-> FALSE, data |-> n]
Tree == [p \in {<<1>>, <<2>>, <<2, 4>>, <<2, 5>>} |->
            IF p = <<1>> THEN File(1) ELSE IF p = <<2, 5>> THEN File(2) ELSE Dir]
Booted == [p \in {<<2>>, <<3>>} |-> IF p = <<3>> THEN File(2) ELSE Dir]

Blank(n) == [size |-> n, aa |-> FALSE, table |-> <<>>, vol |-> [b \in Bases |-> NoVol]]
Floppy(n, fs, files) == [PutVol(Blank(n), 0, [format_at(fs, 0, n) EXCEPT !.files = files]) EXCEPT !.aa = TRUE]
Parted(n, fs, files) ==
    [PutVol(Blank(n), 2048, [format_at(fs, 2048, n - 2048) EXCEPT !.files = files])
     EXCEPT !.aa = TRUE, !.table = <<[type |-> 131, first |-> 2048, sectors |-> n - 2048]>>]
\* A small first partition that is not formatted and a FAT16 one behind it.
TwoParts ==
    [PutVol(Blank(22048), 2048, [format_at("FAT16", 2048, 20000) EXCEPT !.files = Booted])
     EXCEPT !.aa = TRUE, !.table = <<[type |-> 131, first |-> 1, sectors |-> 2047],
                                     [type |-> 6, first |-> 2048, sectors |-> 20000]>>]

MCImage == Floppy(18000, "FAT16", Booted)

World(a, p, u, m) ==
    [module |-> m,
     media |-> [x \in Units |-> CASE x = <<"ahci", 0>> -> a [] x = <<"pata", 0>> -> p
                                  [] x = <<"usb", 0>> -> u [] OTHER -> NoMedium]]

MCWorlds == {World(Floppy(20000, "FAT16", Tree), TwoParts, Parted(70000, "FAT32", Booted), MCImage),
             World(Parted(24000, "FAT16", Booted), Blank(2000), Floppy(3000, "XVFS", Tree), NoMedium)}
MCSticks == {Floppy(20000, "FAT16", Booted), Parted(5000, "XVFS", <<>>)}

View == <<st, scan, job>>
=============================================================================
