------------------------------ MODULE MCFat32 ------------------------------
EXTENDS Fat32

N(b) == [key |-> <<b, 0>>, parts |-> 0]
abs(s) == [abs |-> TRUE, comps |-> s]
rel(s) == [abs |-> FALSE, comps |-> s]

A == N("A")
B == N("B")
D == N("D")
E == N("E")
LongName == [key |-> <<"L", -1>>, parts |-> 1]

\* A volume that fills up.
Space == [
    FATSz |-> 2, EntsPerFatSec |-> 4, NumFATs |-> 1, RootEntry |-> EOC,
    SecPerClus |-> 2, EntsPerSec |-> 4, MaxAlias |-> 2,
    FilePaths |-> {rel(<<A>>), abs(<<D, B>>)},
    RmPaths |-> {rel(<<A>>), abs(<<D, B>>), rel(<<D>>)},
    DirPaths |-> {abs(<<D>>)}, CdPaths |-> {rel(<<D>>), rel(<<DotDot>>)},
    Copies |-> {<<abs(<<A>>), abs(<<D>>)>>, <<abs(<<D, B>>), abs(<<A>>)>>},
    Contents |-> {<<>>, <<1>>, <<1, 2, 3>>}, MaxOps |-> 5]

\* Two levels of directories, made and visited by all kinds of paths.
Tree == [
    FATSz |-> 2, EntsPerFatSec |-> 4, NumFATs |-> 1, RootEntry |-> 0,
    SecPerClus |-> 1, EntsPerSec |-> 5, MaxAlias |-> 2,
    FilePaths |-> {rel(<<A>>)}, RmPaths |-> {rel(<<A>>)},
    DirPaths |-> {rel(<<D>>), rel(<<LongName>>), abs(<<D, E>>), rel(<<DotDot, E>>)},
    CdPaths |-> {rel(<<D>>), abs(<<D, E>>), rel(<<E, DotDot>>), rel(<<LongName>>),
                 rel(<<DotDot>>)},
    Copies |-> {}, Contents |-> {<<1>>}, MaxOps |-> 4]

MCVolumes == {Space, Tree}

\* A volume that an operation damaged is not used further.
Sound == ~hurt
View == <<bpb.SecPerClus, vol, cwd, hurt>>
=============================================================================
