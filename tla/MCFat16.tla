------------------------------ MODULE MCFat16 ------------------------------
EXTENDS Fat16

N(b, k, p) == [key |-> <<b, k>>, parts |-> p]
abs(s) == [abs |-> TRUE, comps |-> s]
rel(s) == [abs |-> FALSE, comps |-> s]

A == N("A", 0, 0)
B == N("B", 0, 0)
D == N("D", 0, 0)

\* A volume that fills up, with directories that grow.
Space == [
    Total |-> 7, SecPerClus |-> 2, EntsPerClus |-> 3, RootEntCnt |-> 2, MaxAlias |-> 2,
    FilePaths |-> {rel(<<A>>), abs(<<D, A>>), abs(<<D, B>>)},
    RmPaths |-> {rel(<<A>>), abs(<<D, A>>), abs(<<D, B>>), rel(<<D>>)},
    DirPaths |-> {rel(<<D>>), rel(<<DotDot>>)},
    Copies |-> {<<abs(<<A>>), abs(<<D>>)>>},
    Contents |-> {<<>>, <<1, 2, 3>>}, MaxOps |-> 5]

\* Two long names of one base, a lower-case 8.3 name and an alias.
LfnFiles == {rel(<<N("L", -1, 2)>>), rel(<<N("L", -2, 2)>>),
             rel(<<N("L", 0, 1)>>), rel(<<N("L", 1, 0)>>)}
Names == [
    Total |-> 6, SecPerClus |-> 1, EntsPerClus |-> 14, RootEntCnt |-> 8, MaxAlias |-> 2,
    FilePaths |-> LfnFiles, RmPaths |-> LfnFiles,
    DirPaths |-> {rel(<<N("L", -2, 2)>>), rel(<<Dot>>)},
    Copies |-> {<<rel(<<N("L", -1, 2)>>), rel(<<N("L", 1, 0)>>)>>},
    Contents |-> {<<1>>}, MaxOps |-> 4]

MCVolumes == {Space, Names}

\* A volume that an operation damaged is not used further.
Sound == ~hurt
View == <<vol, cwd, hurt>>
=============================================================================
