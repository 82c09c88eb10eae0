------------------------------- MODULE MCXvfs -------------------------------
EXTENDS Xvfs

abs(s) == [abs |-> TRUE, comps |-> s]
rel(s) == [abs |-> FALSE, comps |-> s]

\* A volume that fills up, of files of one block.
Space == [
    total_blocks |-> 6, Bits |-> 6, data_start |-> 1, MaxFiles |-> 4,
    FilePaths |-> {rel(<<"A">>), abs(<<"D", "A">>), abs(<<"B">>)},
    DirPaths |-> {rel(<<"D">>), rel(<<"..">>)},
    Copies |-> {<<abs(<<"B">>), abs(<<"D", "A">>)>>, <<rel(<<"A">>), rel(<<"A">>)>>,
                <<rel(<<"A">>), abs(<<"B">>)>>},
    Contents |-> {<<>>, <<1>>}, MaxOps |-> 5]

\* Files of several blocks.
Long == [
    total_blocks |-> 12, Bits |-> 12, data_start |-> 1, MaxFiles |-> 4,
    FilePaths |-> {rel(<<"A">>), rel(<<"B">>)}, DirPaths |-> {}, Copies |-> {},
    Contents |-> {<<1>>, <<1, 2, 3>>}, MaxOps |-> 5]

MCVolumes == {Space, Long}

\* A volume that an operation damaged is not used further, but for long
\* files, whose readers are compared.
Sound == hurt => sb = Long
View == <<vol, free_blocks, cwd, hurt>>
=============================================================================
