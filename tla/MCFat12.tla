------------------------------ MODULE MCFat12 ------------------------------
EXTENDS Fat12

\* Both ends of the disk, and entries 341 and 682, which lie in two sectors of
\* the table.
MCClusters == {2, 3, 341, 682, 2848}

\* Every file of up to three of these clusters, with entries around it that
\* are free or taken, and either of the marks at the ends of their range.
MCDisksWith(slots) ==
    [slot : slots,
     chain : {c \in UNION {[1..l -> MCClusters] : l \in 1..3} :
                \A i, j \in DOMAIN c : c[i] = c[j] => i = j},
     end : {4088, 4095},
     rest : {0, 4095}]

\* The first sector of the root directory, and the start of the next.
MCDisks == MCDisksWith({0, 15, 16, Absent})
=============================================================================
