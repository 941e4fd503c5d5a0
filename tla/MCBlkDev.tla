---- MODULE MCBlkDev ----
\* BlkDev for TLC: three blocks of four: a range may have a head, a middle
\* and a tail, miss any of them, or begin and end inside one block.
EXTENDS BlkDev
====
