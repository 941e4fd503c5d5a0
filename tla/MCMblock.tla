------------------------------ MODULE MCMblock -------------------------------
(* TLC instances of Mblock: two ranks, pages of two units, and requests    *)
(* that fit exactly, need alignment, meet a limit inside a block, ask for  *)
(* rank 0, or are too large.                                               *)
EXTENDS Mblock

MCRanks == <<[start |-> 16, size |-> 12], [start |-> 28, size |-> 10]>>

Request(sizes, aligns, limits) ==
  [size : sizes, align : aligns, limit : limits,
   rank : {"RANK0", "RANKMAX"}, mapping : {0}, name : {"short"}]

MCRequests ==
  Request({2}, {0}, {19, 22, 26, 32, 100}) \cup Request({5}, {0, 4}, {26, 100})
    \cup Request({2}, {1}, {100}) \cup Request({13}, {0}, {100})

MCRequests2 ==
  [size : {1, 5, 13}, align : {0, 4}, limit : {19, 30, 100},
   rank : {"RANKMAX"}, mapping : {0, 2}, name : {"short", "too long"}]
=============================================================================
