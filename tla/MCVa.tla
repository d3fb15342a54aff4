-------------------------------- MODULE MCVa --------------------------------
(* An instance of VaCore: eleven parts (venc is like vdec, cfg like cp), a *)
(* channel of the board and one of a node, that two threads bind two files *)
(* to.                                                                     *)
EXTENDS VaCore, TLC

MCMods == {"vafs", "mt", "board", "board_xxx", "fdd", "cp", "vkchan",
           "chan", "vdec", "vnchan", "mt_ktest"}
MCFile == {"mt_ca", "mt_ua", "cp", "vchan", "cfg"}
MCShort == {"cp"}
MCChanDev == {"vdec", "venc"}
MCDevOf == [c \in Chan \ NodeChan |-> "vdec"]
MCSymmetry == Permutations(Fd) \cup Permutations(Thread)
=============================================================================
