-------------------------------- MODULE VaFs --------------------------------
(***************************************************************************)
(* The file system of the module (src/kern/fs/va_fs.c).                    *)
(*                                                                         *)
(* Parts of the module register files by name whether or not the file      *)
(* system is mounted; a mount makes an entry of each file known so far, a  *)
(* file registered later is added to the mounted tree, and a file that     *)
(* leaves is taken out of it.  All mounts share one super block, which     *)
(* dies with the last of them and takes its entries with it: what          *)
(* pstDentry then still pointed to would be freed.                         *)
(*                                                                         *)
(* A mount holds s_umount from sget to its return and kill_sb runs under   *)
(* it, so that a mount sees the super block of another whole or not at     *)
(* all; the rest is under stMutex.  Each operation is one action.          *)
(***************************************************************************)
EXTENDS Naturals

CONSTANTS
  File,      (* the VA_FS_FILE_S of the module                             *)
  MaxMount,  (* bound: mounts at a time                                    *)
  Short      (* bound: those there may be no memory for an entry of        *)

ASSUME BoundAssumption == MaxMount \in Nat /\ Short \subseteq File

VARIABLES
  fileHead,  (* stFileHead: the registered files                           *)
  mounts,    (* mounts of the super block; pstSb is NULL when there is none *)
  tree,      (* the names in its root directory                            *)
  dentry,    (* the files whose pstDentry is not NULL                      *)
  noMem      (* the files no entry could be made of, since the mount       *)

fsVars == << fileHead, mounts, tree, dentry, noMem >>

FsInit == fileHead = {} /\ mounts = 0 /\ tree = {} /\ dentry = {} /\ noMem = {}

Mounted == mounts > 0

(* VA_FS_AddFile for each of a set of files.  Memory may be short for one  *)
(* of them: the files behind it in the list are not tried either.          *)
AddFiles(F) ==
  \E Missed \in SUBSET (F \cap Short) :
    /\ tree' = tree \cup (F \ Missed)
    /\ dentry' = dentry \cup (F \ Missed)
    /\ noMem' = (noMem \ F) \cup Missed

RegFile(f) ==
  /\ f \notin fileHead
  /\ \/ Mounted /\ AddFiles({f}) /\ fileHead' = fileHead \cup ({f} \ noMem')
     \/ /\ ~Mounted /\ fileHead' = fileHead \cup {f} /\ dentry' = dentry \ {f}
        /\ UNCHANGED << tree, noMem >>
  /\ UNCHANGED mounts

(* list_del follows the pointers of a node that no list_add has set when   *)
(* the file is not registered, for lack of memory: it faults.              *)
UnRegFaults(f) == f \notin fileHead

UnRegFile(f) ==
  /\ fileHead' = fileHead \ {f}
  /\ tree' = IF Mounted /\ f \in dentry THEN tree \ {f} ELSE tree
  /\ dentry' = IF Mounted THEN dentry \ {f} ELSE dentry
  /\ noMem' = noMem \ {f}
  /\ UNCHANGED mounts

(* VA_FS_GetSb: the first mount makes the super block and its root, what   *)
(* AddFiles returns is dropped, and a later mount gets the same root.      *)
Mount ==
  /\ mounts < MaxMount /\ mounts' = mounts + 1
  /\ IF Mounted THEN UNCHANGED << tree, dentry, noMem >> ELSE AddFiles(fileHead)
  /\ UNCHANGED fileHead

(* VA_FS_ClearFile.  Mutant: KillSb leaves the pointers.                   *)
NotCleared == dentry
Cleared == dentry \ fileHead

(* The last umount: VA_FS_KillSb.                                          *)
Umount ==
  /\ Mounted /\ mounts' = mounts - 1
  /\ IF mounts = 1
     THEN tree' = {} /\ dentry' = Cleared /\ noMem' = {}
     ELSE UNCHANGED << tree, dentry, noMem >>
  /\ UNCHANGED fileHead

FsNext ==
  \/ \E f \in File : RegFile(f)
  \/ \E f \in File : ~UnRegFaults(f) /\ UnRegFile(f)
  \/ Mount
  \/ Umount

(* The file system alone, whoever registers files.                         *)
FsSpec == FsInit /\ [][FsNext]_fsVars

-----------------------------------------------------------------------------
FsTypeOK ==
  /\ fileHead \subseteq File /\ tree \subseteq File /\ dentry \subseteq File /\ noMem \subseteq File
  /\ mounts \in 0 .. MaxMount

(* The mounted directory holds exactly the registered files, but those     *)
(* there was no memory for, and a file points to an entry exactly while it *)
(* is there: whatever is registered, taken back, mounted and unmounted in  *)
(* whatever order, no name leads to a file that left and no pointer to an  *)
(* entry that died with its super block.                                   *)
FilesShown ==
  /\ tree = IF Mounted THEN fileHead \ noMem ELSE {}
  /\ dentry = tree
=============================================================================
