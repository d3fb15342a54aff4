---------------------------- MODULE VaCoreProofs ----------------------------
(***************************************************************************)
(* Loading and unloading, for any parts that include those the others      *)
(* cannot do without, in every link order, wherever a load fails, with     *)
(* programs that mount the file system and bind files to channels          *)
(* meanwhile:                                                              *)
(*   - the mounted directory and the registered files agree;               *)
(*   - the parts and their calls: at every moment what is made is told by  *)
(*     how far the list has been walked (LoadInv), and with it what a call *)
(*     uses is there, and nothing is left in the end;                      *)
(*   - devices and drivers: each pair is started once;                     *)
(*   - channels: the references are those of the table, the files, the     *)
(*     binds and the deletion, and what crossing binds have lost (RefInv). *)
(***************************************************************************)
EXTENDS VaCore, FiniteSetTheorems, SequenceTheorems, WellFoundedInduction, TLAPS

-----------------------------------------------------------------------------
(* The file system.                                                        *)

(* What of the file system is inductive without knowing which names the    *)
(* parts use.                                                              *)
Agree == mounts \in Nat /\ FilesShown /\ (mounts = 0 => noMem = {})

LEMMA AgreeInit == FsInit => Agree
  BY DEF FsInit, Agree, FilesShown, Mounted

LEMMA RegFileAgrees ==
  ASSUME Agree, NEW f, RegFile(f)
  PROVE  Agree'
<1> USE DEF Agree, FilesShown, Mounted
<1>1. CASE mounts > 0
  <2>1. PICK Missed \in SUBSET {f} :
          /\ tree' = tree \cup ({f} \ Missed)
          /\ dentry' = dentry \cup ({f} \ Missed)
          /\ noMem' = (noMem \ {f}) \cup Missed
    BY <1>1 DEF RegFile, AddFiles
  <2> QED
    BY <1>1, <2>1 DEF RegFile
<1>2. CASE ~(mounts > 0)
  BY <1>2 DEF RegFile
<1> QED
  BY <1>1, <1>2

LEMMA UnRegFileAgrees ==
  ASSUME Agree, NEW f, UnRegFile(f)
  PROVE  Agree'
  BY DEF Agree, FilesShown, Mounted, UnRegFile

LEMMA MountAgrees ==
  ASSUME Agree, Mount
  PROVE  Agree'
<1> USE DEF Agree, FilesShown, Mounted
<1>1. CASE mounts > 0
  BY <1>1 DEF Mount
<1>2. CASE ~(mounts > 0)
  <2>1. PICK Missed \in SUBSET fileHead :
          /\ tree' = tree \cup (fileHead \ Missed)
          /\ dentry' = dentry \cup (fileHead \ Missed)
          /\ noMem' = (noMem \ fileHead) \cup Missed
    BY <1>2 DEF Mount, AddFiles
  <2> QED
    BY <1>2, <2>1 DEF Mount
<1> QED
  BY <1>1, <1>2

LEMMA UmountAgrees ==
  ASSUME Agree, Umount
  PROVE  Agree'
<1> USE DEF Agree, FilesShown, Mounted
<1>1. CASE mounts = 1
  BY <1>1 DEF Umount, Cleared
<1>2. CASE mounts # 1
  BY <1>2 DEF Umount
<1> QED
  BY <1>1, <1>2

LEMMA StillAgrees ==
  ASSUME Agree, UNCHANGED fsVars
  PROVE  Agree'
  BY DEF Agree, FilesShown, Mounted, fsVars

(* Whatever is registered, taken back, mounted and unmounted, in any order *)
(* and wherever memory is short, the mounted directory (va_fs.c) holds the *)
(* registered files but those there was no memory for, and nothing else.   *)
THEOREM AlwaysShown == FsSpec => []FilesShown
<1>1. Agree /\ [FsNext]_fsVars => Agree'
  BY RegFileAgrees, UnRegFileAgrees, MountAgrees, UmountAgrees, StillAgrees DEF FsNext
<1>2. Agree => FilesShown
  BY DEF Agree
<1> QED
  BY AgreeInit, <1>1, <1>2, PTL DEF FsSpec

(* A part registers or takes back a file; no other call of a part, nor     *)
(* what stands between the parts, touches the file system.                 *)
LEMMA LoadAgrees ==
  ASSUME Agree, Load
  PROVE  Agree'
<1>1. CASE RegName
  BY <1>1, RegFileAgrees DEF RegName
<1>2. CASE UnRegName
  <2>1. CASE UnRegFaults(Call.name)
    BY <1>2, <2>1, StillAgrees DEF UnRegName, fsVars
  <2>2. CASE ~UnRegFaults(Call.name)
    BY <1>2, <2>2, UnRegFileAgrees DEF UnRegName
  <2> QED
    BY <2>1, <2>2
<1>3. CASE ~RegName /\ ~UnRegName
  <2>1. CASE \E m \in Mods : RegMod(m)
    BY <2>1, StillAgrees DEF RegMod
  <2>2. CASE InitMods \/ InitFails \/ InitNext \/ Unload \/ ExitNext
    BY <2>2, StillAgrees DEF InitMods, InitFails, InitNext, Unload, ExitNext
  <2>3. CASE RegDrv \/ UnRegDrv \/ RegDev \/ UnRegDev \/ DestroyTbl
    BY <2>3, StillAgrees DEF RegDrv, UnRegDrv, RegDev, UnRegDev, DestroyTbl
  <2>4. CASE Make \/ TakeBack
    BY <2>4, StillAgrees DEF Make, TakeBack
  <2> QED
    BY <1>3, <2>1, <2>2, <2>3, <2>4 DEF Load
<1> QED
  BY <1>1, <1>2, <1>3

LEMMA ProgramsAgree ==
  ASSUME Agree, Programs
  PROVE  Agree'
<1>1. CASE Mount
  BY <1>1, MountAgrees
<1>2. CASE Umount
  BY <1>2, UmountAgrees
<1>3. CASE UNCHANGED fsVars
  BY <1>3, StillAgrees
<1> QED
  BY <1>1, <1>2, <1>3 DEF Programs

(* While the parts of the module come and go (VA_InitMods, VA_ModsExit in  *)
(* va.c) and programs mount and open, the mounted directory (va_fs.c) has  *)
(* the registered files but those there was no memory for, and a file      *)
(* points to an entry only while it is there.                              *)
THEOREM ShownWhileLoading == Spec => []FilesShown
<1>1. Agree /\ [Next]_vars => Agree'
  <2> SUFFICES ASSUME Agree, [Next]_vars PROVE Agree'
    OBVIOUS
  <2>1. CASE Load
    BY <2>1, LoadAgrees
  <2>2. CASE Programs
    BY <2>2, ProgramsAgree
  <2>3. CASE UNCHANGED vars
    BY <2>3, StillAgrees DEF vars
  <2> QED
    BY <2>1, <2>2, <2>3 DEF Next
<1>2. Agree => FilesShown
  BY DEF Agree
<1>3. Init => Agree
  BY AgreeInit DEF Init
<1> QED
  BY <1>1, <1>2, <1>3, PTL DEF Spec

-----------------------------------------------------------------------------
(* The parts and their calls.                                              *)

(* A call by what it makes, and all that is made.                          *)
Thing(c) == << c.kind, c.name >>
Things == UNION {{Thing(Part[m].init[i]) : i \in 1 .. Len(Part[m].init)} : m \in DOMAIN Level}

(* The part that makes a thing, and the places of its calls in the init    *)
(* and in the exit of that part.                                           *)
Owner(x) ==
  CASE x[1] = "fstype" -> "vafs"
    [] x[1] = "root" \/ x[2] \in {"mt_ca", "mt_ua"} -> "mt"
    [] x[1] = "dev" -> "board_xxx"
    [] x = << "drv", "mem" >> -> "fdd"
    [] x[2] = "vchan" -> "vkchan"
    [] x \in {<< "type", "net" >>, << "drv", "net" >>, << "io", "vn" >>, << "notify", "vn" >>} -> "vnchan"
    [] OTHER -> x[2]

InitPos(x) ==
  CASE x \in {<< "file", "mt_ca" >>, << "dev", "mem" >>, << "inst", "fdd" >>, << "mt", "chan" >>,
              << "drv", "vdec" >>, << "drv", "venc" >>, << "drv", "net" >>} -> 2
    [] x \in {<< "file", "mt_ua" >>, << "dev", "vdec" >>, << "mt", "fdd" >>, << "io", "vn" >>} -> 3
    [] x \in {<< "dev", "venc" >>, << "notify", "vn" >>} -> 4
    [] x = << "dev", "net" >> -> 5
    [] OTHER -> 1

ExitPos(x) ==
  CASE x \in {<< "file", "mt_ca" >>, << "dev", "vdec" >>, << "inst", "fdd" >>, << "mt", "chan" >>, << "io", "vn" >>} -> 2
    [] x \in {<< "root", "mt" >>, << "dev", "venc" >>, << "drv", "mem" >>, << "drv", "net" >>} -> 3
    [] x = << "dev", "net" >> -> 4
    [] x = << "dev", "board" >> -> 5
    [] OTHER -> 1

CallSet ==
  [do : {"add", "del"}, kind : Kinds \cup {"file", "dev", "drv"},
   name : {"vafs", "mt", "fdd", "vn", "mt_ca", "mt_ua", "cp", "vchan", "cfg",
           "board", "mem", "vdec", "venc", "net", "chan", "mt_ktest"}]
(* What of the levels the calls rely on.                                   *)
Placed(x) ==
  /\ x[1] = "file" => Owner(x) \in {"mt", "cp", "vkchan", "cfg"}
  /\ x[1] = "mt" => Owner(x) \in {"fdd", "chan", "mt_ktest"}
  /\ x[1] = "dev" => Owner(x) = "board_xxx"
  /\ x[1] = "type" => Owner(x) \in {"vdec", "venc", "vnchan"} /\ InitPos(x) = 1
  /\ x[1] = "drv" /\ x[2] \in {"vdec", "venc", "net"} => Owner(x) \in {"vdec", "venc", "vnchan"} /\ InitPos(x) = 2
  /\ x[1] = "inst" => Owner(x) = "fdd" /\ InitPos(x) = 2
  /\ x[1] \in {"fstype", "root"} => Owner(x) \in {"vafs", "mt"} /\ InitPos(x) = 1

(* The tables agree with the parts, and an exit takes back what the init   *)
(* made, but for types.                                                    *)
AddFits(c, m, i) ==
  c \in CallSet /\ c.do = "add" /\ Owner(Thing(c)) = m /\ InitPos(Thing(c)) = i /\ Placed(Thing(c))
DelFits(c, m, i) ==
  c \in CallSet /\ c.do = "del" /\ ExitPos(Thing(c)) = i /\ c.kind # "type"
PartFits(m) ==
  /\ Part[m].init \in Seq(CallSet) /\ \A i \in 1 .. Len(Part[m].init) : AddFits(Part[m].init[i], m, i)
  /\ Part[m].exit \in Seq(CallSet) /\ \A i \in 1 .. Len(Part[m].exit) : DelFits(Part[m].exit[i], m, i)
UndoFits(m) ==
  /\ \A i \in 1 .. Len(Part[m].init) : Part[m].init[i].kind # "type" =>
       \E j \in 1 .. Len(Part[m].exit) : Thing(Part[m].exit[j]) = Thing(Part[m].init[i])
  /\ \A j \in 1 .. Len(Part[m].exit) :
       \E i \in 1 .. Len(Part[m].init) : Thing(Part[m].exit[j]) = Thing(Part[m].init[i])

(* Inits and exits of a single call.                                       *)
LEMMA OneAdd ==
  ASSUME NEW m, NEW s, NEW c, s = << c >>, AddFits(c, m, 1)
  PROVE  s \in Seq(CallSet) /\ \A i \in 1 .. Len(s) : AddFits(s[i], m, i)
<1>1. (\A i \in 1 .. Len(s) : i = 1) /\ s[1] = c
  OBVIOUS
<1>2. c \in CallSet
  BY DEF AddFits
<1>3. s \in Seq(CallSet)
  BY <1>2
<1> QED
  BY <1>1, <1>3

LEMMA OneDel ==
  ASSUME NEW m, NEW s, NEW c, s = << c >>, DelFits(c, m, 1)
  PROVE  s \in Seq(CallSet) /\ \A i \in 1 .. Len(s) : DelFits(s[i], m, i)
<1>1. (\A i \in 1 .. Len(s) : i = 1) /\ s[1] = c
  OBVIOUS
<1>2. c \in CallSet
  BY DEF DelFits
<1>3. s \in Seq(CallSet)
  BY <1>2
<1> QED
  BY <1>1, <1>3

(* One part after the other.                                               *)
LEMMA PartsFit == \A m \in DOMAIN Level : PartFits(m) /\ UndoFits(m)
<1>1. PartFits("vafs") /\ UndoFits("vafs")
  <2>1. /\ Part["vafs"].init = << Add("fstype", "vafs") >>
        /\ Part["vafs"].exit = << Del("fstype", "vafs") >>
    BY DEF Part, FsMod
  <2>2. AddFits(Add("fstype", "vafs"), "vafs", 1)
    BY DEF AddFits, Add, Thing, Owner, InitPos, CallSet, Kinds, Placed
  <2>3. DelFits(Del("fstype", "vafs"), "vafs", 1)
    BY DEF DelFits, Del, Thing, ExitPos, CallSet, Kinds
  <2>4. PartFits("vafs")
    BY <2>1, <2>2, <2>3, OneAdd, OneDel DEF PartFits
  <2>5. UndoFits("vafs")
    BY <2>1 DEF UndoFits, Add, Del, Thing
  <2> QED
    BY <2>4, <2>5
<1>2. PartFits("mt") /\ UndoFits("mt")
  <2>1. /\ Part["mt"].init = << Add("root", "mt"), Add("file", "mt_ca"), Add("file", "mt_ua") >>
        /\ Part["mt"].exit = << Del("file", "mt_ua"), Del("file", "mt_ca"), Del("root", "mt") >>
    BY DEF Part, MtMod
  <2>2. AddFits(Add("root", "mt"), "mt", 1) /\ AddFits(Add("file", "mt_ca"), "mt", 2)
    BY DEF AddFits, Add, Thing, Owner, InitPos, CallSet, Kinds, Placed
  <2>3. AddFits(Add("file", "mt_ua"), "mt", 3)
    BY DEF AddFits, Add, Thing, Owner, InitPos, CallSet, Kinds, Placed
  <2>4. DelFits(Del("file", "mt_ua"), "mt", 1) /\ DelFits(Del("file", "mt_ca"), "mt", 2)
    BY DEF DelFits, Del, Thing, ExitPos, CallSet, Kinds
  <2>5. DelFits(Del("root", "mt"), "mt", 3)
    BY DEF DelFits, Del, Thing, ExitPos, CallSet, Kinds
  <2>6. Part["mt"].init \in Seq(CallSet)
    BY <2>1, <2>2, <2>3 DEF AddFits
  <2>7. \A i \in 1 .. Len(Part["mt"].init) : AddFits(Part["mt"].init[i], "mt", i)
    BY <2>1, <2>2, <2>3
  <2>8. Part["mt"].exit \in Seq(CallSet)
    BY <2>1, <2>4, <2>5 DEF DelFits
  <2>9. \A i \in 1 .. Len(Part["mt"].exit) : DelFits(Part["mt"].exit[i], "mt", i)
    BY <2>1, <2>4, <2>5
  <2>10. PartFits("mt")
    BY <2>6, <2>7, <2>8, <2>9 DEF PartFits
  <2>11. UndoFits("mt")
    BY <2>1 DEF UndoFits, Add, Del, Thing
  <2> QED
    BY <2>10, <2>11
<1>3. PartFits("board") /\ UndoFits("board")
  <2>1. /\ Part["board"].init = << Add("drv", "board") >>
        /\ Part["board"].exit = << Del("drv", "board") >>
    BY DEF Part, BoardMod
  <2>2. AddFits(Add("drv", "board"), "board", 1)
    BY DEF AddFits, Add, Thing, Owner, InitPos, CallSet, Kinds, Placed
  <2>3. DelFits(Del("drv", "board"), "board", 1)
    BY DEF DelFits, Del, Thing, ExitPos, CallSet, Kinds
  <2>4. PartFits("board")
    BY <2>1, <2>2, <2>3, OneAdd, OneDel DEF PartFits
  <2>5. UndoFits("board")
    BY <2>1 DEF UndoFits, Add, Del, Thing
  <2> QED
    BY <2>4, <2>5
<1>4. PartFits("board_xxx") /\ UndoFits("board_xxx")
  <2>1. /\ Part["board_xxx"].init = << Add("dev", "board"), Add("dev", "mem"),
                                       Add("dev", "vdec"), Add("dev", "venc"), Add("dev", "net") >>
        /\ Part["board_xxx"].exit = << Del("dev", "mem"), Del("dev", "vdec"),
                                       Del("dev", "venc"), Del("dev", "net"), Del("dev", "board") >>
    BY DEF Part, BoardXxxMod
  <2>2. AddFits(Add("dev", "board"), "board_xxx", 1)
    BY DEF AddFits, Add, Thing, Owner, InitPos, CallSet, Kinds, Placed
  <2>3. AddFits(Add("dev", "mem"), "board_xxx", 2)
    BY DEF AddFits, Add, Thing, Owner, InitPos, CallSet, Kinds, Placed
  <2>4. AddFits(Add("dev", "vdec"), "board_xxx", 3)
    BY DEF AddFits, Add, Thing, Owner, InitPos, CallSet, Kinds, Placed
  <2>5. AddFits(Add("dev", "venc"), "board_xxx", 4)
    BY DEF AddFits, Add, Thing, Owner, InitPos, CallSet, Kinds, Placed
  <2>6. AddFits(Add("dev", "net"), "board_xxx", 5)
    BY DEF AddFits, Add, Thing, Owner, InitPos, CallSet, Kinds, Placed
  <2>7. DelFits(Del("dev", "mem"), "board_xxx", 1)
    BY DEF DelFits, Del, Thing, ExitPos, CallSet, Kinds
  <2>8. DelFits(Del("dev", "vdec"), "board_xxx", 2)
    BY DEF DelFits, Del, Thing, ExitPos, CallSet, Kinds
  <2>9. DelFits(Del("dev", "venc"), "board_xxx", 3)
    BY DEF DelFits, Del, Thing, ExitPos, CallSet, Kinds
  <2>10. DelFits(Del("dev", "net"), "board_xxx", 4)
    BY DEF DelFits, Del, Thing, ExitPos, CallSet, Kinds
  <2>11. DelFits(Del("dev", "board"), "board_xxx", 5)
    BY DEF DelFits, Del, Thing, ExitPos, CallSet, Kinds
  <2>12. Part["board_xxx"].init \in Seq(CallSet)
    BY <2>1, <2>2, <2>3, <2>4, <2>5, <2>6 DEF AddFits
  <2>13. \A i \in 1 .. Len(Part["board_xxx"].init) : AddFits(Part["board_xxx"].init[i], "board_xxx", i)
    BY <2>1, <2>2, <2>3, <2>4, <2>5, <2>6
  <2>14. Part["board_xxx"].exit \in Seq(CallSet)
    BY <2>1, <2>7, <2>8, <2>9, <2>10, <2>11 DEF DelFits
  <2>15. \A i \in 1 .. Len(Part["board_xxx"].exit) : DelFits(Part["board_xxx"].exit[i], "board_xxx", i)
    BY <2>1, <2>7, <2>8, <2>9, <2>10, <2>11
  <2>16. PartFits("board_xxx")
    BY <2>12, <2>13, <2>14, <2>15 DEF PartFits
  <2>17. UndoFits("board_xxx")
    BY <2>1 DEF UndoFits, Add, Del, Thing
  <2> QED
    BY <2>16, <2>17
<1>5. PartFits("fdd") /\ UndoFits("fdd")
  <2>1. /\ Part["fdd"].init = << Add("drv", "mem"), Add("inst", "fdd"), Add("mt", "fdd") >>
        /\ Part["fdd"].exit = << Del("mt", "fdd"), Del("inst", "fdd"), Del("drv", "mem") >>
    BY DEF Part, FddMod
  <2>2. AddFits(Add("drv", "mem"), "fdd", 1) /\ AddFits(Add("inst", "fdd"), "fdd", 2)
    BY DEF AddFits, Add, Thing, Owner, InitPos, CallSet, Kinds, Placed
  <2>3. AddFits(Add("mt", "fdd"), "fdd", 3)
    BY DEF AddFits, Add, Thing, Owner, InitPos, CallSet, Kinds, Placed
  <2>4. DelFits(Del("mt", "fdd"), "fdd", 1) /\ DelFits(Del("inst", "fdd"), "fdd", 2)
    BY DEF DelFits, Del, Thing, ExitPos, CallSet, Kinds
  <2>5. DelFits(Del("drv", "mem"), "fdd", 3)
    BY DEF DelFits, Del, Thing, ExitPos, CallSet, Kinds
  <2>6. Part["fdd"].init \in Seq(CallSet)
    BY <2>1, <2>2, <2>3 DEF AddFits
  <2>7. \A i \in 1 .. Len(Part["fdd"].init) : AddFits(Part["fdd"].init[i], "fdd", i)
    BY <2>1, <2>2, <2>3
  <2>8. Part["fdd"].exit \in Seq(CallSet)
    BY <2>1, <2>4, <2>5 DEF DelFits
  <2>9. \A i \in 1 .. Len(Part["fdd"].exit) : DelFits(Part["fdd"].exit[i], "fdd", i)
    BY <2>1, <2>4, <2>5
  <2>10. PartFits("fdd")
    BY <2>6, <2>7, <2>8, <2>9 DEF PartFits
  <2>11. UndoFits("fdd")
    BY <2>1 DEF UndoFits, Add, Del, Thing
  <2> QED
    BY <2>10, <2>11
<1>6. PartFits("cp") /\ UndoFits("cp")
  <2>1. /\ Part["cp"].init = << Add("file", "cp") >>
        /\ Part["cp"].exit = << Del("file", "cp") >>
    BY DEF Part, CpMod
  <2>2. AddFits(Add("file", "cp"), "cp", 1)
    BY DEF AddFits, Add, Thing, Owner, InitPos, CallSet, Kinds, Placed
  <2>3. DelFits(Del("file", "cp"), "cp", 1)
    BY DEF DelFits, Del, Thing, ExitPos, CallSet, Kinds
  <2>4. PartFits("cp")
    BY <2>1, <2>2, <2>3, OneAdd, OneDel DEF PartFits
  <2>5. UndoFits("cp")
    BY <2>1 DEF UndoFits, Add, Del, Thing
  <2> QED
    BY <2>4, <2>5
<1>7. PartFits("vkchan") /\ UndoFits("vkchan")
  <2>1. /\ Part["vkchan"].init = << Add("file", "vchan") >>
        /\ Part["vkchan"].exit = << Del("file", "vchan") >>
    BY DEF Part, VkMod
  <2>2. AddFits(Add("file", "vchan"), "vkchan", 1)
    BY DEF AddFits, Add, Thing, Owner, InitPos, CallSet, Kinds, Placed
  <2>3. DelFits(Del("file", "vchan"), "vkchan", 1)
    BY DEF DelFits, Del, Thing, ExitPos, CallSet, Kinds
  <2>4. PartFits("vkchan")
    BY <2>1, <2>2, <2>3, OneAdd, OneDel DEF PartFits
  <2>5. UndoFits("vkchan")
    BY <2>1 DEF UndoFits, Add, Del, Thing
  <2> QED
    BY <2>4, <2>5
<1>8. PartFits("chan") /\ UndoFits("chan")
  <2>1. /\ Part["chan"].init = << Add("io", "chan"), Add("mt", "chan") >>
        /\ Part["chan"].exit = << Del("io", "chan"), Del("mt", "chan") >>
    BY DEF Part, ChanMod
  <2>2. AddFits(Add("io", "chan"), "chan", 1) /\ AddFits(Add("mt", "chan"), "chan", 2)
    BY DEF AddFits, Add, Thing, Owner, InitPos, CallSet, Kinds, Placed
  <2>3. DelFits(Del("io", "chan"), "chan", 1) /\ DelFits(Del("mt", "chan"), "chan", 2)
    BY DEF DelFits, Del, Thing, ExitPos, CallSet, Kinds
  <2>4. Part["chan"].init \in Seq(CallSet)
    BY <2>1, <2>2 DEF AddFits
  <2>5. \A i \in 1 .. Len(Part["chan"].init) : AddFits(Part["chan"].init[i], "chan", i)
    BY <2>1, <2>2
  <2>6. Part["chan"].exit \in Seq(CallSet)
    BY <2>1, <2>3 DEF DelFits
  <2>7. \A i \in 1 .. Len(Part["chan"].exit) : DelFits(Part["chan"].exit[i], "chan", i)
    BY <2>1, <2>3
  <2>8. PartFits("chan")
    BY <2>4, <2>5, <2>6, <2>7 DEF PartFits
  <2>9. UndoFits("chan")
    BY <2>1 DEF UndoFits, Add, Del, Thing
  <2> QED
    BY <2>8, <2>9
<1>9. PartFits("cfg") /\ UndoFits("cfg")
  <2>1. /\ Part["cfg"].init = << Add("file", "cfg") >>
        /\ Part["cfg"].exit = << Del("file", "cfg") >>
    BY DEF Part, CfgMod
  <2>2. AddFits(Add("file", "cfg"), "cfg", 1)
    BY DEF AddFits, Add, Thing, Owner, InitPos, CallSet, Kinds, Placed
  <2>3. DelFits(Del("file", "cfg"), "cfg", 1)
    BY DEF DelFits, Del, Thing, ExitPos, CallSet, Kinds
  <2>4. PartFits("cfg")
    BY <2>1, <2>2, <2>3, OneAdd, OneDel DEF PartFits
  <2>5. UndoFits("cfg")
    BY <2>1 DEF UndoFits, Add, Del, Thing
  <2> QED
    BY <2>4, <2>5
<1>10. PartFits("vdec") /\ UndoFits("vdec")
  <2>1. /\ Part["vdec"].init = << Add("type", "vdec"), Add("drv", "vdec") >>
        /\ Part["vdec"].exit = << Del("drv", "vdec") >>
    BY DEF Part, VdecMod
  <2>2. AddFits(Add("type", "vdec"), "vdec", 1) /\ AddFits(Add("drv", "vdec"), "vdec", 2)
    BY DEF AddFits, Add, Thing, Owner, InitPos, CallSet, Kinds, Placed
  <2>3. DelFits(Del("drv", "vdec"), "vdec", 1)
    BY DEF DelFits, Del, Thing, ExitPos, CallSet, Kinds
  <2>4. Part["vdec"].init \in Seq(CallSet)
    BY <2>1, <2>2 DEF AddFits
  <2>5. \A i \in 1 .. Len(Part["vdec"].init) : AddFits(Part["vdec"].init[i], "vdec", i)
    BY <2>1, <2>2
  <2>6. PartFits("vdec")
    BY <2>1, <2>3, <2>4, <2>5, OneDel DEF PartFits
  <2>7. UndoFits("vdec")
    BY <2>1 DEF UndoFits, Add, Del, Thing
  <2> QED
    BY <2>6, <2>7
<1>11. PartFits("venc") /\ UndoFits("venc")
  <2>1. /\ Part["venc"].init = << Add("type", "venc"), Add("drv", "venc") >>
        /\ Part["venc"].exit = << Del("drv", "venc") >>
    BY DEF Part, VencMod
  <2>2. AddFits(Add("type", "venc"), "venc", 1) /\ AddFits(Add("drv", "venc"), "venc", 2)
    BY DEF AddFits, Add, Thing, Owner, InitPos, CallSet, Kinds, Placed
  <2>3. DelFits(Del("drv", "venc"), "venc", 1)
    BY DEF DelFits, Del, Thing, ExitPos, CallSet, Kinds
  <2>4. Part["venc"].init \in Seq(CallSet)
    BY <2>1, <2>2 DEF AddFits
  <2>5. \A i \in 1 .. Len(Part["venc"].init) : AddFits(Part["venc"].init[i], "venc", i)
    BY <2>1, <2>2
  <2>6. PartFits("venc")
    BY <2>1, <2>3, <2>4, <2>5, OneDel DEF PartFits
  <2>7. UndoFits("venc")
    BY <2>1 DEF UndoFits, Add, Del, Thing
  <2> QED
    BY <2>6, <2>7
<1>12. PartFits("vnchan") /\ UndoFits("vnchan")
  <2>1. /\ Part["vnchan"].init = << Add("type", "net"), Add("drv", "net"), Add("io", "vn"),
                                    Add("notify", "vn") >>
        /\ Part["vnchan"].exit = << Del("notify", "vn"), Del("io", "vn"), Del("drv", "net") >>
    BY DEF Part, VnMod
  <2>2. AddFits(Add("type", "net"), "vnchan", 1) /\ AddFits(Add("drv", "net"), "vnchan", 2)
    BY DEF AddFits, Add, Thing, Owner, InitPos, CallSet, Kinds, Placed
  <2>3. AddFits(Add("io", "vn"), "vnchan", 3) /\ AddFits(Add("notify", "vn"), "vnchan", 4)
    BY DEF AddFits, Add, Thing, Owner, InitPos, CallSet, Kinds, Placed
  <2>4. DelFits(Del("notify", "vn"), "vnchan", 1) /\ DelFits(Del("io", "vn"), "vnchan", 2)
    BY DEF DelFits, Del, Thing, ExitPos, CallSet, Kinds
  <2>5. DelFits(Del("drv", "net"), "vnchan", 3)
    BY DEF DelFits, Del, Thing, ExitPos, CallSet, Kinds
  <2>6. Part["vnchan"].init \in Seq(CallSet)
    BY <2>1, <2>2, <2>3 DEF AddFits
  <2>7. \A i \in 1 .. Len(Part["vnchan"].init) : AddFits(Part["vnchan"].init[i], "vnchan", i)
    BY <2>1, <2>2, <2>3
  <2>8. Part["vnchan"].exit \in Seq(CallSet)
    BY <2>1, <2>4, <2>5 DEF DelFits
  <2>9. \A i \in 1 .. Len(Part["vnchan"].exit) : DelFits(Part["vnchan"].exit[i], "vnchan", i)
    BY <2>1, <2>4, <2>5
  <2>10. PartFits("vnchan")
    BY <2>6, <2>7, <2>8, <2>9 DEF PartFits
  <2>11. UndoFits("vnchan")
    BY <2>1 DEF UndoFits, Add, Del, Thing
  <2> QED
    BY <2>10, <2>11
<1>13. PartFits("mt_ktest") /\ UndoFits("mt_ktest")
  <2>1. /\ Part["mt_ktest"].init = << Add("mt", "mt_ktest") >>
        /\ Part["mt_ktest"].exit = << Del("mt", "mt_ktest") >>
    BY DEF Part, KtestMod
  <2>2. AddFits(Add("mt", "mt_ktest"), "mt_ktest", 1)
    BY DEF AddFits, Add, Thing, Owner, InitPos, CallSet, Kinds, Placed
  <2>3. DelFits(Del("mt", "mt_ktest"), "mt_ktest", 1)
    BY DEF DelFits, Del, Thing, ExitPos, CallSet, Kinds
  <2>4. PartFits("mt_ktest")
    BY <2>1, <2>2, <2>3, OneAdd, OneDel DEF PartFits
  <2>5. UndoFits("mt_ktest")
    BY <2>1 DEF UndoFits, Add, Del, Thing
  <2> QED
    BY <2>4, <2>5
<1> QED
  BY <1>1, <1>2, <1>3, <1>4, <1>5, <1>6, <1>7, <1>8, <1>9, <1>10, <1>11, <1>12, <1>13 DEF Level

(* Each thing has its place.                                               *)
LEMMA ThingsFit ==
  ASSUME NEW x \in Things
  PROVE  /\ Owner(x) \in DOMAIN Level /\ Placed(x) /\ x = << x[1], x[2] >>
         /\ InitPos(x) \in 1 .. Len(Part[Owner(x)].init) /\ Thing(Part[Owner(x)].init[InitPos(x)]) = x
         /\ x[1] # "type" => /\ ExitPos(x) \in 1 .. Len(Part[Owner(x)].exit)
                             /\ Thing(Part[Owner(x)].exit[ExitPos(x)]) = x
<1>1. PICK m \in DOMAIN Level : \E i \in 1 .. Len(Part[m].init) : x = Thing(Part[m].init[i])
  BY DEF Things
<1>2. PICK i \in 1 .. Len(Part[m].init) : x = Thing(Part[m].init[i])
  BY <1>1
<1>3. AddFits(Part[m].init[i], m, i)
  BY PartsFit DEF PartFits
<1>4. Owner(x) = m /\ InitPos(x) = i /\ Placed(x) /\ x = << x[1], x[2] >>
  BY <1>2, <1>3 DEF AddFits, Thing
<1>5. ASSUME x[1] # "type"
      PROVE  ExitPos(x) \in 1 .. Len(Part[m].exit) /\ Thing(Part[m].exit[ExitPos(x)]) = x
  <2>1. Part[m].init[i].kind # "type"
    BY <1>2, <1>5 DEF Thing
  <2>2. PICK j \in 1 .. Len(Part[m].exit) : Thing(Part[m].exit[j]) = x
    BY <1>2, <2>1, PartsFit DEF UndoFits
  <2>3. DelFits(Part[m].exit[j], m, j)
    BY PartsFit DEF PartFits
  <2> QED
    BY <2>2, <2>3 DEF DelFits
<1> QED
  BY <1>2, <1>4, <1>5

(* Its place tells a thing from others.                                    *)
LEMMA OneAtAPlace ==
  ASSUME NEW x \in Things, NEW y \in Things, Owner(x) = Owner(y),
         InitPos(x) = InitPos(y) \/ (x[1] # "type" /\ y[1] # "type" /\ ExitPos(x) = ExitPos(y))
  PROVE  x = y
  BY ThingsFit

LEMMA InitCalls ==
  ASSUME NEW m \in DOMAIN Level, NEW i \in 1 .. Len(Part[m].init)
  PROVE  /\ Part[m].init[i].do = "add" /\ Part[m].init[i] \in CallSet
         /\ Thing(Part[m].init[i]) \in Things
         /\ Owner(Thing(Part[m].init[i])) = m /\ InitPos(Thing(Part[m].init[i])) = i
  BY PartsFit DEF PartFits, AddFits, Things

LEMMA ExitCalls ==
  ASSUME NEW m \in DOMAIN Level, NEW i \in 1 .. Len(Part[m].exit)
  PROVE  /\ Part[m].exit[i].do = "del" /\ Part[m].exit[i].kind # "type" /\ Part[m].exit[i] \in CallSet
         /\ Thing(Part[m].exit[i]) \in Things
         /\ Owner(Thing(Part[m].exit[i])) = m /\ ExitPos(Thing(Part[m].exit[i])) = i
<1>1. DelFits(Part[m].exit[i], m, i)
  BY PartsFit DEF PartFits
<1>2. PICK j \in 1 .. Len(Part[m].init) : Thing(Part[m].exit[i]) = Thing(Part[m].init[j])
  BY PartsFit DEF UndoFits
<1> QED
  BY <1>1, <1>2, InitCalls DEF DelFits

LEMMA Starting ==
  ASSUME NEW m \in DOMAIN Level
  PROVE  Part[m].init \in Seq(CallSet) /\ Part[m].exit \in Seq(CallSet)
  BY PartsFit DEF PartFits

(* What others need.                                                       *)
LEMMA Needed ==
  /\ << "fstype", "vafs" >> \in Things /\ Owner(<< "fstype", "vafs" >>) = "vafs"
  /\ << "root", "mt" >> \in Things /\ Owner(<< "root", "mt" >>) = "mt"
  /\ << "mt", "chan" >> \in Things /\ Owner(<< "mt", "chan" >>) = "chan"
  /\ << "dev", "mem" >> \in Things /\ Owner(<< "dev", "mem" >>) = "board_xxx"
  /\ << "drv", "mem" >> \in Things /\ Owner(<< "drv", "mem" >>) = "fdd"
  /\ InitPos(<< "drv", "mem" >>) = 1 /\ ExitPos(<< "drv", "mem" >>) = 3
  /\ << "inst", "fdd" >> \in Things /\ Owner(<< "inst", "fdd" >>) = "fdd" /\ ExitPos(<< "inst", "fdd" >>) = 2
<1>1. /\ Part["vafs"].init = << Add("fstype", "vafs") >>
      /\ Part["mt"].init = << Add("root", "mt"), Add("file", "mt_ca"), Add("file", "mt_ua") >>
      /\ Part["chan"].init = << Add("io", "chan"), Add("mt", "chan") >>
      /\ Part["fdd"].init = << Add("drv", "mem"), Add("inst", "fdd"), Add("mt", "fdd") >>
      /\ Part["board_xxx"].init = << Add("dev", "board"), Add("dev", "mem"),
                                     Add("dev", "vdec"), Add("dev", "venc"), Add("dev", "net") >>
  BY DEF Part, FsMod, MtMod, ChanMod, FddMod, BoardXxxMod
<1>2. /\ 1 \in 1 .. Len(Part["vafs"].init) /\ Thing(Part["vafs"].init[1]) = << "fstype", "vafs" >>
      /\ 1 \in 1 .. Len(Part["mt"].init) /\ Thing(Part["mt"].init[1]) = << "root", "mt" >>
      /\ 2 \in 1 .. Len(Part["chan"].init) /\ Thing(Part["chan"].init[2]) = << "mt", "chan" >>
  BY <1>1 DEF Add, Thing
<1>3. /\ 1 \in 1 .. Len(Part["fdd"].init) /\ Thing(Part["fdd"].init[1]) = << "drv", "mem" >>
      /\ 2 \in 1 .. Len(Part["fdd"].init) /\ Thing(Part["fdd"].init[2]) = << "inst", "fdd" >>
      /\ 2 \in 1 .. Len(Part["board_xxx"].init) /\ Thing(Part["board_xxx"].init[2]) = << "dev", "mem" >>
  BY <1>1 DEF Add, Thing
<1>4. ExitPos(<< "drv", "mem" >>) = 3 /\ ExitPos(<< "inst", "fdd" >>) = 2
  BY DEF ExitPos
<1>5. {"vafs", "mt", "chan", "fdd", "board_xxx"} \subseteq DOMAIN Level
  BY DEF Level
<1>6. /\ << "fstype", "vafs" >> \in Things /\ Owner(<< "fstype", "vafs" >>) = "vafs"
      /\ << "root", "mt" >> \in Things /\ Owner(<< "root", "mt" >>) = "mt"
      /\ << "mt", "chan" >> \in Things /\ Owner(<< "mt", "chan" >>) = "chan"
  BY <1>2, <1>5, InitCalls
<1>7. << "dev", "mem" >> \in Things /\ Owner(<< "dev", "mem" >>) = "board_xxx"
  BY SMTT(30), <1>3, <1>5, InitCalls
<1>8. << "drv", "mem" >> \in Things /\ Owner(<< "drv", "mem" >>) = "fdd" /\ InitPos(<< "drv", "mem" >>) = 1
  BY <1>3, <1>5, InitCalls
<1>9. << "inst", "fdd" >> \in Things /\ Owner(<< "inst", "fdd" >>) = "fdd"
  BY SMTT(30), <1>3, <1>5, InitCalls
<1> QED
  BY <1>4, <1>6, <1>7, <1>8, <1>9

(* A driver of channels comes after its type.                              *)
LEMMA TypeFirst ==
  ASSUME NEW d \in {"vdec", "venc", "net"}
  PROVE  /\ << "drv", d >> \in Things /\ << "type", d >> \in Things
         /\ Owner(<< "type", d >>) = Owner(<< "drv", d >>)
<1>1. /\ Part["vdec"].init = << Add("type", "vdec"), Add("drv", "vdec") >>
      /\ Part["venc"].init = << Add("type", "venc"), Add("drv", "venc") >>
      /\ Part["vnchan"].init = << Add("type", "net"), Add("drv", "net"), Add("io", "vn"), Add("notify", "vn") >>
  BY DEF Part, VdecMod, VencMod, VnMod
<1>2. ASSUME NEW m \in DOMAIN Level, 1 \in 1 .. Len(Part[m].init), 2 \in 1 .. Len(Part[m].init),
             Thing(Part[m].init[1]) = << "type", d >>, Thing(Part[m].init[2]) = << "drv", d >>
      PROVE  /\ << "drv", d >> \in Things /\ << "type", d >> \in Things
             /\ Owner(<< "type", d >>) = Owner(<< "drv", d >>)
  BY <1>2, InitCalls
<1>3. {"vdec", "venc", "vnchan"} \subseteq DOMAIN Level
  BY DEF Level
<1>4. CASE d = "vdec"
  <2>1. /\ 1 \in 1 .. Len(Part["vdec"].init) /\ Thing(Part["vdec"].init[1]) = << "type", "vdec" >>
        /\ 2 \in 1 .. Len(Part["vdec"].init) /\ Thing(Part["vdec"].init[2]) = << "drv", "vdec" >>
    BY <1>1 DEF Add, Thing
  <2> QED
    BY <1>2, <1>3, <1>4, <2>1
<1>5. CASE d = "venc"
  <2>1. /\ 1 \in 1 .. Len(Part["venc"].init) /\ Thing(Part["venc"].init[1]) = << "type", "venc" >>
        /\ 2 \in 1 .. Len(Part["venc"].init) /\ Thing(Part["venc"].init[2]) = << "drv", "venc" >>
    BY <1>1 DEF Add, Thing
  <2> QED
    BY <1>2, <1>3, <1>5, <2>1
<1>6. CASE d = "net"
  <2>1. /\ 1 \in 1 .. Len(Part["vnchan"].init) /\ Thing(Part["vnchan"].init[1]) = << "type", "net" >>
        /\ 2 \in 1 .. Len(Part["vnchan"].init) /\ Thing(Part["vnchan"].init[2]) = << "drv", "net" >>
    BY <1>1 DEF Add, Thing
  <2> QED
    BY <1>2, <1>3, <1>6, <2>1
<1> QED
  BY <1>4, <1>5, <1>6

-----------------------------------------------------------------------------
(* The state of the loading.                                               *)

Cur  == modHead[at]
Now  == IF phase = "init" THEN Part[Cur].init ELSE Part[Cur].exit
Done == Len(Now) - Len(todo)
Working == phase = "init" \/ (phase \in {"exit", "undo"} /\ todo # << >>)

(* Parts are in the list once, in the order of their levels.               *)
OrderInv ==
  /\ modHead \in Seq(Mods)
  /\ \A i, j \in DOMAIN modHead : i < j => modHead[i] # modHead[j] /\ Level[modHead[i]] <= Level[modHead[j]]

(* Which parts are initialised; those of lower levels are before others.   *)
PhaseInv ==
  /\ phase \in {"ctor", "init", "run", "exit", "undo", "off", "failed", "oops"}
  /\ at \in 0 .. Len(modHead) /\ inited \subseteq Mods
  /\ phase # "ctor" => Range(modHead) = Mods
  /\ phase = "ctor" => inited = {} /\ at = 0
  /\ phase = "init" => inited = {modHead[k] : k \in 1 .. at - 1}
  /\ phase \in {"run", "exit"} => inited = Mods
  /\ phase \in {"init", "exit", "undo"} => at > 0
  /\ phase \in {"off", "failed"} => at = 0
  /\ phase \in {"undo", "failed"} => "fdd" \notin inited
  /\ \A m \in inited, p \in Mods : Level[p] < Level[m] => p \in inited

(* What a part has left to do is the end of its init or exit.              *)
TodoInv == Working =>
  /\ todo \in Seq(CallSet)
  /\ Done \in 0 .. Len(Now) /\ \A i \in 1 .. Len(todo) : todo[i] = Now[Done + i]
  /\ phase # "init" => Cur \in inited

(* What is made, as far as the calls made by now tell.                     *)
Standing(x) ==
  IF phase \in {"ctor", "init", "run"}
  THEN Owner(x) \in inited \/ (phase = "init" /\ Owner(x) = Cur /\ InitPos(x) <= Done)
  ELSE /\ Owner(x) \in inited
       /\ \/ \E k \in 1 .. at - 1 : Owner(x) = modHead[k]
          \/ at > 0 /\ Owner(x) = Cur /\ ExitPos(x) > Done

(* A type of channels stays; the driver of fdd stays when its buffers could *)
(* not be made.                                                            *)
Sure(x) == x[1] # "type" /\ ~(x = << "drv", "mem" >> /\ phase \in {"undo", "failed"})

UpInv ==
  /\ up \subseteq Things \cup {<< "mt", "core" >>} /\ \A x \in up : x[1] # "file"
  /\ \A x \in Things : x[1] = "type" /\ Owner(x) \in inited => x \in up
  /\ phase # "oops" => \A x \in Things :
       x[1] # "file" /\ (Sure(x) \/ phase \in {"ctor", "init"}) => (x \in up <=> Standing(x))

FileInv == phase # "oops" =>
  \A f \in fileHead : << "file", f >> \in Things /\ Standing(<< "file", f >>)

LoadInv == OrderInv /\ PhaseInv /\ TodoInv /\ UpInv /\ FileInv

-----------------------------------------------------------------------------
ChanTypes ==
  /\ chanTbl \subseteq Chan /\ ref \in [Chan -> Nat] /\ lost \in [Chan -> Nat]
  /\ opened \subseteq Fd /\ stale \subseteq Chan
  /\ priv \in [Fd -> Chan \cup {NULL}]
  /\ binding \in [Thread -> ([fd : Fd, chan : Chan, got : BOOLEAN] \cup {NoBind})]
  /\ \A f \in Fd : f \notin opened => priv[f] = NULL /\ \A t \in Thread : binding[t].fd # f

(* A channel of the board is taken back by its driver only, and a channel  *)
(* stays in its table until it is cleared.                                 *)
Untouched(c) == \A a : ~IsAt(c, a)
BusyInv == \A c \in Chan :
  /\ IsAt(c, "add") \/ IsAt(c, "clear") \/ IsAt(c, "del") \/ IsAt(c, "delclear") => c \in chanTbl
  /\ c \notin NodeChan => ~IsAt(c, "add") /\ ~Deleting(c)

(* References are those of the table, the files, the binds and the         *)
(* deletion, and what crossing binds have lost; a freed channel that was   *)
(* counted has none, and is made no more.                                  *)
RefInv == \A c \in Chan :
  /\ IsFiniteSet(Filed(c)) /\ IsFiniteSet(Binders(c))
  /\ c \notin stale => ref[c] = Owed(c)
  /\ c \in stale => ref[c] = 0 /\ ~InTable(c) /\ ~Deleting(c)

(* A channel of the board that a bind has found is still in its table.     *)
LookInv ==
  /\ stale \subseteq NodeChan
  /\ \A t \in Thread : binding[t].chan \in Chan \ NodeChan /\ ~binding[t].got => InTable(binding[t].chan)

(* Channels are made when their driver comes.                              *)
FreshInv == \A c \in Chan \ NodeChan :
  /\ c \in chanTbl => started[DevOf[c]] = "on"
  /\ phase \in {"ctor", "init", "undo", "failed"} /\ << "drv", DevOf[c] >> \notin up => ref[c] = 0

(* Nobody uses the module when it is unloaded, and only then are tables    *)
(* destroyed that have channels.                                           *)
QuietInv ==
  /\ phase \in {"exit", "off"} =>
       /\ opened = {} /\ (phase = "exit" => mounts = 0)
       /\ \A c \in NodeChan : c \notin chanTbl /\ Untouched(c)
  /\ \A c \in Chan \ NodeChan : IsAt(c, "clear") => phase \in {"exit", "off", "oops"}

(* There are no channels of nodes before "cp" can be asked for them, nor   *)
(* when a load has failed.                                                 *)
NoNodes == \A c \in NodeChan : ref[c] = 0 /\ c \notin chanTbl /\ Untouched(c)
NodeInv == phase \in {"ctor", "init", "undo", "failed"} /\ << "io", "vn" >> \notin up => NoNodes

ChanInv == ChanTypes /\ BusyInv /\ RefInv /\ LookInv /\ FreshInv /\ QuietInv /\ NodeInv
StartTypes == started \in [Dev -> {"no", "on", "bad", "twice"}]

-----------------------------------------------------------------------------
(* Calls, and what stands by them.                                         *)

LEMMA CurIsPart ==
  ASSUME OrderInv, PhaseInv, phase \in {"init", "exit", "undo"}
  PROVE  at \in 1 .. Len(modHead) /\ Cur \in Mods /\ Cur \in DOMAIN Level
  BY ModsAssumption DEF OrderInv, PhaseInv, Cur

LEMMA CallFits ==
  ASSUME OrderInv, PhaseInv, TodoInv, phase \in {"init", "exit", "undo"}, todo # << >>
  PROVE  /\ Call \in CallSet /\ Thing(Call) \in Things /\ Owner(Thing(Call)) = Cur
         /\ IF phase = "init" THEN Call.do = "add" /\ InitPos(Thing(Call)) = Done + 1
            ELSE Call.do = "del" /\ Call.kind # "type" /\ ExitPos(Thing(Call)) = Done + 1 /\ Cur \in inited
         /\ Done \in 0 .. Len(Now) - 1 /\ Now \in Seq(CallSet)
<1>1. Working /\ Cur \in DOMAIN Level
  BY CurIsPart DEF Working
<1>2. Now \in Seq(CallSet)
  BY <1>1, Starting DEF Now
<1>3. todo \in Seq(CallSet) /\ Len(todo) > 0 /\ Done \in 0 .. Len(Now) /\ todo[1] = Now[Done + 1]
  BY <1>1 DEF TodoInv
<1>4. Done \in 0 .. Len(Now) - 1 /\ Done + 1 \in 1 .. Len(Now)
  BY <1>2, <1>3 DEF Done
<1>5. CASE phase = "init"
  BY <1>1, <1>2, <1>3, <1>4, <1>5, InitCalls DEF Now, Call
<1>6. CASE phase # "init"
  <2>1. Cur \in inited
    BY <1>1, <1>6 DEF TodoInv
  <2> QED
    BY <1>1, <1>2, <1>3, <1>4, <1>6, <2>1, ExitCalls DEF Now, Call
<1> QED
  BY <1>5, <1>6

LEMMA ReturnedDone ==
  ASSUME OrderInv, PhaseInv, TodoInv, phase \in {"init", "exit", "undo"}, todo # << >>, Returned
  PROVE  /\ OrderInv' /\ PhaseInv' /\ TodoInv'
         /\ Cur' = Cur /\ Now' = Now /\ Done' = Done + 1
<1>1. Working /\ Cur \in DOMAIN Level
  BY CurIsPart DEF Working
<1>2. Now \in Seq(CallSet)
  BY <1>1, Starting DEF Now
<1>3. /\ todo \in Seq(CallSet) /\ Len(todo) > 0 /\ Done \in 0 .. Len(Now)
      /\ \A i \in 1 .. Len(todo) : todo[i] = Now[Done + i]
  BY <1>1 DEF TodoInv
<1>4. OrderInv' /\ PhaseInv' /\ Cur' = Cur /\ Now' = Now
  BY DEF Returned, OrderInv, PhaseInv, Cur, Now
<1>5. todo' \in Seq(CallSet) /\ Len(todo') = Len(todo) - 1 /\ \A i \in 1 .. Len(todo') : todo'[i] = todo[i + 1]
  BY <1>3 DEF Returned
<1>6. Done' = Done + 1
  BY <1>2, <1>3, <1>4, <1>5 DEF Done
<1>7. Done' \in 0 .. Len(Now')
  BY <1>2, <1>3, <1>4, <1>6 DEF Done
<1>8. \A i \in 1 .. Len(todo') : todo'[i] = Now'[Done' + i]
  <2> TAKE i \in 1 .. Len(todo')
  <2>1. i + 1 \in 1 .. Len(todo) /\ Done + (i + 1) = Done' + i
    BY <1>2, <1>3, <1>5, <1>6
  <2> QED
    BY <1>3, <1>4, <1>5, <2>1
<1>9. phase' # "init" => Cur' \in inited'
  BY <1>1, <1>4 DEF TodoInv, Returned
<1> QED
  BY <1>4, <1>5, <1>6, <1>7, <1>8, <1>9 DEF TodoInv

(* A call makes its thing stand or fall.                                   *)
LEMMA StandingNext ==
  ASSUME OrderInv, PhaseInv, TodoInv, phase \in {"init", "exit", "undo"}, todo # << >>, Returned,
         NEW x \in Things, x[1] # "type" \/ phase = "init"
  PROVE  Standing(x)' = IF phase = "init" THEN Standing(x) \/ x = Thing(Call)
                        ELSE Standing(x) /\ x # Thing(Call)
<1>1. /\ Thing(Call) \in Things /\ Owner(Thing(Call)) = Cur
      /\ IF phase = "init" THEN InitPos(Thing(Call)) = Done + 1
         ELSE ExitPos(Thing(Call)) = Done + 1 /\ Cur \in inited /\ Call.kind # "type"
      /\ Done \in Nat
  BY CallFits
<1>2. Cur' = Cur /\ Done' = Done + 1 /\ UNCHANGED << modHead, phase, at, inited >>
  BY ReturnedDone DEF Returned
<1>3. InitPos(x) \in Nat /\ (x[1] # "type" => ExitPos(x) \in Nat)
  BY ThingsFit, Starting
<1>4. CASE phase = "init"
  <2>1. Owner(x) = Cur => (InitPos(x) <= Done + 1 <=> (InitPos(x) <= Done \/ x = Thing(Call)))
    BY <1>1, <1>3, <1>4, OneAtAPlace
  <2>2. Standing(x) <=> (Owner(x) \in inited \/ (Owner(x) = Cur /\ InitPos(x) <= Done))
    BY <1>4 DEF Standing
  <2>3. Standing(x)' <=> (Owner(x) \in inited \/ (Owner(x) = Cur /\ InitPos(x) <= Done + 1))
    BY <1>2, <1>4 DEF Standing
  <2> QED
    BY <1>1, <1>4, <2>1, <2>2, <2>3 DEF Standing
<1>5. CASE phase # "init"
  <2>1. x[1] # "type" /\ Thing(Call)[1] # "type"
    BY <1>1, <1>5 DEF Thing
  <2>2. Owner(x) = Cur => (ExitPos(x) > Done + 1 <=> (ExitPos(x) > Done /\ x # Thing(Call)))
    BY <1>1, <1>3, <1>5, <2>1, OneAtAPlace
  <2>3. at \in 1 .. Len(modHead) /\ \A k \in 1 .. at - 1 : modHead[k] # Cur
    BY CurIsPart DEF Cur, OrderInv
  <2>4. Standing(x) <=> /\ Owner(x) \in inited
                        /\ (\E k \in 1 .. at - 1 : Owner(x) = modHead[k]) \/ (Owner(x) = Cur /\ ExitPos(x) > Done)
    BY <1>5, <2>3 DEF Standing
  <2>5. Standing(x)' <=> /\ Owner(x) \in inited
                         /\ (\E k \in 1 .. at - 1 : Owner(x) = modHead[k]) \/ (Owner(x) = Cur /\ ExitPos(x) > Done + 1)
    BY <1>2, <1>5, <2>3 DEF Standing
  <2>6. x = Thing(Call) => ~ \E k \in 1 .. at - 1 : Owner(x) = modHead[k]
    BY <1>1, <2>3
  <2> QED
    BY <1>5, <2>2, <2>4, <2>5, <2>6 DEF Standing
<1> QED
  BY <1>4, <1>5

(* The calls that add, and those that take back.                           *)
LEMMA MadeUp ==
  ASSUME OrderInv, PhaseInv, TodoInv, UpInv, FileInv, phase \in {"init", "exit", "undo"}, todo # << >>, Returned,
         Call.do = "add", Call.kind # "file", Made, UNCHANGED fileHead
  PROVE  UpInv' /\ FileInv'
<1>1. /\ Thing(Call) \in Things /\ phase = "init" /\ Thing(Call)[1] # "file"
  BY CallFits DEF Thing
<1>2. up' = up \cup {Thing(Call)} /\ phase' = phase /\ inited' = inited
  BY DEF Made, Returned, Thing
<1>3. \A x \in Things : Standing(x)' = (Standing(x) \/ x = Thing(Call))
  BY <1>1, StandingNext
<1>4. \A x \in up' : x[1] # "file"
  BY <1>1, <1>2 DEF UpInv
<1>5. up' \subseteq Things \cup {<< "mt", "core" >>}
  BY <1>1, <1>2 DEF UpInv
<1>6. \A x \in Things : x[1] = "type" /\ Owner(x) \in inited' => x \in up'
  BY <1>2 DEF UpInv
<1>7. \A x \in Things : x[1] # "file" => (x \in up' <=> Standing(x)')
  BY <1>1, <1>2, <1>3 DEF UpInv
<1> QED
  BY <1>1, <1>2, <1>3, <1>4, <1>5, <1>6, <1>7 DEF UpInv, FileInv

LEMMA TakenDown ==
  ASSUME OrderInv, PhaseInv, TodoInv, UpInv, FileInv, phase \in {"init", "exit", "undo"}, todo # << >>, Returned,
         Call.do = "del", Call.kind # "file", TakenBack, UNCHANGED fileHead
  PROVE  UpInv' /\ FileInv'
<1>1. /\ Thing(Call) \in Things /\ phase \in {"exit", "undo"} /\ Thing(Call)[1] \notin {"file", "type"}
  BY CallFits DEF Thing
<1>2. up' = up \ {Thing(Call)} /\ phase' = phase /\ inited' = inited
  BY DEF TakenBack, Returned, Thing
<1>3. \A x \in Things : x[1] # "type" => Standing(x)' = (Standing(x) /\ x # Thing(Call))
  BY <1>1, StandingNext
<1>4. up' \subseteq Things \cup {<< "mt", "core" >>} /\ \A x \in up' : x[1] # "file"
  BY <1>2 DEF UpInv
<1>5. \A x \in Things : x[1] = "type" /\ Owner(x) \in inited' => x \in up'
  BY <1>1, <1>2 DEF UpInv
<1>6. \A x \in Things : x[1] # "file" /\ Sure(x)' => (x \in up' <=> Standing(x)')
  BY <1>1, <1>2, <1>3 DEF UpInv, Sure
<1>7. \A f \in fileHead : << "file", f >> \in Things /\ Standing(<< "file", f >>) /\ << "file", f >> # Thing(Call)
  <2> TAKE f \in fileHead
  <2>1. << "file", f >>[1] = "file"
    OBVIOUS
  <2>2. << "file", f >> # Thing(Call)
    BY <1>1, <2>1
  <2> QED
    BY <1>1, <2>2 DEF FileInv
<1>8. \A f \in fileHead : Standing(<< "file", f >>)'
  <2> TAKE f \in fileHead
  <2>1. << "file", f >>[1] # "type"
    OBVIOUS
  <2> QED
    BY <1>3, <1>7, <2>1
<1> QED
  BY <1>1, <1>2, <1>4, <1>5, <1>6, <1>7, <1>8 DEF UpInv, FileInv

(* The file calls.                                                         *)
LEMMA FileKept ==
  ASSUME OrderInv, PhaseInv, TodoInv, UpInv, FileInv, phase \in {"init", "exit", "undo"}, todo # << >>, Returned,
         Call.kind = "file", up' = up,
         IF phase = "init" THEN fileHead' \subseteq fileHead \cup {Call.name} ELSE fileHead' = fileHead \ {Call.name}
  PROVE  UpInv' /\ FileInv'
<1>1. Thing(Call) \in Things /\ Thing(Call) = << "file", Call.name >> /\ Thing(Call)[1] = "file"
  BY CallFits DEF Thing
<1>2. phase' = phase /\ inited' = inited
  BY DEF Returned
<1>3. \A x \in Things : x[1] # "type" \/ phase = "init" =>
        Standing(x)' = IF phase = "init" THEN Standing(x) \/ x = Thing(Call) ELSE Standing(x) /\ x # Thing(Call)
  BY StandingNext
<1>4. \A x \in Things : x[1] # "file" /\ (x[1] # "type" \/ phase = "init") => Standing(x)' = Standing(x)
  BY <1>1, <1>3 DEF Standing
<1>5. UpInv'
  BY <1>2, <1>4 DEF UpInv, Sure, PhaseInv
<1>6. ASSUME NEW f \in fileHead' PROVE << "file", f >> \in Things /\ Standing(<< "file", f >>)'
  <2>1. CASE phase = "init"
    BY <1>1, <1>3, <1>6, <2>1 DEF FileInv
  <2>2. CASE phase # "init"
    <3>1. f \in fileHead /\ f # Call.name /\ << "file", f >>[1] = "file"
      BY <1>6, <2>2
    <3>2. << "file", f >> # Thing(Call)
      BY <1>1, <3>1
    <3> QED
      BY <1>3, <2>2, <3>1, <3>2 DEF FileInv
  <2> QED
    BY <2>1, <2>2
<1> QED
  BY <1>5, <1>6 DEF FileInv

-----------------------------------------------------------------------------
(* The list of the parts.                                                  *)

LessThan == {ss \in Nat \X Nat : ss[1] < ss[2]}

LEMMA LeastOf ==
  ASSUME NEW S \in SUBSET Nat, S # {}
  PROVE  \E x \in S : \A y \in S : x <= y
<1>1. IsWellFoundedOn(LessThan, Nat)
  BY NatLessThanWellFounded DEF OpToRel, LessThan
<1>2. PICK x \in S : \A y \in S : << y, x >> \notin LessThan
  BY <1>1, WFMin
<1>3. ASSUME NEW y \in S PROVE x <= y
  <2>1. ~(y < x)
    BY <1>2, << y, x >> \in Nat \X Nat, << y, x >>[1] = y, << y, x >>[2] = x DEF LessThan
  <2> QED
    BY <2>1
<1> QED
  BY <1>3

(* The parts of lower levels are a head of the list.                       *)
LEMMA PlaceFits ==
  ASSUME OrderInv, NEW m \in Mods
  PROVE  /\ PlaceOf(m) \in 1 .. Len(modHead) + 1
         /\ \A i \in DOMAIN modHead : Level[modHead[i]] < Level[m] <=> i < PlaceOf(m)
<1> DEFINE S == {i \in DOMAIN modHead : Level[modHead[i]] < Level[m]}
           T == (1 .. Len(modHead) + 1) \ S
<1>1. modHead \in Seq(Mods) /\ DOMAIN modHead = 1 .. Len(modHead) /\ Len(modHead) \in Nat
  BY DEF OrderInv
<1>2. \A i \in DOMAIN modHead : Level[modHead[i]] \in Nat
  BY <1>1, ModsAssumption DEF Level
<1>3. Level[m] \in Nat
  BY ModsAssumption DEF Level
<1>4. T \in SUBSET Nat /\ Len(modHead) + 1 \in T
  BY <1>1
<1>5. PICK q \in T : \A y \in T : q <= y
  BY <1>4, LeastOf
<1>6. \A i \in 1 .. Len(modHead) : i \in S <=> i < q
  <2> TAKE i \in 1 .. Len(modHead)
  <2>1. i < q => i \in S
    BY <1>1, <1>4, <1>5
  <2>2. ASSUME i \in S, ~(i < q) PROVE FALSE
    <3>1. q \in 1 .. Len(modHead) /\ q < i
      BY <1>1, <1>4, <1>5, <2>2
    <3>2. Level[modHead[q]] <= Level[modHead[i]]
      BY <1>1, <3>1 DEF OrderInv
    <3> QED
      BY <1>1, <1>2, <1>3, <1>5, <2>2, <3>1, <3>2
  <2> QED
    BY <2>1, <2>2
<1>7. S = 1 .. q - 1
  BY <1>1, <1>4, <1>5, <1>6
<1>8. Cardinality(S) = q - 1
  <2>1. q \in Nat /\ q >= 1 /\ 1 \in Int /\ q - 1 \in Int
    BY <1>1, <1>4, <1>5
  <2>2. Cardinality(1 .. q - 1) = IF 1 > q - 1 THEN 0 ELSE (q - 1) - 1 + 1
    BY ONLY <2>1, FS_Interval
  <2> HIDE DEF S
  <2> QED
    BY <1>7, <2>1, <2>2
<1>9. PlaceOf(m) = q
  BY <1>4, <1>5, <1>8 DEF PlaceOf
<1> QED
  BY <1>1, <1>4, <1>5, <1>6, <1>9

LEMMA RegModOrders ==
  ASSUME OrderInv, NEW m \in Mods, RegMod(m)
  PROVE  OrderInv'
<1> DEFINE q == PlaceOf(m)
           n == Len(modHead)
<1>1. modHead \in Seq(Mods) /\ n \in Nat /\ q \in 1 .. n + 1
  BY PlaceFits DEF OrderInv
<1>2. \A i \in 1 .. n : modHead[i] \in Mods /\ modHead[i] # m
  BY <1>1 DEF RegMod, Range
<1>3. \A i \in 1 .. n : Level[modHead[i]] < Level[m] <=> i < q
  BY PlaceFits DEF OrderInv
<1>4. modHead' = SubSeq(modHead, 1, q - 1) \o << m >> \o SubSeq(modHead, q, n)
  BY DEF RegMod, InsertAt
<1> HIDE DEF q
<1>5. /\ modHead' \in Seq(Mods) /\ Len(modHead') = n + 1
      /\ \A i \in 1 .. n + 1 : modHead'[i] = IF i < q THEN modHead[i] ELSE IF i = q THEN m ELSE modHead[i - 1]
  <2>1. SubSeq(modHead, 1, q - 1) \in Seq(Mods) /\ Len(SubSeq(modHead, 1, q - 1)) = q - 1
        /\ \A i \in 1 .. q - 1 : SubSeq(modHead, 1, q - 1)[i] = modHead[i]
    BY <1>1
  <2>2. SubSeq(modHead, q, n) \in Seq(Mods) /\ Len(SubSeq(modHead, q, n)) = n + 1 - q
        /\ \A i \in 1 .. n + 1 - q : SubSeq(modHead, q, n)[i] = modHead[q + i - 1]
    BY <1>1
  <2> DEFINE a == SubSeq(modHead, 1, q - 1)
             b == SubSeq(modHead, q, n)
             c == a \o << m >>
  <2> HIDE DEF a, b
  <2>3. c \in Seq(Mods) /\ Len(c) = q /\ c[q] = m /\ \A i \in 1 .. q - 1 : c[i] = modHead[i]
    BY <1>1, <2>1 DEF a
  <2> HIDE DEF c
  <2>4. modHead' = c \o b
    BY <1>4 DEF a, b, c
  <2>5. modHead' \in Seq(Mods) /\ Len(modHead') = n + 1
    BY <1>1, <2>2, <2>3, <2>4 DEF b
  <2>6. ASSUME NEW i \in 1 .. n + 1
        PROVE  modHead'[i] = IF i < q THEN modHead[i] ELSE IF i = q THEN m ELSE modHead[i - 1]
    <3>1. CASE i <= q
      BY <1>1, <2>2, <2>3, <2>4, <3>1 DEF b
    <3>2. CASE i > q
      <4>1. modHead'[i] = b[i - q]
        BY <1>1, <2>2, <2>3, <2>4, <3>2 DEF b
      <4>2. i - q \in 1 .. n + 1 - q /\ q + (i - q) - 1 = i - 1
        BY <1>1, <3>2
      <4> QED
        BY <1>1, <2>2, <3>2, <4>1, <4>2 DEF b
    <3> QED
      BY <1>1, <3>1, <3>2
  <2> QED
    BY <2>5, <2>6
<1>6. \A i \in 1 .. n : Level[modHead[i]] \in Nat
  BY <1>2, ModsAssumption DEF Level
<1>7. Level[m] \in Nat
  BY ModsAssumption DEF Level
<1>8. ASSUME NEW i \in 1 .. n + 1, NEW j \in 1 .. n + 1, i < j
      PROVE  modHead'[i] # modHead'[j] /\ Level[modHead'[i]] <= Level[modHead'[j]]
  <2>1. \A k, l \in 1 .. n : k < l => modHead[k] # modHead[l] /\ Level[modHead[k]] <= Level[modHead[l]]
    BY <1>1 DEF OrderInv
  <2>2. CASE j < q
    BY <1>1, <1>5, <1>8, <2>1, <2>2
  <2>3. CASE j = q
    BY <1>1, <1>2, <1>3, <1>5, <1>6, <1>7, <1>8, <2>3
  <2>4. CASE i = q
    BY <1>1, <1>2, <1>3, <1>5, <1>6, <1>7, <1>8, <2>4
  <2>5. CASE i < q /\ j > q
    <3>1. modHead'[i] = modHead[i] /\ modHead'[j] = modHead[j - 1] /\ i < j - 1 /\ i \in 1 .. n /\ j - 1 \in 1 .. n
      BY <1>1, <1>5, <1>8, <2>5
    <3> QED
      BY <2>1, <3>1
  <2>6. CASE i > q
    <3>1. modHead'[i] = modHead[i - 1] /\ modHead'[j] = modHead[j - 1]
      BY <1>1, <1>5, <1>8, <2>6
    <3>2. i - 1 < j - 1 /\ i - 1 \in 1 .. n /\ j - 1 \in 1 .. n
      BY <1>1, <1>8, <2>6
    <3> QED
      BY <2>1, <3>1, <3>2
  <2> QED
    BY <1>1, <1>8, <2>2, <2>3, <2>4, <2>5, <2>6
<1> QED
  BY <1>1, <1>5, <1>8 DEF OrderInv

-----------------------------------------------------------------------------
(* From part to part.                                                      *)

LEMMA LoadInit == Init => LoadInv
<1> SUFFICES ASSUME Init PROVE LoadInv
  OBVIOUS
<1>1. OrderInv
  BY DEF Init, OrderInv
<1>2. PhaseInv
  BY DEF Init, PhaseInv
<1>3. \A x \in Things : ~Standing(x)
  BY DEF Init, Standing
<1>4. TodoInv /\ UpInv /\ FileInv
  BY <1>3 DEF Init, TodoInv, Working, UpInv, FileInv, FsInit
<1> QED
  BY <1>1, <1>2, <1>4 DEF LoadInv

LEMMA RegModLoads ==
  ASSUME LoadInv, NEW m \in Mods, RegMod(m)
  PROVE  LoadInv'
<1>1. OrderInv'
  BY RegModOrders DEF LoadInv
<1>2. phase = "ctor" /\ phase' = "ctor" /\ at' = at /\ at = 0 /\ inited' = inited /\ inited = {}
  BY DEF RegMod, LoadInv, PhaseInv
<1>3. PhaseInv'
  BY <1>1, <1>2 DEF PhaseInv, OrderInv
<1>4. TodoInv'
  BY <1>2 DEF TodoInv, Working
<1>5. \A x \in Things : ~Standing(x) /\ ~Standing(x)'
  BY <1>2 DEF Standing
<1>6. UpInv' /\ FileInv'
  BY <1>2, <1>5 DEF LoadInv, UpInv, FileInv, RegMod, fsVars
<1> QED
  BY <1>1, <1>3, <1>4, <1>6 DEF LoadInv

(* The start of an init, and of an exit.                                   *)
LEMMA InitStarts ==
  ASSUME NEW m \in DOMAIN Level, phase' = "init", Cur' = m, todo' = Part[m].init
  PROVE  TodoInv' /\ Done' = 0 /\ Now' = Part[m].init
<1>1. Part[m].init \in Seq(CallSet)
  BY Starting
<1>2. Now' = Part[m].init
  BY DEF Now
<1>3. Done' = 0
  BY <1>1, <1>2 DEF Done
<1>4. (Done \in 0 .. Len(Now))' /\ \A i \in 1 .. Len(todo') : todo'[i] = Now'[Done' + i]
  BY <1>1, <1>2, <1>3
<1> QED
  BY <1>1, <1>2, <1>3, <1>4 DEF TodoInv

LEMMA ExitStarts ==
  ASSUME OrderInv', phase' \in {"exit", "undo"}, at' \in 1 .. Len(modHead'), modHead' = modHead, inited' = inited,
         ExitAt(at')
  PROVE  /\ TodoInv'
         /\ \A x \in Things : x[1] # "type" =>
              Standing(x)' = (Owner(x) \in inited /\ \E k \in 1 .. at' : Owner(x) = modHead[k])
<1>1. at' \in Nat /\ at' > 0
  BY DEF OrderInv
<1>2. ASSUME NEW p
      PROVE  (\E k \in 1 .. at' : p = modHead[k]) = ((\E k \in 1 .. at' - 1 : p = modHead[k]) \/ p = modHead[at'])
  <2>1. \A k : k \in 1 .. at' <=> k \in 1 .. at' - 1 \/ k = at'
    BY <1>1
  <2> QED
    BY <2>1
<1>3. Cur' \in DOMAIN Level /\ Cur' = modHead[at']
  BY ModsAssumption DEF OrderInv, Cur
<1>4. Now' = Part[Cur'].exit /\ Now' \in Seq(CallSet)
  BY <1>3, Starting DEF Now
<1>5. CASE Cur' \in inited
  <2>1. todo' = Now'
    BY <1>3, <1>4, <1>5 DEF ExitAt
  <2>2. Done' = 0
    BY <1>4, <2>1 DEF Done
  <2>3. (Done \in 0 .. Len(Now))' /\ \A i \in 1 .. Len(todo') : todo'[i] = Now'[Done' + i]
    BY <1>4, <2>1, <2>2
  <2>4. TodoInv'
    BY <1>4, <1>5, <2>1, <2>3 DEF TodoInv
  <2>5. ASSUME NEW x \in Things, x[1] # "type"
        PROVE  Standing(x)' = (Owner(x) \in inited /\ \E k \in 1 .. at' : Owner(x) = modHead[k])
    <3>1. ExitPos(x) > 0
      BY <2>5, ThingsFit, Starting
    <3>2. Standing(x)' = (/\ Owner(x) \in inited
                          /\ \/ \E k \in 1 .. at' - 1 : Owner(x) = modHead[k]
                             \/ at' > 0 /\ Owner(x) = Cur' /\ ExitPos(x) > Done')
      BY DEF Standing
    <3>3. at' > 0 /\ ExitPos(x) > Done'
      BY <2>2, <3>1
    <3> QED
      BY <1>3, <1>2, <3>2, <3>3
  <2> QED
    BY <2>4, <2>5
<1>6. CASE Cur' \notin inited
  <2>1. todo' = << >>
    BY <1>3, <1>6 DEF ExitAt
  <2>2. TodoInv'
    BY <2>1 DEF TodoInv, Working
  <2>3. ASSUME NEW x \in Things, x[1] # "type"
        PROVE  Standing(x)' = (Owner(x) \in inited /\ \E k \in 1 .. at' : Owner(x) = modHead[k])
    <3>1. Standing(x)' = (/\ Owner(x) \in inited
                          /\ \/ \E k \in 1 .. at' - 1 : Owner(x) = modHead[k]
                             \/ at' > 0 /\ Owner(x) = Cur' /\ ExitPos(x) > Done')
      BY DEF Standing
    <3> QED
      BY <1>3, <1>6, <1>2, <3>1
  <2> QED
    BY <2>2, <2>3
<1> QED
  BY <1>5, <1>6

LEMMA InitModsLoads ==
  ASSUME LoadInv, InitMods
  PROVE  LoadInv'
<1>1. OrderInv' /\ phase = "ctor" /\ at = 0 /\ inited = {}
  BY DEF LoadInv, OrderInv, PhaseInv, InitMods
<1>2. Len(modHead) > 0 /\ Cur' = modHead[1] /\ Cur' \in DOMAIN Level
  BY ModsAssumption DEF LoadInv, OrderInv, InitMods, Range, Cur
<1>3. TodoInv' /\ Done' = 0
  BY <1>2, InitStarts DEF InitMods
<1>4. PhaseInv'
  BY <1>1, <1>2 DEF LoadInv, OrderInv, PhaseInv, InitMods
<1>5. \A x \in Things : ~Standing(x)
  BY <1>1 DEF Standing
<1>6. \A x \in Things : ~Standing(x)'
  BY <1>1, <1>3, ThingsFit DEF Standing, InitMods
<1>7. UpInv' /\ FileInv'
  BY <1>1, <1>5, <1>6 DEF LoadInv, UpInv, FileInv, InitMods, fsVars
<1> QED
  BY <1>1, <1>3, <1>4, <1>7 DEF LoadInv

LEMMA NotCore == << "mt", "core" >> \notin Things
<1>1. Owner(<< "mt", "core" >>) = "core"
  BY DEF Owner
<1>2. ~Placed(<< "mt", "core" >>)
  BY <1>1 DEF Placed
<1> QED
  BY <1>2, ThingsFit

(* What is before in the list.                                             *)
LEMMA Earlier ==
  ASSUME OrderInv, PhaseInv, at > 0, NEW k \in 1 .. at - 1
  PROVE  modHead[k] # Cur /\ Level[modHead[k]] <= Level[Cur] /\ modHead[k] \in Mods
  BY DEF OrderInv, PhaseInv, Cur

(* The end of an init: all that the part makes stands.                     *)
LEMMA InitEnds ==
  ASSUME OrderInv, PhaseInv, TodoInv, phase = "init", todo = << >>, NEW x \in Things
  PROVE  Standing(x) = (Owner(x) \in inited \cup {Cur})
<1>1. Done = Len(Now) /\ Now = Part[Cur].init
  BY CurIsPart, Starting DEF Done, Now
<1>2. Owner(x) = Cur => InitPos(x) <= Done
  BY <1>1, ThingsFit, Starting
<1> QED
  BY <1>2 DEF Standing

LEMMA ExitEnds ==
  ASSUME OrderInv, PhaseInv, TodoInv, phase \in {"exit", "undo"}, todo = << >>, NEW x \in Things, x[1] # "type"
  PROVE  Standing(x) = (Owner(x) \in inited /\ \E k \in 1 .. at - 1 : Owner(x) = modHead[k])
<1>1. Done = Len(Now) /\ Now = Part[Cur].exit
  BY CurIsPart, Starting DEF Done, Now
<1>2. Owner(x) = Cur => ~(ExitPos(x) > Done)
  BY <1>1, ThingsFit, Starting, CurIsPart
<1> QED
  BY <1>2 DEF Standing

LEMMA InitNextLoads ==
  ASSUME LoadInv, InitNext
  PROVE  LoadInv'
<1>1. OrderInv' /\ phase = "init" /\ todo = << >> /\ inited' = inited \cup {Cur} /\ modHead' = modHead
  BY DEF LoadInv, OrderInv, InitNext, Cur
<1>2. at \in 1 .. Len(modHead) /\ Len(modHead) \in Nat /\ Cur \in Mods /\ Cur = modHead[at]
  BY <1>1, CurIsPart DEF LoadInv, Cur, OrderInv
<1>3. inited' = {modHead[k] : k \in 1 .. at}
  <2>1. inited = {modHead[k] : k \in 1 .. at - 1}
    BY <1>1 DEF LoadInv, PhaseInv
  <2>2. \A k : k \in 1 .. at <=> k \in 1 .. at - 1 \/ k = at
    BY <1>2
  <2> QED
    BY <1>1, <1>2, <2>1, <2>2
<1>4. \A m \in inited', p \in Mods : Level[p] < Level[m] => p \in inited'
  <2> SUFFICES ASSUME NEW k \in 1 .. at, NEW p \in Mods, Level[p] < Level[modHead[k]] PROVE p \in inited'
    BY <1>3
  <2>1. Range(modHead) = Mods
    BY <1>1 DEF LoadInv, PhaseInv
  <2>2. PICK j \in 1 .. Len(modHead) : p = modHead[j]
    BY <2>1 DEF LoadInv, OrderInv, Range
  <2>3. Level[p] \in Nat /\ Level[modHead[k]] \in Nat
    BY <1>2, <2>2, ModsAssumption DEF LoadInv, OrderInv, Level
  <2>4. ~(k < j)
    BY <1>2, <2>2, <2>3 DEF LoadInv, OrderInv
  <2> QED
    BY <1>2, <1>3, <2>2, <2>4
<1>5. \A x \in Things : Standing(x) = (Owner(x) \in inited')
  BY <1>1, InitEnds DEF LoadInv
<1>6. \A x \in Things : x[1] = "type" /\ Owner(x) \in inited' => x \in up
  BY <1>1, <1>5 DEF LoadInv, UpInv
<1>7. CASE at < Len(modHead)
  <2>1. phase' = "init" /\ at' = at + 1 /\ Cur' = modHead[at + 1] /\ Cur' \in DOMAIN Level /\ todo' = Part[Cur'].init
        /\ up' = up /\ fileHead' = fileHead
    BY <1>1, <1>2, <1>7, ModsAssumption DEF InitNext, Cur, LoadInv, OrderInv, fsVars
  <2>2. TodoInv' /\ Done' = 0
    BY <2>1, InitStarts
  <2>3. PhaseInv'
    BY <1>1, <1>2, <1>3, <1>4, <1>7, <2>1 DEF LoadInv, PhaseInv
  <2>4. \A x \in Things : Standing(x)' = (Owner(x) \in inited')
    BY <2>1, <2>2, ThingsFit DEF Standing
  <2>5. UpInv' /\ FileInv'
    BY <1>1, <1>5, <1>6, <2>1, <2>4 DEF LoadInv, UpInv, FileInv
  <2> QED
    BY <1>1, <2>2, <2>3, <2>5 DEF LoadInv
<1>8. CASE ~(at < Len(modHead))
  <2>1. phase' = "run" /\ at' = at /\ at = Len(modHead) /\ up' = up \cup {<< "mt", "core" >>} /\ fileHead' = fileHead
    BY <1>2, <1>8 DEF InitNext, fsVars
  <2>2. TodoInv'
    BY <2>1 DEF TodoInv, Working
  <2>3. inited' = Mods
    BY <1>1, <1>3, <2>1 DEF LoadInv, PhaseInv, OrderInv, Range
  <2>4. PhaseInv'
    BY <1>1, <1>2, <1>4, <2>1, <2>3 DEF LoadInv, PhaseInv
  <2>5. \A x \in Things : Standing(x)' = (Owner(x) \in inited')
    BY <2>1 DEF Standing
  <2>6. FileInv'
    BY <1>1, <1>5, <2>1, <2>5 DEF LoadInv, FileInv
  <2>7. up' \subseteq Things \cup {<< "mt", "core" >>} /\ \A x \in up' : x[1] # "file"
    BY <2>1 DEF LoadInv, UpInv
  <2>8. \A x \in Things : x \in up' <=> x \in up
    BY <2>1, NotCore
  <2>9. UpInv'
    BY <1>1, <1>5, <1>6, <2>1, <2>5, <2>7, <2>8 DEF LoadInv, UpInv
  <2> QED
    BY <1>1, <2>2, <2>4, <2>6, <2>9 DEF LoadInv
<1> QED
  BY <1>7, <1>8

(* A part that fails has made nothing yet, but for the driver of fdd, and  *)
(* fdd itself is not initialised.                                          *)
LEMMA FailsEarly ==
  ASSUME LoadInv, InitFails
  PROVE  /\ phase = "init" /\ "fdd" \notin inited
         /\ \A x \in Things : x # << "drv", "mem" >> => Standing(x) = (Owner(x) \in inited)
<1>1. PICK k \in {"fstype", "root", "inst"} : Doing("add", k)
  BY DEF InitFails
<1>2. /\ phase = "init" /\ Thing(Call) \in Things /\ Owner(Thing(Call)) = Cur
      /\ InitPos(Thing(Call)) = Done + 1 /\ Done \in Nat /\ Thing(Call)[1] = k
  BY <1>1, CallFits DEF Doing, LoadInv, Thing
<1>3. Cur \in {"vafs", "mt", "fdd"} /\ (Done = 0 \/ (Cur = "fdd" /\ Done = 1))
  BY <1>2, ThingsFit DEF Placed
<1>4. "fdd" \notin inited
  <2> SUFFICES ASSUME "fdd" \in inited PROVE FALSE
    OBVIOUS
  <2>1. PICK j \in 1 .. at - 1 : modHead[j] = "fdd"
    BY <1>2 DEF LoadInv, PhaseInv
  <2>2. "fdd" # Cur /\ Level["fdd"] <= Level[Cur]
    BY <1>2, <2>1, Earlier DEF LoadInv, PhaseInv
  <2> QED
    BY <1>3, <2>2 DEF Level
<1>5. ASSUME NEW x \in Things, x # << "drv", "mem" >>
      PROVE  Standing(x) = (Owner(x) \in inited)
  <2>1. ~(Owner(x) = Cur /\ InitPos(x) <= Done)
    <3> SUFFICES ASSUME Owner(x) = Cur, InitPos(x) <= Done PROVE FALSE
      OBVIOUS
    <3>1. InitPos(x) \in Nat /\ InitPos(x) > 0
      BY ThingsFit, Starting
    <3>2. Cur = "fdd" /\ InitPos(x) = 1
      BY <1>2, <1>3, <3>1
    <3> QED
      BY <1>5, <3>2, Needed, OneAtAPlace
  <2> QED
    BY <1>2, <2>1 DEF Standing
<1> QED
  BY <1>2, <1>4, <1>5

LEMMA InitFailsLoads ==
  ASSUME LoadInv, InitFails
  PROVE  LoadInv'
<1>1. /\ OrderInv' /\ phase' = "undo" /\ at' = Len(modHead) /\ at' \in 1 .. Len(modHead')
      /\ modHead' = modHead /\ inited' = inited /\ up' = up /\ fileHead' = fileHead /\ ExitAt(at')
  BY FailsEarly, CurIsPart DEF LoadInv, OrderInv, InitFails, ModsExit, ExitAt, fsVars
<1>2. TodoInv' /\ \A x \in Things : x[1] # "type" =>
        Standing(x)' = (Owner(x) \in inited /\ \E k \in 1 .. at' : Owner(x) = modHead[k])
  BY <1>1, ExitStarts
<1>3. PhaseInv'
  BY <1>1, FailsEarly DEF LoadInv, PhaseInv
<1>4. \A m \in inited : \E k \in 1 .. at' : m = modHead[k]
  BY <1>1, FailsEarly DEF LoadInv, OrderInv, PhaseInv, Range
<1>5. \A x \in Things : x[1] # "type" => Standing(x)' = (Owner(x) \in inited)
  BY <1>2, <1>4
<1>6. UpInv'
  BY <1>1, <1>5, FailsEarly DEF LoadInv, UpInv, Sure
<1>7. ASSUME NEW f \in fileHead PROVE << "file", f >> \in Things /\ Standing(<< "file", f >>)'
  <2>1. << "file", f >> # << "drv", "mem" >> /\ << "file", f >>[1] # "type"
    OBVIOUS
  <2>2. << "file", f >> \in Things /\ Standing(<< "file", f >>)
    BY FailsEarly DEF LoadInv, FileInv
  <2> QED
    BY <1>5, <2>1, <2>2, FailsEarly
<1>8. FileInv'
  BY <1>1, <1>7 DEF FileInv
<1> QED
  BY <1>1, <1>2, <1>3, <1>6, <1>8 DEF LoadInv

LEMMA UnloadLoads ==
  ASSUME LoadInv, Unload
  PROVE  LoadInv'
<1>1. /\ OrderInv' /\ phase = "run" /\ phase' = "exit" /\ at' = Len(modHead) /\ at' \in 1 .. Len(modHead')
      /\ modHead' = modHead /\ inited' = inited /\ inited = Mods /\ fileHead' = fileHead /\ ExitAt(at')
      /\ up' = up \ {<< "mt", "core" >>}
  BY ModsAssumption DEF LoadInv, OrderInv, PhaseInv, Range, Unload, ExitAt, fsVars
<1>2. TodoInv' /\ \A x \in Things : x[1] # "type" =>
        Standing(x)' = (Owner(x) \in inited /\ \E k \in 1 .. at' : Owner(x) = modHead[k])
  BY <1>1, ExitStarts
<1>3. PhaseInv'
  BY <1>1 DEF LoadInv, PhaseInv
<1>4. \A m \in inited : \E k \in 1 .. at' : m = modHead[k]
  BY <1>1 DEF LoadInv, OrderInv, PhaseInv, Range
<1>5. \A x \in Things : x[1] # "type" => Standing(x)' = Standing(x)
  BY <1>1, <1>2, <1>4 DEF Standing
<1>6. \A x \in Things : x \in up' <=> x \in up
  BY <1>1, NotCore
<1>7. UpInv'
  BY <1>1, <1>5, <1>6 DEF LoadInv, UpInv, Sure
<1>8. ASSUME NEW f \in fileHead PROVE << "file", f >> \in Things /\ Standing(<< "file", f >>)'
  <2>1. << "file", f >>[1] # "type"
    OBVIOUS
  <2> QED
    BY <1>1, <1>5, <2>1 DEF LoadInv, FileInv
<1>9. FileInv'
  BY <1>1, <1>8 DEF FileInv
<1> QED
  BY <1>1, <1>2, <1>3, <1>7, <1>9 DEF LoadInv

LEMMA ExitNextLoads ==
  ASSUME LoadInv, ExitNext
  PROVE  LoadInv'
<1>1. /\ OrderInv' /\ phase \in {"exit", "undo"} /\ todo = << >> /\ modHead' = modHead /\ inited' = inited
      /\ fileHead' = fileHead /\ up' = up
  BY DEF LoadInv, OrderInv, ExitNext, fsVars
<1>2. at \in 1 .. Len(modHead) /\ Len(modHead) \in Nat
  BY <1>1, CurIsPart DEF LoadInv, OrderInv
<1>3. \A x \in Things : x[1] # "type" =>
        Standing(x) = (Owner(x) \in inited /\ \E k \in 1 .. at - 1 : Owner(x) = modHead[k])
  BY <1>1, ExitEnds DEF LoadInv
<1>4. PhaseInv' /\ TodoInv' /\ (\A x \in Things : x[1] # "type" => Standing(x)' = Standing(x))
      /\ phase' \notin {"ctor", "init", "oops"} /\ (phase' \in {"undo", "failed"} <=> phase = "undo")
  <2>1. CASE at > 1
    <3>1. phase' = phase /\ at' = at - 1 /\ at' \in 1 .. Len(modHead') /\ ExitAt(at')
      BY <1>1, <1>2, <2>1 DEF ExitNext, ExitAt
    <3>2. TodoInv' /\ \A x \in Things : x[1] # "type" =>
            Standing(x)' = (Owner(x) \in inited /\ \E k \in 1 .. at' : Owner(x) = modHead[k])
      BY <1>1, <3>1, ExitStarts
    <3>3. PhaseInv'
      BY <1>1, <3>1 DEF LoadInv, PhaseInv
    <3> QED
      BY <1>1, <1>3, <3>1, <3>2, <3>3
  <2>2. CASE ~(at > 1)
    <3>1. at = 1 /\ at' = 0 /\ phase' = IF phase = "exit" THEN "off" ELSE "failed"
      BY <1>2, <2>2 DEF ExitNext, ExitAt
    <3>2. PhaseInv'
      BY <1>1, <1>2, <3>1 DEF LoadInv, PhaseInv
    <3>3. TodoInv'
      BY <3>1 DEF TodoInv, Working
    <3>4. ASSUME NEW x \in Things, x[1] # "type" PROVE Standing(x)' = Standing(x)
      <4>1. ~ \E k \in 1 .. at - 1 : Owner(x) = modHead[k]
        BY <3>1
      <4>2. Standing(x) = FALSE
        BY <1>3, <3>4, <4>1
      <4>3. Standing(x)' = FALSE
        BY <3>1 DEF Standing
      <4> QED
        BY <4>2, <4>3
    <3> QED
      BY <1>1, <3>1, <3>2, <3>3, <3>4
  <2> QED
    BY <2>1, <2>2
<1>5. UpInv'
  BY <1>1, <1>4 DEF LoadInv, UpInv, Sure
<1>6. ASSUME NEW f \in fileHead PROVE << "file", f >> \in Things /\ Standing(<< "file", f >>)'
  <2>1. << "file", f >>[1] # "type"
    OBVIOUS
  <2> QED
    BY <1>1, <1>4, <2>1 DEF LoadInv, FileInv
<1>7. FileInv'
  BY <1>1, <1>6 DEF FileInv
<1> QED
  BY <1>1, <1>4, <1>5, <1>7 DEF LoadInv

(* The drivers of channels come after the board's devices, and go before.  *)
LEMMA NoDriverYet ==
  ASSUME LoadInv, phase \in {"init", "exit", "undo"}, Level[Cur] < 5, NEW d \in {"vdec", "venc", "net"}
  PROVE  << "drv", d >> \notin up
<1> DEFINE x == << "drv", d >>
<1>1. x \in Things /\ x[1] = "drv" /\ x[2] = d /\ x # << "drv", "mem" >> /\ x[1] # "type"
  BY TypeFirst
<1> HIDE DEF x
<1>2. Owner(x) \in {"vdec", "venc", "vnchan"}
  BY <1>1, ThingsFit DEF Placed
<1>3. Level[Owner(x)] = 5
  BY <1>2 DEF Level
<1>4. Owner(x) # Cur /\ ~ \E k \in 1 .. at - 1 : Owner(x) = modHead[k]
  <2>1. \A k \in 1 .. at - 1 : Level[modHead[k]] <= Level[Cur]
    BY Earlier DEF LoadInv, PhaseInv
  <2>2. Level[Cur] \in Nat /\ Level[Cur] < 5
    BY CurIsPart DEF LoadInv, Level
  <2> QED
    BY <1>3, <2>1, <2>2
<1>5. phase = "init" => inited = {modHead[k] : k \in 1 .. at - 1}
  BY DEF LoadInv, PhaseInv
<1>6. ~Standing(x)
  BY <1>4, <1>5 DEF Standing
<1>7. x \in up <=> Standing(x)
  BY <1>1 DEF LoadInv, UpInv, Sure
<1> QED
  BY <1>6, <1>7 DEF x

(* Of devices the board's part makes none that a driver of channels is     *)
(* there for.                                                              *)
LEMMA DeviceFirst ==
  ASSUME LoadInv, phase \in {"init", "exit", "undo"}, todo # << >>, Call.kind = "dev"
  PROVE  \A d \in {"vdec", "venc", "net"} : << "drv", d >> \notin up
<1>1. Thing(Call) \in Things /\ Owner(Thing(Call)) = Cur /\ Thing(Call)[1] = "dev"
  BY CallFits DEF LoadInv, Thing
<1>2. Cur = "board_xxx"
  BY <1>1, ThingsFit DEF Placed
<1>3. Level[Cur] < 5
  BY <1>2 DEF Level
<1> QED
  BY <1>3, NoDriverYet

LEMMA DoingIs ==
  ASSUME LoadInv, NEW do, NEW k, Doing(do, k)
  PROVE  /\ phase \in {"init", "exit", "undo"} /\ todo # << >> /\ Call.do = do /\ Call.kind = k
         /\ do = "add" => phase = "init"
         /\ do = "del" => phase # "init"
  BY CallFits DEF LoadInv, Doing

LEMMA LoadStill ==
  ASSUME LoadInv, UNCHANGED << coreVars, fileHead >>
  PROVE  LoadInv'
  BY DEF LoadInv, coreVars, OrderInv, PhaseInv, TodoInv, Working, UpInv, FileInv, Standing, Sure, Done, Now, Cur

(* Every step of the loading.                                              *)
LEMMA LoadKept ==
  ASSUME LoadInv, Load
  PROVE  LoadInv'
<1> USE DEF LoadInv
<1>1. CASE \E m \in Mods : RegMod(m)
  BY <1>1, RegModLoads
<1>2. CASE InitMods
  BY <1>2, InitModsLoads
<1>3. CASE InitFails
  BY <1>3, InitFailsLoads
<1>4. CASE InitNext
  BY <1>4, InitNextLoads
<1>5. CASE Unload
  BY <1>5, UnloadLoads
<1>6. CASE ExitNext
  BY <1>6, ExitNextLoads
<1>7. ASSUME NEW k, Doing("add", k), k # "file", Made, Returned, UNCHANGED fsVars
      PROVE  LoadInv'
  BY <1>7, DoingIs, MadeUp, ReturnedDone DEF fsVars
<1>8. ASSUME NEW k, Doing("del", k), k # "file", TakenBack, Returned, UNCHANGED fsVars
      PROVE  LoadInv'
  BY <1>8, DoingIs, TakenDown, ReturnedDone DEF fsVars
<1>9. CASE RegDrv
  BY <1>7, <1>9 DEF RegDrv
<1>10. CASE UnRegDrv
  BY <1>8, <1>10 DEF UnRegDrv
<1>11. CASE RegDev
  <2>1. Doing("add", "dev") /\ Returned /\ UNCHANGED fsVars
    BY <1>11 DEF RegDev
  <2>2. ~(<< "drv", Call.name >> \in up /\ StartFails(Call.name))
    BY <2>1, DoingIs, DeviceFirst DEF StartFails
  <2>3. Made
    BY <1>11, <2>2 DEF RegDev
  <2> QED
    BY <1>7, <2>1, <2>3
<1>12. CASE UnRegDev
  BY <1>8, <1>12 DEF UnRegDev
<1>13. CASE RegName
  <2>1. Doing("add", "file") /\ Returned /\ up' = up /\ RegFile(Call.name)
    BY <1>13 DEF RegName
  <2>2. fileHead' \subseteq fileHead \cup {Call.name}
    BY <2>1 DEF RegFile
  <2> QED
    BY <2>1, <2>2, DoingIs, FileKept, ReturnedDone
<1>14. CASE UnRegName
  <2>1. Doing("del", "file") /\ up' = up
    BY <1>14 DEF UnRegName
  <2>2. CASE UnRegFaults(Call.name)
    <3>1. phase' = "oops" /\ UNCHANGED << modHead, at, todo, inited, fileHead >>
      BY <1>14, <2>2 DEF UnRegName, fsVars
    <3>2. phase \in {"exit", "undo"}
      BY <2>1, DoingIs
    <3>3. OrderInv' /\ PhaseInv'
      BY <3>1, <3>2 DEF OrderInv, PhaseInv
    <3> QED
      BY <2>1, <3>1, <3>2, <3>3 DEF TodoInv, Working, UpInv, FileInv
  <2>3. CASE ~UnRegFaults(Call.name)
    <3>1. fileHead' = fileHead \ {Call.name} /\ Returned
      BY <1>14, <2>3 DEF UnRegName, UnRegFile
    <3> QED
      BY <2>1, <3>1, DoingIs, FileKept, ReturnedDone
  <2> QED
    BY <2>2, <2>3
<1>15. CASE Make
  BY <1>7, <1>15 DEF Make, Kinds
<1>16. CASE TakeBack
  BY <1>8, <1>16 DEF TakeBack, Kinds
<1>17. CASE DestroyTbl
  BY <1>17, LoadStill DEF DestroyTbl, fsVars
<1> QED
  BY <1>1, <1>2, <1>3, <1>4, <1>5, <1>6, <1>9, <1>10, <1>11, <1>12, <1>13, <1>14, <1>15, <1>16, <1>17 DEF Load

LEMMA LoadInvNext == LoadInv /\ [Next]_vars => LoadInv'
<1> SUFFICES ASSUME LoadInv, [Next]_vars PROVE LoadInv'
  OBVIOUS
<1>1. CASE Load
  BY <1>1, LoadKept
<1>2. CASE Programs
  BY <1>2, LoadStill DEF Programs, Mount, Umount, fsVars
<1>3. CASE UNCHANGED vars
  BY <1>3, LoadStill DEF vars, fsVars
<1> QED
  BY <1>1, <1>2, <1>3 DEF Next

LEMMA LoadInvAlways == Spec => []LoadInv
  BY LoadInit, LoadInvNext, PTL DEF Spec

-----------------------------------------------------------------------------
(* What is started, and once.                                              *)

(* Nothing is made that is there.                                          *)
LEMMA NotYet ==
  ASSUME LoadInv, phase \in {"init", "exit", "undo"}, todo # << >>, Call.do = "add"
  PROVE  Thing(Call) \notin up
<1>1. /\ Thing(Call) \in Things /\ Owner(Thing(Call)) = Cur /\ phase = "init"
      /\ InitPos(Thing(Call)) = Done + 1 /\ Done \in Nat
  BY CallFits DEF LoadInv
<1>2. CASE Thing(Call)[1] = "file"
  BY <1>2 DEF LoadInv, UpInv
<1>3. CASE Thing(Call)[1] # "file"
  <2>1. Cur \notin inited
    BY <1>1, Earlier DEF LoadInv, PhaseInv
  <2>2. ~Standing(Thing(Call))
    BY <1>1, <2>1 DEF Standing
  <2> QED
    BY <1>1, <1>3, <2>2 DEF LoadInv, UpInv
<1> QED
  BY <1>2, <1>3

LEMMA StartedStill ==
  ASSUME StartTypes, StartedOnce, UNCHANGED started,
         \A d \in Dev, k \in {"dev", "drv"} : << k, d >> \in up' <=> << k, d >> \in up
  PROVE  StartTypes' /\ StartedOnce'
  BY DEF StartTypes, StartedOnce

(* A device and its driver meet.                                           *)
LEMMA StartedMeets ==
  ASSUME StartTypes, StartedOnce, NEW n, NEW k \in {"dev", "drv"}, << k, n >> \notin up, up' = up \cup {<< k, n >>},
         IF << IF k = "drv" THEN "dev" ELSE "drv", n >> \in up
         THEN \/ started' = [started EXCEPT ![n] = IF @ = "no" THEN "on" ELSE "twice"]
              \/ started' = [started EXCEPT ![n] = "bad"]
         ELSE started' = started
  PROVE  StartTypes' /\ StartedOnce'
<1>1. StartTypes'
  BY DEF StartTypes
<1>2. ASSUME NEW d \in Dev
      PROVE  IF {<< "dev", d >>, << "drv", d >>} \subseteq up'
             THEN started'[d] \in {"on", "bad"} ELSE started'[d] = "no"
  <2>1. IF {<< "dev", d >>, << "drv", d >>} \subseteq up THEN started[d] \in {"on", "bad"} ELSE started[d] = "no"
    BY DEF StartedOnce
  <2>2. CASE d # n
    <3>1. started'[d] = started[d]
      BY <2>2 DEF StartTypes
    <3>2. << "dev", d >> \in up' <=> << "dev", d >> \in up
      BY <2>2
    <3>3. << "drv", d >> \in up' <=> << "drv", d >> \in up
      BY <2>2
    <3> QED
      BY <2>1, <3>1, <3>2, <3>3
  <2>3. CASE d = n /\ k = "drv"
    <3>1. started[d] = "no" /\ << "drv", d >> \in up'
      BY <2>1, <2>3
    <3>2. << "dev", d >> \in up' <=> << "dev", d >> \in up
      BY <2>3
    <3> QED
      BY <2>3, <3>1, <3>2 DEF StartTypes
  <2>4. CASE d = n /\ k = "dev"
    <3>1. started[d] = "no" /\ << "dev", d >> \in up'
      BY <2>1, <2>4
    <3>2. << "drv", d >> \in up' <=> << "drv", d >> \in up
      BY <2>4
    <3> QED
      BY <2>4, <3>1, <3>2 DEF StartTypes
  <2> QED
    BY <2>2, <2>3, <2>4
<1> QED
  BY <1>1, <1>2 DEF StartedOnce

(* They part.                                                              *)
LEMMA StartedParts ==
  ASSUME StartTypes, StartedOnce, NEW n, NEW k \in {"dev", "drv"}, up' = up \ {<< k, n >>},
         IF {<< "dev", n >>, << "drv", n >>} \subseteq up THEN started' = [started EXCEPT ![n] = "no"]
         ELSE started' \in {started, [started EXCEPT ![n] = "no"]}
  PROVE  StartTypes' /\ StartedOnce'
<1>1. StartTypes'
  BY DEF StartTypes
<1>2. ASSUME NEW d \in Dev
      PROVE  IF {<< "dev", d >>, << "drv", d >>} \subseteq up'
             THEN started'[d] \in {"on", "bad"} ELSE started'[d] = "no"
  <2>1. IF {<< "dev", d >>, << "drv", d >>} \subseteq up THEN started[d] \in {"on", "bad"} ELSE started[d] = "no"
    BY DEF StartedOnce
  <2>2. CASE d # n
    <3>1. started'[d] = started[d]
      BY <2>2 DEF StartTypes
    <3>2. << "dev", d >> \in up' <=> << "dev", d >> \in up
      BY <2>2
    <3>3. << "drv", d >> \in up' <=> << "drv", d >> \in up
      BY <2>2
    <3> QED
      BY <2>1, <3>1, <3>2, <3>3
  <2>3. CASE d = n
    <3>1. started'[d] = "no"
      BY <2>1, <2>3 DEF StartTypes
    <3>2. ~({<< "dev", d >>, << "drv", d >>} \subseteq up')
      BY <2>3
    <3> QED
      BY <3>1, <3>2
  <2> QED
    BY <2>2, <2>3
<1> QED
  BY <1>1, <1>2 DEF StartedOnce

LEMMA StartedKept ==
  ASSUME LoadInv, StartTypes, StartedOnce, Load
  PROVE  StartTypes' /\ StartedOnce'
<1>1. ASSUME UNCHANGED << started, up >>
      PROVE  StartTypes' /\ StartedOnce'
  BY <1>1, StartedStill
<1>2. CASE RegDrv
  <2>1. Doing("add", "drv") /\ up' = up \cup {<< "drv", Call.name >>} /\ << "drv", Call.name >> \notin up
    BY <1>2, DoingIs, NotYet DEF RegDrv, Made, Thing
  <2>2. IF << "dev", Call.name >> \in up
        THEN \/ started' = [started EXCEPT ![Call.name] = IF @ = "no" THEN "on" ELSE "twice"]
             \/ started' = [started EXCEPT ![Call.name] = "bad"]
        ELSE started' = started
    BY <1>2 DEF RegDrv, DrvMatch, Start
  <2> QED
    BY <2>1, <2>2, StartedMeets
<1>3. CASE UnRegDrv
  <2>1. up' = up \ {<< "drv", Call.name >>}
    BY <1>3, DoingIs DEF UnRegDrv, TakenBack
  <2>2. IF << "dev", Call.name >> \in up THEN started' = [started EXCEPT ![Call.name] = "no"] ELSE started' = started
    BY <1>3 DEF UnRegDrv, Stop
  <2> QED
    BY <2>1, <2>2, StartedParts
<1>4. CASE RegDev
  <2>1. Doing("add", "dev") /\ << "dev", Call.name >> \notin up
    BY <1>4, DoingIs, NotYet DEF RegDev, Thing
  <2>2. CASE Made
    <3>1. up' = up \cup {<< "dev", Call.name >>}
      BY <2>1, <2>2, DoingIs DEF Made
    <3>2. << "dev", Call.name >> \in up'
      BY <3>1
    <3>3. IF << "drv", Call.name >> \in up
          THEN started' = [started EXCEPT ![Call.name] = IF @ = "no" THEN "on" ELSE "twice"]
          ELSE started' = started
      BY <1>4, <2>1, <3>2 DEF RegDev, Start
    <3> QED
      BY <2>1, <3>1, <3>3, StartedMeets
  <2>3. CASE ~Made
    BY <1>1, <1>4, <2>3 DEF RegDev
  <2> QED
    BY <2>2, <2>3
<1>5. CASE UnRegDev
  <2>1. up' = up \ {<< "dev", Call.name >>}
    BY <1>5, DoingIs DEF UnRegDev, TakenBack
  <2>2. IF {<< "dev", Call.name >>, << "drv", Call.name >>} \subseteq up
        THEN started' = [started EXCEPT ![Call.name] = "no"] ELSE started' = started
    BY <1>5 DEF UnRegDev, Stop
  <2> QED
    BY <2>1, <2>2, StartedParts
<1>6. CASE Make \/ TakeBack
  <2>1. PICK k \in Kinds : Call.kind = k
    BY <1>6 DEF Make, TakeBack, Doing
  <2>2. Call.kind \notin {"dev", "drv"} /\ up' \in {up \cup {<< Call.kind, Call.name >>}, up \ {<< Call.kind, Call.name >>}}
        /\ UNCHANGED started
    BY <1>6, <2>1 DEF Make, TakeBack, Kinds, Made, TakenBack
  <2> QED
    BY <2>2, StartedStill
<1>7. CASE InitNext \/ Unload
  <2>1. up' \in {up, up \cup {<< "mt", "core" >>}, up \ {<< "mt", "core" >>}} /\ UNCHANGED started
    BY <1>7 DEF InitNext, Unload
  <2> QED
    BY <2>1, StartedStill
<1>8. CASE (\E m \in Mods : RegMod(m)) \/ InitMods \/ InitFails \/ ExitNext \/ RegName \/ UnRegName \/ DestroyTbl
  BY <1>1, <1>8 DEF RegMod, InitMods, InitFails, ExitNext, RegName, UnRegName, DestroyTbl, coreVars
<1> QED
  BY <1>2, <1>3, <1>4, <1>5, <1>6, <1>7, <1>8 DEF Load

-----------------------------------------------------------------------------
(* The references of channels: each operation of VaChan.                   *)

(* How far a channel is that is made or taken back.                        *)
LEMMA NowAt ==
  ASSUME NEW c \in Chan, NEW a, IsAt(c, a)
  PROVE  \A e \in Chan : \A b : IsAt(e, b) <=> e = c /\ b = a
  BY DEF IsAt

LEMMA NextAt ==
  ASSUME NEW c \in Chan, NEW a, Goes(c, a)
  PROVE  \A e \in Chan : \A b : IsAt(e, b)' <=> e = c /\ b = a
  BY DEF IsAt, Goes

LEMMA NowIdle ==
  ASSUME busy = Idle, NEW e \in Chan
  PROVE  Untouched(e) /\ ~Deleting(e) /\ (InTable(e) <=> e \in chanTbl)
<1>1. \A b : [chan |-> e, at |-> b] # Idle
  BY NullAssumption DEF Idle
<1>2. \A b : ~IsAt(e, b)
  BY <1>1 DEF IsAt
<1> QED
  BY <1>2 DEF Untouched, Deleting, InTable

LEMMA NextIdle ==
  ASSUME busy' = Idle, NEW e \in Chan
  PROVE  /\ \A b : ~IsAt(e, b)'
         /\ Untouched(e)' /\ ~Deleting(e)' /\ (InTable(e)' <=> e \in chanTbl')
<1>1. \A b : [chan |-> e, at |-> b] # Idle
  BY NullAssumption DEF Idle
<1>2. \A b : ~IsAt(e, b)'
  BY <1>1 DEF IsAt
<1> QED
  BY <1>2 DEF Untouched, Deleting, InTable

LEMMA RefInit == Init => ChanTypes /\ BusyInv /\ RefInv /\ LookInv
<1> SUFFICES ASSUME Init PROVE ChanTypes /\ BusyInv /\ RefInv /\ LookInv
  OBVIOUS
<1> USE DEF Init, ChanInit
<1>1. ChanTypes
  BY NullAssumption DEF ChanTypes, NoBind
<1>2. ASSUME NEW c \in Chan
      PROVE  Filed(c) = {} /\ Binders(c) = {} /\ ref[c] = 0 /\ lost[c] = 0 /\ c \notin chanTbl
  BY NullAssumption DEF Filed, Binders, NoBind
<1>3. ASSUME NEW c \in Chan PROVE Untouched(c) /\ ~Deleting(c) /\ ~InTable(c)
  BY NowIdle
<1>4. BusyInv
  BY <1>3 DEF BusyInv, Untouched
<1>5. RefInv
  <2>1. IsFiniteSet({}) /\ Cardinality({}) = 0
    BY FS_EmptySet
  <2>2. ASSUME NEW c \in Chan PROVE ref[c] = Owed(c)
    <3>1. Owed(c) = Cardinality(Filed(c)) + Cardinality(Binders(c)) + lost[c] + 0 + 0
      BY <1>3 DEF Owed
    <3>2. Cardinality(Filed(c)) = 0 /\ Cardinality(Binders(c)) = 0 /\ lost[c] = 0 /\ ref[c] = 0
      BY Zenon, <1>2, <2>1
    <3> HIDE DEF Init
    <3> QED
      BY ONLY <3>1, <3>2
  <2> QED
    BY <1>2, <2>1, <2>2 DEF RefInv
<1>6. LookInv
  BY NullAssumption DEF LookInv, NoBind
<1> QED
  BY <1>1, <1>4, <1>5, <1>6

(* What is owed is a number.                                               *)
TabRef(c) == IF InTable(c) THEN 1 ELSE 0
DelRef(c) == IF Deleting(c) THEN 1 ELSE 0

LEMMA OwedIs ==
  ASSUME ChanTypes, RefInv, NEW c \in Chan
  PROVE  /\ IsFiniteSet(Filed(c)) /\ Cardinality(Filed(c)) \in Nat
         /\ IsFiniteSet(Binders(c)) /\ Cardinality(Binders(c)) \in Nat
         /\ TabRef(c) \in {0, 1} /\ DelRef(c) \in {0, 1} /\ lost[c] \in Nat /\ ref[c] \in Nat
         /\ Owed(c) = Cardinality(Filed(c)) + Cardinality(Binders(c)) + lost[c] + TabRef(c) + DelRef(c)
         /\ Owed(c) \in Nat /\ (c \notin stale => ref[c] = Owed(c))
<1>1. IsFiniteSet(Filed(c)) /\ IsFiniteSet(Binders(c))
  BY DEF RefInv
<1>2. Cardinality(Filed(c)) \in Nat /\ Cardinality(Binders(c)) \in Nat
  BY <1>1, FS_CardinalityType
<1>3. TabRef(c) \in {0, 1} /\ DelRef(c) \in {0, 1}
  BY DEF TabRef, DelRef
<1>4. Owed(c) = Cardinality(Filed(c)) + Cardinality(Binders(c)) + lost[c] + TabRef(c) + DelRef(c)
  BY DEF Owed, TabRef, DelRef
<1>5. lost[c] \in Nat /\ ref[c] \in Nat
  BY DEF ChanTypes
<1> HIDE DEF TabRef, DelRef
<1> QED
  BY <1>1, <1>2, <1>3, <1>4, <1>5 DEF RefInv

LEMMA HeldIsOwed ==
  ASSUME ChanTypes, RefInv, NEW c \in Chan, c \notin stale,
         Filed(c) # {} \/ Binders(c) # {} \/ InTable(c) \/ Deleting(c)
  PROVE  ref[c] > 0
<1>1. Filed(c) # {} => Cardinality(Filed(c)) # 0
  BY OwedIs, FS_EmptySet
<1>2. Binders(c) # {} => Cardinality(Binders(c)) # 0
  BY OwedIs, FS_EmptySet
<1>3. (InTable(c) => TabRef(c) = 1) /\ (Deleting(c) => DelRef(c) = 1)
  BY Zenon DEF TabRef, DelRef
<1>4. Cardinality(Filed(c)) # 0 \/ Cardinality(Binders(c)) # 0 \/ TabRef(c) = 1 \/ DelRef(c) = 1
  BY Zenon, <1>1, <1>2, <1>3
<1> QED
  BY <1>4, OwedIs

(* Nobody holds a channel when no file is open.                            *)
LEMMA NoneHeld ==
  ASSUME ChanTypes, opened = {}, NEW c \in Chan
  PROVE  Filed(c) = {} /\ Binders(c) = {} /\ \A t \in Thread : binding[t] = NoBind
<1>1. Filed(c) = {}
  BY NullAssumption DEF ChanTypes, Filed
<1>2. \A t \in Thread : binding[t] = NoBind
  BY DEF ChanTypes
<1>3. NoBind.got = FALSE
  BY DEF NoBind
<1> QED
  BY <1>1, <1>2, <1>3 DEF Binders

LEMMA RefStill ==
  ASSUME ChanTypes, BusyInv, RefInv, LookInv, UNCHANGED chanVars
  PROVE  ChanTypes' /\ BusyInv' /\ RefInv' /\ LookInv'
<1>1. \A c : InTable(c)' <=> InTable(c)
  BY DEF chanVars, InTable, IsAt
<1>2. \A c : Deleting(c)' <=> Deleting(c)
  BY DEF chanVars, Deleting, IsAt
<1>3. \A c : Filed(c)' = Filed(c) /\ Binders(c)' = Binders(c)
  BY DEF chanVars, Filed, Binders
<1>4. \A c : Owed(c)' = Owed(c)
  BY <1>1, <1>2, <1>3 DEF Owed, chanVars
<1>5. \A c, a : IsAt(c, a)' <=> IsAt(c, a)
  BY DEF chanVars, IsAt
<1>6. ChanTypes'
  BY DEF ChanTypes, chanVars
<1>7. BusyInv'
  BY <1>2, <1>5 DEF BusyInv, chanVars
<1>8. RefInv'
  BY <1>1, <1>2, <1>3, <1>4 DEF RefInv, chanVars
<1>9. LookInv'
  BY <1>1 DEF LookInv, chanVars
<1> QED
  BY <1>6, <1>7, <1>8, <1>9

(* A channel is made or taken back: its reference comes and goes with its  *)
(* place in the table and the deletion that has counted it.                *)
LEMMA RefsMove ==
  ASSUME ChanTypes, RefInv, UNCHANGED fdVars, chanTbl' \subseteq Chan, ref' \in [Chan -> Int],
         \A c \in Chan :
           /\ c \in stale => ref'[c] = ref[c] /\ ~InTable(c)' /\ ~Deleting(c)'
           /\ c \notin stale => ref'[c] + TabRef(c) + DelRef(c) = ref[c] + TabRef(c)' + DelRef(c)'
  PROVE  ChanTypes' /\ RefInv'
<1>1. UNCHANGED << opened, priv, binding, lost, stale >>
  BY DEF fdVars
<1>2. \A c : Filed(c)' = Filed(c) /\ Binders(c)' = Binders(c)
  BY <1>1 DEF Filed, Binders
<1>3. ASSUME NEW c \in Chan, c \notin stale PROVE ref'[c] = Owed(c)' /\ ref'[c] \in Nat
  <2>1. Owed(c)' = Cardinality(Filed(c)) + Cardinality(Binders(c)) + lost[c] + TabRef(c)' + DelRef(c)'
    BY <1>1, <1>2 DEF Owed, TabRef, DelRef
  <2>2. TabRef(c)' \in {0, 1} /\ DelRef(c)' \in {0, 1}
    BY DEF TabRef, DelRef
  <2>3. ref'[c] + TabRef(c) + DelRef(c) = ref[c] + TabRef(c)' + DelRef(c)' /\ ref'[c] \in Int
    BY <1>3
  <2>4. /\ Cardinality(Filed(c)) \in Nat /\ Cardinality(Binders(c)) \in Nat /\ lost[c] \in Nat
        /\ TabRef(c) \in {0, 1} /\ DelRef(c) \in {0, 1}
        /\ ref[c] = Cardinality(Filed(c)) + Cardinality(Binders(c)) + lost[c] + TabRef(c) + DelRef(c)
    BY <1>3, OwedIs
  <2> DEFINE T == TabRef(c)'
             D == DelRef(c)'
  <2> HIDE DEF T, D
  <2>5. ref'[c] = Cardinality(Filed(c)) + Cardinality(Binders(c)) + lost[c] + T + D /\ T \in {0, 1} /\ D \in {0, 1}
    <3>1. ref'[c] + TabRef(c) + DelRef(c) = ref[c] + T + D /\ T \in {0, 1} /\ D \in {0, 1} /\ ref'[c] \in Int
      BY <2>2, <2>3 DEF T, D
    <3> QED
      BY <2>4, <3>1
  <2>6. ref'[c] \in Nat
    BY <2>4, <2>5
  <2> QED
    BY <2>1, <2>5, <2>6 DEF T, D
<1>4. ref' \in [Chan -> Nat]
  <2>1. \A c \in Chan : ref'[c] \in Nat
    BY <1>3 DEF ChanTypes
  <2> QED
    BY <2>1
<1>5. ChanTypes'
  BY <1>1, <1>4 DEF ChanTypes
<1>6. RefInv'
  BY <1>1, <1>2, <1>3 DEF RefInv
<1> QED
  BY <1>5, <1>6

(* One channel, and no other.                                              *)
LEMMA OneMoves ==
  ASSUME ChanTypes, RefInv, UNCHANGED fdVars, NEW c \in Chan, chanTbl' \subseteq Chan, ref' \in [Chan -> Int],
         \A e \in Chan : e # c =>
           /\ ref'[e] = ref[e] /\ (e \in chanTbl' <=> e \in chanTbl) /\ Untouched(e) /\ \A a : ~IsAt(e, a)',
         c \in stale => ref'[c] = ref[c] /\ ~InTable(c)' /\ ~Deleting(c)',
         c \notin stale => ref'[c] + TabRef(c) + DelRef(c) = ref[c] + TabRef(c)' + DelRef(c)'
  PROVE  ChanTypes' /\ RefInv' /\ \A e \in Chan : e # c => (InTable(e)' <=> InTable(e)) /\ ~Deleting(e)'
<1>1. \A e \in Chan : e # c => (InTable(e)' <=> e \in chanTbl) /\ (InTable(e) <=> e \in chanTbl)
  BY DEF InTable, Untouched
<1>2. \A e \in Chan : e # c => ~Deleting(e)' /\ ~Deleting(e)
  BY DEF Deleting, Untouched
<1>3. \A e \in Chan : e # c => TabRef(e)' = TabRef(e) /\ DelRef(e)' = DelRef(e)
  BY <1>1, <1>2 DEF TabRef, DelRef
<1>4. ASSUME NEW e \in Chan
      PROVE  /\ e \in stale => ref'[e] = ref[e] /\ ~InTable(e)' /\ ~Deleting(e)'
             /\ e \notin stale => ref'[e] + TabRef(e) + DelRef(e) = ref[e] + TabRef(e)' + DelRef(e)'
  <2>1. CASE e = c
    BY <2>1
  <2>2. CASE e # c
    <3>1. e \in stale => ~InTable(e)' /\ ~Deleting(e)'
      BY <1>1, <1>2, <2>2 DEF RefInv
    <3>2. ref'[e] = ref[e] /\ TabRef(e)' = TabRef(e) /\ DelRef(e)' = DelRef(e)
      BY <1>3, <2>2
    <3> QED
      BY <3>1, <3>2
  <2> QED
    BY <2>1, <2>2
<1>5. ChanTypes' /\ RefInv'
  BY <1>4, RefsMove
<1> QED
  BY <1>1, <1>2, <1>5

(* Channels of a driver that comes anew are not allocated.                 *)
LEMMA CreateRefs ==
  ASSUME ChanTypes, BusyInv, RefInv, LookInv, NEW d, CreatePortTbl(d),
         \A c \in ChansOf(d) : ref[c] = 0 /\ c \notin chanTbl
  PROVE  ChanTypes' /\ BusyInv' /\ RefInv' /\ LookInv'
<1>1. /\ chanTbl' = chanTbl \cup ChansOf(d) /\ UNCHANGED fdVars /\ busy' = busy
      /\ ref' = [c \in Chan |-> IF c \in ChansOf(d) THEN 1 ELSE ref[c]]
  BY DEF CreatePortTbl
<1>2. \A c, a : IsAt(c, a)' <=> IsAt(c, a)
  BY <1>1 DEF IsAt
<1>3. \A c : Deleting(c)' <=> Deleting(c)
  BY <1>2 DEF Deleting
<1>4. \A c \in ChansOf(d) : c \in Chan \ NodeChan /\ ~IsAt(c, "clear") /\ ~IsAt(c, "delclear") /\ c \notin stale
  BY DEF BusyInv, ChansOf, LookInv
<1>5. \A c : IF c \in ChansOf(d) THEN InTable(c)' /\ ~InTable(c) ELSE InTable(c)' <=> InTable(c)
  BY <1>1, <1>2, <1>4 DEF InTable
<1>6. ASSUME NEW c \in Chan
      PROVE  /\ c \in stale => ref'[c] = ref[c] /\ ~InTable(c)' /\ ~Deleting(c)'
             /\ c \notin stale => ref'[c] + TabRef(c) + DelRef(c) = ref[c] + TabRef(c)' + DelRef(c)'
  <2>1. DelRef(c)' = DelRef(c) /\ TabRef(c) \in {0, 1} /\ DelRef(c) \in {0, 1} /\ ref[c] \in Nat
    BY <1>3 DEF TabRef, DelRef, ChanTypes
  <2>2. CASE c \in ChansOf(d)
    <3>1. ref[c] = 0 /\ ref'[c] = 1 /\ TabRef(c) = 0 /\ TabRef(c)' = 1 /\ c \notin stale
      BY <1>1, <1>4, <1>5, <2>2 DEF TabRef
    <3> QED
      BY <2>1, <3>1
  <2>3. CASE c \notin ChansOf(d)
    <3>1. ref'[c] = ref[c] /\ TabRef(c)' = TabRef(c)
      BY <1>1, <1>5, <2>3 DEF TabRef
    <3>2. c \in stale => ~InTable(c)' /\ ~Deleting(c)'
      BY <1>3, <1>5, <2>3 DEF RefInv
    <3> QED
      BY <2>1, <3>1, <3>2
  <2> QED
    BY <2>2, <2>3
<1>7. chanTbl' \subseteq Chan /\ ref' \in [Chan -> Int]
  BY <1>1 DEF ChanTypes, ChansOf
<1>8. ChanTypes' /\ RefInv'
  BY <1>1, <1>6, <1>7, RefsMove
<1>9. BusyInv'
  BY <1>1, <1>2, <1>3 DEF BusyInv
<1>10. LookInv'
  BY <1>1, <1>5 DEF LookInv, fdVars
<1> QED
  BY <1>8, <1>9, <1>10

(* A table is destroyed, when no file is open.                             *)
LEMMA DestroyRefs ==
  ASSUME ChanTypes, BusyInv, RefInv, LookInv, opened = {}, NEW d, DestroyPortTbl(d)
  PROVE  ChanTypes' /\ BusyInv' /\ RefInv' /\ LookInv'
<1>1. PICK c \in ChansOf(d) :
        \/ busy = Idle /\ c \in chanTbl /\ Put(c) /\ Goes(c, "clear") /\ UNCHANGED chanTbl
        \/ IsAt(c, "clear") /\ chanTbl' = chanTbl \ {c} /\ busy' = Idle /\ UNCHANGED ref
  BY DEF DestroyPortTbl
<1>2. UNCHANGED fdVars
  BY DEF DestroyPortTbl
<1>3. c \in Chan /\ c \notin NodeChan /\ c \notin stale
  BY DEF ChansOf, LookInv
<1>4. \A t \in Thread : binding[t] = NoBind
  BY DEF ChanTypes
<1>5. LookInv'
  BY <1>2, <1>4, NullAssumption DEF LookInv, fdVars, NoBind
<1>6. ref[c] \in Nat
  BY <1>3 DEF ChanTypes
<1>7. CASE busy = Idle /\ c \in chanTbl /\ Put(c) /\ Goes(c, "clear") /\ UNCHANGED chanTbl
  <2>1. \A e \in Chan : Untouched(e) /\ ~Deleting(e) /\ (InTable(e) <=> e \in chanTbl)
    BY <1>7, NowIdle
  <2>2. \A e \in Chan : \A b : IsAt(e, b)' <=> e = c /\ b = "clear"
    BY <1>3, <1>7, NextAt
  <2>3. ref' = [ref EXCEPT ![c] = @ - 1] /\ ref' \in [Chan -> Int] /\ ref'[c] = ref[c] - 1
    BY <1>3, <1>6, <1>7 DEF Put, ChanTypes
  <2>4. \A e \in Chan : ~Deleting(e)'
    BY <2>2 DEF Deleting
  <2>5. ~InTable(c)'
    BY <1>3, <2>2 DEF InTable
  <2>6. TabRef(c) = 1 /\ TabRef(c)' = 0 /\ DelRef(c) = 0 /\ DelRef(c)' = 0
    BY <1>3, <1>7, <2>1, <2>4, <2>5 DEF TabRef, DelRef
  <2>7. ChanTypes' /\ RefInv'
    BY <1>2, <1>3, <1>6, <1>7, <2>1, <2>2, <2>3, <2>6, OneMoves DEF ChanTypes
  <2>8. BusyInv'
    BY <1>3, <1>7, <2>2, <2>4 DEF BusyInv
  <2> QED
    BY <1>5, <2>7, <2>8
<1>8. CASE IsAt(c, "clear") /\ chanTbl' = chanTbl \ {c} /\ busy' = Idle /\ UNCHANGED ref
  <2>1. \A e \in Chan : \A b : IsAt(e, b) <=> e = c /\ b = "clear"
    BY <1>3, <1>8, NowAt
  <2>2. \A e \in Chan : (\A b : ~IsAt(e, b)') /\ ~Deleting(e)' /\ (InTable(e)' <=> e \in chanTbl')
    BY <1>8, NextIdle
  <2>3. ~InTable(c) /\ ~Deleting(c) /\ ~InTable(c)' /\ ~Deleting(c)'
    BY <1>3, <1>8, <2>1, <2>2 DEF InTable, Deleting
  <2>4. TabRef(c) = 0 /\ TabRef(c)' = 0 /\ DelRef(c) = 0 /\ DelRef(c)' = 0
    BY <2>3 DEF TabRef, DelRef
  <2>5. \A e \in Chan : e # c => Untouched(e)
    BY <2>1 DEF Untouched
  <2>6. ChanTypes' /\ RefInv'
    BY <1>2, <1>3, <1>6, <1>8, <2>2, <2>4, <2>5, OneMoves DEF ChanTypes
  <2>7. BusyInv'
    BY <2>2 DEF BusyInv
  <2> QED
    BY <1>5, <2>6, <2>7
<1> QED
  BY <1>1, <1>7, <1>8

(* The channel of a node, at each step.                                    *)
LEMMA NodeMoves ==
  ASSUME ChanTypes, RefInv, LookInv, NEW c \in NodeChan, UNCHANGED fdVars, chanTbl' \subseteq Chan, ref' \in [Chan -> Int],
         \A e \in Chan : e # c =>
           /\ ref'[e] = ref[e] /\ (e \in chanTbl' <=> e \in chanTbl) /\ Untouched(e) /\ \A a : ~IsAt(e, a)',
         c \in stale => ref'[c] = ref[c] /\ ~InTable(c)' /\ ~Deleting(c)',
         c \notin stale => ref'[c] + TabRef(c) + DelRef(c) = ref[c] + TabRef(c)' + DelRef(c)',
         IsAt(c, "add")' \/ IsAt(c, "clear")' \/ IsAt(c, "del")' \/ IsAt(c, "delclear")' => c \in chanTbl'
  PROVE  ChanTypes' /\ BusyInv' /\ RefInv' /\ LookInv'
<1>1. c \in Chan
  BY ChanAssumption
<1>2. ChanTypes' /\ RefInv' /\ \A e \in Chan : e # c => (InTable(e)' <=> InTable(e)) /\ ~Deleting(e)'
  BY <1>1, OneMoves
<1>3. BusyInv'
  BY <1>2 DEF BusyInv
<1>4. LookInv'
  BY <1>2 DEF LookInv, fdVars
<1> QED
  BY <1>2, <1>3, <1>4

(* From one stage to another, or to none.                                  *)
LEMMA NodeStages ==
  ASSUME ChanTypes, BusyInv, RefInv, LookInv, NEW c \in NodeChan, UNCHANGED fdVars,
         busy = Idle \/ (\E a : IsAt(c, a)),
         busy' = Idle \/ (\E a : Goes(c, a)),
         chanTbl' \in {chanTbl, chanTbl \cup {c}, chanTbl \ {c}},
         ref' = [ref EXCEPT ![c] = ref'[c]], ref'[c] \in Int,
         c \in stale => ref'[c] = ref[c] /\ ~InTable(c)' /\ ~Deleting(c)',
         c \notin stale => ref'[c] + TabRef(c) + DelRef(c) = ref[c] + TabRef(c)' + DelRef(c)',
         IsAt(c, "add")' \/ IsAt(c, "clear")' \/ IsAt(c, "del")' \/ IsAt(c, "delclear")' => c \in chanTbl'
  PROVE  ChanTypes' /\ BusyInv' /\ RefInv' /\ LookInv'
<1>1. c \in Chan
  BY ChanAssumption
<1>2. \A e \in Chan : e # c => Untouched(e)
  <2>1. CASE busy = Idle
    BY <2>1, NowIdle
  <2>2. CASE \E a : IsAt(c, a)
    BY <1>1, <2>2, NowAt DEF Untouched
  <2> QED
    BY <2>1, <2>2
<1>3. \A e \in Chan : e # c => \A a : ~IsAt(e, a)'
  <2>1. CASE busy' = Idle
    BY <2>1, NextIdle
  <2>2. CASE \E a : Goes(c, a)
    BY <1>1, <2>2, NextAt
  <2> QED
    BY <2>1, <2>2
<1>4. chanTbl' \subseteq Chan /\ \A e \in Chan : e # c => (e \in chanTbl' <=> e \in chanTbl)
  BY <1>1 DEF ChanTypes
<1>5. ref' \in [Chan -> Int] /\ \A e \in Chan : e # c => ref'[e] = ref[e]
  BY DEF ChanTypes
<1> QED
  BY <1>2, <1>3, <1>4, <1>5, NodeMoves

LEMMA NodeRefs ==
  ASSUME ChanTypes, BusyInv, RefInv, LookInv, NEW c \in NodeChan, AddNode(c) \/ DelNode(c) \/ NodeStep(c)
  PROVE  ChanTypes' /\ BusyInv' /\ RefInv' /\ LookInv'
<1>1. c \in Chan /\ ref[c] \in Nat
  BY ChanAssumption DEF ChanTypes
<1>2. UNCHANGED fdVars
  BY DEF AddNode, DelNode, NodeStep, Added, AddFails, ReleaseChan, Clear, Deleted
<1>3. ASSUME NEW k \in Int, ref' = [ref EXCEPT ![c] = k]
      PROVE  ref' = [ref EXCEPT ![c] = ref'[c]] /\ ref'[c] = k
  BY <1>1, <1>3 DEF ChanTypes
<1>4. Put(c) => ref' = [ref EXCEPT ![c] = ref[c] - 1]
  BY DEF Put
<1>5. UNCHANGED ref => ref' = [ref EXCEPT ![c] = ref[c]]
  BY <1>1 DEF ChanTypes
<1>6. ASSUME NEW a, IsAt(c, a)
      PROVE  \A b : IsAt(c, b) <=> b = a
  BY <1>1, <1>6, NowAt
<1>7. ASSUME NEW a, Goes(c, a)
      PROVE  \A b : IsAt(c, b)' <=> b = a
  BY <1>1, <1>7, NextAt
<1>8. busy = Idle => ~Deleting(c) /\ (InTable(c) <=> c \in chanTbl)
  BY <1>1, NowIdle
<1>9. busy' = Idle => ~Deleting(c)' /\ (InTable(c)' <=> c \in chanTbl') /\ \A b : ~IsAt(c, b)'
  BY <1>1, NextIdle
<1>10. c \in stale => ~InTable(c) /\ ~Deleting(c)
  BY <1>1 DEF RefInv
<1>11. CASE AddNode(c)
  <2>1. busy = Idle /\ c \notin chanTbl /\ ref[c] = 0 /\ c \notin stale /\ Goes(c, "add")
        /\ chanTbl' = chanTbl \cup {c}
    BY <1>11 DEF AddNode
  <2>2. ~InTable(c) /\ ~Deleting(c) /\ InTable(c)' /\ ~Deleting(c)'
    BY <1>7, <1>8, <2>1 DEF InTable, Deleting
  <2>3. TabRef(c) = 0 /\ DelRef(c) = 0 /\ TabRef(c)' = 1 /\ DelRef(c)' = 0
    BY <2>2 DEF TabRef, DelRef
  <2>4. ref' = [ref EXCEPT ![c] = ref'[c]] /\ ref'[c] = 1
    BY <1>1, <1>11 DEF AddNode, ChanTypes
  <2> QED
    BY <1>2, <2>1, <2>3, <2>4, NodeStages
<1>12. CASE Added(c)
  <2>1. IsAt(c, "add") /\ busy' = Idle /\ UNCHANGED << chanTbl, ref >>
    BY <1>12 DEF Added
  <2>2. c \in chanTbl
    BY <1>1, <2>1 DEF BusyInv
  <2>3. InTable(c) /\ ~Deleting(c) /\ InTable(c)' /\ ~Deleting(c)'
    BY <1>6, <1>9, <2>1, <2>2 DEF InTable, Deleting
  <2>4. TabRef(c) = 1 /\ DelRef(c) = 0 /\ TabRef(c)' = 1 /\ DelRef(c)' = 0
    BY <2>3 DEF TabRef, DelRef
  <2>5. ref' = [ref EXCEPT ![c] = ref'[c]] /\ ref'[c] = ref[c]
    BY <1>1, <1>3, <1>5, <2>1
  <2> QED
    BY <1>1, <1>2, <1>9, <1>10, <2>1, <2>3, <2>4, <2>5, NodeStages
<1>13. CASE AddFails(c)
  <2>1. IsAt(c, "add") /\ Goes(c, "clear") /\ Put(c) /\ UNCHANGED chanTbl
    BY <1>13 DEF AddFails
  <2>2. c \in chanTbl
    BY <1>1, <2>1 DEF BusyInv
  <2>3. InTable(c) /\ ~Deleting(c) /\ ~InTable(c)' /\ ~Deleting(c)'
    BY <1>6, <1>7, <2>1, <2>2 DEF InTable, Deleting
  <2>4. TabRef(c) = 1 /\ DelRef(c) = 0 /\ TabRef(c)' = 0 /\ DelRef(c)' = 0
    BY <2>3 DEF TabRef, DelRef
  <2>5. ref' = [ref EXCEPT ![c] = ref'[c]] /\ ref'[c] = ref[c] - 1
    BY <1>1, <1>3, <1>4, <2>1
  <2> QED
    BY <1>1, <1>2, <1>10, <2>1, <2>2, <2>3, <2>4, <2>5, NodeStages
<1>14. CASE DelNode(c)
  <2>1. busy = Idle /\ c \in chanTbl /\ Goes(c, "del") /\ UNCHANGED chanTbl
    BY <1>14 DEF DelNode
  <2>2. InTable(c) /\ ~Deleting(c) /\ InTable(c)' /\ Deleting(c)'
    BY <1>7, <1>8, <2>1 DEF InTable, Deleting
  <2>3. TabRef(c) = 1 /\ DelRef(c) = 0 /\ TabRef(c)' = 1 /\ DelRef(c)' = 1
    BY <2>2 DEF TabRef, DelRef
  <2>4. ref' = [ref EXCEPT ![c] = ref'[c]] /\ ref'[c] = ref[c] + 1
    BY <1>1, <1>14 DEF DelNode, ChanTypes
  <2> QED
    BY <1>1, <1>2, <1>10, <2>1, <2>2, <2>3, <2>4, NodeStages
<1>15. CASE ReleaseChan(c)
  <2>1. IsAt(c, "del") /\ Goes(c, "delclear") /\ Put(c) /\ UNCHANGED chanTbl
    BY <1>15 DEF ReleaseChan
  <2>2. c \in chanTbl
    BY <1>1, <2>1 DEF BusyInv
  <2>3. InTable(c) /\ Deleting(c) /\ ~InTable(c)' /\ Deleting(c)'
    BY <1>6, <1>7, <2>1, <2>2 DEF InTable, Deleting
  <2>4. TabRef(c) = 1 /\ DelRef(c) = 1 /\ TabRef(c)' = 0 /\ DelRef(c)' = 1
    BY <2>3 DEF TabRef, DelRef
  <2>5. ref' = [ref EXCEPT ![c] = ref'[c]] /\ ref'[c] = ref[c] - 1
    BY <1>1, <1>3, <1>4, <2>1
  <2> QED
    BY <1>1, <1>2, <1>10, <2>1, <2>2, <2>3, <2>4, <2>5, NodeStages
<1>16. CASE Clear(c)
  <2>1. chanTbl' = chanTbl \ {c} /\ UNCHANGED ref
    BY <1>16 DEF Clear
  <2>2. ref' = [ref EXCEPT ![c] = ref'[c]] /\ ref'[c] = ref[c]
    BY <1>1, <1>3, <1>5, <2>1
  <2>3. CASE IsAt(c, "clear") /\ busy' = Idle
    <3>1. ~InTable(c) /\ ~Deleting(c) /\ ~InTable(c)' /\ ~Deleting(c)'
      BY <1>6, <1>9, <2>1, <2>3 DEF InTable, Deleting
    <3>2. TabRef(c) = 0 /\ DelRef(c) = 0 /\ TabRef(c)' = 0 /\ DelRef(c)' = 0
      BY <3>1 DEF TabRef, DelRef
    <3> QED
      BY <1>1, <1>2, <1>9, <2>1, <2>2, <2>3, <3>1, <3>2, NodeStages
  <2>4. CASE IsAt(c, "delclear") /\ Goes(c, "put")
    <3>1. ~InTable(c) /\ Deleting(c) /\ ~InTable(c)' /\ Deleting(c)'
      BY <1>6, <1>7, <2>1, <2>4 DEF InTable, Deleting
    <3>2. TabRef(c) = 0 /\ DelRef(c) = 1 /\ TabRef(c)' = 0 /\ DelRef(c)' = 1
      BY <3>1 DEF TabRef, DelRef
    <3>3. ~IsAt(c, "add")' /\ ~IsAt(c, "clear")' /\ ~IsAt(c, "del")' /\ ~IsAt(c, "delclear")'
      BY <1>7, <2>4
    <3> QED
      BY <1>1, <1>2, <1>10, <2>1, <2>2, <2>4, <3>1, <3>2, <3>3, NodeStages
  <2> QED
    BY <1>16, <2>3, <2>4 DEF Clear
<1>17. CASE Deleted(c)
  <2>1. IsAt(c, "put") /\ busy' = Idle /\ Put(c) /\ UNCHANGED chanTbl
    BY <1>17 DEF Deleted
  <2>2. (InTable(c) <=> c \in chanTbl) /\ Deleting(c) /\ (InTable(c)' <=> c \in chanTbl) /\ ~Deleting(c)'
    BY <1>6, <1>9, <2>1 DEF InTable, Deleting
  <2>3. TabRef(c) = TabRef(c)' /\ TabRef(c) \in {0, 1} /\ DelRef(c) = 1 /\ DelRef(c)' = 0
    BY <2>2 DEF TabRef, DelRef
  <2>4. ref' = [ref EXCEPT ![c] = ref'[c]] /\ ref'[c] = ref[c] - 1
    BY <1>1, <1>3, <1>4, <2>1
  <2> QED
    BY <1>1, <1>2, <1>9, <1>10, <2>1, <2>2, <2>3, <2>4, NodeStages
<1> QED
  BY <1>11, <1>12, <1>13, <1>14, <1>15, <1>16, <1>17 DEF NodeStep

(* What files and binds do to no table.                                    *)
LEMMA TblStill ==
  ASSUME UNCHANGED tblVars
  PROVE  /\ \A c : (InTable(c)' <=> InTable(c)) /\ (Deleting(c)' <=> Deleting(c))
         /\ \A c, a : IsAt(c, a)' <=> IsAt(c, a)
         /\ \A c : TabRef(c)' = TabRef(c) /\ DelRef(c)' = DelRef(c)
         /\ BusyInv => BusyInv'
<1>1. \A c, a : IsAt(c, a)' <=> IsAt(c, a)
  BY DEF tblVars, IsAt
<1>2. \A c : (InTable(c)' <=> InTable(c)) /\ (Deleting(c)' <=> Deleting(c))
  BY <1>1 DEF tblVars, InTable, Deleting
<1>3. \A c : TabRef(c)' = TabRef(c) /\ DelRef(c)' = DelRef(c)
  BY <1>2 DEF TabRef, DelRef
<1>4. BusyInv => BusyInv'
  BY <1>1, <1>2 DEF tblVars, BusyInv
<1> QED
  BY <1>1, <1>2, <1>3, <1>4

LEMMA OpenRefs ==
  ASSUME ChanTypes, BusyInv, RefInv, LookInv, NEW f \in Fd, Open(f)
  PROVE  ChanTypes' /\ BusyInv' /\ RefInv' /\ LookInv'
<1>1. priv' = priv /\ opened' = opened \cup {f} /\ UNCHANGED << tblVars, ref, binding, lost, stale >>
  BY DEF Open, ChanTypes
<1>2. /\ \A c : (InTable(c)' <=> InTable(c)) /\ (Deleting(c)' <=> Deleting(c)) /\ TabRef(c)' = TabRef(c) /\ DelRef(c)' = DelRef(c)
      /\ BusyInv'
  BY <1>1, TblStill
<1>3. \A c : Filed(c)' = Filed(c) /\ Binders(c)' = Binders(c)
  BY <1>1 DEF Filed, Binders
<1>4. \A c : Owed(c)' = Owed(c)
  BY <1>1, <1>2, <1>3 DEF Owed
<1>5. ChanTypes'
  BY <1>1 DEF ChanTypes, tblVars
<1>6. RefInv'
  BY <1>1, <1>2, <1>3, <1>4 DEF RefInv
<1>7. LookInv'
  BY <1>1, <1>2 DEF LookInv
<1> QED
  BY <1>2, <1>5, <1>6, <1>7

(* A bind finds a channel.                                                 *)
LEMMA BindRefs ==
  ASSUME ChanTypes, BusyInv, RefInv, LookInv, NEW t \in Thread, NEW f \in Fd, NEW c \in Chan, BindChan(t, f, c),
         c \notin NodeChan => ~IsAt(c, "clear")
  PROVE  ChanTypes' /\ BusyInv' /\ RefInv' /\ LookInv'
<1>1. /\ f \in opened /\ binding[t] = NoBind /\ c \in chanTbl /\ UNCHANGED << tblVars, ref, opened, priv, lost, stale >>
      /\ binding' = [binding EXCEPT ![t] = [fd |-> f, chan |-> c, got |-> FALSE]]
  BY DEF BindChan
<1>2. /\ \A e : (InTable(e)' <=> InTable(e)) /\ (Deleting(e)' <=> Deleting(e)) /\ TabRef(e)' = TabRef(e) /\ DelRef(e)' = DelRef(e)
      /\ BusyInv'
  BY <1>1, TblStill
<1>3. \A s \in Thread : binding'[s] = IF s = t THEN [fd |-> f, chan |-> c, got |-> FALSE] ELSE binding[s]
  BY <1>1 DEF ChanTypes
<1>4. binding' \in [Thread -> ([fd : Fd, chan : Chan, got : BOOLEAN] \cup {NoBind})]
  BY <1>1 DEF ChanTypes
<1>5. ChanTypes'
  BY <1>1, <1>3, <1>4 DEF ChanTypes, tblVars
<1>6. \A e : Filed(e)' = Filed(e)
  BY <1>1 DEF Filed
<1>7. \A s \in Thread : binding'[s].got <=> s # t /\ binding[s].got
  BY <1>1, <1>3 DEF NoBind
<1>8. \A e : Binders(e)' = Binders(e)
  <2> TAKE e
  <2>1. \A s \in Thread : s \in Binders(e)' <=> s \in Binders(e)
    BY <1>1, <1>3, <1>7 DEF Binders, NoBind
  <2> QED
    BY <2>1 DEF Binders
<1>9. \A e : Owed(e)' = Owed(e)
  BY <1>1, <1>2, <1>6, <1>8 DEF Owed
<1>10. RefInv'
  BY <1>1, <1>2, <1>6, <1>8, <1>9 DEF RefInv
<1>11. c \notin NodeChan => InTable(c)
  BY <1>1 DEF InTable, BusyInv, Deleting
<1>12. LookInv'
  BY <1>1, <1>2, <1>3, <1>11 DEF LookInv
<1> QED
  BY <1>2, <1>5, <1>10, <1>12

(* It counts it, or what was it.                                           *)
LEMMA GetRefs ==
  ASSUME ChanTypes, BusyInv, RefInv, LookInv, NEW t \in Thread, GetChan(t)
  PROVE  /\ ChanTypes' /\ BusyInv' /\ RefInv' /\ LookInv'
         /\ \A e \in Chan : ref[e] = 0 => ref'[e] = 0
<1>1. PICK f \in opened, c \in Chan : f \in Fd /\ binding[t] = [fd |-> f, chan |-> c, got |-> FALSE]
  BY DEF GetChan, ChanTypes
<1>2. /\ binding' = [binding EXCEPT ![t] = [fd |-> f, chan |-> c, got |-> TRUE]]
      /\ UNCHANGED << tblVars, opened, priv, lost >>
      /\ \/ ref[c] > 0 /\ ref' = [ref EXCEPT ![c] = @ + 1] /\ UNCHANGED stale
         \/ ref[c] = 0 /\ stale' = stale \cup {c} /\ UNCHANGED ref
  BY <1>1 DEF GetChan, Got
<1>3. /\ \A e : (InTable(e)' <=> InTable(e)) /\ (Deleting(e)' <=> Deleting(e)) /\ TabRef(e)' = TabRef(e) /\ DelRef(e)' = DelRef(e)
      /\ BusyInv'
  BY <1>2, TblStill
<1>4. \A s \in Thread : binding'[s] = IF s = t THEN [fd |-> f, chan |-> c, got |-> TRUE] ELSE binding[s]
  <2>1. DOMAIN binding = Thread
    BY DEF ChanTypes
  <2> QED
    BY <1>2, <2>1
<1>5. binding' \in [Thread -> ([fd : Fd, chan : Chan, got : BOOLEAN] \cup {NoBind})]
  <2>1. DOMAIN binding' = Thread /\ binding' = [s \in DOMAIN binding' |-> binding'[s]]
    BY <1>2 DEF ChanTypes
  <2>2. [fd |-> f, chan |-> c, got |-> TRUE] \in [fd : Fd, chan : Chan, got : BOOLEAN]
    BY <1>1
  <2>3. \A s \in Thread : binding'[s] \in [fd : Fd, chan : Chan, got : BOOLEAN] \cup {NoBind}
    BY <1>4, <2>2 DEF ChanTypes
  <2> QED
    BY <2>1, <2>3
<1>6. ref[c] \in Nat /\ ref' \in [Chan -> Nat] /\ stale' \subseteq Chan
  BY <1>2 DEF ChanTypes
<1>7. ChanTypes'
  BY <1>1, <1>2, <1>4, <1>5, <1>6 DEF ChanTypes, tblVars
<1>8. \A e : Filed(e)' = Filed(e)
  BY <1>2 DEF Filed
<1>9. \A e : Binders(e)' = IF e = c THEN Binders(e) \cup {t} ELSE Binders(e)
  <2> TAKE e
  <2>1. \A s \in Thread : s \in Binders(e)' <=> IF s = t THEN e = c ELSE s \in Binders(e)
    BY <1>4 DEF Binders
  <2>2. t \notin Binders(e)
    BY <1>1 DEF Binders
  <2> QED
    BY <2>1, <2>2 DEF Binders
<1>10. t \notin Binders(c)
  BY <1>1 DEF Binders
<1>11. IsFiniteSet(Binders(c)') /\ Cardinality(Binders(c)') = Cardinality(Binders(c)) + 1
  BY <1>9, <1>10, OwedIs, FS_AddElement
<1>12. ref[c] = 0 /\ c \notin stale => ~InTable(c) /\ ~Deleting(c)
  BY HeldIsOwed
<1>13. ref[c] = 0 => c \in NodeChan
  <2> SUFFICES ASSUME ref[c] = 0, c \notin NodeChan PROVE FALSE
    OBVIOUS
  <2>1. InTable(c) /\ c \notin stale
    BY <1>1 DEF LookInv
  <2> QED
    BY <1>12, <2>1
<1>14. ASSUME NEW e \in Chan
       PROVE  /\ IsFiniteSet(Filed(e)') /\ IsFiniteSet(Binders(e)')
              /\ e \notin stale' => ref'[e] = Owed(e)'
              /\ e \in stale' => ref'[e] = 0 /\ ~InTable(e)' /\ ~Deleting(e)'
  <2>1. Owed(e)' = Cardinality(Filed(e)) + Cardinality(Binders(e)') + lost[e] + TabRef(e) + DelRef(e)
    BY <1>2, <1>3, <1>8 DEF Owed, TabRef, DelRef
  <2>2. CASE e = c /\ ref[c] > 0
    <3>1. ref'[c] = ref[c] + 1 /\ c \notin stale /\ stale' = stale
      BY <1>2, <1>6, <2>2 DEF RefInv, ChanTypes
    <3> QED
      BY <1>8, <1>11, <2>1, <2>2, <3>1, OwedIs
  <2>3. CASE e = c /\ ref[c] = 0
    <3>1. c \in stale' /\ ref'[c] = 0
      BY <1>2, <2>3
    <3>2. ~InTable(c)' /\ ~Deleting(c)'
      BY <1>3, <1>12, <2>3 DEF RefInv
    <3> QED
      BY <1>8, <1>11, <2>3, <3>1, <3>2, OwedIs
  <2>4. CASE e # c
    <3>1. Binders(e)' = Binders(e) /\ ref'[e] = ref[e] /\ (e \in stale' <=> e \in stale)
      BY <1>2, <1>9, <2>4 DEF ChanTypes
    <3>2. Owed(e)' = Owed(e)
      BY <2>1, <3>1, OwedIs
    <3>3. e \in stale' => ref'[e] = 0 /\ ~InTable(e)' /\ ~Deleting(e)'
      BY <1>3, <3>1 DEF RefInv
    <3> QED
      BY <1>8, <3>1, <3>2, <3>3, OwedIs
  <2> QED
    BY <1>6, <2>2, <2>3, <2>4
<1>15. RefInv'
  BY <1>14 DEF RefInv
<1>16. LookInv'
  <2>1. stale' \subseteq NodeChan
    BY <1>2, <1>13 DEF LookInv
  <2>2. \A s \in Thread : binding'[s].chan \in Chan \ NodeChan /\ ~binding'[s].got =>
          binding'[s] = binding[s] /\ InTable(binding[s].chan)
    BY <1>4 DEF LookInv
  <2> QED
    BY <1>2, <2>1, <2>2 DEF LookInv, InTable, IsAt, tblVars
<1>17. \A e \in Chan : ref[e] = 0 => ref'[e] = 0
  BY <1>2 DEF ChanTypes
<1> QED
  BY <1>3, <1>7, <1>15, <1>16, <1>17

(* It writes the file.                                                     *)
LEMMA BoundRefs ==
  ASSUME ChanTypes, BusyInv, RefInv, LookInv, NEW t \in Thread, Bound(t)
  PROVE  ChanTypes' /\ BusyInv' /\ RefInv' /\ LookInv'
<1>1. PICK f \in opened, c \in Chan : f \in Fd /\ binding[t] = [fd |-> f, chan |-> c, got |-> TRUE]
  BY DEF Bound, ChanTypes, NoBind
<1>2. /\ priv' = [priv EXCEPT ![f] = c] /\ binding' = [binding EXCEPT ![t] = NoBind]
      /\ lost' = WrittenOver(priv[f]) /\ UNCHANGED << tblVars, ref, opened, stale >>
  BY <1>1 DEF Bound
<1>3. /\ \A e : (InTable(e)' <=> InTable(e)) /\ (Deleting(e)' <=> Deleting(e)) /\ TabRef(e)' = TabRef(e) /\ DelRef(e)' = DelRef(e)
      /\ BusyInv'
  BY <1>2, TblStill
<1>4. \A g \in Fd : priv'[g] = IF g = f THEN c ELSE priv[g]
  BY <1>1, <1>2 DEF ChanTypes
<1>5. \A s \in Thread : binding'[s] = IF s = t THEN NoBind ELSE binding[s]
  BY <1>2 DEF ChanTypes
<1>6. NoBind.fd = NULL /\ NoBind.chan = NULL /\ NoBind.got = FALSE
  BY DEF NoBind
<1>7. lost' \in [Chan -> Nat] /\ \A e \in Chan : e \notin stale =>
        lost'[e] = IF priv[f] = e THEN lost[e] + 1 ELSE lost[e]
  BY <1>2 DEF WrittenOver, ChanTypes
<1>8. ChanTypes'
  <2>1. priv' \in [Fd -> Chan \cup {NULL}]
    BY <1>1, <1>2 DEF ChanTypes
  <2>2. binding' \in [Thread -> ([fd : Fd, chan : Chan, got : BOOLEAN] \cup {NoBind})]
    BY <1>1, <1>2 DEF ChanTypes
  <2>3. ASSUME NEW g \in Fd, g \notin opened'
        PROVE  priv'[g] = NULL /\ \A s \in Thread : binding'[s].fd # g
    BY <1>1, <1>2, <1>4, <1>5, <1>6, <2>3, NullAssumption DEF ChanTypes
  <2> QED
    BY <1>2, <1>7, <2>1, <2>2, <2>3 DEF ChanTypes, tblVars
<1>9. t \in Binders(c)
  BY <1>1 DEF Binders
<1>10. \A e \in Chan : Binders(e)' = IF e = c THEN Binders(e) \ {t} ELSE Binders(e)
  <2> TAKE e \in Chan
  <2>1. \A s \in Thread : s \in Binders(e)' <=> s # t /\ s \in Binders(e)
    BY <1>5, <1>6 DEF Binders
  <2>2. t \in Binders(e) => e = c
    BY <1>1 DEF Binders
  <2> QED
    BY <2>1, <2>2 DEF Binders
<1>11. \A e \in Chan : Filed(e)' = IF e = c THEN Filed(e) \cup {f} ELSE Filed(e) \ {f}
  BY <1>1, <1>4 DEF Filed
<1>12. IsFiniteSet(Binders(c)') /\ Cardinality(Binders(c)') = Cardinality(Binders(c)) - 1
  BY <1>1, <1>9, <1>10, OwedIs, FS_RemoveElement
<1>13. /\ IsFiniteSet(Filed(c)')
       /\ Cardinality(Filed(c)') = IF f \in Filed(c) THEN Cardinality(Filed(c)) ELSE Cardinality(Filed(c)) + 1
  BY <1>1, <1>11, OwedIs, FS_AddElement
<1>14. ASSUME NEW e \in Chan
       PROVE  IsFiniteSet(Filed(e)') /\ IsFiniteSet(Binders(e)') /\ (e \notin stale => Owed(e)' = Owed(e))
  <2>1. Owed(e)' = Cardinality(Filed(e)') + Cardinality(Binders(e)') + lost'[e] + TabRef(e) + DelRef(e)
    BY <1>3 DEF Owed, TabRef, DelRef
  <2>2. f \in Filed(e) <=> priv[f] = e
    BY <1>1 DEF Filed
  <2>3. CASE e = c
    <3>1. c \notin stale => lost'[c] = IF f \in Filed(c) THEN lost[c] + 1 ELSE lost[c]
      BY <1>7, <2>2, <2>3
    <3> QED
      BY <1>12, <1>13, <2>1, <2>3, <3>1, OwedIs
  <2>4. CASE e # c /\ f \in Filed(e)
    <3>1. /\ IsFiniteSet(Filed(e)') /\ Cardinality(Filed(e)') = Cardinality(Filed(e)) - 1
          /\ Binders(e)' = Binders(e)
      BY <1>10, <1>11, <2>4, OwedIs, FS_RemoveElement
    <3>2. e \notin stale => lost'[e] = lost[e] + 1
      BY <1>7, <2>2, <2>4
    <3> QED
      BY <2>1, <3>1, <3>2, OwedIs
  <2>5. CASE e # c /\ f \notin Filed(e)
    <3>1. Filed(e)' = Filed(e) /\ Binders(e)' = Binders(e)
      BY <1>10, <1>11, <2>5
    <3>2. e \notin stale => lost'[e] = lost[e]
      BY <1>7, <2>2, <2>5
    <3> QED
      BY <2>1, <3>1, <3>2, OwedIs
  <2> QED
    BY <2>3, <2>4, <2>5
<1>15. RefInv'
  BY <1>2, <1>3, <1>14, OwedIs DEF RefInv
<1>16. LookInv'
  BY <1>2, <1>3, <1>5, <1>6, NullAssumption DEF LookInv
<1> QED
  BY <1>3, <1>8, <1>15, <1>16

(* The file is closed.                                                     *)
LEMMA CloseRefs ==
  ASSUME ChanTypes, BusyInv, RefInv, LookInv, NEW f \in Fd, Close(f)
  PROVE  /\ ChanTypes' /\ BusyInv' /\ RefInv' /\ LookInv'
         /\ \A e \in Chan : ref[e] = 0 => ref'[e] = 0
<1>1. /\ opened' = opened \ {f} /\ priv' = [priv EXCEPT ![f] = NULL] /\ UNCHANGED << tblVars, binding, lost, stale >>
      /\ ref' = IF priv[f] \in Chan \ stale THEN [ref EXCEPT ![priv[f]] = @ - 1] ELSE ref
      /\ \A t \in Thread : binding[t].fd # f
  BY DEF Close, Put
<1>2. /\ \A e : (InTable(e)' <=> InTable(e)) /\ (Deleting(e)' <=> Deleting(e)) /\ TabRef(e)' = TabRef(e) /\ DelRef(e)' = DelRef(e)
      /\ BusyInv'
  BY <1>1, TblStill
<1>3. \A g \in Fd : priv'[g] = IF g = f THEN NULL ELSE priv[g]
  BY <1>1 DEF ChanTypes
<1>4. \A e \in Chan : /\ ref[e] \in Nat
                      /\ ref'[e] = IF f \in Filed(e) /\ e \notin stale THEN ref[e] - 1 ELSE ref[e]
  BY <1>1 DEF ChanTypes, Filed
<1>5. \A e \in Chan : f \in Filed(e) /\ e \notin stale => ref[e] > 0
  BY HeldIsOwed
<1>6. ChanTypes'
  <2>1. ref' \in [Chan -> Nat]
    <3>1. ref' \in [Chan -> Int] /\ \A e \in Chan : ref'[e] \in Nat
      BY <1>1, <1>4, <1>5 DEF ChanTypes
    <3> QED
      BY <3>1
  <2>2. priv' \in [Fd -> Chan \cup {NULL}]
    BY <1>1 DEF ChanTypes
  <2> QED
    BY <1>1, <1>3, <2>1, <2>2 DEF ChanTypes, tblVars
<1>7. \A e \in Chan : Filed(e)' = Filed(e) \ {f} /\ Binders(e)' = Binders(e)
  BY <1>1, <1>3, NullAssumption DEF Filed, Binders
<1>8. ASSUME NEW e \in Chan
      PROVE  /\ IsFiniteSet(Filed(e)') /\ IsFiniteSet(Binders(e)')
             /\ e \notin stale' => ref'[e] = Owed(e)'
             /\ e \in stale' => ref'[e] = 0 /\ ~InTable(e)' /\ ~Deleting(e)'
  <2>1. /\ IsFiniteSet(Filed(e)')
        /\ Cardinality(Filed(e)') = IF f \in Filed(e) THEN Cardinality(Filed(e)) - 1 ELSE Cardinality(Filed(e))
    BY <1>7, OwedIs, FS_RemoveElement
  <2>2. Owed(e)' = IF f \in Filed(e) THEN Owed(e) - 1 ELSE Owed(e)
    <3>1. Owed(e)' = Cardinality(Filed(e)') + Cardinality(Binders(e)) + lost[e] + TabRef(e) + DelRef(e)
      BY <1>1, <1>2, <1>7 DEF Owed, TabRef, DelRef
    <3> QED
      BY <2>1, <3>1, OwedIs
  <2>3. e \in stale' => ref'[e] = 0 /\ ~InTable(e)' /\ ~Deleting(e)'
    BY <1>1, <1>2, <1>4 DEF RefInv
  <2> QED
    BY <1>1, <1>4, <1>7, <2>1, <2>2, <2>3, OwedIs
<1>9. RefInv'
  BY <1>8 DEF RefInv
<1>10. LookInv'
  BY <1>1, <1>2 DEF LookInv
<1>11. \A e \in Chan : ref[e] = 0 => ref'[e] = 0
  BY <1>4, <1>5
<1> QED
  BY <1>2, <1>6, <1>9, <1>10, <1>11

-----------------------------------------------------------------------------
(* Channels and their drivers.                                             *)

(* When the load has failed no driver of channels was there yet.           *)
LEMMA NoDriverUndone ==
  ASSUME LoadInv, phase \in {"undo", "failed", "off"}, NEW d \in {"vdec", "venc", "net"}
  PROVE  << "drv", d >> \notin up
<1> DEFINE x == << "drv", d >>
<1>1. x \in Things /\ x[1] = "drv" /\ x[2] = d /\ x # << "drv", "mem" >> /\ x[1] # "type"
  BY TypeFirst
<1> HIDE DEF x
<1>2. Owner(x) \in {"vdec", "venc", "vnchan"}
  BY <1>1, ThingsFit DEF Placed
<1>3. Level[Owner(x)] = 5 /\ Level["fdd"] = 3
  BY <1>2 DEF Level
<1>4. ~Standing(x)
  <2>1. CASE phase = "off"
    <3>1. at = 0
      BY <2>1 DEF LoadInv, PhaseInv
    <3> QED
      BY <2>1, <3>1 DEF Standing
  <2>2. CASE phase # "off"
    <3>1. "fdd" \notin inited /\ "fdd" \in Mods
      BY <2>2, BuildAssumption DEF LoadInv, PhaseInv
    <3>2. Owner(x) \notin inited
      BY <1>3, <3>1 DEF LoadInv, PhaseInv
    <3> QED
      BY <2>2, <3>2 DEF Standing
  <2> QED
    BY <2>1, <2>2
<1>5. x \in up <=> Standing(x)
  BY <1>1 DEF LoadInv, UpInv, Sure
<1> QED
  BY <1>4, <1>5 DEF x

LEMMA ChannelDevices ==
  ASSUME NEW c \in Chan \ NodeChan
  PROVE  DevOf[c] \in ChanDev /\ DevOf[c] \in {"vdec", "venc", "net"} /\ DevOf[c] \in Dev
  BY DevAssumption, BuildAssumption DEF Dev

Early == {"ctor", "init", "undo", "failed"}

LEMMA FreshStill ==
  ASSUME FreshInv, UNCHANGED chanVars, phase' \in Early => phase \in Early,
         \A c \in Chan \ NodeChan :
           /\ c \in chanTbl => started'[DevOf[c]] = started[DevOf[c]]
           /\ phase' \in Early /\ << "drv", DevOf[c] >> \notin up' => << "drv", DevOf[c] >> \notin up
  PROVE  FreshInv'
  BY DEF FreshInv, chanVars, Early

LEMMA RegDrvRefs ==
  ASSUME LoadInv, StartTypes, StartedOnce, ChanTypes, BusyInv, RefInv, LookInv, FreshInv, RegDrv
  PROVE  ChanTypes' /\ BusyInv' /\ RefInv' /\ LookInv' /\ FreshInv'
<1> DEFINE n == Call.name
<1>1. phase = "init" /\ phase' = phase /\ up' = up \cup {<< "drv", n >>} /\ << "drv", n >> \notin up
  BY DoingIs, NotYet DEF RegDrv, Made, Thing, Returned
<1>2. \A c \in Chan \ NodeChan : DevOf[c] = n => started[n] = "no" /\ ref[c] = 0 /\ c \notin chanTbl
  <2> TAKE c \in Chan \ NodeChan
  <2> HAVE DevOf[c] = n
  <2>1. started[n] = "no"
    BY <1>1, ChannelDevices DEF StartedOnce
  <2> QED
    BY <1>1, <2>1, ChannelDevices DEF FreshInv
<1>3. CASE UNCHANGED chanVars /\ \A d \in Dev : d # n => started'[d] = started[d]
  <2>1. \A c \in Chan \ NodeChan : c \in chanTbl => started'[DevOf[c]] = started[DevOf[c]]
    BY <1>2, <1>3, ChannelDevices
  <2>2. FreshInv'
    BY <1>1, <1>3, <2>1, FreshStill DEF Early
  <2> QED
    BY <1>3, <2>2, RefStill
<1>4. CASE n \in ChanDev /\ CreatePortTbl(n) /\ started' = [started EXCEPT ![n] = IF @ = "no" THEN "on" ELSE "twice"]
  <2>1. ChanTypes' /\ BusyInv' /\ RefInv' /\ LookInv'
    BY <1>2, <1>4, CreateRefs DEF ChansOf
  <2>2. /\ chanTbl' = chanTbl \cup ChansOf(n)
        /\ ref' = [c \in Chan |-> IF c \in ChansOf(n) THEN 1 ELSE ref[c]]
    BY <1>4 DEF CreatePortTbl
  <2>3. ASSUME NEW c \in Chan \ NodeChan, c \in chanTbl' PROVE started'[DevOf[c]] = "on"
    <3>1. CASE DevOf[c] = n
      <4>1. started[n] = "no" /\ n \in Dev
        BY <1>2, <3>1, ChannelDevices
      <4> QED
        BY <1>4, <3>1, <4>1 DEF StartTypes
    <3>2. CASE DevOf[c] # n
      <4>1. c \in chanTbl /\ started[DevOf[c]] = "on"
        BY <2>2, <2>3, <3>2 DEF ChansOf, FreshInv
      <4> QED
        BY <1>4, <3>2, <4>1, ChannelDevices DEF StartTypes
    <3> QED
      BY <3>1, <3>2
  <2>4. ASSUME NEW c \in Chan \ NodeChan, << "drv", DevOf[c] >> \notin up' PROVE ref'[c] = 0
    <3>1. DevOf[c] # n /\ << "drv", DevOf[c] >> \notin up
      BY <1>1, <2>4
    <3> QED
      BY <1>1, <2>2, <3>1 DEF ChansOf, FreshInv
  <2>5. FreshInv'
    BY <2>3, <2>4 DEF FreshInv
  <2> QED
    BY <2>1, <2>5
<1>5. CASE DrvMatch(n) /\ Start(n)
  BY <1>3, <1>4, <1>5 DEF Start, StartTypes
<1>6. CASE DrvMatch(n) /\ ~Start(n)
  <2>1. UNCHANGED chanVars /\ started' = [started EXCEPT ![n] = "bad"]
    BY <1>6 DEF RegDrv, StartFails, CreateFails
  <2> QED
    BY <1>3, <2>1 DEF StartTypes
<1>7. CASE ~DrvMatch(n)
  BY <1>3, <1>7 DEF RegDrv
<1> QED
  BY <1>5, <1>6, <1>7

(* No driver of channels has been there when a failed load is undone.      *)
LEMMA NoneUndone ==
  ASSUME LoadInv, ChanTypes, BusyInv, RefInv, LookInv, FreshInv, phase = "undo", NEW c \in Chan \ NodeChan,
         ~IsAt(c, "clear")
  PROVE  << "drv", DevOf[c] >> \notin up /\ ref[c] = 0 /\ c \notin chanTbl
<1>1. << "drv", DevOf[c] >> \notin up
  BY ChannelDevices, NoDriverUndone
<1>2. ref[c] = 0 /\ c \notin stale
  BY <1>1 DEF FreshInv, LookInv
<1>3. ~InTable(c)
  BY <1>2, HeldIsOwed
<1>4. ~IsAt(c, "delclear")
  BY DEF BusyInv, Deleting
<1> QED
  BY <1>1, <1>2, <1>3, <1>4 DEF InTable

LEMMA UnRegDrvRefs ==
  ASSUME LoadInv, StartTypes, ChanTypes, BusyInv, RefInv, LookInv, FreshInv, QuietInv, UnRegDrv
  PROVE  ChanTypes' /\ BusyInv' /\ RefInv' /\ LookInv' /\ FreshInv'
<1> DEFINE n == Call.name
<1>1. phase \in {"exit", "undo"} /\ phase' = phase /\ up' = up \ {<< "drv", n >>}
  BY DoingIs, CurIsPart DEF UnRegDrv, TakenBack, Returned
<1>2. UNCHANGED chanVars
  BY DEF UnRegDrv, Stop, Destroyed
<1>3. phase = "undo" => \A c \in Chan \ NodeChan : << "drv", DevOf[c] >> \notin up
  BY ChannelDevices, NoDriverUndone
<1>4. ASSUME NEW c \in Chan \ NodeChan, c \in chanTbl
      PROVE  started'[DevOf[c]] = started[DevOf[c]]
  <2>1. CASE << "dev", n >> \notin up
    BY <2>1 DEF UnRegDrv
  <2>2. CASE << "dev", n >> \in up
    <3>1. started' = [started EXCEPT ![n] = "no"] /\ (n \in ChanDev => chanTbl \cap ChansOf(n) = {})
      BY <2>2 DEF UnRegDrv, Stop, Destroyed
    <3>2. DevOf[c] # n
      BY <1>4, <3>1, ChannelDevices DEF ChansOf
    <3> QED
      BY <3>1, <3>2, ChannelDevices DEF StartTypes
  <2> QED
    BY <2>1, <2>2
<1>5. FreshInv'
  BY <1>1, <1>2, <1>3, <1>4, FreshStill DEF Early
<1> QED
  BY <1>2, <1>5, RefStill

(* A step of the exit of a driver of channels: at the unloading only.      *)
LEMMA DestroyTblRefs ==
  ASSUME LoadInv, ChanTypes, BusyInv, RefInv, LookInv, FreshInv, QuietInv, DestroyTbl
  PROVE  /\ ChanTypes' /\ BusyInv' /\ RefInv' /\ LookInv' /\ FreshInv'
         /\ phase = "exit" /\ phase' = phase /\ UNCHANGED << opened, mounts >>
         /\ \A c \in NodeChan : c \notin chanTbl' /\ Untouched(c)'
<1> DEFINE n == Call.name
<1>1. n \in ChanDev /\ DestroyPortTbl(n) /\ UNCHANGED coreVars /\ UNCHANGED fsVars /\ << "drv", n >> \in up
  BY DEF DestroyTbl
<1>2. PICK k \in {"drv", "dev"} : Doing("del", k)
  BY DEF DestroyTbl
<1>3. n \in {"vdec", "venc", "net"}
  BY <1>1, BuildAssumption
<1>4. phase = "exit"
  <2>1. phase \in {"exit", "undo"}
    BY <1>2, DoingIs DEF LoadInv, PhaseInv
  <2>2. phase # "undo"
    BY <1>1, <1>3, NoDriverUndone
  <2> QED
    BY <2>1, <2>2
<1>5. opened = {} /\ \A c \in NodeChan : c \notin chanTbl /\ Untouched(c)
  BY <1>4 DEF QuietInv
<1>6. ChanTypes' /\ BusyInv' /\ RefInv' /\ LookInv'
  BY <1>1, <1>5, DestroyRefs
<1>7. PICK e \in ChansOf(n) :
        \/ busy = Idle /\ e \in chanTbl /\ Put(e) /\ Goes(e, "clear") /\ UNCHANGED chanTbl
        \/ IsAt(e, "clear") /\ chanTbl' = chanTbl \ {e} /\ busy' = Idle /\ UNCHANGED ref
  BY <1>1 DEF DestroyPortTbl
<1>8. e \in Chan /\ e \notin NodeChan /\ chanTbl' \subseteq chanTbl
  BY <1>7 DEF ChansOf
<1>9. ASSUME NEW c \in NodeChan PROVE Untouched(c)'
  <2>1. c \in Chan /\ c # e
    BY <1>8, ChanAssumption
  <2>2. CASE Goes(e, "clear")
    BY <1>8, <2>1, <2>2, NextAt DEF Untouched
  <2>3. CASE busy' = Idle
    BY <2>1, <2>3, NextIdle
  <2> QED
    BY <1>7, <2>2, <2>3
<1>10. UNCHANGED << phase, started, up, opened, mounts >>
  BY <1>1 DEF coreVars, fsVars, DestroyPortTbl, fdVars
<1>11. FreshInv'
  BY <1>4, <1>8, <1>10 DEF FreshInv
<1> QED
  BY <1>4, <1>5, <1>6, <1>8, <1>9, <1>10, <1>11

(* The devices come and go without the drivers of channels.                *)
LEMMA DevRefs ==
  ASSUME LoadInv, StartTypes, ChanTypes, BusyInv, RefInv, LookInv, FreshInv, RegDev \/ UnRegDev
  PROVE  ChanTypes' /\ BusyInv' /\ RefInv' /\ LookInv' /\ FreshInv'
<1> DEFINE n == Call.name
<1>1. phase' = phase /\ \A d \in {"vdec", "venc", "net"} : << "drv", d >> \notin up
  BY DoingIs, DeviceFirst DEF RegDev, UnRegDev, Returned
<1>2. << "drv", n >> \in up => n \notin ChanDev /\ ~StartFails(n)
  BY <1>1, BuildAssumption DEF StartFails
<1>3. UNCHANGED chanVars
  BY <1>2 DEF RegDev, UnRegDev, Start, Stop
<1>4. \A d \in ChanDev : started'[d] = started[d]
  <2> TAKE d \in ChanDev
  <2>1. d \in Dev
    BY BuildAssumption DEF Dev
  <2> QED
    BY <1>2, <2>1 DEF RegDev, UnRegDev, Start, Stop, StartTypes
<1>5. FreshInv'
  BY <1>1, <1>3, <1>4, FreshStill, ChannelDevices
<1> QED
  BY <1>3, <1>5, RefStill

LEMMA LoadRefs ==
  ASSUME LoadInv, StartTypes, StartedOnce, ChanTypes, BusyInv, RefInv, LookInv, FreshInv, QuietInv, Load
  PROVE  ChanTypes' /\ BusyInv' /\ RefInv' /\ LookInv' /\ FreshInv'
<1>1. ASSUME UNCHANGED chanVars, UNCHANGED started, phase' \in Early => phase \in Early,
             \A d : << "drv", d >> \in up' <=> << "drv", d >> \in up
      PROVE  ChanTypes' /\ BusyInv' /\ RefInv' /\ LookInv' /\ FreshInv'
  BY <1>1, FreshStill, RefStill
<1>2. CASE Make \/ TakeBack
  <2>1. PICK k \in Kinds : Call.kind = k
    BY <1>2 DEF Make, TakeBack, Doing
  <2>2. Call.kind # "drv" /\ up' \in {up \cup {<< Call.kind, Call.name >>}, up \ {<< Call.kind, Call.name >>}}
        /\ UNCHANGED << started, phase >> /\ UNCHANGED chanVars
    BY <1>2, <2>1 DEF Make, TakeBack, Kinds, Made, TakenBack, Returned
  <2>3. \A d : << "drv", d >> \in up' <=> << "drv", d >> \in up
    BY <2>2
  <2> QED
    BY <1>1, <2>2, <2>3
<1>3. CASE InitNext \/ Unload
  <2>1. /\ up' \in {up, up \cup {<< "mt", "core" >>}, up \ {<< "mt", "core" >>}}
        /\ UNCHANGED started /\ UNCHANGED chanVars
    BY <1>3 DEF InitNext, Unload
  <2>2. phase' \in Early => phase \in Early
    BY <1>3 DEF InitNext, Unload, Early
  <2>3. \A d : << "drv", d >> \in up' <=> << "drv", d >> \in up
    BY <2>1
  <2> QED
    BY <1>1, <2>1, <2>2, <2>3
<1>4. CASE (\E m \in Mods : RegMod(m)) \/ InitMods \/ InitFails \/ ExitNext
  <2>1. UNCHANGED up /\ UNCHANGED started /\ UNCHANGED chanVars
    BY <1>4 DEF RegMod, InitMods, InitFails, ExitNext
  <2>2. phase' \in Early => phase \in Early
    BY <1>4, FailsEarly DEF RegMod, InitMods, InitFails, ExitNext, Early
  <2> QED
    BY <1>1, <2>1, <2>2
<1>5. CASE RegName \/ UnRegName
  <2>1. UNCHANGED up /\ UNCHANGED started /\ UNCHANGED chanVars
    BY <1>5 DEF RegName, UnRegName
  <2>2. phase' \in Early => phase \in Early
    BY <1>5 DEF RegName, UnRegName, Returned, Early
  <2> QED
    BY <1>1, <2>1, <2>2
<1> QED
  BY <1>2, <1>3, <1>4, <1>5, RegDrvRefs, UnRegDrvRefs, DevRefs, DestroyTblRefs DEF Load

(* What programs do to the channels.                                       *)
LEMMA ProgramsRefs ==
  ASSUME ChanTypes, BusyInv, RefInv, LookInv, FreshInv, QuietInv, Programs
  PROVE  ChanTypes' /\ BusyInv' /\ RefInv' /\ LookInv' /\ FreshInv'
<1>1. UNCHANGED << phase, started, up >> /\ phase \in {"init", "run", "exit", "undo"}
  BY DEF Programs, coreVars, InCode
<1>2. ASSUME \A c \in Chan \ NodeChan : (c \in chanTbl' => c \in chanTbl) /\ (ref[c] = 0 => ref'[c] = 0)
      PROVE  FreshInv'
  BY <1>1, <1>2 DEF FreshInv
<1>3. CASE UNCHANGED chanVars
  <2>1. UNCHANGED << chanTbl, ref >>
    BY <1>3 DEF chanVars
  <2> QED
    BY <1>2, <1>3, <2>1, RefStill
<1>4. CASE \E f \in Fd : Open(f)
  <2>1. UNCHANGED << chanTbl, ref >>
    BY <1>4 DEF Open, tblVars
  <2> QED
    BY <1>2, <1>4, <2>1, OpenRefs
<1>5. CASE \E f \in Fd : Close(f)
  <2>1. UNCHANGED chanTbl
    BY <1>5 DEF Close, tblVars
  <2> QED
    BY <1>2, <1>5, <2>1, CloseRefs
<1>6. CASE \E t \in Thread, f \in Fd, c \in Chan : BindChan(t, f, c)
  <2>1. PICK t \in Thread, f \in Fd, c \in Chan : BindChan(t, f, c)
    BY <1>6
  <2>2. opened # {}
    BY <2>1 DEF BindChan
  <2>3. c \notin NodeChan => ~IsAt(c, "clear")
    BY <1>1, <2>2 DEF QuietInv
  <2>4. UNCHANGED << chanTbl, ref >>
    BY <2>1 DEF BindChan, tblVars
  <2> QED
    BY <1>2, <2>1, <2>3, <2>4, BindRefs
<1>7. CASE \E t \in Thread : GetChan(t)
  <2>1. UNCHANGED chanTbl
    BY <1>7 DEF GetChan, tblVars
  <2> QED
    BY <1>2, <1>7, <2>1, GetRefs
<1>8. CASE \E t \in Thread : Bound(t)
  <2>1. UNCHANGED << chanTbl, ref >>
    BY <1>8 DEF Bound, tblVars
  <2> QED
    BY <1>2, <1>8, <2>1, BoundRefs
<1>9. CASE \E c \in NodeChan : AddNode(c) \/ DelNode(c) \/ NodeStep(c)
  <2>1. PICK c \in NodeChan : AddNode(c) \/ DelNode(c) \/ NodeStep(c)
    BY <1>9
  <2>2. chanTbl' \in {chanTbl, chanTbl \cup {c}, chanTbl \ {c}}
    BY <2>1 DEF AddNode, DelNode, NodeStep, Added, AddFails, ReleaseChan, Clear, Deleted
  <2>3. \A e \in Chan : e # c => ref'[e] = ref[e]
    BY <2>1 DEF AddNode, DelNode, NodeStep, Added, AddFails, ReleaseChan, Clear, Deleted, Put, ChanTypes
  <2> QED
    BY <1>2, <2>1, <2>2, <2>3, NodeRefs
<1> QED
  BY <1>3, <1>4, <1>5, <1>6, <1>7, <1>8, <1>9 DEF Programs

(* Nobody comes while the module is unloaded.                              *)
LEMMA LoadQuiet ==
  ASSUME LoadInv, Agree, ChanTypes, BusyInv, RefInv, LookInv, FreshInv, QuietInv, Load
  PROVE  QuietInv'
<1>1. ASSUME phase' \in {"exit", "off"} => phase \in {"exit", "off"}, phase' = "exit" => phase = "exit",
             phase \in {"exit", "off", "oops"} => phase' \in {"exit", "off", "oops"}, UNCHANGED << opened, mounts, busy >>,
             \A c \in NodeChan : c \in chanTbl' => c \in chanTbl
      PROVE  QuietInv'
  BY <1>1 DEF QuietInv, IsAt, Untouched
<1>2. CASE Unload
  <2>1. opened' = {} /\ mounts' = mounts /\ ~(mounts > 0) /\ phase' = "exit" /\ UNCHANGED << chanTbl, busy >>
    BY <1>2 DEF Unload, Unused, chanVars, fsVars, Mounted
  <2>2. chanTbl \cap NodeChan = {} /\ busy = Idle
    BY <1>2 DEF Unload, Unused
  <2>3. \A c \in NodeChan : c \notin chanTbl' /\ Untouched(c)'
    BY <2>1, <2>2, ChanAssumption, NextIdle
  <2> QED
    BY <2>1, <2>3 DEF QuietInv, Agree
<1>3. CASE (\E m \in Mods : RegMod(m)) \/ InitMods \/ InitFails \/ InitNext \/ ExitNext
  <2>1. UNCHANGED << opened, mounts, busy, chanTbl >>
    BY <1>3 DEF RegMod, InitMods, InitFails, InitNext, ExitNext, chanVars, fsVars
  <2>2. /\ phase' \in {"exit", "off"} => phase = "exit"
        /\ phase \in {"exit", "off", "oops"} => phase' \in {"exit", "off", "oops"}
    BY <1>3, FailsEarly DEF RegMod, InitMods, InitFails, InitNext, ExitNext, ModsExit
  <2> QED
    BY <1>1, <2>1, <2>2
<1>4. CASE RegDrv \/ UnRegDrv \/ RegDev \/ UnRegDev
  <2>1. phase' = phase /\ mounts' = mounts
    BY <1>4 DEF RegDrv, UnRegDrv, RegDev, UnRegDev, Returned, fsVars
  <2>2. opened' = opened /\ busy' = busy
    BY <1>4 DEF RegDrv, UnRegDrv, RegDev, UnRegDev, Start, StartFails, Stop, CreatePortTbl, CreateFails,
                Destroyed, fdVars, chanVars
  <2>3. \A c \in NodeChan : c \in chanTbl' => c \in chanTbl
    BY <1>4 DEF RegDrv, UnRegDrv, RegDev, UnRegDev, Start, StartFails, Stop, CreatePortTbl, CreateFails,
                Destroyed, ChansOf, chanVars
  <2> QED
    BY <1>1, <2>1, <2>2, <2>3
<1>5. CASE RegName \/ UnRegName \/ Make \/ TakeBack
  <2>1. phase' \in {phase, "oops"} /\ UNCHANGED << opened, busy, chanTbl >>
    BY <1>5 DEF RegName, UnRegName, Make, TakeBack, Returned, chanVars
  <2>2. mounts' = mounts
    BY <1>5 DEF RegName, UnRegName, Make, TakeBack, RegFile, UnRegFile, fsVars
  <2> QED
    BY <1>1, <2>1, <2>2
<1>6. CASE DestroyTbl
  BY <1>6, DestroyTblRefs DEF QuietInv
<1> QED
  BY <1>2, <1>3, <1>4, <1>5, <1>6 DEF Load

LEMMA ProgramsQuiet ==
  ASSUME ChanTypes, BusyInv, Agree, QuietInv, Programs
  PROVE  QuietInv'
<1>1. phase' = phase /\ phase \in {"init", "run", "exit", "undo"}
  BY DEF Programs, coreVars, InCode
<1>2. phase # "exit"
  <2> SUFFICES ASSUME phase = "exit" PROVE FALSE
    OBVIOUS
  <2>1. opened = {} /\ mounts = 0 /\ tree = {} /\ \A c \in NodeChan : Untouched(c)
    BY DEF QuietInv, Agree, FilesShown, Mounted
  <2>2. \A t \in Thread : binding[t] = NoBind
    BY <2>1 DEF ChanTypes
  <2>3. ~Mounted /\ ~Umount
    BY <2>1 DEF Mounted, Umount
  <2>4. \A f \in Fd : ~Close(f) /\ \A t \in Thread, c \in Chan : ~BindChan(t, f, c)
    BY <2>1 DEF Close, BindChan
  <2>5. \A t \in Thread : ~GetChan(t) /\ ~Bound(t)
    <3>1. NoBind.got = FALSE
      BY DEF NoBind
    <3> QED
      BY <2>2, <3>1 DEF GetChan, Bound
  <2>6. \A c \in NodeChan : ~NodeStep(c)
    BY <2>1 DEF NodeStep, Added, AddFails, ReleaseChan, Clear, Deleted, Untouched
  <2> QED
    BY <2>1, <2>3, <2>4, <2>5, <2>6 DEF Programs, CanAdd
<1>3. \A c \in Chan \ NodeChan : ~IsAt(c, "clear")
  BY <1>1, <1>2 DEF QuietInv
<1>4. CASE busy' = busy
  BY <1>1, <1>2, <1>3, <1>4 DEF QuietInv, IsAt
<1>5. CASE busy' = Idle
  BY <1>1, <1>2, <1>5, NextIdle DEF QuietInv
<1>6. CASE \E c \in NodeChan : \E a : Goes(c, a)
  BY <1>1, <1>2, <1>6, ChanAssumption, NextAt DEF QuietInv
<1>7. busy' = busy \/ busy' = Idle \/ \E c \in NodeChan : \E a : Goes(c, a)
  BY DEF Programs, chanVars, Open, Close, BindChan, GetChan, Bound, tblVars,
         AddNode, DelNode, NodeStep, Added, AddFails, ReleaseChan, Clear, Deleted
<1> QED
  BY <1>4, <1>5, <1>6, <1>7

(* The ioctls of nodes come with the last parts.                           *)
LEMMA NoIoUndone ==
  ASSUME LoadInv, phase \in {"undo", "failed"}
  PROVE  << "io", "vn" >> \notin up
<1> DEFINE x == << "io", "vn" >>
<1>1. Owner(x) = "vnchan" /\ Level["vnchan"] = 5 /\ Level["fdd"] = 3
  BY DEF Owner, Level
<1>2. x[1] = "io" /\ x # << "mt", "core" >> /\ x # << "drv", "mem" >>
  OBVIOUS
<1> HIDE DEF x
<1>3. "fdd" \notin inited /\ "fdd" \in Mods
  BY BuildAssumption DEF LoadInv, PhaseInv
<1>4. Owner(x) \notin inited
  BY <1>1, <1>3 DEF LoadInv, PhaseInv
<1>5. ~Standing(x)
  BY <1>4 DEF Standing
<1>6. x \in Things => (x \in up <=> Standing(x))
  BY <1>2 DEF LoadInv, UpInv, Sure
<1>7. x \in up => x \in Things
  BY <1>2 DEF LoadInv, UpInv
<1> QED
  BY <1>5, <1>6, <1>7 DEF x

LEMMA LoadNodes ==
  ASSUME LoadInv, ChanTypes, BusyInv, RefInv, LookInv, FreshInv, QuietInv, NodeInv, Load
  PROVE  NodeInv'
<1> SUFFICES ASSUME phase' \in Early, << "io", "vn" >> \notin up' PROVE NoNodes'
  BY DEF NodeInv, Early
<1>1. ASSUME phase \in Early, << "io", "vn" >> \notin up, UNCHANGED busy,
             \A c \in NodeChan : ref'[c] = ref[c] /\ (c \in chanTbl' => c \in chanTbl)
      PROVE  NoNodes'
  BY <1>1 DEF NodeInv, NoNodes, Early, Untouched, IsAt
<1>2. CASE DestroyTbl
  BY <1>2, DestroyTblRefs DEF Early
<1>3. CASE RegDrv \/ UnRegDrv \/ RegDev \/ UnRegDev
  <2>1. phase' = phase /\ \A t \in up : t[1] = "io" => t \in up'
    <3>1. up' \in {up, up \cup {<< Call.kind, Call.name >>}, up \ {<< Call.kind, Call.name >>}} /\ phase' = phase
      BY <1>3 DEF RegDrv, UnRegDrv, RegDev, UnRegDev, Made, TakenBack, Returned
    <3>2. Call.kind \in {"drv", "dev"}
      BY <1>3 DEF RegDrv, UnRegDrv, RegDev, UnRegDev, Doing
    <3> QED
      BY <3>1, <3>2
  <2>2. << "io", "vn" >> \notin up
    BY <2>1
  <2>3. \A c \in NodeChan : c \in Chan /\ \A d : c \notin ChansOf(d)
    BY ChanAssumption DEF ChansOf
  <2>4. UNCHANGED chanVars \/ \E d : CreatePortTbl(d)
    BY <1>3 DEF RegDrv, UnRegDrv, RegDev, UnRegDev, Start, StartFails, Stop, CreateFails, Destroyed
  <2>5. busy' = busy /\ \A c \in NodeChan : ref'[c] = ref[c] /\ (c \in chanTbl' => c \in chanTbl)
    BY <2>3, <2>4 DEF CreatePortTbl, chanVars
  <2> QED
    BY <1>1, <2>1, <2>2, <2>5
<1>4. CASE Make \/ TakeBack
  <2>1. phase' = phase /\ UNCHANGED chanVars
    BY <1>4 DEF Make, TakeBack, Returned
  <2>2. << "io", "vn" >> \notin up
    <3>1. CASE Make
      BY <3>1 DEF Make, Made
    <3>2. CASE TakeBack
      <4>1. phase = "undo"
        BY <2>1, <3>2, DoingIs DEF TakeBack, Early
      <4> QED
        BY <4>1, NoIoUndone
    <3> QED
      BY <1>4, <3>1, <3>2
  <2> QED
    BY <1>1, <2>1, <2>2 DEF chanVars
<1>5. CASE RegName \/ UnRegName
  BY <1>1, <1>5 DEF RegName, UnRegName, Returned, chanVars, Early
<1>6. CASE (\E m \in Mods : RegMod(m)) \/ InitMods \/ InitFails \/ InitNext \/ Unload \/ ExitNext
  <2>1. UNCHANGED << chanTbl, ref, busy >>
    BY <1>6 DEF RegMod, InitMods, InitFails, InitNext, Unload, ExitNext, chanVars
  <2>2. phase \in Early
    BY <1>6, FailsEarly DEF RegMod, InitMods, InitNext, Unload, ExitNext, Early
  <2>3. << "io", "vn" >> \notin up
    BY <1>6 DEF RegMod, InitMods, InitFails, InitNext, Unload, ExitNext, Early
  <2> QED
    BY <1>1, <2>1, <2>2, <2>3
<1> QED
  BY <1>2, <1>3, <1>4, <1>5, <1>6 DEF Load

LEMMA ProgramsNodes ==
  ASSUME ChanTypes, BusyInv, RefInv, LookInv, NodeInv, Programs
  PROVE  NodeInv'
<1>1. UNCHANGED << phase, up >>
  BY DEF Programs, coreVars
<1> SUFFICES ASSUME phase \in Early, << "io", "vn" >> \notin up PROVE NoNodes'
  BY <1>1 DEF NodeInv, Early
<1>2. NoNodes /\ ~CanAdd /\ \A c \in NodeChan : c \in Chan /\ ~NodeStep(c) /\ ~DelNode(c)
  BY ChanAssumption DEF NodeInv, NoNodes, Early, CanAdd, Untouched, DelNode, NodeStep, Added, AddFails, ReleaseChan, Clear, Deleted
<1>3. ASSUME UNCHANGED << chanTbl, busy >>, \A c \in Chan : ref[c] = 0 => ref'[c] = 0 PROVE NoNodes'
  BY <1>2, <1>3 DEF NoNodes, Untouched, IsAt
<1>4. CASE UNCHANGED chanVars
  BY <1>3, <1>4 DEF chanVars
<1>5. CASE \E f \in Fd : Open(f)
  BY <1>3, <1>5 DEF Open, tblVars
<1>6. CASE \E f \in Fd : Close(f)
  <2>1. UNCHANGED << chanTbl, busy >>
    BY <1>6 DEF Close, tblVars
  <2> QED
    BY <1>3, <1>6, <2>1, CloseRefs
<1>7. CASE \E t \in Thread, f \in Fd, c \in Chan : BindChan(t, f, c)
  BY <1>3, <1>7 DEF BindChan, tblVars
<1>8. CASE \E t \in Thread : GetChan(t)
  <2>1. PICK t \in Thread : GetChan(t)
    BY <1>8
  <2>2. UNCHANGED << chanTbl, busy >>
    BY <2>1 DEF GetChan, tblVars
  <2>3. \A c \in Chan : ref[c] = 0 => ref'[c] = 0
    BY <2>1 DEF GetChan, Got, ChanTypes
  <2> QED
    BY <1>3, <2>2, <2>3
<1>9. CASE \E t \in Thread : Bound(t)
  BY <1>3, <1>9 DEF Bound, tblVars
<1> QED
  BY <1>2, <1>4, <1>5, <1>6, <1>7, <1>8, <1>9 DEF Programs

(* Between the parts nothing is left to call.                              *)
IdleInv == phase = "run" => todo = << >>

LEMMA LoadIdle ==
  ASSUME LoadInv, IdleInv, Load
  PROVE  IdleInv'
<1> SUFFICES ASSUME phase' = "run" PROVE todo' = << >>
  BY DEF IdleInv
<1>1. ~ \E do, k : Doing(do, k) /\ Returned
  BY DEF Doing, Returned
<1>2. InitNext
  BY <1>1, FailsEarly DEF Load, RegMod, InitMods, InitFails, ModsExit, Unload, ExitNext, RegDrv, UnRegDrv,
                          RegDev, UnRegDev, RegName, UnRegName, Make, TakeBack, DestroyTbl, coreVars, Doing
<1> QED
  BY <1>2 DEF InitNext

-----------------------------------------------------------------------------
(* The invariant: with the calls and the channels, the devices, the file   *)
(* system and its programs.                                                *)
VaInv == LoadInv /\ Agree /\ StartTypes /\ StartedOnce /\ ChanInv /\ IdleInv

LEMMA VaInvInit == Init => VaInv
<1> SUFFICES ASSUME Init PROVE VaInv
  OBVIOUS
<1>1. LoadInv /\ Agree /\ ChanTypes /\ BusyInv /\ RefInv /\ LookInv
  BY LoadInit, AgreeInit, RefInit DEF Init
<1>2. StartTypes /\ StartedOnce /\ FreshInv /\ IdleInv
  BY DEF Init, ChanInit, StartTypes, StartedOnce, FreshInv, IdleInv
<1>3. \A c \in Chan : Untouched(c) /\ ref[c] = 0 /\ c \notin chanTbl
  BY NowIdle DEF Init, ChanInit
<1>4. QuietInv /\ NodeInv
  BY <1>3, ChanAssumption DEF Init, QuietInv, NodeInv, NoNodes, Untouched
<1> QED
  BY <1>1, <1>2, <1>4 DEF VaInv, ChanInv

LEMMA VaInvNext == VaInv /\ [Next]_vars => VaInv'
<1> SUFFICES ASSUME VaInv, [Next]_vars PROVE VaInv'
  OBVIOUS
<1> USE DEF VaInv, ChanInv
<1>1. LoadInv'
  BY LoadInvNext
<1>2. CASE Load
  BY <1>1, <1>2, LoadAgrees, StartedKept, LoadRefs, LoadQuiet, LoadNodes, LoadIdle
<1>3. CASE Programs
  <2>1. UNCHANGED << phase, todo, started, up >>
    BY <1>3 DEF Programs, coreVars
  <2>2. StartTypes' /\ StartedOnce' /\ IdleInv'
    BY <2>1 DEF StartTypes, StartedOnce, IdleInv
  <2> QED
    BY <1>1, <1>3, <2>2, ProgramsAgree, ProgramsRefs, ProgramsQuiet, ProgramsNodes
<1>4. CASE UNCHANGED vars
  <2>1. UNCHANGED << phase, todo, started, up, mounts >> /\ UNCHANGED chanVars /\ UNCHANGED fsVars
    BY <1>4 DEF vars, coreVars, fsVars
  <2>2. StartTypes' /\ StartedOnce' /\ IdleInv'
    BY <2>1 DEF StartTypes, StartedOnce, IdleInv
  <2>3. FreshInv' /\ QuietInv' /\ NodeInv'
    BY <2>1 DEF FreshInv, QuietInv, NodeInv, NoNodes, chanVars, IsAt, Untouched
  <2> QED
    BY <1>1, <2>1, <2>2, <2>3, StillAgrees, RefStill
<1> QED
  BY <1>2, <1>3, <1>4 DEF Next

-----------------------------------------------------------------------------
(* What a call needs.                                                      *)

(* The things of parts of lower levels stand.                              *)
LEMMA LowerStands ==
  ASSUME LoadInv, phase \in {"init", "exit", "undo"}, todo # << >>,
         NEW x \in Things, x[1] \notin {"file", "type"}, Owner(x) \in Mods, Level[Owner(x)] < Level[Cur],
         Sure(x) \/ phase = "init"
  PROVE  x \in up
<1> DEFINE p == Owner(x)
<1>1. Range(modHead) = Mods /\ at \in 1 .. Len(modHead) /\ Cur = modHead[at] /\ Cur \in Mods
  BY CurIsPart DEF LoadInv, PhaseInv, Cur
<1>2. PICK j \in 1 .. Len(modHead) : p = modHead[j]
  BY <1>1 DEF LoadInv, OrderInv, Range
<1> HIDE DEF p
<1>3. Level[p] \in Nat /\ Level[Cur] \in Nat /\ Level[p] < Level[Cur]
  BY <1>1, <1>2, ModsAssumption DEF p, Level, LoadInv, OrderInv
<1>4. j < at
  <2>1. ~(at < j)
    BY <1>1, <1>2, <1>3 DEF LoadInv, OrderInv
  <2>2. j # at
    BY <1>1, <1>2, <1>3
  <2> QED
    BY <1>1, <2>1, <2>2 DEF LoadInv, OrderInv
<1>5. j \in 1 .. at - 1
  BY <1>1, <1>2, <1>4 DEF LoadInv, OrderInv
<1>6. p \in inited
  <2>1. CASE phase = "init"
    BY <1>2, <1>5, <2>1 DEF LoadInv, PhaseInv
  <2>2. CASE phase # "init"
    <3>1. Cur \in inited
      BY <2>2, CallFits DEF LoadInv
    <3> QED
      BY <1>3, <3>1 DEF p, LoadInv, PhaseInv
  <2> QED
    BY <2>1, <2>2
<1>7. Standing(x)
  BY <1>2, <1>5, <1>6 DEF p, Standing
<1> QED
  BY <1>7 DEF LoadInv, UpInv

(* By the kind of the call.                                                *)
LEMMA UsesUp ==
  ASSUME LoadInv, phase \in {"init", "exit", "undo"}, todo # << >>
  PROVE  Uses(Call) \subseteq up
<1> DEFINE x == Thing(Call)
<1>1. /\ Call \in CallSet /\ x \in Things /\ Owner(x) = Cur /\ x[1] = Call.kind /\ x[2] = Call.name
      /\ Cur \in DOMAIN Level
  BY CallFits, CurIsPart DEF LoadInv, Thing
<1>2. Placed(x)
  BY <1>1, ThingsFit
<1>3. {"vafs", "mt", "board_xxx", "fdd", "chan"} \subseteq Mods
  BY BuildAssumption
<1>4. /\ Sure(<< "fstype", "vafs" >>) /\ Sure(<< "root", "mt" >>) /\ Sure(<< "mt", "chan" >>)
      /\ Sure(<< "dev", "mem" >>) /\ Sure(<< "inst", "fdd" >>)
  BY DEF Sure
<1>5. CASE Call.kind = "file"
  <2>1. Level["vafs"] < Level[Cur]
    BY <1>1, <1>2, <1>5 DEF Placed, Level
  <2>2. << "fstype", "vafs" >> \in up
    BY <1>3, <1>4, <2>1, Needed, LowerStands
  <2>3. Uses(Call) = {<< "fstype", "vafs" >>}
    BY <1>5 DEF Uses, Starts
  <2> QED
    BY <2>2, <2>3
<1>6. CASE Call.kind = "mt"
  <2>1. Level["mt"] < Level[Cur]
    BY <1>1, <1>2, <1>6 DEF Placed, Level
  <2>2. << "root", "mt" >> \in up
    BY <1>3, <1>4, <2>1, Needed, LowerStands
  <2>3. Uses(Call) = {<< "root", "mt" >>}
    BY <1>6 DEF Uses, Starts
  <2> QED
    BY <2>2, <2>3
<1>7. CASE Call.kind = "type"
  <2>1. Level["mt"] < Level[Cur] /\ Level["chan"] < Level[Cur]
    BY <1>1, <1>2, <1>7 DEF Placed, Level
  <2>2. << "root", "mt" >> \in up /\ << "mt", "chan" >> \in up
    BY <1>3, <1>4, <2>1, Needed, LowerStands
  <2>3. Uses(Call) = {<< "root", "mt" >>, << "mt", "chan" >>}
    BY <1>7 DEF Uses, Starts
  <2> QED
    BY <2>2, <2>3
<1>8. CASE Call.kind = "inst"
  <2>1. Cur = "fdd" /\ InitPos(x) = 2
    BY <1>1, <1>2, <1>8 DEF Placed
  <2>2. Level["board_xxx"] < Level[Cur]
    BY <2>1 DEF Level
  <2>3. << "dev", "mem" >> \in up
    BY <1>3, <1>4, <2>2, Needed, LowerStands
  <2>4. << "drv", "mem" >> \in up
    <3> DEFINE y == << "drv", "mem" >>
    <3>1. y \in Things /\ Owner(y) = Cur /\ InitPos(y) = 1 /\ ExitPos(y) = 3 /\ y[1] = "drv"
      BY <2>1, Needed
    <3>2. Done \in Nat /\ (phase = "init" => InitPos(y) <= Done) /\ (phase # "init" => ExitPos(y) > Done /\ Cur \in inited)
      <4>1. ExitPos(x) = IF x = << "inst", "fdd" >> THEN 2 ELSE ExitPos(x)
        BY Needed
      <4>2. x = << "inst", "fdd" >>
        <5>1. InitPos(<< "inst", "fdd" >>) = 2
          BY DEF InitPos
        <5> QED
          BY <1>1, <2>1, <5>1, Needed, OneAtAPlace
      <4> QED
        BY <2>1, <3>1, <4>1, <4>2, CallFits DEF LoadInv
    <3>3. phase # "undo"
      BY <2>1, <3>2 DEF LoadInv, PhaseInv
    <3>4. at > 0
      BY DEF LoadInv, PhaseInv
    <3> HIDE DEF y
    <3>5. Standing(y)
      BY <3>1, <3>2, <3>4 DEF Standing
    <3>6. Sure(y)
      BY <3>1, <3>3 DEF Sure
    <3> QED
      BY <3>1, <3>5, <3>6 DEF y, LoadInv, UpInv
  <2>5. Uses(Call) = {<< "dev", "mem" >>, << "drv", "mem" >>}
    BY <1>8 DEF Uses, Starts
  <2> QED
    BY <2>3, <2>4, <2>5
<1>9. CASE Call.kind \in {"dev", "drv"} /\ Starts(Call) /\ Call.name \in ChanDev
  <2>1. Call.name \in {"vdec", "venc", "net"}
    BY <1>9, BuildAssumption
  <2>2. Call.kind = "drv"
    BY <1>9, <2>1, DeviceFirst DEF Starts
  <2>3. Owner(x) \in {"vdec", "venc", "vnchan"} /\ InitPos(x) = 2
    BY <1>1, <1>2, <2>1, <2>2 DEF Placed
  <2>4. Level["fdd"] < Level[Cur]
    BY <1>1, <2>3 DEF Level
  <2>5. << "inst", "fdd" >> \in up
    BY <1>3, <1>4, <2>4, Needed, LowerStands
  <2>6. << "type", Call.name >> \in up
    <3> DEFINE y == << "type", Call.name >>
    <3>1. x = << "drv", Call.name >>
      BY <1>1, <2>2 DEF Thing
    <3>2. y \in Things /\ Owner(y) = Cur /\ y[1] = "type"
      BY <1>1, <2>1, <3>1, TypeFirst
    <3> HIDE DEF y, x
    <3>3. CASE phase = "init"
      <4>1. InitPos(y) = 1
        BY <3>2, ThingsFit DEF Placed
      <4>2. Done \in Nat /\ InitPos(y) <= Done
        BY <2>3, <3>3, <4>1, CallFits DEF LoadInv, x
      <4>3. Standing(y)
        BY <3>2, <3>3, <4>2 DEF Standing
      <4> QED
        BY <3>2, <3>3, <4>3 DEF y, LoadInv, UpInv
    <3>4. CASE phase # "init"
      <4>1. Cur \in inited
        BY <3>4, CallFits DEF LoadInv
      <4> QED
        BY <3>2, <4>1 DEF y, LoadInv, UpInv
    <3> QED
      BY <3>3, <3>4
  <2>7. Uses(Call) = {<< "type", Call.name >>, << "inst", "fdd" >>}
    BY <1>9, <2>2 DEF Uses
  <2> QED
    BY <2>5, <2>6, <2>7
<1>10. CASE Call.kind \notin {"file", "mt", "type", "inst"} /\ ~(Starts(Call) /\ Call.name \in ChanDev)
  <2>1. Uses(Call) = {}
    BY <1>10 DEF Uses
  <2> QED
    BY <2>1
<1> QED
  BY <1>5, <1>6, <1>7, <1>8, <1>9, <1>10 DEF Starts

(* Without drivers of channels and open files, no channel is left.         *)
LEMMA NoneLeft ==
  ASSUME VaInv, phase \in {"exit", "off"}, \A d \in {"vdec", "venc", "net"} : << "drv", d >> \notin up
  PROVE  Alive \subseteq Lost
<1> SUFFICES ASSUME NEW c \in Chan, ref[c] > 0, lost[c] = 0 PROVE FALSE
  BY DEF Alive, Lost, VaInv, ChanInv, ChanTypes
<1>1. ChanTypes /\ BusyInv /\ RefInv /\ FreshInv /\ QuietInv /\ StartedOnce
  BY DEF VaInv, ChanInv
<1>2. Filed(c) = {} /\ Binders(c) = {}
  BY <1>1, NoneHeld DEF QuietInv
<1>3. c \notin chanTbl
  <2>1. CASE c \in NodeChan
    BY <1>1, <2>1 DEF QuietInv
  <2>2. CASE c \notin NodeChan
    BY <1>1, <2>2, ChannelDevices DEF FreshInv, StartedOnce
  <2> QED
    BY <2>1, <2>2
<1>4. ~Deleting(c)
  BY <1>1 DEF QuietInv, BusyInv, Deleting, Untouched
<1>5. ~InTable(c)
  BY <1>3 DEF InTable
<1>6. Cardinality({}) = 0
  BY FS_EmptySet
<1>7. Owed(c) = 0
  BY <1>2, <1>4, <1>5, <1>6 DEF Owed
<1>8. c \notin stale
  BY <1>1 DEF RefInv
<1> QED
  BY <1>1, <1>7, <1>8, OwedIs

LEMMA ServicesAreUp == VaInv => ServicesUp
<1> SUFFICES ASSUME VaInv, InCode, todo # << >> PROVE
      /\ Uses(Call) \subseteq up
      /\ (Call.do = "add" => << Call.kind, Call.name >> \notin up)
      /\ (Call.do = "del" /\ Call.kind = "inst") => Alive \subseteq Lost
  BY DEF ServicesUp
<1>1. LoadInv /\ phase \in {"init", "exit", "undo"}
  BY DEF VaInv, IdleInv, InCode
<1>2. Uses(Call) \subseteq up
  BY <1>1, UsesUp
<1>3. Call.do = "add" => << Call.kind, Call.name >> \notin up
  BY <1>1, NotYet DEF Thing
<1>4. ASSUME Call.do = "del", Call.kind = "inst" PROVE Alive \subseteq Lost
  <2>1. /\ Thing(Call) \in Things /\ Owner(Thing(Call)) = Cur /\ Thing(Call)[1] = "inst"
        /\ phase # "init" /\ Cur \in inited
    BY <1>1, <1>4, CallFits DEF LoadInv, Thing
  <2>2. Cur = "fdd"
    BY <2>1, ThingsFit DEF Placed
  <2>3. phase = "exit" /\ Level[Cur] < 5
    BY <1>1, <2>1, <2>2 DEF LoadInv, PhaseInv, Level
  <2> QED
    BY <1>1, <2>3, NoDriverYet, NoneLeft
<1> QED
  BY <1>2, <1>3, <1>4

LEMMA AllIsDown == VaInv => AllUndone
<1> SUFFICES ASSUME VaInv, phase \in {"off", "failed"} PROVE
      /\ tree = {} /\ \A t \in up : t[1] \notin {"fstype", "inst", "root"}
      /\ Alive \subseteq Lost
  BY DEF AllUndone
<1>1. LoadInv /\ at = 0 /\ Agree
  BY DEF VaInv, LoadInv, PhaseInv
<1>2. \A x : Standing(x) = FALSE
  BY <1>1 DEF Standing
<1>3. fileHead = {}
  BY <1>1, <1>2 DEF LoadInv, FileInv
<1>4. tree = {}
  BY <1>1, <1>3 DEF Agree, FilesShown
<1>5. ASSUME NEW t \in up, t[1] \in {"fstype", "inst", "root"} PROVE FALSE
  <2>1. t # << "mt", "core" >>
    BY <1>5
  <2>2. t \in Things
    BY <1>1, <2>1 DEF LoadInv, UpInv
  <2>3. Sure(t) /\ t[1] # "file"
    BY <1>5 DEF Sure
  <2> QED
    BY <1>1, <1>2, <2>2, <2>3 DEF LoadInv, UpInv
<1>6. \A d \in {"vdec", "venc", "net"} : << "drv", d >> \notin up
  BY <1>1, NoDriverUndone
<1>7. CASE phase = "off"
  BY <1>4, <1>5, <1>6, <1>7, NoneLeft DEF VaInv, ChanInv, QuietInv
<1>8. CASE phase = "failed"
  <2>1. \A c \in Chan \ NodeChan : ref[c] = 0
    BY <1>6, <1>8, ChannelDevices DEF VaInv, ChanInv, FreshInv
  <2>2. \A c \in NodeChan : ref[c] = 0
    BY <1>1, <1>8, NoIoUndone DEF VaInv, ChanInv, NodeInv, NoNodes
  <2> QED
    BY <1>4, <1>5, <2>1, <2>2 DEF Alive
<1> QED
  BY <1>7, <1>8

LEMMA BoundAreLive == VaInv => BoundIsLive
  BY DEF VaInv, ChanInv, LookInv, RefInv, BoundIsLive

-----------------------------------------------------------------------------
(* For every order in which the linker gives the parts, and wherever a     *)
(* load fails (VA_InitMods, VA_ModsExit in va.c): each call of an init or  *)
(* exit finds what it uses (the lock of the file system, the root view of  *)
(* mt, the commands of chan, the memory of fdd, the switch), nothing is    *)
(* made twice, and when fdd is taken back no channel is left but those     *)
(* that two crossing binds have lost.                                      *)
THEOREM ServicesAlwaysUp == Spec => []ServicesUp
  BY VaInvInit, VaInvNext, ServicesAreUp, PTL DEF Spec

(* VA_RegDrv, VA_RegDev and their opposites: a device that is there with   *)
(* its driver was started once, or its driver failed to, whichever came    *)
(* first; no other is started.                                             *)
THEOREM DevicesStartOnce == Spec => []StartedOnce
<1>1. VaInv => StartedOnce
  BY DEF VaInv
<1> QED
  BY VaInvInit, VaInvNext, <1>1, PTL DEF Spec

(* VA_ModsExit after a failed init or at the unloading leaves no type of   *)
(* file system, name, buffers or locks behind, and no channel but those    *)
(* that two crossing binds have lost, also when nodes came and went.       *)
THEOREM AllIsUndone == Spec => []AllUndone
  BY VaInvInit, VaInvNext, AllIsDown, PTL DEF Spec

(* VA_BindChan, VA_ReleaseChan, the tables of va_chan_base.c and the nodes *)
(* of vn_chan.c: with any number of files, binds and nodes, a channel has  *)
(* at every moment the references of those that have it, and what crossing *)
(* binds have lost; a bind that is late, after the channel was freed,      *)
(* finds one of a node only, never of the board.                           *)
THEOREM BoundChannelsLive == Spec => []BoundIsLive
  BY VaInvInit, VaInvNext, BoundAreLive, PTL DEF Spec
=============================================================================
