------------------------------- MODULE VaCore -------------------------------
(***************************************************************************)
(* Loading and unloading (src/kern/comm/va.c), with the init and exit of   *)
(* the parts of the module, the drivers and the devices of the board.      *)
(*                                                                         *)
(* Constructors put each part into a list by its level, in the order the   *)
(* linker gives them; VA_InitMods then runs the list, and when a part      *)
(* fails, or at the unloading, VA_ModsExit runs it backwards.  A part's    *)
(* init is a sequence of calls that make things the later ones use: that   *)
(* what a call uses is there depends on the levels only.  A driver and its *)
(* devices may come in either order, and the one that comes second starts  *)
(* the device.                                                             *)
(*                                                                         *)
(* The file system is there from the first init on: programs mount it and  *)
(* open files while the module is still being loaded.                      *)
(***************************************************************************)
EXTENDS VaFs, VaChan, Sequences, SequencesExt

CONSTANT Mods  (* the parts built into the module                          *)

Level == [vafs |-> 0, mt |-> 1, board |-> 2, board_xxx |-> 2, fdd |-> 3, cp |-> 3, vkchan |-> 3,
          chan |-> 4, cfg |-> 4, vdec |-> 5, venc |-> 5, vnchan |-> 5, mt_ktest |-> 7]

ASSUME ModsAssumption == Mods \subseteq DOMAIN Level /\ Mods # {}
(* Those the others cannot do without are always linked (kern/Makefile).   *)
ASSUME BuildAssumption ==
  {"vafs", "mt", "board_xxx", "fdd", "chan"} \subseteq Mods /\ ChanDev \subseteq {"vdec", "venc", "net"}
ASSUME FilesAssumption == {"mt_ca", "mt_ua", "cp", "vchan", "cfg"} \subseteq File

-----------------------------------------------------------------------------
(* What the parts do: calls that make or take back a thing, << kind, name  *)
(* >>.  "inst" is the buffers and the work queue of the switch, "root" the *)
(* locks and the root view of mt.                                          *)

Add(kind, name) == [do |-> "add", kind |-> kind, name |-> name]
Del(kind, name) == [do |-> "del", kind |-> kind, name |-> name]

(* The init and exit of each part.                                         *)
FsMod == [init |-> << Add("fstype", "vafs") >>, exit |-> << Del("fstype", "vafs") >>]
MtMod == [init |-> << Add("root", "mt"), Add("file", "mt_ca"), Add("file", "mt_ua") >>,
          exit |-> << Del("file", "mt_ua"), Del("file", "mt_ca"), Del("root", "mt") >>]
BoardMod == [init |-> << Add("drv", "board") >>, exit |-> << Del("drv", "board") >>]
BoardXxxMod == [init |-> << Add("dev", "board"), Add("dev", "mem"),
                            Add("dev", "vdec"), Add("dev", "venc"), Add("dev", "net") >>,
                exit |-> << Del("dev", "mem"), Del("dev", "vdec"), Del("dev", "venc"),
                            Del("dev", "net"), Del("dev", "board") >>]
FddMod == [init |-> << Add("drv", "mem"), Add("inst", "fdd"), Add("mt", "fdd") >>,
           exit |-> << Del("mt", "fdd"), Del("inst", "fdd"), Del("drv", "mem") >>]
CpMod == [init |-> << Add("file", "cp") >>, exit |-> << Del("file", "cp") >>]
VkMod == [init |-> << Add("file", "vchan") >>, exit |-> << Del("file", "vchan") >>]
ChanMod == [init |-> << Add("io", "chan"), Add("mt", "chan") >>,
            exit |-> << Del("io", "chan"), Del("mt", "chan") >>]
CfgMod == [init |-> << Add("file", "cfg") >>, exit |-> << Del("file", "cfg") >>]
VdecMod == [init |-> << Add("type", "vdec"), Add("drv", "vdec") >>, exit |-> << Del("drv", "vdec") >>]
VencMod == [init |-> << Add("type", "venc"), Add("drv", "venc") >>, exit |-> << Del("drv", "venc") >>]
VnMod == [init |-> << Add("type", "net"), Add("drv", "net"), Add("io", "vn"), Add("notify", "vn") >>,
          exit |-> << Del("notify", "vn"), Del("io", "vn"), Del("drv", "net") >>]
KtestMod == [init |-> << Add("mt", "mt_ktest") >>, exit |-> << Del("mt", "mt_ktest") >>]

Part == [vafs |-> FsMod, mt |-> MtMod, board |-> BoardMod, board_xxx |-> BoardXxxMod,
         fdd |-> FddMod, cp |-> CpMod, vkchan |-> VkMod, chan |-> ChanMod, cfg |-> CfgMod,
         vdec |-> VdecMod, venc |-> VencMod, vnchan |-> VnMod, mt_ktest |-> KtestMod]

Dev == {"board", "mem", "vdec", "venc", "net"}

VARIABLES
  modHead,  (* stModHead                                                   *)
  phase,    (* "ctor", "init", "run", "exit", "undo", and how it ended:    *)
            (* "off", "failed" or "oops"                                   *)
  at,       (* the part VA_InitMods or VA_ModsExit is at                   *)
  todo,     (* the calls its init or exit has left                         *)
  inited,   (* the parts with bInited                                      *)
  up,       (* what has been made                                          *)
  started   (* "no", "on" or "bad", of each device: what its driver made;  *)
            (* "twice" when it was made over                               *)

coreVars == << modHead, phase, at, todo, inited, up, started >>
vars == << coreVars, fsVars, chanVars >>

Init ==
  /\ FsInit /\ ChanInit
  /\ modHead = << >> /\ phase = "ctor" /\ at = 0 /\ todo = << >>
  /\ inited = {} /\ up = {} /\ started = [d \in Dev |-> "no"]

(* VA_RegMod: before the first part of the same or a later level.          *)
PlaceOf(m) == 1 + Cardinality({i \in DOMAIN modHead : Level[modHead[i]] < Level[m]})

RegMod(m) ==
  /\ phase = "ctor" /\ m \notin Range(modHead)
  /\ modHead' = InsertAt(modHead, PlaceOf(m), m)
  /\ UNCHANGED << phase, at, todo, inited, up, started, fsVars, chanVars >>

InitMods ==
  /\ phase = "ctor" /\ Range(modHead) = Mods
  /\ phase' = "init" /\ at' = 1 /\ todo' = Part[modHead[1]].init
  /\ UNCHANGED << modHead, inited, up, started, fsVars, chanVars >>

Call == todo[1]
Doing(do, kind) == phase \in {"init", "exit", "undo"} /\ todo # << >> /\ Call.do = do /\ Call.kind = kind
Returned == todo' = Tail(todo) /\ UNCHANGED << modHead, phase, at, inited >>
Made == up' = up \cup {<< Call.kind, Call.name >>}
TakenBack == up' = up \ {<< Call.kind, Call.name >>}

-----------------------------------------------------------------------------
(* Drivers and devices: one driver for each device of the board.           *)

Start(d) ==
  /\ started' = [started EXCEPT ![d] = IF @ = "no" THEN "on" ELSE "twice"]
  /\ IF d \in ChanDev THEN CreatePortTbl(d) ELSE UNCHANGED chanVars

(* The init of a driver of channels finds no memory.                       *)
StartFails(d) == d \in {"vdec", "venc", "net"} /\ CreateFails(d)

Stop(d) ==
  /\ started' = [started EXCEPT ![d] = "no"]
  /\ IF d \in ChanDev THEN Destroyed(d) ELSE UNCHANGED chanVars

(* VA_DrvMatch.  Mutant: a driver only meets the devices that come later.  *)
NoMatch(n) == FALSE
DrvMatch(n) == << "dev", n >> \in up

(* What the init of the driver returns is logged and dropped.              *)
RegDrv ==
  /\ Doing("add", "drv") /\ Made /\ Returned
  /\ IF DrvMatch(Call.name)
     THEN \/ Start(Call.name)
          \/ StartFails(Call.name) /\ started' = [started EXCEPT ![Call.name] = "bad"]
     ELSE UNCHANGED << started, chanVars >>
  /\ UNCHANGED fsVars

(* Also for a device the driver could not start.                           *)
UnRegDrv ==
  /\ Doing("del", "drv") /\ TakenBack /\ Returned
  /\ IF << "dev", Call.name >> \in up THEN Stop(Call.name) ELSE UNCHANGED << started, chanVars >>
  /\ UNCHANGED fsVars

(* A device its driver fails to start is not registered.                   *)
RegDev ==
  /\ Doing("add", "dev") /\ Returned
  /\ IF << "drv", Call.name >> \in up
     THEN \/ Start(Call.name) /\ Made
          \/ StartFails(Call.name) /\ UNCHANGED << started, up >>
     ELSE Made /\ UNCHANGED << started, chanVars >>
  /\ UNCHANGED fsVars

(* The exit of a driver of channels, before either returns.                *)
DestroyTbl ==
  /\ \E k \in {"drv", "dev"} : Doing("del", k)
  /\ {<< "dev", Call.name >>, << "drv", Call.name >>} \subseteq up
  /\ Call.name \in ChanDev /\ DestroyPortTbl(Call.name)
  /\ UNCHANGED << coreVars, fsVars >>

UnRegDev ==
  /\ Doing("del", "dev") /\ TakenBack /\ Returned
  /\ IF {<< "dev", Call.name >>, << "drv", Call.name >>} \subseteq up
     THEN Stop(Call.name) ELSE UNCHANGED << started, chanVars >>
  /\ UNCHANGED fsVars

-----------------------------------------------------------------------------
(* The other calls, and the parts one after the other.                     *)

RegName ==
  /\ Doing("add", "file") /\ RegFile(Call.name) /\ Returned
  /\ UNCHANGED << up, started, chanVars >>

UnRegName ==
  /\ Doing("del", "file") /\ UNCHANGED << up, started, chanVars >>
  /\ IF UnRegFaults(Call.name)
     THEN phase' = "oops" /\ UNCHANGED << modHead, at, todo, inited, fsVars >>
     ELSE UnRegFile(Call.name) /\ Returned

Kinds == {"fstype", "root", "mt", "io", "type", "notify", "inst"}

Make ==
  /\ \E k \in Kinds : Doing("add", k)
  /\ Made /\ Returned /\ UNCHANGED << started, fsVars, chanVars >>

TakeBack ==
  /\ \E k \in Kinds : Doing("del", k)
  /\ TakenBack /\ Returned /\ UNCHANGED << started, fsVars, chanVars >>

(* The exit of the part at the end of the list, or of the one before.      *)
(* Mutant: the list is walked from its head.                               *)
ExitFromHead(i) ==
  /\ at' = i
  /\ todo' = LET m == modHead[Len(modHead) + 1 - i]
             IN IF i > 0 /\ m \in inited THEN Part[m].exit ELSE << >>
ExitAt(i) == at' = i /\ todo' = IF i > 0 /\ modHead[i] \in inited THEN Part[modHead[i]].exit ELSE << >>

(* VA_InitMods when an init fails.  Mutant: it returns without VA_ModsExit. *)
LeftInited == phase' = "failed" /\ at' = 0 /\ todo' = << >>
ModsExit == phase' = "undo" /\ ExitAt(Len(modHead))

InitFails ==
  /\ \E k \in {"fstype", "root", "inst"} : Doing("add", k)
  /\ ModsExit
  /\ UNCHANGED << modHead, inited, up, started, fsVars, chanVars >>

(* After the last part VA_Init registers the commands of the core.         *)
InitNext ==
  /\ phase = "init" /\ todo = << >> /\ inited' = inited \cup {modHead[at]}
  /\ IF at < Len(modHead)
     THEN at' = at + 1 /\ todo' = Part[modHead[at + 1]].init /\ UNCHANGED << phase, up >>
     ELSE phase' = "run" /\ up' = up \cup {<< "mt", "core" >>} /\ UNCHANGED << at, todo >>
  /\ UNCHANGED << modHead, started, fsVars, chanVars >>

(* No file is open, and no node there: the program of a node has "cp".     *)
Unused == opened = {} /\ chanTbl \cap NodeChan = {} /\ busy = Idle

(* VA_Exit, when nobody has a reference to the module.                     *)
Unload ==
  /\ phase = "run" /\ ~Mounted /\ Unused
  /\ phase' = "exit" /\ up' = up \ {<< "mt", "core" >>} /\ ExitAt(Len(modHead))
  /\ UNCHANGED << modHead, inited, started, fsVars, chanVars >>

ExitNext ==
  /\ phase \in {"exit", "undo"} /\ todo = << >>
  /\ IF at > 1
     THEN ExitAt(at - 1) /\ UNCHANGED phase
     ELSE ExitAt(0) /\ phase' = IF phase = "exit" THEN "off" ELSE "failed"
  /\ UNCHANGED << modHead, inited, up, started, fsVars, chanVars >>

Load ==
  \/ \E m \in Mods : RegMod(m)
  \/ InitMods \/ InitFails \/ InitNext \/ Unload \/ ExitNext
  \/ RegDrv \/ UnRegDrv \/ RegDev \/ UnRegDev \/ DestroyTbl
  \/ RegName \/ UnRegName \/ Make \/ TakeBack

-----------------------------------------------------------------------------
(* Programs.  An open file keeps its mount.  Nodes are made and deleted by *)
(* ioctls of "cp", once the driver of their channels has its table.        *)

InCode == phase \in {"init", "run", "exit", "undo"}

CanAdd == "cp" \in tree /\ << "io", "vn" >> \in up /\ started["net"] = "on"

Programs ==
  /\ InCode /\ UNCHANGED coreVars
  /\ \/ << "fstype", "vafs" >> \in up /\ phase # "exit" /\ Mount /\ UNCHANGED chanVars
     \/ (mounts > 1 \/ Unused) /\ Umount /\ UNCHANGED chanVars
     \/ /\ UNCHANGED fsVars
        /\ \/ \E f \in Fd : "vchan" \in tree /\ Open(f)
           \/ \E f \in Fd : Close(f)
           \/ \E t \in Thread, f \in Fd, c \in Chan : BindChan(t, f, c)
           \/ \E t \in Thread : GetChan(t) \/ Bound(t)
           \/ \E c \in NodeChan :
                \/ CanAdd /\ AddNode(c)
                \/ "cp" \in tree /\ DelNode(c)
                \/ NodeStep(c)

Next == Load \/ Programs

Spec == Init /\ [][Next]_vars

-----------------------------------------------------------------------------
TypeOK ==
  /\ FsTypeOK
  /\ chanTbl \subseteq Chan /\ ref \in [Chan -> 0 .. MaxRef] /\ lost \in [Chan -> 0 .. MaxRef]
  /\ opened \subseteq Fd /\ stale \subseteq Chan
  /\ at \in 0 .. Len(modHead) /\ inited \subseteq Mods
  /\ started \in [Dev -> {"no", "on", "bad", "twice"}]

(* What a call uses: a file the lock of the file system, commands the      *)
(* locks and the root view of mt, a type of channels the commands of       *)
(* "chan", the buffers the sizes of the memory device, the channels a      *)
(* driver makes its type and the switch.                                   *)
Starts(c) ==
  \/ c.kind = "drv" /\ << "dev", c.name >> \in up
  \/ c.kind = "dev" /\ << "drv", c.name >> \in up
Uses(c) ==
  CASE c.kind = "file" -> {<< "fstype", "vafs" >>}
    [] c.kind = "mt"   -> {<< "root", "mt" >>}
    [] c.kind = "type" -> {<< "root", "mt" >>, << "mt", "chan" >>}
    [] c.kind = "inst" -> {<< "dev", "mem" >>, << "drv", "mem" >>}
    [] Starts(c) /\ c.name \in ChanDev -> {<< "type", c.name >>, << "inst", "fdd" >>}
    [] OTHER -> {}

(* Whatever the link order and wherever the load fails, a part uses        *)
(* nothing that is not made yet or is gone already, and makes nothing      *)
(* twice; the channels are gone before the switch is.                      *)
ServicesUp ==
  (InCode /\ todo # << >>) =>
    /\ Uses(Call) \subseteq up
    /\ (Call.do = "add" => << Call.kind, Call.name >> \notin up)
    /\ (Call.do = "del" /\ Call.kind = "inst") => Alive \subseteq Lost

(* A device whose driver is registered too was started, once, or its       *)
(* driver failed to; any other is not started: whichever came first, and   *)
(* whichever leaves first.                                                 *)
StartedOnce ==
  \A d \in Dev :
    IF {<< "dev", d >>, << "drv", d >>} \subseteq up THEN started[d] \in {"on", "bad"} ELSE started[d] = "no"

(* When the load has failed or the module was unloaded, nothing of it is   *)
(* left with the kernel: no type of file system, no name in the tree, no   *)
(* buffer or work queue, and no channel but those that two crossing binds  *)
(* have lost.  (The driver of fdd stays in a list of the module itself     *)
(* when its buffers could not be made.)                                    *)
AllUndone ==
  phase \in {"off", "failed"} =>
    /\ tree = {} /\ \A t \in up : t[1] \notin {"fstype", "inst", "root"}
    /\ Alive \subseteq Lost
=============================================================================
