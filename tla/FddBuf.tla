------------------------------- MODULE FddBuf -------------------------------
(***************************************************************************)
(* The block/buffer manager of the fast data dispatcher                    *)
(* (src/kern/fdd/fdd_buf.c).                                               *)
(*                                                                         *)
(* Memory is cut into blocks of equal size.  A block is on the free list,  *)
(* or a thread is between two steps of taking it or giving it back, or it  *)
(* carries a reference count: one for every buffer header that points into *)
(* it, one if it is the shared block small buffers are carved from         *)
(* (pstCurrBlk), one for every temporary header CloneTmpBuf redirected.    *)
(* The mutex of the manager is not a variable: what runs between a lock    *)
(* and the next unlock (or the sleep in the middle of an allocation) is    *)
(* one action.  What runs outside of the mutex (the atomic counters, the   *)
(* carving of a private block, wake_up_all) is an action of its own.       *)
(***************************************************************************)
EXTENDS Integers, FiniteSets

CONSTANTS
  Blk,        (* the blocks                                               *)
  NoBlk,      (* the NULL block pointer                                   *)
  Thread,     (* threads that call into the manager                       *)
  Handle,     (* names for the buffer references that can be alive at once *)
  NoHandle,   (* no reference                                             *)
  BlkSize,    (* bytes of a block after its header (u32BlkSize)           *)
  BufHdr,     (* sizeof(FDD_BUF_S)                                        *)
  MinRsvd,    (* FDD_BUF_MIN_RSVD_LEN                                     *)
  Lens,       (* the lengths that callers ask for                         *)
  Flags,      (* the allocation flags that callers pass                   *)
  MaxTmp      (* bound on the references taken by temporary headers       *)

ASSUME FiniteAssumption ==
  IsFiniteSet(Blk) /\ IsFiniteSet(Handle) /\ IsFiniteSet(Thread)
ASSUME NullAssumption == NoBlk \notin Blk /\ NoHandle \notin Handle
ASSUME SizeAssumption ==
  /\ BlkSize \in Nat /\ BufHdr \in Nat /\ MinRsvd \in Nat
  /\ 0 < BufHdr /\ BufHdr <= MinRsvd /\ 2 * BufHdr <= BlkSize
ASSUME LensAssumption == Lens \subseteq Nat
ASSUME FlagsAssumption == Flags \subseteq SUBSET {"RSVD", "WAIT"}

VARIABLES
  stFreeHead,      (* the free list                                       *)
  u32FreeNum,      (* its length as the code counts it                    *)
  pstCurrBlk,      (* the block small buffers are carved from             *)
  stRef,           (* reference count of a block                          *)
  u32CurrFreeOff,  (* first byte of a block that no buffer uses           *)
  buf,             (* the live references: where their header points      *)
  tmpRef,          (* references of a block taken for temporary headers   *)
  tmpBuf,          (* the temporary header on a thread's stack            *)
  pc, call         (* where a thread is, and the call it is in            *)

vars == << stFreeHead, u32FreeNum, pstCurrBlk, stRef, u32CurrFreeOff,
           buf, tmpRef, tmpBuf, pc, call >>

(* A header that is not alive, a thread with no temporary header, and a   *)
(* thread that is in no call.                                              *)
NoBuf  == [blk |-> NoBlk, off |-> 0, len |-> 0, tail |-> FALSE]
NoTmp  == [flag |-> {}, blk |-> NoBlk]
NoCall == [op |-> "none", len |-> 0, flag |-> {}, blk |-> NoBlk,
           hdl |-> NoHandle]

BufType  == [blk : Blk \cup {NoBlk}, off : Nat, len : Nat, tail : BOOLEAN]
TmpType  == [flag : SUBSET {"TEMP", "HDR_TEMP"}, blk : Blk \cup {NoBlk}]
CallType == [op : {"none", "buf", "tmp", "priv"}, len : Nat,
             flag : SUBSET {"RSVD", "WAIT"}, blk : Blk \cup {NoBlk},
             hdl : Handle \cup {NoHandle}]
PcType   == {"idle", "alloc", "check", "sleep", "relock", "carve",
             "tmpget", "put", "wake"}

Live(h)    == buf[h].blk # NoBlk
BufsOf(b)  == {h \in Handle : buf[h].blk = b}
MaxBufSize == BlkSize - BufHdr

(* Every operator whose comment says "mutant" is a plausible bug of the    *)
(* definition after it; nothing uses it but the tests of the properties.   *)

(* The condition of the wait: a call without RSVD leaves the last block.   *)
Avail(num, flag) == IF "RSVD" \in flag THEN num > 0 ELSE num > 1

(* Mutant: the wake-up is forgotten.                                       *)
WakeNobody(p) == p

(* wake_up_all: every sleeper evaluates its condition again.               *)
WakeAll(p) == [t \in Thread |-> IF p[t] = "sleep" THEN "check" ELSE p[t]]

(* Mutant: a header is handed out without its reference.                   *)
GetNoBlk(b) == stRef

(* FDD_GetBlk                                                              *)
GetBlk(b) == [stRef EXCEPT ![b] = @ + 1]

----------------------------------------------------------------------------

Init ==
  /\ stFreeHead     = Blk
  /\ u32FreeNum     = Cardinality(Blk)
  /\ pstCurrBlk     = NoBlk
  /\ stRef          = [b \in Blk |-> 0]
  /\ u32CurrFreeOff = [b \in Blk |-> 0]
  /\ buf            = [h \in Handle |-> NoBuf]
  /\ tmpRef         = [b \in Blk |-> 0]
  /\ tmpBuf         = [t \in Thread |-> NoTmp]
  /\ pc             = [t \in Thread |-> "idle"]
  /\ call           = [t \in Thread |-> NoCall]

(* Bound: a reference is only asked for while a name for it is left.       *)
SpareHandle ==
  Cardinality({h \in Handle : Live(h)})
    + Cardinality({t \in Thread : call[t].op # "none"}) < Cardinality(Handle)

(***************************************************************************)
(* Calls.  FDD_AllocBuf refuses a length no block can hold.                *)
(***************************************************************************)
EnterAlloc(t, op, len, flag) ==
  /\ pc[t] = "idle"
  /\ SpareHandle
  /\ pc'   = [pc EXCEPT ![t] = "alloc"]
  /\ call' = [call EXCEPT ![t] = [NoCall EXCEPT !.op = op, !.len = len,
                                                !.flag = flag]]
  /\ UNCHANGED << stFreeHead, u32FreeNum, pstCurrBlk, stRef, u32CurrFreeOff,
                  buf, tmpRef, tmpBuf >>

CallAllocBuf(t, len, flag) ==
  /\ len <= MaxBufSize
  /\ tmpBuf[t] = NoTmp
  /\ EnterAlloc(t, "buf", len, flag)

CallAllocPrivBuf(t, flag) ==
  /\ tmpBuf[t] = NoTmp
  /\ EnterAlloc(t, "priv", MaxBufSize - BufHdr, flag)

(* FDD_HoldBuf reaches CloneTmpBuf with no flag, for a TEMP header.        *)
CallCloneTmpBuf(t, len) ==
  /\ len <= MaxBufSize
  /\ "TEMP" \in tmpBuf[t].flag
  /\ \A b \in Blk : tmpRef[b] < MaxTmp          \* bound
  /\ EnterAlloc(t, "tmp", len, {})

(***************************************************************************)
(* One pass through a critical section of an allocation.  It starts at the *)
(* call, or after a sleep; the loop of __FDD_AllocBlk then looks at its    *)
(* condition once more.                                                    *)
(***************************************************************************)
Relocked(t) == pc[t] = "relock" /\ Avail(u32FreeNum, call[t].flag)

InLoop(t) == pc[t] = "alloc" \/ Relocked(t)

(* Mutant: no recheck after the sleep.                                     *)
CurrNotRechecked(t) == IF Relocked(t) THEN NoBlk ELSE pstCurrBlk

(* The current block as the loop of FDD_AllocBuf finds it: it rechecks     *)
(* after a sleep, for another thread may have installed one.               *)
CurrSeen(t) == pstCurrBlk

(* Then the block just taken goes back, and its release wakes everyone.    *)
GivesBack(t) == Relocked(t) /\ CurrSeen(t) # NoBlk

FitsCurr(t) ==
  /\ CurrSeen(t) # NoBlk
  /\ BlkSize - u32CurrFreeOff[CurrSeen(t)] >= call[t].len + BufHdr

(* The manager after the loop has put a current block that is too full.    *)
CurrIsLast(t) == CurrSeen(t) # NoBlk /\ stRef[CurrSeen(t)] = 1
FreeAfter(t)  == IF CurrIsLast(t) THEN stFreeHead \cup {CurrSeen(t)}
                                  ELSE stFreeHead
NumAfter(t)   == IF CurrIsLast(t) THEN u32FreeNum + 1 ELSE u32FreeNum
RefAfter(t)   == IF CurrSeen(t) = NoBlk THEN stRef
                 ELSE [stRef EXCEPT ![CurrSeen(t)] = @ - 1]

(* Mutant: the pointer to the block that was put is kept.                  *)
CurrKept == pstCurrBlk

CurrAfter == NoBlk

AfterAlloc(t) == IF call[t].op = "tmp" THEN "tmpget" ELSE "idle"
CallAfter(t, h) ==
  IF call[t].op = "tmp" THEN [call EXCEPT ![t].hdl = h]
                        ELSE [call EXCEPT ![t] = NoCall]

NewBuf(b, off, len, tail) ==
  [blk |-> b, off |-> off, len |-> len, tail |-> tail]

(* FDD_AllocBuf: the current block has room.                               *)
AllocFromCurr(t, h) ==
  /\ InLoop(t) /\ call[t].op # "priv" /\ FitsCurr(t)
  /\ ~Live(h)
  /\ LET b == CurrSeen(t) IN
       /\ buf' = [buf EXCEPT ![h] =
                    NewBuf(b, u32CurrFreeOff[b], call[t].len, FALSE)]
       /\ u32CurrFreeOff' =
            [u32CurrFreeOff EXCEPT ![b] = @ + BufHdr + call[t].len]
       /\ stRef' = GetBlk(b)
       /\ call' = CallAfter(t, h)
  /\ pc' = [(IF GivesBack(t) THEN WakeAll(pc) ELSE pc)
              EXCEPT ![t] = AfterAlloc(t)]
  /\ UNCHANGED << stFreeHead, u32FreeNum, pstCurrBlk, tmpRef, tmpBuf >>

(* FDD_AllocBuf: the current block is put, a new one takes its place and   *)
(* the loop carves the buffer from it.                                     *)
AllocFromNew(t, h, b) ==
  /\ InLoop(t) /\ call[t].op # "priv" /\ ~FitsCurr(t)
  /\ Avail(NumAfter(t), call[t].flag)
  /\ b \in FreeAfter(t)
  /\ ~Live(h)
  /\ stFreeHead' = FreeAfter(t) \ {b}
  /\ u32FreeNum' = NumAfter(t) - 1
  /\ pstCurrBlk' = b
  /\ stRef' = [RefAfter(t) EXCEPT ![b] = 2]
  /\ u32CurrFreeOff' = [u32CurrFreeOff EXCEPT ![b] = BufHdr + call[t].len]
  /\ buf' = [buf EXCEPT ![h] = NewBuf(b, 0, call[t].len, FALSE)]
  /\ call' = CallAfter(t, h)
  /\ pc' = [(IF CurrIsLast(t) \/ GivesBack(t) THEN WakeAll(pc) ELSE pc)
              EXCEPT ![t] = AfterAlloc(t)]
  /\ UNCHANGED << tmpRef, tmpBuf >>

(* FDD_AllocBuf: no block for it.  The current block is gone all the same. *)
AllocBufNoBlk(t) ==
  /\ pc[t] = "alloc" /\ call[t].op # "priv" /\ ~FitsCurr(t)
  /\ ~Avail(NumAfter(t), call[t].flag)
  /\ stFreeHead' = FreeAfter(t)
  /\ u32FreeNum' = NumAfter(t)
  /\ pstCurrBlk' = CurrAfter
  /\ stRef' = RefAfter(t)
  /\ LET waits == "WAIT" \in call[t].flag IN
       /\ pc' = [(IF CurrIsLast(t) THEN WakeAll(pc) ELSE pc)
                   EXCEPT ![t] = IF waits THEN "check" ELSE "idle"]
       /\ call' = IF waits THEN call ELSE [call EXCEPT ![t] = NoCall]
  /\ UNCHANGED << u32CurrFreeOff, buf, tmpRef, tmpBuf >>

(* FDD_AllocPrivBuf: take a block under the mutex ...                      *)
AllocPrivBlk(t, b) ==
  /\ pc[t] \in {"alloc", "relock"} /\ call[t].op = "priv"
  /\ Avail(u32FreeNum, call[t].flag)
  /\ b \in stFreeHead
  /\ stFreeHead' = stFreeHead \ {b}
  /\ u32FreeNum' = u32FreeNum - 1
  /\ stRef' = [stRef EXCEPT ![b] = 0]
  /\ u32CurrFreeOff' = [u32CurrFreeOff EXCEPT ![b] = 0]
  /\ pc' = [pc EXCEPT ![t] = "carve"]
  /\ call' = [call EXCEPT ![t].blk = b]
  /\ UNCHANGED << pstCurrBlk, buf, tmpRef, tmpBuf >>

(* ... which may fail, or wait ...                                         *)
AllocPrivNoBlk(t) ==
  /\ pc[t] = "alloc" /\ call[t].op = "priv"
  /\ ~Avail(u32FreeNum, call[t].flag)
  /\ LET waits == "WAIT" \in call[t].flag IN
       /\ pc' = [pc EXCEPT ![t] = IF waits THEN "check" ELSE "idle"]
       /\ call' = IF waits THEN call ELSE [call EXCEPT ![t] = NoCall]
  /\ UNCHANGED << stFreeHead, u32FreeNum, pstCurrBlk, stRef, u32CurrFreeOff,
                  buf, tmpRef, tmpBuf >>

(* ... and make one buffer of it after the unlock.                         *)
CarvePrivBuf(t, h) ==
  /\ pc[t] = "carve"
  /\ ~Live(h)
  /\ LET b == call[t].blk IN
       /\ buf' = [buf EXCEPT ![h] =
                    NewBuf(b, u32CurrFreeOff[b], call[t].len, TRUE)]
       /\ u32CurrFreeOff' =
            [u32CurrFreeOff EXCEPT ![b] = @ + BufHdr + call[t].len]
       /\ stRef' = GetBlk(b)
  /\ pc' = [pc EXCEPT ![t] = "idle"]
  /\ call' = [call EXCEPT ![t] = NoCall]
  /\ UNCHANGED << stFreeHead, u32FreeNum, pstCurrBlk, tmpRef, tmpBuf >>

(***************************************************************************)
(* The sleep of __FDD_AllocBlk.  wait_event evaluates its condition without *)
(* the mutex, the loop evaluates it again with it.                          *)
(***************************************************************************)
WaitCheck(t) ==
  /\ pc[t] = "check"
  /\ pc' = [pc EXCEPT ![t] =
              IF Avail(u32FreeNum, call[t].flag) THEN "relock" ELSE "sleep"]
  /\ UNCHANGED << stFreeHead, u32FreeNum, pstCurrBlk, stRef, u32CurrFreeOff,
                  buf, tmpRef, tmpBuf, call >>

WaitAgain(t) ==
  /\ pc[t] = "relock"
  /\ ~Avail(u32FreeNum, call[t].flag)
  /\ pc' = [pc EXCEPT ![t] = "check"]
  /\ UNCHANGED << stFreeHead, u32FreeNum, pstCurrBlk, stRef, u32CurrFreeOff,
                  buf, tmpRef, tmpBuf, call >>

(***************************************************************************)
(* Operations on a buffer a caller owns: one that no call in progress has  *)
(* still to return.                                                        *)
(***************************************************************************)
Owned(h) == Live(h) /\ \A t \in Thread : call[t].hdl # h

(* Mutant: the header of the buffer is not counted.                        *)
TrimOffBare(h, len) == buf[h].off + len

TrimOff(h, len) == buf[h].off + BufHdr + len

TooShort(left) == left < MinRsvd

(* FDD_TrimBufLen shortens the last buffer of a private block and carves   *)
(* the rest of the block, if it is worth it, as the next buffer.           *)
TrimBufLen(t, h, len, h2) ==
  /\ pc[t] = "idle" /\ tmpBuf[t] = NoTmp
  /\ Owned(h) /\ buf[h].tail /\ len <= buf[h].len
  /\ ~Live(h2) /\ SpareHandle
  /\ LET b    == buf[h].blk
         off  == TrimOff(h, len)
         left == BlkSize - off
         cut  == [buf EXCEPT ![h].len = len, ![h].tail = FALSE] IN
       IF TooShort(left)
       THEN /\ buf' = cut
            /\ u32CurrFreeOff' = [u32CurrFreeOff EXCEPT ![b] = off]
            /\ UNCHANGED stRef
       ELSE /\ buf' = [cut EXCEPT ![h2] = NewBuf(b, off, left - BufHdr, TRUE)]
            /\ u32CurrFreeOff' = [u32CurrFreeOff EXCEPT ![b] = BlkSize]
            /\ stRef' = GetBlk(b)
  /\ UNCHANGED << stFreeHead, u32FreeNum, pstCurrBlk, tmpRef, tmpBuf, pc,
                  call >>

(* FDD_CloneBuf and FDD_GetBuf: one more reference to the same bytes.      *)
ShareBuf(t, h, h2) ==
  /\ pc[t] = "idle" /\ tmpBuf[t] = NoTmp
  /\ Owned(h) /\ ~buf[h].tail
  /\ ~Live(h2) /\ SpareHandle
  /\ buf' = [buf EXCEPT ![h2] = buf[h]]
  /\ stRef' = GetBlk(buf[h].blk)
  /\ UNCHANGED << stFreeHead, u32FreeNum, pstCurrBlk, u32CurrFreeOff, tmpRef,
                  tmpBuf, pc, call >>

(* FDD_FreeBuf: the atomic decrement, then FDD_FreeBlk if it was the last. *)
FreeBuf(t, h) ==
  /\ pc[t] = "idle" /\ tmpBuf[t] = NoTmp
  /\ Owned(h)
  /\ LET b == buf[h].blk IN
       /\ buf' = [buf EXCEPT ![h] = NoBuf]
       /\ stRef' = [stRef EXCEPT ![b] = @ - 1]
       /\ IF stRef[b] = 1
          THEN /\ pc' = [pc EXCEPT ![t] = "put"]
               /\ call' = [call EXCEPT ![t].blk = b]
          ELSE UNCHANGED << pc, call >>
  /\ UNCHANGED << stFreeHead, u32FreeNum, pstCurrBlk, u32CurrFreeOff, tmpRef,
                  tmpBuf >>

FreeBlk(t) ==
  /\ pc[t] = "put"
  /\ stFreeHead' = stFreeHead \cup {call[t].blk}
  /\ u32FreeNum' = u32FreeNum + 1
  /\ pc' = [pc EXCEPT ![t] = "wake"]
  /\ call' = [call EXCEPT ![t] = NoCall]
  /\ UNCHANGED << pstCurrBlk, stRef, u32CurrFreeOff, buf, tmpRef, tmpBuf >>

WakeUpAll(t) ==
  /\ pc[t] = "wake"
  /\ pc' = [WakeAll(pc) EXCEPT ![t] = "idle"]
  /\ UNCHANGED << stFreeHead, u32FreeNum, pstCurrBlk, stRef, u32CurrFreeOff,
                  buf, tmpRef, tmpBuf, call >>

(***************************************************************************)
(* Temporary headers.  FDD_FwdDirectData builds one on its stack around    *)
(* received bytes; every port that keeps the data redirects it with        *)
(* FDD_CloneTmpBuf; it is dropped when the forwarding returns.             *)
(***************************************************************************)
InitTmpBuf(t) ==
  /\ pc[t] = "idle" /\ tmpBuf[t] = NoTmp
  /\ tmpBuf' = [tmpBuf EXCEPT ![t] = [flag |-> {"TEMP"}, blk |-> NoBlk]]
  /\ UNCHANGED << stFreeHead, u32FreeNum, pstCurrBlk, stRef, u32CurrFreeOff,
                  buf, tmpRef, pc, call >>

CloneTmpFlag(flag) == (flag \cap {"TEMP"}) \cup {"HDR_TEMP"}

CloneTmpGet(t) ==
  /\ pc[t] = "tmpget"
  /\ LET b == buf[call[t].hdl].blk IN
       /\ tmpBuf' = [tmpBuf EXCEPT ![t] =
                       [flag |-> CloneTmpFlag(tmpBuf[t].flag), blk |-> b]]
       /\ stRef'  = GetBlk(b)
       /\ tmpRef' = [tmpRef EXCEPT ![b] = @ + 1]
  /\ pc' = [pc EXCEPT ![t] = "idle"]
  /\ call' = [call EXCEPT ![t] = NoCall]
  /\ UNCHANGED << stFreeHead, u32FreeNum, pstCurrBlk, u32CurrFreeOff, buf >>

DropTmpBuf(t) ==
  /\ pc[t] = "idle" /\ tmpBuf[t] # NoTmp
  /\ tmpBuf' = [tmpBuf EXCEPT ![t] = NoTmp]
  /\ UNCHANGED << stFreeHead, u32FreeNum, pstCurrBlk, stRef, u32CurrFreeOff,
                  buf, tmpRef, pc, call >>

----------------------------------------------------------------------------

(* The steps of a thread that is inside of a call: the code goes on by     *)
(* itself.                                                                 *)
Proceed(t) ==
  \/ \E h \in Handle : AllocFromCurr(t, h)
  \/ \E h \in Handle, b \in Blk : AllocFromNew(t, h, b)
  \/ AllocBufNoBlk(t)
  \/ \E b \in Blk : AllocPrivBlk(t, b)
  \/ AllocPrivNoBlk(t)
  \/ \E h \in Handle : CarvePrivBuf(t, h)
  \/ WaitCheck(t)
  \/ WaitAgain(t)
  \/ FreeBlk(t)
  \/ WakeUpAll(t)
  \/ CloneTmpGet(t)

(* The steps the callers choose to take.                                   *)
Request(t) ==
  \/ \E len \in Lens, flag \in Flags : CallAllocBuf(t, len, flag)
  \/ \E flag \in Flags : CallAllocPrivBuf(t, flag)
  \/ \E len \in Lens : CallCloneTmpBuf(t, len)
  \/ \E h, h2 \in Handle, len \in Lens : TrimBufLen(t, h, len, h2)
  \/ \E h, h2 \in Handle : ShareBuf(t, h, h2)
  \/ \E h \in Handle : FreeBuf(t, h)
  \/ InitTmpBuf(t)
  \/ DropTmpBuf(t)

Next == \E t \in Thread : Proceed(t) \/ Request(t)

Spec == Init /\ [][Next]_vars

(* Threads in a call are scheduled; nobody has to make another call.       *)
FairSpec == Spec /\ \A t \in Thread : WF_vars(Proceed(t))

----------------------------------------------------------------------------

TypeOK ==
  /\ stFreeHead \subseteq Blk
  /\ u32FreeNum \in Int
  /\ pstCurrBlk \in Blk \cup {NoBlk}
  /\ stRef \in [Blk -> Int]
  /\ u32CurrFreeOff \in [Blk -> Nat]
  /\ buf \in [Handle -> BufType]
  /\ tmpRef \in [Blk -> Nat]
  /\ tmpBuf \in [Thread -> TmpType]
  /\ pc \in [Thread -> PcType]
  /\ call \in [Thread -> CallType]

(* Threads between two steps of taking or returning block b: AllocPrivBuf  *)
(* before it carves, FreeBuf before FDD_FreeBlk has the mutex.             *)
Movers(b) == {t \in Thread : pc[t] \in {"carve", "put"} /\ call[t].blk = b}

(* No block on the free list is still pointed into: by a buffer header, as *)
(* the current block, or by a thread that is about to carve or free it.    *)
(* The decrement in FreeBuf and the free are two steps, and an allocation  *)
(* may sleep after it has dropped the current block (fdd_buf.c:76-82, 148).*)
NoUseAfterFree ==
  \A b \in stFreeHead : BufsOf(b) = {} /\ pstCurrBlk # b /\ Movers(b) = {}

(* The count of a block is the number of headers, current-block pointers   *)
(* and temporary headers that were given a reference to it.                *)
RefsCounted ==
  \A b \in Blk :
    stRef[b] = Cardinality(BufsOf(b)) + (IF pstCurrBlk = b THEN 1 ELSE 0)
                 + tmpRef[b]

(* No block is lost and none is in two places: a block nobody references   *)
(* is on the free list or in the hands of exactly one thread, whatever the *)
(* race at "recheck the blk, alloc block buffer may be sleep!"             *)
(* (fdd_buf.c:159) decides, and u32FreeNum is the length of the list.      *)
BlocksConserved ==
  /\ u32FreeNum = Cardinality(stFreeHead)
  /\ \A b \in Blk :
       /\ b \in stFreeHead \/ stRef[b] > 0 \/ Movers(b) # {}
       /\ stRef[b] > 0 => b \notin stFreeHead /\ Movers(b) = {}
       /\ \A t, u \in Movers(b) : t = u

(* Two headers into one block show the same bytes or disjoint bytes, and   *)
(* the bytes beyond u32CurrFreeOff belong to nobody: TrimBufLen moves the  *)
(* offset back while other buffers of the block are already forwarded      *)
(* (fdd_buf.c:197-207).                                                    *)
BufsDisjoint ==
  \A g, h \in Handle :
    Live(g) /\ buf[g].blk = buf[h].blk =>
      /\ buf[g].off + BufHdr + buf[g].len <= u32CurrFreeOff[buf[g].blk]
      /\ u32CurrFreeOff[buf[g].blk] <= BlkSize
      /\ \/ buf[g] = buf[h] /\ (buf[g].tail => g = h)
         \/ buf[g].off + BufHdr + buf[g].len <= buf[h].off
         \/ buf[h].off + BufHdr + buf[h].len <= buf[g].off

(* An allocation that waits gets its block once the list stays long enough *)
(* for it, whoever frees and in whatever order the waiters wake.           *)
WaitersServed ==
  \A t \in Thread :
    <>[](u32FreeNum > 1) => []<>(pc[t] \notin {"check", "sleep", "relock"})

=============================================================================
