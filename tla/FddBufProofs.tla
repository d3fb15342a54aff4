---------------------------- MODULE FddBufProofs ----------------------------
(***************************************************************************)
(* What TLAPS proves about FddBuf, for every number of blocks, threads and *)
(* references, every block size and every set of requested lengths.        *)
(***************************************************************************)
EXTENDS FddBuf, TLAPS, FiniteSetTheorems

(* What a thread's call record holds at each of its control points.        *)
CallOK(t) ==
  /\ pc[t] \in {"idle", "wake"} => call[t] = NoCall
  /\ pc[t] \in {"carve", "put"} => call[t].blk \in Blk
  /\ pc[t] \notin {"carve", "put"} => call[t].blk = NoBlk
  /\ pc[t] = "tmpget" => call[t].hdl \in Handle /\ Live(call[t].hdl)
  /\ pc[t] # "tmpget" => call[t].hdl = NoHandle

CallInv == \A t \in Thread : CallOK(t)

TypeInv == TypeOK /\ CallInv

----------------------------------------------------------------------------
(* Records of the model have their types.                                  *)

LEMMA NullTypes == NoBuf \in BufType /\ NoTmp \in TmpType /\ NoCall \in CallType
  BY DEF NoBuf, NoTmp, NoCall, BufType, TmpType, CallType

LEMMA CallTypes ==
  ASSUME NEW c \in CallType
  PROVE  /\ \A b \in Blk : [c EXCEPT !.blk = b] \in CallType
         /\ \A h \in Handle : [c EXCEPT !.hdl = h] \in CallType
         /\ \A op \in {"buf", "tmp", "priv"}, len \in Nat,
               flag \in SUBSET {"RSVD", "WAIT"} :
              [NoCall EXCEPT !.op = op, !.len = len, !.flag = flag] \in CallType
  BY DEF CallType, NoCall

LEMMA BufTypes ==
  ASSUME NEW b \in Blk \cup {NoBlk}, NEW off \in Nat, NEW len \in Nat,
         NEW tail \in BOOLEAN
  PROVE  NewBuf(b, off, len, tail) \in BufType
  BY DEF NewBuf, BufType

LEMMA WakeAllType ==
  ASSUME NEW p \in [Thread -> PcType]
  PROVE  WakeAll(p) \in [Thread -> PcType]
  BY DEF WakeAll, PcType

(* A step of thread t wakes the other threads at most, and no reference    *)
(* another thread is about to return disappears.                           *)
LEMMA CallFrame ==
  ASSUME TypeInv, NEW t \in Thread,
         \A u \in Thread \ {t} :
           /\ call'[u] = call[u]
           /\ pc'[u] = pc[u] \/ (pc[u] = "sleep" /\ pc'[u] = "check"),
         \A h \in Handle :
           Live(h) => Live(h)' \/ \A u \in Thread : call[u].hdl # h,
         CallOK(t)'
  PROVE  CallInv'
<1> SUFFICES ASSUME NEW u \in Thread, u # t PROVE CallOK(u)'
  BY DEF CallInv
<1>1. CallOK(u)
  BY DEF TypeInv, CallInv
<1>2. call[u].hdl \in Handle /\ Live(call[u].hdl) => Live(call[u].hdl)'
  OBVIOUS
<1>3. call'[u] = call[u]
      /\ (pc'[u] = pc[u] \/ (pc[u] = "sleep" /\ pc'[u] = "check"))
  OBVIOUS
<1> QED
  BY <1>1, <1>2, <1>3 DEF CallOK, Live

LEMMA EnterAllocType ==
  ASSUME TypeInv, NEW t \in Thread, NEW op \in {"buf", "tmp", "priv"},
         NEW len \in Nat, NEW flag \in SUBSET {"RSVD", "WAIT"},
         EnterAlloc(t, op, len, flag)
  PROVE  TypeInv'
<1>1. [NoCall EXCEPT !.op = op, !.len = len, !.flag = flag] \in CallType
  BY CallTypes, NullTypes
<1>2. TypeOK'
  BY <1>1 DEF TypeInv, TypeOK, EnterAlloc, PcType
<1>3. CallInv'
  <2>1. CallOK(t)'
    BY DEF TypeInv, TypeOK, CallInv, CallOK, EnterAlloc, NoCall
  <2> QED
    BY <2>1, CallFrame DEF TypeInv, TypeOK, EnterAlloc, Live
<1> QED
  BY <1>2, <1>3 DEF TypeInv

LEMMA CallAfterType ==
  ASSUME TypeInv, NEW t \in Thread, NEW h \in Handle
  PROVE  CallAfter(t, h) \in [Thread -> CallType]
<1>1. [call[t] EXCEPT !.hdl = h] \in CallType
  BY CallTypes DEF TypeInv, TypeOK
<1> QED
  BY <1>1, NullTypes DEF TypeInv, TypeOK, CallAfter

LEMMA AllocFromCurrType ==
  ASSUME TypeInv, NEW t \in Thread, NEW h \in Handle, AllocFromCurr(t, h)
  PROVE  TypeInv'
<1> USE NullAssumption, SizeAssumption
<1>1. pstCurrBlk \in Blk
  BY DEF TypeInv, TypeOK, AllocFromCurr, FitsCurr, CurrSeen
<1>2. u32CurrFreeOff[pstCurrBlk] \in Nat /\ call[t].len \in Nat
  BY <1>1 DEF TypeInv, TypeOK, CallType
<1>3. NewBuf(pstCurrBlk, u32CurrFreeOff[pstCurrBlk], call[t].len, FALSE) \in BufType
  BY <1>1, <1>2, BufTypes
<1>4. buf' \in [Handle -> BufType]
  BY <1>3 DEF TypeInv, TypeOK, AllocFromCurr, CurrSeen
<1>5. stRef' \in [Blk -> Int] /\ u32CurrFreeOff' \in [Blk -> Nat]
  BY <1>1, <1>2 DEF TypeInv, TypeOK, AllocFromCurr, CurrSeen, GetBlk
<1>6. call' \in [Thread -> CallType]
  BY CallAfterType DEF AllocFromCurr
<1>7. pc' \in [Thread -> PcType]
  BY WakeAllType DEF TypeInv, TypeOK, AllocFromCurr, AfterAlloc, PcType
<1>8. TypeOK'
  BY <1>4, <1>5, <1>6, <1>7 DEF TypeInv, TypeOK, AllocFromCurr
<1>9. CallInv'
  <2>1. CallOK(t) /\ pc[t] \in {"alloc", "relock"}
    BY DEF TypeInv, CallInv, AllocFromCurr, InLoop, Relocked
  <2>2. buf'[h].blk \in Blk /\ \A g \in Handle : g # h => buf'[g] = buf[g]
    BY <1>1 DEF TypeInv, TypeOK, AllocFromCurr, CurrSeen, NewBuf
  <2>3. CallOK(t)'
    <3>1. CASE call[t].op = "tmp"
      <4>1. pc'[t] = "tmpget" /\ call'[t] = [call[t] EXCEPT !.hdl = h]
        BY <3>1 DEF TypeInv, TypeOK, AllocFromCurr, CallAfter, AfterAlloc, WakeAll
      <4>2. call'[t].hdl = h /\ call'[t].blk = call[t].blk
        BY <4>1 DEF TypeInv, TypeOK, CallType
      <4> QED
        BY <2>1, <2>2, <4>1, <4>2 DEF CallOK, Live
    <3>2. CASE call[t].op # "tmp"
      <4>1. pc'[t] = "idle" /\ call'[t] = NoCall
        BY <3>2 DEF TypeInv, TypeOK, AllocFromCurr, CallAfter, AfterAlloc, WakeAll
      <4> QED
        BY <4>1 DEF CallOK, NoCall
    <3> QED
      BY <3>1, <3>2
  <2>4. \A u \in Thread \ {t} :
          /\ call'[u] = call[u]
          /\ pc'[u] = pc[u] \/ (pc[u] = "sleep" /\ pc'[u] = "check")
    BY DEF TypeInv, TypeOK, AllocFromCurr, CallAfter, WakeAll
  <2> QED
    BY <2>2, <2>3, <2>4, CallFrame DEF Live
<1> QED
  BY <1>8, <1>9 DEF TypeInv

LEMMA AllocFromNewType ==
  ASSUME TypeInv, NEW t \in Thread, NEW h \in Handle, NEW b \in Blk,
         AllocFromNew(t, h, b)
  PROVE  TypeInv'
<1> USE NullAssumption, SizeAssumption
<1>1. call[t].len \in Nat /\ CurrSeen(t) \in Blk \cup {NoBlk}
  BY DEF TypeInv, TypeOK, CallType, CurrSeen
<1>2. NewBuf(b, 0, call[t].len, FALSE) \in BufType
  BY <1>1, BufTypes
<1>3. buf' \in [Handle -> BufType]
  BY <1>2 DEF TypeInv, TypeOK, AllocFromNew
<1>4. RefAfter(t) \in [Blk -> Int] /\ FreeAfter(t) \subseteq Blk
      /\ NumAfter(t) \in Int
  BY DEF TypeInv, TypeOK, RefAfter, FreeAfter, NumAfter, CurrIsLast, CurrSeen
<1>5. stRef' \in [Blk -> Int] /\ u32CurrFreeOff' \in [Blk -> Nat]
  BY <1>1, <1>4 DEF TypeInv, TypeOK, AllocFromNew
<1>6. call' \in [Thread -> CallType]
  BY CallAfterType DEF AllocFromNew
<1>7. pc' \in [Thread -> PcType]
  BY WakeAllType DEF TypeInv, TypeOK, AllocFromNew, AfterAlloc, PcType
<1>8. TypeOK'
  <2>1. /\ stFreeHead' = FreeAfter(t) \ {b} /\ u32FreeNum' = NumAfter(t) - 1
        /\ pstCurrBlk' = b /\ UNCHANGED << tmpRef, tmpBuf >>
    BY DEF AllocFromNew
  <2> QED
    BY <2>1, <1>3, <1>4, <1>5, <1>6, <1>7 DEF TypeInv, TypeOK
<1>9. CallInv'
  <2>1. CallOK(t) /\ pc[t] \in {"alloc", "relock"}
    BY DEF TypeInv, CallInv, AllocFromNew, InLoop, Relocked
  <2>2. buf'[h].blk \in Blk /\ \A g \in Handle : g # h => buf'[g] = buf[g]
    BY DEF TypeInv, TypeOK, AllocFromNew, NewBuf
  <2>3. CallOK(t)'
    <3>1. CASE call[t].op = "tmp"
      <4>1. pc'[t] = "tmpget" /\ call'[t] = [call[t] EXCEPT !.hdl = h]
        BY <3>1 DEF TypeInv, TypeOK, AllocFromNew, CallAfter, AfterAlloc, WakeAll
      <4>2. call'[t].hdl = h /\ call'[t].blk = call[t].blk
        BY <4>1 DEF TypeInv, TypeOK, CallType
      <4> QED
        BY <2>1, <2>2, <4>1, <4>2 DEF CallOK, Live
    <3>2. CASE call[t].op # "tmp"
      <4>1. pc'[t] = "idle" /\ call'[t] = NoCall
        BY <3>2 DEF TypeInv, TypeOK, AllocFromNew, CallAfter, AfterAlloc, WakeAll
      <4> QED
        BY <4>1 DEF CallOK, NoCall
    <3> QED
      BY <3>1, <3>2
  <2>4. \A u \in Thread \ {t} :
          /\ call'[u] = call[u]
          /\ pc'[u] = pc[u] \/ (pc[u] = "sleep" /\ pc'[u] = "check")
    BY DEF TypeInv, TypeOK, AllocFromNew, CallAfter, WakeAll
  <2> QED
    BY <2>2, <2>3, <2>4, CallFrame DEF Live
<1> QED
  BY <1>8, <1>9 DEF TypeInv

LEMMA NoBlkType ==
  ASSUME TypeInv, NEW t \in Thread, AllocBufNoBlk(t) \/ AllocPrivNoBlk(t)
  PROVE  TypeInv'
<1>1. RefAfter(t) \in [Blk -> Int] /\ FreeAfter(t) \subseteq Blk
      /\ NumAfter(t) \in Int
  BY DEF TypeInv, TypeOK, RefAfter, FreeAfter, NumAfter, CurrIsLast, CurrSeen
<1>2. pc' \in [Thread -> PcType]
  BY WakeAllType DEF TypeInv, TypeOK, AllocBufNoBlk, AllocPrivNoBlk, PcType
<1>3. TypeOK'
  BY <1>1, <1>2, NullTypes
     DEF TypeInv, TypeOK, AllocBufNoBlk, AllocPrivNoBlk, CurrAfter
<1>4. CallInv'
  <2>1. CallOK(t) /\ pc[t] = "alloc"
    BY DEF TypeInv, CallInv, AllocBufNoBlk, AllocPrivNoBlk
  <2>2. \/ pc'[t] = "check" /\ call'[t] = call[t]
        \/ pc'[t] = "idle" /\ call'[t] = NoCall
    BY DEF TypeInv, TypeOK, AllocBufNoBlk, AllocPrivNoBlk, WakeAll
  <2>3. CallOK(t)'
    BY <2>1, <2>2 DEF CallOK, NoCall
  <2>4. \A u \in Thread \ {t} :
          /\ call'[u] = call[u]
          /\ pc'[u] = pc[u] \/ (pc[u] = "sleep" /\ pc'[u] = "check")
    BY DEF TypeInv, TypeOK, AllocBufNoBlk, AllocPrivNoBlk, WakeAll
  <2> QED
    BY <2>3, <2>4, CallFrame DEF Live, AllocBufNoBlk, AllocPrivNoBlk
<1> QED
  BY <1>3, <1>4 DEF TypeInv

LEMMA AllocPrivBlkType ==
  ASSUME TypeInv, NEW t \in Thread, NEW b \in Blk, AllocPrivBlk(t, b)
  PROVE  TypeInv'
<1>1. [call[t] EXCEPT !.blk = b] \in CallType
  BY CallTypes DEF TypeInv, TypeOK
<1>2. TypeOK'
  BY <1>1 DEF TypeInv, TypeOK, AllocPrivBlk, PcType
<1>3. CallInv'
  <2>1. CallOK(t) /\ pc[t] \in {"alloc", "relock"}
    BY DEF TypeInv, CallInv, AllocPrivBlk
  <2>2. call'[t].blk = b /\ call'[t].hdl = call[t].hdl /\ pc'[t] = "carve"
    BY DEF TypeInv, TypeOK, CallType, AllocPrivBlk
  <2>3. CallOK(t)'
    BY <2>1, <2>2 DEF CallOK
  <2>4. \A u \in Thread \ {t} : call'[u] = call[u] /\ pc'[u] = pc[u]
    BY DEF TypeInv, TypeOK, AllocPrivBlk
  <2> QED
    BY <2>3, <2>4, CallFrame DEF Live, AllocPrivBlk
<1> QED
  BY <1>2, <1>3 DEF TypeInv

LEMMA CarvePrivBufType ==
  ASSUME TypeInv, NEW t \in Thread, NEW h \in Handle, CarvePrivBuf(t, h)
  PROVE  TypeInv'
<1> USE NullAssumption, SizeAssumption
<1> DEFINE b == call[t].blk
<1>1. b \in Blk /\ call[t].len \in Nat
  BY DEF TypeInv, TypeOK, CallInv, CallOK, CallType, CarvePrivBuf
<1>2. u32CurrFreeOff[b] \in Nat
  BY <1>1 DEF TypeInv, TypeOK
<1>3. NewBuf(b, u32CurrFreeOff[b], call[t].len, TRUE) \in BufType
  BY <1>1, <1>2, BufTypes
<1>4. buf' \in [Handle -> BufType]
  BY <1>3 DEF TypeInv, TypeOK, CarvePrivBuf
<1>5. stRef' \in [Blk -> Int] /\ u32CurrFreeOff' \in [Blk -> Nat]
  BY <1>1, <1>2 DEF TypeInv, TypeOK, CarvePrivBuf, GetBlk
<1>6. TypeOK'
  BY <1>4, <1>5, NullTypes DEF TypeInv, TypeOK, CarvePrivBuf, PcType
<1>7. CallInv'
  <2>1. CallOK(t)'
    BY DEF TypeInv, TypeOK, CarvePrivBuf, CallOK, NoCall
  <2>2. \A g \in Handle : Live(g) => Live(g)'
    BY <1>1 DEF TypeInv, TypeOK, CarvePrivBuf, Live, NewBuf
  <2>3. \A u \in Thread \ {t} : call'[u] = call[u] /\ pc'[u] = pc[u]
    BY DEF TypeInv, TypeOK, CarvePrivBuf
  <2> QED
    BY <2>1, <2>2, <2>3, CallFrame
<1> QED
  BY <1>6, <1>7 DEF TypeInv

LEMMA WaitType ==
  ASSUME TypeInv, NEW t \in Thread, WaitCheck(t) \/ WaitAgain(t)
  PROVE  TypeInv'
<1>1. TypeOK'
  BY DEF TypeInv, TypeOK, WaitCheck, WaitAgain, PcType
<1>2. CallInv'
  <2>1. CallOK(t)'
    BY DEF TypeInv, TypeOK, CallInv, CallOK, WaitCheck, WaitAgain
  <2>2. \A u \in Thread \ {t} : call'[u] = call[u] /\ pc'[u] = pc[u]
    BY DEF TypeInv, TypeOK, WaitCheck, WaitAgain
  <2> QED
    BY <2>1, <2>2, CallFrame DEF Live, WaitCheck, WaitAgain
<1> QED
  BY <1>1, <1>2 DEF TypeInv

LEMMA TrimBufLenType ==
  ASSUME TypeInv, NEW t \in Thread, NEW h \in Handle, NEW h2 \in Handle,
         NEW len \in Nat, TrimBufLen(t, h, len, h2)
  PROVE  TypeInv'
<1> USE NullAssumption, SizeAssumption
<1> DEFINE b    == buf[h].blk
           off  == TrimOff(h, len)
           left == BlkSize - off
           cut  == [buf EXCEPT ![h].len = len, ![h].tail = FALSE]
<1>1. b \in Blk /\ buf[h].off \in Nat /\ h2 # h
  BY DEF TypeInv, TypeOK, BufType, TrimBufLen, Owned, Live
<1>2. off \in Nat /\ left \in Int
  BY <1>1 DEF TrimOff
<1>3. cut[h] = NewBuf(b, buf[h].off, len, FALSE)
      /\ cut \in [Handle -> BufType]
  <2>1. cut[h] = NewBuf(b, buf[h].off, len, FALSE)
    BY DEF TypeInv, TypeOK, BufType, NewBuf
  <2>2. NewBuf(b, buf[h].off, len, FALSE) \in BufType
    BY <1>1, BufTypes
  <2>3. cut = [buf EXCEPT ![h] = NewBuf(b, buf[h].off, len, FALSE)]
    BY <2>1 DEF TypeInv, TypeOK
  <2> QED
    BY <2>1, <2>2, <2>3 DEF TypeInv, TypeOK
<1>4. /\ buf' \in [Handle -> BufType]
      /\ stRef' \in [Blk -> Int]
      /\ u32CurrFreeOff' \in [Blk -> Nat]
      /\ \A g \in Handle : Live(g) => Live(g)'
  <2>1. CASE TooShort(left)
    <3>1. buf' = cut /\ stRef' = stRef
          /\ u32CurrFreeOff' = [u32CurrFreeOff EXCEPT ![b] = off]
      BY <2>1 DEF TrimBufLen
    <3> QED
      BY <1>1, <1>2, <1>3, <3>1 DEF TypeInv, TypeOK, Live, NewBuf
  <2>2. CASE ~TooShort(left)
    <3>1. /\ buf' = [cut EXCEPT ![h2] = NewBuf(b, off, left - BufHdr, TRUE)]
          /\ stRef' = GetBlk(b)
          /\ u32CurrFreeOff' = [u32CurrFreeOff EXCEPT ![b] = BlkSize]
      BY <2>2 DEF TrimBufLen
    <3>2. left - BufHdr \in Nat
      BY <1>2, <2>2 DEF TooShort
    <3>3. NewBuf(b, off, left - BufHdr, TRUE) \in BufType
      BY <1>1, <1>2, <3>2, BufTypes
    <3>4. NewBuf(b, off, left - BufHdr, TRUE).blk = b
          /\ cut[h].blk = b
          /\ \A g \in Handle : g # h => cut[g] = buf[g]
      BY <1>3 DEF TypeInv, TypeOK, NewBuf
    <3> HIDE DEF cut, left, off
    <3>5. buf' \in [Handle -> BufType] /\ \A g \in Handle : Live(g) => Live(g)'
      BY <1>1, <1>3, <3>1, <3>3, <3>4 DEF Live
    <3>6. stRef' \in [Blk -> Int] /\ u32CurrFreeOff' \in [Blk -> Nat]
      BY <1>1, <3>1 DEF TypeInv, TypeOK, GetBlk
    <3> QED
      BY <3>5, <3>6
  <2> QED
    BY <2>1, <2>2
<1>5. TypeOK'
  BY <1>4 DEF TypeInv, TypeOK, TrimBufLen
<1>6. CallInv'
  <2>1. \A u \in Thread : call'[u] = call[u] /\ pc'[u] = pc[u]
    BY DEF TrimBufLen
  <2>2. CallOK(t)'
    BY <2>1, <1>4 DEF TypeInv, CallInv, CallOK, TrimBufLen
  <2> QED
    BY <1>4, <2>1, <2>2, CallFrame
<1> QED
  BY <1>5, <1>6 DEF TypeInv

LEMMA ShareBufType ==
  ASSUME TypeInv, NEW t \in Thread, NEW h \in Handle, NEW h2 \in Handle,
         ShareBuf(t, h, h2)
  PROVE  TypeInv'
<1>1. buf[h] \in BufType /\ buf[h].blk \in Blk
  BY DEF TypeInv, TypeOK, BufType, ShareBuf, Owned, Live
<1>2. TypeOK'
  BY <1>1 DEF TypeInv, TypeOK, ShareBuf, GetBlk
<1>3. CallInv'
  <2>1. \A u \in Thread : call'[u] = call[u] /\ pc'[u] = pc[u]
    BY DEF ShareBuf
  <2>2. \A g \in Handle : Live(g) => Live(g)'
    BY <1>1, NullAssumption DEF TypeInv, TypeOK, ShareBuf, Live
  <2>3. CallOK(t)'
    BY <2>1, <2>2 DEF TypeInv, CallInv, CallOK, ShareBuf
  <2> QED
    BY <2>1, <2>2, <2>3, CallFrame
<1> QED
  BY <1>2, <1>3 DEF TypeInv

LEMMA FreeBufType ==
  ASSUME TypeInv, NEW t \in Thread, NEW h \in Handle, FreeBuf(t, h)
  PROVE  TypeInv'
<1> DEFINE b == buf[h].blk
<1>1. b \in Blk
  BY DEF TypeInv, TypeOK, BufType, FreeBuf, Owned, Live
<1>2. [call[t] EXCEPT !.blk = b] \in CallType
  BY <1>1, CallTypes DEF TypeInv, TypeOK
<1>3. call' \in [Thread -> CallType] /\ pc' \in [Thread -> PcType]
  BY <1>2 DEF TypeInv, TypeOK, FreeBuf, PcType
<1>4. buf' \in [Handle -> BufType] /\ stRef' \in [Blk -> Int]
  BY <1>1, NullTypes DEF TypeInv, TypeOK, FreeBuf
<1>5. TypeOK'
  BY <1>3, <1>4 DEF TypeInv, TypeOK, FreeBuf
<1>6. CallInv'
  <2>1. CallOK(t)'
    <3>1. CallOK(t)
      BY DEF TypeInv, CallInv
    <3>2. CASE stRef[b] = 1
      <4>1. pc'[t] = "put" /\ call'[t].blk = b /\ call'[t].hdl = call[t].hdl
        BY <3>2 DEF TypeInv, TypeOK, CallType, FreeBuf
      <4> QED
        BY <1>1, <3>1, <4>1 DEF CallOK, FreeBuf
    <3>3. CASE stRef[b] # 1
      BY <3>1, <3>3 DEF CallOK, FreeBuf
    <3> QED
      BY <3>2, <3>3
  <2>2. \A g \in Handle : Live(g) => Live(g)' \/ \A u \in Thread : call[u].hdl # g
    BY DEF TypeInv, TypeOK, FreeBuf, Owned, Live
  <2>3. \A u \in Thread \ {t} : call'[u] = call[u] /\ pc'[u] = pc[u]
    BY DEF TypeInv, TypeOK, FreeBuf
  <2> QED
    BY <2>1, <2>2, <2>3, CallFrame
<1> QED
  BY <1>5, <1>6 DEF TypeInv

LEMMA FreeBlkType ==
  ASSUME TypeInv, NEW t \in Thread, FreeBlk(t) \/ WakeUpAll(t)
  PROVE  TypeInv'
<1>1. pc[t] = "put" => call[t].blk \in Blk
  BY DEF TypeInv, CallInv, CallOK
<1>2. pc' \in [Thread -> PcType]
  BY WakeAllType DEF TypeInv, TypeOK, FreeBlk, WakeUpAll, PcType
<1>3. TypeOK'
  BY <1>1, <1>2, NullTypes DEF TypeInv, TypeOK, FreeBlk, WakeUpAll
<1>4. CallInv'
  <2>1. CallOK(t)'
    <3>1. CallOK(t) /\ pc[t] \in {"put", "wake"}
      BY DEF TypeInv, CallInv, FreeBlk, WakeUpAll
    <3>2. pc'[t] \in {"idle", "wake"} /\ call'[t] = NoCall
      BY <3>1 DEF TypeInv, TypeOK, CallOK, FreeBlk, WakeUpAll, WakeAll
    <3> QED
      BY <3>2 DEF CallOK, NoCall
  <2>2. \A u \in Thread \ {t} :
          /\ call'[u] = call[u]
          /\ pc'[u] = pc[u] \/ (pc[u] = "sleep" /\ pc'[u] = "check")
    BY DEF TypeInv, TypeOK, FreeBlk, WakeUpAll, WakeAll
  <2> QED
    BY <2>1, <2>2, CallFrame DEF Live, FreeBlk, WakeUpAll
<1> QED
  BY <1>3, <1>4 DEF TypeInv

LEMMA TmpType2 ==
  ASSUME TypeInv, NEW t \in Thread,
         InitTmpBuf(t) \/ DropTmpBuf(t) \/ CloneTmpGet(t)
  PROVE  TypeInv'
<1>1. pc[t] = "tmpget" => call[t].hdl \in Handle /\ buf[call[t].hdl].blk \in Blk
  BY DEF TypeInv, TypeOK, CallInv, CallOK, Live, BufType
<1>2. tmpBuf' \in [Thread -> TmpType]
  <2>1. [flag |-> {"TEMP"}, blk |-> NoBlk] \in TmpType
        /\ \A f \in SUBSET {"TEMP", "HDR_TEMP"}, b \in Blk :
             [flag |-> CloneTmpFlag(f), blk |-> b] \in TmpType
    BY DEF TmpType, CloneTmpFlag
  <2>2. tmpBuf[t].flag \in SUBSET {"TEMP", "HDR_TEMP"}
    BY DEF TypeInv, TypeOK, TmpType
  <2>3. \E r \in TmpType : tmpBuf' = [tmpBuf EXCEPT ![t] = r]
    <3>1. CASE InitTmpBuf(t)
      BY <2>1, <3>1 DEF InitTmpBuf
    <3>2. CASE DropTmpBuf(t)
      BY NullTypes, <3>2 DEF DropTmpBuf
    <3>3. CASE CloneTmpGet(t)
      BY <1>1, <2>1, <2>2, <3>3 DEF CloneTmpGet
    <3> QED
      BY <3>1, <3>2, <3>3
  <2> QED
    BY <2>3 DEF TypeInv, TypeOK
<1>3. TypeOK'
  BY <1>1, <1>2, NullTypes
     DEF TypeInv, TypeOK, InitTmpBuf, DropTmpBuf, CloneTmpGet, GetBlk, PcType
<1>4. CallInv'
  <2>1. CallOK(t)'
    <3>1. CallOK(t) /\ pc[t] \in {"idle", "tmpget"}
      BY DEF TypeInv, CallInv, InitTmpBuf, DropTmpBuf, CloneTmpGet
    <3>2. pc'[t] = "idle" /\ call'[t] = NoCall
      BY <3>1 DEF TypeInv, TypeOK, CallOK, InitTmpBuf, DropTmpBuf, CloneTmpGet
    <3> QED
      BY <3>2 DEF CallOK, NoCall
  <2>2. \A u \in Thread \ {t} : call'[u] = call[u] /\ pc'[u] = pc[u]
    BY DEF TypeInv, TypeOK, InitTmpBuf, DropTmpBuf, CloneTmpGet
  <2> QED
    BY <2>1, <2>2, CallFrame DEF Live, InitTmpBuf, DropTmpBuf, CloneTmpGet
<1> QED
  BY <1>3, <1>4 DEF TypeInv

LEMMA TypeStep == TypeInv /\ [Next]_vars => TypeInv'
<1> SUFFICES ASSUME TypeInv, [Next]_vars PROVE TypeInv'
  OBVIOUS
<1> USE LensAssumption, FlagsAssumption
<1>1. ASSUME NEW t \in Thread, Request(t) PROVE TypeInv'
  <2>1. ASSUME NEW len \in Lens, NEW flag \in Flags, CallAllocBuf(t, len, flag)
        PROVE  TypeInv'
    BY <2>1, EnterAllocType DEF CallAllocBuf
  <2>2. ASSUME NEW flag \in Flags, CallAllocPrivBuf(t, flag)
        PROVE  TypeInv'
    <3>1. MaxBufSize - BufHdr \in Nat
      BY SizeAssumption DEF MaxBufSize
    <3> QED
      BY <2>2, <3>1, EnterAllocType DEF CallAllocPrivBuf
  <2>3. ASSUME NEW len \in Lens, CallCloneTmpBuf(t, len)
        PROVE  TypeInv'
    BY <2>3, EnterAllocType DEF CallCloneTmpBuf
  <2> QED
    BY <1>1, <2>1, <2>2, <2>3, TrimBufLenType, ShareBufType, FreeBufType,
       TmpType2 DEF Request
<1>2. ASSUME NEW t \in Thread, Proceed(t) PROVE TypeInv'
  BY <1>2, AllocFromCurrType, AllocFromNewType, NoBlkType, AllocPrivBlkType,
     CarvePrivBufType, WaitType, FreeBlkType, TmpType2 DEF Proceed
<1>3. CASE UNCHANGED vars
  BY <1>3 DEF vars, TypeInv, TypeOK, CallInv, CallOK, Live
<1> QED
  BY <1>1, <1>2, <1>3 DEF Next

LEMMA TypeInit == Init => TypeInv
<1> SUFFICES ASSUME Init PROVE TypeInv
  OBVIOUS
<1>1. Cardinality(Blk) \in Int
  BY FiniteAssumption, FS_CardinalityType
<1>2. TypeOK
  BY <1>1, NullTypes DEF Init, TypeOK, PcType
<1>3. CallInv
  BY DEF Init, CallInv, CallOK, NoCall
<1> QED
  BY <1>2, <1>3 DEF TypeInv

(* Every variable of the buffer manager keeps its type, for all instances. *)
THEOREM TypeCorrect == Spec => []TypeOK
<1>1. TypeInv => TypeOK
  BY DEF TypeInv
<1> QED
  BY <1>1, TypeInit, TypeStep, PTL DEF Spec

----------------------------------------------------------------------------
(***************************************************************************)
(* Reference counts.  The invariant says of every block where it is: on    *)
(* the free list with count zero, in the hands of one thread with count    *)
(* zero, or referenced as often as its count says.                         *)
(***************************************************************************)
PlaceInv ==
  \A b \in Blk :
    /\ b \in stFreeHead => stRef[b] = 0 /\ Movers(b) = {}
    /\ Movers(b) # {} => stRef[b] = 0
    /\ stRef[b] = 0 => b \in stFreeHead \/ Movers(b) # {}
    /\ \A t, u \in Movers(b) : t = u

NumInv == u32FreeNum = Cardinality(stFreeHead)

RefInv == RefsCounted /\ PlaceInv /\ NumInv

Pointing(f, b) == {h \in Handle : f[h].blk = b}

LEMMA PointingFinite ==
  ASSUME NEW f, NEW b
  PROVE  IsFiniteSet(Pointing(f, b)) /\ Cardinality(Pointing(f, b)) \in Nat
<1>1. Pointing(f, b) \subseteq Handle
  BY DEF Pointing
<1> QED
  BY <1>1, FiniteAssumption, FS_Subset, FS_CardinalityType

(* One more header into block c is one more in the count of c.             *)
LEMMA PointingAdd ==
  ASSUME NEW f, NEW g, NEW h \in Handle, NEW c \in Blk,
         f[h].blk = NoBlk, g[h].blk = c,
         \A k \in Handle : k # h => g[k].blk = f[k].blk
  PROVE  \A b \in Blk : Cardinality(Pointing(g, b)) =
           Cardinality(Pointing(f, b)) + (IF b = c THEN 1 ELSE 0)
<1> SUFFICES ASSUME NEW b \in Blk
             PROVE  Cardinality(Pointing(g, b)) =
                      Cardinality(Pointing(f, b)) + (IF b = c THEN 1 ELSE 0)
  OBVIOUS
<1>1. CASE b = c
  <2>1. Pointing(g, b) = Pointing(f, b) \cup {h} /\ h \notin Pointing(f, b)
    BY <1>1, NullAssumption DEF Pointing
  <2>2. Cardinality(Pointing(f, b) \cup {h}) = Cardinality(Pointing(f, b)) + 1
    <3>1. IsFiniteSet(Pointing(f, b))
      BY PointingFinite
    <3> QED
      BY <2>1, <3>1, FS_AddElement
  <2> QED
    BY <1>1, <2>1, <2>2
<1>2. CASE b # c
  <2>1. Pointing(g, b) = Pointing(f, b)
    BY <1>2, NullAssumption DEF Pointing
  <2> QED
    BY <1>2, <2>1, PointingFinite
<1> QED
  BY <1>1, <1>2

LEMMA PointingSame ==
  ASSUME NEW f, NEW g, \A k \in Handle : g[k].blk = f[k].blk
  PROVE  \A b \in Blk : Pointing(g, b) = Pointing(f, b)
  BY DEF Pointing

(* A step of thread t does not move blocks into or out of other hands.     *)
LEMMA MoversFrame ==
  ASSUME NEW t \in Thread,
         \A u \in Thread \ {t} :
           /\ call'[u] = call[u]
           /\ pc'[u] = pc[u] \/ (pc[u] = "sleep" /\ pc'[u] = "check")
  PROVE  \A b \in Blk : Movers(b)' \ {t} = Movers(b) \ {t}
  BY DEF Movers

LEMMA RefTypes ==
  ASSUME TypeInv
  PROVE  /\ \A b \in Blk : stRef[b] \in Int /\ tmpRef[b] \in Nat
         /\ stRef \in [Blk -> Int] /\ tmpRef \in [Blk -> Nat]
         /\ IsFiniteSet(stFreeHead) /\ stFreeHead \subseteq Blk
         /\ u32FreeNum \in Int
         /\ \A b \in Blk : BufsOf(b) = Pointing(buf, b)
         /\ \A b \in Blk : Cardinality(BufsOf(b)) \in Nat
         /\ pstCurrBlk \in Blk \cup {NoBlk}
<1>1. \A b \in Blk : BufsOf(b) = Pointing(buf, b)
  BY DEF BufsOf, Pointing
<1>2. stFreeHead \subseteq Blk
  BY DEF TypeInv, TypeOK
<1>3. IsFiniteSet(stFreeHead)
  BY <1>2, FiniteAssumption, FS_Subset
<1> QED
  BY <1>1, <1>2, <1>3, PointingFinite DEF TypeInv, TypeOK

(* The manager after the current block is put: nothing counts it any more. *)
LEMMA PutCurr ==
  ASSUME TypeInv, RefInv, NEW t \in Thread
  PROVE  /\ \A b \in Blk : RefAfter(t)[b] = Cardinality(BufsOf(b)) + tmpRef[b]
         /\ \A b \in Blk :
              /\ b \in FreeAfter(t) => RefAfter(t)[b] = 0 /\ Movers(b) = {}
              /\ Movers(b) # {} => RefAfter(t)[b] = 0
              /\ RefAfter(t)[b] = 0 => b \in FreeAfter(t) \/ Movers(b) # {}
         /\ NumAfter(t) = Cardinality(FreeAfter(t))
         /\ FreeAfter(t) \subseteq Blk
         /\ RefAfter(t) \in [Blk -> Int]
<1> USE RefTypes, NullAssumption DEF CurrSeen
<1>1. CASE pstCurrBlk = NoBlk
  <2>1. RefAfter(t) = stRef /\ FreeAfter(t) = stFreeHead /\ NumAfter(t) = u32FreeNum
    BY <1>1 DEF RefAfter, FreeAfter, NumAfter, CurrIsLast
  <2> QED
    BY <1>1, <2>1 DEF RefInv, RefsCounted, PlaceInv, NumInv
<1>2. CASE pstCurrBlk \in Blk
  <2> DEFINE c == pstCurrBlk
  <2>1. RefAfter(t) = [stRef EXCEPT ![c] = @ - 1]
    BY <1>2 DEF RefAfter
  <2>2. stRef[c] = Cardinality(BufsOf(c)) + 1 + tmpRef[c] /\ stRef[c] >= 1
    BY <1>2 DEF RefInv, RefsCounted
  <2>3. c \notin stFreeHead /\ Movers(c) = {}
    BY <1>2, <2>2 DEF RefInv, PlaceInv
  <2>4. \A b \in Blk : RefAfter(t)[b] = Cardinality(BufsOf(b)) + tmpRef[b]
    BY <1>2, <2>1, <2>2 DEF RefInv, RefsCounted
  <2>5. FreeAfter(t) = (IF stRef[c] = 1 THEN stFreeHead \cup {c} ELSE stFreeHead)
        /\ NumAfter(t) = (IF stRef[c] = 1 THEN u32FreeNum + 1 ELSE u32FreeNum)
    BY <1>2 DEF FreeAfter, NumAfter, CurrIsLast
  <2>6. NumAfter(t) = Cardinality(FreeAfter(t)) /\ FreeAfter(t) \subseteq Blk
    BY <1>2, <2>3, <2>5, FS_AddElement DEF RefInv, NumInv
  <2>7. ASSUME NEW b \in Blk
        PROVE  /\ b \in FreeAfter(t) => RefAfter(t)[b] = 0 /\ Movers(b) = {}
               /\ Movers(b) # {} => RefAfter(t)[b] = 0
               /\ RefAfter(t)[b] = 0 => b \in FreeAfter(t) \/ Movers(b) # {}
    BY <1>2, <2>1, <2>2, <2>3, <2>5 DEF RefInv, PlaceInv
  <2>8. RefAfter(t) \in [Blk -> Int]
    BY <1>2, <2>1
  <2> HIDE DEF c
  <2> QED
    BY <2>4, <2>6, <2>7, <2>8
<1> QED
  BY <1>1, <1>2

(* The shape most steps have: the pointers of the headers into one block,  *)
(* and its count, change together.                                         *)
LEMMA RefKept ==
  ASSUME TypeInv, TypeInv', RefInv, NEW t \in Thread,
         UNCHANGED << stFreeHead, u32FreeNum, pstCurrBlk >>,
         \A u \in Thread \ {t} :
           /\ call'[u] = call[u]
           /\ pc'[u] = pc[u] \/ (pc[u] = "sleep" /\ pc'[u] = "check"),
         pc[t] \notin {"carve", "put"}, pc'[t] \notin {"carve", "put"},
         \A b \in Blk : /\ stRef'[b] - stRef[b] =
                             (Cardinality(BufsOf(b)') + tmpRef'[b])
                               - (Cardinality(BufsOf(b)) + tmpRef[b])
                        /\ (stRef'[b] = 0) <=> (stRef[b] = 0)
  PROVE  RefInv'
<1>1. \A b \in Blk : Movers(b)' = Movers(b)
  BY MoversFrame DEF Movers
<1>2. \A b \in Blk : /\ stRef[b] \in Int /\ stRef'[b] \in Int
                     /\ tmpRef[b] \in Nat /\ tmpRef'[b] \in Nat
                     /\ Cardinality(BufsOf(b)) \in Nat
                     /\ Cardinality(BufsOf(b)') \in Nat
  <2>1. \A b \in Blk : BufsOf(b)' = Pointing(buf', b)
    BY DEF BufsOf, Pointing
  <2> QED
    BY <2>1, RefTypes, PointingFinite DEF TypeInv, TypeOK
<1>3. RefsCounted'
  BY <1>2 DEF RefInv, RefsCounted
<1>4. PlaceInv'
  BY <1>1 DEF RefInv, PlaceInv
<1>5. NumInv'
  BY DEF RefInv, NumInv
<1> QED
  BY <1>3, <1>4, <1>5 DEF RefInv

LEMMA RefPrime ==
  ASSUME TypeInv'
  PROVE  /\ \A b \in Blk : stRef'[b] \in Int /\ tmpRef'[b] \in Nat
         /\ \A b \in Blk : BufsOf(b)' = Pointing(buf', b)
         /\ \A b \in Blk : Cardinality(BufsOf(b)') \in Nat
<1>1. \A b \in Blk : BufsOf(b)' = Pointing(buf', b)
  BY DEF BufsOf, Pointing
<1> QED
  BY <1>1, PointingFinite DEF TypeInv, TypeOK

LEMMA AllocFromCurrRef ==
  ASSUME TypeInv, TypeInv', RefInv, NEW t \in Thread, NEW h \in Handle,
         AllocFromCurr(t, h)
  PROVE  RefInv'
<1> DEFINE c == pstCurrBlk
<1>1. c \in Blk /\ buf[h].blk = NoBlk
  BY NullAssumption, RefTypes DEF AllocFromCurr, FitsCurr, CurrSeen, Live
<1>2. buf'[h].blk = c /\ \A k \in Handle : k # h => buf'[k].blk = buf[k].blk
  BY DEF TypeInv, TypeOK, AllocFromCurr, CurrSeen, NewBuf
<1>3. \A b \in Blk : Cardinality(BufsOf(b)') =
                       Cardinality(BufsOf(b)) + (IF b = c THEN 1 ELSE 0)
  BY <1>1, <1>2, PointingAdd, RefTypes, RefPrime
<1>4. stRef' = [stRef EXCEPT ![c] = @ + 1] /\ tmpRef' = tmpRef
  BY DEF AllocFromCurr, CurrSeen, GetBlk
<1>5. stRef[c] > 0
  BY <1>1, RefTypes DEF RefInv, RefsCounted
<1>6. \A u \in Thread \ {t} :
        /\ call'[u] = call[u]
        /\ pc'[u] = pc[u] \/ (pc[u] = "sleep" /\ pc'[u] = "check")
  BY DEF TypeInv, TypeOK, AllocFromCurr, CallAfter, WakeAll
<1>7. pc[t] \notin {"carve", "put"} /\ pc'[t] \notin {"carve", "put"}
  BY DEF TypeInv, TypeOK, AllocFromCurr, InLoop, Relocked, AfterAlloc, WakeAll
<1>8. UNCHANGED << stFreeHead, u32FreeNum, pstCurrBlk >>
  BY DEF AllocFromCurr
<1>9. \A b \in Blk : /\ stRef'[b] - stRef[b] =
                          (Cardinality(BufsOf(b)') + tmpRef'[b])
                            - (Cardinality(BufsOf(b)) + tmpRef[b])
                     /\ (stRef'[b] = 0) <=> (stRef[b] = 0)
  BY <1>1, <1>3, <1>4, <1>5, RefTypes
<1> QED
  BY <1>6, <1>7, <1>8, <1>9, RefKept

LEMMA AllocFromNewRef ==
  ASSUME TypeInv, TypeInv', RefInv, NEW t \in Thread, NEW h \in Handle,
         NEW c \in Blk, AllocFromNew(t, h, c)
  PROVE  RefInv'
<1>1. c \in FreeAfter(t) /\ buf[h].blk = NoBlk
  BY DEF AllocFromNew, Live
<1>2. buf'[h].blk = c /\ \A k \in Handle : k # h => buf'[k].blk = buf[k].blk
  BY DEF TypeInv, TypeOK, AllocFromNew, NewBuf
<1>3. \A b \in Blk : Cardinality(BufsOf(b)') =
                       Cardinality(BufsOf(b)) + (IF b = c THEN 1 ELSE 0)
  <2>1. \A b \in Blk : Cardinality(Pointing(buf', b)) =
                 Cardinality(Pointing(buf, b)) + (IF b = c THEN 1 ELSE 0)
    BY <1>1, <1>2, PointingAdd
  <2> QED
    BY <2>1, RefTypes, RefPrime
<1>4. /\ stRef' = [RefAfter(t) EXCEPT ![c] = 2] /\ tmpRef' = tmpRef
      /\ pstCurrBlk' = c /\ stFreeHead' = FreeAfter(t) \ {c}
      /\ u32FreeNum' = NumAfter(t) - 1
  BY DEF AllocFromNew
<1>5. \A b \in Blk : Movers(b)' = Movers(b)
  <2>1. \A u \in Thread \ {t} :
          /\ call'[u] = call[u]
          /\ pc'[u] = pc[u] \/ (pc[u] = "sleep" /\ pc'[u] = "check")
    BY DEF TypeInv, TypeOK, AllocFromNew, CallAfter, WakeAll
  <2>2. pc[t] \notin {"carve", "put"} /\ pc'[t] \notin {"carve", "put"}
    BY DEF TypeInv, TypeOK, AllocFromNew, InLoop, Relocked, AfterAlloc, WakeAll
  <2> QED
    BY <2>1, <2>2, MoversFrame DEF Movers
<1>6. /\ Cardinality(BufsOf(c)) = 0 /\ tmpRef[c] = 0 /\ Movers(c) = {}
      /\ \A b \in Blk : b # c => stRef'[b] = RefAfter(t)[b]
      /\ stRef'[c] = 2
  BY <1>1, <1>4, PutCurr, RefTypes
<1>7. RefsCounted'
  BY <1>3, <1>4, <1>6, PutCurr, RefTypes DEF RefsCounted
<1>8. PlaceInv'
  <2>1. ASSUME NEW b \in Blk
        PROVE  /\ b \in stFreeHead' => stRef'[b] = 0 /\ Movers(b) = {}
               /\ Movers(b) # {} => stRef'[b] = 0
               /\ stRef'[b] = 0 => b \in stFreeHead' \/ Movers(b) # {}
    BY <1>1, <1>4, <1>6, PutCurr
  <2> QED
    BY <1>5, <2>1 DEF PlaceInv, RefInv
<1>9. NumInv'
  <2>1. IsFiniteSet(FreeAfter(t))
    BY PutCurr, FiniteAssumption, FS_Subset
  <2> QED
    BY <1>1, <1>4, <2>1, PutCurr, FS_RemoveElement, FS_CardinalityType DEF NumInv
<1> QED
  BY <1>7, <1>8, <1>9 DEF RefInv

LEMMA AllocBufNoBlkRef ==
  ASSUME TypeInv, TypeInv', RefInv, NEW t \in Thread, AllocBufNoBlk(t)
  PROVE  RefInv'
<1>1. /\ stRef' = RefAfter(t) /\ tmpRef' = tmpRef /\ buf' = buf
      /\ pstCurrBlk' = NoBlk /\ stFreeHead' = FreeAfter(t)
      /\ u32FreeNum' = NumAfter(t)
  BY DEF AllocBufNoBlk, CurrAfter
<1>2. \A b \in Blk : BufsOf(b)' = BufsOf(b)
  BY <1>1 DEF BufsOf
<1>3. \A b \in Blk : Movers(b)' = Movers(b)
  <2>1. \A u \in Thread \ {t} :
          /\ call'[u] = call[u]
          /\ pc'[u] = pc[u] \/ (pc[u] = "sleep" /\ pc'[u] = "check")
    BY DEF TypeInv, TypeOK, AllocBufNoBlk, WakeAll
  <2>2. pc[t] \notin {"carve", "put"} /\ pc'[t] \notin {"carve", "put"}
    BY DEF TypeInv, TypeOK, AllocBufNoBlk, WakeAll
  <2> QED
    BY <2>1, <2>2, MoversFrame DEF Movers
<1>4. RefsCounted'
  BY <1>1, <1>2, PutCurr, RefTypes, NullAssumption DEF RefsCounted
<1>5. PlaceInv'
  BY <1>1, <1>3, PutCurr DEF PlaceInv, RefInv
<1>6. NumInv'
  BY <1>1, PutCurr DEF NumInv
<1> QED
  BY <1>4, <1>5, <1>6 DEF RefInv

(* Steps that change neither a count, a pointer nor the free list, and     *)
(* that neither take a block nor give one back.                            *)
LEMMA RefUnchanged ==
  ASSUME TypeInv, TypeInv', RefInv, NEW t \in Thread,
         UNCHANGED << stFreeHead, u32FreeNum, pstCurrBlk, stRef, buf, tmpRef >>,
         \A u \in Thread \ {t} :
           /\ call'[u] = call[u]
           /\ pc'[u] = pc[u] \/ (pc[u] = "sleep" /\ pc'[u] = "check"),
         pc[t] \notin {"carve", "put"}, pc'[t] \notin {"carve", "put"}
  PROVE  RefInv'
<1>1. \A b \in Blk : BufsOf(b)' = BufsOf(b)
  BY DEF BufsOf
<1>2. \A b \in Blk : Movers(b)' = Movers(b)
  BY MoversFrame DEF Movers
<1> QED
  BY <1>1, <1>2 DEF RefInv, RefsCounted, PlaceInv, NumInv

LEMMA AllocPrivBlkRef ==
  ASSUME TypeInv, TypeInv', RefInv, NEW t \in Thread, NEW c \in Blk,
         AllocPrivBlk(t, c)
  PROVE  RefInv'
<1>1. /\ c \in stFreeHead /\ stFreeHead' = stFreeHead \ {c}
      /\ u32FreeNum' = u32FreeNum - 1 /\ stRef' = [stRef EXCEPT ![c] = 0]
      /\ UNCHANGED << pstCurrBlk, buf, tmpRef >>
  BY DEF AllocPrivBlk
<1>2. stRef[c] = 0 /\ Movers(c) = {}
  BY <1>1 DEF RefInv, PlaceInv
<1>3. stRef' = stRef
  BY <1>1, <1>2, RefTypes
<1>4. \A u \in Thread \ {t} : call'[u] = call[u] /\ pc'[u] = pc[u]
  BY DEF TypeInv, TypeOK, AllocPrivBlk
<1>5. pc[t] \notin {"carve", "put"} /\ pc'[t] = "carve"
  BY DEF TypeInv, TypeOK, AllocPrivBlk
<1>6. call'[t].blk = c
  <2>1. call[t] \in CallType /\ call' = [call EXCEPT ![t].blk = c]
    BY DEF TypeInv, TypeOK, AllocPrivBlk
  <2> QED
    BY <2>1 DEF TypeInv, TypeOK, CallType
<1>7. Movers(c)' = {t}
  BY <1>2, <1>4, <1>5, <1>6 DEF Movers
<1>8. \A b \in Blk : b # c => Movers(b)' = Movers(b)
  BY <1>4, <1>5, <1>6 DEF Movers
<1>9. RefsCounted'
  <2>1. \A b \in Blk : BufsOf(b)' = BufsOf(b)
    BY <1>1 DEF BufsOf
  <2> QED
    BY <1>1, <1>3, <2>1 DEF RefInv, RefsCounted
<1>10. PlaceInv'
  BY <1>1, <1>2, <1>3, <1>7, <1>8 DEF RefInv, PlaceInv
<1>11. NumInv'
  BY <1>1, RefTypes, FS_RemoveElement, FS_CardinalityType DEF RefInv, NumInv
<1> QED
  BY <1>9, <1>10, <1>11 DEF RefInv

LEMMA CarvePrivBufRef ==
  ASSUME TypeInv, TypeInv', RefInv, NEW t \in Thread, NEW h \in Handle,
         CarvePrivBuf(t, h)
  PROVE  RefInv'
<1>0. PICK c \in Blk : c = call[t].blk
  BY DEF CarvePrivBuf, TypeInv, CallInv, CallOK
<1>1. c \in Blk /\ buf[h].blk = NoBlk
  BY DEF CarvePrivBuf, Live
<1>2. buf'[h].blk = c /\ \A k \in Handle : k # h => buf'[k].blk = buf[k].blk
  BY <1>0 DEF TypeInv, TypeOK, CarvePrivBuf, NewBuf
<1>3. \A b \in Blk : Cardinality(BufsOf(b)') =
                       Cardinality(BufsOf(b)) + (IF b = c THEN 1 ELSE 0)
  <2> DEFINE f == buf
             g == buf'
  <2>1. f[h].blk = NoBlk /\ g[h].blk = c
        /\ \A k \in Handle : k # h => g[k].blk = f[k].blk
    BY <1>1, <1>2
  <2> HIDE DEF f, g
  <2>2. \A b \in Blk : Cardinality(Pointing(g, b)) =
                 Cardinality(Pointing(f, b)) + (IF b = c THEN 1 ELSE 0)
    BY <2>1, PointingAdd
  <2> QED
    BY <2>2, RefTypes, RefPrime DEF f, g
<1>4. /\ stRef' = [stRef EXCEPT ![c] = @ + 1]
      /\ UNCHANGED << stFreeHead, u32FreeNum, pstCurrBlk, tmpRef >>
  BY <1>0 DEF CarvePrivBuf, GetBlk
<1>5. t \in Movers(c)
  BY <1>0 DEF CarvePrivBuf, Movers
<1>6. stRef[c] = 0 /\ c \notin stFreeHead /\ \A u \in Movers(c) : u = t
  BY <1>1, <1>5 DEF RefInv, PlaceInv
<1>7. \A u \in Thread \ {t} : call'[u] = call[u] /\ pc'[u] = pc[u]
  BY DEF TypeInv, TypeOK, CarvePrivBuf
<1>8. pc'[t] = "idle"
  BY DEF TypeInv, TypeOK, CarvePrivBuf
<1>9. Movers(c)' = {}
  BY <1>6, <1>7, <1>8 DEF Movers
<1>10. \A b \in Blk : b # c => Movers(b)' = Movers(b)
  BY <1>0, <1>7, <1>8 DEF Movers
<1>11. RefsCounted'
  <2>1. \A b \in Blk : stRef'[b] = stRef[b] + (IF b = c THEN 1 ELSE 0)
    BY <1>1, <1>4, RefTypes
  <2> QED
    BY <1>3, <1>4, <2>1, RefTypes DEF RefInv, RefsCounted
<1>12. PlaceInv'
  <2>1. stRef'[c] = 1 /\ \A b \in Blk : b # c => stRef'[b] = stRef[b]
    BY <1>1, <1>4, <1>6, RefTypes
  <2> QED
    BY <1>4, <1>6, <1>9, <1>10, <2>1 DEF RefInv, PlaceInv
<1>13. NumInv'
  BY <1>4 DEF RefInv, NumInv
<1> QED
  BY <1>11, <1>12, <1>13 DEF RefInv

(* A caller that holds a live header holds a counted reference.            *)
LEMMA LiveCounted ==
  ASSUME TypeInv, RefInv, NEW h \in Handle, buf[h].blk \in Blk
  PROVE  stRef[buf[h].blk] > 0
<1> DEFINE b == buf[h].blk
<1>1. Cardinality(BufsOf(b)) # 0
  <2>1. h \in Pointing(buf, b)
    BY DEF Pointing
  <2>2. IsFiniteSet(Pointing(buf, b))
    BY PointingFinite
  <2> QED
    BY <2>1, <2>2, RefTypes, FS_EmptySet
<1> HIDE DEF b
<1>2. b \in Blk
  BY DEF b
<1>3. stRef[b] > 0
  BY <1>1, <1>2, RefTypes DEF RefInv, RefsCounted
<1> QED
  BY <1>3 DEF b

(* One more header into block c, which is referenced already.              *)
LEMMA RefOneMore ==
  ASSUME TypeInv, TypeInv', RefInv, NEW t \in Thread, NEW h \in Handle,
         NEW c \in Blk, stRef[c] > 0, buf[h].blk = NoBlk, buf'[h].blk = c,
         \A k \in Handle : k # h => buf'[k].blk = buf[k].blk,
         stRef' = GetBlk(c), pc[t] = "idle",
         UNCHANGED << stFreeHead, u32FreeNum, pstCurrBlk, tmpRef, pc, call >>
  PROVE  RefInv'
<1>1. \A b \in Blk : Cardinality(BufsOf(b)') =
                       Cardinality(BufsOf(b)) + (IF b = c THEN 1 ELSE 0)
  <2>1. \A b \in Blk : Cardinality(Pointing(buf', b)) =
                 Cardinality(Pointing(buf, b)) + (IF b = c THEN 1 ELSE 0)
    BY SMTT(30), PointingAdd
  <2> QED
    BY <2>1, RefTypes, RefPrime
<1>2. \A b \in Blk : /\ stRef'[b] - stRef[b] =
                          (Cardinality(BufsOf(b)') + tmpRef'[b])
                            - (Cardinality(BufsOf(b)) + tmpRef[b])
                     /\ (stRef'[b] = 0) <=> (stRef[b] = 0)
  BY <1>1, RefTypes DEF GetBlk
<1> QED
  BY <1>2, RefKept

LEMMA TrimBufLenRef ==
  ASSUME TypeInv, TypeInv', RefInv, NEW t \in Thread, NEW h \in Handle,
         NEW h2 \in Handle, NEW len \in Lens, TrimBufLen(t, h, len, h2)
  PROVE  RefInv'
<1> DEFINE c    == buf[h].blk
           left == BlkSize - TrimOff(h, len)
           cut  == [buf EXCEPT ![h].len = len, ![h].tail = FALSE]
<1>1. /\ c \in Blk /\ buf[h2].blk = NoBlk /\ h # h2
  BY DEF TrimBufLen, Owned, Live, TypeInv, TypeOK, BufType
<1>2. cut \in [Handle -> BufType] /\ \A k \in Handle : cut[k].blk = buf[k].blk
  <2>1. len \in Nat
    BY LensAssumption
  <2>2. buf \in [Handle -> BufType]
    BY DEF TypeInv, TypeOK
  <2> QED
    BY <2>1, <2>2 DEF BufType
<1>3. pc[t] = "idle" /\ pc' = pc /\ call' = call /\ tmpRef' = tmpRef
      /\ UNCHANGED << stFreeHead, u32FreeNum, pstCurrBlk >>
  BY DEF TrimBufLen
<1>4. CASE TooShort(left)
  <2>1. buf' = cut /\ stRef' = stRef
    BY <1>4 DEF TrimBufLen
  <2>2. \A b \in Blk : BufsOf(b)' = BufsOf(b)
    BY <1>2, <2>1 DEF BufsOf
  <2> QED
    BY <1>3, <2>1, <2>2 DEF RefInv, RefsCounted, PlaceInv, NumInv, Movers
<1>5. CASE ~TooShort(left)
  <2>1. buf' = [cut EXCEPT ![h2] = NewBuf(c, TrimOff(h, len), left - BufHdr, TRUE)]
        /\ stRef' = GetBlk(c)
    BY <1>5 DEF TrimBufLen
  <2> HIDE DEF cut, left
  <2>2. buf'[h2].blk = c
    BY <1>2, <2>1 DEF NewBuf
  <2>3. \A k \in Handle : k # h2 => buf'[k].blk = buf[k].blk
    BY <1>2, <2>1
  <2>4. stRef[c] > 0
    BY <1>1, LiveCounted
  <2> HIDE DEF c
  <2> QED
    BY <1>1, <1>3, <2>1, <2>2, <2>3, <2>4, RefOneMore
<1> QED
  BY <1>4, <1>5

LEMMA ShareBufRef ==
  ASSUME TypeInv, TypeInv', RefInv, NEW t \in Thread, NEW h \in Handle,
         NEW h2 \in Handle, ShareBuf(t, h, h2)
  PROVE  RefInv'
<1> DEFINE c == buf[h].blk
<1>1. c \in Blk /\ buf[h2].blk = NoBlk
  BY DEF ShareBuf, Owned, Live, TypeInv, TypeOK, BufType
<1>2. /\ buf'[h2].blk = c
      /\ \A k \in Handle : k # h2 => buf'[k].blk = buf[k].blk
  BY DEF ShareBuf, TypeInv, TypeOK
<1>3. stRef' = GetBlk(c) /\ pc[t] = "idle"
      /\ UNCHANGED << stFreeHead, u32FreeNum, pstCurrBlk, tmpRef, pc, call >>
  BY DEF ShareBuf
<1>4. stRef[c] > 0
  BY <1>1, LiveCounted
<1> HIDE DEF c
<1> QED
  BY <1>1, <1>2, <1>3, <1>4, RefOneMore

LEMMA FreeBufRef ==
  ASSUME TypeInv, TypeInv', RefInv, NEW t \in Thread, NEW h \in Handle,
         FreeBuf(t, h)
  PROVE  RefInv'
<1>0. PICK c \in Blk : c = buf[h].blk
  BY DEF FreeBuf, Owned, Live, TypeInv, TypeOK, BufType
<1>1. c \in Blk /\ pc[t] = "idle"
  BY DEF FreeBuf
<1>2. /\ buf'[h].blk = NoBlk
      /\ \A k \in Handle : k # h => buf'[k].blk = buf[k].blk
  BY DEF FreeBuf, TypeInv, TypeOK, NoBuf
<1>3. /\ stRef' = [stRef EXCEPT ![c] = @ - 1]
      /\ UNCHANGED << stFreeHead, u32FreeNum, pstCurrBlk, tmpRef >>
  BY <1>0 DEF FreeBuf
<1>4. \A b \in Blk : Cardinality(BufsOf(b)) =
                       Cardinality(BufsOf(b)') + (IF b = c THEN 1 ELSE 0)
  <2>1. \A b \in Blk : Cardinality(Pointing(buf, b)) =
                 Cardinality(Pointing(buf', b)) + (IF b = c THEN 1 ELSE 0)
    BY <1>0, <1>1, <1>2, PointingAdd
  <2> QED
    BY <2>1, RefTypes, RefPrime
<1>5. stRef[c] > 0
  BY <1>0, LiveCounted
<1>6. CASE stRef[c] # 1
  <2>1. UNCHANGED << pc, call >>
    BY <1>0, <1>6 DEF FreeBuf
  <2>2. \A b \in Blk : /\ stRef'[b] - stRef[b] =
                            (Cardinality(BufsOf(b)') + tmpRef'[b])
                              - (Cardinality(BufsOf(b)) + tmpRef[b])
                       /\ (stRef'[b] = 0) <=> (stRef[b] = 0)
    BY <1>1, <1>3, <1>4, <1>5, <1>6, RefTypes, RefPrime
  <2> QED
    BY <1>1, <1>3, <2>1, <2>2, RefKept
<1>7. CASE stRef[c] = 1
  <2>1. /\ pc' = [pc EXCEPT ![t] = "put"]
        /\ call' = [call EXCEPT ![t].blk = c]
    BY <1>0, <1>7 DEF FreeBuf
  <2>2. \A u \in Thread \ {t} : call'[u] = call[u] /\ pc'[u] = pc[u]
    BY <2>1 DEF TypeInv, TypeOK
  <2>3. pc'[t] = "put"
    BY <2>1 DEF TypeInv, TypeOK
  <2>4. call'[t].blk = c
    <3>1. call[t] \in CallType
      BY DEF TypeInv, TypeOK
    <3> QED
      BY <2>1, <3>1 DEF TypeInv, TypeOK, CallType
  <2>5. c \notin stFreeHead /\ Movers(c) = {}
    BY <1>1, <1>7 DEF RefInv, PlaceInv
  <2>6. Movers(c)' = {t}
    BY <2>2, <2>3, <2>4, <2>5 DEF Movers
  <2>7. \A b \in Blk : b # c => Movers(b)' = Movers(b)
    BY <1>1, <2>2, <2>3, <2>4 DEF Movers
  <2>8. stRef'[c] = 0 /\ \A b \in Blk : b # c => stRef'[b] = stRef[b]
    BY <1>1, <1>3, <1>7, RefTypes
  <2>9. RefsCounted'
    <3>1. \A b \in Blk : stRef'[b] = stRef[b] - (IF b = c THEN 1 ELSE 0)
      BY <1>7, <2>8, RefTypes
    <3> QED
      BY <1>3, <1>4, <3>1, RefTypes, RefPrime DEF RefInv, RefsCounted
  <2>10. PlaceInv'
    BY <1>3, <2>5, <2>6, <2>7, <2>8 DEF RefInv, PlaceInv
  <2>11. NumInv'
    BY <1>3 DEF RefInv, NumInv
  <2> QED
    BY <2>9, <2>10, <2>11 DEF RefInv
<1> QED
  BY <1>6, <1>7

LEMMA FreeBlkRef ==
  ASSUME TypeInv, TypeInv', RefInv, NEW t \in Thread, FreeBlk(t)
  PROVE  RefInv'
<1>0. PICK c \in Blk : c = call[t].blk
  BY DEF FreeBlk, TypeInv, CallInv, CallOK
<1>1. c \in Blk /\ t \in Movers(c)
  BY <1>0 DEF FreeBlk, Movers
<1>2. stRef[c] = 0 /\ c \notin stFreeHead /\ \A u \in Movers(c) : u = t
  BY <1>1 DEF RefInv, PlaceInv
<1>3. /\ stFreeHead' = stFreeHead \cup {c} /\ u32FreeNum' = u32FreeNum + 1
      /\ UNCHANGED << pstCurrBlk, stRef, buf, tmpRef >>
  BY <1>0 DEF FreeBlk
<1>4. \A u \in Thread \ {t} : call'[u] = call[u] /\ pc'[u] = pc[u]
  BY DEF TypeInv, TypeOK, FreeBlk
<1>5. pc'[t] = "wake"
  BY DEF TypeInv, TypeOK, FreeBlk
<1>6. Movers(c)' = {}
  BY <1>2, <1>4, <1>5 DEF Movers
<1>7. \A b \in Blk : b # c => Movers(b)' = Movers(b)
  BY <1>0, <1>4, <1>5 DEF Movers
<1>8. RefsCounted'
  <2>1. \A b \in Blk : BufsOf(b)' = BufsOf(b)
    BY <1>3 DEF BufsOf
  <2> QED
    BY <1>3, <2>1 DEF RefInv, RefsCounted
<1>9. PlaceInv'
  BY <1>2, <1>3, <1>6, <1>7 DEF RefInv, PlaceInv
<1>10. NumInv'
  BY <1>2, <1>3, RefTypes, FS_AddElement DEF RefInv, NumInv
<1> QED
  BY <1>8, <1>9, <1>10 DEF RefInv

LEMMA CloneTmpGetRef ==
  ASSUME TypeInv, TypeInv', RefInv, NEW t \in Thread, CloneTmpGet(t)
  PROVE  RefInv'
<1> DEFINE h == call[t].hdl
           c == buf[h].blk
<1>1. h \in Handle /\ c \in Blk
  BY DEF CloneTmpGet, TypeInv, TypeOK, CallInv, CallOK, Live, BufType
<1>2. stRef[c] > 0
  BY <1>1, LiveCounted
<1>3. /\ stRef' = GetBlk(c) /\ tmpRef' = [tmpRef EXCEPT ![c] = @ + 1]
      /\ UNCHANGED << stFreeHead, u32FreeNum, pstCurrBlk, buf >>
  BY DEF CloneTmpGet
<1>4. \A u \in Thread \ {t} : call'[u] = call[u] /\ pc'[u] = pc[u]
  BY DEF TypeInv, TypeOK, CloneTmpGet
<1>5. pc[t] = "tmpget" /\ pc'[t] = "idle"
  BY DEF TypeInv, TypeOK, CloneTmpGet
<1> HIDE DEF c, h
<1>6. \A b \in Blk : BufsOf(b)' = BufsOf(b)
  BY <1>3 DEF BufsOf
<1>7. \A b \in Blk : /\ stRef'[b] - stRef[b] =
                          (Cardinality(BufsOf(b)') + tmpRef'[b])
                            - (Cardinality(BufsOf(b)) + tmpRef[b])
                     /\ (stRef'[b] = 0) <=> (stRef[b] = 0)
  BY <1>1, <1>2, <1>3, <1>6, RefTypes DEF GetBlk
<1> QED
  BY <1>3, <1>4, <1>5, <1>7, RefKept

(* Calls, the sleep, and the temporary headers.                            *)
LEMMA QuietRef ==
  ASSUME TypeInv, TypeInv', RefInv, NEW t \in Thread,
         \/ \E op \in {"buf", "tmp", "priv"}, len \in Nat, flag \in SUBSET {"RSVD", "WAIT"} :
              EnterAlloc(t, op, len, flag)
         \/ AllocPrivNoBlk(t) \/ WaitCheck(t) \/ WaitAgain(t) \/ WakeUpAll(t)
         \/ InitTmpBuf(t) \/ DropTmpBuf(t)
  PROVE  RefInv'
<1> USE DEF EnterAlloc, AllocPrivNoBlk, WaitCheck, WaitAgain, WakeUpAll,
            InitTmpBuf, DropTmpBuf
<1>1. UNCHANGED << stFreeHead, u32FreeNum, pstCurrBlk, stRef, buf, tmpRef >>
  OBVIOUS
<1>2. \A u \in Thread \ {t} :
        /\ call'[u] = call[u]
        /\ pc'[u] = pc[u] \/ (pc[u] = "sleep" /\ pc'[u] = "check")
  BY DEF TypeInv, TypeOK, WakeAll
<1>3. pc[t] \notin {"carve", "put"} /\ pc'[t] \notin {"carve", "put"}
  BY DEF TypeInv, TypeOK, WakeAll
<1> QED
  BY <1>1, <1>2, <1>3, RefUnchanged

LEMMA RefInit == Init => RefInv
<1> SUFFICES ASSUME Init PROVE RefInv
  OBVIOUS
<1>1. \A b \in Blk : BufsOf(b) = {} /\ Movers(b) = {}
  BY NullAssumption DEF Init, BufsOf, Movers, NoBuf
<1>2. RefsCounted
  BY <1>1, FS_EmptySet, NullAssumption DEF Init, RefsCounted
<1>3. PlaceInv /\ NumInv
  BY <1>1 DEF Init, PlaceInv, NumInv
<1> QED
  BY <1>2, <1>3 DEF RefInv

LEMMA RefStep == TypeInv /\ TypeInv' /\ RefInv /\ [Next]_vars => RefInv'
<1> SUFFICES ASSUME TypeInv, TypeInv', RefInv, [Next]_vars PROVE RefInv'
  OBVIOUS
<1>1. ASSUME NEW t \in Thread, Proceed(t) PROVE RefInv'
  BY <1>1, AllocFromCurrRef, AllocFromNewRef, AllocBufNoBlkRef,
     AllocPrivBlkRef, CarvePrivBufRef, FreeBlkRef, CloneTmpGetRef, QuietRef
     DEF Proceed
<1>2. ASSUME NEW t \in Thread, Request(t) PROVE RefInv'
  <2>1. ASSUME NEW op \in {"buf", "tmp", "priv"}, NEW len \in Nat,
               NEW flag \in SUBSET {"RSVD", "WAIT"}, EnterAlloc(t, op, len, flag)
        PROVE  RefInv'
    BY <2>1, QuietRef
  <2>2. MaxBufSize - BufHdr \in Nat
    BY SizeAssumption DEF MaxBufSize
  <2>3. CASE \E len \in Lens, flag \in Flags : CallAllocBuf(t, len, flag)
    BY <2>1, <2>3, LensAssumption, FlagsAssumption DEF CallAllocBuf
  <2>4. CASE \E flag \in Flags : CallAllocPrivBuf(t, flag)
    BY <2>1, <2>2, <2>4, FlagsAssumption DEF CallAllocPrivBuf
  <2>5. CASE \E len \in Lens : CallCloneTmpBuf(t, len)
    BY <2>1, <2>5, LensAssumption DEF CallCloneTmpBuf
  <2>6. CASE InitTmpBuf(t) \/ DropTmpBuf(t)
    BY <2>6, QuietRef
  <2> QED
    BY <1>2, <2>3, <2>4, <2>5, <2>6, TrimBufLenRef, ShareBufRef, FreeBufRef
       DEF Request
<1>3. CASE UNCHANGED vars
  BY <1>3 DEF vars, RefInv, RefsCounted, PlaceInv, NumInv, BufsOf, Movers
<1> QED
  BY <1>1, <1>2, <1>3 DEF Next

LEMMA RefInvariant == Spec => [](TypeInv /\ RefInv)
<1>1. Init => TypeInv /\ RefInv
  BY TypeInit, RefInit
<1>2. (TypeInv /\ RefInv) /\ [Next]_vars => (TypeInv /\ RefInv)'
  BY TypeStep, RefStep
<1> QED
  BY <1>1, <1>2, PTL DEF Spec

(* The count of every block is the number of references given out to it.   *)
THEOREM CountsCorrect == Spec => []RefsCounted
<1>1. TypeInv /\ RefInv => RefsCounted
  BY DEF RefInv
<1> QED
  BY <1>1, RefInvariant, PTL

(* No block is lost, counted and free at once, or in two threads' hands,   *)
(* whatever the recheck after the sleep of FDD_AllocBuf decides.           *)
THEOREM NoBlockLost == Spec => []BlocksConserved
<1>1. TypeInv /\ RefInv => BlocksConserved
  <2> SUFFICES ASSUME TypeInv, RefInv PROVE BlocksConserved
    OBVIOUS
  <2>1. \A b \in Blk : stRef[b] # 0 => stRef[b] > 0
    BY RefTypes DEF RefInv, RefsCounted
  <2>2. \A b \in Blk : stRef[b] > 0 => stRef[b] # 0
    BY RefTypes
  <2> QED
    BY <2>1, <2>2 DEF RefInv, PlaceInv, NumInv, BlocksConserved
<1> QED
  BY <1>1, RefInvariant, PTL

(* No header, current-block pointer or call in progress reaches a block    *)
(* that is on the free list.                                               *)
THEOREM FreeBlocksUnused == Spec => []NoUseAfterFree
<1>1. TypeInv /\ RefInv => NoUseAfterFree
  <2> SUFFICES ASSUME TypeInv, RefInv, NEW b \in stFreeHead
               PROVE  BufsOf(b) = {} /\ pstCurrBlk # b /\ Movers(b) = {}
    BY DEF NoUseAfterFree
  <2>1. b \in Blk /\ stRef[b] = 0 /\ Movers(b) = {}
    BY RefTypes DEF RefInv, PlaceInv
  <2>2. Cardinality(Pointing(buf, b)) = 0 /\ pstCurrBlk # b
    BY <2>1, RefTypes DEF RefInv, RefsCounted
  <2> QED
    BY <2>1, <2>2, RefTypes, PointingFinite, FS_EmptySet
<1> QED
  BY <1>1, RefInvariant, PTL

----------------------------------------------------------------------------
(***************************************************************************)
(* Bytes of a block.  In what follows the headers, the offsets and the     *)
(* current block are parameters, so that a step can be taken apart into    *)
(* one that cuts a buffer and one that carves the next.                    *)
(***************************************************************************)
End(x) == x.off + BufHdr + x.len

(* Two headers into a block show the same bytes, or one is all behind the  *)
(* other; behind a buffer that may be trimmed there is none.               *)
Apart(bf, g, h) ==
  \/ g = h
  \/ bf[g] = bf[h] /\ ~bf[h].tail
  \/ End(bf[g]) <= bf[h].off
  \/ End(bf[h]) <= bf[g].off /\ ~bf[h].tail

SpaceOK(bf, fo, curr) ==
  \A h \in Handle : bf[h].blk # NoBlk =>
    /\ End(bf[h]) <= fo[bf[h].blk] /\ fo[bf[h].blk] <= BlkSize
    /\ bf[h].tail => bf[h].blk # curr
    /\ \A g \in Handle : bf[g].blk = bf[h].blk => Apart(bf, g, h)

(* The buffers of block b are in the first off bytes, and none of them may *)
(* be trimmed.                                                             *)
Full(bf, b, off) == \A g \in Handle : bf[g].blk = b => ~bf[g].tail /\ End(bf[g]) <= off

(* Two functions on S that differ at x at most.                            *)
Beside(S, x, f, g) == \A y \in S \ {x} : g[y] = f[y]

LEMMA HeaderTypes ==
  ASSUME NEW x \in BufType
  PROVE  /\ x.blk \in Blk \cup {NoBlk} /\ x.off \in Nat /\ x.len \in Nat /\ x.tail \in BOOLEAN
         /\ End(x) \in Nat /\ x.off < End(x)
  BY SizeAssumption DEF BufType, End

(* One more buffer, behind all others of its block.                        *)
LEMMA SpaceAdd ==
  ASSUME NEW bf \in [Handle -> BufType], NEW fo \in [Blk -> Nat], NEW bg, NEW fg, NEW curr,
         SpaceOK(bf, fo, curr), NEW h \in Handle, bf[h].blk = NoBlk,
         NEW b \in Blk, NEW off \in Nat, NEW len \in Nat, NEW tail \in BOOLEAN, NEW n \in Nat,
         bg[h] = NewBuf(b, off, len, tail), Beside(Handle, h, bf, bg),
         fg[b] = n, Beside(Blk, b, fo, fg),
         Full(bf, b, off),
         off + BufHdr + len <= n, n <= BlkSize, tail => b # curr
  PROVE  SpaceOK(bg, fg, curr)
<1> DEFINE x == NewBuf(b, off, len, tail)
<1> USE NullAssumption, SizeAssumption
<1>1. x \in BufType /\ x.blk = b /\ x.off = off /\ x.len = len /\ x.tail = tail /\ End(x) = off + BufHdr + len
  BY BufTypes DEF NewBuf, End
<1>2. bg[h] = x /\ (\A g \in Handle : g # h => bg[g] = bf[g]) /\ \A g \in Handle : bg[g] \in BufType /\ bf[g] \in BufType
  BY <1>1 DEF Beside, Full
<1>3. \A c \in Blk : fg[c] = IF c = b THEN n ELSE fo[c]
  BY DEF Beside
<1> HIDE DEF x
<1>4. ASSUME NEW k \in Handle, bg[k].blk # NoBlk
      PROVE  /\ End(bg[k]) <= fg[bg[k].blk] /\ fg[bg[k].blk] <= BlkSize
             /\ bg[k].tail => bg[k].blk # curr
             /\ \A g \in Handle : bg[g].blk = bg[k].blk => Apart(bg, g, k)
  <2>1. CASE k = h
    <3>1. ASSUME NEW g \in Handle, bg[g].blk = b, g # h PROVE End(bg[g]) <= bg[h].off
      BY <1>1, <1>2, <3>1 DEF Beside, Full
    <3> QED
      BY <1>1, <1>2, <1>3, <2>1, <3>1 DEF Apart
  <2>2. CASE k # h
    <3>1. bg[k] = bf[k] /\ bf[k].blk # NoBlk /\ bf[k].blk \in Blk /\ fo[bf[k].blk] \in Nat
      BY <1>2, <1>4, <2>2, HeaderTypes
    <3>2. /\ End(bf[k]) <= fo[bf[k].blk] /\ fo[bf[k].blk] <= BlkSize
          /\ bf[k].tail => bf[k].blk # curr
          /\ \A g \in Handle : bf[g].blk = bf[k].blk => Apart(bf, g, k)
      BY <3>1 DEF SpaceOK
    <3>3. End(bg[k]) <= fg[bg[k].blk] /\ fg[bg[k].blk] <= BlkSize
      <4>1. End(bf[k]) \in Nat
        BY <1>2, HeaderTypes
      <4> QED
        BY <1>3, <3>1, <3>2, <4>1 DEF Beside, Full
    <3>4. ASSUME NEW g \in Handle, bg[g].blk = bg[k].blk PROVE Apart(bg, g, k)
      <4>1. CASE g = h
        BY <1>1, <1>2, <3>1, <3>4, <4>1 DEF Apart, Beside, Full
      <4>2. CASE g # h
        BY <1>2, <3>1, <3>2, <3>4, <4>2 DEF Apart
      <4> QED
        BY <4>1, <4>2
    <3> QED
      BY <3>1, <3>2, <3>3, <3>4
  <2> QED
    BY <2>1, <2>2
<1> QED
  BY <1>4 DEF SpaceOK

(* The last buffer of a block is cut, and nothing is behind it.            *)
LEMMA SpaceCut ==
  ASSUME NEW bf \in [Handle -> BufType], NEW fo \in [Blk -> Nat], NEW bg, NEW fg, NEW curr,
         SpaceOK(bf, fo, curr), NEW h \in Handle, NEW b \in Blk, bf[h].blk = b, bf[h].tail,
         bg[h] \in BufType, bg[h].blk = b, bg[h].off = bf[h].off, bg[h].len <= bf[h].len, ~bg[h].tail,
         Beside(Handle, h, bf, bg),
         fg[b] = End(bg[h]), Beside(Blk, b, fo, fg)
  PROVE  SpaceOK(bg, fg, curr) /\ Full(bg, b, End(bg[h]))
<1> USE NullAssumption, SizeAssumption
<1> DEFINE off == End(bg[h])
<1>1. /\ bf[h] \in BufType /\ bf[h].off \in Nat /\ bf[h].len \in Nat /\ off \in Nat
      /\ bg[h].len \in Nat /\ off = bf[h].off + BufHdr + bg[h].len
  BY HeaderTypes DEF End
<1>2. \A g \in Handle : g # h => bg[g] = bf[g]
  BY DEF Beside
<1>3. /\ bg[h] \in BufType /\ bg[h].blk = b /\ bg[h].off = bf[h].off /\ ~bg[h].tail
  OBVIOUS
<1>5. \A c \in Blk : fg[c] = IF c = b THEN off ELSE fo[c]
  BY DEF Beside
<1>o. End(bg[h]) = off
  OBVIOUS
<1> HIDE DEF off
<1>6. \A g \in Handle : bf[g] \in BufType /\ bg[g] \in BufType
  BY <1>2, <1>3
<1>7. /\ End(bf[h]) <= fo[b] /\ fo[b] <= BlkSize /\ fo[b] \in Nat /\ off <= End(bf[h]) /\ End(bf[h]) \in Nat
  BY <1>1, HeaderTypes DEF SpaceOK, End
<1>8. \A g \in Handle : bf[g].blk = b /\ g # h => End(bf[g]) <= bf[h].off /\ ~bf[g].tail
  <2> SUFFICES ASSUME NEW g \in Handle, bf[g].blk = b, g # h PROVE End(bf[g]) <= bf[h].off /\ ~bf[g].tail
    OBVIOUS
  <2>1. Apart(bf, g, h) /\ Apart(bf, h, g)
    BY <1>1 DEF SpaceOK
  <2>2. End(bf[g]) <= bf[h].off
    BY <2>1 DEF Apart
  <2>3. /\ bf[g].off \in Nat /\ End(bf[g]) \in Nat /\ bf[g].off < End(bf[g])
        /\ bf[h].off \in Nat /\ End(bf[h]) \in Nat /\ bf[h].off < End(bf[h])
    BY <1>6, HeaderTypes
  <2>4. ~(End(bf[h]) <= bf[g].off)
    BY <2>2, <2>3
  <2>5. ~bf[g].tail
    BY <2>1, <2>4 DEF Apart
  <2> QED
    BY <2>2, <2>5
<1>9. \A g \in Handle : bg[g].blk = b => ~bg[g].tail /\ End(bg[g]) <= off
  <2> SUFFICES ASSUME NEW g \in Handle, bg[g].blk = b PROVE ~bg[g].tail /\ End(bg[g]) <= off
    OBVIOUS
  <2>1. CASE g = h
    BY <1>1, <1>3, <1>o, <2>1
  <2>2. CASE g # h
    <3>1. End(bf[g]) <= bf[h].off /\ ~bf[g].tail /\ End(bf[g]) \in Nat
      BY <1>2, <1>6, <1>8, <2>2, HeaderTypes
    <3> QED
      BY <1>1, <1>2, <2>2, <3>1
  <2> QED
    BY <2>1, <2>2
<1>10. ASSUME NEW k \in Handle, bg[k].blk # NoBlk
       PROVE  /\ End(bg[k]) <= fg[bg[k].blk] /\ fg[bg[k].blk] <= BlkSize
              /\ bg[k].tail => bg[k].blk # curr
              /\ \A g \in Handle : bg[g].blk = bg[k].blk => Apart(bg, g, k)
  <2>1. bg[k].blk = bf[k].blk /\ bg[k].blk \in Blk
    BY <1>2, <1>3, <1>6, <1>10, HeaderTypes
  <2>2. /\ End(bf[k]) <= fo[bf[k].blk] /\ fo[bf[k].blk] <= BlkSize
        /\ bf[k].tail => bf[k].blk # curr
        /\ \A g \in Handle : bf[g].blk = bf[k].blk => Apart(bf, g, k)
    BY <1>10, <2>1 DEF SpaceOK
  <2>3. CASE bf[k].blk = b
    <3>1. End(bg[k]) <= fg[bg[k].blk] /\ fg[bg[k].blk] <= BlkSize
      BY <1>1, <1>5, <1>7, <1>9, <2>1, <2>3
    <3>2. ~bg[k].tail
      BY <1>9, <2>1, <2>3
    <3>3. ASSUME NEW g \in Handle, bg[g].blk = bg[k].blk PROVE Apart(bg, g, k)
      <4>1. bf[g].blk = b
        BY <1>2, <1>3, <2>1, <2>3, <3>3
      <4>2. CASE g # h /\ k # h
        BY <1>2, <2>2, <2>3, <4>1, <4>2 DEF Apart
      <4>3. CASE g = h /\ k # h
        BY <1>2, <1>3, <1>8, <2>3, <3>2, <4>3 DEF Apart
      <4>4. CASE g # h /\ k = h
        BY <1>2, <1>3, <1>8, <4>1, <4>4 DEF Apart
      <4>5. CASE g = h /\ k = h
        BY <4>5 DEF Apart
      <4> QED
        BY <4>2, <4>3, <4>4, <4>5
    <3> QED
      BY <3>1, <3>2, <3>3
  <2>4. CASE bf[k].blk # b
    <3>1. k # h /\ bg[k] = bf[k]
      BY <1>2, <2>4
    <3>2. ASSUME NEW g \in Handle, bg[g].blk = bg[k].blk PROVE Apart(bg, g, k)
      <4>1. g # h /\ bg[g] = bf[g]
        BY <1>2, <1>3, <2>4, <3>1, <3>2
      <4> QED
        BY <2>2, <3>1, <3>2, <4>1 DEF Apart
    <3> QED
      BY <1>5, <2>1, <2>2, <2>4, <3>1, <3>2
  <2> QED
    BY <2>3, <2>4
<1> QED
  BY <1>9, <1>10, <1>o DEF SpaceOK, Full

(* One header less, and one more to the same bytes.                        *)
LEMMA SpaceDrop ==
  ASSUME NEW bf \in [Handle -> BufType], NEW fo, NEW curr, SpaceOK(bf, fo, curr), NEW h \in Handle
  PROVE  SpaceOK([bf EXCEPT ![h] = NoBuf], fo, curr)
<1>1. NoBuf.blk = NoBlk
  BY DEF NoBuf
<1> QED
  BY <1>1 DEF SpaceOK, Apart

LEMMA SpaceShare ==
  ASSUME NEW bf \in [Handle -> BufType], NEW fo, NEW curr, SpaceOK(bf, fo, curr),
         NEW h \in Handle, NEW h2 \in Handle, bf[h].blk # NoBlk, ~bf[h].tail, bf[h2].blk = NoBlk
  PROVE  SpaceOK([bf EXCEPT ![h2] = bf[h]], fo, curr)
<1> DEFINE bg == [bf EXCEPT ![h2] = bf[h]]
           o(k) == IF k = h2 THEN h ELSE k
<1>1. \A k \in Handle : bg[k] = bf[o(k)] /\ o(k) \in Handle
  OBVIOUS
<1>2. ASSUME NEW k \in Handle, bg[k].blk # NoBlk, NEW g \in Handle, bg[g].blk = bg[k].blk
      PROVE  Apart(bg, g, k)
  <2>1. Apart(bf, o(g), o(k))
    BY <1>1, <1>2 DEF SpaceOK
  <2>2. CASE o(g) = o(k)
    <3>1. g # k => bg[g] = bf[h] /\ bg[k] = bf[h]
      BY <1>1, <2>2
    <3> QED
      BY <3>1 DEF Apart
  <2>3. CASE o(g) # o(k)
    BY <1>1, <2>1, <2>3 DEF Apart
  <2> QED
    BY <2>2, <2>3
<1> HIDE DEF bg
<1> QED
  BY <1>1, <1>2 DEF SpaceOK, bg

(* Offsets of blocks without buffers, and the current block.               *)
LEMMA SpaceFree ==
  ASSUME NEW bf \in [Handle -> BufType], NEW fo, NEW fo2, NEW curr, NEW curr2, SpaceOK(bf, fo, curr),
         \A h \in Handle : bf[h].blk # NoBlk =>
           fo2[bf[h].blk] = fo[bf[h].blk] /\ (bf[h].tail => bf[h].blk # curr2)
  PROVE  SpaceOK(bf, fo2, curr2)
  BY DEF SpaceOK


(* The invariant: the space of the buffers, and what an allocation under   *)
(* way has in its hands.                                                   *)
CarveInv ==
  \A t \in Thread :
    /\ call[t].len <= MaxBufSize
    /\ pc[t] = "carve" => u32CurrFreeOff[call[t].blk] = 0

SpaceInv == SpaceOK(buf, u32CurrFreeOff, pstCurrBlk) /\ CarveInv

LEMMA SpaceTypes ==
  ASSUME TypeInv
  PROVE  /\ buf \in [Handle -> BufType] /\ u32CurrFreeOff \in [Blk -> Nat]
         /\ \A h \in Handle : buf[h] \in BufType
         /\ \A t \in Thread : call[t].len \in Nat
         /\ MaxBufSize \in Nat /\ MaxBufSize + BufHdr = BlkSize /\ MaxBufSize - BufHdr \in Nat
  BY SizeAssumption DEF TypeInv, TypeOK, CallType, MaxBufSize

(* A block with count zero has no header, and a referenced one nobody who  *)
(* takes or returns it.                                                    *)
LEMMA BareBlk ==
  ASSUME TypeInv, NEW b \in Blk, Cardinality(BufsOf(b)) = 0
  PROVE  \A h \in Handle : buf[h].blk # b
<1>1. BufsOf(b) = {}
  BY RefTypes, PointingFinite, FS_EmptySet
<1> QED
  BY <1>1 DEF BufsOf

LEMMA NobodyMoves ==
  ASSUME TypeInv, RefInv, NEW b \in Blk, stRef[b] > 0, NEW t \in Thread, pc[t] \in {"carve", "put"}
  PROVE  call[t].blk # b
<1>1. Movers(b) = {}
  BY RefTypes DEF RefInv, PlaceInv
<1> QED
  BY <1>1 DEF Movers

LEMMA CurrCounted ==
  ASSUME TypeInv, RefInv, pstCurrBlk \in Blk
  PROVE  stRef[pstCurrBlk] > 0
  BY RefTypes DEF RefInv, RefsCounted

(* Threads that go on as they were.                                        *)
LEMMA CarveFrame ==
  ASSUME CarveInv, NEW t \in Thread, call'[t].len <= MaxBufSize,
         pc'[t] = "carve" => u32CurrFreeOff'[call'[t].blk] = 0,
         \A u \in Thread \ {t} :
           /\ call'[u] = call[u]
           /\ pc'[u] = pc[u] \/ (pc[u] = "sleep" /\ pc'[u] = "check")
           /\ pc[u] = "carve" => u32CurrFreeOff'[call[u].blk] = u32CurrFreeOff[call[u].blk]
  PROVE  CarveInv'
<1>1. ASSUME NEW u \in Thread
      PROVE  call'[u].len <= MaxBufSize /\ (pc'[u] = "carve" => u32CurrFreeOff'[call'[u].blk] = 0)
  <2>1. CASE u = t
    BY <2>1
  <2>2. CASE u # t
    BY <2>2 DEF CarveInv
  <2> QED
    BY <2>1, <2>2
<1> QED
  BY <1>1 DEF CarveInv, MaxBufSize

LEMMA AllocFromCurrSpace ==
  ASSUME TypeInv, RefInv, SpaceInv, NEW t \in Thread, NEW h \in Handle, AllocFromCurr(t, h)
  PROVE  SpaceInv'
<1> DEFINE b == pstCurrBlk
           off == u32CurrFreeOff[b]
           len == call[t].len
<1> USE NullAssumption, SizeAssumption
<1>0. PICK last \in BOOLEAN : last = FALSE
  OBVIOUS
<1>1. b \in Blk /\ off \in Nat /\ len \in Nat /\ off + BufHdr + len <= BlkSize /\ buf[h].blk = NoBlk
  BY SpaceTypes DEF TypeInv, TypeOK, AllocFromCurr, FitsCurr, CurrSeen, Live
<1>2. /\ buf' = [buf EXCEPT ![h] = NewBuf(b, off, len, last)]
      /\ u32CurrFreeOff' = [u32CurrFreeOff EXCEPT ![b] = off + BufHdr + len]
      /\ pstCurrBlk' = b
  BY <1>0, <1>1 DEF TypeInv, TypeOK, AllocFromCurr, CurrSeen
<1>3. Full(buf, b, off)
  BY <1>1 DEF SpaceInv, SpaceOK, Beside, Full
<1>4. SpaceOK(buf', u32CurrFreeOff', pstCurrBlk')
  <2>1. PICK n \in Nat : n = off + BufHdr + len /\ n <= BlkSize
    BY <1>1
  <2>2. /\ buf'[h] = NewBuf(b, off, len, last) /\ Beside(Handle, h, buf, buf')
        /\ u32CurrFreeOff'[b] = n /\ Beside(Blk, b, u32CurrFreeOff, u32CurrFreeOff')
    BY <1>1, <1>2, <2>1, SpaceTypes DEF Beside, Full
  <2>3. SpaceOK(buf, u32CurrFreeOff, b) /\ off + BufHdr + len <= n /\ (last => b # b)
    BY <1>0, <2>1 DEF SpaceInv
  <2>t. buf \in [Handle -> BufType] /\ u32CurrFreeOff \in [Blk -> Nat]
    BY SpaceTypes
  <2> HIDE DEF b, off, len
  <2>4. SpaceOK(buf', u32CurrFreeOff', b)
    BY ONLY <1>0, <1>1, <1>3, <2>1, <2>2, <2>3, <2>t, h \in Handle, SpaceAdd
  <2> QED
    BY <1>2, <2>4
<1>5. CarveInv'
  <2>1. call'[t].len <= MaxBufSize
    BY SpaceTypes DEF SpaceInv, CarveInv, TypeInv, TypeOK, CallType, AllocFromCurr, CallAfter, NoCall
  <2>2. pc'[t] # "carve"
    BY DEF TypeInv, TypeOK, AllocFromCurr, AfterAlloc, WakeAll
  <2>3. \A u \in Thread \ {t} :
          /\ call'[u] = call[u]
          /\ pc'[u] = pc[u] \/ (pc[u] = "sleep" /\ pc'[u] = "check")
    BY DEF TypeInv, TypeOK, AllocFromCurr, CallAfter, WakeAll
  <2>4. \A u \in Thread : pc[u] = "carve" => u32CurrFreeOff'[call[u].blk] = u32CurrFreeOff[call[u].blk]
    BY <1>1, <1>2, NobodyMoves, CurrCounted DEF TypeInv, TypeOK, CallInv, CallOK
  <2> QED
    BY <2>1, <2>2, <2>3, <2>4, CarveFrame DEF SpaceInv
<1> QED
  BY <1>4, <1>5 DEF SpaceInv

LEMMA AllocFromNewSpace ==
  ASSUME TypeInv, RefInv, SpaceInv, NEW t \in Thread, NEW h \in Handle, NEW b \in Blk, AllocFromNew(t, h, b)
  PROVE  SpaceInv'
<1> DEFINE len == call[t].len
<1> USE NullAssumption, SizeAssumption
<1>0. PICK last \in BOOLEAN : last = FALSE
  OBVIOUS
<1>1. len \in Nat /\ len <= MaxBufSize /\ BufHdr + len <= BlkSize /\ buf[h].blk = NoBlk /\ b \in FreeAfter(t)
  BY SpaceTypes DEF SpaceInv, CarveInv, AllocFromNew, Live
<1>2. /\ buf' = [buf EXCEPT ![h] = NewBuf(b, 0, len, last)]
      /\ u32CurrFreeOff' = [u32CurrFreeOff EXCEPT ![b] = BufHdr + len]
      /\ pstCurrBlk' = b
  BY <1>0 DEF AllocFromNew
<1>3. Cardinality(BufsOf(b)) = 0 /\ Movers(b) = {}
  BY <1>1, PutCurr, RefTypes
<1>4. \A g \in Handle : buf[g].blk # b
  BY <1>3, BareBlk
<1>5. SpaceOK(buf', u32CurrFreeOff', pstCurrBlk')
  <2>1. SpaceOK(buf, u32CurrFreeOff, b)
    BY <1>4 DEF SpaceInv, SpaceOK
  <2>2. PICK n \in Nat : n = 0 + BufHdr + len /\ n <= BlkSize
    BY <1>1
  <2>3. /\ buf'[h] = NewBuf(b, 0, len, last) /\ Beside(Handle, h, buf, buf')
        /\ u32CurrFreeOff'[b] = n /\ Beside(Blk, b, u32CurrFreeOff, u32CurrFreeOff')
    BY <1>1, <1>2, <2>2, SpaceTypes DEF Beside, Full
  <2>4. /\ 0 + BufHdr + len <= n /\ (last => b # b) /\ 0 \in Nat
        /\ Full(buf, b, 0)
    BY <1>0, <1>4, <2>2 DEF Beside, Full
  <2>t. buf \in [Handle -> BufType] /\ u32CurrFreeOff \in [Blk -> Nat]
    BY SpaceTypes
  <2> HIDE DEF len
  <2>5. SpaceOK(buf', u32CurrFreeOff', b)
    BY ONLY <1>0, <1>1, <2>1, <2>2, <2>3, <2>4, <2>t, h \in Handle, b \in Blk, SpaceAdd
  <2> QED
    BY <1>2, <2>5
<1>6. CarveInv'
  <2>1. call'[t].len <= MaxBufSize
    BY SpaceTypes DEF SpaceInv, CarveInv, TypeInv, TypeOK, CallType, AllocFromNew, CallAfter, NoCall
  <2>2. pc'[t] # "carve"
    BY DEF TypeInv, TypeOK, AllocFromNew, AfterAlloc, WakeAll
  <2>3. \A u \in Thread \ {t} :
          /\ call'[u] = call[u]
          /\ pc'[u] = pc[u] \/ (pc[u] = "sleep" /\ pc'[u] = "check")
    BY DEF TypeInv, TypeOK, AllocFromNew, CallAfter, WakeAll
  <2>4. \A u \in Thread : pc[u] = "carve" => u32CurrFreeOff'[call[u].blk] = u32CurrFreeOff[call[u].blk]
    BY <1>2, <1>3 DEF TypeInv, TypeOK, CallInv, CallOK, Movers
  <2> QED
    BY <2>1, <2>2, <2>3, <2>4, CarveFrame DEF SpaceInv
<1> QED
  BY <1>5, <1>6 DEF SpaceInv

LEMMA AllocPrivBlkSpace ==
  ASSUME TypeInv, RefInv, SpaceInv, NEW t \in Thread, NEW b \in Blk, AllocPrivBlk(t, b)
  PROVE  SpaceInv'
<1>1. /\ b \in stFreeHead /\ buf' = buf /\ pstCurrBlk' = pstCurrBlk
      /\ u32CurrFreeOff' = [u32CurrFreeOff EXCEPT ![b] = 0]
      /\ pc' = [pc EXCEPT ![t] = "carve"] /\ call' = [call EXCEPT ![t].blk = b]
  BY DEF AllocPrivBlk
<1>2. stRef[b] = 0 /\ Movers(b) = {}
  BY <1>1 DEF RefInv, PlaceInv
<1>3. Cardinality(BufsOf(b)) = 0
  BY <1>2, RefTypes DEF RefInv, RefsCounted
<1>4. \A g \in Handle : buf[g].blk # b
  BY <1>3, BareBlk
<1>5. SpaceOK(buf', u32CurrFreeOff', pstCurrBlk')
  <2>1. \A h \in Handle : buf[h].blk # NoBlk =>
          /\ u32CurrFreeOff'[buf[h].blk] = u32CurrFreeOff[buf[h].blk]
          /\ buf[h].tail => buf[h].blk # pstCurrBlk
    BY <1>1, <1>4, SpaceTypes DEF SpaceInv, SpaceOK, BufType
  <2>2. SpaceOK(buf, u32CurrFreeOff', pstCurrBlk)
    BY <2>1 DEF SpaceInv, SpaceOK
  <2> QED
    BY <1>1, <2>2
<1>6. CarveInv'
  <2>1. call'[t].len = call[t].len /\ call'[t].blk = b /\ u32CurrFreeOff'[b] = 0
    BY <1>1 DEF TypeInv, TypeOK, CallType
  <2>2. \A u \in Thread \ {t} : call'[u] = call[u] /\ pc'[u] = pc[u]
    BY <1>1 DEF TypeInv, TypeOK
  <2>3. \A u \in Thread : pc[u] = "carve" => u32CurrFreeOff'[call[u].blk] = u32CurrFreeOff[call[u].blk]
    BY <1>1, <1>2 DEF TypeInv, TypeOK, CallInv, CallOK, Movers
  <2> QED
    BY <2>1, <2>2, <2>3, CarveFrame DEF SpaceInv, CarveInv
<1> QED
  BY <1>5, <1>6 DEF SpaceInv

LEMMA CarvePrivBufSpace ==
  ASSUME TypeInv, RefInv, SpaceInv, NEW t \in Thread, NEW h \in Handle, CarvePrivBuf(t, h)
  PROVE  SpaceInv'
<1> USE NullAssumption, SizeAssumption
<1>0. PICK last \in BOOLEAN : last = TRUE
  OBVIOUS
<1>1. PICK b \in Blk : b = call[t].blk /\ pc[t] = "carve" /\ u32CurrFreeOff[b] = 0
  BY DEF TypeInv, CallInv, CallOK, CarvePrivBuf, SpaceInv, CarveInv
<1>2. PICK len \in Nat : len = call[t].len /\ len <= MaxBufSize /\ BufHdr + len <= BlkSize
  BY SpaceTypes DEF SpaceInv, CarveInv
<1>3. /\ buf' = [buf EXCEPT ![h] = NewBuf(b, 0, len, last)] /\ buf[h].blk = NoBlk
      /\ u32CurrFreeOff' = [u32CurrFreeOff EXCEPT ![b] = BufHdr + len]
      /\ pstCurrBlk' = pstCurrBlk /\ pc' = [pc EXCEPT ![t] = "idle"] /\ call' = [call EXCEPT ![t] = NoCall]
  <2>1. buf' = [buf EXCEPT ![h] = NewBuf(b, 0, len, TRUE)]
    BY <1>1, <1>2, SpaceTypes DEF CarvePrivBuf, Live
  <2> QED
    BY <1>0, <1>1, <1>2, <2>1, SpaceTypes DEF CarvePrivBuf, Live
<1>4. t \in Movers(b)
  BY <1>1 DEF Movers
<1>5. stRef[b] = 0
  BY <1>4 DEF RefInv, PlaceInv
<1>6. Cardinality(BufsOf(b)) = 0 /\ pstCurrBlk # b
  BY <1>5, RefTypes DEF RefInv, RefsCounted
<1>7. \A g \in Handle : buf[g].blk # b
  BY <1>6, BareBlk
<1>8. SpaceOK(buf', u32CurrFreeOff', pstCurrBlk')
  <2>1. PICK n \in Nat : n = 0 + BufHdr + len /\ n <= BlkSize
    BY <1>2
  <2>2. /\ buf'[h] = NewBuf(b, 0, len, last) /\ Beside(Handle, h, buf, buf')
        /\ u32CurrFreeOff'[b] = n /\ Beside(Blk, b, u32CurrFreeOff, u32CurrFreeOff')
    BY <1>2, <1>3, <2>1, SpaceTypes DEF Beside, Full
  <2>3. /\ 0 + BufHdr + len <= n /\ (last => b # pstCurrBlk) /\ 0 \in Nat
        /\ SpaceOK(buf, u32CurrFreeOff, pstCurrBlk) /\ buf[h].blk = NoBlk
        /\ Full(buf, b, 0)
    BY <1>0, <1>3, <1>6, <1>7, <2>1 DEF SpaceInv, Beside, Full
  <2>t. buf \in [Handle -> BufType] /\ u32CurrFreeOff \in [Blk -> Nat]
    BY SpaceTypes
  <2>u. last \in BOOLEAN /\ len \in Nat /\ b \in Blk /\ h \in Handle /\ BlkSize \in Nat
    BY <1>0, <1>2
  <2>4. SpaceOK(buf', u32CurrFreeOff', pstCurrBlk)
    BY ONLY <2>1, <2>2, <2>3, <2>t, <2>u, SpaceAdd
  <2> QED
    BY <1>3, <2>4
<1>9. CarveInv'
  <2>1. call'[t].len <= MaxBufSize /\ pc'[t] # "carve"
    BY <1>3, SpaceTypes DEF TypeInv, TypeOK, NoCall
  <2>2. \A u \in Thread \ {t} : call'[u] = call[u] /\ pc'[u] = pc[u]
    BY <1>3 DEF TypeInv, TypeOK
  <2>3. \A u \in Thread \ {t} : pc[u] = "carve" => call[u].blk # b
    BY <1>4 DEF RefInv, PlaceInv, Movers
  <2>4. \A u \in Thread \ {t} : pc[u] = "carve" => u32CurrFreeOff'[call[u].blk] = u32CurrFreeOff[call[u].blk]
    BY <1>3, <2>3 DEF TypeInv, TypeOK, CallInv, CallOK
  <2> QED
    BY <2>1, <2>2, <2>4, CarveFrame DEF SpaceInv
<1> QED
  BY <1>8, <1>9 DEF SpaceInv

LEMMA TrimBufLenSpace ==
  ASSUME TypeInv, RefInv, SpaceInv, NEW t \in Thread, NEW h \in Handle, NEW h2 \in Handle, NEW len \in Nat,
         TrimBufLen(t, h, len, h2)
  PROVE  SpaceInv'
<1> USE NullAssumption, SizeAssumption
<1>1. PICK b \in Blk : b = buf[h].blk
  BY SpaceTypes DEF TrimBufLen, Owned, Live, BufType
<1>2. buf[h].tail /\ len <= buf[h].len /\ buf[h2].blk = NoBlk /\ buf[h].off \in Nat /\ b # pstCurrBlk
  BY <1>1, SpaceTypes, HeaderTypes DEF TrimBufLen, Live, SpaceInv, SpaceOK
<1>3. PICK off \in Nat : off = buf[h].off + BufHdr + len
  BY <1>2
<1>g. PICK bg : bg = [buf EXCEPT ![h].len = len, ![h].tail = FALSE]
  OBVIOUS
<1>h. PICK fo : fo = [u32CurrFreeOff EXCEPT ![b] = off]
  OBVIOUS
<1>a. fo[b] = off /\ Beside(Blk, b, u32CurrFreeOff, fo) /\ fo \in [Blk -> Nat]
  BY <1>3, <1>h, SpaceTypes DEF Beside, Full
<1>b. /\ bg[h] \in BufType /\ bg[h].blk = b /\ bg[h].off = buf[h].off /\ bg[h].len = len /\ ~bg[h].tail
      /\ bg[h].len <= buf[h].len
      /\ Beside(Handle, h, buf, bg)
      /\ bg \in [Handle -> BufType]
  <2>1. buf[h] \in BufType /\ bg[h] = [buf[h] EXCEPT !.len = len, !.tail = FALSE]
    BY <1>g, SpaceTypes
  <2>2. bg[h] \in BufType
    BY <2>1 DEF BufType
  <2> QED
    BY <1>1, <1>2, <1>g, <2>1, <2>2, SpaceTypes DEF BufType
<1>c. /\ buf[h].blk = b /\ SpaceOK(buf, u32CurrFreeOff, pstCurrBlk)
      /\ buf \in [Handle -> BufType] /\ u32CurrFreeOff \in [Blk -> Nat]
  BY <1>1, SpaceTypes DEF SpaceInv
<1>d. fo[b] = End(bg[h]) /\ End(bg[h]) = off
  BY <1>3, <1>a, <1>b DEF End
<1>f. /\ buf \in [Handle -> BufType] /\ u32CurrFreeOff \in [Blk -> Nat] /\ SpaceOK(buf, u32CurrFreeOff, pstCurrBlk)
      /\ h \in Handle /\ b \in Blk /\ buf[h].blk = b /\ buf[h].tail
      /\ bg[h] \in BufType /\ bg[h].blk = b /\ bg[h].off = buf[h].off /\ bg[h].len <= buf[h].len /\ ~bg[h].tail
      /\ Beside(Handle, h, buf, bg)
      /\ fo[b] = End(bg[h]) /\ Beside(Blk, b, u32CurrFreeOff, fo)
  BY <1>1, <1>2, <1>a, <1>b, <1>c, <1>d
<1>e. SpaceOK(bg, fo, pstCurrBlk) /\ Full(bg, b, End(bg[h]))
  BY ONLY <1>f, SpaceCut
<1>4. /\ off <= BlkSize
      /\ \A g \in Handle : bg[g].blk = buf[g].blk
      /\ SpaceOK(bg, fo, pstCurrBlk)
      /\ Full(bg, b, off)
  <2>1. fo[b] <= BlkSize
    BY <1>1, <1>b, <1>e DEF SpaceOK
  <2> QED
    BY <1>1, <1>a, <1>b, <1>c, <1>d, <1>e, <2>1 DEF Full, Beside, Full
<1>5. pstCurrBlk' = pstCurrBlk /\ pc' = pc /\ call' = call
  BY DEF TrimBufLen
<1>6. \A c \in Blk : c # b => u32CurrFreeOff'[c] = u32CurrFreeOff[c]
  BY <1>1, SpaceTypes DEF TrimBufLen
<1>7. CarveInv'
  <2>1. stRef[b] > 0
    BY <1>1, LiveCounted
  <2>2. \A u \in Thread : pc[u] = "carve" => u32CurrFreeOff'[call[u].blk] = u32CurrFreeOff[call[u].blk]
    BY <1>6, <2>1, NobodyMoves DEF TypeInv, CallInv, CallOK
  <2> QED
    BY <1>5, <2>2 DEF SpaceInv, CarveInv
<1>8. CASE TooShort(BlkSize - off)
  <2>1. buf' = bg /\ u32CurrFreeOff' = fo
    BY <1>1, <1>3, <1>8, <1>g, <1>h DEF TrimBufLen, TrimOff
  <2> QED
    BY <1>4, <1>5, <1>7, <2>1 DEF SpaceInv
<1>9. CASE ~TooShort(BlkSize - off)
  <2>1. PICK rest \in Nat : rest = BlkSize - off - BufHdr
    BY <1>4, <1>9 DEF TooShort
  <2>l. PICK last \in BOOLEAN : last = TRUE
    OBVIOUS
  <2>2. /\ buf' = [bg EXCEPT ![h2] = NewBuf(b, off, rest, last)]
        /\ u32CurrFreeOff' = [u32CurrFreeOff EXCEPT ![b] = BlkSize]
    BY <1>1, <1>3, <1>9, <1>g, <2>1, <2>l DEF TrimBufLen, TrimOff
  <2>3. /\ buf'[h2] = NewBuf(b, off, rest, last) /\ Beside(Handle, h2, bg, buf')
        /\ u32CurrFreeOff'[b] = BlkSize /\ Beside(Blk, b, fo, u32CurrFreeOff')
    BY <1>4, <1>a, <1>b, <2>2, SpaceTypes DEF Beside, Full
  <2>4. (last => b # pstCurrBlk) /\ off + BufHdr + rest <= BlkSize /\ bg[h2].blk = NoBlk /\ BlkSize \in Nat /\ BlkSize <= BlkSize
    BY <1>2, <1>4, <2>1
  <2>6. last \in BOOLEAN /\ off \in Nat /\ rest \in Nat /\ b \in Blk /\ bg \in [Handle -> BufType] /\ fo \in [Blk -> Nat]
    BY <1>1, <1>3, <1>a, <1>b, <2>1, <2>l
  <2>5. SpaceOK(buf', u32CurrFreeOff', pstCurrBlk)
    BY ONLY <1>4, <2>3, <2>4, <2>6, h2 \in Handle, SpaceAdd
  <2> QED
    BY <1>5, <1>7, <2>5 DEF SpaceInv
<1> QED
  BY <1>8, <1>9

LEMMA ShareBufSpace ==
  ASSUME TypeInv, SpaceInv, NEW t \in Thread, NEW h \in Handle, NEW h2 \in Handle, ShareBuf(t, h, h2)
  PROVE  SpaceInv'
<1>1. /\ buf' = [buf EXCEPT ![h2] = buf[h]] /\ UNCHANGED << u32CurrFreeOff, pstCurrBlk, pc, call >>
      /\ buf[h].blk # NoBlk /\ ~buf[h].tail /\ buf[h2].blk = NoBlk
  BY DEF ShareBuf, Owned, Live
<1>2. SpaceOK([buf EXCEPT ![h2] = buf[h]], u32CurrFreeOff, pstCurrBlk)
  BY <1>1, SpaceTypes, SpaceShare DEF SpaceInv
<1> QED
  BY <1>1, <1>2 DEF SpaceInv, CarveInv

LEMMA FreeBufSpace ==
  ASSUME TypeInv, SpaceInv, NEW t \in Thread, NEW h \in Handle, FreeBuf(t, h)
  PROVE  SpaceInv'
<1>1. buf' = [buf EXCEPT ![h] = NoBuf] /\ UNCHANGED << u32CurrFreeOff, pstCurrBlk >>
  BY DEF FreeBuf
<1>2. SpaceOK(buf', u32CurrFreeOff', pstCurrBlk')
  <2>1. SpaceOK([buf EXCEPT ![h] = NoBuf], u32CurrFreeOff, pstCurrBlk)
    BY SpaceTypes, SpaceDrop DEF SpaceInv
  <2> QED
    BY <1>1, <2>1
<1>3. CarveInv'
  <2>1. pc'[t] # "carve" /\ call'[t].len = call[t].len
    BY DEF FreeBuf, TypeInv, TypeOK, CallType
  <2>2. \A u \in Thread \ {t} : call'[u] = call[u] /\ pc'[u] = pc[u]
    BY DEF FreeBuf, TypeInv, TypeOK
  <2> QED
    BY <1>1, <2>1, <2>2, CarveFrame DEF SpaceInv, CarveInv
<1> QED
  BY <1>2, <1>3 DEF SpaceInv

(* The steps that touch neither headers nor offsets.                       *)
LEMMA QuietSpace ==
  ASSUME TypeInv, SpaceInv, NEW t \in Thread, UNCHANGED << buf, u32CurrFreeOff >>,
         pstCurrBlk' \in {pstCurrBlk, NoBlk}, call'[t].len <= MaxBufSize, pc'[t] # "carve",
         \A u \in Thread \ {t} :
           /\ call'[u] = call[u]
           /\ pc'[u] = pc[u] \/ (pc[u] = "sleep" /\ pc'[u] = "check")
  PROVE  SpaceInv'
<1>1. SpaceOK(buf, u32CurrFreeOff, pstCurrBlk')
  BY SpaceFree DEF SpaceInv, SpaceOK
<1>2. CarveInv'
  BY CarveFrame DEF SpaceInv
<1> QED
  BY <1>1, <1>2 DEF SpaceInv

LEMMA SpaceStep == TypeInv /\ RefInv /\ SpaceInv /\ [Next]_vars => SpaceInv'
<1> SUFFICES ASSUME TypeInv, RefInv, SpaceInv, [Next]_vars PROVE SpaceInv'
  OBVIOUS
<1>1. ASSUME NEW t \in Thread PROVE NoCall.len <= MaxBufSize /\ call[t].len <= MaxBufSize
  BY SpaceTypes DEF NoCall, SpaceInv, CarveInv
<1>2. ASSUME NEW t \in Thread, Proceed(t) PROVE SpaceInv'
  <2>1. CASE AllocBufNoBlk(t)
    <3>1. pc'[t] # "carve" /\ call'[t] \in {call[t], NoCall}
          /\ \A u \in Thread \ {t} :
                call'[u] = call[u] /\ (pc'[u] = pc[u] \/ (pc[u] = "sleep" /\ pc'[u] = "check"))
      BY <2>1 DEF AllocBufNoBlk, TypeInv, TypeOK, WakeAll
    <3> QED
      BY <1>1, <2>1, <3>1, QuietSpace DEF AllocBufNoBlk, CurrAfter
  <2>2. CASE AllocPrivNoBlk(t) \/ WaitCheck(t) \/ WaitAgain(t) \/ FreeBlk(t) \/ WakeUpAll(t) \/ CloneTmpGet(t)
    <3>1. pc'[t] # "carve" /\ call'[t] \in {call[t], NoCall}
          /\ \A u \in Thread \ {t} :
                call'[u] = call[u] /\ (pc'[u] = pc[u] \/ (pc[u] = "sleep" /\ pc'[u] = "check"))
      BY <2>2 DEF AllocPrivNoBlk, WaitCheck, WaitAgain, FreeBlk, WakeUpAll, CloneTmpGet, TypeInv, TypeOK, WakeAll
    <3>2. UNCHANGED << buf, u32CurrFreeOff, pstCurrBlk >>
      BY <2>2 DEF AllocPrivNoBlk, WaitCheck, WaitAgain, FreeBlk, WakeUpAll, CloneTmpGet
    <3> QED
      BY <1>1, <3>1, <3>2, QuietSpace
  <2> QED
    BY <1>2, <2>1, <2>2, AllocFromCurrSpace, AllocFromNewSpace, AllocPrivBlkSpace, CarvePrivBufSpace DEF Proceed
<1>3. ASSUME NEW t \in Thread, Request(t) PROVE SpaceInv'
  <2>1. ASSUME NEW op, NEW len \in Nat, NEW flag, len <= MaxBufSize, EnterAlloc(t, op, len, flag)
        PROVE  SpaceInv'
    <3>1. pc'[t] # "carve" /\ call'[t].len = len
          /\ \A u \in Thread \ {t} : call'[u] = call[u] /\ pc'[u] = pc[u]
      BY <2>1 DEF EnterAlloc, TypeInv, TypeOK, NoCall
    <3> QED
      BY <2>1, <3>1, QuietSpace DEF EnterAlloc
  <2>2. MaxBufSize - BufHdr \in Nat /\ MaxBufSize - BufHdr <= MaxBufSize
    BY SizeAssumption, SpaceTypes
  <2>3. CASE \E len \in Lens, flag \in Flags : CallAllocBuf(t, len, flag)
    BY <2>1, <2>3, LensAssumption DEF CallAllocBuf
  <2>4. CASE \E flag \in Flags : CallAllocPrivBuf(t, flag)
    BY <2>1, <2>2, <2>4 DEF CallAllocPrivBuf
  <2>5. CASE \E len \in Lens : CallCloneTmpBuf(t, len)
    BY <2>1, <2>5, LensAssumption DEF CallCloneTmpBuf
  <2>6. CASE InitTmpBuf(t) \/ DropTmpBuf(t)
    <3>1. UNCHANGED << buf, u32CurrFreeOff, pstCurrBlk, pc, call >> /\ pc[t] = "idle"
      BY <2>6 DEF InitTmpBuf, DropTmpBuf
    <3> QED
      BY <1>1, <3>1, QuietSpace
  <2>7. CASE \E h, h2 \in Handle, len \in Lens : TrimBufLen(t, h, len, h2)
    BY <2>7, LensAssumption, TrimBufLenSpace
  <2> QED
    BY <1>3, <2>3, <2>4, <2>5, <2>6, <2>7, ShareBufSpace, FreeBufSpace DEF Request
<1>4. CASE UNCHANGED vars
  BY <1>4 DEF vars, SpaceInv, CarveInv
<1> QED
  BY <1>2, <1>3, <1>4 DEF Next

LEMMA SpaceInit == Init => SpaceInv
  BY SizeAssumption DEF Init, SpaceInv, SpaceOK, CarveInv, NoBuf, NoCall, MaxBufSize

(* Two headers into a block show the same bytes or disjoint ones, and no   *)
(* buffer reaches over the free offset of its block or the block's end,    *)
(* whatever FDD_AllocBuf, FDD_AllocPrivBuf and FDD_TrimBufLen carve and    *)
(* FDD_CloneBuf shares.                                                    *)
THEOREM BuffersApart == Spec => []BufsDisjoint
<1>1. TypeInv /\ SpaceInv => BufsDisjoint
  <2> SUFFICES ASSUME TypeInv, SpaceInv, NEW g \in Handle, NEW h \in Handle, Live(g), buf[g].blk = buf[h].blk
      PROVE  /\ buf[g].off + BufHdr + buf[g].len <= u32CurrFreeOff[buf[g].blk]
             /\ u32CurrFreeOff[buf[g].blk] <= BlkSize
             /\ \/ buf[g] = buf[h] /\ (buf[g].tail => g = h)
                \/ buf[g].off + BufHdr + buf[g].len <= buf[h].off
                \/ buf[h].off + BufHdr + buf[h].len <= buf[g].off
    BY DEF BufsDisjoint
  <2> QED
    BY DEF SpaceInv, SpaceOK, Apart, End, Live
<1>2. Init => TypeInv /\ RefInv /\ SpaceInv
  BY TypeInit, RefInit, SpaceInit
<1>3. (TypeInv /\ RefInv /\ SpaceInv) /\ [Next]_vars => (TypeInv /\ RefInv /\ SpaceInv)'
  BY TypeStep, RefStep, SpaceStep
<1> QED
  BY <1>1, <1>2, <1>3, PTL DEF Spec

=============================================================================
