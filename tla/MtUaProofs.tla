----------------------------- MODULE MtUaProofs -----------------------------
(* Proofs about MtUa: the parameters of a command in execution stay where  *)
(* they are, a command is taken at most once, and nothing is freed while   *)
(* it is executed, for any number of agents, threads and commands.         *)
EXTENDS MtUa, TLAPS

Waiting == exec.pc \in {"wait", "clear"}
InFile(u) == proc[u] \in {"alive", "killed"}

(* The lock of an agent is held across calls by a thread that executes its *)
(* command, or did when it was killed.                                     *)
LockInv ==
  /\ \A t \in Thread : thr[t].pc = "user" => stLock[UaOf[t]] = t
  /\ \A u \in Ua : stLock[u] # NONE =>
       /\ UaOf[stLock[u]] = u
       /\ thr[stLock[u]].pc \in {"user", "gone"}
       /\ pstCurrEnv[u] # NONE
       /\ bCmdInExec[u]

(* An agent has a command to execute just while the kernel thread waits    *)
(* for it.                                                                 *)
EnvInv ==
  /\ Waiting => pstCurrEnv[UaOf[exec.cmd]] = exec.cmd
  /\ \A u \in Ua : pstCurrEnv[u] # NONE =>
       Waiting /\ exec.cmd = pstCurrEnv[u] /\ UaOf[exec.cmd] = u
  /\ \A t \in Thread : thr[t].pc = "user" => thr[t].cmd = pstCurrEnv[UaOf[t]]

(* A command that was taken is not ready, or its agent is locked or has no *)
(* thread any more.                                                        *)
OnceInv ==
  /\ exec.ran \in {0, 1}
  /\ exec.pc = "begin" => exec.ran = 0
  /\ exec.ran = 1 => LET u == UaOf[exec.cmd]
                     IN ~bReady[u] \/ stLock[u] # NONE \/ ~InFile(u)

(* What is registered belongs to an agent that has not been taken out of   *)
(* the registry, and its threads are in the file.                          *)
FileInv ==
  /\ \A t \in Thread : thr[t].pc # "gone" => InFile(UaOf[t])
  /\ \A t \in Thread : thr[t].pc \in {"reg", "regmgr"} => UaOf[thr[t].cmd] = UaOf[t]
  /\ \A t \in Thread : thr[t].pc = "regmgr" => thr[t].cmd \in stEnvHead
  /\ \A c \in cls : proc[UaOf[c]] \notin {"envs", "none"}
  /\ NoneFreed

UaInv == TypeOK /\ LockInv /\ EnvInv /\ OnceInv /\ FileInv

USE UaOfAssumption, NoneAssumption

LEMMA InitInv == Init => UaInv
  BY DEF Init, UaInv, TypeOK, LockInv, EnvInv, OnceInv, FileInv, NoneFreed,
         Waiting, InFile, NoExec, Gone

(* The invariant says of the next state what it says of this one when a    *)
(* step leaves its variables alone.                                        *)
LEMMA StutterInv == UaInv /\ UNCHANGED vars => UaInv'
  BY DEF vars, uaVars, UaInv, TypeOK, LockInv, EnvInv, OnceInv, FileInv, NoneFreed,
         Waiting, InFile, NoExec

LEMMA OpenInv == ASSUME UaInv, NEW u \in Ua, OpenUa(u) PROVE UaInv'
  BY DEF OpenUa, uaVars, UaInv, TypeOK, LockInv, EnvInv, OnceInv, FileInv, NoneFreed,
         Waiting, InFile, NoExec, Outside, GlobalFree

LEMMA KillInv == ASSUME UaInv, NEW u \in Ua, Kill(u) PROVE UaInv'
  BY DEF Kill, uaVars, UaInv, TypeOK, LockInv, EnvInv, OnceInv, FileInv, NoneFreed,
         Waiting, InFile, NoExec, Gone

LEMMA ExecUserInv == ASSUME UaInv, NEW c \in Cmd, ExecUserInputCmd(c) PROVE UaInv'
  BY DEF ExecUserInputCmd, uaVars, UaInv, TypeOK, LockInv, EnvInv, OnceInv, FileInv, NoneFreed,
         Waiting, InFile, NoExec, GlobalFree

LEMMA BeginInv == ASSUME UaInv, ExecBegin PROVE UaInv'
  BY DEF ExecBegin, UaInv, TypeOK, LockInv, EnvInv, OnceInv, FileInv, NoneFreed,
         Waiting, InFile, NoExec, Free

LEMMA WaitedInv == ASSUME UaInv, ExecWaited PROVE UaInv'
  BY DEF ExecWaited, uaVars, UaInv, TypeOK, LockInv, EnvInv, OnceInv, FileInv, NoneFreed,
         Waiting, InFile, NoExec

LEMMA ClearInv == ASSUME UaInv, ExecClear PROVE UaInv'
  BY DEF ExecClear, UaInv, TypeOK, LockInv, EnvInv, OnceInv, FileInv, NoneFreed,
         Waiting, InFile, NoExec, LockFree, Free

LEMMA CallInv == ASSUME UaInv, NEW t \in Thread,
                        GetExecParam(t) \/ \E c \in Cmd : RegCmdLine(t, c)
                 PROVE UaInv'
  BY SMTT(30) DEF GetExecParam, RegCmdLine, Call, uaVars, UaInv, TypeOK, LockInv, EnvInv, OnceInv,
         FileInv, NoneFreed, Waiting, InFile, NoExec

LEMMA GetFailsInv == ASSUME UaInv, NEW t \in Thread, GetFails(t) PROVE UaInv'
  BY DEF GetFails, uaVars, UaInv, TypeOK, LockInv, EnvInv, OnceInv, FileInv, NoneFreed,
         Waiting, InFile, NoExec, Back, Outside, Gone

LEMMA GetParamInv == ASSUME UaInv, NEW t \in Thread, GetParam(t) PROVE UaInv'
  BY DEF GetParam, UaInv, TypeOK, LockInv, EnvInv, OnceInv, FileInv, NoneFreed,
         Waiting, InFile, NoExec, Back, Gone, Free, Asked

LEMMA EndInv == ASSUME UaInv, NEW t \in Thread, EndExec(t) PROVE UaInv'
  BY DEF EndExec, UaInv, TypeOK, LockInv, EnvInv, OnceInv, FileInv, NoneFreed,
         Waiting, InFile, NoExec, Outside, ReadyAfter

LEMMA RegInv == ASSUME UaInv, NEW t \in Thread, RegEnv(t) \/ RegUsrCmdLine(t) PROVE UaInv'
  BY SMTT(30) DEF RegEnv, RegUsrCmdLine, uaVars, UaInv, TypeOK, LockInv, EnvInv, OnceInv, FileInv,
         NoneFreed, Waiting, InFile, NoExec, Back, Outside, Gone

LEMMA FreeUaInv == ASSUME UaInv, NEW u \in Ua, FreeUa(u) PROVE UaInv'
  BY DEF FreeUa, Released, LockGiven, ThreadsOf, UaInv, TypeOK, LockInv, EnvInv, OnceInv,
         FileInv, NoneFreed, Waiting, InFile, NoExec

LEMMA FinishInv == ASSUME UaInv, NEW u \in Ua, FreeUaFinish(u) PROVE UaInv'
  BY DEF FreeUaFinish, Released, UaInv, TypeOK, LockInv, EnvInv, OnceInv,
         FileInv, NoneFreed, Waiting, InFile, NoExec

LEMMA UnRegInv == ASSUME UaInv, NEW u \in Ua, UnRegMt(u) PROVE UaInv'
  BY DEF UnRegMt, MgrFree, GlobalFree, CmdsOf, Released, UaInv, TypeOK, LockInv, EnvInv,
         OnceInv, FileInv, NoneFreed, Waiting, InFile, NoExec

LEMMA FreeEnvsInv == ASSUME UaInv, NEW u \in Ua, FreeEnvs(u) PROVE UaInv'
  BY DEF FreeEnvs, CmdsOf, Released, UaInv, TypeOK, LockInv, EnvInv,
         OnceInv, FileInv, NoneFreed, Waiting, InFile, NoExec

LEMMA UaInvKept == UaInv /\ [Next]_vars => UaInv'
<1> SUFFICES ASSUME UaInv, [Next]_vars PROVE UaInv'
  OBVIOUS
<1>1. CASE UNCHANGED vars
  BY <1>1, StutterInv
<1>2. CASE \E u \in Ua : OpenUa(u) \/ Kill(u) \/ Freeing(u)
  BY <1>2, OpenInv, KillInv, FreeUaInv, FinishInv, UnRegInv, FreeEnvsInv DEF Freeing
<1>3. CASE \E c \in Cmd : ExecUserInputCmd(c)
  BY <1>3, ExecUserInv
<1>4. CASE Exec
  BY <1>4, BeginInv, WaitedInv, ClearInv DEF Exec
<1>5. CASE \E t \in Thread : \/ GetExecParam(t) \/ Locked(t) \/ EndExec(t)
                             \/ \E c \in Cmd : RegCmdLine(t, c)
  BY <1>5, CallInv, GetFailsInv, GetParamInv, EndInv, RegInv DEF Locked
<1> QED
  BY <1>1, <1>2, <1>3, <1>4, <1>5 DEF Next

LEMMA AlwaysUaInv == Spec => []UaInv
  BY InitInv, UaInvKept, PTL DEF Spec

(* The state of mt_ua.c keeps its types; a thread that executes or         *)
(* registers a command has one (mt_ua.c:152-229).                          *)
THEOREM TypesAlwaysRight == Spec => []TypeOK
<1>1. UaInv => TypeOK
  BY DEF UaInv
<1> QED
  BY <1>1, AlwaysUaInv, PTL

(* The command line and the environment of a command that a thread         *)
(* executes stay there until it reports the end (mt_ua.c:124-146, 207-240).*)
THEOREM ParamsAlwaysLive == Spec => []ParamsLive
<1>1. UaInv => ParamsLive
  BY DEF UaInv, TypeOK, LockInv, EnvInv, Waiting, ParamsLive
<1> QED
  BY <1>1, AlwaysUaInv, PTL

(* GET_EXEC_PARAM hands out a command that was asked for once at most once *)
(* (mt_ua.c:207-229).                                                      *)
THEOREM TakenAtMostOnce == Spec => []AtMostOnce
<1>1. UaInv => AtMostOnce
  BY DEF UaInv, OnceInv, AtMostOnce
<1> QED
  BY <1>1, AlwaysUaInv, PTL

(* MT_FreeUa frees no environment that the manager may still find or       *)
(* execute (mt_ua.c:27-66, mt_mgr.c:378-393).                              *)
THEOREM NothingFreedInUse == Spec => []NoneFreed
<1>1. UaInv => NoneFreed
  BY DEF UaInv, FileInv
<1> QED
  BY <1>1, AlwaysUaInv, PTL
=============================================================================
