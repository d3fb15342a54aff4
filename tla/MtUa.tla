-------------------------------- MODULE MtUa --------------------------------
(***************************************************************************)
(* The execution of commands by user agents (kern/mt/mt_ua.c, called from  *)
(* MT_ExecUserInputCmd of mt_mgr.c; the user's side is usr/lib/mt_usr.c).  *)
(*                                                                         *)
(* A terminal's command is looked up and executed with the manager's lock  *)
(* held.  A command of a user agent is executed in the agent's process:    *)
(* MT_UA_ExecCmd leaves it in the MT_UA_S and waits, a thread of the       *)
(* process takes it (GET_EXEC_PARAM), calls back and reports (END_EXEC).   *)
(* From GET_EXEC_PARAM to END_EXEC the thread holds the agent's lock while *)
(* it is out of the kernel, so that the command line it reads its values   *)
(* from, which is on the stack of the waiting kernel thread, stays there.  *)
(* If the process dies, MT_FreeUa gives the lock back.                     *)
(***************************************************************************)
EXTENDS Naturals

CONSTANTS
  Ua,        \* user agents: processes with the file mt_ua open
  Thread,    \* threads of these processes
  Cmd,       \* commands that the agents register
  UaOf,      \* the agent of a thread or a command
  Killable,  \* agents that may be killed or close their file
  NONE       \* no thread, no command

ASSUME UaOfAssumption == UaOf \in [Thread \union Cmd -> Ua]
ASSUME NoneAssumption == NONE \notin Thread \union Cmd

VARIABLES
  proc,       \* the process of an agent, or how far MT_FreeUa has got
  stLock,     \* the thread that holds an agent's lock across calls
  pstCurrEnv, \* with ulExecId: the command to be executed
  bReady, bFinish, bCmdInExec,
  stEnvHead,  \* commands that an MT_UA_EXEC_ENV_S is kept for
  cls,        \* commands the manager finds
  exec,       \* the MT_ExecUserInputCmd that holds the manager's lock
  thr         \* the threads

uaVars == <<stLock, pstCurrEnv, bReady, bFinish, bCmdInExec>>
vars == <<proc, uaVars, stEnvHead, cls, exec, thr>>

NoExec == [pc |-> "idle", cmd |-> NONE, ran |-> 0]
Outside == [pc |-> "idle", cmd |-> NONE]
Gone == [pc |-> "gone", cmd |-> NONE]

GlobalFree == exec.pc = "idle"
ThreadsOf(u) == {t \in Thread : UaOf[t] = u}
CmdsOf(u) == {c \in Cmd : UaOf[c] = u}
Free(u) == stLock[u] = NONE

Init ==
  /\ proc = [u \in Ua |-> "none"]
  /\ stLock = [u \in Ua |-> NONE]
  /\ pstCurrEnv = [u \in Ua |-> NONE]
  /\ bReady = [u \in Ua |-> FALSE]
  /\ bFinish = [u \in Ua |-> FALSE]
  /\ bCmdInExec = [u \in Ua |-> FALSE]
  /\ stEnvHead = {}
  /\ cls = {}
  /\ exec = NoExec
  /\ thr = [t \in Thread |-> Gone]

\* MT_UA_FileOpen and MT_OpenUa
OpenUa(u) ==
  /\ proc[u] = "none"
  /\ GlobalFree
  /\ proc' = [proc EXCEPT ![u] = "alive"]
  /\ thr' = [t \in Thread |-> IF UaOf[t] = u THEN Outside ELSE thr[t]]
  /\ UNCHANGED <<uaVars, stEnvHead, cls, exec>>

-----------------------------------------------------------------------------
(* The kernel thread of the terminal                                       *)

ExecUserInputCmd(c) ==
  /\ GlobalFree
  /\ c \in cls
  /\ exec' = [pc |-> "begin", cmd |-> c, ran |-> 0]
  /\ UNCHANGED <<proc, uaVars, stEnvHead, cls, thr>>

ExecBegin ==
  /\ exec.pc = "begin"
  /\ LET u == UaOf[exec.cmd]
     IN /\ Free(u)
        /\ pstCurrEnv' = [pstCurrEnv EXCEPT ![u] = exec.cmd]
        /\ bReady' = [bReady EXCEPT ![u] = TRUE]
        /\ bFinish' = [bFinish EXCEPT ![u] = FALSE]
  /\ exec' = [exec EXCEPT !.pc = "wait"]
  /\ UNCHANGED <<proc, stLock, bCmdInExec, stEnvHead, cls, thr>>

\* wait_event_timeout: bFinish, or 60 * 1000 jiffies
ExecWaited ==
  /\ exec.pc = "wait"
  /\ exec' = [exec EXCEPT !.pc = "clear"]
  /\ UNCHANGED <<proc, uaVars, stEnvHead, cls, thr>>

\* Mutants: the lock is not taken again; the command stays ready.
LockSkipped(u) == TRUE
LockFree(u) == Free(u)

ExecClear ==
  /\ exec.pc = "clear"
  /\ LET u == UaOf[exec.cmd]
     IN /\ LockFree(u)
        /\ pstCurrEnv' = [pstCurrEnv EXCEPT ![u] = NONE]
        /\ bReady' = [bReady EXCEPT ![u] = FALSE]
        /\ bFinish' = [bFinish EXCEPT ![u] = FALSE]
  /\ exec' = NoExec
  /\ UNCHANGED <<proc, stLock, bCmdInExec, stEnvHead, cls, thr>>

-----------------------------------------------------------------------------
(* The threads of an agent                                                 *)

\* A thread whose process was killed does not leave the kernel again
Back(t, where) == IF proc[UaOf[t]] = "alive" THEN where ELSE Gone

Call(t, p, c) ==
  /\ thr[t].pc = "idle"
  /\ thr' = [thr EXCEPT ![t] = [pc |-> p, cmd |-> c]]
  /\ UNCHANGED <<proc, uaVars, stEnvHead, cls, exec>>

\* MT_USR_ExecCmdLine, called when poll finds bReady, or at any time
GetExecParam(t) == Call(t, "get", NONE)

\* a command is registered once
RegCmdLine(t, c) == UaOf[c] = UaOf[t] /\ c \notin stEnvHead /\ Call(t, "reg", c)

\* GET_EXEC_PARAM has got the lock and returns with it, or finds nothing to
\* execute (or cannot write to the process's memory)
GetFails(t) ==
  /\ thr[t].pc = "get"
  /\ Free(UaOf[t])
  /\ thr' = [thr EXCEPT ![t] = Back(t, Outside)]
  /\ UNCHANGED <<proc, uaVars, stEnvHead, cls, exec>>

Asked(u) == bReady[u] /\ pstCurrEnv[u] # NONE

GetParam(t) ==
  /\ thr[t].pc = "get"
  /\ LET u == UaOf[t]
     IN /\ Free(u)
        /\ Asked(u)
        /\ stLock' = [stLock EXCEPT ![u] = t]
        /\ bCmdInExec' = [bCmdInExec EXCEPT ![u] = TRUE]
        /\ thr' = [thr EXCEPT ![t] = Back(t, [pc |-> "user", cmd |-> pstCurrEnv[u]])]
  /\ exec' = [exec EXCEPT !.ran = @ + 1]
  /\ UNCHANGED <<proc, pstCurrEnv, bReady, bFinish, stEnvHead, cls>>

ReadyAfter(u) == [bReady EXCEPT ![u] = FALSE]

EndExec(t) ==
  /\ thr[t].pc = "user"
  /\ LET u == UaOf[t]
     IN /\ bReady' = ReadyAfter(u)
        /\ bFinish' = [bFinish EXCEPT ![u] = TRUE]
        /\ bCmdInExec' = [bCmdInExec EXCEPT ![u] = FALSE]
        /\ stLock' = [stLock EXCEPT ![u] = NONE]
  /\ thr' = [thr EXCEPT ![t] = Outside]
  /\ UNCHANGED <<proc, pstCurrEnv, stEnvHead, cls, exec>>

\* MT_UA_RegCmdLine: the environment under the agent's lock, the command under
\* the manager's
RegEnv(t) ==
  /\ thr[t].pc = "reg"
  /\ Free(UaOf[t])
  /\ stEnvHead' = stEnvHead \union {thr[t].cmd}
  /\ thr' = [thr EXCEPT ![t].pc = "regmgr"]
  /\ UNCHANGED <<proc, uaVars, cls, exec>>

RegUsrCmdLine(t) ==
  /\ thr[t].pc = "regmgr"
  /\ GlobalFree
  /\ cls' = cls \union {thr[t].cmd}
  /\ thr' = [thr EXCEPT ![t] = Back(t, Outside)]
  /\ UNCHANGED <<proc, uaVars, stEnvHead, exec>>

-----------------------------------------------------------------------------
(* The end of an agent                                                     *)

\* The process is killed: its threads end but for those that wait for a lock
\* in the kernel.
Kill(u) ==
  /\ u \in Killable
  /\ proc[u] = "alive"
  /\ proc' = [proc EXCEPT ![u] = "killed"]
  /\ thr' = [t \in Thread |->
               IF UaOf[t] = u /\ thr[t].pc \in {"idle", "user"} THEN Gone ELSE thr[t]]
  /\ UNCHANGED <<uaVars, stEnvHead, cls, exec>>

Released(u, from, to) ==
  /\ proc[u] = from
  /\ proc' = [proc EXCEPT ![u] = to]
  /\ UNCHANGED <<pstCurrEnv, exec, thr>>

\* Mutant: the lock of a process that died with it is not given back.
LockKept(u) == stLock
LockGiven(u) == IF bCmdInExec[u] THEN [stLock EXCEPT ![u] = NONE] ELSE stLock

\* MT_FreeUa, called when the last thread has let go of the file
FreeUa(u) ==
  /\ \A t \in ThreadsOf(u) : thr[t].pc = "gone"
  /\ Released(u, "killed", "finish")
  /\ stLock' = LockGiven(u)
  /\ bCmdInExec' = [bCmdInExec EXCEPT ![u] = FALSE]
  /\ UNCHANGED <<bReady, bFinish, stEnvHead, cls>>

FreeUaFinish(u) ==
  /\ Released(u, "finish", "unreg")
  /\ bReady' = [bReady EXCEPT ![u] = FALSE]
  /\ bFinish' = [bFinish EXCEPT ![u] = TRUE]
  /\ UNCHANGED <<stLock, bCmdInExec, stEnvHead, cls>>

\* Mutant: the manager's lock is not waited for.
MgrSkipped == TRUE
MgrFree == GlobalFree

UnRegMt(u) ==
  /\ MgrFree
  /\ Released(u, "unreg", "envs")
  /\ cls' = cls \ CmdsOf(u)
  /\ UNCHANGED <<stLock, bCmdInExec, bReady, bFinish, stEnvHead>>

\* the memory of the agent is freed; the next one starts from zero
FreeEnvs(u) ==
  /\ Free(u)
  /\ Released(u, "envs", "none")
  /\ stEnvHead' = stEnvHead \ CmdsOf(u)
  /\ bReady' = [bReady EXCEPT ![u] = FALSE]
  /\ bFinish' = [bFinish EXCEPT ![u] = FALSE]
  /\ UNCHANGED <<stLock, bCmdInExec, cls>>

-----------------------------------------------------------------------------

Exec == ExecBegin \/ ExecWaited \/ ExecClear
Locked(t) == GetFails(t) \/ GetParam(t) \/ RegEnv(t) \/ RegUsrCmdLine(t)
Freeing(u) == FreeUa(u) \/ FreeUaFinish(u) \/ UnRegMt(u) \/ FreeEnvs(u)

Next ==
  \/ \E u \in Ua : OpenUa(u) \/ Kill(u) \/ Freeing(u)
  \/ \E c \in Cmd : ExecUserInputCmd(c)
  \/ Exec
  \/ \E t \in Thread : \/ GetExecParam(t) \/ Locked(t) \/ EndExec(t)
                       \/ \E c \in Cmd : RegCmdLine(t, c)

Spec == Init /\ [][Next]_vars

\* Whoever waits for a mutex gets it in turn; the wait of ExecCmd times out;
\* callbacks return; the kernel frees what a process leaves.
Fairness ==
  /\ SF_vars(Exec)
  /\ \A t \in Thread : SF_vars(Locked(t)) /\ WF_vars(EndExec(t))
  /\ \A u \in Ua : SF_vars(Freeing(u))

FairSpec == Spec /\ Fairness

-----------------------------------------------------------------------------
(* Properties                                                              *)

TypeOK ==
  /\ proc \in [Ua -> {"none", "alive", "killed", "finish", "unreg", "envs"}]
  /\ stLock \in [Ua -> Thread \union {NONE}]
  /\ pstCurrEnv \in [Ua -> Cmd \union {NONE}]
  /\ bReady \in [Ua -> BOOLEAN]
  /\ bFinish \in [Ua -> BOOLEAN]
  /\ bCmdInExec \in [Ua -> BOOLEAN]
  /\ stEnvHead \subseteq Cmd
  /\ cls \subseteq Cmd
  /\ exec \in {NoExec} \union [pc : {"begin", "wait", "clear"}, cmd : Cmd, ran : Nat]
  /\ thr \in [Thread -> [pc : {"idle", "get", "gone"}, cmd : {NONE}]
                         \union [pc : {"user", "reg", "regmgr"}, cmd : Cmd]]

\* A thread that executes a command reads its values from the command line of
\* just that command, which is still there (GET_VAL and PRINT use ulExecId
\* without the lock, mt_ua.c:258-275, 308, 345): the kernel thread has not
\* gone on, although it may have timed out or others may have been killed.
ParamsLive ==
  \A t \in Thread :
    thr[t].pc = "user" =>
      /\ exec.pc \in {"wait", "clear"} /\ exec.cmd = thr[t].cmd
      /\ pstCurrEnv[UaOf[t]] = thr[t].cmd

\* A command that was asked for once is taken by at most one thread, once.
AtMostOnce == exec.ran <= 1

\* What is executed belongs to an agent whose memory is there: a registered
\* command has its environment, and an agent is not freed under an execution.
NoneFreed ==
  /\ cls \subseteq stEnvHead
  /\ \A c \in stEnvHead : proc[UaOf[c]] # "none"
  /\ exec.cmd # NONE => exec.cmd \in cls

\* Every execution ends, and with it the manager's lock is given back: also
\* when the process is busy, does not answer or is killed meanwhile ("in
\* process crash or kill", mt_ua.c:32).
ExecEnds == exec.pc # "idle" ~> exec.pc = "idle"

\* An agent that was killed is freed.
FreeEnds == \A u \in Ua : proc[u] = "killed" ~> proc[u] = "none"
=============================================================================
