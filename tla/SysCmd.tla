-------------------------------- MODULE SysCmd --------------------------------
(***************************************************************************)
(* SysCmd::get_result (src/src/base/utils/sys_utils.cpp, class SysCmd in  *)
(* src/inc/base/utils/sys_utils.hpp) called by several threads of one      *)
(* process, each on its own SysCmd object.  A call makes a pipe, forks an  *)
(* intermediate child that forks the command and exits at once, ignores    *)
(* SIGCHLD so that the intermediate child is reaped by the kernel, reads   *)
(* the pipe under select() with a total timeout, and puts the SIGCHLD      *)
(* disposition it found back.                                              *)
(*                                                                         *)
(* sigchld is the process's disposition of SIGCHLD, shared by all          *)
(* threads.  A thread may call get_result on its object several times,   *)
(* one call after the other; a call k is <<t, i>>, the i-th call of       *)
(* thread t.  Per call: pc is the position in get_result; child is the    *)
(* intermediate child, cmd the command (the grandchild); writers are the   *)
(* processes holding the pipe's write end; pipe the bytes in it; got the   *)
(* bytes read into the stringstream.  The output is a byte count.  Per     *)
(* object: pipefd is pipefd_, each entry the number of the call whose      *)
(* pipe() filled it or 0 for -1; fds the descriptors of the calling        *)
(* process that the object's calls opened and nobody closed yet.           *)
(***************************************************************************)
EXTENDS Naturals

CONSTANTS Callers,    \* threads calling get_result, one SysCmd object each
          MaxCalls,   \* bound: calls of get_result per object
          Timeout,    \* timeout_secs_
          MaxBytes,   \* max_result_bytes_
          Infinite,   \* SYS_CMD_INFINITE_RET_BYTES (a model value)
          MaxOut,     \* bound: bytes one command writes
          SysOk,      \* outcomes pipe() and fork() may have
          ExecOk,     \* outcomes dup2() and execve() may have
          Interrupts, \* whether a signal with a handler may hit select()
          MaxTime     \* bound on the clock

ASSUME /\ MaxCalls \in Nat \ {0} /\ Timeout \in Nat /\ MaxBytes \in Nat \cup {Infinite} /\ MaxOut \in Nat
       /\ SysOk \subseteq BOOLEAN /\ SysOk /= {}
       /\ ExecOk \subseteq BOOLEAN /\ ExecOk /= {}
       /\ Interrupts \in BOOLEAN /\ MaxTime \in Nat

Calls == Callers \X (1..MaxCalls)

VARIABLES sigchld,  \* "dfl" | "ign": the process's SIGCHLD disposition
          pipefd,   \* per object: [r, w], a call number or 0 (-1)
          fds,      \* per object: open descriptors <<call number, end>>
          pc,       \* per call: "idle" | "sig" | "close" | "select" | "read" | "ret" | "done"
          old,      \* per call: old_handler
          result,   \* per call: the return value "true" | "false", or "throw"
          child,    \* per call: "none" | "running" | "reaped" | "zombie"
          cmd,      \* per call: "none" | "failed" | "forked" | "running" | "exited"
          writers,  \* per call: holders of pipefd_[1]
          pipe,     \* per call: bytes in the pipe
          left,     \* per call: bytes the command has still to write
          got,      \* per call: bytes in ss
          deadline, \* per call: when select's timeval runs out
          now       \* the clock, in seconds

vars == <<sigchld, pipefd, fds, pc, old, result, child, cmd, writers, pipe, left, got,
          deadline, now>>

\* pipefd_ = {-1, -1}
NoPipe == [r |-> 0, w |-> 0]

\* The descriptors pipefd_ holds.
Held(t) == {<<pipefd[t][e], e>> : e \in {x \in {"r", "w"} : pipefd[t][x] /= 0}}

Init ==
    /\ sigchld = "dfl"
    /\ pipefd = [t \in Callers |-> NoPipe]
    /\ fds = [t \in Callers |-> {}]
    /\ pc = [k \in Calls |-> "idle"]
    /\ old = [k \in Calls |-> "dfl"]
    /\ result = [k \in Calls |-> "false"]
    /\ child = [k \in Calls |-> "none"]
    /\ cmd = [k \in Calls |-> "none"]
    /\ writers = [k \in Calls |-> {}]
    /\ pipe = [k \in Calls |-> 0]
    /\ left = [k \in Calls |-> 0]
    /\ got = [k \in Calls |-> 0]
    /\ deadline = [k \in Calls |-> 0]
    /\ now = 0

-----------------------------------------------------------------------------
(* The calling thread.                                                     *)

\* A thread's calls follow one another.
Turn(k) == IF k[2] = 1 THEN TRUE ELSE pc[<<k[1], k[2] - 1>>] = "done"

\* The call throws Errno.
Throw(k) ==
    /\ pc' = [pc EXCEPT ![k] = "done"]
    /\ result' = [result EXCEPT ![k] = "throw"]

\* pipe() fails: Errno is thrown and pipefd_ keeps what it held.
PipeFails(k) ==
    /\ pc[k] = "idle" /\ Turn(k) /\ FALSE \in SysOk
    /\ Throw(k)
    /\ UNCHANGED <<sigchld, pipefd, fds, old, child, cmd, writers, pipe, left,
                   got, deadline, now>>

\* pipe() overwrites both entries of pipefd_ with the new descriptors,
\* whatever they held; then fork() either fails, throwing Errno with both
\* ends open, or makes the intermediate child, which holds the write end
\* as the parent does.
Start(k) ==
    /\ pc[k] = "idle" /\ Turn(k)
    /\ pipefd' = [pipefd EXCEPT ![k[1]] = [r |-> k[2], w |-> k[2]]]
    /\ fds' = [fds EXCEPT ![k[1]] = @ \cup {<<k[2], "r">>, <<k[2], "w">>}]
    /\ \E ok \in SysOk :
         IF ok
         THEN /\ pc' = [pc EXCEPT ![k] = "sig"]
              /\ child' = [child EXCEPT ![k] = "running"]
              /\ writers' = [writers EXCEPT ![k] = {"parent", "child"}]
              /\ UNCHANGED result
         ELSE /\ Throw(k)
              /\ UNCHANGED <<child, writers>>
    /\ UNCHANGED <<sigchld, old, cmd, pipe, left, got, deadline, now>>

\* old_handler = signal(SIGCHLD, SIG_IGN), after the fork.
IgnoreSigchld(k) ==
    /\ pc[k] = "sig"
    /\ old' = [old EXCEPT ![k] = sigchld]
    /\ sigchld' = "ign"
    /\ pc' = [pc EXCEPT ![k] = "close"]
    /\ UNCHANGED <<pipefd, fds, result, child, cmd, writers, pipe, left, got, deadline, now>>

\* The parent closes pipefd_[1] and sets the timeval to timeout_secs_.
CloseWrite(k) ==
    /\ pc[k] = "close"
    /\ writers' = [writers EXCEPT ![k] = @ \ {"parent"}]
    /\ fds' = [fds EXCEPT ![k[1]] = @ \ {<<pipefd[k[1]].w, "w">>}]
    /\ pipefd' = [pipefd EXCEPT ![k[1]].w = 0]
    /\ deadline' = [deadline EXCEPT ![k] = now + Timeout]
    /\ pc' = [pc EXCEPT ![k] = "select"]
    /\ UNCHANGED <<sigchld, old, result, child, cmd, pipe, left, got, now>>

\* select() reports the read end readable: data, or end-of-file once no
\* process holds the write end.
Readable(k) == pipe[k] > 0 \/ writers[k] = {}

\* The loop ends with result r.
Finish(k, r) ==
    /\ result' = [result EXCEPT ![k] = r]
    /\ pc' = [pc EXCEPT ![k] = "ret"]

\* One step of the select loop.  pc = "select" is the thread in select(),
\* pc = "read" in a read() that blocks.  Linux's select() subtracts the
\* time it waited from the timeval, so the timeout is a deadline for the
\* whole loop.  A read() of data goes round again unless the result is
\* past max_result_bytes_ (failure); a read() of 0 ends the loop with
\* success; select() returning 0 (timeout) fails.  select() failing with
\* EINTR (a signal whose handler runs on this thread) returns -1, which
\* `if (ret)` takes as ready: the sets are left as they were, so FD_ISSET
\* holds and read() blocks, with no timeout, until the pipe has data or
\* end-of-file; if that read() is interrupted too, `ret <= 0` ends the loop
\* with success.  The "Fail to get result" branch is never taken.
Select(k) ==
    /\ pc[k] \in {"select", "read"}
    /\ \/ /\ pipe[k] > 0
          /\ \E n \in 1..pipe[k] :
               /\ pipe' = [pipe EXCEPT ![k] = @ - n]
               /\ got' = [got EXCEPT ![k] = @ + n]
               /\ IF MaxBytes /= Infinite /\ got[k] + n > MaxBytes
                  THEN Finish(k, "false")
                  ELSE pc' = [pc EXCEPT ![k] = "select"] /\ UNCHANGED result
       \/ /\ pipe[k] = 0 /\ writers[k] = {}
          /\ Finish(k, "true")
          /\ UNCHANGED <<pipe, got>>
       \/ /\ pc[k] = "select" /\ ~Readable(k) /\ now >= deadline[k]
          /\ Finish(k, "false")
          /\ UNCHANGED <<pipe, got>>
       \/ /\ pc[k] = "select" /\ ~Readable(k) /\ Interrupts
          /\ pc' = [pc EXCEPT ![k] = "read"]
          /\ UNCHANGED <<result, pipe, got>>
       \/ /\ pc[k] = "read" /\ ~Readable(k) /\ Interrupts
          /\ Finish(k, "true")
          /\ UNCHANGED <<pipe, got>>
    /\ UNCHANGED <<sigchld, pipefd, fds, old, child, cmd, writers, left, deadline, now>>

\* res.append(ss.str()); signal(SIGCHLD, old_handler); return.
Return(k) ==
    /\ pc[k] = "ret"
    /\ sigchld' = old[k]
    /\ pc' = [pc EXCEPT ![k] = "done"]
    /\ UNCHANGED <<pipefd, fds, old, result, child, cmd, writers, pipe, left, got,
                   deadline, now>>

-----------------------------------------------------------------------------
(* The intermediate child and the command.                                 *)

\* The intermediate child forks the command.  `if (pid)` is also taken
\* when fork() fails (-1): no command is started.
ChildFork(k) ==
    /\ child[k] = "running" /\ cmd[k] = "none"
    /\ \E ok \in SysOk :
         /\ cmd' = [cmd EXCEPT ![k] = IF ok THEN "forked" ELSE "failed"]
         /\ writers' = [writers EXCEPT ![k] = IF ok THEN @ \cup {"cmd"} ELSE @]
    /\ UNCHANGED <<sigchld, pipefd, fds, pc, old, result, child, pipe, left, got,
                   deadline, now>>

\* _Exit(0): the kernel reaps the child if the parent ignores SIGCHLD at
\* that moment; otherwise it stays a zombie, as nobody waits for it.
ChildExit(k) ==
    /\ child[k] = "running" /\ cmd[k] /= "none"
    /\ child' = [child EXCEPT ![k] = IF sigchld = "ign" THEN "reaped" ELSE "zombie"]
    /\ writers' = [writers EXCEPT ![k] = @ \ {"child"}]
    /\ UNCHANGED <<sigchld, pipefd, fds, pc, old, result, cmd, pipe, left, got,
                   deadline, now>>

\* The command closes the read end, dup2s the write end onto stdout and
\* execs; a failing dup2 or execve ends it with _Exit(-1).
Exec(k) ==
    /\ cmd[k] = "forked"
    /\ \E ok \in ExecOk :
         IF ok
         THEN /\ cmd' = [cmd EXCEPT ![k] = "running"]
              /\ \E n \in 0..MaxOut : left' = [left EXCEPT ![k] = n]
              /\ UNCHANGED writers
         ELSE /\ cmd' = [cmd EXCEPT ![k] = "exited"]
              /\ writers' = [writers EXCEPT ![k] = @ \ {"cmd"}]
              /\ UNCHANGED left
    /\ UNCHANGED <<sigchld, pipefd, fds, pc, old, result, child, pipe, got, deadline, now>>

CmdWrite(k) ==
    /\ cmd[k] = "running" /\ left[k] > 0
    /\ pipe' = [pipe EXCEPT ![k] = @ + 1]
    /\ left' = [left EXCEPT ![k] = @ - 1]
    /\ UNCHANGED <<sigchld, pipefd, fds, pc, old, result, child, cmd, writers, got,
                   deadline, now>>

CmdExit(k) ==
    /\ cmd[k] = "running" /\ left[k] = 0
    /\ cmd' = [cmd EXCEPT ![k] = "exited"]
    /\ writers' = [writers EXCEPT ![k] = @ \ {"cmd"}]
    /\ UNCHANGED <<sigchld, pipefd, fds, pc, old, result, child, pipe, left, got,
                   deadline, now>>

-----------------------------------------------------------------------------
(* The owner of the object.                                                *)

\* SysCmd::close(), also run by the destructor, on the thread that makes
\* the calls: it closes what pipefd_ holds and sets both entries to -1.
Close(t) ==
    /\ \A i \in 1..MaxCalls : pc[<<t, i>>] \in {"idle", "done"}
    /\ pipefd[t] /= NoPipe
    /\ fds' = [fds EXCEPT ![t] = @ \ Held(t)]
    /\ pipefd' = [pipefd EXCEPT ![t] = NoPipe]
    /\ UNCHANGED <<sigchld, pc, old, result, child, cmd, writers, pipe, left,
                   got, deadline, now>>

Tick ==
    /\ now < MaxTime
    /\ now' = now + 1
    /\ UNCHANGED <<sigchld, pipefd, fds, pc, old, result, child, cmd, writers, pipe, left,
                   got, deadline>>

Next ==
    \/ \E k \in Calls :
          \/ PipeFails(k) \/ Start(k) \/ IgnoreSigchld(k) \/ CloseWrite(k) \/ Select(k)
          \/ Return(k) \/ ChildFork(k) \/ ChildExit(k) \/ Exec(k)
          \/ CmdWrite(k) \/ CmdExit(k)
    \/ \E t \in Callers : Close(t)
    \/ Tick

Spec == Init /\ [][Next]_vars

-----------------------------------------------------------------------------

TypeOK ==
    /\ sigchld \in {"dfl", "ign"}
    /\ pipefd \in [Callers -> [r : 0..MaxCalls, w : 0..MaxCalls]]
    /\ fds \in [Callers -> SUBSET ((1..MaxCalls) \X {"r", "w"})]
    /\ pc \in [Calls -> {"idle", "sig", "close", "select", "read", "ret", "done"}]
    /\ old \in [Calls -> {"dfl", "ign"}]
    /\ result \in [Calls -> {"true", "false", "throw"}]
    /\ child \in [Calls -> {"none", "running", "reaped", "zombie"}]
    /\ cmd \in [Calls -> {"none", "failed", "forked", "running", "exited"}]
    /\ writers \in [Calls -> SUBSET {"parent", "child", "cmd"}]
    /\ pipe \in [Calls -> 0..MaxOut] /\ left \in [Calls -> 0..MaxOut]
    /\ got \in [Calls -> 0..MaxOut] /\ deadline \in [Calls -> Nat]
    /\ now \in 0..MaxTime

(* get_result saves the SIGCHLD disposition it found and restores it on    *)
(* return: once no call is running, SIGCHLD has the disposition the        *)
(* process had before any call (SIG_DFL), whatever the order in which      *)
(* calls on different threads set SIG_IGN and restore what they saved.     *)
SigchldRestored ==
    (\A k \in Calls : pc[k] \in {"idle", "done"}) => sigchld = "dfl"


(* Every descriptor the object's calls opened in the calling process is   *)
(* one that pipefd_ still holds, so that close() and the destructor        *)
(* release it.  get_result never closes pipefd_[0], and its pipe()         *)
(* overwrites both entries, so a second call on the same object loses the  *)
(* first call's read end, and both ends if the first call's fork() failed. *)
(* No run states it; TLC finds it violated with MaxCalls = 2.              *)
PipeFdsHeld == \A t \in Callers : fds[t] \subseteq Held(t)

=============================================================================
