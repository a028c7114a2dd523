------------------------------- MODULE SshConn -------------------------------
(***************************************************************************)
(* One connection to a Docker daemon over ssh: commandConn of              *)
(* internal/discovery/sshconn.go, a subprocess whose pipes net/http uses   *)
(* as a connection.                                                        *)
(*                                                                         *)
(* Three goroutines of the HTTP transport may call it: its read loop, its  *)
(* write loop, and whoever closes it.  Any of them may be the first to     *)
(* notice that the process is gone, and cmd.Wait may be called only once.  *)
(* Two more goroutines belong to exec.Cmd: one copies the process's stderr *)
(* into a buffer, one kills the process when the context is done.          *)
(***************************************************************************)
EXTENDS Integers

CONSTANT MaxLines  \* bound: how many lines ssh writes on stderr

ASSUME SshConnAssumption == MaxLines \in Nat

Callers == {"reader", "writer", "closer"}

VARIABLES
  ssh,      \* "running", "exited" or "reaped"
  child,    \* a child that holds stderr is alive
  stdin, stdout,  \* whether ssh's ends are open
  pipes,    \* whether ours are: cmd.Wait closes them
  written,  \* lines ssh wrote on stderr
  copied,   \* those of them in the buffer
  copier,   \* exec.Cmd's copying goroutine: "on" or "over"
  ctx,      \* the context of the dial: "live" or "done"
  once,     \* waitOnce: "free", "busy" or "done"
  waits,    \* how many times cmd.Wait was called
  at,       \* each caller's control point
  told      \* the lines of stderr its error carries, or -1

process == <<ssh, child, stdin, stdout, written>>
exec == <<pipes, copied, copier, ctx>>
conn == <<once, waits, at, told>>
vars == <<process, exec, conn>>

Init ==
  /\ ssh = "running" /\ child = FALSE /\ stdin = TRUE /\ stdout = TRUE /\ pipes = TRUE
  /\ written = 0 /\ copied = 0 /\ copier = "on" /\ ctx = "live"
  /\ once = "free" /\ waits = 0
  /\ at = [t \in Callers |-> "idle"] /\ told = [t \in Callers |-> -1]

-----------------------------------------------------------------------------
(***************************************************************************)
(* The ssh process.                                                        *)
(***************************************************************************)
SshSays ==
  /\ ssh = "running" /\ written < MaxLines
  /\ written' = written + 1
  /\ UNCHANGED <<ssh, child, stdin, stdout, exec, conn>>

\* A child that shares ssh's stderr: the ssh -W of a ProxyJump, or a ProxyCommand.
SshForks ==
  /\ ssh = "running" /\ ~child
  /\ child' = TRUE
  /\ UNCHANGED <<ssh, stdin, stdout, written, exec, conn>>

\* A child that does not notice that ssh is gone may stay for as long as it likes.
ChildExits ==
  /\ child
  /\ child' = FALSE
  /\ UNCHANGED <<ssh, stdin, stdout, written, exec, conn>>

\* ssh closes one of its ends and goes on running.
SshClosesAnEnd ==
  /\ ssh = "running"
  /\ \/ stdin /\ stdin' = FALSE /\ UNCHANGED stdout
     \/ stdout /\ stdout' = FALSE /\ UNCHANGED stdin
  /\ UNCHANGED <<ssh, child, written, exec, conn>>

Gone == ssh' = "exited" /\ stdin' = FALSE /\ stdout' = FALSE

SshExits ==
  /\ ssh = "running"
  /\ Gone
  /\ UNCHANGED <<child, written, exec, conn>>

(***************************************************************************)
(* exec.Cmd's goroutines, and the context.                                 *)
(***************************************************************************)
CopyLine ==
  /\ copied < written
  /\ copied' = copied + 1
  /\ UNCHANGED <<process, pipes, copier, ctx, conn>>

\* End of file on stderr: nobody holds its other end.
CopyEnds ==
  /\ copier = "on" /\ copied = written /\ ssh # "running" /\ ~child
  /\ copier' = "over"
  /\ UNCHANGED <<process, pipes, copied, ctx, conn>>

DeadlinePasses ==
  /\ ctx = "live"
  /\ ctx' = "done"
  /\ UNCHANGED <<process, pipes, copied, copier, conn>>

\* Mutant: exec.Command instead of exec.CommandContext.
ContextIgnored == FALSE

\* exec.CommandContext.
ContextKills ==
  /\ ctx = "done" /\ ssh = "running"
  /\ Gone
  /\ UNCHANGED <<child, written, exec, conn>>

-----------------------------------------------------------------------------
(***************************************************************************)
(* commandConn.                                                            *)
(***************************************************************************)
Goto(t, from, to) == at[t] = from /\ at' = [at EXCEPT ![t] = to]

\* Read or Write is called, and may block on its pipe.
Call(t) ==
  /\ t # "closer"
  /\ Goto(t, "idle", "pipe")
  /\ UNCHANGED <<process, exec, once, waits, told>>

Broken(t) == ~pipes \/ (IF t = "reader" THEN ~stdout ELSE ~stdin)

Succeeds(t) ==
  /\ Goto(t, "pipe", "idle")
  /\ ~Broken(t)
  /\ UNCHANGED <<process, exec, once, waits, told>>

\* Mutant: annotate does not wait.
BreaksWithoutWait(t) ==
  /\ Goto(t, "pipe", "return")
  /\ Broken(t)
  /\ UNCHANGED <<process, exec, once, waits, told>>

\* The error goes through annotate, which begins with wait.
Breaks(t) ==
  /\ Goto(t, "pipe", "wait")
  /\ Broken(t)
  /\ UNCHANGED <<process, exec, once, waits, told>>

\* Mutant: kills and does not wait.
CloseKillsOnly ==
  /\ Goto("closer", "idle", "return")
  /\ IF ssh = "running" THEN Gone ELSE UNCHANGED <<ssh, stdin, stdout>>
  /\ UNCHANGED <<child, written, exec, once, waits, told>>

\* Close kills first, whatever the process is doing.
Close ==
  /\ Goto("closer", "idle", "wait")
  /\ IF ssh = "running" THEN Gone ELSE UNCHANGED <<ssh, stdin, stdout>>
  /\ UNCHANGED <<child, written, exec, once, waits, told>>

\* Mutant: no sync.Once.
EnterWaitAgain(t) ==
  /\ Goto(t, "wait", "reap")
  /\ once' = "busy" /\ waits' = waits + 1
  /\ UNCHANGED <<process, exec, told>>

\* waitOnce.Do: the first to come calls cmd.Wait ...
EnterWait(t) ==
  /\ Goto(t, "wait", "reap")
  /\ once = "free"
  /\ once' = "busy" /\ waits' = waits + 1
  /\ UNCHANGED <<process, exec, told>>

\* ... which reaps the process,
Reap(t) ==
  /\ Goto(t, "reap", "join")
  /\ ssh = "exited"
  /\ ssh' = "reaped"
  /\ UNCHANGED <<child, stdin, stdout, written, exec, once, waits, told>>

\* joins the copying goroutine, and closes the pipes.
Join(t) ==
  /\ Goto(t, "join", "return")
  /\ copier = "over"
  /\ pipes' = FALSE /\ once' = "done"
  /\ UNCHANGED <<process, copied, copier, ctx, waits, told>>

\* The others wait for the first.
WaitedFor(t) ==
  /\ Goto(t, "wait", "return")
  /\ once = "done"
  /\ UNCHANGED <<process, exec, once, waits, told>>

\* annotate reads the buffer.
Return(t) ==
  /\ Goto(t, "return", "back")
  /\ told' = [told EXCEPT ![t] = IF t = "closer" THEN -1 ELSE copied]
  /\ UNCHANGED <<process, exec, once, waits>>

Caller(t) ==
  \/ Breaks(t) \/ EnterWait(t) \/ Reap(t) \/ Join(t) \/ WaitedFor(t) \/ Return(t)

Next ==
  \/ SshSays \/ SshForks \/ ChildExits \/ SshClosesAnEnd \/ SshExits
  \/ CopyLine \/ CopyEnds \/ DeadlinePasses \/ ContextKills \/ Close
  \/ \E t \in Callers : Call(t) \/ Succeeds(t) \/ Caller(t)

\* Goroutines that can run do; ssh and its child owe us nothing.
Spec ==
  /\ Init /\ [][Next]_vars
  /\ WF_vars(CopyLine) /\ WF_vars(CopyEnds) /\ WF_vars(ContextKills)
  /\ \A t \in Callers : WF_vars(Caller(t))

-----------------------------------------------------------------------------
(***************************************************************************)
(* Properties.                                                             *)
(***************************************************************************)
TypeOK ==
  /\ ssh \in {"running", "exited", "reaped"} /\ child \in BOOLEAN
  /\ stdin \in BOOLEAN /\ stdout \in BOOLEAN /\ pipes \in BOOLEAN
  /\ written \in Nat /\ copied \in Nat
  /\ copier \in {"on", "over"} /\ ctx \in {"live", "done"}
  /\ once \in {"free", "busy", "done"} /\ waits \in Nat
  /\ at \in [Callers -> {"idle", "pipe", "wait", "reap", "join", "return", "back"}]
  /\ told \in [Callers -> Nat \cup {-1}]

\* annotate: "every byte of stderr it produced is captured" in whatever error a Read or
\* a Write returns, though the copying goroutine races with the end of stdout.
StderrComplete ==
  \A t \in {"reader", "writer"} : at[t] = "back" => told[t] = written

\* wait: however many of Read, Write and Close race to it, cmd.Wait is called once.
WaitedOnce == waits <= 1

\* Close "kills the process, then waits for it": when it has returned there is no
\* process, no zombie and no goroutine left.
CloseLeavesNothing ==
  at["closer"] = "back" => ssh = "reaped" /\ copier = "over" /\ ~pipes

\* dockerCallTimeout: once the context is done, every Read, Write and Close that is
\* under way returns, even one stuck on its pipe or on another one's wait, as long as
\* no child of ssh holds on to its stderr for ever.  If one does, cmd.Wait waits for it.
UnblocksWithoutChild ==
  <>[]~child => (ctx = "done" ~> \A t \in Callers : at[t] \in {"idle", "back"})
==============================================================================
