--------------------------- MODULE SshConnProofs ---------------------------
(***************************************************************************)
(* Proofs about module SshConn, for any amount of stderr and with or       *)
(* without children left behind.                                           *)
(*                                                                         *)
(* Everything hangs on sync.Once: until it was used nobody is past wait,   *)
(* while it is in use exactly one caller is inside cmd.Wait, and once it   *)
(* is over the process was reaped and the copying goroutine joined.        *)
(***************************************************************************)
EXTENDS SshConn, TLAPS

Inside == {"reap", "join"}

Past == {"return", "back"}

\* What is known of sync.Once and of cmd.Wait in each of its states.
OnceInv ==
  /\ once = "free" => waits = 0 /\ \A t \in Callers : at[t] \notin Inside \cup Past
  /\ once = "busy" => /\ waits = 1
                      /\ \A t \in Callers : at[t] \notin Past
                      /\ \A t, u \in Callers :
                           at[t] \in Inside /\ at[u] \in Inside => t = u
  /\ once = "done" => /\ waits = 1 /\ ssh = "reaped" /\ copier = "over" /\ ~pipes
                      /\ \A t \in Callers : at[t] \notin Inside
  /\ \A t \in Callers : at[t] = "join" => ssh = "reaped"

\* What is known of stderr.
CopyInv ==
  /\ copied <= written
  /\ copier = "over" => ssh # "running" /\ copied = written
  /\ \A t \in {"reader", "writer"} : at[t] = "back" => told[t] = copied

IInv == TypeOK /\ OnceInv /\ CopyInv

-----------------------------------------------------------------------------
\* Nothing has happened to a connection that was just made.
LEMMA InitIInv == Init => IInv
<1>. SUFFICES ASSUME Init PROVE IInv
  OBVIOUS
<1>1. TypeOK
  <2>1. child \in BOOLEAN /\ stdin \in BOOLEAN /\ stdout \in BOOLEAN /\ pipes \in BOOLEAN
    BY DEF Init
  <2>. QED
    BY <2>1 DEF Init, TypeOK
<1>2. OnceInv
  BY DEF Init, OnceInv, Inside, Past
<1>3. CopyInv
  BY DEF Init, CopyInv, Callers
<1>. QED
  BY <1>1, <1>2, <1>3 DEF IInv

\* Every step keeps the types.
LEMMA TypeOKStep == IInv /\ [Next]_vars => TypeOK'
<1>. SUFFICES ASSUME TypeOK, [Next]_vars PROVE TypeOK'
  BY DEF IInv
<1>. USE DEF TypeOK, process, exec, conn, Goto
<1>1. CASE UNCHANGED vars
  BY <1>1 DEF vars
<1>2. CASE SshSays
  BY <1>2 DEF SshSays
<1>3. CASE SshForks \/ ChildExits \/ SshClosesAnEnd \/ SshExits \/ ContextKills
  <2>1. child' \in BOOLEAN /\ stdin' \in BOOLEAN /\ stdout' \in BOOLEAN /\ pipes' \in BOOLEAN
    BY <1>3, Zenon DEF SshForks, ChildExits, SshClosesAnEnd, SshExits, ContextKills, Gone
  <2>2. ssh' \in {"running", "exited", "reaped"}
    BY <1>3 DEF SshForks, ChildExits, SshClosesAnEnd, SshExits, ContextKills, Gone
  <2>. QED
    BY <1>3, <2>1, <2>2
    DEF SshForks, ChildExits, SshClosesAnEnd, SshExits, ContextKills
<1>9. CASE CopyLine \/ CopyEnds \/ DeadlinePasses
  BY <1>9 DEF CopyLine, CopyEnds, DeadlinePasses
<1>4. CASE Close
  BY <1>4 DEF Close, Gone
<1>5. ASSUME NEW t \in Callers, Call(t) \/ Succeeds(t) \/ Breaks(t) PROVE TypeOK'
  BY <1>5 DEF Call, Succeeds, Breaks
<1>6. ASSUME NEW t \in Callers, EnterWait(t) \/ WaitedFor(t) PROVE TypeOK'
  BY <1>6 DEF EnterWait, WaitedFor
<1>7. ASSUME NEW t \in Callers, Reap(t) \/ Join(t) PROVE TypeOK'
  BY <1>7 DEF Reap, Join
<1>8. ASSUME NEW t \in Callers, Return(t) PROVE TypeOK'
  BY <1>8 DEF Return
<1>. QED
  BY <1>1, <1>2, <1>3, <1>4, <1>5, <1>6, <1>7, <1>8, <1>9 DEF Next, Caller

\* Every step keeps what is known of sync.Once.
LEMMA OnceInvStep == IInv /\ [Next]_vars => OnceInv'
<1>. SUFFICES ASSUME TypeOK, OnceInv, [Next]_vars PROVE OnceInv'
  BY DEF IInv
<1>. USE DEF TypeOK, OnceInv, process, exec, conn, Goto, Inside, Past
<1>1. CASE UNCHANGED vars
  BY <1>1 DEF vars
<1>2. CASE SshSays \/ SshForks \/ ChildExits \/ SshClosesAnEnd \/ SshExits
  BY <1>2 DEF SshSays, SshForks, ChildExits, SshClosesAnEnd, SshExits, Gone
<1>3. CASE CopyLine \/ CopyEnds \/ DeadlinePasses \/ ContextKills
  BY <1>3 DEF CopyLine, CopyEnds, DeadlinePasses, ContextKills, Gone
<1>4. CASE Close
  BY <1>4 DEF Close, Gone
<1>5. ASSUME NEW t \in Callers, Call(t) \/ Succeeds(t) \/ Breaks(t) PROVE OnceInv'
  BY <1>5 DEF Call, Succeeds, Breaks
<1>6. ASSUME NEW t \in Callers, EnterWait(t) PROVE OnceInv'
  BY <1>6 DEF EnterWait
<1>7. ASSUME NEW t \in Callers, WaitedFor(t) PROVE OnceInv'
  BY <1>7 DEF WaitedFor
<1>8. ASSUME NEW t \in Callers, Reap(t) PROVE OnceInv'
  BY <1>8 DEF Reap
<1>9. ASSUME NEW t \in Callers, Join(t) PROVE OnceInv'
  BY <1>9 DEF Join
<1>10. ASSUME NEW t \in Callers, Return(t) PROVE OnceInv'
  BY <1>10 DEF Return
<1>. QED
  BY <1>1, <1>2, <1>3, <1>4, <1>5, <1>6, <1>7, <1>8, <1>9, <1>10 DEF Next, Caller

\* Every step keeps what is known of stderr.
LEMMA CopyInvStep == IInv /\ [Next]_vars => CopyInv'
<1>. SUFFICES ASSUME TypeOK, OnceInv, CopyInv, [Next]_vars PROVE CopyInv'
  BY DEF IInv
<1>. USE DEF TypeOK, CopyInv, process, exec, conn, Goto
<1>1. CASE UNCHANGED vars
  BY <1>1 DEF vars
<1>2. CASE SshSays \/ SshForks \/ ChildExits \/ SshClosesAnEnd \/ SshExits
  BY <1>2 DEF SshSays, SshForks, ChildExits, SshClosesAnEnd, SshExits, Gone
\* A line can only be copied while the copier is on, so nobody is back yet.
<1>3. CASE CopyLine
  BY <1>3 DEF CopyLine, OnceInv, Past, Callers
<1>4. CASE CopyEnds \/ DeadlinePasses \/ ContextKills
  BY <1>4 DEF CopyEnds, DeadlinePasses, ContextKills, Gone
<1>5. CASE Close
  BY <1>5 DEF Close, Gone, Callers
<1>6. ASSUME NEW t \in Callers, Call(t) \/ Succeeds(t) \/ Breaks(t) PROVE CopyInv'
  BY <1>6 DEF Call, Succeeds, Breaks, Callers
<1>7. ASSUME NEW t \in Callers, EnterWait(t) \/ WaitedFor(t) PROVE CopyInv'
  BY <1>7 DEF EnterWait, WaitedFor, Callers
<1>8. ASSUME NEW t \in Callers, Reap(t) \/ Join(t) PROVE CopyInv'
  BY <1>8 DEF Reap, Join, Callers
<1>9. ASSUME NEW t \in Callers, Return(t) PROVE CopyInv'
  BY <1>9 DEF Return, Callers
<1>. QED
  BY <1>1, <1>2, <1>3, <1>4, <1>5, <1>6, <1>7, <1>8, <1>9 DEF Next, Caller

\* The invariant is inductive.
LEMMA Inductive == Spec => []IInv
<1>1. IInv /\ [Next]_vars => IInv'
  BY TypeOKStep, OnceInvStep, CopyInvStep DEF IInv
<1>. QED
  BY <1>1, InitIInv, PTL DEF Spec

-----------------------------------------------------------------------------
\* wait: whoever races to it, cmd.Wait is called at most once.
THEOREM WaitIsCalledOnce == Spec => []WaitedOnce
<1>1. IInv => WaitedOnce
  BY DEF IInv, OnceInv, TypeOK, WaitedOnce
<1>. QED
  BY <1>1, Inductive, PTL

\* annotate: an error never carries a part of stderr only.
THEOREM ErrorsCarryAllStderr == Spec => []StderrComplete
<1>1. IInv => StderrComplete
  <2>. SUFFICES ASSUME IInv, NEW t \in {"reader", "writer"}, at[t] = "back"
                PROVE  told[t] = written
    BY DEF StderrComplete
  <2>1. once = "done"
    BY DEF IInv, OnceInv, TypeOK, Past, Callers
  <2>. QED
    BY <2>1 DEF IInv, OnceInv, CopyInv
<1>. QED
  BY <1>1, Inductive, PTL

\* Close: when it has returned, the process is reaped, the copying goroutine is
\* over and the pipes are closed.
THEOREM CloseIsThorough == Spec => []CloseLeavesNothing
<1>1. IInv => CloseLeavesNothing
  BY DEF IInv, OnceInv, TypeOK, CloseLeavesNothing, Past, Callers
<1>. QED
  BY <1>1, Inductive, PTL
============================================================================
