-------------------------- MODULE RefinementProofs --------------------------
(***************************************************************************)
(* The proof that Process implements VforkCalls.  It needs, beyond the     *)
(* life cycle invariant, that a recorded ppid never names another process  *)
(* than the parent slot holds, and that saved contexts are user contexts.  *)
(***************************************************************************)
EXTENDS ProcessProofs, ProcessRefinement

USE DEF NULL, Slots

-----------------------------------------------------------------------------
(* The steps, as the family of processes sees them.                        *)

SameKin(s) ==
    /\ processes'[s].pid = processes[s].pid
    /\ processes'[s].ppid = processes[s].ppid
    /\ processes'[s].state = processes[s].state
    /\ processes'[s].exit_status = processes[s].exit_status
    /\ processes'[s].parent = processes[s].parent
    /\ processes'[s].vfork_parent = processes[s].vfork_parent
    /\ processes'[s].saved_parent_frame = processes[s].saved_parent_frame

(* The family stays as it is: user code runs on, or the machine stops. *)
Calm ==
    /\ \A s \in Slots : SameKin(s)
    /\ next_pid' \in {next_pid, next_pid + 1}
    /\ UNCHANGED wstatus
    /\ \/ machine' \in {machine, "shell", "faulted"} /\ UNCHANGED <<at, rax>>
       \/ InUser /\ at' \in {at} \cup Points

Starts(s) ==
    /\ machine = "boot" /\ TakePid /\ UNCHANGED <<rax, wstatus>>
    /\ \E c \in Cr3 : processes' = [processes EXCEPT ![s] = InitProcess(c)]
    /\ at' \in Points
Forks(s) ==
    /\ InUser /\ ~IsUsed(s) /\ TakePid /\ UNCHANGED <<at, wstatus>>
    /\ \E c \in Cr3 : processes' = [processes EXCEPT ![s] = ForkedProcess(c), ![current] = Suspended(process)]
    /\ rax' = 0
Resumes(status) == InUser /\ ResumeParent(status) /\ UNCHANGED <<next_pid, wstatus>>
Halts(status) == InUser /\ InitExits(status) /\ UNCHANGED <<next_pid, wstatus>>
Reaps(s) ==
    /\ InUser /\ processes[s].state = "ZOMBIE" /\ processes[s].parent = current
    /\ processes' = [processes EXCEPT ![s] = ZeroProcess]
    /\ rax' = processes[s].pid
    /\ wstatus' \in {wstatus, processes[s].exit_status * 256}
    /\ UNCHANGED <<next_pid, at>>

(* A step that leaves the process table alone is calm. *)
LEMMA StillCalm ==
    ASSUME UNCHANGED <<processes, wstatus>>, next_pid' \in {next_pid, next_pid + 1},
           \/ machine' \in {machine, "shell", "faulted"} /\ UNCHANGED <<at, rax>>
           \/ InUser /\ at' \in {at} \cup Points
    PROVE  Calm
BY DEF Calm, SameKin

(* So is a call that only returns, or that faults. *)
LEMMA ReturnCalm ==
    ASSUME InUser, NEW v, ReturnOnly(v) \/ Fault
    PROVE  Calm
BY StillCalm DEF ReturnOnly, Fault, table, memory

(* So is a file call: it changes descriptors only. *)
LEMMA FileCalm ==
    ASSUME IInv, FileCall \/ AnswerCall
    PROVE  Calm
<1>1. ASSUME InUser, NEW fd, NEW value, SetFd(fd, value) PROVE Calm
  BY <1>1, StillCalm DEF SetFd, memory
<1>2. ASSUME NEW path \in UserStrings, syscall_open(path) PROVE Calm
  BY <1>1, <1>2, ReturnCalm DEF syscall_open
<1>3. ASSUME NEW fd \in FdArgs, syscall_close(fd) PROVE Calm
  BY <1>1, <1>3, ReturnCalm DEF syscall_close
<1>4. ASSUME NEW fd \in FdArgs, NEW offset \in SeekArgs, NEW whence \in 0 .. 3, syscall_lseek(fd, offset, whence)
      PROVE  Calm
  BY <1>1, <1>4, ReturnCalm DEF syscall_lseek
<1>5. ASSUME NEW fd \in FdArgs, NEW buffer \in Pointers, NEW count \in Counts,
             \/ syscall_read(fd, buffer, count)
             \/ syscall_getdents64(fd, buffer, count)
      PROVE  Calm
  BY <1>1, <1>5, ReturnCalm DEF syscall_read, syscall_getdents64
<1>6. ASSUME \/ AnswerCall
             \/ \E fd \in FdArgs, buffer \in Pointers, count \in Counts : syscall_write(fd, buffer, count)
      PROVE  Calm
  <2>1. InUser
    BY <1>6 DEF AnswerCall, syscall_access, syscall_getcwd, syscall_uname, syscall_identity, syscall_write
  <2>2. HasCurrent
    BY <2>1, CurrentProcess
  <2> QED
    BY <1>6, <2>1, <2>2, AnswerType, ReturnCalm DEF IInv
<1> QED
  BY <1>2, <1>3, <1>4, <1>5, <1>6 DEF FileCall

(* A process whose break or address space changes keeps its place. *)
LEMMA ImageCalm ==
    ASSUME IInv, InUser, UNCHANGED <<next_pid, wstatus>>, at' \in {at} \cup Points,
           NEW b, NEW c, processes' = [processes EXCEPT ![current] = [process EXCEPT !.brk = b, !.cr3 = c]]
    PROVE  Calm
<1>1. current \in Slots /\ process \in ProcessType
  BY CurrentProcess
<1>2. ASSUME NEW s \in Slots PROVE SameKin(s)
  <2>1. processes'[s] = IF s = current THEN [process EXCEPT !.brk = b, !.cr3 = c] ELSE processes[s]
    BY <1>1 DEF IInv, TypeOK
  <2> QED
    BY <1>1, <2>1 DEF SameKin, ProcessType, process
<1> QED
  BY <1>2 DEF Calm

(* execve and brk keep the caller's place. *)
LEMMA ExecveBrkCalm ==
    ASSUME IInv, InUser,
           \/ \E path \in UserStrings : syscall_execve(path)
           \/ \E requested_break \in BrkArgs : syscall_brk(requested_break)
    PROVE  Calm
<1>1. current \in Slots /\ process \in ProcessType
  BY CurrentProcess
<1>2. ASSUME NEW path, load_program(path), NEW c, ReplaceImage(path, c) PROVE Calm
  <2>1. NewImage(process, c) = [process EXCEPT !.brk = HEAP_BASE, !.cr3 = c]
    BY <1>1 DEF NewImage, ProcessType
  <2> QED
    BY <1>2, <2>1, ImageCalm, RamdiskAssumption DEF ReplaceImage, load_program
<1>3. ASSUME NEW requested_break, GrowHeap(requested_break), UNCHANGED <<next_pid, at, wstatus>> PROVE Calm
  <2>1. PICK b : processes' = [processes EXCEPT ![current] = [@ EXCEPT !.brk = b]]
    BY <1>3 DEF GrowHeap
  <2>2. [process EXCEPT !.brk = b] = [process EXCEPT !.brk = b, !.cr3 = process.cr3]
    BY <1>1 DEF ProcessType
  <2>3. processes' = [processes EXCEPT ![current] = [process EXCEPT !.brk = b, !.cr3 = process.cr3]]
    BY <1>1, <2>1, <2>2 DEF process, IInv, TypeOK
  <2> QED
    BY <1>3, <2>3, ImageCalm
<1> QED
  BY <1>2, <1>3, ReturnCalm, FailedLoad DEF syscall_execve, syscall_brk

(* Every step is calm, or starts, suspends, ends or removes one process. *)
LEMMA StepKinds ==
    ASSUME IInv, [Next]_vars
    PROVE  \/ Calm
           \/ \E s \in Slots : Starts(s) \/ Forks(s) \/ Reaps(s)
           \/ \E status \in Statuses : Resumes(status) \/ Halts(status)
<1> DEFINE Kinds == \/ Calm
                    \/ \E s \in Slots : Starts(s) \/ Forks(s) \/ Reaps(s)
                    \/ \E status \in Statuses : Resumes(status) \/ Halts(status)
<1>1. CASE UNCHANGED vars \/ Stopped \/ UserStep
  BY <1>1, StillCalm DEF vars, Stopped, UserStep, table, memory
<1>2. CASE xbks_process_start_init
  <2>1. ASSUME NEW s \in Slots, TakePid, NEW c \in Cr3 \ live, load_program(InitPath), StartInitProcess(s, c)
        PROVE  Starts(s)
    BY <1>2, <2>1, RamdiskAssumption DEF xbks_process_start_init, StartInitProcess, Starts, load_program
  <2> QED
    BY <1>2, <2>1, StillCalm, AbandonedSpace DEF xbks_process_start_init, TakePid, table, memory
<1>3. CASE syscall_vfork
  <2>1. ASSUME NEW s \in Slots, allocate_process(s), TakePid, NEW c \in Cr3 \ live, RunChild(s, c)
        PROVE  Forks(s)
    BY <1>3, <2>1 DEF syscall_vfork, RunChild, Forks, allocate_process
  <2> QED
    BY <1>3, <2>1, StillCalm, AbandonedSpace DEF syscall_vfork, TakePid, table, memory
<1>4. ASSUME NEW path \in UserStrings, syscall_execve(path) PROVE Kinds
  BY <1>4, ExecveBrkCalm DEF syscall_execve
<1>5. ASSUME NEW requested_break \in BrkArgs, syscall_brk(requested_break) PROVE Kinds
  BY <1>5, ExecveBrkCalm DEF syscall_brk
<1>6. ASSUME NEW pid \in PidArgs, NEW pointer \in Pointers, syscall_wait4(pid, pointer) PROVE Kinds
  <2>1. ASSUME NEW s \in Slots, FirstWaitable(s, pid), Reap(s), wstatus' \in {wstatus, processes[s].exit_status * 256}
        PROVE  Reaps(s)
    BY <1>6, <2>1 DEF syscall_wait4, FirstWaitable, Waitable, Reap, Reaps
  <2> QED
    BY <1>6, <2>1, ReturnCalm DEF syscall_wait4
<1>7. ASSUME NEW status \in Statuses, syscall_exit(status) PROVE Kinds
  BY <1>7 DEF syscall_exit, Resumes, Halts
<1>8. CASE FileCall \/ AnswerCall
  BY <1>8, FileCalm
<1> QED
  BY <1>1, <1>2, <1>3, <1>4, <1>5, <1>6, <1>7, <1>8 DEF Next, xbks_process_syscall_dispatch, ProcessCall

-----------------------------------------------------------------------------
(* Parents and saved contexts.                                             *)

(* When the process a ppid names is still in the table it is in the parent  *)
(* slot; a living process's parent is the one its vfork suspended.          *)
Parentage ==
    \A s \in Slots : IsUsed(s) =>
        /\ processes[s].ppid < next_pid
        /\ \A t \in Slots : IsUsed(t) /\ processes[t].pid = processes[s].ppid => processes[s].parent = t
        /\ IsAlive(s) /\ processes[s].vfork_parent # NULL =>
              processes[s].ppid = processes[processes[s].vfork_parent].pid

(* The CPU runs user code, and a parent resumes, in a user context. *)
Contexts ==
    /\ InUser => at \in Points
    /\ \A s \in Slots : IsAlive(s) /\ processes[s].vfork_parent # NULL =>
          processes[s].saved_parent_frame \in Points

KinInv == IInv /\ Parentage /\ Contexts

(* What the types say of a slot. *)
LEMMA SlotTypes ==
    ASSUME IInv, NEW s \in Slots
    PROVE  /\ processes[s] \in ProcessType
           /\ processes[s].pid \in Nat /\ processes[s].ppid \in Nat /\ next_pid \in Nat
           /\ processes[s].exit_status \in 0 .. 255
           /\ processes[s].vfork_parent \in Slots \cup {NULL}
           /\ IsAlive(s) => IsUsed(s)
           /\ IsUsed(s) => processes[s].pid \in 1 .. next_pid - 1
BY DEF IInv, TypeOK, LifeCycle, PidsDistinct, ProcessType, IsAlive, IsUsed

(* The process that a vfork suspended is BLOCKED. *)
LEMMA ParentBlocked ==
    ASSUME IInv, NEW s \in Slots, IsAlive(s), processes[s].vfork_parent # NULL
    PROVE  /\ processes[s].vfork_parent \in Slots
           /\ processes[processes[s].vfork_parent].state = "BLOCKED"
           /\ IsAlive(processes[s].vfork_parent) /\ IsUsed(processes[s].vfork_parent)
BY SlotTypes DEF IInv, LifeCycle, VforkChain, IsAlive, IsUsed

(* Pids tell used slots apart. *)
LEMMA PidSlot ==
    ASSUME IInv, NEW s \in Slots, NEW t \in Slots, IsUsed(s), IsUsed(t), processes[s].pid = processes[t].pid
    PROVE  s = t
BY DEF IInv, LifeCycle, PidsDistinct

(* The table after each kind of step. *)
LEMMA StartTable ==
    ASSUME IInv, NEW s \in Slots, Starts(s)
    PROVE  /\ \A t \in Slots : ~IsUsed(t) /\ ~IsAlive(t) /\ (t # s => processes'[t] = processes[t])
           /\ processes'[s].pid = next_pid /\ processes'[s].ppid = 0 /\ processes'[s].state = "RUNNING"
           /\ processes'[s].vfork_parent = NULL
<1>1. \A t \in Slots : ~IsUsed(t)
  BY DEF Starts, IInv, LifeCycle
<1>2. \A t \in Slots : t # s => processes'[t] = processes[t]
  BY DEF Starts, IInv, TypeOK
<1>3. PICK c \in Cr3 : processes'[s] = InitProcess(c)
  BY DEF Starts, IInv, TypeOK
<1> QED
  BY <1>1, <1>2, <1>3 DEF InitProcess, IsUsed, IsAlive

(* vfork fills an unused slot and blocks the caller. *)
LEMMA ForkTable ==
    ASSUME IInv, NEW s \in Slots, Forks(s)
    PROVE  /\ \A t \in Slots \ {s, current} : processes'[t] = processes[t]
           /\ s # current
           /\ processes'[current].state = "BLOCKED"
           /\ processes'[current].pid = process.pid /\ processes'[current].ppid = process.ppid
           /\ processes'[current].parent = process.parent
           /\ processes'[current].vfork_parent = process.vfork_parent
           /\ processes'[current].saved_parent_frame = process.saved_parent_frame
           /\ processes'[s].pid = next_pid /\ processes'[s].ppid = process.pid
           /\ processes'[s].state = "RUNNING" /\ processes'[s].parent = current
           /\ processes'[s].vfork_parent = current /\ processes'[s].saved_parent_frame = at
<1>1. current \in Slots /\ process \in ProcessType /\ IsUsed(current) /\ s # current
  BY CurrentProcess DEF Forks
<1>2. PICK c \in Cr3 : processes' = [processes EXCEPT ![s] = ForkedProcess(c), ![current] = Suspended(process)]
  BY DEF Forks
<1>3. /\ \A t \in Slots \ {s, current} : processes'[t] = processes[t]
      /\ processes'[s] = ForkedProcess(c) /\ processes'[current] = Suspended(process)
  BY <1>1, <1>2 DEF IInv, TypeOK
<1> QED
  BY <1>1, <1>3 DEF ForkedProcess, Suspended, ProcessType

(* exit makes the caller a zombie, and its vfork parent RUNNING if it has one. *)
LEMMA ExitTable ==
    ASSUME IInv, NEW status \in Statuses, Resumes(status) \/ Halts(status)
    PROVE  /\ current \in Slots /\ process \in ProcessType /\ process.state = "RUNNING"
           /\ Resumes(status) => process.vfork_parent \in Slots \ {current}
           /\ \A t \in Slots :
                 /\ processes'[t].pid = processes[t].pid /\ processes'[t].ppid = processes[t].ppid
                 /\ processes'[t].parent = processes[t].parent
                 /\ processes'[t].vfork_parent = processes[t].vfork_parent
                 /\ processes'[t].saved_parent_frame = processes[t].saved_parent_frame
                 /\ t # current => processes'[t].exit_status = processes[t].exit_status
                 /\ processes'[t].state = IF t = current THEN "ZOMBIE"
                                          ELSE IF Resumes(status) /\ t = process.vfork_parent THEN "RUNNING"
                                          ELSE processes[t].state
           /\ processes'[current].exit_status \in 0 .. 255
<1>1. current \in Slots /\ process \in ProcessType /\ IsAlive(current) /\ process.state = "RUNNING"
  BY CurrentProcess DEF Resumes, Halts
<1>2. /\ Resumes(status) => process.vfork_parent \in Slots \ {current}
      /\ Halts(status) => ~Resumes(status)
  BY <1>1, ParentBlocked DEF Resumes, Halts, ResumeParent, InitExits, process
<1>3. /\ Exited(process, status) = [process EXCEPT !.state = "ZOMBIE", !.exit_status = status % 256]
      /\ status % 256 \in 0 .. 255
  BY ArgumentsAssumption DEF Exited
<1>4. ASSUME NEW t \in Slots
      PROVE  processes'[t] = IF t = current THEN Exited(process, status)
                             ELSE IF Resumes(status) /\ t = process.vfork_parent
                             THEN [processes[t] EXCEPT !.state = "RUNNING"] ELSE processes[t]
  BY <1>1, <1>2 DEF Resumes, Halts, ResumeParent, InitExits, IInv, TypeOK
<1>5. \A t \in Slots : processes[t] \in ProcessType
  BY DEF IInv, TypeOK
<1>6. ASSUME NEW t \in Slots, NEW p, p = processes'[t]
      PROVE  /\ p.pid = processes[t].pid /\ p.ppid = processes[t].ppid
             /\ p.parent = processes[t].parent /\ p.vfork_parent = processes[t].vfork_parent
             /\ p.saved_parent_frame = processes[t].saved_parent_frame
             /\ t # current => p.exit_status = processes[t].exit_status
             /\ t = current => p.exit_status \in 0 .. 255
             /\ p.state = IF t = current THEN "ZOMBIE"
                          ELSE IF Resumes(status) /\ t = process.vfork_parent THEN "RUNNING"
                          ELSE processes[t].state
  <2>1. CASE t = current
    <3>1. p = [process EXCEPT !.state = "ZOMBIE", !.exit_status = status % 256]
      BY <1>3, <1>4, <1>6, <2>1
    <3>2. /\ p.pid = process.pid /\ p.ppid = process.ppid /\ p.parent = process.parent
          /\ p.vfork_parent = process.vfork_parent /\ p.saved_parent_frame = process.saved_parent_frame
          /\ p.state = "ZOMBIE" /\ p.exit_status = status % 256
      BY <1>1, <3>1 DEF ProcessType
    <3> QED
      BY <1>3, <2>1, <3>2 DEF process
  <2>2. CASE t # current /\ Resumes(status) /\ t = process.vfork_parent
    <3>1. p = [processes[t] EXCEPT !.state = "RUNNING"] /\ processes[t] \in ProcessType
      BY <1>4, <1>5, <1>6, <2>2
    <3>2. /\ p.pid = processes[t].pid /\ p.ppid = processes[t].ppid
          /\ p.parent = processes[t].parent /\ p.vfork_parent = processes[t].vfork_parent
          /\ p.saved_parent_frame = processes[t].saved_parent_frame
          /\ p.exit_status = processes[t].exit_status /\ p.state = "RUNNING"
      BY <3>1 DEF ProcessType
    <3> QED
      BY <2>2, <3>2
  <2>3. CASE t # current /\ ~(Resumes(status) /\ t = process.vfork_parent)
    <3>1. p = processes[t]
      BY <1>4, <1>6, <2>3
    <3> QED
      BY <2>3, <3>1
  <2> QED
    BY <2>1, <2>2, <2>3
<1> QED
  BY <1>1, <1>2, <1>6

(* wait4 clears one slot. *)
LEMMA ReapTable ==
    ASSUME IInv, NEW s \in Slots, Reaps(s)
    PROVE  processes'[s].state = "UNUSED" /\ \A t \in Slots \ {s} : processes'[t] = processes[t]
BY DEF Reaps, IInv, TypeOK, ZeroProcess

(* A step keeps the parentage and the contexts. *)
LEMMA KinStep ==
    ASSUME KinInv, [Next]_vars
    PROVE  KinInv'
<1> USE DEF KinInv
<1>1. IInv'
  BY InductiveStep
<1>2. CASE Calm
  <2>1. \A s \in Slots : IsUsed(s)' = IsUsed(s) /\ IsAlive(s)' = IsAlive(s)
    BY <1>2 DEF Calm, SameKin, IsUsed, IsAlive
  <2>2. next_pid <= next_pid' /\ next_pid \in Nat /\ next_pid' \in Nat /\ \A s \in Slots : processes[s].ppid \in Nat
    BY <1>2, SlotTypes DEF Calm, IInv, TypeOK
  <2>3. Parentage'
    <3> SUFFICES ASSUME NEW s \in Slots, IsUsed(s)
                 PROVE  /\ processes'[s].ppid < next_pid'
                        /\ \A t \in Slots : IsUsed(t) /\ processes'[t].pid = processes'[s].ppid =>
                               processes'[s].parent = t
                        /\ IsAlive(s) /\ processes'[s].vfork_parent # NULL =>
                               processes'[s].ppid = processes'[processes'[s].vfork_parent].pid
      BY <2>1 DEF Parentage
    <3>1. processes'[s].ppid < next_pid'
      BY <1>2, <2>2 DEF Parentage, Calm, SameKin
    <3>2. \A t \in Slots : IsUsed(t) /\ processes'[t].pid = processes'[s].ppid => processes'[s].parent = t
      BY <1>2 DEF Parentage, Calm, SameKin
    <3>3. ASSUME IsAlive(s), processes'[s].vfork_parent # NULL
          PROVE  processes'[s].ppid = processes'[processes'[s].vfork_parent].pid
      BY <1>2, <3>3, ParentBlocked DEF Parentage, Calm, SameKin
    <3> QED
      BY <3>1, <3>2, <3>3
  <2>4. Contexts'
    <3>1. InUser' => at' \in Points
      BY <1>2 DEF Calm, Contexts, InUser
    <3> QED
      BY <1>2, <2>1, <3>1 DEF Calm, SameKin, Contexts
  <2> QED
    BY <1>1, <2>3, <2>4
<1>3. ASSUME NEW s \in Slots, Starts(s) PROVE KinInv'
  <2>1. next_pid \in Nat \ {0} /\ next_pid' = next_pid + 1 /\ at' \in Points
    BY <1>3 DEF Starts, TakePid, IInv, TypeOK
  <2>2. \A t \in Slots : IsUsed(t)' <=> t = s
    BY <1>3, StartTable DEF IsUsed
  <2>3. \A t \in Slots : IsAlive(t)' => t = s
    BY <1>3, StartTable DEF IsAlive
  <2>4. Parentage'
    BY <1>3, <2>1, <2>2, <2>3, StartTable DEF Parentage
  <2>5. Contexts'
    BY <1>3, <2>1, <2>3, StartTable DEF Contexts
  <2> QED
    BY <1>1, <2>4, <2>5
<1>4. ASSUME NEW s \in Slots, Forks(s) PROVE KinInv'
  <2>1. /\ current \in Slots /\ IsUsed(current) /\ IsAlive(current) /\ ~IsUsed(s) /\ s # current
        /\ next_pid \in Nat /\ next_pid' = next_pid + 1 /\ at' = at /\ at \in Points
    BY <1>4, CurrentProcess DEF Forks, TakePid, IInv, TypeOK, Contexts
  <2>2. \A t \in Slots : IsUsed(t)' <=> IsUsed(t) \/ t = s
    BY <1>4, <2>1, ForkTable DEF IsUsed
  <2>3. \A t \in Slots : IsAlive(t)' <=> IsAlive(t) \/ t = s
    BY <1>4, <2>1, ForkTable DEF IsAlive
  <2>4. \A t \in Slots \ {s} : /\ processes'[t].pid = processes[t].pid /\ processes'[t].ppid = processes[t].ppid
                               /\ processes'[t].parent = processes[t].parent
                               /\ processes'[t].vfork_parent = processes[t].vfork_parent
                               /\ processes'[t].saved_parent_frame = processes[t].saved_parent_frame
    BY <1>4, ForkTable DEF process
  <2>5. ASSUME NEW t \in Slots, IsUsed(t)
        PROVE  /\ processes'[t].ppid < next_pid'
               /\ \A u \in Slots : IsUsed(u)' /\ processes'[u].pid = processes'[t].ppid => processes'[t].parent = u
               /\ IsAlive(t) /\ processes'[t].vfork_parent # NULL =>
                      processes'[t].ppid = processes'[processes'[t].vfork_parent].pid
    <3>1. t # s /\ processes[t].ppid \in Nat /\ processes[t].ppid < next_pid
      BY <2>1, <2>5, SlotTypes DEF Parentage
    <3>2. ASSUME NEW u \in Slots, IsUsed(u)', processes'[u].pid = processes'[t].ppid PROVE processes'[t].parent = u
      BY <1>4, <2>1, <2>2, <2>4, <2>5, <3>1, <3>2, ForkTable DEF Parentage
    <3>3. ASSUME IsAlive(t), processes'[t].vfork_parent # NULL
          PROVE  processes'[t].ppid = processes'[processes'[t].vfork_parent].pid
      BY <2>1, <2>4, <2>5, <3>1, <3>3, ParentBlocked DEF Parentage
    <3> QED
      BY <2>1, <2>4, <3>1, <3>2, <3>3
  <2>6. /\ processes'[s].ppid < next_pid'
        /\ \A u \in Slots : IsUsed(u)' /\ processes'[u].pid = processes'[s].ppid => processes'[s].parent = u
        /\ processes'[s].ppid = processes'[processes'[s].vfork_parent].pid
    <3>1. process.pid \in 1 .. next_pid - 1
      BY <2>1, SlotTypes DEF process
    <3> QED
      BY <1>4, <2>1, <2>2, <2>4, <3>1, ForkTable, PidSlot DEF process
  <2>7. Parentage'
    BY <2>1, <2>2, <2>3, <2>5, <2>6, SlotTypes DEF Parentage
  <2>8. Contexts'
    BY <1>4, <2>1, <2>3, <2>4, ForkTable DEF Contexts
  <2> QED
    BY <1>1, <2>7, <2>8
<1>5. ASSUME NEW status \in Statuses, Resumes(status) \/ Halts(status) PROVE KinInv'
  <2>1. \A t \in Slots : (IsUsed(t)' <=> IsUsed(t)) /\ (IsAlive(t)' => IsAlive(t))
    BY <1>5, ExitTable, CurrentProcess, ParentBlocked DEF IsUsed, IsAlive, Resumes, Halts, ResumeParent, process
  <2>2. next_pid' = next_pid
    BY <1>5 DEF Resumes, Halts
  <2>3. ASSUME NEW t \in Slots, IsAlive(t), processes[t].vfork_parent # NULL
        PROVE  processes'[t].ppid = processes'[processes'[t].vfork_parent].pid
    BY <1>5, <2>3, ExitTable, ParentBlocked, SlotTypes DEF Parentage
  <2>4. Parentage'
    BY <1>5, <2>1, <2>2, <2>3, ExitTable DEF Parentage
  <2>5. InUser' => at' \in Points
    BY <1>5, CurrentProcess DEF Contexts, Resumes, Halts, ResumeParent, InitExits, InUser, process
  <2>6. Contexts'
    BY <1>5, <2>1, <2>5, ExitTable DEF Contexts
  <2> QED
    BY <1>1, <2>4, <2>6
<1>6. ASSUME NEW s \in Slots, Reaps(s) PROVE KinInv'
  <2>1. \A t \in Slots : (IsUsed(t)' <=> IsUsed(t) /\ t # s) /\ (IsAlive(t)' <=> IsAlive(t))
    BY <1>6, ReapTable DEF IsUsed, IsAlive, Reaps
  <2>2. \A t \in Slots : IsAlive(t) => t # s
    BY <1>6 DEF Reaps, IsAlive
  <2>3. ASSUME NEW t \in Slots, IsAlive(t), processes[t].vfork_parent # NULL
        PROVE  processes[t].vfork_parent \in Slots \ {s}
    BY <2>2, <2>3, ParentBlocked
  <2>4. Parentage'
    BY <1>6, <2>1, <2>2, <2>3, ReapTable DEF Parentage, Reaps
  <2>5. Contexts'
    BY <1>6, <2>1, <2>2, ReapTable DEF Contexts, Reaps
  <2> QED
    BY <1>1, <2>4, <2>5
<1> QED
  BY <1>2, <1>3, <1>4, <1>5, <1>6, StepKinds

-----------------------------------------------------------------------------
(* The mapping.                                                            *)

(* What Calls, Zombies and Resume hold, slot by slot. *)
View ==
    /\ \A p : p \in Calls <=> \E s \in Slots : IsAlive(s) /\ p = processes[s].pid
    /\ \A z : z \in Zombies <=> \E s \in Slots : processes[s].state = "ZOMBIE" /\ z = Remains(s)
    /\ Resume = [p \in DOMAIN Resume |-> Resume[p]]
    /\ \A p : p \in DOMAIN Resume <=> \E s \in Slots : processes[s].state = "BLOCKED" /\ p = processes[s].pid
    /\ \A c \in Slots : IsAlive(c) /\ processes[c].vfork_parent # NULL =>
          Resume[processes[processes[c].vfork_parent].pid] = processes[c].saved_parent_frame

(* A suspended pid has one resumer, so CHOOSE finds it. *)
LEMMA ViewHolds == IInv => View
<1> SUFFICES ASSUME IInv PROVE View
  OBVIOUS
<1>1. \A p : p \in Calls <=> \E s \in Slots : IsAlive(s) /\ p = processes[s].pid
  BY DEF Calls, PidsIn, IsAlive
<1>2. \A z : z \in Zombies <=> \E s \in Slots : processes[s].state = "ZOMBIE" /\ z = Remains(s)
  BY DEF Zombies
<1>3. \A p : p \in DOMAIN Resume <=> \E s \in Slots : processes[s].state = "BLOCKED" /\ p = processes[s].pid
  BY DEF Resume, PidsIn
<1>4. Resume = [p \in DOMAIN Resume |-> Resume[p]]
  BY DEF Resume
<1>5. ASSUME NEW c \in Slots, IsAlive(c), processes[c].vfork_parent # NULL
      PROVE  Resume[processes[processes[c].vfork_parent].pid] = processes[c].saved_parent_frame
  <2> DEFINE parent == processes[c].vfork_parent
             p == processes[parent].pid
  <2>1. parent \in Slots /\ processes[parent].state = "BLOCKED" /\ IsUsed(parent)
    BY <1>5, ParentBlocked
  <2>2. ASSUME NEW d \in Slots, IsAlive(d), processes[d].vfork_parent # NULL,
               processes[processes[d].vfork_parent].pid = p
        PROVE  d = c
    <3>1. processes[d].vfork_parent = parent
      BY <2>1, <2>2, ParentBlocked, PidSlot
    <3> QED
      BY <1>5, <2>2, <3>1, OneChildEach
  <2>3. Resumer(p) = c
    BY <1>5, <2>2 DEF Resumer
  <2>4. p \in PidsIn({"BLOCKED"})
    BY <2>1 DEF PidsIn
  <2> QED
    BY <2>3, <2>4 DEF Resume
<1> QED
  BY <1>1, <1>2, <1>3, <1>4, <1>5 DEF View

(* Every suspended pid has a resumer. *)
LEMMA Suspender ==
    ASSUME IInv, NEW s \in Slots, processes[s].state = "BLOCKED"
    PROVE  \E c \in Slots : IsAlive(c) /\ processes[c].vfork_parent = s
BY DEF IInv, LifeCycle, NobodyStranded

(* The mapping after a step. *)
LEMMA ViewNext == IInv' => View'
BY ViewHolds, PTL

(* The current process is the last one called. *)
LEMMA TopCall ==
    ASSUME IInv, InUser
    PROVE  process.pid \in Calls /\ \A q \in Calls : q <= process.pid
<1>1. View /\ IsAlive(current) /\ current \in Slots
  BY ViewHolds, CurrentProcess
<1> QED
  BY <1>1 DEF View, IInv, LifeCycle, VforkChain, process, InUser

(* When each slot keeps its place, calls, zombies and contexts stay. *)
LEMMA CalmView ==
    ASSUME IInv, IInv', \A s \in Slots : SameKin(s)
    PROVE  UNCHANGED <<Calls, Resume, Zombies>>
<1>1. View /\ View'
  BY ViewHolds, ViewNext
<1>2. \A s \in Slots : IsAlive(s)' = IsAlive(s)
  BY DEF SameKin, IsAlive
<1>3. Calls' = Calls
  <2>1. \A p : p \in Calls' <=> p \in Calls
    BY <1>1, <1>2 DEF View, SameKin
  <2> QED
    BY <2>1 DEF Calls, PidsIn
<1>4. Zombies' = Zombies
  <2>1. \A s \in Slots : Remains(s)' = Remains(s)
    BY DEF Remains, SameKin
  <2>2. \A z : z \in Zombies' <=> z \in Zombies
    BY <1>1, <2>1 DEF View, SameKin
  <2> QED
    BY <2>2 DEF Zombies
<1>5. DOMAIN Resume' = DOMAIN Resume
  <2>1. \A p : p \in DOMAIN Resume' <=> p \in DOMAIN Resume
    BY <1>1 DEF View, SameKin
  <2> QED
    BY <2>1 DEF Resume, PidsIn
<1>6. ASSUME NEW p \in DOMAIN Resume PROVE Resume'[p] = Resume[p]
  <2>1. PICK s \in Slots : processes[s].state = "BLOCKED" /\ p = processes[s].pid
    BY <1>1 DEF View
  <2>2. PICK c \in Slots : IsAlive(c) /\ processes[c].vfork_parent = s
    BY <2>1, Suspender
  <2>3. Resume[p] = processes[c].saved_parent_frame
    BY <1>1, <2>1, <2>2 DEF View
  <2>4. Resume'[p] = processes'[c].saved_parent_frame
    BY <1>1, <1>2, <2>1, <2>2 DEF View, SameKin
  <2> QED
    BY <2>3, <2>4 DEF SameKin
<1>7. Resume' = Resume
  BY <1>1, <1>5, <1>6 DEF View
<1> QED
  BY <1>3, <1>4, <1>7

-----------------------------------------------------------------------------
(* Each kind of step is a step of VforkCalls.                              *)

(* A calm step is a step of the running process, or stutters. *)
LEMMA CalmMaps ==
    ASSUME KinInv, KinInv', Calm
    PROVE  [Family!Next]_Family!vars
<1>1. UNCHANGED <<Calls, Resume, Zombies>>
  BY CalmView DEF KinInv, Calm
<1>2. CASE UNCHANGED <<at, rax>>
  BY <1>1, <1>2 DEF Calm, Family!vars
<1>3. CASE InUser /\ at' \in {at} \cup Points
  <2>1. at' \in Points /\ rax' \in Int
    BY <1>3 DEF KinInv, IInv, TypeOK, Contexts
  <2>2. Calls # {}
    BY <1>3, TopCall DEF KinInv
  <2> QED
    BY <1>1, <2>1, <2>2 DEF Calm, Family!Next, Family!Run
<1> QED
  BY <1>2, <1>3 DEF Calm

(* Starting init is the boot step. *)
LEMMA StartMaps ==
    ASSUME IInv, IInv', NEW s \in Slots, Starts(s)
    PROVE  Family!Boot
<1>1. View /\ View'
  BY ViewHolds, ViewNext
<1>2. /\ \A t \in Slots : ~IsAlive(t) /\ processes[t].state = "UNUSED"
      /\ \A t \in Slots \ {s} : ~IsAlive(t)' /\ processes'[t].state = "UNUSED"
      /\ IsAlive(s)' /\ processes'[s].state = "RUNNING" /\ processes'[s].pid = next_pid
  BY StartTable DEF IsUsed, IsAlive
<1>3. Calls = {} /\ Zombies = {} /\ Zombies' = {} /\ DOMAIN Resume = {} /\ DOMAIN Resume' = {}
  BY <1>1, <1>2 DEF View
<1>4. Resume' = Resume
  BY <1>1, <1>3 DEF View
<1>5. Calls' = {next_pid} /\ next_pid \in Nat \ {0}
  <2>1. \A p : p \in Calls' <=> p = next_pid
    BY <1>1, <1>2 DEF View
  <2> QED
    BY <2>1 DEF IInv, TypeOK
<1> QED
  BY <1>3, <1>4, <1>5 DEF Family!Boot, Starts

(* vfork suspends the running process and calls a new one. *)
LEMMA ForkMaps ==
    ASSUME KinInv, KinInv', NEW s \in Slots, Forks(s)
    PROVE  Family!Call
<1> USE DEF KinInv
<1>1. View /\ View'
  BY ViewHolds, ViewNext
<1>2. /\ InUser /\ current \in Slots /\ IsAlive(current) /\ IsUsed(current) /\ ~IsUsed(s) /\ ~IsAlive(s) /\ s # current
      /\ process.state = "RUNNING" /\ \A t \in Slots : IsAlive(t) /\ t # current => processes[t].state = "BLOCKED"
  BY CurrentProcess DEF Forks, IsUsed, IsAlive, IInv, LifeCycle, OneRunning, InUser
<1>3. \A t \in Slots : (IsAlive(t)' <=> IsAlive(t) \/ t = s) /\ (processes'[t].state = "BLOCKED" <=> IsAlive(t))
  BY <1>2, ForkTable DEF IsAlive, IsUsed
<1>4. \A t \in Slots : processes'[t].pid = IF t = s THEN next_pid ELSE processes[t].pid
  BY ForkTable DEF process
<1>5. Calls' = Calls \cup {next_pid}
  <2>1. \A p : p \in Calls' <=> p \in Calls \/ p = next_pid
    BY <1>1, <1>2, <1>3, <1>4 DEF View
  <2> QED
    BY <2>1
<1>6. Zombies' = Zombies
  <2>1. \A t \in Slots : processes[t].state = "ZOMBIE" \/ processes'[t].state = "ZOMBIE" =>
            t \notin {s, current} /\ processes'[t] = processes[t]
    BY <1>2, ForkTable DEF IsUsed, process
  <2>2. \A t \in Slots : processes[t].state = "ZOMBIE" => Remains(t)' = Remains(t)
    BY <2>1 DEF Remains
  <2>3. \A z : z \in Zombies' <=> z \in Zombies
    BY <1>1, <2>1, <2>2 DEF View
  <2> QED
    BY <2>3 DEF Zombies
<1>7. DOMAIN Resume' = Calls
  <2>1. \A p : p \in DOMAIN Resume' <=> p \in Calls
    BY <1>1, <1>2, <1>3, <1>4 DEF View
  <2> QED
    BY <2>1 DEF Resume, Calls, PidsIn
<1>8. ASSUME NEW q \in Calls PROVE Resume'[q] = IF q = process.pid THEN at ELSE Resume[q]
  <2>1. CASE q = process.pid
    <3>1. /\ IsAlive(s)' /\ processes'[s].vfork_parent = current /\ processes'[s].saved_parent_frame = at
          /\ processes'[current].pid = q
      BY <1>3, <2>1, ForkTable
    <3> QED
      BY <1>1, <1>2, <2>1, <3>1 DEF View
  <2>2. CASE q # process.pid
    <3>1. PICK t \in Slots : IsAlive(t) /\ q = processes[t].pid /\ t # current
      BY <1>1, <2>2 DEF View, process
    <3>2. PICK c \in Slots : IsAlive(c) /\ processes[c].vfork_parent = t
      BY <1>2, <3>1, Suspender
    <3>3. /\ IsAlive(c)' /\ processes'[c].vfork_parent = t /\ processes'[t].pid = q
          /\ processes'[c].saved_parent_frame = processes[c].saved_parent_frame
      BY <1>2, <1>3, <1>4, <3>1, <3>2, ForkTable DEF process
    <3> QED
      BY <1>1, <2>2, <3>1, <3>2, <3>3 DEF View
  <2> QED
    BY <2>1, <2>2
<1>9. Resume' = [q \in Calls |-> IF q = process.pid THEN at ELSE Resume[q]]
  BY <1>1, <1>7, <1>8 DEF View
<1>10. next_pid \in Nat /\ process.pid < next_pid
  BY <1>2, SlotTypes DEF process
<1>11. next_pid \notin {z.pid : z \in Zombies}
  <2> SUFFICES ASSUME NEW z \in Zombies PROVE z.pid # next_pid
    OBVIOUS
  <2>1. PICK t \in Slots : processes[t].state = "ZOMBIE" /\ z = Remains(t)
    BY <1>1 DEF View
  <2> QED
    BY <2>1, SlotTypes DEF Remains, IsUsed
<1> QED
  BY <1>2, <1>5, <1>6, <1>9, <1>10, <1>11, TopCall DEF Family!Call, Family!IsTop, Family!ZombiePids, Forks

(* exit adds the caller to the zombies and takes it off the calls. *)
LEMMA ExitMaps ==
    ASSUME KinInv, KinInv', NEW status \in Statuses, Resumes(status) \/ Halts(status),
           NEW zombie \in Slots, zombie = current
    PROVE  /\ Calls' = Calls \ {process.pid}
           /\ Zombies' = Zombies \cup {Remains(zombie)'}
           /\ Remains(zombie)'.pid = process.pid /\ Remains(zombie)'.ppid = process.ppid
           /\ Remains(zombie)'.status \in 0 .. 255
<1> USE DEF KinInv
<1>1. View /\ View'
  BY ViewHolds, ViewNext
<1>2. current \in Slots /\ IsAlive(current) /\ IsUsed(current) /\ process.state = "RUNNING"
  BY CurrentProcess DEF Resumes, Halts
<1>3. \A t \in Slots : IsAlive(t)' <=> IsAlive(t) /\ t # current
  BY <1>2, ExitTable, ParentBlocked DEF IsAlive, Resumes, ResumeParent, process
<1>4. Calls' = Calls \ {process.pid}
  <2>1. \A t \in Slots : IsAlive(t) /\ processes[t].pid = process.pid => t = current
    BY <1>2, PidSlot, SlotTypes DEF process
  <2>2. \A p : p \in Calls' <=> p \in Calls /\ p # process.pid
    BY <1>1, <1>2, <1>3, <2>1, ExitTable DEF View, process
  <2> QED
    BY <2>2
<1>5. Zombies' = Zombies \cup {Remains(zombie)'}
  <2>1. \A t \in Slots : processes'[t].state = "ZOMBIE" <=> processes[t].state = "ZOMBIE" \/ t = current
    BY <1>2, ExitTable, ParentBlocked DEF Resumes, ResumeParent, process
  <2>2. \A t \in Slots : t # current => Remains(t)' = Remains(t)
    BY ExitTable DEF Remains
  <2>3. \A z : z \in Zombies' <=> z \in Zombies \/ z = Remains(zombie)'
    BY <1>1, <1>2, <2>1, <2>2 DEF View, process
  <2> QED
    BY <2>3
<1> QED
  BY <1>2, <1>4, <1>5, ExitTable DEF Remains, process

(* The exit of a called process returns to its caller. *)
LEMMA ResumeMaps ==
    ASSUME KinInv, KinInv', NEW status \in Statuses, Resumes(status)
    PROVE  Family!Exit
<1> USE DEF KinInv
<1> DEFINE parent == process.vfork_parent
           p == process.pid
           q == processes[parent].pid
<1>1. View /\ View'
  BY ViewHolds, ViewNext
<1>2. /\ InUser /\ current \in Slots /\ IsAlive(current) /\ IsUsed(current) /\ parent # NULL
      /\ \A t \in Slots : IsAlive(t) /\ t # current => processes[t].state = "BLOCKED"
  BY CurrentProcess DEF Resumes, ResumeParent, IsAlive, IInv, LifeCycle, OneRunning, InUser
<1>3. /\ parent \in Slots \ {current} /\ processes[parent].state = "BLOCKED" /\ IsAlive(parent) /\ IsUsed(parent)
      /\ process.ppid = q
  BY <1>2, ExitTable, ParentBlocked DEF Parentage, process
<1>4. q \in Calls \ {p} /\ \A r \in Calls \ {p} : r <= q
  <2>1. q \in Calls /\ q # p
    BY <1>1, <1>2, <1>3, PidSlot DEF View, process
  <2>2. ASSUME NEW r \in Calls, r # p PROVE r <= q
    <3>1. PICK t \in Slots : IsAlive(t) /\ r = processes[t].pid
      BY <1>1 DEF View
    <3>2. processes[t].pid <= q \/ processes[t].pid >= p
      BY <1>2, <3>1 DEF IInv, LifeCycle, VforkChain, process
    <3>3. r <= p /\ r \in Nat /\ p \in Nat
      BY <1>2, <3>1, TopCall, SlotTypes DEF process
    <3> QED
      BY <2>2, <3>1, <3>2, <3>3
  <2> QED
    BY <2>1, <2>2
<1>5. \A t \in Slots : processes'[t].state = "BLOCKED" <=> IsAlive(t) /\ t # current /\ t # parent
  BY <1>2, <1>3, ExitTable DEF IsAlive
<1>6. DOMAIN Resume' = Calls \ {p, q}
  <2>1. \A t \in Slots : IsAlive(t) => (t = current <=> processes[t].pid = p) /\ (t = parent <=> processes[t].pid = q)
    BY <1>2, <1>3, PidSlot, SlotTypes DEF process
  <2>2. \A r : r \in DOMAIN Resume' <=> r \in Calls /\ r # p /\ r # q
    BY <1>1, <1>5, <2>1, ExitTable DEF View
  <2> QED
    BY <2>2 DEF Resume, PidsIn
<1>7. ASSUME NEW r \in Calls \ {p, q} PROVE Resume'[r] = Resume[r]
  <2>1. PICK t \in Slots : IsAlive(t) /\ r = processes[t].pid /\ t # current /\ t # parent
    BY <1>1, <1>7 DEF View, process
  <2>2. PICK c \in Slots : IsAlive(c) /\ processes[c].vfork_parent = t
    BY <1>2, <2>1, Suspender
  <2>3. /\ IsAlive(c)' /\ processes'[c].vfork_parent = t /\ processes'[t].pid = r
        /\ processes'[c].saved_parent_frame = processes[c].saved_parent_frame
    BY <1>2, <1>3, <2>1, <2>2, ExitTable DEF IsAlive, process
  <2> QED
    BY <1>1, <2>1, <2>2, <2>3 DEF View
<1>8. Resume' = [r \in Calls \ {p, q} |-> Resume[r]]
  BY <1>1, <1>6, <1>7 DEF View
<1>9. at' = Resume[q] /\ rax' = p /\ wstatus' = wstatus
  BY <1>1, <1>2 DEF View, Resumes, ResumeParent, process
<1>10. \E z \in Zombies' : /\ z.pid = p /\ z.ppid = q /\ z.status \in 0 .. 255
                           /\ Calls' = Calls \ {p} /\ Zombies' = Zombies \cup {z}
  BY <1>2, <1>3, ExitMaps
<1>11. p \in Calls /\ \A r \in Calls : r <= p
  BY <1>2, TopCall
<1> QED
  BY <1>4, <1>8, <1>9, <1>10, <1>11 DEF Family!Exit, Family!IsTop, Family!IsCaller

(* The exit of init is the end. *)
LEMMA HaltMaps ==
    ASSUME KinInv, KinInv', NEW status \in Statuses, Halts(status)
    PROVE  Family!Halt
<1> USE DEF KinInv
<1>1. View /\ View'
  BY ViewHolds, ViewNext
<1>2. /\ InUser /\ current \in Slots /\ IsAlive(current) /\ IsUsed(current) /\ process.vfork_parent = NULL
      /\ process.state = "RUNNING"
  BY CurrentProcess DEF Halts, InitExits
<1>3. \A t \in Slots : IsAlive(t) => t = current
  <2> SUFFICES ASSUME NEW t \in Slots, IsAlive(t) PROVE t = current
    OBVIOUS
  <2>1. processes[t].pid >= process.pid /\ processes[t].pid <= process.pid
    BY <1>2 DEF IInv, LifeCycle, VforkChain, InUser, process
  <2>2. processes[t].pid \in Nat /\ process.pid \in Nat /\ IsUsed(t)
    BY <1>2, SlotTypes DEF process
  <2> QED
    BY <1>2, <2>1, <2>2, PidSlot DEF process
<1>4. Calls = {process.pid}
  <2>1. \A p : p \in Calls <=> p = process.pid
    BY <1>1, <1>2, <1>3 DEF View, process
  <2> QED
    BY <2>1
<1>5. DOMAIN Resume = {} /\ DOMAIN Resume' = {}
  <2>1. \A t \in Slots : processes[t].state # "BLOCKED" /\ processes'[t].state # "BLOCKED"
    <3>1. ~Resumes(status)
      BY DEF Halts, InitExits, Resumes, ResumeParent
    <3>2. \A t \in Slots : processes[t].state # "BLOCKED"
      BY <1>2, <1>3 DEF IsAlive, process
    <3> QED
      BY <3>1, <3>2, ExitTable
  <2>2. \A p : p \notin DOMAIN Resume /\ p \notin DOMAIN Resume'
    BY <1>1, <2>1 DEF View
  <2> QED
    BY <2>2
<1>6. Resume' = Resume
  BY <1>1, <1>5 DEF View
<1>7. Calls' = {} /\ \E z \in Zombies' : z.pid = process.pid /\ z.status \in 0 .. 255 /\ Zombies' = Zombies \cup {z}
  BY <1>2, <1>4, ExitMaps
<1> QED
  BY <1>4, <1>6, <1>7 DEF Family!Halt, Halts, InitExits

(* wait4 reaps one zombie: a child, or an orphan whose parent is gone. *)
LEMMA ReapMaps ==
    ASSUME KinInv, KinInv', NEW s \in Slots, Reaps(s)
    PROVE  Family!Wait
<1> USE DEF KinInv
<1>1. View /\ View'
  BY ViewHolds, ViewNext
<1>2. InUser /\ current \in Slots /\ IsUsed(current) /\ processes[s].state = "ZOMBIE" /\ IsUsed(s) /\ ~IsAlive(s)
  BY CurrentProcess DEF Reaps, IsUsed, IsAlive
<1>3. \A t \in Slots : t # s => processes'[t] = processes[t] /\ (IsAlive(t)' <=> IsAlive(t))
  BY ReapTable DEF IsAlive
<1>4. ~IsAlive(s)' /\ processes'[s].state = "UNUSED"
  BY ReapTable DEF IsAlive
<1>5. Calls' = Calls
  <2>1. \A p : p \in Calls' <=> p \in Calls
    BY <1>1, <1>2, <1>3, <1>4 DEF View
  <2> QED
    BY <2>1 DEF Calls, PidsIn
<1>6. Resume' = Resume
  <2>1. \A p : p \in DOMAIN Resume' <=> p \in DOMAIN Resume
    BY <1>1, <1>2, <1>3, <1>4 DEF View
  <2>2. DOMAIN Resume' = DOMAIN Resume
    BY <2>1 DEF Resume, PidsIn
  <2>3. ASSUME NEW p \in DOMAIN Resume PROVE Resume'[p] = Resume[p]
    <3>1. PICK t \in Slots : processes[t].state = "BLOCKED" /\ p = processes[t].pid
      BY <1>1 DEF View
    <3>2. PICK c \in Slots : IsAlive(c) /\ processes[c].vfork_parent = t
      BY <3>1, Suspender
    <3>3. t # s /\ c # s /\ processes'[t] = processes[t] /\ processes'[c] = processes[c] /\ IsAlive(c)'
      BY <1>2, <1>3, <3>1, <3>2
    <3> QED
      BY <1>1, <3>1, <3>2, <3>3 DEF View
  <2> QED
    BY <1>1, <2>2, <2>3 DEF View
<1>7. Zombies' = Zombies \ {Remains(s)}
  <2>1. \A t \in Slots : t # s => Remains(t)' = Remains(t)
    BY <1>3 DEF Remains
  <2>2. \A t \in Slots : processes[t].state = "ZOMBIE" /\ Remains(t) = Remains(s) => t = s
    BY <1>2, PidSlot DEF Remains, IsUsed
  <2>3. \A z : z \in Zombies' <=> z \in Zombies /\ z # Remains(s)
    BY <1>1, <1>3, <1>4, <2>1, <2>2 DEF View
  <2> QED
    BY <2>3
<1>8. Remains(s) \in Zombies /\ Remains(s).pid = processes[s].pid /\ Remains(s).status = processes[s].exit_status
      /\ Remains(s).ppid = processes[s].ppid
  BY <1>1, <1>2 DEF View, Remains
<1>9. processes[s].ppid = process.pid \/ processes[s].ppid \notin Calls \cup {z.pid : z \in Zombies}
  <2>1. ASSUME NEW t \in Slots, IsUsed(t), processes[t].pid = processes[s].ppid PROVE t = current
    BY <1>2, <2>1 DEF Parentage, Reaps
  <2>2. ASSUME processes[s].ppid \in Calls PROVE processes[s].ppid = process.pid
    BY <1>1, <2>1, <2>2, SlotTypes DEF View, process
  <2>3. ASSUME NEW z \in Zombies, processes[s].ppid = z.pid PROVE processes[s].ppid = process.pid
    <3>1. PICK t \in Slots : processes[t].state = "ZOMBIE" /\ z = Remains(t)
      BY <1>1 DEF View
    <3> QED
      BY <2>1, <2>3, <3>1 DEF Remains, IsUsed, process
  <2> QED
    BY <2>2, <2>3
<1> QED
  BY <1>2, <1>5, <1>6, <1>7, <1>8, <1>9, TopCall DEF Family!Wait, Family!IsTop, Family!ZombiePids, Reaps

(* Every step of process.c is a step of the abstract calls, or stutters. *)
LEMMA StepMaps ==
    ASSUME KinInv, [Next]_vars
    PROVE  [Family!Next]_Family!vars
<1>1. KinInv' /\ IInv /\ IInv'
  BY KinStep, InductiveStep DEF KinInv
<1> QED
  BY <1>1, StepKinds, CalmMaps, StartMaps, ForkMaps, ResumeMaps, HaltMaps, ReapMaps DEF Family!Next

(* The zeroed table is the empty family. *)
LEMMA InitMaps ==
    ASSUME Init
    PROVE  KinInv /\ Family!Init
<1>1. IInv
  BY InductiveInit
<1>2. \A s \in Slots : processes[s].state = "UNUSED" /\ ~IsUsed(s) /\ ~IsAlive(s)
  BY DEF Init, ZeroProcess, IsUsed, IsAlive
<1>3. Parentage /\ Contexts
  BY <1>2 DEF Parentage, Contexts, Init, InUser
<1>4. View
  BY <1>1, ViewHolds
<1>5. Calls = {} /\ Zombies = {} /\ DOMAIN Resume = {}
  BY <1>2, <1>4 DEF View
<1>6. Resume = [p \in {} |-> 0]
  BY <1>4, <1>5 DEF View
<1> QED
  BY <1>1, <1>3, <1>5, <1>6 DEF KinInv, Init, Family!Init

(* vfork, exit and wait4 of process.c are the calls, returns and reaps of   *)
(* VforkCalls, for every number of slots, processes, programs and contexts. *)
THEOREM VforkCallsCorrect == Spec => ImplementsVforkCalls
BY InitMaps, KinStep, StepMaps, PTL DEF Spec, ImplementsVforkCalls, Family!Spec

=============================================================================
