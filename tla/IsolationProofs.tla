-------------------------- MODULE IsolationProofs --------------------------
(***************************************************************************)
(* Proofs about what the processes of Process own: break and descriptors   *)
(* are sound, offsets move as the calls tell, and a process blocked in     *)
(* vfork is left alone.  They rest on the life cycle invariant of          *)
(* ProcessProofs.                                                          *)
(***************************************************************************)
EXTENDS ProcessProofs

USE DEF NULL, Slots, Fds

-----------------------------------------------------------------------------
(* What a step may do to one slot, its descriptors and its pages.          *)

SamePages(t) == mapped'[processes[t].cr3] = mapped[processes[t].cr3]
Alone(t) == processes'[t] = processes[t] /\ fds'[t] = fds[t] /\ SamePages(t)
Moved(t, state) == processes'[t] = [processes[t] EXCEPT !.state = state] /\ fds'[t] = fds[t] /\ SamePages(t)
Gone(t) == processes'[t].state \in {"UNUSED", "ZOMBIE"} /\ processes'[t].brk <= processes[t].brk
Resumed(t) == processes[t].state = "BLOCKED" /\ Moved(t, "RUNNING")

(* A directory that is opened or read keeps its offset among its children. *)
SoundFd(value) ==
    value.type = "DIR" => /\ Ramdisk[value.path].directory
                          /\ value.offset <= Ramdisk[value.path].children

(* A descriptor that is not a standard one changes. *)
FdChanged(t) ==
    /\ processes'[t] = processes[t] /\ SamePages(t)
    /\ \E fd \in Fds, value \in FdType :
           /\ fds'[t] = [fds[t] EXCEPT ![fd] = value]
           /\ DescriptorsSound => fd > 2 /\ SoundFd(value)
Grown(t) ==
    /\ t = current /\ fds'[t] = fds[t]
    /\ \E requested_break \in BrkArgs : requested_break >= process.brk /\ GrowHeap(requested_break)
Replaced(t) ==
    /\ fds'[t] = fds[t]
    /\ \E c \in Cr3 \ live : processes'[t] = NewImage(processes[t], c)

(* A process appears: init, or a child with a copy of what the caller has. *)
Fresh(t) == processes'[t].brk = HEAP_BASE /\ fds'[t] = StandardFds
Copied(t) ==
    /\ InUser /\ processes'[t].brk = process.brk /\ fds'[t] = fds[current]
    /\ mapped'[processes'[t].cr3] = mapped[process.cr3]

Effect(t) ==
    IF ~IsUsed(t) THEN ~IsUsed(t)' \/ Fresh(t) \/ Copied(t)
    ELSE IF InUser /\ t = current
         THEN Alone(t) \/ Moved(t, "BLOCKED") \/ Gone(t) \/ FdChanged(t) \/ Grown(t) \/ Replaced(t)
         ELSE Alone(t) \/ Resumed(t) \/ Gone(t)

(* Nothing happens to slots, descriptors and pages. *)
LEMMA StillEffect ==
    ASSUME UNCHANGED <<processes, fds, mapped>>, NEW t \in Slots
    PROVE  Effect(t)
BY DEF Effect, Alone, SamePages, IsUsed

(* Two used slots have different address spaces. *)
LEMMA OwnSpace ==
    ASSUME IInv, NEW s \in Slots, NEW t \in Slots, IsUsed(s), IsUsed(t), s # t
    PROVE  processes[s].cr3 # processes[t].cr3
BY DEF IInv, LifeCycle, SpacesOwned

(* The address space of a used slot exists. *)
LEMMA LiveSpace ==
    ASSUME IInv, NEW s \in Slots, IsUsed(s)
    PROVE  processes[s].cr3 \in live /\ processes[s].cr3 \in Cr3
BY DEF IInv, LifeCycle, SpacesOwned, TypeOK

(* Starting init fills one unused slot and an address space nobody has. *)
LEMMA StartEffect ==
    ASSUME IInv, NEW s \in Slots, ~IsUsed(s), NEW c \in Cr3 \ live, StartInitProcess(s, c), NEW t \in Slots
    PROVE  Effect(t)
<1>1. CASE t = s
  <2>1. processes'[t] = InitProcess(c) /\ fds'[t] = StandardFds
    BY <1>1 DEF StartInitProcess, IInv, TypeOK
  <2> QED
    BY <1>1, <2>1 DEF Effect, Fresh, InitProcess
<1>2. CASE t # s
  <2>1. processes'[t] = processes[t] /\ fds'[t] = fds[t]
    BY <1>2 DEF StartInitProcess, IInv, TypeOK
  <2>2. CASE ~IsUsed(t)
    BY <2>1, <2>2 DEF Effect, IsUsed
  <2>3. CASE IsUsed(t)
    <3>1. SamePages(t)
      BY <2>3, LiveSpace DEF SamePages, StartInitProcess, IInv, TypeOK
    <3> QED
      BY <2>1, <2>3, <3>1 DEF Effect, Alone
  <2> QED
    BY <2>2, <2>3
<1> QED
  BY <1>1, <1>2

(* vfork blocks the caller and copies it into an unused slot. *)
LEMMA VforkEffect ==
    ASSUME IInv, InUser, NEW s \in Slots, ~IsUsed(s), NEW c \in Cr3 \ live, RunChild(s, c), NEW t \in Slots
    PROVE  Effect(t)
<1>1. current \in Slots /\ IsUsed(current) /\ current # s /\ process.cr3 \in Cr3
  BY CurrentProcess DEF HasCurrent, InUser
<1>2. /\ processes'[t] = IF t = current THEN Suspended(process) ELSE IF t = s THEN ForkedProcess(c) ELSE processes[t]
      /\ fds'[t] = IF t = s THEN fds[current] ELSE fds[t]
  BY <1>1 DEF RunChild, IInv, TypeOK
<1>3. \A d \in Cr3 : mapped'[d] = IF d = c THEN mapped[process.cr3] ELSE mapped[d]
  BY DEF RunChild, IInv, TypeOK
<1>4. CASE t = s
  BY <1>1, <1>2, <1>3, <1>4 DEF Effect, Copied, ForkedProcess
<1>5. CASE t # s /\ ~IsUsed(t)
  BY <1>1, <1>2, <1>5 DEF Effect, IsUsed
<1>6. CASE IsUsed(t)
  <2>1. SamePages(t) /\ t # s
    BY <1>3, <1>6, LiveSpace DEF SamePages
  <2> QED
    BY <1>2, <1>6, <2>1 DEF Effect, Alone, Moved, Suspended, process
<1> QED
  BY <1>4, <1>5, <1>6

(* execve gives the caller a new address space and destroys its old one. *)
LEMMA ExecveEffect ==
    ASSUME IInv, InUser, NEW path, NEW c \in Cr3 \ live, ReplaceImage(path, c), NEW t \in Slots
    PROVE  Effect(t)
<1>1. current \in Slots /\ IsUsed(current) /\ process.cr3 \in Cr3
  BY CurrentProcess DEF HasCurrent, InUser
<1>2. /\ processes'[t] = IF t = current THEN NewImage(process, c) ELSE processes[t]
      /\ fds'[t] = fds[t]
  BY <1>1 DEF ReplaceImage, IInv, TypeOK
<1>3. \A d \in Cr3 : d # c /\ d # process.cr3 => mapped'[d] = mapped[d]
  BY DEF ReplaceImage, IInv, TypeOK
<1>4. CASE t = current
  BY <1>1, <1>2, <1>4 DEF Effect, Replaced, process
<1>5. CASE t # current /\ ~IsUsed(t)
  BY <1>2, <1>5 DEF Effect, IsUsed
<1>6. CASE t # current /\ IsUsed(t)
  <2>1. SamePages(t)
    BY <1>1, <1>3, <1>6, LiveSpace, OwnSpace DEF SamePages, process
  <2> QED
    BY <1>2, <1>6, <2>1 DEF Effect, Alone
<1> QED
  BY <1>4, <1>5, <1>6

(* exit makes the caller a zombie and resumes the process it blocked. *)
LEMMA ExitEffect ==
    ASSUME IInv, InUser, NEW status, ResumeParent(status) \/ InitExits(status), UNCHANGED <<fds, mapped>>, NEW t \in Slots
    PROVE  Effect(t)
<1>1. current \in Slots /\ IsUsed(current) /\ process \in ProcessType /\ IsAlive(current)
  BY CurrentProcess
<1>2. Exited(process, status).state = "ZOMBIE" /\ Exited(process, status).brk <= process.brk
  BY <1>1 DEF Exited, ProcessType
<1>3. CASE InitExits(status)
  <2>1. processes'[t] = IF t = current THEN Exited(process, status) ELSE processes[t]
    BY <1>1, <1>3 DEF InitExits, IInv, TypeOK
  <2> QED
    BY <1>1, <1>2, <2>1 DEF Effect, Alone, SamePages, Gone, IsUsed, process
<1>4. CASE ResumeParent(status)
  <2> DEFINE parent == process.vfork_parent
  <2>1. parent \in Slots /\ processes[parent].state = "BLOCKED" /\ parent # current
    BY <1>1, <1>4, CurrentProcess DEF ResumeParent, IInv, LifeCycle, VforkChain, ProcessType, process
  <2>2. processes'[t] = IF t = parent THEN [processes[t] EXCEPT !.state = "RUNNING"]
                        ELSE IF t = current THEN Exited(process, status) ELSE processes[t]
    BY <1>1, <1>4, <2>1 DEF ResumeParent, IInv, TypeOK
  <2>3. CASE t = parent
    BY <2>1, <2>2, <2>3 DEF Effect, Resumed, Moved, SamePages, IsUsed
  <2>4. CASE t # parent
    BY <1>1, <1>2, <2>2, <2>4 DEF Effect, Alone, SamePages, Gone, IsUsed, process
  <2> QED
    BY <2>3, <2>4
<1> QED
  BY <1>3, <1>4

(* wait4 clears the slot and the address space of one zombie. *)
LEMMA ReapEffect ==
    ASSUME IInv, InUser, NEW s \in Slots, processes[s].state = "ZOMBIE", Reap(s), NEW t \in Slots
    PROVE  Effect(t)
<1>1. current # s /\ IsUsed(s)
  BY CurrentProcess DEF process, IsUsed
<1>2. processes'[t] = (IF t = s THEN ZeroProcess ELSE processes[t]) /\ (t # s => fds'[t] = fds[t])
  BY DEF Reap, IInv, TypeOK
<1>3. \A d \in Cr3 : d # processes[s].cr3 => mapped'[d] = mapped[d]
  BY DEF Reap, IInv, TypeOK
<1>4. CASE t = s
  BY <1>1, <1>2, <1>4 DEF Effect, Gone, ZeroProcess, IInv, TypeOK, ProcessType
<1>5. CASE t # s /\ ~IsUsed(t)
  BY <1>2, <1>5 DEF Effect, IsUsed
<1>6. CASE t # s /\ IsUsed(t)
  <2>1. SamePages(t)
    BY <1>1, <1>3, <1>6, LiveSpace, OwnSpace DEF SamePages
  <2> QED
    BY <1>2, <1>6, <2>1 DEF Effect, Alone
<1> QED
  BY <1>4, <1>5, <1>6

(* brk grows the caller's heap, in the caller's address space only. *)
LEMMA BrkEffect ==
    ASSUME IInv, InUser, NEW requested_break \in BrkArgs, requested_break >= process.brk,
           GrowHeap(requested_break), UNCHANGED fds, NEW t \in Slots
    PROVE  Effect(t)
<1>1. current \in Slots /\ IsUsed(current) /\ process.cr3 \in Cr3
  BY CurrentProcess DEF HasCurrent, InUser
<1>2. CASE t = current
  BY <1>1, <1>2 DEF Effect, Grown
<1>3. CASE t # current
  <2>1. PICK b, pages : /\ processes' = [processes EXCEPT ![current] = [@ EXCEPT !.brk = b]]
                        /\ mapped' = [mapped EXCEPT ![process.cr3] = @ \cup pages]
    BY DEF GrowHeap, MapInto
  <2>2. processes'[t] = processes[t]
    BY <1>3, <2>1 DEF IInv, TypeOK
  <2>3. CASE IsUsed(t)
    <3>1. SamePages(t)
      BY <1>1, <1>3, <2>1, <2>3, LiveSpace, OwnSpace DEF SamePages, process, IInv, TypeOK
    <3> QED
      BY <2>2, <2>3, <3>1 DEF Effect, Alone
  <2> QED
    BY <2>2, <2>3 DEF Effect, IsUsed
<1> QED
  BY <1>2, <1>3

(* Setting one descriptor of the caller leaves everything else alone. *)
LEMMA FdEffect ==
    ASSUME IInv, InUser, NEW fd \in Fds, NEW value \in FdType, SetFd(fd, value),
           DescriptorsSound => fd > 2 /\ SoundFd(value), NEW t \in Slots
    PROVE  Effect(t)
<1>1. current \in Slots /\ IsUsed(current)
  BY CurrentProcess
<1>2. processes' = processes /\ mapped' = mapped
  BY DEF SetFd, memory
<1>3. fds'[t] = IF t = current THEN [fds[t] EXCEPT ![fd] = value] ELSE fds[t]
  BY <1>1 DEF SetFd, IInv, TypeOK
<1>4. CASE t = current
  BY <1>1, <1>2, <1>3, <1>4 DEF Effect, FdChanged, SamePages
<1>5. CASE t # current
  BY <1>2, <1>3, <1>5 DEF Effect, Alone, SamePages, IsUsed
<1> QED
  BY <1>4, <1>5

(* The standard descriptors are no files. *)
LEMMA StandardTypes ==
    \A fd \in 0 .. 2 : StandardFds[fd].type \in {"STDIN", "STDOUT", "STDERR"}
BY SizesAssumption DEF StandardFds, ZeroFds, ZeroFd

(* A descriptor that holds a file or a directory is no standard one. *)
LEMMA FileFd ==
    ASSUME IInv, InUser, DescriptorsSound, NEW fd \in Fds, fds[current][fd].type \in {"FILE", "DIR", "NONE"}
    PROVE  fd > 2
<1>1. current \in Slots /\ IsAlive(current)
  BY CurrentProcess
<1> QED
  BY <1>1, StandardTypes DEF DescriptorsSound

(* The file calls change one descriptor of the caller, or nothing. *)
LEMMA FileEffect ==
    ASSUME IInv, FileCall \/ AnswerCall, NEW t \in Slots
    PROVE  Effect(t)
<1> DEFINE Old(fd) == fds[current][fd]
<1>1. ASSUME NEW v, ReturnOnly(v) \/ Fault PROVE Effect(t)
  BY <1>1, StillEffect DEF ReturnOnly, Fault, table, memory
<1>2. ASSUME InUser, NEW fd \in Fds PROVE Old(fd) \in FdType
  BY <1>2, CurrentProcess DEF IInv, TypeOK
<1>3. ASSUME NEW path \in UserStrings, syscall_open(path) PROVE Effect(t)
  <2>1. InUser
    BY <1>3 DEF syscall_open
  <2>2. ASSUME NEW fd \in Fds, allocate_fd(fds[current], fd), path \in DOMAIN Ramdisk,
               SetFd(fd, [type |-> IF Ramdisk[path].directory THEN "DIR" ELSE "FILE", path |-> path, offset |-> 0])
        PROVE  Effect(t)
    <3> DEFINE value == [type |-> IF Ramdisk[path].directory THEN "DIR" ELSE "FILE", path |-> path, offset |-> 0]
    <3>1. value \in FdType
      BY <2>2, SizesAssumption DEF FdType
    <3>2. fd > 2 /\ SoundFd(value)
      BY <2>2, RamdiskAssumption DEF allocate_fd, SoundFd
    <3> QED
      BY <2>1, <2>2, <3>1, <3>2, FdEffect
  <2> QED
    BY <1>1, <1>3, <2>2 DEF syscall_open
<1>4. ASSUME NEW fd \in FdArgs, syscall_close(fd) PROVE Effect(t)
  <2>1. CASE fd > 2 /\ HasType(fd, OpenTypes) /\ SetFd(fd, ZeroFd)
    <3>1. ZeroFd \in FdType /\ SoundFd(ZeroFd)
      BY ZeroTypes DEF ZeroFd, SoundFd
    <3> QED
      BY <1>4, <2>1, <3>1, FdEffect DEF HasType, syscall_close
  <2> QED
    BY <1>1, <1>4, <2>1 DEF syscall_close
<1>5. ASSUME NEW fd \in FdArgs, NEW offset \in SeekArgs, NEW whence \in 0 .. 3, syscall_lseek(fd, offset, whence)
      PROVE  Effect(t)
  <2>1. ASSUME HasType(fd, Seekable), whence \in 0 .. 2,
               SetFd(fd, [Old(fd) EXCEPT !.offset = Wrap(SeekBase(fd, whence) + offset)])
        PROVE  Effect(t)
    <3> DEFINE value == [Old(fd) EXCEPT !.offset = Wrap(SeekBase(fd, whence) + offset)]
    <3>1. InUser /\ fd \in Fds /\ Old(fd) \in FdType /\ Old(fd).type = "FILE"
      BY <1>2, <1>5, <2>1 DEF syscall_lseek, HasType, Seekable
    <3>2. SeekBase(fd, whence) \in Nat
      BY <2>1, <3>1, RamdiskAssumption, SizesAssumption DEF SeekBase, FdType
    <3>3. Wrap(SeekBase(fd, whence) + offset) \in 0 .. WORD - 1
      BY <3>2, SizesAssumption, ArgumentsAssumption DEF Wrap
    <3>4. value \in FdType /\ SoundFd(value)
      BY <3>1, <3>3 DEF FdType, SoundFd
    <3> QED
      BY <2>1, <3>1, <3>4, FdEffect, FileFd
  <2> QED
    BY <1>1, <1>5, <2>1 DEF syscall_lseek
<1>6. ASSUME NEW fd \in FdArgs, NEW buffer \in Pointers, NEW count \in Counts, syscall_read(fd, buffer, count)
      PROVE  Effect(t)
  <2>1. ASSUME HasType(fd, {"FILE"}), SetFd(fd, [Old(fd) EXCEPT !.offset = @ + Available(fd, count)])
        PROVE  Effect(t)
    <3> DEFINE value == [Old(fd) EXCEPT !.offset = @ + Available(fd, count)]
    <3>1. InUser /\ fd \in Fds /\ Old(fd) \in FdType /\ Old(fd).type = "FILE"
      BY <1>2, <1>6, <2>1 DEF syscall_read, HasType
    <3>2. Old(fd).path \in DOMAIN Ramdisk /\ Old(fd).offset \in 0 .. WORD - 1
      BY <3>1 DEF FdType
    <3>3. Old(fd).offset + Available(fd, count) \in 0 .. WORD - 1
      BY <3>2, RamdiskAssumption, ArgumentsAssumption, SizesAssumption DEF Available, Served
    <3>4. value \in FdType /\ SoundFd(value)
      BY <3>1, <3>3 DEF FdType, SoundFd
    <3> QED
      BY <2>1, <3>1, <3>4, FdEffect, FileFd
  <2> QED
    BY <1>1, <1>6, <2>1 DEF syscall_read
<1>7. ASSUME NEW fd \in FdArgs, NEW buffer \in Pointers, NEW count \in Counts, syscall_getdents64(fd, buffer, count)
      PROVE  Effect(t)
  <2>1. ASSUME HasType(fd, {"DIR"}), SetFd(fd, [Old(fd) EXCEPT !.offset = @ + Entries(fd, count)])
        PROVE  Effect(t)
    <3> DEFINE value == [Old(fd) EXCEPT !.offset = @ + Entries(fd, count)]
    <3>1. InUser /\ fd \in Fds /\ Old(fd) \in FdType /\ Old(fd).type = "DIR"
      BY <1>2, <1>7, <2>1 DEF syscall_getdents64, HasType
    <3>2. Old(fd).path \in DOMAIN Ramdisk /\ Old(fd).offset \in 0 .. WORD - 1
      BY <3>1 DEF FdType
    <3>3. /\ Old(fd).offset + Entries(fd, count) \in 0 .. WORD - 1
          /\ Old(fd).offset <= Ramdisk[Old(fd).path].children =>
                 Old(fd).offset + Entries(fd, count) <= Ramdisk[Old(fd).path].children
      BY <3>2, RamdiskAssumption, ArgumentsAssumption, SizesAssumption DEF Entries, Served
    <3>4. value \in FdType /\ value.type = "DIR" /\ value.path = Old(fd).path
          /\ value.offset = Old(fd).offset + Entries(fd, count)
      BY <3>1, <3>3 DEF FdType
    <3>5. DescriptorsSound => SoundFd(value)
      BY <3>1, <3>3, <3>4, CurrentProcess DEF DescriptorsSound, SoundFd
    <3> QED
      BY <2>1, <3>1, <3>4, <3>5, FdEffect, FileFd
  <2> QED
    BY <1>1, <1>7, <2>1 DEF syscall_getdents64
<1>8. ASSUME \/ AnswerCall
             \/ \E fd \in FdArgs, buffer \in Pointers, count \in Counts : syscall_write(fd, buffer, count)
      PROVE  Effect(t)
  <2>1. HasCurrent
    BY CurrentProcess DEF HasCurrent, InUser
  <2> QED
    BY <1>1, <1>8, <2>1, AnswerType DEF IInv
<1> QED
  BY <1>3, <1>4, <1>5, <1>6, <1>7, <1>8 DEF FileCall

(* Every step has one of these effects on each slot. *)
LEMMA Effects ==
    ASSUME IInv, [Next]_vars, NEW t \in Slots
    PROVE  Effect(t)
<1>1. CASE UNCHANGED vars \/ Stopped \/ UserStep
  BY <1>1, StillEffect DEF vars, Stopped, UserStep, table, memory
<1>2. CASE xbks_process_start_init
  BY <1>2, StillEffect, StartEffect, AbandonedSpace DEF xbks_process_start_init, allocate_process, table, memory
<1>3. CASE syscall_vfork
  BY <1>3, StillEffect, VforkEffect, AbandonedSpace DEF syscall_vfork, allocate_process, table, memory
<1>4. ASSUME NEW path \in UserStrings, syscall_execve(path) PROVE Effect(t)
  BY <1>4, StillEffect, ExecveEffect, AbandonedSpace DEF syscall_execve, ReturnOnly, Fault, table, memory
<1>5. ASSUME NEW pid \in PidArgs, NEW pointer \in Pointers, syscall_wait4(pid, pointer) PROVE Effect(t)
  BY <1>5, StillEffect, ReapEffect DEF syscall_wait4, FirstWaitable, Waitable, ReturnOnly, Fault, table, memory
<1>6. ASSUME NEW status \in Statuses, syscall_exit(status) PROVE Effect(t)
  BY <1>6, ExitEffect DEF syscall_exit
<1>7. ASSUME NEW requested_break \in BrkArgs, syscall_brk(requested_break) PROVE Effect(t)
  BY <1>7, StillEffect, BrkEffect DEF syscall_brk, ReturnOnly, table, memory
<1>8. CASE FileCall \/ AnswerCall
  BY <1>8, FileEffect
<1> QED
  BY <1>1, <1>2, <1>3, <1>4, <1>5, <1>6, <1>7, <1>8
     DEF Next, xbks_process_syscall_dispatch, ProcessCall

-----------------------------------------------------------------------------
(* A blocked process is left alone.                                        *)

(* No step touches a process that is BLOCKED before and after it: it is not *)
(* the current one, and no other process has its address space.             *)
LEMMA FrozenStep ==
    ASSUME IInv, [Next]_vars
    PROVE  Frozen
<1> SUFFICES ASSUME NEW s \in Slots, processes[s].state = "BLOCKED", processes'[s].state = "BLOCKED"
             PROVE  Alone(s)
  BY DEF Frozen, Alone, SamePages
<1>1. IsUsed(s) /\ ~(InUser /\ s = current)
  BY CurrentProcess DEF IsUsed, process
<1>2. Alone(s) \/ Resumed(s) \/ Gone(s)
  BY <1>1, Effects DEF Effect
<1>3. ~Resumed(s)
  BY DEF Resumed, Moved, IInv, TypeOK, ProcessType
<1> QED
  BY <1>2, <1>3 DEF Gone

(* While a process is suspended by vfork nothing its child does changes its *)
(* slot, its descriptors or its pages.                                      *)
THEOREM BlockedFrozenCorrect == Spec => BlockedFrozen
BY Invariance, FrozenStep, PTL DEF Spec, BlockedFrozen

-----------------------------------------------------------------------------
(* Descriptors.                                                            *)

LEMMA DescriptorsStep ==
    ASSUME IInv, DescriptorsSound, [Next]_vars
    PROVE  DescriptorsSound'
<1> DEFINE Sound(f) == /\ \A fd \in 0 .. 2 : f[fd] = StandardFds[fd]
                       /\ \A fd \in Fds : SoundFd(f[fd])
<1>1. \A t \in Slots : IsAlive(t) => Sound(fds[t])
  BY DEF DescriptorsSound, SoundFd
<1>2. Sound(StandardFds)
  BY SizesAssumption DEF StandardFds, ZeroFds, ZeroFd, SoundFd
<1> SUFFICES ASSUME NEW t \in Slots, IsAlive(t)' PROVE Sound(fds'[t])
  BY DEF DescriptorsSound, SoundFd
<1>3. Effect(t) /\ ~Gone(t) /\ IsUsed(t)'
  BY Effects DEF IsAlive, Gone, IsUsed
<1>4. CASE ~IsUsed(t)
  BY <1>1, <1>2, <1>3, <1>4, CurrentProcess DEF Effect, Fresh, Copied
<1>5. CASE IsUsed(t)
  <2>1. IsAlive(t)
    BY <1>3, <1>5, CurrentProcess DEF Effect, Alone, Resumed, IsAlive, process
  <2>2. CASE FdChanged(t)
    BY <1>1, <2>1, <2>2 DEF FdChanged, IInv, TypeOK
  <2>3. CASE ~FdChanged(t)
    BY <1>1, <1>3, <1>5, <2>1, <2>3 DEF Effect, Alone, Resumed, Moved, Grown, Replaced
  <2> QED
    BY <2>2, <2>3
<1> QED
  BY <1>4, <1>5

(* In every living process descriptors 0 to 2 stay the console ones, and the *)
(* offset of a directory stays within its children, whatever calls it makes. *)
THEOREM DescriptorsCorrect == Spec => []DescriptorsSound
<1>1. Init => DescriptorsSound
  BY DEF Init, DescriptorsSound, IsAlive, ZeroProcess
<1> QED
  BY <1>1, Invariance, DescriptorsStep, PTL DEF Spec

-----------------------------------------------------------------------------
(* Offsets.                                                                *)

(* The offset of one descriptor stays, or moves as the result tells. *)
Told(old, new) ==
    new.type = old.type /\ new.path = old.path /\ new.offset # old.offset =>
        \/ old.type = "FILE" /\ rax' = Signed(new.offset)
        \/ rax' = new.offset - old.offset /\ rax' > 0 /\ new.offset <= Extent(old)

(* Steps that change no descriptor table, or one of an unused slot. *)
LEMMA OtherTables ==
    ASSUME \A t \in Slots : IsUsed(t) => fds'[t] = fds[t]
    PROVE  OffsetMove
BY DEF OffsetMove

(* A call that sets one descriptor of the caller. *)
LEMMA OneDescriptor ==
    ASSUME IInv, InUser, NEW fd \in Fds, NEW value, SetFd(fd, value), Told(fds[current][fd], value)
    PROVE  OffsetMove
<1> SUFFICES ASSUME NEW t \in Slots, NEW e \in Fds
             PROVE  \/ fds'[t][e] = fds[t][e]
                    \/ t = current /\ Told(fds[t][e], fds'[t][e])
  BY DEF OffsetMove, Told
<1>1. current \in Slots
  BY CurrentProcess
<1>2. fds'[t] = IF t = current THEN [fds[t] EXCEPT ![fd] = value] ELSE fds[t]
  BY <1>1 DEF SetFd, IInv, TypeOK
<1>3. fds[t] \in [Fds -> FdType]
  BY DEF IInv, TypeOK
<1> QED
  BY <1>2, <1>3

(* What is served ends before the end, however far beyond it the offset is. *)
LEMMA ServedInside ==
    ASSUME NEW size \in Nat, NEW offset \in Nat, NEW count \in Nat
    PROVE  LET served == Served(size - offset, count)
           IN  served = 0 \/ (served > 0 /\ offset + served <= size)
BY DEF Served

(* Reads, seeks and listings tell how they move the offset; open and close *)
(* change the type of the descriptor.                                      *)
LEMMA FileCallTells ==
    ASSUME IInv, FileCall \/ AnswerCall
    PROVE  OffsetMove
<1> DEFINE Old(fd) == fds[current][fd]
<1>1. ASSUME NEW v, ReturnOnly(v) \/ Fault PROVE OffsetMove
  BY <1>1, OtherTables DEF ReturnOnly, Fault, table
<1>2. ASSUME InUser, NEW fd \in Fds PROVE Old(fd) \in FdType
  BY <1>2, CurrentProcess DEF IInv, TypeOK
<1>3. ASSUME NEW path \in UserStrings, syscall_open(path) PROVE OffsetMove
  <2>1. ASSUME NEW fd \in Fds, allocate_fd(fds[current], fd),
               SetFd(fd, [type |-> IF Ramdisk[path].directory THEN "DIR" ELSE "FILE", path |-> path, offset |-> 0])
        PROVE  OffsetMove
    <3> DEFINE value == [type |-> IF Ramdisk[path].directory THEN "DIR" ELSE "FILE", path |-> path, offset |-> 0]
    <3>1. InUser /\ Told(Old(fd), value)
      BY <1>3, <2>1 DEF syscall_open, allocate_fd, Told
    <3> QED
      BY <2>1, <3>1, OneDescriptor
  <2> QED
    BY <1>1, <1>3, <2>1 DEF syscall_open
<1>4. ASSUME NEW fd \in FdArgs, syscall_close(fd) PROVE OffsetMove
  <2>1. CASE HasType(fd, OpenTypes) /\ SetFd(fd, ZeroFd)
    <3>1. InUser /\ fd \in Fds /\ Told(Old(fd), ZeroFd)
      BY <1>4, <2>1 DEF syscall_close, HasType, OpenTypes, ZeroFd, Told
    <3> QED
      BY <2>1, <3>1, OneDescriptor
  <2> QED
    BY <1>1, <1>4, <2>1 DEF syscall_close
<1>5. ASSUME NEW fd \in FdArgs, NEW offset \in SeekArgs, NEW whence \in 0 .. 3, syscall_lseek(fd, offset, whence)
      PROVE  OffsetMove
  <2> DEFINE next_offset == Wrap(SeekBase(fd, whence) + offset)
             value == [Old(fd) EXCEPT !.offset = next_offset]
  <2>1. CASE HasType(fd, Seekable) /\ SetFd(fd, value) /\ rax' = Signed(next_offset)
    <3>1. InUser /\ fd \in Fds /\ Old(fd) \in FdType /\ Old(fd).type = "FILE"
      BY <1>2, <1>5, <2>1 DEF syscall_lseek, HasType, Seekable
    <3>2. value.offset = next_offset
      BY <3>1 DEF FdType
    <3>3. Told(Old(fd), value)
      BY <2>1, <3>1, <3>2 DEF Told
    <3> QED
      BY <2>1, <3>1, <3>3, OneDescriptor
  <2> QED
    BY <1>1, <1>5, <2>1 DEF syscall_lseek
<1>6. ASSUME NEW fd \in FdArgs, NEW count \in Counts, NEW served, InUser, rax' = served,
             \/ HasType(fd, {"FILE"}) /\ served = Available(fd, count)
             \/ HasType(fd, {"DIR"}) /\ served = Entries(fd, count),
             SetFd(fd, [Old(fd) EXCEPT !.offset = @ + served])
      PROVE  OffsetMove
  <2> DEFINE value == [Old(fd) EXCEPT !.offset = @ + served]
  <2>1. fd \in Fds /\ Old(fd) \in FdType /\ Old(fd).type \in {"FILE", "DIR"}
    BY <1>2, <1>6 DEF HasType
  <2>2. /\ Old(fd).offset \in Nat /\ Extent(Old(fd)) \in Nat
        /\ served = Served(Extent(Old(fd)) - Old(fd).offset, count)
    BY <1>6, <2>1, RamdiskAssumption, SizesAssumption DEF HasType, FdType, Extent, Available, Entries
  <2>3. count \in Nat
    BY ArgumentsAssumption
  <2>4. served = 0 \/ (served > 0 /\ Old(fd).offset + served <= Extent(Old(fd)))
    BY <2>2, <2>3, ServedInside
  <2>5. served \in Nat
    BY <2>2, <2>3 DEF Served
  <2>6. value.offset = Old(fd).offset + served
    BY <2>1 DEF FdType
  <2>7. Told(Old(fd), value)
    BY <1>6, <2>2, <2>4, <2>5, <2>6 DEF Told
  <2> QED
    BY <1>6, <2>1, <2>7, OneDescriptor
<1>7. ASSUME NEW fd \in FdArgs, NEW buffer \in Pointers, NEW count \in Counts,
             syscall_read(fd, buffer, count) \/ syscall_getdents64(fd, buffer, count)
      PROVE  OffsetMove
  BY <1>1, <1>6, <1>7 DEF syscall_read, syscall_getdents64
<1>8. ASSUME \/ AnswerCall
             \/ \E fd \in FdArgs, buffer \in Pointers, count \in Counts : syscall_write(fd, buffer, count)
      PROVE  OffsetMove
  <2>1. HasCurrent
    BY CurrentProcess DEF HasCurrent, InUser
  <2> QED
    BY <1>1, <1>8, <2>1, AnswerType DEF IInv
<1> QED
  BY <1>3, <1>4, <1>5, <1>7, <1>8 DEF FileCall

(* Reaping a zombie closes its descriptors. *)
LEMMA ReapTells ==
    ASSUME IInv, NEW s \in Slots, Reap(s)
    PROVE  OffsetMove
<1>1. ASSUME NEW t \in Slots, NEW fd \in Fds PROVE fds'[t][fd] = fds[t][fd] \/ fds'[t][fd] = ZeroFd
  BY DEF Reap, ZeroFds, IInv, TypeOK
<1>2. ASSUME NEW t \in Slots, NEW fd \in Fds, fds[t][fd].type = "NONE" PROVE fds[t][fd].offset = 0
  BY <1>2 DEF IInv, TypeOK, FdType
<1> QED
  BY <1>1, <1>2 DEF OffsetMove, ZeroFd

(* Every step moves offsets as its result tells. *)
LEMMA OffsetStep ==
    ASSUME IInv, [Next]_vars
    PROVE  OffsetMove
<1>1. CASE UNCHANGED fds
  BY <1>1, OtherTables
<1>2. ASSUME NEW s \in Slots, ~IsUsed(s), NEW table_of, fds' = [fds EXCEPT ![s] = table_of] PROVE OffsetMove
  BY <1>2, OtherTables DEF IInv, TypeOK
<1>3. CASE xbks_process_start_init \/ syscall_vfork
  BY <1>1, <1>2, <1>3 DEF xbks_process_start_init, StartInitProcess, syscall_vfork, RunChild, allocate_process, table
<1>4. CASE UNCHANGED vars \/ Stopped \/ UserStep \/ ProcessCall
  BY <1>1, <1>3, <1>4, ReapTells
     DEF vars, Stopped, UserStep, ProcessCall, syscall_execve, ReplaceImage, syscall_wait4, syscall_exit, syscall_brk,
         ReturnOnly, Fault, table
<1>5. CASE FileCall \/ AnswerCall
  BY <1>5, FileCallTells
<1> QED
  BY <1>3, <1>4, <1>5 DEF Next, xbks_process_syscall_dispatch

(* Whatever a seek has stored, no read and no listing goes past the end, and *)
(* every call that moves an offset returns where to or how far.              *)
THEOREM OffsetsToldCorrect == Spec => OffsetsTold
BY Invariance, OffsetStep, PTL DEF Spec, OffsetsTold

-----------------------------------------------------------------------------
(* The heap.                                                               *)

(* align_up returns the first multiple of the page size that is not below. *)
LEMMA AlignUp ==
    ASSUME NEW value \in Nat
    PROVE  /\ align_up(value) \in Nat /\ value <= align_up(value)
           /\ \A page \in Nat : value <= page * PAGE_SIZE => align_up(value) <= page * PAGE_SIZE
<1> DEFINE sum == value + PAGE_SIZE - 1
           quotient == sum \div PAGE_SIZE
<1>1. PAGE_SIZE \in Nat /\ PAGE_SIZE > 0 /\ sum \in Nat
  BY SizesAssumption
<1>2. quotient \in Nat /\ quotient * PAGE_SIZE <= sum /\ sum < (quotient + 1) * PAGE_SIZE
  BY <1>1, Z3
<1>3. quotient * PAGE_SIZE \in Nat /\ (quotient + 1) * PAGE_SIZE = quotient * PAGE_SIZE + PAGE_SIZE
  BY <1>1, <1>2
<1>4. ASSUME NEW page \in Nat, value <= page * PAGE_SIZE PROVE quotient * PAGE_SIZE <= page * PAGE_SIZE
  <2>1. CASE quotient <= page
    BY <1>1, <1>2, <2>1
  <2>2. CASE page + 1 <= quotient
    <3>1. (page + 1) * PAGE_SIZE <= quotient * PAGE_SIZE
      BY <1>1, <1>2, <2>2
    <3>2. (page + 1) * PAGE_SIZE = page * PAGE_SIZE + PAGE_SIZE
      BY <1>1
    <3> QED
      BY <1>1, <1>2, <1>3, <1>4, <3>1, <3>2
  <2> QED
    BY <1>2, <2>1, <2>2
<1> QED
  BY <1>1, <1>2, <1>3, <1>4 DEF align_up

(* The pages a growing brk maps, and the break it leaves. *)
LEMMA GrownHeap ==
    ASSUME IInv, InUser, Grown(current)
    PROVE  LET old_end == align_up(process.brk) IN
           \E requested_break \in Nat, stop \in Nat :
               LET pages == PagesBetween(old_end, stop) IN
               /\ old_end <= stop
               /\ pages \cap mapped[process.cr3] = {}
               /\ mapped'[process.cr3] = mapped[process.cr3] \cup pages
               /\ processes'[current].cr3 = process.cr3
               /\ \/ processes'[current].brk = process.brk
                  \/ processes'[current].brk = requested_break /\ stop = align_up(requested_break)
<1>1. current \in Slots /\ process \in ProcessType /\ process.cr3 \in Cr3
  BY CurrentProcess DEF HasCurrent, InUser
<1>2. PICK requested_break \in BrkArgs : GrowHeap(requested_break)
  BY DEF Grown
<1>3. requested_break \in Nat /\ align_up(process.brk) \in Nat /\ align_up(requested_break) \in Nat
  BY <1>1, AlignUp, ArgumentsAssumption DEF ProcessType
<1>4. PICK stop \in align_up(process.brk) .. align_up(requested_break) :
          /\ Mappable(PagesBetween(align_up(process.brk), stop))
          /\ MapInto(PagesBetween(align_up(process.brk), stop))
          /\ processes' = [processes EXCEPT ![current] = [@ EXCEPT !.brk = BreakAfter(requested_break, stop)]]
  BY <1>2 DEF GrowHeap
<1>5. processes'[current] = [process EXCEPT !.brk = BreakAfter(requested_break, stop)]
  BY <1>1, <1>4 DEF process, IInv, TypeOK
<1>6. processes'[current].cr3 = process.cr3 /\ processes'[current].brk = BreakAfter(requested_break, stop)
  BY <1>1, <1>5 DEF ProcessType
<1>7. mapped'[process.cr3] = mapped[process.cr3] \cup PagesBetween(align_up(process.brk), stop)
  BY <1>1, <1>4 DEF MapInto, IInv, TypeOK
<1> QED
  BY <1>3, <1>4, <1>6, <1>7 DEF Mappable, BreakAfter

(* Every page below the new break was below the old one or is mapped now. *)
LEMMA GrownBacked ==
    ASSUME IInv, InUser, Grown(current), PagesBetween(HEAP_BASE, process.brk) \subseteq mapped[process.cr3]
    PROVE  PagesBetween(HEAP_BASE, processes'[current].brk) \subseteq mapped'[processes'[current].cr3]
<1>1. PICK requested_break \in Nat, stop \in Nat :
          /\ mapped'[process.cr3] = mapped[process.cr3] \cup PagesBetween(align_up(process.brk), stop)
          /\ processes'[current].cr3 = process.cr3
          /\ \/ processes'[current].brk = process.brk
             \/ processes'[current].brk = requested_break /\ stop = align_up(requested_break)
  BY GrownHeap
<1>2. process.brk \in Nat
  BY CurrentProcess DEF ProcessType
<1>3. SUFFICES ASSUME NEW page \in PagesBetween(HEAP_BASE, requested_break), stop = align_up(requested_break)
               PROVE  page \in PagesBetween(HEAP_BASE, process.brk) \cup PagesBetween(align_up(process.brk), stop)
  BY <1>1
<1>4. page \in Page /\ page \in Nat /\ HEAP_BASE <= page * PAGE_SIZE /\ page * PAGE_SIZE < requested_break
      /\ page * PAGE_SIZE \in Nat
  BY <1>3, MemoryAssumption, SizesAssumption DEF PagesBetween
<1>5. page * PAGE_SIZE < stop
  BY <1>3, <1>4, AlignUp
<1>6. page * PAGE_SIZE < process.brk \/ align_up(process.brk) <= page * PAGE_SIZE
  BY <1>2, <1>4, AlignUp
<1> QED
  BY <1>4, <1>5, <1>6 DEF PagesBetween

(* No page lies between the heap base and itself. *)
LEMMA NoPages == PagesBetween(HEAP_BASE, HEAP_BASE) = {}
<1>1. ASSUME NEW page \in Page PROVE page * PAGE_SIZE \in Nat
  BY SizesAssumption, MemoryAssumption
<1>2. ASSUME NEW n \in Nat PROVE ~(HEAP_BASE <= n /\ n < HEAP_BASE)
  BY SizesAssumption
<1> QED
  BY <1>1, <1>2 DEF PagesBetween

(* HeapBacked is preserved by every step. *)
LEMMA HeapBackedStep ==
    ASSUME IInv, HeapBacked, [Next]_vars
    PROVE  HeapBacked'
<1> DEFINE Backed(p, m) == PagesBetween(HEAP_BASE, p.brk) \subseteq m[p.cr3]
<1>1. \A t \in Slots : IsAlive(t) => Backed(processes[t], mapped)
  BY DEF HeapBacked
<1> SUFFICES ASSUME NEW t \in Slots, IsAlive(t)' PROVE Backed(processes'[t], mapped')
  BY DEF HeapBacked, PagesBetween
<1>2. Effect(t) /\ ~Gone(t) /\ IsUsed(t)' /\ processes[t] \in ProcessType
  BY Effects DEF IsAlive, Gone, IsUsed, IInv, TypeOK
<1>3. CASE ~IsUsed(t)
  <2>1. CASE Fresh(t)
    BY <2>1, NoPages DEF Fresh
  <2>2. CASE Copied(t)
    BY <1>1, <2>2, CurrentProcess DEF Copied, process
  <2> QED
    BY <1>2, <1>3, <2>1, <2>2 DEF Effect
<1>4. CASE IsUsed(t)
  <2>1. IsAlive(t)
    BY <1>2, <1>4, CurrentProcess DEF Effect, Alone, Resumed, IsAlive, process
  <2>2. CASE Alone(t) \/ FdChanged(t)
    BY <1>1, <2>1, <2>2 DEF Alone, FdChanged, SamePages
  <2>3. CASE Moved(t, "BLOCKED") \/ Resumed(t)
    BY <1>1, <1>2, <2>1, <2>3 DEF Moved, Resumed, SamePages, ProcessType
  <2>4. CASE InUser /\ t = current /\ Grown(t)
    BY <1>1, <2>1, <2>4, GrownBacked DEF process
  <2>5. CASE Replaced(t)
    BY <1>2, <2>5, NoPages DEF Replaced, NewImage, ProcessType
  <2> QED
    BY <1>2, <1>4, <2>2, <2>3, <2>4, <2>5 DEF Effect
<1> QED
  BY <1>3, <1>4

(* Every page below the break of a living process is mapped in its address  *)
(* space, through failed and partial brk calls, vfork and execve.           *)
THEOREM HeapBackedCorrect == Spec => []HeapBacked
<1>1. Init => HeapBacked
  BY DEF Init, HeapBacked, IsAlive, ZeroProcess
<1> QED
  BY <1>1, Invariance, HeapBackedStep, PTL DEF Spec

(* A brk that grows maps the page at the aligned break first, so it cannot *)
(* grow when that page is present.                                         *)
LEMMA StuckStep ==
    ASSUME IInv, [Next]_vars
    PROVE  Stuck
<1> SUFFICES ASSUME NEW s \in Slots, IsAlive(s), processes'[s].cr3 = processes[s].cr3,
                    NEW page \in mapped[processes[s].cr3], page * PAGE_SIZE = align_up(processes[s].brk)
             PROVE  processes'[s].brk <= align_up(processes[s].brk)
  BY DEF Stuck
<1>1. processes[s] \in ProcessType /\ processes[s].brk \in Nat /\ IsUsed(s)
  BY DEF IInv, TypeOK, ProcessType, IsUsed, IsAlive
<1>2. align_up(processes[s].brk) \in Nat /\ processes[s].brk <= align_up(processes[s].brk)
  BY <1>1, AlignUp
<1>3. Effect(s)
  BY Effects
<1>4. CASE Gone(s)
  <2>1. processes'[s].brk \in Nat
    BY InductiveStep DEF IInv, TypeOK, ProcessType
  <2> QED
    BY <1>1, <1>2, <1>4, <2>1 DEF Gone
<1>5. CASE Alone(s) \/ FdChanged(s) \/ Moved(s, "BLOCKED") \/ Resumed(s)
  BY <1>1, <1>2, <1>5 DEF Alone, FdChanged, Moved, Resumed, ProcessType
<1>6. CASE InUser /\ s = current /\ Grown(s)
  <2>1. PICK requested_break \in Nat, stop \in Nat :
            /\ align_up(process.brk) <= stop
            /\ PagesBetween(align_up(process.brk), stop) \cap mapped[process.cr3] = {}
            /\ \/ processes'[current].brk = process.brk
               \/ processes'[current].brk = requested_break /\ stop = align_up(requested_break)
    BY <1>6, GrownHeap
  <2>2. page \in Page
    BY <1>1, LiveSpace DEF IInv, TypeOK
  <2>3. ~(align_up(process.brk) < stop)
    BY <1>2, <1>6, <2>1, <2>2 DEF PagesBetween, process
  <2>4. requested_break <= align_up(requested_break)
    BY AlignUp
  <2> QED
    BY <1>1, <1>2, <1>6, <2>1, <2>3, <2>4, AlignUp DEF process
<1>7. CASE Replaced(s)
  BY <1>1, <1>7, LiveSpace DEF Replaced, NewImage, ProcessType
<1> QED
  BY <1>1, <1>3, <1>4, <1>5, <1>6, <1>7 DEF Effect

(* The heap of an image never grows past a page that is already present. *)
THEOREM HeapStuckCorrect == Spec => HeapStuck
BY Invariance, StuckStep, PTL DEF Spec, HeapStuck

=============================================================================
