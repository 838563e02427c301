--------------------------- MODULE ProcessProofs ---------------------------
(***************************************************************************)
(* Proofs about Process, for every number of slots, descriptors, address   *)
(* spaces and pids, and every content of the ramdisk.                      *)
(***************************************************************************)
EXTENDS Process, TLAPS

USE DEF NULL, Slots, Fds

-----------------------------------------------------------------------------
(* Types.                                                                  *)

(* The zeroed slot, the zeroed descriptor and the three standard descriptors *)
(* that allocate_process writes are well typed.                              *)
LEMMA ZeroTypes ==
    /\ ZeroProcess \in ProcessType
    /\ ZeroFd \in FdType
    /\ ZeroFds \in [Fds -> FdType]
    /\ StandardFds \in [Fds -> FdType]
<1>1. ZeroProcess \in ProcessType
  BY DEF ZeroProcess, ProcessType
<1>2. ZeroFd \in FdType
  BY DEF ZeroFd, FdType
<1>3. ZeroFds \in [Fds -> FdType]
  BY <1>2 DEF ZeroFds
<1>4. \A t \in {"STDIN", "STDOUT", "STDERR"} : [ZeroFd EXCEPT !.type = t] \in FdType
  BY DEF ZeroFd, FdType
<1>5. StandardFds \in [Fds -> FdType]
  BY <1>3, <1>4, SizesAssumption DEF StandardFds, ZeroFds
<1> QED
  BY <1>1, <1>2, <1>3, <1>5

(* What a call that only returns an error or an answer, or that faults,    *)
(* leaves of the state is well typed.                                      *)
LEMMA ReturnType ==
    ASSUME TypeOK, NEW v \in Int, ReturnOnly(v) \/ Fault
    PROVE  TypeOK'
BY DEF TypeOK, ReturnOnly, Fault, table, memory

(* negative_errno returns an integer for each error number process.c uses. *)
LEMMA ErrnoType ==
    \A e \in {EBADF, ECHILD, EAGAIN, ENOMEM, EFAULT, EISDIR, EINVAL, EMFILE, ENOENT, ENOEXEC, ERANGE, ENOSYS} :
        negative_errno(e) \in Int
BY DEF negative_errno, EBADF, ECHILD, EAGAIN, ENOMEM, EFAULT, EISDIR, EINVAL, EMFILE, ENOENT,
       ENOEXEC, ERANGE, ENOSYS

(* A slot or a descriptor of the caller is overwritten by a well typed value. *)
LEMMA TypedUpdates ==
    ASSUME TypeOK
    PROVE  /\ \A s \in Slots, p \in ProcessType : [processes EXCEPT ![s] = p] \in [Slots -> ProcessType]
           /\ \A s \in Slots, f \in [Fds -> FdType] : [fds EXCEPT ![s] = f] \in [Slots -> [Fds -> FdType]]
           /\ \A c \in Cr3, m \in SUBSET Page : [mapped EXCEPT ![c] = m] \in [Cr3 -> SUBSET Page]
BY DEF TypeOK

(* Overwriting one descriptor with SetFd keeps the types. *)
LEMMA SetFdType ==
    ASSUME TypeOK, current \in Slots, NEW fd \in Fds, NEW value \in FdType, NEW v \in Int,
           SetFd(fd, value), rax' = v
    PROVE  TypeOK'
<1>1. [fds[current] EXCEPT ![fd] = value] \in [Fds -> FdType]
  BY DEF TypeOK
<1>2. fds' \in [Slots -> [Fds -> FdType]]
  BY <1>1, TypedUpdates DEF SetFd
<1> QED
  BY <1>2 DEF TypeOK, SetFd, memory

(* The part of the invariant the typing of a call needs: in user mode there *)
(* is a current process, and it has an address space.                       *)
HasCurrent == machine = "user" => current \in Slots /\ process.cr3 \in Cr3

(* A space that is made and given up leaves no trace. *)
LEMMA AbandonedSpace ==
    ASSUME abandon_space
    PROVE  UNCHANGED memory
BY DEF abandon_space, destroy_user_space, memory

(* An execve whose load fails only returns. *)
LEMMA FailedLoad ==
    ASSUME NEW v, rax' = v, abandon_space, UNCHANGED <<table, machine, at, wstatus>>
    PROVE  ReturnOnly(v)
BY AbandonedSpace DEF ReturnOnly

(* execve keeps the types, whether it fails or replaces the image. *)
LEMMA ExecveType ==
    ASSUME TypeOK, HasCurrent, NEW path \in UserStrings, syscall_execve(path)
    PROVE  TypeOK'
<1>1. CASE \E v \in Int : ReturnOnly(v) \/ Fault
  BY <1>1, ReturnType
<1>2. ASSUME NEW c \in Cr3, load_program(path), ReplaceImage(path, c)
      PROVE  TypeOK'
  <2>1. current \in Slots /\ process.cr3 \in Cr3 /\ process \in ProcessType
    BY DEF TypeOK, HasCurrent, syscall_execve, InUser, process
  <2>2. NewImage(process, c) \in ProcessType
    BY <2>1, SizesAssumption DEF NewImage, ProcessType
  <2>3. processes' \in [Slots -> ProcessType]
    BY <2>1, <2>2, <1>2, TypedUpdates DEF ReplaceImage
  <2>4. ImagePages(path) \subseteq Page /\ Ramdisk[path].entry \in Points
    BY <1>2, RamdiskAssumption, MemoryAssumption DEF load_program, ImagePages
  <2>5. mapped' \in [Cr3 -> SUBSET Page]
    BY <2>1, <2>4, <1>2 DEF TypeOK, ReplaceImage
  <2>6. live' \subseteq Cr3
    BY <1>2 DEF TypeOK, ReplaceImage, destroy_user_space
  <2>7. UNCHANGED <<fds, current, next_pid, machine, wstatus>> /\ rax' = 0 /\ cr3' = c
        /\ at' = Ramdisk[path].entry
    BY <1>2 DEF ReplaceImage
  <2> QED
    BY <2>3, <2>4, <2>5, <2>6, <2>7 DEF TypeOK
<1> QED
  BY <1>1, <1>2, ErrnoType, FailedLoad DEF syscall_execve

(* vfork keeps the types on each of its three outcomes. *)
LEMMA VforkType ==
    ASSUME TypeOK, HasCurrent, syscall_vfork
    PROVE  TypeOK'
<1>1. current \in Slots /\ process.cr3 \in Cr3 /\ process \in ProcessType
  BY DEF TypeOK, HasCurrent, syscall_vfork, InUser, process
<1>2. CASE TableFull /\ rax' = negative_errno(EAGAIN) /\ UNCHANGED <<table, memory>>
  BY <1>2, ErrnoType DEF TypeOK, syscall_vfork, table, memory
<1>3. ASSUME NEW s \in Slots, next_pid' = next_pid + 1,
             rax' = negative_errno(ENOMEM), UNCHANGED <<processes, fds, current, memory>>
      PROVE  TypeOK'
  BY <1>3, ErrnoType DEF TypeOK, syscall_vfork, memory
<1>4. ASSUME NEW s \in Slots, next_pid' = next_pid + 1, NEW c \in Cr3 \ live, RunChild(s, c)
      PROVE  TypeOK'
  <2>1. ForkedProcess(c) \in ProcessType
    <3>1. process.pid \in Nat /\ process.brk \in Nat
      BY <1>1 DEF ProcessType
    <3>2. next_pid \in Nat /\ at \in Points \cup {0}
      BY DEF TypeOK
    <3> QED
      BY <1>1, <3>1, <3>2 DEF ForkedProcess, ProcessType
  <2>2. Suspended(process) \in ProcessType
    BY <1>1 DEF Suspended, ProcessType
  <2>3. processes' \in [Slots -> ProcessType]
    BY <1>1, <1>4, <2>1, <2>2 DEF TypeOK, RunChild
  <2>4. fds' \in [Slots -> [Fds -> FdType]]
    BY <1>1, <1>4 DEF TypeOK, RunChild
  <2>5. mapped' \in [Cr3 -> SUBSET Page]
    BY <1>1, <1>4 DEF TypeOK, RunChild
  <2> QED
    BY <1>4, <2>3, <2>4, <2>5 DEF TypeOK, RunChild, syscall_vfork
<1> QED
  BY <1>2, <1>3, <1>4, AbandonedSpace DEF syscall_vfork, TakePid

(* exit keeps the types, of init and of any other process. *)
LEMMA ExitType ==
    ASSUME TypeOK, HasCurrent, NEW status \in Statuses, syscall_exit(status)
    PROVE  TypeOK'
<1>1. current \in Slots /\ process \in ProcessType
  BY DEF TypeOK, HasCurrent, syscall_exit, InUser, process
<1>2. Exited(process, status) \in ProcessType
  <2>1. status % 256 \in 0 .. 255
    BY ArgumentsAssumption
  <2>2. \A x \in 0 .. 255 : [process EXCEPT !.state = "ZOMBIE", !.exit_status = x] \in ProcessType
    BY <1>1 DEF ProcessType
  <2> QED
    BY <2>1, <2>2 DEF Exited
<1>3. UNCHANGED <<fds, next_pid, live, mapped, wstatus>>
  BY DEF syscall_exit
<1>4. CASE ResumeParent(status)
  <2> DEFINE parent == process.vfork_parent
  <2>1. parent \in Slots
    BY <1>1, <1>4 DEF ResumeParent, ProcessType
  <2>2. processes[parent] \in ProcessType
    BY <2>1 DEF TypeOK
  <2>3. [[processes EXCEPT ![current] = Exited(process, status)] EXCEPT
            ![parent] = [@ EXCEPT !.state = "RUNNING"]] \in [Slots -> ProcessType]
    <3> DEFINE exited == [processes EXCEPT ![current] = Exited(process, status)]
    <3>1. exited \in [Slots -> ProcessType]
      BY <1>1, <1>2, TypedUpdates
    <3>2. [exited[parent] EXCEPT !.state = "RUNNING"] \in ProcessType
      <4>1. exited[parent] \in ProcessType
        BY <2>1, <3>1
      <4> QED
        BY <4>1 DEF ProcessType
    <3> QED
      BY <2>1, <3>1, <3>2
  <2>4. processes' \in [Slots -> ProcessType]
    BY <2>3, <1>4 DEF ResumeParent
  <2>5. current' = parent /\ cr3' = processes[parent].cr3 /\ UNCHANGED machine
        /\ at' = process.saved_parent_frame /\ rax' = process.pid
    BY <1>4 DEF ResumeParent
  <2>6. cr3' \in Cr3 \cup {NoCr3} /\ at' \in Points \cup {0} /\ rax' \in Int
    BY <1>1, <2>2, <2>5 DEF ProcessType
  <2> QED
    BY <1>3, <2>1, <2>4, <2>5, <2>6 DEF TypeOK
<1>5. CASE InitExits(status)
  <2>1. processes' \in [Slots -> ProcessType]
    BY <1>1, <1>2, <1>5, TypedUpdates DEF InitExits
  <2> QED
    BY <1>3, <1>5, <2>1 DEF TypeOK, InitExits
<1> QED
  BY <1>4, <1>5 DEF syscall_exit

(* wait4 keeps the types, also of the status word it stores. *)
LEMMA WaitType ==
    ASSUME TypeOK, NEW pid \in PidArgs, NEW pointer \in Pointers, syscall_wait4(pid, pointer)
    PROVE  TypeOK'
<1>1. CASE \E v \in Int : ReturnOnly(v) \/ Fault
  BY <1>1, ReturnType
<1>2. ASSUME NEW s \in Slots, Reap(s), wstatus' \in {wstatus, processes[s].exit_status * 256}
      PROVE  TypeOK'
  <2>1. processes[s] \in ProcessType
    BY DEF TypeOK
  <2>2. processes[s].exit_status \in 0 .. 255 /\ processes[s].pid \in Nat
    BY <2>1 DEF ProcessType
  <2>3. wstatus' \in Nat
    <3>1. processes[s].exit_status * 256 \in Nat
      BY <2>2
    <3> QED
      BY <1>2, <3>1 DEF TypeOK
  <2>4. processes' \in [Slots -> ProcessType] /\ fds' \in [Slots -> [Fds -> FdType]]
    BY <1>2, ZeroTypes, TypedUpdates DEF Reap
  <2>5. mapped' \in [Cr3 -> SUBSET Page] /\ live' \subseteq Cr3
    BY <1>2 DEF TypeOK, Reap, destroy_user_space
  <2>6. rax' \in Int /\ UNCHANGED <<current, next_pid, cr3, machine, at>>
    BY <1>2, <2>2 DEF Reap
  <2> QED
    BY <2>3, <2>4, <2>5, <2>6 DEF TypeOK
<1> QED
  BY <1>1, <1>2, ErrnoType DEF syscall_wait4

(* brk keeps the types, also when it maps only some of the pages. *)
LEMMA BrkType ==
    ASSUME TypeOK, HasCurrent, NEW requested_break \in BrkArgs, syscall_brk(requested_break)
    PROVE  TypeOK'
<1>1. current \in Slots /\ process.cr3 \in Cr3 /\ process \in ProcessType
  BY DEF TypeOK, HasCurrent, syscall_brk, InUser, process
<1>2. process.brk \in Nat /\ requested_break \in Nat
  BY <1>1, ArgumentsAssumption DEF ProcessType
<1>3. CASE ReturnOnly(process.brk)
  BY <1>2, <1>3, ReturnType
<1>4. CASE GrowHeap(requested_break) /\ UNCHANGED <<fds, current, next_pid, cr3, live, machine, at, wstatus>>
  <2>1. PICK stop : /\ MapInto(PagesBetween(align_up(process.brk), stop))
                    /\ processes' = [processes EXCEPT ![current] =
                                       [@ EXCEPT !.brk = BreakAfter(requested_break, stop)]]
                    /\ rax' = BreakAfter(requested_break, stop)
    BY <1>4 DEF GrowHeap
  <2>2. BreakAfter(requested_break, stop) \in Nat
    BY <1>2 DEF BreakAfter
  <2>3. [process EXCEPT !.brk = BreakAfter(requested_break, stop)] \in ProcessType
    BY <1>1, <2>2 DEF ProcessType
  <2>4. processes' \in [Slots -> ProcessType]
    BY <1>1, <2>1, <2>3, TypedUpdates DEF process
  <2>5. mapped' \in [Cr3 -> SUBSET Page]
    BY <1>1, <2>1 DEF TypeOK, MapInto, PagesBetween
  <2> QED
    BY <1>4, <2>1, <2>2, <2>4, <2>5 DEF TypeOK
<1> QED
  BY <1>3, <1>4 DEF syscall_brk

(* open writes a well typed descriptor. *)
LEMMA OpenType ==
    ASSUME TypeOK, HasCurrent, NEW path \in UserStrings, syscall_open(path)
    PROVE  TypeOK'
<1>1. CASE \E v \in Int : ReturnOnly(v) \/ Fault
  BY <1>1, ReturnType
<1>2. ASSUME NEW fd \in Fds, path \in DOMAIN Ramdisk, rax' = fd,
             SetFd(fd, [type |-> IF Ramdisk[path].directory THEN "DIR" ELSE "FILE", path |-> path, offset |-> 0])
      PROVE  TypeOK'
  <2>1. current \in Slots
    BY DEF HasCurrent, syscall_open, InUser
  <2>2. [type |-> IF Ramdisk[path].directory THEN "DIR" ELSE "FILE", path |-> path, offset |-> 0] \in FdType
    BY <1>2, SizesAssumption DEF FdType
  <2>3. fd \in Int
    BY SizesAssumption
  <2> QED
    BY <1>2, <2>1, <2>2, <2>3, SetFdType
<1> QED
  BY <1>1, <1>2, ErrnoType DEF syscall_open

(* close leaves a zeroed descriptor. *)
LEMMA CloseType ==
    ASSUME TypeOK, HasCurrent, NEW fd \in FdArgs, syscall_close(fd)
    PROVE  TypeOK'
<1>1. CASE ReturnOnly(negative_errno(EBADF))
  BY <1>1, ReturnType, ErrnoType
<1>2. CASE fd > 2 /\ HasType(fd, OpenTypes) /\ SetFd(fd, ZeroFd) /\ rax' = 0
  BY <1>2, ZeroTypes, SetFdType DEF HasCurrent, syscall_close, InUser, HasType
<1> QED
  BY <1>1, <1>2 DEF syscall_close

(* A file or directory descriptor of the caller keeps its type when its offset *)
(* moves within the words; what read and getdents64 serve stays within the end *)
(* of the file or directory.                                                   *)
LEMMA MovedOffset ==
    ASSUME TypeOK, HasCurrent, InUser, NEW fd, HasType(fd, {"FILE", "DIR"})
    PROVE  LET file == fds[current][fd] IN
           /\ current \in Slots /\ fd \in Fds
           /\ file.path \in DOMAIN Ramdisk
           /\ file.offset \in 0 .. WORD - 1
           /\ \A x \in 0 .. WORD - 1 : [file EXCEPT !.offset = x] \in FdType
<1>1. current \in Slots /\ fd \in Fds
  BY DEF HasCurrent, InUser, HasType
<1>2. fds[current][fd] \in [type : {"FILE", "DIR"}, path : DOMAIN Ramdisk, offset : 0 .. WORD - 1]
  <2>1. fds[current][fd] \in FdType
    BY <1>1 DEF TypeOK
  <2>2. fds[current][fd].type \in {"FILE", "DIR"}
    BY DEF HasType
  <2> QED
    BY <2>1, <2>2 DEF FdType
<1>3. \A x \in 0 .. WORD - 1 :
         [fds[current][fd] EXCEPT !.offset = x] \in [type : {"FILE", "DIR"}, path : DOMAIN Ramdisk, offset : 0 .. WORD - 1]
  BY <1>2
<1> QED
  BY <1>1, <1>2, <1>3 DEF FdType

(* What read and getdents64 serve never takes an offset past the word size. *)
LEMMA ServedBounds ==
    ASSUME NEW end \in 0 .. WORD - 1, NEW offset \in 0 .. WORD - 1, NEW count \in Nat
    PROVE  /\ Served(end - offset, count) \in Nat
           /\ offset + Served(end - offset, count) \in 0 .. WORD - 1
BY SizesAssumption DEF Served

(* read keeps the types: a file offset moves within the file. *)
LEMMA ReadType ==
    ASSUME TypeOK, HasCurrent, NEW fd \in FdArgs, NEW buffer \in Pointers, NEW count \in Counts,
           syscall_read(fd, buffer, count)
    PROVE  TypeOK'
<1>1. CASE \E v \in Int : ReturnOnly(v) \/ Fault
  BY <1>1, ReturnType
<1>2. CASE /\ HasType(fd, {"FILE"})
           /\ SetFd(fd, [fds[current][fd] EXCEPT !.offset = @ + Available(fd, count)])
           /\ rax' = Available(fd, count)
  <2>1. InUser /\ HasType(fd, {"FILE", "DIR"}) /\ count \in Nat
    BY <1>2, ArgumentsAssumption DEF syscall_read, HasType
  <2> DEFINE file == fds[current][fd]
  <2>2. Ramdisk[file.path].size \in 0 .. WORD - 1 /\ file.offset \in 0 .. WORD - 1
    BY <2>1, MovedOffset, RamdiskAssumption
  <2>3. Available(fd, count) \in Nat /\ file.offset + Available(fd, count) \in 0 .. WORD - 1
    BY <2>1, <2>2, ServedBounds DEF Available
  <2>4. [file EXCEPT !.offset = @ + Available(fd, count)] \in FdType /\ fd \in Fds /\ current \in Slots
    BY <2>1, <2>3, MovedOffset
  <2> QED
    BY <1>2, <2>3, <2>4, SetFdType
<1>3. count \in Int
  BY ArgumentsAssumption
<1> QED
  BY <1>1, <1>2, <1>3, ErrnoType DEF syscall_read

(* getdents64 keeps the types: a directory offset moves within its children. *)
LEMMA GetdentsType ==
    ASSUME TypeOK, HasCurrent, NEW fd \in FdArgs, NEW buffer \in Pointers, NEW count \in Counts,
           syscall_getdents64(fd, buffer, count)
    PROVE  TypeOK'
<1>1. CASE \E v \in Int : ReturnOnly(v) \/ Fault
  BY <1>1, ReturnType
<1>2. CASE /\ HasType(fd, {"DIR"})
           /\ SetFd(fd, [fds[current][fd] EXCEPT !.offset = @ + Entries(fd, count)])
           /\ rax' = Entries(fd, count)
  <2>1. InUser /\ HasType(fd, {"FILE", "DIR"}) /\ count \in Nat
    BY <1>2, ArgumentsAssumption DEF syscall_getdents64, HasType
  <2> DEFINE file == fds[current][fd]
  <2>2. Ramdisk[file.path].children \in 0 .. WORD - 1 /\ file.offset \in 0 .. WORD - 1
    BY <2>1, MovedOffset, RamdiskAssumption
  <2>3. Entries(fd, count) \in Nat /\ file.offset + Entries(fd, count) \in 0 .. WORD - 1
    BY <2>1, <2>2, ServedBounds DEF Entries
  <2>4. [file EXCEPT !.offset = @ + Entries(fd, count)] \in FdType /\ fd \in Fds /\ current \in Slots
    BY <2>1, <2>3, MovedOffset
  <2> QED
    BY <1>2, <2>3, <2>4, SetFdType
<1> QED
  BY <1>1, <1>2, ErrnoType DEF syscall_getdents64

(* lseek keeps the types: the new offset is reduced to a word. *)
LEMMA LseekType ==
    ASSUME TypeOK, HasCurrent, NEW fd \in FdArgs, NEW offset \in SeekArgs, NEW whence \in 0 .. 3,
           syscall_lseek(fd, offset, whence)
    PROVE  TypeOK'
<1>1. CASE \E v \in Int : ReturnOnly(v) \/ Fault
  BY <1>1, ReturnType
<1>2. CASE HasType(fd, {"FILE"}) /\ whence \in 0 .. 2
           /\ SetFd(fd, [fds[current][fd] EXCEPT !.offset = Wrap(SeekBase(fd, whence) + offset)])
           /\ rax' = Signed(Wrap(SeekBase(fd, whence) + offset))
  <2>1. InUser /\ HasType(fd, {"FILE", "DIR"}) /\ offset \in Nat
    BY <1>2, ArgumentsAssumption DEF syscall_lseek, HasType
  <2> DEFINE file == fds[current][fd]
  <2>2. Ramdisk[file.path].size \in Nat /\ file.offset \in Nat
    BY <2>1, MovedOffset, RamdiskAssumption, SizesAssumption
  <2>3. SeekBase(fd, whence) \in Nat
    BY <1>2, <2>2 DEF SeekBase
  <2>4. Wrap(SeekBase(fd, whence) + offset) \in 0 .. WORD - 1
    BY <2>1, <2>3, SizesAssumption DEF Wrap
  <2>5. Signed(Wrap(SeekBase(fd, whence) + offset)) \in Int
    BY <2>4, SizesAssumption DEF Signed
  <2>6. [file EXCEPT !.offset = Wrap(SeekBase(fd, whence) + offset)] \in FdType /\ fd \in Fds /\ current \in Slots
    BY <2>1, <2>4, MovedOffset
  <2> QED
    BY <1>2, <2>5, <2>6, SetFdType
<1> QED
  BY <1>1, <1>2, ErrnoType DEF syscall_lseek, Seekable

(* write and the calls that only answer return a value or fault, and change nothing. *)
LEMMA AnswerType ==
    ASSUME TypeOK, HasCurrent,
           \/ AnswerCall
           \/ \E fd \in FdArgs, buffer \in Pointers, count \in Counts : syscall_write(fd, buffer, count)
    PROVE  (\E v \in Int : ReturnOnly(v)) \/ Fault
<1>1. ASSUME NEW fd \in FdArgs, NEW buffer \in Pointers, NEW count \in Counts, syscall_write(fd, buffer, count)
      PROVE  (\E v \in Int : ReturnOnly(v)) \/ Fault
  <2>1. count \in Int
    BY ArgumentsAssumption
  <2> QED
    BY <1>1, <2>1, ErrnoType DEF syscall_write
<1>2. ASSUME NEW path \in UserStrings, syscall_access(path)
      PROVE  (\E v \in Int : ReturnOnly(v)) \/ Fault
  BY <1>2, ErrnoType DEF syscall_access
<1>3. ASSUME NEW buffer \in Pointers, NEW size \in Counts, syscall_getcwd(buffer, size)
      PROVE  (\E v \in Int : ReturnOnly(v)) \/ Fault
  BY <1>3, ErrnoType, SizesAssumption DEF syscall_getcwd
<1>4. ASSUME NEW buffer \in Pointers, syscall_uname(buffer)
      PROVE  (\E v \in Int : ReturnOnly(v)) \/ Fault
  BY <1>4, ErrnoType DEF syscall_uname
<1>5. CASE syscall_identity
  <2>1. process.pid \in Int /\ process.ppid \in Int
    BY <1>5 DEF TypeOK, HasCurrent, syscall_identity, InUser, process, ProcessType
  <2> QED
    BY <1>5, <2>1, ErrnoType DEF syscall_identity
<1> QED
  BY <1>1, <1>2, <1>3, <1>4, <1>5 DEF AnswerCall

(* xbks_process_start_init keeps the types on success and on each failure. *)
LEMMA StartType ==
    ASSUME TypeOK, xbks_process_start_init
    PROVE  TypeOK'
<1>1. CASE machine' = "shell" /\ next_pid' \in {next_pid, next_pid + 1}
           /\ UNCHANGED <<processes, fds, current, memory, at>>
  BY <1>1 DEF TypeOK, xbks_process_start_init, memory
<1>2. ASSUME NEW s \in Slots, TakePid, load_program(InitPath), NEW c \in Cr3 \ live, StartInitProcess(s, c)
      PROVE  TypeOK'
  <2>1. InitProcess(c) \in ProcessType
    <3>1. next_pid \in Nat
      BY DEF TypeOK
    <3> QED
      BY <3>1, SizesAssumption DEF InitProcess, ProcessType
  <2>2. processes' \in [Slots -> ProcessType] /\ fds' \in [Slots -> [Fds -> FdType]]
    BY <1>2, <2>1, ZeroTypes, TypedUpdates DEF StartInitProcess
  <2>3. ImagePages(InitPath) \subseteq Page /\ Ramdisk[InitPath].entry \in Points
    BY <1>2, RamdiskAssumption, MemoryAssumption DEF load_program, ImagePages
  <2>4. mapped' \in [Cr3 -> SUBSET Page]
    BY <1>2, <2>3, TypedUpdates DEF StartInitProcess
  <2>5. /\ current' = s /\ cr3' = c /\ live' = live \cup {c} /\ machine' = "user"
        /\ at' = Ramdisk[InitPath].entry /\ next_pid' = next_pid + 1 /\ UNCHANGED <<rax, wstatus>>
    BY <1>2 DEF StartInitProcess, TakePid, xbks_process_start_init
  <2> QED
    BY <2>2, <2>3, <2>4, <2>5 DEF TypeOK
<1> QED
  BY <1>1, <1>2, AbandonedSpace DEF xbks_process_start_init, table, TakePid

(* Every step keeps the types, given a current process in user mode. *)
LEMMA NextType ==
    ASSUME TypeOK, HasCurrent, [Next]_vars
    PROVE  TypeOK'
<1>1. CASE UNCHANGED vars
  BY <1>1 DEF TypeOK, vars
<1>2. CASE xbks_process_start_init
  BY <1>2, StartType
<1>3. CASE UserStep
  BY <1>3 DEF TypeOK, UserStep, table, memory
<1>4. CASE Stopped
  BY <1>4, <1>1 DEF Stopped
<1>5. CASE ProcessCall
  BY <1>5, VforkType, ExecveType, WaitType, ExitType, BrkType DEF ProcessCall
<1>6. CASE FileCall
  BY <1>6, OpenType, CloseType, LseekType, ReadType, GetdentsType, AnswerType, ReturnType DEF FileCall
<1>7. CASE AnswerCall
  BY <1>7, AnswerType, ReturnType
<1> QED
  BY <1>1, <1>2, <1>3, <1>4, <1>5, <1>6, <1>7 DEF Next, xbks_process_syscall_dispatch

-----------------------------------------------------------------------------
(* The life cycle.  The six properties are inductive together: OneRunning   *)
(* needs the vfork parent of the current process to be BLOCKED (VforkChain), *)
(* NobodyStranded needs no two processes to share a vfork parent, which the  *)
(* order by pid gives, and HaltsAlone needs the current process to be the    *)
(* youngest one and a process without vfork parent to be the oldest one.     *)

LifeCycle ==
    /\ machine = "boot" => \A s \in Slots : ~IsUsed(s)
    /\ machine = "user" => current \in Slots
    /\ OneRunning
    /\ NobodyStranded
    /\ VforkChain
    /\ HaltsAlone
    /\ PidsDistinct
    /\ SpacesOwned

IInv == TypeOK /\ LifeCycle

(* In user mode the current process exists, is RUNNING and has a live space. *)
LEMMA CurrentProcess ==
    ASSUME IInv, InUser
    PROVE  /\ HasCurrent
           /\ current \in Slots /\ process \in ProcessType
           /\ process.state = "RUNNING" /\ IsAlive(current) /\ IsUsed(current)
           /\ process.cr3 \in live /\ live \subseteq Cr3
BY DEF IInv, TypeOK, LifeCycle, InUser, OneRunning, HasCurrent, IsAlive, IsUsed, process

(* What the life cycle reads of a slot. *)
SameLinks(s) ==
    /\ processes'[s].pid = processes[s].pid
    /\ processes'[s].state = processes[s].state
    /\ processes'[s].cr3 = processes[s].cr3
    /\ processes'[s].vfork_parent = processes[s].vfork_parent

(* A step that starts, stops and moves no process. *)
Quiet ==
    /\ \A s \in Slots : SameLinks(s)
    /\ UNCHANGED <<current, cr3, live>>
    /\ next_pid' \in {next_pid, next_pid + 1}
    /\ machine' \in {machine, "shell", "faulted"}

(* A quiet step keeps the life cycle properties. *)
LEMMA QuietStep ==
    ASSUME IInv, Quiet
    PROVE  LifeCycle'
<1>1. \A s \in Slots : IsUsed(s)' = IsUsed(s) /\ IsAlive(s)' = IsAlive(s)
  BY DEF Quiet, SameLinks, IsUsed, IsAlive
<1>2. machine' = "boot" => \A s \in Slots : ~IsUsed(s)'
  BY <1>1 DEF IInv, LifeCycle, Quiet
<1>3. machine' = "user" => current' \in Slots
  BY DEF IInv, LifeCycle, Quiet
<1>4. OneRunning'
  BY <1>3 DEF IInv, LifeCycle, OneRunning, Quiet, SameLinks, process
<1>5. NobodyStranded'
  BY <1>1 DEF IInv, LifeCycle, NobodyStranded, Quiet, SameLinks
<1>6. VforkChain'
  <2>1. \A c \in Slots : processes[c].vfork_parent \in Slots \cup {NULL}
    BY DEF IInv, TypeOK, ProcessType
  <2> QED
    BY <1>1, <1>3, <2>1 DEF IInv, LifeCycle, VforkChain, Quiet, SameLinks, process
<1>7. HaltsAlone'
  BY <1>1 DEF IInv, LifeCycle, HaltsAlone, Quiet
<1>8. PidsDistinct'
  BY <1>1 DEF IInv, TypeOK, LifeCycle, PidsDistinct, Quiet, SameLinks
<1>9. SpacesOwned'
  BY <1>1 DEF IInv, LifeCycle, SpacesOwned, Quiet, SameLinks
<1> QED
  BY <1>2, <1>3, <1>4, <1>5, <1>6, <1>7, <1>8, <1>9 DEF LifeCycle

(* Starting init in an empty table establishes the life cycle properties. *)
LEMMA StartStep ==
    ASSUME IInv, machine = "boot", NEW s \in Slots, NEW c \in Cr3 \ live, TakePid, StartInitProcess(s, c)
    PROVE  LifeCycle'
<1>1. \A t \in Slots : ~IsUsed(t)
  BY DEF IInv, LifeCycle
<1>2. live = {}
  BY <1>1 DEF IInv, LifeCycle, SpacesOwned
<1>3. \A t \in Slots : processes'[t] = IF t = s THEN InitProcess(c) ELSE processes[t]
  BY DEF IInv, TypeOK, StartInitProcess
<1>4. /\ processes'[s].pid = next_pid /\ processes'[s].state = "RUNNING"
      /\ processes'[s].cr3 = c /\ processes'[s].vfork_parent = NULL
  BY <1>3 DEF InitProcess
<1>5. \A t \in Slots : t # s => ~IsUsed(t)' /\ ~IsAlive(t)' /\ processes'[t].state = "UNUSED"
  BY <1>1, <1>3 DEF IsUsed, IsAlive
<1>6. current' = s /\ cr3' = c /\ live' = {c} /\ machine' = "user" /\ next_pid' = next_pid + 1
  BY <1>2 DEF StartInitProcess, TakePid
<1>7. OneRunning'
  BY <1>4, <1>5, <1>6 DEF OneRunning, process
<1>8. NobodyStranded'
  BY <1>4, <1>5 DEF NobodyStranded
<1>9. VforkChain'
  BY <1>4, <1>5, <1>6 DEF VforkChain, process, IInv, TypeOK
<1>10. PidsDistinct'
  BY <1>4, <1>5, <1>6 DEF PidsDistinct, IInv, TypeOK
<1>11. SpacesOwned'
  BY <1>4, <1>5, <1>6 DEF SpacesOwned, IsUsed
<1> QED
  BY <1>6, <1>7, <1>8, <1>9, <1>10, <1>11 DEF LifeCycle, HaltsAlone

(* execve changes the address space of the caller, and nothing of the chain. *)
LEMMA ReplaceStep ==
    ASSUME IInv, InUser, NEW path, NEW c \in Cr3 \ live, ReplaceImage(path, c)
    PROVE  LifeCycle'
<1>1. /\ current \in Slots /\ process \in ProcessType /\ IsUsed(current) /\ process.cr3 \in live
  BY CurrentProcess
<1>2. \A t \in Slots : processes'[t] = IF t = current THEN NewImage(process, c) ELSE processes[t]
  BY <1>1 DEF IInv, TypeOK, ReplaceImage
<1>3. /\ processes'[current].pid = processes[current].pid
      /\ processes'[current].state = processes[current].state
      /\ processes'[current].vfork_parent = processes[current].vfork_parent
      /\ processes'[current].cr3 = c
  BY <1>1, <1>2 DEF NewImage, ProcessType, process
<1>4. \A t \in Slots : /\ processes'[t].pid = processes[t].pid
                       /\ processes'[t].state = processes[t].state
                       /\ processes'[t].vfork_parent = processes[t].vfork_parent
                       /\ t # current => processes'[t].cr3 = processes[t].cr3
  BY <1>2, <1>3
<1>5. \A t \in Slots : IsUsed(t)' = IsUsed(t) /\ IsAlive(t)' = IsAlive(t)
  BY <1>4 DEF IsUsed, IsAlive
<1>6. UNCHANGED <<current, next_pid, machine>> /\ cr3' = c /\ live' = (live \cup {c}) \ {process.cr3}
  BY DEF ReplaceImage, destroy_user_space
<1>7. OneRunning'
  BY <1>1, <1>3, <1>4, <1>6 DEF IInv, LifeCycle, OneRunning, process
<1>8. NobodyStranded'
  BY <1>4, <1>5 DEF IInv, LifeCycle, NobodyStranded
<1>9. VforkChain'
  <2>1. \A t \in Slots : processes[t].vfork_parent \in Slots \cup {NULL}
    BY DEF IInv, TypeOK, ProcessType
  <2> QED
    BY <1>1, <1>4, <1>5, <1>6, <2>1 DEF IInv, LifeCycle, VforkChain, process
<1>10. PidsDistinct'
  BY <1>4, <1>5, <1>6 DEF IInv, LifeCycle, PidsDistinct
<1>11. SpacesOwned'
  BY <1>1, <1>3, <1>4, <1>5, <1>6 DEF IInv, LifeCycle, SpacesOwned, process
<1> QED
  BY <1>1, <1>5, <1>6, <1>7, <1>8, <1>9, <1>10, <1>11 DEF IInv, LifeCycle, HaltsAlone, InUser

(* A successful vfork puts a new youngest process on top of the chain. *)
LEMMA VforkStep ==
    ASSUME IInv, InUser, NEW s \in Slots, allocate_process(s), TakePid, NEW c \in Cr3 \ live, RunChild(s, c),
           UNCHANGED machine
    PROVE  LifeCycle'
<1>1. /\ current \in Slots /\ process \in ProcessType /\ IsAlive(current) /\ IsUsed(current)
      /\ process.state = "RUNNING"
  BY CurrentProcess
<1>2. s # current /\ ~IsUsed(s) /\ ~IsAlive(s)
  BY <1>1 DEF allocate_process, IsUsed, IsAlive
<1>3. \A t \in Slots : processes'[t] = IF t = s THEN ForkedProcess(c)
                                       ELSE IF t = current THEN Suspended(process) ELSE processes[t]
  BY <1>1, <1>2 DEF IInv, TypeOK, RunChild
<1>4. /\ processes'[s].pid = next_pid /\ processes'[s].state = "RUNNING"
      /\ processes'[s].cr3 = c /\ processes'[s].vfork_parent = current
  BY <1>3 DEF ForkedProcess
<1>5. /\ processes'[current].pid = processes[current].pid /\ processes'[current].state = "BLOCKED"
      /\ processes'[current].cr3 = processes[current].cr3
      /\ processes'[current].vfork_parent = processes[current].vfork_parent
  BY <1>1, <1>2, <1>3 DEF Suspended, ProcessType, process
<1>6. \A t \in Slots : t \notin {s, current} => processes'[t] = processes[t]
  BY <1>3
<1>7. \A t \in Slots : /\ IsUsed(t)' <=> IsUsed(t) \/ t = s
                       /\ IsAlive(t)' <=> IsAlive(t) \/ t = s
  BY <1>1, <1>4, <1>5, <1>6 DEF IsUsed, IsAlive
<1>8. current' = s /\ cr3' = c /\ live' = live \cup {c} /\ next_pid' = next_pid + 1 /\ machine' = "user"
  BY DEF RunChild, TakePid, InUser
<1>9. \A t \in Slots : IsUsed(t) => processes[t].pid \in Nat /\ processes[t].pid < next_pid
  BY DEF IInv, TypeOK, LifeCycle, PidsDistinct
<1>10. \A t \in Slots : IsAlive(t) => IsUsed(t)
  BY DEF IsAlive, IsUsed
<1>11. OneRunning'
  BY <1>1, <1>2, <1>4, <1>5, <1>6, <1>8 DEF IInv, LifeCycle, OneRunning, process, InUser
<1>12. \A t \in Slots : IsAlive(t) => processes[t].vfork_parent # current
  BY <1>1 DEF IInv, LifeCycle, VforkChain, process
<1>13. NobodyStranded'
  <2> SUFFICES ASSUME NEW t \in Slots, processes'[t].state = "BLOCKED"
               PROVE  \E d \in Slots : /\ IsAlive(d)' /\ processes'[d].vfork_parent = t
                                       /\ \A e \in Slots : IsAlive(e)' /\ processes'[e].vfork_parent = t => e = d
    BY DEF NobodyStranded
  <2>1. CASE t = current
    BY <2>1, <1>2, <1>4, <1>5, <1>6, <1>7, <1>12
  <2>2. CASE t # current
    <3>1. processes[t].state = "BLOCKED"
      BY <2>2, <1>4, <1>6
    <3>2. PICK d \in Slots : /\ IsAlive(d) /\ processes[d].vfork_parent = t
                             /\ \A e \in Slots : IsAlive(e) /\ processes[e].vfork_parent = t => e = d
      BY <3>1 DEF IInv, LifeCycle, NobodyStranded
    <3> QED
      BY <2>2, <3>2, <1>2, <1>4, <1>5, <1>6, <1>7
  <2> QED
    BY <2>1, <2>2
<1>14. VforkChain'
  <2>1. \A t \in Slots : processes[t].vfork_parent \in Slots \cup {NULL}
    BY DEF IInv, TypeOK, ProcessType
  <2>2. \A t \in Slots : IsAlive(t) => processes[t].pid <= processes[current].pid
    BY DEF IInv, LifeCycle, VforkChain, InUser, process
  <2>3. \A t \in Slots : t # s => /\ processes'[t].pid = processes[t].pid
                                  /\ processes'[t].vfork_parent = processes[t].vfork_parent
    BY <1>5, <1>6
  <2>4. \A t \in Slots : processes[t].state = "BLOCKED" => t # s /\ processes'[t].state = "BLOCKED"
    BY <1>1, <1>2, <1>5, <1>6 DEF IsUsed
  <2>5. ASSUME NEW d \in Slots, IsAlive(d), processes[d].vfork_parent # NULL
        PROVE  LET p == processes[d].vfork_parent IN
               /\ p # s /\ processes'[p].state = "BLOCKED" /\ processes'[p].pid < processes'[d].pid
               /\ \A t \in Slots : IsAlive(t)' =>
                     processes'[t].pid <= processes'[p].pid \/ processes'[t].pid >= processes'[d].pid
    <3> DEFINE p == processes[d].vfork_parent
    <3>1. p \in Slots /\ processes[p].state = "BLOCKED" /\ processes[p].pid < processes[d].pid
      BY <2>1, <2>5 DEF IInv, LifeCycle, VforkChain
    <3>2. \A t \in Slots : IsAlive(t) =>
             processes[t].pid <= processes[p].pid \/ processes[t].pid >= processes[d].pid
      BY <2>5 DEF IInv, LifeCycle, VforkChain
    <3>3. d # s /\ processes[d].pid < next_pid /\ processes[d].pid \in Nat /\ next_pid \in Nat
      BY <2>5, <1>2, <1>9, <1>10 DEF IInv, TypeOK
    <3> QED
      BY <3>1, <3>2, <3>3, <2>3, <2>4, <1>4, <1>7
  <2>6. ASSUME NEW d \in Slots, IsAlive(d), processes[d].vfork_parent = NULL
        PROVE  \A t \in Slots : IsAlive(t)' => processes'[t].pid >= processes'[d].pid
    <3>1. \A t \in Slots : IsAlive(t) => processes[t].pid >= processes[d].pid
      BY <2>6 DEF IInv, LifeCycle, VforkChain
    <3>2. d # s /\ processes[d].pid < next_pid /\ processes[d].pid \in Nat /\ next_pid \in Nat
      BY <2>6, <1>2, <1>9, <1>10 DEF IInv, TypeOK
    <3> QED
      BY <3>1, <3>2, <2>3, <1>4, <1>7
  <2>7. \A t \in Slots : IsAlive(t)' => processes'[t].pid <= processes'[s].pid
    BY <2>3, <1>4, <1>7, <1>9, <1>10 DEF IInv, TypeOK
  <2>8. /\ processes'[current].pid < processes'[s].pid
        /\ \A t \in Slots : IsAlive(t)' =>
              processes'[t].pid <= processes'[current].pid \/ processes'[t].pid >= processes'[s].pid
    BY <1>1, <1>2, <1>4, <1>5, <1>7, <1>9, <2>2, <2>3 DEF IInv, TypeOK
  <2> QED
    BY <1>1, <1>2, <1>4, <1>5, <1>7, <1>8, <2>1, <2>3, <2>5, <2>6, <2>7, <2>8 DEF VforkChain, process
<1>15. PidsDistinct'
  BY <1>2, <1>4, <1>5, <1>6, <1>7, <1>8, <1>9 DEF IInv, TypeOK, LifeCycle, PidsDistinct
<1>16. SpacesOwned'
  BY <1>2, <1>4, <1>5, <1>6, <1>7, <1>8 DEF IInv, LifeCycle, SpacesOwned
<1> QED
  BY <1>8, <1>11, <1>13, <1>14, <1>15, <1>16 DEF LifeCycle, HaltsAlone

(* No two living processes have the same vfork parent: each would have to be *)
(* at most as old as the other, and pids are distinct.                       *)
LEMMA OneChildEach ==
    ASSUME IInv, NEW c \in Slots, NEW d \in Slots, IsAlive(c), IsAlive(d),
           processes[c].vfork_parent # NULL, processes[c].vfork_parent = processes[d].vfork_parent
    PROVE  c = d
<1> DEFINE p == processes[c].vfork_parent
<1>1. p \in Slots /\ \A t \in Slots : processes[t].pid \in Nat
  BY DEF IInv, TypeOK, ProcessType
<1>2. processes[p].pid < processes[c].pid /\ processes[p].pid < processes[d].pid
  BY DEF IInv, LifeCycle, VforkChain
<1>3. processes[d].pid <= processes[p].pid \/ processes[d].pid >= processes[c].pid
  BY DEF IInv, LifeCycle, VforkChain
<1>4. processes[c].pid <= processes[p].pid \/ processes[c].pid >= processes[d].pid
  BY DEF IInv, LifeCycle, VforkChain
<1>5. processes[c].pid = processes[d].pid
  BY <1>1, <1>2, <1>3, <1>4
<1> QED
  BY <1>5 DEF IInv, LifeCycle, PidsDistinct, IsAlive, IsUsed

(* exit changes the state and the status of the slot, and nothing else. *)
LEMMA ExitedFields ==
    ASSUME NEW p \in ProcessType, NEW status
    PROVE  /\ Exited(p, status).pid = p.pid
           /\ Exited(p, status).cr3 = p.cr3
           /\ Exited(p, status).vfork_parent = p.vfork_parent
           /\ Exited(p, status).state = "ZOMBIE"
BY DEF Exited, ProcessType

(* exit of a process other than init: the next older process runs again. *)
LEMMA ResumeStep ==
    ASSUME IInv, InUser, NEW status, ResumeParent(status), UNCHANGED <<next_pid, live>>
    PROVE  LifeCycle'
<1> DEFINE parent == process.vfork_parent
<1>1. /\ current \in Slots /\ process \in ProcessType /\ IsAlive(current) /\ IsUsed(current)
      /\ process.state = "RUNNING"
  BY CurrentProcess
<1>2. parent \in Slots /\ processes[parent].state = "BLOCKED" /\ processes[parent] \in ProcessType
      /\ processes[parent].pid < processes[current].pid
  BY <1>1 DEF ResumeParent, IInv, TypeOK, ProcessType, LifeCycle, VforkChain, process
<1>3. parent # current
  BY <1>1, <1>2 DEF process
<1>4. \A t \in Slots : processes'[t] = IF t = current THEN Exited(process, status)
                                       ELSE IF t = parent THEN [processes[parent] EXCEPT !.state = "RUNNING"]
                                       ELSE processes[t]
  BY <1>1, <1>2, <1>3 DEF IInv, TypeOK, ResumeParent
<1>5. processes'[current].state = "ZOMBIE" /\ processes'[parent].state = "RUNNING"
  BY <1>1, <1>2, <1>3, <1>4 DEF Exited, ProcessType
<1>6. \A t \in Slots : /\ processes'[t].pid = processes[t].pid
                       /\ processes'[t].cr3 = processes[t].cr3
                       /\ processes'[t].vfork_parent = processes[t].vfork_parent
                       /\ t \notin {current, parent} => processes'[t].state = processes[t].state
  <2>1. \A t \in Slots : t \notin {current, parent} => processes'[t] = processes[t]
    BY <1>4
  <2>2. LET p == [processes[parent] EXCEPT !.state = "RUNNING"] IN
        /\ p.pid = processes[parent].pid /\ p.cr3 = processes[parent].cr3
        /\ p.vfork_parent = processes[parent].vfork_parent
    BY <1>2 DEF ProcessType
  <2>3. processes'[current] = Exited(processes[current], status)
        /\ processes'[parent] = [processes[parent] EXCEPT !.state = "RUNNING"]
    BY <1>1, <1>2, <1>3, <1>4 DEF process
  <2>4. /\ processes'[current].pid = processes[current].pid
        /\ processes'[current].cr3 = processes[current].cr3
        /\ processes'[current].vfork_parent = processes[current].vfork_parent
    BY <1>1, <2>3, ExitedFields DEF process
  <2>5. /\ processes'[parent].pid = processes[parent].pid
        /\ processes'[parent].cr3 = processes[parent].cr3
        /\ processes'[parent].vfork_parent = processes[parent].vfork_parent
    BY <2>2, <2>3
  <2> HIDE DEF parent
  <2> QED
    BY <2>1, <2>4, <2>5
<1>7. \A t \in Slots : /\ IsUsed(t)' <=> IsUsed(t)
                       /\ IsAlive(t)' <=> IsAlive(t) /\ t # current
  BY <1>1, <1>2, <1>3, <1>5, <1>6 DEF IsUsed, IsAlive
<1>8. current' = parent /\ cr3' = processes[parent].cr3 /\ machine' = "user"
  BY DEF ResumeParent, InUser
<1>9. \A t \in Slots : processes[t].pid \in Nat /\ processes[t].vfork_parent \in Slots \cup {NULL}
  BY DEF IInv, TypeOK, ProcessType
<1>10. IsUsed(parent)
  BY <1>2 DEF IsUsed
<1>11. OneRunning'
  <2>1. processes[parent].cr3 \in live
    BY <1>2, <1>10 DEF IInv, LifeCycle, SpacesOwned
  <2> QED
    BY <1>1, <1>2, <1>5, <1>6, <1>8, <2>1 DEF IInv, LifeCycle, OneRunning, process, InUser
<1>12. \A d \in Slots : IsAlive(d) /\ processes[d].vfork_parent = parent => d = current
  BY <1>1, <1>2, OneChildEach DEF process
<1>13. NobodyStranded'
  <2> SUFFICES ASSUME NEW t \in Slots, processes'[t].state = "BLOCKED"
               PROVE  \E d \in Slots : /\ IsAlive(d)' /\ processes'[d].vfork_parent = t
                                       /\ \A e \in Slots : IsAlive(e)' /\ processes'[e].vfork_parent = t => e = d
    BY DEF NobodyStranded
  <2>1. t # parent /\ t # current /\ processes[t].state = "BLOCKED"
    BY <1>5, <1>6
  <2>2. PICK d \in Slots : /\ IsAlive(d) /\ processes[d].vfork_parent = t
                           /\ \A e \in Slots : IsAlive(e) /\ processes[e].vfork_parent = t => e = d
    BY <2>1 DEF IInv, LifeCycle, NobodyStranded
  <2>3. d # current
    BY <2>1, <2>2 DEF process
  <2> QED
    BY <2>2, <2>3, <1>6, <1>7
<1>14. VforkChain'
  <2>1. ASSUME NEW d \in Slots, IsAlive(d), d # current, processes[d].vfork_parent # NULL
        PROVE  LET p == processes[d].vfork_parent IN
               /\ processes'[p].state = "BLOCKED" /\ processes'[p].pid < processes'[d].pid
               /\ \A t \in Slots : IsAlive(t)' =>
                     processes'[t].pid <= processes'[p].pid \/ processes'[t].pid >= processes'[d].pid
    <3> DEFINE p == processes[d].vfork_parent
    <3>1. p \in Slots /\ processes[p].state = "BLOCKED" /\ processes[p].pid < processes[d].pid
      BY <1>9, <2>1 DEF IInv, LifeCycle, VforkChain
    <3>2. \A t \in Slots : IsAlive(t) =>
             processes[t].pid <= processes[p].pid \/ processes[t].pid >= processes[d].pid
      BY <2>1 DEF IInv, LifeCycle, VforkChain
    <3>3. p # parent /\ p # current
      BY <1>1, <1>12, <2>1, <3>1 DEF process
    <3> QED
      BY <3>1, <3>2, <3>3, <1>6, <1>7
  <2>2. ASSUME NEW d \in Slots, IsAlive(d), processes[d].vfork_parent = NULL
        PROVE  \A t \in Slots : IsAlive(t)' => processes'[t].pid >= processes'[d].pid
    BY <2>2, <1>6, <1>7 DEF IInv, LifeCycle, VforkChain
  <2>3. ASSUME NEW t \in Slots, IsAlive(t), t # current
        PROVE  processes[t].pid <= processes[parent].pid
    <3>1. processes[t].pid <= processes[current].pid
      BY <2>3 DEF IInv, LifeCycle, VforkChain, process, InUser
    <3>2. processes[t].pid <= processes[parent].pid \/ processes[t].pid >= processes[current].pid
      BY <1>1, <1>2, <2>3 DEF IInv, LifeCycle, VforkChain, process
    <3>3. processes[t].pid # processes[current].pid
      BY <1>1, <2>3 DEF IInv, LifeCycle, PidsDistinct, IsAlive, IsUsed
    <3> QED
      BY <1>1, <1>9, <3>1, <3>2, <3>3
  <2> QED
    BY <1>2, <1>6, <1>7, <1>8, <2>1, <2>2, <2>3 DEF VforkChain, process
<1>15. PidsDistinct'
  BY <1>6, <1>7 DEF IInv, LifeCycle, PidsDistinct
<1>16. SpacesOwned'
  BY <1>6, <1>7 DEF IInv, LifeCycle, SpacesOwned
<1> QED
  BY <1>2, <1>8, <1>11, <1>13, <1>14, <1>15, <1>16 DEF LifeCycle, HaltsAlone

(* init's exit: as the youngest and the oldest living process it is the only one. *)
LEMMA InitExitStep ==
    ASSUME IInv, InUser, NEW status, InitExits(status), UNCHANGED <<next_pid, live>>
    PROVE  LifeCycle'
<1>1. /\ current \in Slots /\ process \in ProcessType /\ IsAlive(current) /\ IsUsed(current)
  BY CurrentProcess
<1>2. \A t \in Slots : processes'[t] = IF t = current THEN Exited(process, status) ELSE processes[t]
  BY <1>1 DEF IInv, TypeOK, InitExits
<1>3. processes'[current].state = "ZOMBIE"
  BY <1>1, <1>2 DEF Exited, ProcessType
<1>4. \A t \in Slots : processes'[t].pid = processes[t].pid /\ processes'[t].cr3 = processes[t].cr3
  BY <1>1, <1>2, ExitedFields DEF process
<1>5. \A t \in Slots : IsAlive(t) => t = current
  <2> SUFFICES ASSUME NEW t \in Slots, IsAlive(t) PROVE t = current
    OBVIOUS
  <2>1. processes[t].pid <= processes[current].pid /\ processes[t].pid >= processes[current].pid
    BY <1>1 DEF IInv, LifeCycle, VforkChain, process, InUser, InitExits
  <2>2. processes[t].pid \in Nat /\ processes[current].pid \in Nat
    BY <1>1 DEF IInv, TypeOK, ProcessType
  <2> QED
    BY <1>1, <2>1, <2>2 DEF IInv, LifeCycle, PidsDistinct, IsAlive, IsUsed
<1>6. \A t \in Slots : ~IsAlive(t)' /\ (IsUsed(t)' <=> IsUsed(t))
  BY <1>1, <1>2, <1>3, <1>5 DEF IsAlive, IsUsed
<1>7. machine' = "halted"
  BY DEF InitExits
<1>8. NobodyStranded' /\ VforkChain'
  BY <1>6, <1>7 DEF NobodyStranded, VforkChain, IsAlive
<1>9. PidsDistinct'
  BY <1>4, <1>6 DEF IInv, LifeCycle, PidsDistinct
<1>10. SpacesOwned'
  BY <1>4, <1>6 DEF IInv, LifeCycle, SpacesOwned
<1> QED
  BY <1>6, <1>7, <1>8, <1>9, <1>10 DEF LifeCycle, HaltsAlone, OneRunning

(* wait4 takes a zombie out of the table together with its address space. *)
LEMMA ReapStep ==
    ASSUME IInv, InUser, NEW s \in Slots, processes[s].state = "ZOMBIE", Reap(s)
    PROVE  LifeCycle'
<1>1. \A t \in Slots : processes'[t] = IF t = s THEN ZeroProcess ELSE processes[t]
  BY DEF IInv, TypeOK, Reap
<1>2. \A t \in Slots : t # s => processes'[t] = processes[t]
  BY <1>1
<1>3. processes'[s].state = "UNUSED"
  BY <1>1 DEF ZeroProcess
<1>4. \A t \in Slots : /\ IsUsed(t)' <=> IsUsed(t) /\ t # s
                       /\ IsAlive(t)' <=> IsAlive(t)
                       /\ IsAlive(t) => t # s
  BY <1>2, <1>3 DEF IsUsed, IsAlive
<1>5. UNCHANGED <<current, next_pid, cr3, machine>> /\ live' = live \ {processes[s].cr3}
  BY DEF Reap, destroy_user_space
<1>6. current \in Slots /\ current # s /\ IsUsed(current) /\ IsUsed(s)
  BY CurrentProcess DEF process, IsUsed
<1>7. OneRunning'
  <2>1. processes[current].cr3 # processes[s].cr3
    BY <1>6 DEF IInv, LifeCycle, SpacesOwned
  <2> QED
    BY <1>2, <1>3, <1>5, <1>6, <2>1 DEF IInv, LifeCycle, OneRunning, process, InUser
<1>8. NobodyStranded'
  <2> SUFFICES ASSUME NEW t \in Slots, processes'[t].state = "BLOCKED"
               PROVE  \E d \in Slots : /\ IsAlive(d)' /\ processes'[d].vfork_parent = t
                                       /\ \A e \in Slots : IsAlive(e)' /\ processes'[e].vfork_parent = t => e = d
    BY DEF NobodyStranded
  <2>1. PICK d \in Slots : /\ IsAlive(d) /\ processes[d].vfork_parent = t
                           /\ \A e \in Slots : IsAlive(e) /\ processes[e].vfork_parent = t => e = d
    BY <1>2, <1>3 DEF IInv, LifeCycle, NobodyStranded
  <2> QED
    BY <2>1, <1>2, <1>4
<1>9. VforkChain'
  <2>1. \A t \in Slots : processes[t].vfork_parent \in Slots \cup {NULL}
    BY DEF IInv, TypeOK, ProcessType
  <2>2. \A c \in Slots : IsAlive(c) /\ processes[c].vfork_parent # NULL => processes[c].vfork_parent # s
    BY DEF IInv, LifeCycle, VforkChain
  <2> QED
    BY <1>2, <1>4, <1>5, <1>6, <2>1, <2>2 DEF IInv, LifeCycle, VforkChain, process
<1>10. PidsDistinct'
  BY <1>2, <1>4, <1>5 DEF IInv, LifeCycle, PidsDistinct
<1>11. SpacesOwned'
  BY <1>2, <1>4, <1>5, <1>6 DEF IInv, LifeCycle, SpacesOwned
<1> QED
  BY <1>5, <1>6, <1>7, <1>8, <1>9, <1>10, <1>11 DEF IInv, LifeCycle, HaltsAlone, InUser

(* Steps that leave the table and the address spaces alone are quiet. *)
LEMMA UnchangedIsQuiet ==
    ASSUME UNCHANGED <<processes, current, cr3, live>>, next_pid' \in {next_pid, next_pid + 1},
           machine' \in {machine, "shell", "faulted"}
    PROVE  Quiet
BY DEF Quiet, SameLinks

(* So are calls that only return, and faults. *)
LEMMA ReturnIsQuiet ==
    ASSUME NEW v, ReturnOnly(v) \/ Fault
    PROVE  Quiet
BY UnchangedIsQuiet DEF ReturnOnly, Fault, table, memory

(* So are updates of a descriptor. *)
LEMMA SetFdIsQuiet ==
    ASSUME NEW fd, NEW value, SetFd(fd, value)
    PROVE  Quiet
BY UnchangedIsQuiet DEF SetFd, memory

(* brk changes the break of the caller only, which the life cycle does not read. *)
LEMMA BrkIsQuiet ==
    ASSUME IInv, NEW requested_break \in BrkArgs, syscall_brk(requested_break)
    PROVE  Quiet
<1>1. current \in Slots /\ process \in ProcessType
  BY CurrentProcess DEF syscall_brk
<1>2. CASE ReturnOnly(process.brk)
  BY <1>2, ReturnIsQuiet
<1>3. CASE GrowHeap(requested_break) /\ UNCHANGED <<fds, current, next_pid, cr3, live, machine, at, wstatus>>
  <2>1. PICK b : processes' = [processes EXCEPT ![current] = [@ EXCEPT !.brk = b]]
    BY <1>3 DEF GrowHeap
  <2>2. \A t \in Slots : processes'[t] = IF t = current THEN [process EXCEPT !.brk = b] ELSE processes[t]
    BY <1>1, <2>1 DEF IInv, TypeOK, process
  <2>3. \A t \in Slots : SameLinks(t)
    BY <1>1, <2>2 DEF SameLinks, ProcessType, process
  <2> QED
    BY <1>3, <2>3 DEF Quiet
<1> QED
  BY <1>2, <1>3 DEF syscall_brk

(* The file calls and the calls that only answer are quiet. *)
LEMMA FileCallIsQuiet ==
    ASSUME IInv, FileCall \/ AnswerCall, HasCurrent
    PROVE  Quiet
<1>1. ASSUME NEW path \in UserStrings, syscall_open(path) PROVE Quiet
  BY <1>1, ReturnIsQuiet, SetFdIsQuiet DEF syscall_open
<1>2. ASSUME NEW fd \in FdArgs, syscall_close(fd) PROVE Quiet
  BY <1>2, ReturnIsQuiet, SetFdIsQuiet DEF syscall_close
<1>3. ASSUME NEW fd \in FdArgs, NEW offset \in SeekArgs, NEW whence \in 0 .. 3,
             syscall_lseek(fd, offset, whence)
      PROVE  Quiet
  BY <1>3, ReturnIsQuiet, SetFdIsQuiet DEF syscall_lseek
<1>4. ASSUME NEW fd \in FdArgs, NEW buffer \in Pointers, NEW count \in Counts,
             syscall_read(fd, buffer, count) \/ syscall_getdents64(fd, buffer, count)
      PROVE  Quiet
  BY <1>4, ReturnIsQuiet, SetFdIsQuiet DEF syscall_read, syscall_getdents64
<1>5. ASSUME \/ AnswerCall
             \/ \E fd \in FdArgs, buffer \in Pointers, count \in Counts : syscall_write(fd, buffer, count)
      PROVE  Quiet
  BY <1>5, AnswerType, ReturnIsQuiet DEF IInv
<1> QED
  BY <1>1, <1>2, <1>3, <1>4, <1>5 DEF FileCall

(* Every step keeps the inductive invariant. *)
LEMMA InductiveStep ==
    ASSUME IInv, [Next]_vars
    PROVE  IInv'
<1>1. HasCurrent
  BY CurrentProcess DEF HasCurrent, InUser
<1>2. TypeOK'
  BY <1>1, NextType DEF IInv
<1>3. CASE Quiet
  BY <1>2, <1>3, QuietStep DEF IInv
<1>4. CASE UNCHANGED vars \/ Stopped \/ UserStep
  BY <1>4, <1>3, UnchangedIsQuiet DEF vars, Stopped, UserStep, table, memory
<1>5. CASE xbks_process_start_init
  <2>1. CASE Quiet
    BY <2>1, <1>3
  <2>2. ASSUME NEW s \in Slots, TakePid, NEW c \in Cr3 \ live, StartInitProcess(s, c)
        PROVE  IInv'
    BY <1>2, <1>5, <2>2, StartStep DEF IInv, xbks_process_start_init
  <2> QED
    BY <1>5, <2>1, <2>2, UnchangedIsQuiet, AbandonedSpace DEF xbks_process_start_init, TakePid, table, memory
<1>6. CASE syscall_vfork
  <2>1. ASSUME NEW s \in Slots, allocate_process(s), TakePid, NEW c \in Cr3 \ live, RunChild(s, c)
        PROVE  IInv'
    BY <1>2, <1>6, <2>1, VforkStep DEF IInv, syscall_vfork
  <2> QED
    BY <1>3, <1>6, <2>1, UnchangedIsQuiet, AbandonedSpace DEF syscall_vfork, TakePid, table, memory
<1>7. ASSUME NEW path \in UserStrings, syscall_execve(path) PROVE IInv'
  BY <1>2, <1>3, <1>7, ReplaceStep, ReturnIsQuiet, FailedLoad DEF IInv, syscall_execve
<1>8. ASSUME NEW pid \in PidArgs, NEW pointer \in Pointers, syscall_wait4(pid, pointer) PROVE IInv'
  <2>1. ASSUME NEW s \in Slots, FirstWaitable(s, pid), Reap(s) PROVE IInv'
    BY <1>2, <1>8, <2>1, ReapStep DEF IInv, FirstWaitable, Waitable, syscall_wait4
  <2> QED
    BY <1>3, <1>8, <2>1, ReturnIsQuiet DEF syscall_wait4
<1>9. ASSUME NEW status \in Statuses, syscall_exit(status) PROVE IInv'
  BY <1>2, <1>9, ResumeStep, InitExitStep DEF IInv, syscall_exit
<1>10. CASE FileCall \/ AnswerCall
  BY <1>1, <1>3, <1>10, FileCallIsQuiet
<1>11. ASSUME NEW requested_break \in BrkArgs, syscall_brk(requested_break) PROVE IInv'
  BY <1>3, <1>11, BrkIsQuiet
<1> QED
  BY <1>4, <1>5, <1>6, <1>7, <1>8, <1>9, <1>10, <1>11
     DEF Next, xbks_process_syscall_dispatch, ProcessCall

(* The zeroed table the kernel boots with satisfies the invariant. *)
LEMMA InductiveInit ==
    ASSUME Init
    PROVE  IInv
<1>1. TypeOK
  BY ZeroTypes DEF Init, TypeOK
<1>2. \A s \in Slots : processes[s].state = "UNUSED"
  BY DEF Init, ZeroProcess
<1>3. \A s \in Slots : ~IsUsed(s) /\ ~IsAlive(s)
  BY <1>2 DEF IsUsed, IsAlive
<1>4. machine = "boot" /\ live = {}
  BY DEF Init
<1>5. NobodyStranded
  BY <1>2 DEF NobodyStranded
<1> QED
  BY <1>1, <1>3, <1>4, <1>5 DEF IInv, LifeCycle, OneRunning, VforkChain, HaltsAlone, PidsDistinct, SpacesOwned

(* The inductive invariant holds in every reachable state of process.c. *)
THEOREM Invariance == Spec => []IInv
BY InductiveInit, InductiveStep, PTL DEF Spec

(* Every variable keeps its declared type through every call. *)
THEOREM TypeCorrect == Spec => []TypeOK
BY Invariance, PTL DEF IInv

(* User code always runs in the one RUNNING process, the current one, with *)
(* that process's own live page tables in CR3.                             *)
THEOREM RunningCorrect == Spec => []OneRunning
BY Invariance, PTL DEF IInv, LifeCycle

(* A process blocked in vfork always has exactly one process whose exit    *)
(* resumes it.                                                             *)
THEOREM NobodyStrandedCorrect == Spec => []NobodyStranded
BY Invariance, PTL DEF IInv, LifeCycle

(* The living processes always form one chain of vforks ordered by pid. *)
THEOREM ChainCorrect == Spec => []VforkChain
BY Invariance, PTL DEF IInv, LifeCycle

(* When init's exit halts the machine no process is left running or blocked. *)
THEOREM HaltsAloneCorrect == Spec => []HaltsAlone
BY Invariance, PTL DEF IInv, LifeCycle

(* Pids are never shared by two processes in the table. *)
THEOREM PidsCorrect == Spec => []PidsDistinct
BY Invariance, PTL DEF IInv, LifeCycle

(* Address spaces and processes in the table correspond one to one: vfork,  *)
(* execve, exit and wait4 leak none, share none and free none that is used. *)
THEOREM SpacesCorrect == Spec => []SpacesOwned
BY Invariance, PTL DEF IInv, LifeCycle

=============================================================================
