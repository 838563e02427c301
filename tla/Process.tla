------------------------------ MODULE Process ------------------------------
(***************************************************************************)
(* The process layer of the kernel (kernel/process.c): the process table,  *)
(* the life cycle calls vfork, execve, wait4 and exit, the heap call brk,  *)
(* the per-process descriptor tables and the file calls on the ramdisk.    *)
(*                                                                         *)
(* The kernel runs on one CPU with interrupts masked and never switches    *)
(* process in the middle of a call, so a system call is one action.  What  *)
(* the callee modules do is abstracted to its outcome: mm/mm.c either      *)
(* builds an address space or fails for want of frames (at any allocation, *)
(* hence nondeterministically), and the ramdisk is a constant function.    *)
(***************************************************************************)
EXTENDS Integers, FiniteSets

CONSTANTS
    MAX_PROCESSES,  \* slots of the process table
    MAX_FDS,        \* slots of a descriptor table, the standard three included
    Cr3, NoCr3,     \* the pml4 frames a process can be given; the value 0
    PAGE_SIZE,      \* bytes of a page
    Page,           \* page numbers of the user half
    StackPages,     \* pages build_user_stack maps
    HEAP_BASE,      \* first program break of an image (0x800000)
    HEAP_LIMIT,     \* no break at or above it (0x10000000)
    WORD,           \* 2^64: arithmetic on offsets wraps here
    Ramdisk,        \* path -> [directory, executable, elf, size, children, pages, entry]
    Paths,          \* the path strings user code passes, existing or not
    Points,         \* user contexts (rip, rsp, registers) worth telling apart
    FdArgs, Counts, SeekArgs, BrkArgs, Statuses,  \* other arguments user code passes
    MaxPid          \* bound of the model: the largest pid handed out

ASSUME SizesAssumption ==
    /\ MAX_PROCESSES \in Nat \ {0}
    /\ MAX_FDS \in Nat /\ MAX_FDS >= 3
    /\ PAGE_SIZE \in Nat \ {0}
    /\ HEAP_BASE \in Nat /\ HEAP_LIMIT \in Nat
    /\ WORD \in Nat \ {0}
    /\ MaxPid \in Nat

ASSUME MemoryAssumption ==
    /\ NoCr3 \notin Cr3
    /\ Page \subseteq Nat
    /\ StackPages \subseteq Page

ASSUME RamdiskAssumption ==
    \A path \in DOMAIN Ramdisk :
        /\ Ramdisk[path].pages \subseteq Page
        /\ Ramdisk[path].entry \in Points
        /\ Ramdisk[path].size \in 0 .. WORD - 1
        /\ Ramdisk[path].children \in 0 .. WORD - 1

ASSUME ArgumentsAssumption ==
    /\ Points \subseteq Nat \ {0}
    /\ FdArgs \subseteq Nat
    /\ Counts \subseteq Nat
    /\ SeekArgs \subseteq Nat
    /\ BrkArgs \subseteq Nat
    /\ Statuses \subseteq Nat

VARIABLES
    processes,  \* slot -> struct process (its descriptors are in fds)
    fds,        \* slot -> descriptor -> struct process_fd
    current,    \* current_process, a slot or NULL
    next_pid,
    cr3,        \* the CR3 register
    live,       \* pml4 frames of address spaces that exist
    mapped,     \* pml4 frame -> user pages present under it
    machine,    \* what the CPU is doing
    at,         \* user context the CPU is in, or returns to from a call
    rax,        \* result of the last call
    wstatus     \* status word the last wait4 stored

table == <<processes, fds, current, next_pid>>
memory == <<cr3, live, mapped>>
vars == <<processes, fds, current, next_pid, cr3, live, mapped, machine, at, rax, wstatus>>

-----------------------------------------------------------------------------
(* Error numbers (include/xbks/uapi/errno.h), and the sign a word is read with. *)

EBADF  == 9
ECHILD == 10
EAGAIN == 11
ENOMEM == 12
EFAULT == 14
EISDIR == 21
EINVAL == 22
EMFILE == 24
ENOENT == 2
ENOEXEC == 8
ERANGE == 34
ENOSYS == 38

negative_errno(e) == -e
Signed(w) == IF 2 * w >= WORD THEN w - WORD ELSE w

-----------------------------------------------------------------------------
(* The process table.                                                      *)

Slots == 0 .. MAX_PROCESSES - 1
NULL == -1
Fds == 0 .. MAX_FDS - 1
NoPath == ""

(* A slot, and a descriptor, as memset leaves it. *)
ZeroProcess ==
    [pid |-> 0, ppid |-> 0, state |-> "UNUSED", cr3 |-> NoCr3, brk |-> 0, exit_status |-> 0,
     parent |-> NULL, vfork_parent |-> NULL, saved_parent_frame |-> 0]
ZeroFd == [type |-> "NONE", path |-> NoPath, offset |-> 0]
ZeroFds == [fd \in Fds |-> ZeroFd]

process == processes[current]
IsAlive(s) == processes[s].state \in {"RUNNING", "BLOCKED"}
IsUsed(s) == processes[s].state # "UNUSED"

(* allocate_process takes the first UNUSED slot. *)
allocate_process(s) ==
    /\ ~IsUsed(s)
    /\ \A t \in Slots : t < s => IsUsed(t)
TableFull == \A s \in Slots : IsUsed(s)

StandardFds ==
    [ZeroFds EXCEPT ![0] = [@ EXCEPT !.type = "STDIN"],
                    ![1] = [@ EXCEPT !.type = "STDOUT"],
                    ![2] = [@ EXCEPT !.type = "STDERR"]]

(* allocate_fd takes the first FD_NONE descriptor from 3 on. *)
allocate_fd(table_of, fd) ==
    /\ fd \in Fds
    /\ fd >= 3
    /\ table_of[fd].type = "NONE"
    /\ \A e \in Fds : e >= 3 /\ e < fd => table_of[e].type # "NONE"
NoFreeFd(table_of) == \A fd \in Fds : fd >= 3 => table_of[fd].type # "NONE"

Init ==
    /\ processes = [s \in Slots |-> ZeroProcess]
    /\ fds = [s \in Slots |-> ZeroFds]
    /\ current = NULL
    /\ next_pid = 1
    /\ cr3 = NoCr3
    /\ live = {}
    /\ mapped = [c \in Cr3 |-> {}]
    /\ machine = "boot"
    /\ at = 0
    /\ rax = 0
    /\ wstatus = 0

-----------------------------------------------------------------------------
(* What every call shares.                                                 *)

(* A user pointer is NULL, outside the range user_range_is_valid accepts,  *)
(* in the range but without a page behind it, or usable.                   *)
Pointers == {"null", "invalid", "unmapped", "mapped"}
user_range_is_valid(pointer, length) == length = 0 \/ pointer \in {"unmapped", "mapped"}

(* A user string is copied in (one of Paths), refused (a bad address, or no *)
(* terminator within MAX_STRING), or faults on a page that is not there.    *)
RefusedString == "refused string"
UnmappedString == "unmapped string"
UserStrings == Paths \cup {RefusedString, UnmappedString}
copy_user_string(string) == string # RefusedString

InUser == machine = "user"

(* The call returns v and changes nothing else. *)
ReturnOnly(v) == rax' = v /\ UNCHANGED <<table, memory, machine, at, wstatus>>

(* The kernel touches a user page that is not present.  No IDT is loaded, so *)
(* the page fault stops the machine.                                         *)
Fault == machine' = "faulted" /\ UNCHANGED <<table, memory, at, rax, wstatus>>

(* User code runs between two calls. *)
UserStep ==
    /\ InUser
    /\ \E point \in Points \ {at} : at' = point
    /\ UNCHANGED <<table, memory, machine, rax, wstatus>>

-----------------------------------------------------------------------------
(* Loading a program: the images load_program can succeed on, and the pages *)
(* and break the new address space then has.  It also fails when frames run *)
(* out, and then destroys what it built.  The steps of a load, and the      *)
(* images whose segments wrap around, are module Loader.                    *)

ImagePages(path) == Ramdisk[path].pages \cup StackPages

(* The header is valid, and no two segments need the same page. *)
load_elf_into_process(path) == Ramdisk[path].elf
(* The stack needs its pages free. *)
build_user_stack(path) == Ramdisk[path].pages \cap StackPages = {}

load_program(path) ==
    /\ path \in DOMAIN Ramdisk
    /\ Ramdisk[path].executable
    /\ ~Ramdisk[path].directory
    /\ load_elf_into_process(path)
    /\ build_user_stack(path)

InitPath == "/bin/xsh"

(* The spaces left when one is destroyed; its frames go back to mm/mm.c. *)
destroy_user_space_Leaks(spaces, c) == spaces
destroy_user_space(spaces, c) == spaces \ {c}

(* Mutant: what was built before the failure is forgotten. *)
abandon_space_Leaks ==
    /\ live' = live \/ \E c \in Cr3 \ live : live' = live \cup {c}
    /\ UNCHANGED <<cr3, mapped>>
(* A load or a clone gives up: there was no frame for a pml4, or the space  *)
(* that was made is destroyed.                                              *)
abandon_space ==
    /\ live' = live \/ \E c \in Cr3 \ live : live' = destroy_user_space(live \cup {c}, c)
    /\ UNCHANGED <<cr3, mapped>>

(* Every process, also one whose load or clone then fails, takes a pid. *)
TakePid == next_pid' = next_pid + 1

InitProcess(c) ==
    [pid |-> next_pid, ppid |-> 0, state |-> "RUNNING", cr3 |-> c, brk |-> HEAP_BASE,
     exit_status |-> 0, parent |-> NULL, vfork_parent |-> NULL, saved_parent_frame |-> 0]

StartInitProcess(s, c) ==
    /\ processes' = [processes EXCEPT ![s] = InitProcess(c)]
    /\ fds' = [fds EXCEPT ![s] = StandardFds]
    /\ current' = s
    /\ cr3' = c
    /\ live' = live \cup {c}
    /\ mapped' = [mapped EXCEPT ![c] = ImagePages(InitPath)]
    /\ machine' = "user"
    /\ at' = Ramdisk[InitPath].entry

(* Boot: without a ramdisk, or when /bin/xsh cannot be loaded, the kernel *)
(* shell runs instead; the pid init was given stays consumed.             *)
xbks_process_start_init ==
    /\ machine = "boot"
    /\ UNCHANGED <<rax, wstatus>>
    /\ \/ machine' = "shell" /\ UNCHANGED <<table, memory, at>>
       \/ \E s \in Slots :
            /\ allocate_process(s)
            /\ TakePid
            /\ \/ machine' = "shell" /\ abandon_space /\ UNCHANGED <<processes, fds, current, at>>
               \/ load_program(InitPath) /\ \E c \in Cr3 \ live : StartInitProcess(s, c)

(* The image is replaced in place: descriptors, parent links and the pid stay. *)
NewImage_ForgetsParent(p, c) == [p EXCEPT !.cr3 = c, !.brk = HEAP_BASE, !.vfork_parent = NULL]
NewImage(p, c) == [p EXCEPT !.cr3 = c, !.brk = HEAP_BASE]

ReplaceImage(path, c) ==
    /\ processes' = [processes EXCEPT ![current] = NewImage(process, c)]
    /\ cr3' = c
    /\ live' = destroy_user_space(live \cup {c}, process.cr3)
    /\ mapped' = [mapped EXCEPT ![c] = ImagePages(path), ![process.cr3] = {}]
    /\ at' = Ramdisk[path].entry
    /\ rax' = 0
    /\ UNCHANGED <<fds, current, next_pid, machine, wstatus>>

syscall_execve(path) ==
    /\ InUser
    /\ \/ ~copy_user_string(path) /\ ReturnOnly(negative_errno(EFAULT))
       \/ path = UnmappedString /\ Fault
       \/ /\ path \in Paths
          /\ rax' = negative_errno(ENOEXEC)
          /\ abandon_space /\ UNCHANGED <<table, machine, at, wstatus>>
       \/ load_program(path) /\ \E c \in Cr3 \ live : ReplaceImage(path, c)

-----------------------------------------------------------------------------
(* vfork, exit and wait4.                                                  *)

ForkedProcess(c) ==
    [pid |-> next_pid, ppid |-> process.pid, state |-> "RUNNING", cr3 |-> c, brk |-> process.brk,
     exit_status |-> 0, parent |-> current, vfork_parent |-> current, saved_parent_frame |-> at]

Suspended_NotBlocked(p) == p
Suspended(p) == [p EXCEPT !.state = "BLOCKED"]

(* The child runs at once in a copy of the address space; the parent blocks. *)
RunChild(s, c) ==
    /\ processes' = [processes EXCEPT ![s] = ForkedProcess(c),
                                      ![current] = Suspended(process)]
    /\ fds' = [fds EXCEPT ![s] = fds[current]]
    /\ current' = s
    /\ cr3' = c
    /\ live' = live \cup {c}
    /\ mapped' = [mapped EXCEPT ![c] = mapped[process.cr3]]
    /\ rax' = 0

syscall_vfork ==
    /\ InUser
    /\ UNCHANGED <<machine, at, wstatus>>
    /\ \/ TableFull /\ rax' = negative_errno(EAGAIN) /\ UNCHANGED <<table, memory>>
       \/ \E s \in Slots :
            /\ allocate_process(s)
            /\ next_pid <= MaxPid
            /\ TakePid
            /\ \/ rax' = negative_errno(ENOMEM) /\ abandon_space /\ UNCHANGED <<processes, fds, current>>
               \/ \E c \in Cr3 \ live : RunChild(s, c)

Exited(p, status) == [p EXCEPT !.state = "ZOMBIE", !.exit_status = status % 256]

(* The exiting process becomes a zombie and its vfork parent resumes in the *)
(* context its call saved; init has no parent and the machine halts.        *)
ResumeParent(status) ==
    LET parent == process.vfork_parent IN
    /\ parent # NULL
    /\ processes' = [processes EXCEPT ![current] = Exited(process, status),
                                      ![parent] = [@ EXCEPT !.state = "RUNNING"]]
    /\ current' = parent
    /\ cr3' = processes[parent].cr3
    /\ at' = process.saved_parent_frame
    /\ rax' = process.pid
    /\ UNCHANGED machine

InitExits(status) ==
    /\ process.vfork_parent = NULL
    /\ processes' = [processes EXCEPT ![current] = Exited(process, status)]
    /\ machine' = "halted"
    /\ UNCHANGED <<current, cr3, at, rax>>

syscall_exit(status) ==
    /\ InUser
    /\ ResumeParent(status) \/ InitExits(status)
    /\ UNCHANGED <<fds, next_pid, live, mapped, wstatus>>

(* wait4 takes the first zombie slot whose parent pointer is the caller. *)
Waitable_AnyParent(s, pid) == processes[s].state = "ZOMBIE" /\ pid \in {-1, processes[s].pid}
Waitable(s, pid) ==
    /\ processes[s].state = "ZOMBIE"
    /\ processes[s].parent = current
    /\ pid \in {-1, processes[s].pid}
FirstWaitable(s, pid) == Waitable(s, pid) /\ \A t \in Slots : t < s => ~Waitable(t, pid)

Reap(s) ==
    /\ processes' = [processes EXCEPT ![s] = ZeroProcess]
    /\ fds' = [fds EXCEPT ![s] = ZeroFds]
    /\ live' = destroy_user_space(live, processes[s].cr3)
    /\ mapped' = [mapped EXCEPT ![processes[s].cr3] = {}]
    /\ rax' = processes[s].pid
    /\ UNCHANGED <<current, next_pid, cr3, machine, at>>

syscall_wait4(pid, status_pointer) ==
    /\ InUser
    /\ \/ (\A s \in Slots : ~Waitable(s, pid)) /\ ReturnOnly(negative_errno(ECHILD))
       \/ \E s \in Slots :
            /\ FirstWaitable(s, pid)
            /\ \/ status_pointer = "invalid" /\ ReturnOnly(negative_errno(EFAULT))
               \/ status_pointer = "unmapped" /\ Fault
               \/ status_pointer = "null" /\ Reap(s) /\ UNCHANGED wstatus
               \/ status_pointer = "mapped" /\ Reap(s) /\ wstatus' = processes[s].exit_status * 256

-----------------------------------------------------------------------------
(* brk maps the pages up to the requested break one after the other.  When *)
(* one cannot be mapped (it is present already, or frames ran out) the     *)
(* pages mapped so far stay and the break does not move.                   *)

align_up(value) == ((value + PAGE_SIZE - 1) \div PAGE_SIZE) * PAGE_SIZE
PagesBetween(start, end) == {page \in Page : start <= page * PAGE_SIZE /\ page * PAGE_SIZE < end}

(* map_user_page refuses a page that is present. *)
Mappable_Remaps(pages) == TRUE
Mappable(pages) == pages \cap mapped[process.cr3] = {}

(* The break once the pages below stop are mapped. *)
BreakAfter_Optimistic(requested_break, stop) == requested_break
BreakAfter(requested_break, stop) ==
    IF stop = align_up(requested_break) THEN requested_break ELSE process.brk

MapInto_SharedTables(pages) ==
    mapped' = [c \in Cr3 |-> IF c \in live THEN mapped[c] \cup pages ELSE mapped[c]]
MapInto(pages) == mapped' = [mapped EXCEPT ![process.cr3] = @ \cup pages]

GrowHeap(requested_break) ==
    LET old_end == align_up(process.brk)
        new_end == align_up(requested_break)
    IN  \E stop \in {end \in old_end .. new_end : end % PAGE_SIZE = 0} :
            /\ Mappable(PagesBetween(old_end, stop))
            /\ MapInto(PagesBetween(old_end, stop))
            /\ processes' = [processes EXCEPT ![current] =
                                 [@ EXCEPT !.brk = BreakAfter(requested_break, stop)]]
            /\ rax' = BreakAfter(requested_break, stop)

syscall_brk(requested_break) ==
    /\ InUser
    /\ \/ /\ requested_break = 0 \/ requested_break < process.brk \/ requested_break >= HEAP_LIMIT
          /\ ReturnOnly(process.brk)
       \/ /\ requested_break # 0 /\ requested_break >= process.brk /\ requested_break < HEAP_LIMIT
          /\ GrowHeap(requested_break)
          /\ UNCHANGED <<fds, current, next_pid, cr3, live, machine, at, wstatus>>

-----------------------------------------------------------------------------
(* The file calls, on the descriptor table of the caller.                  *)

SetFd_SharedTable(fd, value) ==
    /\ fds' = [s \in Slots |-> IF IsUsed(s) THEN [fds[s] EXCEPT ![fd] = value] ELSE fds[s]]
    /\ UNCHANGED <<processes, current, next_pid, memory, machine, at, wstatus>>
SetFd(fd, value) ==
    /\ fds' = [fds EXCEPT ![current] = [@ EXCEPT ![fd] = value]]
    /\ UNCHANGED <<processes, current, next_pid, memory, machine, at, wstatus>>

syscall_open(path) ==
    /\ InUser
    /\ \/ NoFreeFd(fds[current]) /\ ReturnOnly(negative_errno(EMFILE))
       \/ \E fd \in Fds :
            /\ allocate_fd(fds[current], fd)
            /\ \/ ~copy_user_string(path) /\ ReturnOnly(negative_errno(EFAULT))
               \/ path = UnmappedString /\ Fault
               \/ path \in Paths \ DOMAIN Ramdisk /\ ReturnOnly(negative_errno(ENOENT))
               \/ /\ path \in DOMAIN Ramdisk
                  /\ SetFd(fd, [type |-> IF Ramdisk[path].directory THEN "DIR" ELSE "FILE",
                                path |-> path, offset |-> 0])
                  /\ rax' = fd

HasType(fd, types) == fd \in Fds /\ fds[current][fd].type \in types
OpenTypes == {"STDIN", "STDOUT", "STDERR", "FILE", "DIR"}

syscall_close(fd) ==
    /\ InUser
    /\ \/ (fd <= 2 \/ ~HasType(fd, OpenTypes)) /\ ReturnOnly(negative_errno(EBADF))
       \/ fd > 2 /\ HasType(fd, OpenTypes) /\ SetFd(fd, ZeroFd) /\ rax' = 0

(* Mutant: what is left is counted without asking whether the end is passed. *)
Served_PastEnd(rest, count) == IF count < rest % WORD THEN count ELSE rest % WORD
(* How much of count can be served when rest is left: nothing past the end. *)
Served(rest, count) == IF rest <= 0 THEN 0 ELSE IF count < rest THEN count ELSE rest

Available(fd, count) ==
    LET file == fds[current][fd]
    IN  Served(Ramdisk[file.path].size - file.offset, count)

(* A read of the keyboard returns once count characters have been typed. *)
syscall_read(fd, buffer, count) ==
    /\ InUser
    /\ \/ ~user_range_is_valid(buffer, count) /\ ReturnOnly(negative_errno(EFAULT))
       \/ /\ user_range_is_valid(buffer, count)
          /\ \/ ~HasType(fd, OpenTypes) /\ ReturnOnly(negative_errno(EBADF))
             \/ HasType(fd, {"STDOUT", "STDERR", "DIR"}) /\ ReturnOnly(negative_errno(EISDIR))
             \/ HasType(fd, {"STDIN"}) /\ count > 0 /\ buffer # "mapped" /\ Fault
             \/ HasType(fd, {"STDIN"}) /\ (count = 0 \/ buffer = "mapped") /\ ReturnOnly(count)
             \/ HasType(fd, {"FILE"}) /\ Available(fd, count) > 0 /\ buffer # "mapped" /\ Fault
             \/ /\ HasType(fd, {"FILE"}) /\ (Available(fd, count) = 0 \/ buffer = "mapped")
                /\ SetFd(fd, [fds[current][fd] EXCEPT !.offset = @ + Available(fd, count)])
                /\ rax' = Available(fd, count)

(* write goes to the console by descriptor number; the table is not consulted. *)
syscall_write(fd, buffer, count) ==
    /\ InUser
    /\ \/ fd \notin {1, 2} /\ ReturnOnly(negative_errno(EBADF))
       \/ fd \in {1, 2} /\ ~user_range_is_valid(buffer, count) /\ ReturnOnly(negative_errno(EFAULT))
       \/ fd \in {1, 2} /\ count > 0 /\ buffer = "unmapped" /\ Fault
       \/ fd \in {1, 2} /\ (count = 0 \/ buffer = "mapped") /\ ReturnOnly(count)

(* The base a seek is relative to: start, current offset or end of the file. *)
SeekBase(fd, whence) ==
    LET file == fds[current][fd]
    IN  CASE whence = 0 -> 0
          [] whence = 1 -> file.offset
          [] whence = 2 -> Ramdisk[file.path].size

Seekable_Directories == {"FILE", "DIR"}
Seekable == {"FILE"}
Wrap(offset) == offset % WORD

syscall_lseek(fd, offset, whence) ==
    /\ InUser
    /\ \/ ~HasType(fd, Seekable) /\ ReturnOnly(negative_errno(EBADF))
       \/ HasType(fd, Seekable) /\ whence \notin 0 .. 2 /\ ReturnOnly(negative_errno(EINVAL))
       \/ /\ HasType(fd, Seekable) /\ whence \in 0 .. 2
          /\ LET next_offset == Wrap(SeekBase(fd, whence) + offset)
             IN  /\ SetFd(fd, [fds[current][fd] EXCEPT !.offset = next_offset])
                 /\ rax' = Signed(next_offset)

(* The directory entries a buffer with room for count of them receives.  Sizes *)
(* are counted in entries; the offset of a directory is the next child.        *)
Entries(fd, count) ==
    LET directory == fds[current][fd]
    IN  Served(Ramdisk[directory.path].children - directory.offset, count)

syscall_getdents64(fd, buffer, count) ==
    /\ InUser
    /\ \/ ~HasType(fd, {"DIR"}) /\ ReturnOnly(negative_errno(EBADF))
       \/ /\ HasType(fd, {"DIR"})
          /\ ~user_range_is_valid(buffer, count)
          /\ ReturnOnly(negative_errno(EFAULT))
       \/ HasType(fd, {"DIR"}) /\ buffer = "unmapped" /\ Entries(fd, count) > 0 /\ Fault
       \/ /\ HasType(fd, {"DIR"}) /\ user_range_is_valid(buffer, count)
          /\ buffer = "mapped" \/ Entries(fd, count) = 0
          /\ SetFd(fd, [fds[current][fd] EXCEPT !.offset = @ + Entries(fd, count)])
          /\ rax' = Entries(fd, count)

-----------------------------------------------------------------------------
(* The calls that only answer.                                             *)

syscall_access(path) ==
    /\ InUser
    /\ \/ ~copy_user_string(path) /\ ReturnOnly(negative_errno(EFAULT))
       \/ path = UnmappedString /\ Fault
       \/ path \in Paths /\ ReturnOnly(IF path \in DOMAIN Ramdisk THEN 0 ELSE negative_errno(ENOENT))

(* getcwd wants room for "/" and its terminator; both calls store to the buffer. *)
syscall_getcwd(buffer, size) ==
    /\ InUser
    /\ \/ size < 2 /\ ReturnOnly(negative_errno(ERANGE))
       \/ size >= 2 /\ ~user_range_is_valid(buffer, 2) /\ ReturnOnly(negative_errno(EFAULT))
       \/ size >= 2 /\ buffer = "unmapped" /\ Fault
       \/ size >= 2 /\ buffer = "mapped" /\ ReturnOnly(HEAP_BASE)

syscall_uname(buffer) ==
    /\ InUser
    /\ \/ ~user_range_is_valid(buffer, 1) /\ ReturnOnly(negative_errno(EFAULT))
       \/ buffer = "unmapped" /\ Fault
       \/ buffer = "mapped" /\ ReturnOnly(0)

(* getpid, gettid, getppid, the uid and gid calls, sched_yield, and the rest. *)
syscall_identity ==
    /\ InUser
    /\ \E v \in {process.pid, process.ppid, 0, negative_errno(ENOSYS)} : ReturnOnly(v)

-----------------------------------------------------------------------------

PidArgs == {-1} \cup 1 .. MaxPid

ProcessCall ==
    \/ syscall_vfork
    \/ \E path \in UserStrings : syscall_execve(path)
    \/ \E pid \in PidArgs, pointer \in Pointers : syscall_wait4(pid, pointer)
    \/ \E status \in Statuses : syscall_exit(status)
    \/ \E requested_break \in BrkArgs : syscall_brk(requested_break)

FileCall ==
    \/ \E path \in UserStrings : syscall_open(path)
    \/ \E fd \in FdArgs : syscall_close(fd)
    \/ \E fd \in FdArgs, offset \in SeekArgs, whence \in 0 .. 3 : syscall_lseek(fd, offset, whence)
    \/ \E fd \in FdArgs, buffer \in Pointers, count \in Counts :
            \/ syscall_read(fd, buffer, count)
            \/ syscall_write(fd, buffer, count)
            \/ syscall_getdents64(fd, buffer, count)

AnswerCall ==
    \/ \E path \in UserStrings : syscall_access(path)
    \/ \E buffer \in Pointers, size \in Counts : syscall_getcwd(buffer, size)
    \/ \E buffer \in Pointers : syscall_uname(buffer)
    \/ syscall_identity

xbks_process_syscall_dispatch == ProcessCall \/ FileCall \/ AnswerCall

(* The kernel shell, the halt loop after init's exit and a faulted CPU go on *)
(* for ever without touching the state of this module.                       *)
Stopped == machine \in {"shell", "halted", "faulted"} /\ UNCHANGED vars

Next ==
    \/ xbks_process_start_init
    \/ UserStep
    \/ xbks_process_syscall_dispatch
    \/ Stopped

Spec == Init /\ [][Next]_vars

-----------------------------------------------------------------------------
(* Properties.                                                             *)

ProcessType ==
    [pid : Nat, ppid : Nat, state : {"UNUSED", "RUNNING", "BLOCKED", "ZOMBIE"},
     cr3 : Cr3 \cup {NoCr3}, brk : Nat, exit_status : 0 .. 255,
     parent : Slots \cup {NULL}, vfork_parent : Slots \cup {NULL},
     saved_parent_frame : Points \cup {0}]
FdType ==
    [type : {"NONE", "STDIN", "STDOUT", "STDERR"}, path : {NoPath}, offset : {0}]
    \cup [type : {"FILE", "DIR"}, path : DOMAIN Ramdisk, offset : 0 .. WORD - 1]

(* The variables have the types process.c declares. *)
TypeOK ==
    /\ processes \in [Slots -> ProcessType]
    /\ fds \in [Slots -> [Fds -> FdType]]
    /\ current \in Slots \cup {NULL}
    /\ next_pid \in Nat \ {0}
    /\ cr3 \in Cr3 \cup {NoCr3}
    /\ live \subseteq Cr3
    /\ mapped \in [Cr3 -> SUBSET Page]
    /\ machine \in {"boot", "user", "shell", "halted", "faulted"}
    /\ at \in Points \cup {0}
    /\ rax \in Int
    /\ wstatus \in Nat

(* While user code runs exactly one process is RUNNING, it is the current    *)
(* one, and the CPU is in its address space: neither vfork, which leaves two *)
(* processes RUNNING until it blocks the parent, nor exit, nor an execve     *)
(* that swaps page tables, leaves another process or stale tables behind.    *)
OneRunning ==
    machine = "user" =>
        /\ \A s \in Slots : processes[s].state = "RUNNING" <=> s = current
        /\ cr3 = process.cr3
        /\ cr3 \in live

(* A result is either not negative or a negated error number, as the comment *)
(* on the call convention in include/xbks/uapi/syscall.h says of rax.        *)
AbiResult == rax >= 0 \/ -rax \in 1 .. 40 \cup {95}

(* Every BLOCKED process waits for exactly one process that can still exit: *)
(* the kernel has no scheduler, so a BLOCKED process that no running or     *)
(* blocked process has as vfork_parent would never run again, and one that  *)
(* two have would be resumed twice.                                         *)
NobodyStranded ==
    \A s \in Slots : processes[s].state = "BLOCKED" =>
        \E c \in Slots :
            /\ IsAlive(c) /\ processes[c].vfork_parent = s
            /\ \A d \in Slots : IsAlive(d) /\ processes[d].vfork_parent = s => d = c

(* The living processes form one chain of vforks, ordered by pid, from init *)
(* to the current process: a vfork_parent is BLOCKED and the next older     *)
(* living process, only the oldest one has none, and the youngest one runs. *)
VforkChain ==
    /\ \A c \in Slots : IsAlive(c) =>
        LET s == processes[c].vfork_parent
            Older(t) == processes[t].pid <= processes[s].pid
            Younger(t) == processes[t].pid >= processes[c].pid
        IN  /\ s # NULL => /\ processes[s].state = "BLOCKED"
                           /\ processes[s].pid < processes[c].pid
                           /\ \A t \in Slots : IsAlive(t) => Older(t) \/ Younger(t)
            /\ s = NULL => \A t \in Slots : IsAlive(t) => Younger(t)
    /\ machine = "user" => \A t \in Slots : IsAlive(t) => processes[t].pid <= process.pid

(* init is the last process to stop: when its exit halts the machine no    *)
(* process is left RUNNING or BLOCKED.                                     *)
HaltsAlone == machine = "halted" => \A s \in Slots : ~IsAlive(s)

(* Pids identify the processes in the table, zombies included, also after  *)
(* failed vforks consumed a pid and after slots were reused.               *)
PidsDistinct ==
    \A s, t \in Slots : IsUsed(s) /\ IsUsed(t) =>
        /\ processes[s].pid \in 1 .. next_pid - 1
        /\ processes[s].pid = processes[t].pid => s = t

(* Every address space that exists belongs to exactly one process in the    *)
(* table: a vfork or execve that fails leaks none, none is shared, and none *)
(* is destroyed while a process still has it.                               *)
SpacesOwned ==
    /\ \A s \in Slots : IsUsed(s) => processes[s].cr3 \in live
    /\ \A s, t \in Slots : IsUsed(s) /\ IsUsed(t) /\ processes[s].cr3 = processes[t].cr3 => s = t
    /\ \A c \in live : \E s \in Slots : IsUsed(s) /\ processes[s].cr3 = c

(* All memory below a process's break is mapped: a brk that failed half way, *)
(* a vfork or an execve never leaves a break above a missing page.           *)
HeapBacked ==
    \A s \in Slots : IsAlive(s) =>
        PagesBetween(HEAP_BASE, processes[s].brk) \subseteq mapped[processes[s].cr3]

(* Descriptors 0 to 2 of a living process are the console ones, and a        *)
(* directory's offset never passes its last child, so getdents64 resumes     *)
(* where it stopped and ends: no sequence of open, close, lseek and vfork    *)
(* gets a descriptor into another state.                                     *)
DescriptorsSound ==
    \A s \in Slots : IsAlive(s) =>
        /\ \A fd \in 0 .. 2 : fds[s][fd] = StandardFds[fd]
        /\ \A fd \in Fds : fds[s][fd].type = "DIR" =>
              /\ Ramdisk[fds[s][fd].path].directory
              /\ fds[s][fd].offset <= Ramdisk[fds[s][fd].path].children

(* What an open descriptor can be read to. *)
Extent(file) == IF file.type = "FILE" THEN Ramdisk[file.path].size ELSE Ramdisk[file.path].children

(* The offset of a descriptor that stays open moves only by a call of its   *)
(* own process that tells how: a seek in a file returns the new offset; a   *)
(* read or getdents64 moves on by what it returns and never past the end,   *)
(* wherever a seek that wrapped around or left the file has put it before.  *)
OffsetMove ==
    \A s \in Slots, fd \in Fds :
        LET old == fds[s][fd]
            new == fds'[s][fd]
        IN  IsUsed(s) /\ new.type = old.type /\ new.path = old.path /\ new.offset # old.offset =>
                /\ s = current
                /\ \/ old.type = "FILE" /\ rax' = Signed(new.offset)
                   \/ rax' = new.offset - old.offset /\ rax' > 0 /\ new.offset <= Extent(old)

(* syscall_read, syscall_lseek and syscall_getdents64 agree on the offset. *)
OffsetsTold == [][OffsetMove]_vars

(* While a process stays BLOCKED nothing its child does reaches it: not its *)
(* descriptors and offsets, its break, its image, nor the pages it has.     *)
Frozen ==
    \A s \in Slots :
        processes[s].state = "BLOCKED" /\ processes'[s].state = "BLOCKED" =>
            /\ processes'[s] = processes[s]
            /\ fds'[s] = fds[s]
            /\ mapped'[processes[s].cr3] = mapped[processes[s].cr3]

(* No step reaches into a process that is and stays suspended by vfork. *)
BlockedFrozen == [][Frozen]_vars

(* Once the page at the aligned break is present (an earlier brk failed half *)
(* way, or the image covers it) the heap of that image cannot grow past it.  *)
Stuck ==
    \A s \in Slots :
        /\ IsAlive(s) /\ processes'[s].pid = processes[s].pid
        /\ processes'[s].cr3 = processes[s].cr3
        /\ \E page \in mapped[processes[s].cr3] : page * PAGE_SIZE = align_up(processes[s].brk)
        => processes'[s].brk <= align_up(processes[s].brk)

(* No brk, and no other call, moves a break past a page that is present. *)
HeapStuck == [][Stuck]_vars

=============================================================================
