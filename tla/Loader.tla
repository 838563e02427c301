------------------------------- MODULE Loader -------------------------------
(***************************************************************************)
(* Loading a program into a new address space, as syscall_execve does it   *)
(* (kernel/process.c): the argument strings are copied out of the caller,  *)
(* each loadable segment is mapped and filled from the file, and the stack *)
(* is built, environment first, from its top down.                         *)
(*                                                                         *)
(* Addresses count bytes and wrap at SPACE, and so do offsets into a file. *)
(* Page tables and frames are module Mm; here a page is mapped or it is    *)
(* not, and a fresh one is zero.                                           *)
(***************************************************************************)
EXTENDS Integers, Sequences, FiniteSets

CONSTANTS
    SPACE,              \* 2^64
    XBKS_PAGE_SIZE,     \* 4096
    WORD,               \* 8
    USER_IMAGE_MIN, XBKS_USER_TOP,
    XBKS_USER_STACK_TOP, XBKS_USER_STACK_SIZE,
    MAX_ARGS, MAX_ENV, MAX_STRING,
    FRAMES,             \* frames left for user pages
    Requests            \* what execve may be called with

align_down(value, alignment) == value - (value % alignment)
align_up(value, alignment) == align_down((value + alignment - 1) % SPACE, alignment)

(* Stands for a string the caller may not read to its end, or for a slot of *)
(* the array it may not read.                                               *)
Outside == -1

ASSUME LayoutAssumption ==
    /\ SPACE \in Nat /\ XBKS_PAGE_SIZE \in Nat \ {0} /\ WORD \in Nat \ {0} /\ FRAMES \in Nat
    /\ USER_IMAGE_MIN \in Nat /\ XBKS_USER_TOP \in Nat
    /\ XBKS_USER_STACK_TOP \in Nat /\ XBKS_USER_STACK_SIZE \in Nat \ {0}
    /\ USER_IMAGE_MIN % XBKS_PAGE_SIZE = 0 /\ XBKS_USER_TOP % XBKS_PAGE_SIZE = 0
    /\ XBKS_USER_STACK_TOP % XBKS_PAGE_SIZE = 0 /\ XBKS_USER_STACK_SIZE % XBKS_PAGE_SIZE = 0
    /\ USER_IMAGE_MIN <= XBKS_USER_STACK_TOP - XBKS_USER_STACK_SIZE
    /\ XBKS_USER_STACK_TOP <= XBKS_USER_TOP /\ XBKS_USER_TOP + XBKS_PAGE_SIZE <= SPACE

(* The longest arguments fit the stack. *)
ASSUME ArgumentsAssumption ==
    /\ MAX_ARGS \in Nat /\ MAX_ENV \in Nat /\ MAX_STRING \in Nat
    /\ MAX_ARGS >= 2 /\ MAX_ENV >= 2
    /\ (MAX_ARGS + MAX_ENV - 4) * MAX_STRING <= XBKS_USER_STACK_TOP
    /\ XBKS_USER_STACK_TOP - XBKS_USER_STACK_SIZE
           <= align_down(XBKS_USER_STACK_TOP - (MAX_ARGS + MAX_ENV - 4) * MAX_STRING, 2 * WORD)
                  - (MAX_ARGS + MAX_ENV - 1) * WORD

ASSUME RequestsAssumption ==
    \A r \in Requests :
        /\ r.size \in Nat
        /\ r.argv \in Seq(Nat \cup {Outside}) /\ r.envp \in Seq(Nat \cup {Outside})
        /\ r.segments \in Seq([p_type : Nat, p_vaddr : Nat, p_memsz : Nat, p_offset : Nat, p_filesz : Nat])

VARIABLES
    request,
    at,         \* "argv", "envp", "program", "segments", "stack", "strings", "words", "started", "EFAULT", "ENOEXEC", "faulted"
    argc, envc,
    mem,        \* the new space: bytes of its mapped addresses
    segment,    \* segments loaded
    stack,
    addresses,  \* of the strings pushed, last one first: those of envp, then those of argv
    words       \* words pushed

vars == <<request, at, argc, envc, mem, segment, stack, addresses, words>>

Zero == <<"zero", 0, 0>>
Nothing == [a \in {} |-> Zero]

user_range_is_valid(address, length) ==
    \/ length = 0
    \/ /\ USER_IMAGE_MIN <= address /\ address < XBKS_USER_TOP
       /\ length - 1 < XBKS_USER_TOP - address

-----------------------------------------------------------------------------
(* Copying the strings.  A string is its length.                           *)

copy_user_string(string) == string # Outside /\ string < MAX_STRING

(* Mutant: the array may be filled past its end. *)
max_strings_Past(size) == size + 1
max_strings(size) == size - 1

(* One turn of the loop; the array ends where its null pointer is. *)
CopyNext(strings, count, max, Copied, Next_) ==
    \/ count < max /\ count = Len(strings) /\ Copied
    \/ /\ count < max /\ count < Len(strings)
       /\ IF copy_user_string(strings[count + 1]) THEN Next_ ELSE at' = "EFAULT" /\ UNCHANGED <<argc, envc>>
    \/ count >= max /\ at' = "EFAULT" /\ UNCHANGED <<argc, envc>>

copy_argv ==
    /\ at = "argv"
    /\ CopyNext(request.argv, argc, max_strings(MAX_ARGS),
                at' = "envp" /\ UNCHANGED <<argc, envc>>,
                argc' = argc + 1 /\ UNCHANGED <<at, envc>>)
    /\ UNCHANGED <<request, mem, segment, stack, addresses, words>>

copy_envp ==
    /\ at = "envp"
    /\ CopyNext(request.envp, envc, max_strings(MAX_ENV),
                at' = "program" /\ UNCHANGED <<argc, envc>>,
                envc' = envc + 1 /\ UNCHANGED <<at, argc>>)
    /\ UNCHANGED <<request, mem, segment, stack, addresses, words>>

-----------------------------------------------------------------------------
(* Pages and bytes of the new space.                                       *)

Pages(base, size) ==
    {p \in align_down(base, XBKS_PAGE_SIZE) .. align_up((base + size) % SPACE, XBKS_PAGE_SIZE) - 1 : p % XBKS_PAGE_SIZE = 0}

Bytes(pages) == UNION {p .. p + XBKS_PAGE_SIZE - 1 : p \in pages}

(* Mutant: a page that is mapped is mapped anew. *)
can_map_Over(pages) == Cardinality(DOMAIN mem \cup Bytes(pages)) <= FRAMES * XBKS_PAGE_SIZE
(* map_user_page refuses a page that is mapped, and fails without frames. *)
can_map(pages) ==
    /\ Bytes(pages) \cap DOMAIN mem = {}
    /\ Cardinality(DOMAIN mem) + XBKS_PAGE_SIZE * Cardinality(pages) <= FRAMES * XBKS_PAGE_SIZE

map_user_range(pages) ==
    [a \in DOMAIN mem \cup Bytes(pages) |-> IF a \in Bytes(pages) THEN Zero ELSE mem[a]]

(* Each page written has to be mapped. *)
Span(base, size) == {(base + k) % SPACE : k \in 0 .. size - 1}
can_write(memory, base, size) == Span(base, size) \subseteq DOMAIN memory
write_process_memory(memory, base, data) ==
    [a \in DOMAIN memory |-> IF a - base \in DOMAIN data THEN data[a - base] ELSE memory[a]]

(* load_program gives the new space back. *)
Fail == at' = "ENOEXEC" /\ mem' = Nothing

-----------------------------------------------------------------------------
(* The program.                                                            *)

(* xbks_create_kernel_mapped_pml4 may find no frame. *)
load_program ==
    /\ at = "program"
    /\ \/ ~(request.found /\ request.executable /\ ~request.directory) /\ Fail
       \/ request.found /\ request.executable /\ ~request.directory /\ at' = "segments" /\ UNCHANGED mem
       \/ request.found /\ request.executable /\ ~request.directory /\ Fail
    /\ UNCHANGED <<request, argc, envc, segment, stack, addresses, words>>

(* An ELF64 header for this machine, with its program headers in the file. *)
validate_elf == request.elf64 /\ Len(request.segments) # 0 /\ request.phdrs_inside

(* Mutant: the bytes of a segment need not lie in the file. *)
segment_is_valid_AnyOffset(s) ==
    /\ s.p_memsz >= s.p_filesz
    /\ s.p_vaddr >= USER_IMAGE_MIN
    /\ (s.p_vaddr + s.p_memsz) % SPACE < XBKS_USER_TOP
(* Mutant: only the start of a segment has to be below the top. *)
segment_is_valid_Start(s) ==
    /\ s.p_memsz >= s.p_filesz
    /\ (s.p_offset + s.p_filesz) % SPACE <= request.size
    /\ s.p_vaddr >= USER_IMAGE_MIN /\ s.p_vaddr < XBKS_USER_TOP
(* Both sums wrap: a segment is accepted whose end in the file, or in the   *)
(* address space, lies before its start.                                    *)
segment_is_valid(s) ==
    /\ s.p_memsz >= s.p_filesz
    /\ (s.p_offset + s.p_filesz) % SPACE <= request.size
    /\ s.p_vaddr >= USER_IMAGE_MIN
    /\ (s.p_vaddr + s.p_memsz) % SPACE < XBKS_USER_TOP

(* The byte so far behind the start of the file: one of the file, or of the *)
(* kernel memory around it.                                                 *)
source_byte(size, offset) == IF offset < size THEN <<"file", offset, 0>> ELSE <<"outside", offset, 0>>
source_bytes(s) == [k \in 0 .. s.p_filesz - 1 |-> source_byte(request.size, (s.p_offset + k) % SPACE)]

(* The kernel memory around the file may end; a copy that gets there stops  *)
(* the machine.                                                             *)
copy_faults(mapped, s) ==
    \E k \in 0 .. s.p_filesz - 1 :
        (s.p_offset + k) % SPACE >= request.size /\ can_write(mapped, s.p_vaddr, k + 1)

load_elf_into_process ==
    /\ at = "segments"
    /\ \/ /\ ~validate_elf
          /\ Fail /\ UNCHANGED segment
       \/ /\ validate_elf /\ segment < Len(request.segments)
          /\ LET s == request.segments[segment + 1]
                 pages == Pages(s.p_vaddr, s.p_memsz)
                 mapped == map_user_range(pages)
             IN  \/ s.p_type # 1 /\ UNCHANGED <<at, mem>>
                 \/ /\ s.p_type = 1
                    /\ segment_is_valid(s) /\ can_map(pages) /\ can_write(mapped, s.p_vaddr, s.p_filesz)
                    /\ mem' = write_process_memory(mapped, s.p_vaddr, source_bytes(s))
                    /\ UNCHANGED at
                 \/ /\ s.p_type = 1
                    /\ segment_is_valid(s) /\ can_map(pages) /\ copy_faults(mapped, s)
                    /\ at' = "faulted" /\ mem' = mapped
                 \/ /\ s.p_type = 1
                    /\ ~(segment_is_valid(s) /\ can_map(pages) /\ can_write(mapped, s.p_vaddr, s.p_filesz))
                    /\ Fail
          /\ segment' = segment + 1
       \/ /\ validate_elf /\ segment = Len(request.segments)
          /\ at' = "stack" /\ UNCHANGED <<mem, segment>>
    /\ UNCHANGED <<request, argc, envc, stack, addresses, words>>

-----------------------------------------------------------------------------
(* The stack.                                                              *)

build_user_stack ==
    /\ at = "stack"
    /\ LET pages == Pages(XBKS_USER_STACK_TOP - XBKS_USER_STACK_SIZE, XBKS_USER_STACK_SIZE)
       IN  IF can_map(pages) THEN mem' = map_user_range(pages) /\ at' = "strings" ELSE Fail
    /\ UNCHANGED <<request, argc, envc, segment, stack, addresses, words>>

push_bytes(size, data) ==
    LET down == (stack - size) % SPACE
    IN  /\ stack' = down
        /\ IF user_range_is_valid(down, size) /\ can_write(mem, down, size)
           THEN mem' = write_process_memory(mem, down, data) /\ UNCHANGED at
           ELSE Fail

(* Mutant: a string goes without its terminator. *)
string_size_Bare(length) == length
string_size(length) == length + 1

(* The next string from the last of envp to the first of argv. *)
push_string ==
    /\ at = "strings" /\ Len(addresses) < argc + envc
    /\ LET n == argc + envc - Len(addresses)
           kind == IF n > argc THEN "envp" ELSE "argv"
           i == IF n > argc THEN n - argc ELSE n
           length == IF n > argc THEN request.envp[i] ELSE request.argv[i]
       IN  push_bytes(string_size(length),
                      [k \in 0 .. string_size(length) - 1 |-> IF k = length THEN Zero ELSE <<kind, i, k>>])
    /\ addresses' = Append(addresses, stack')
    /\ UNCHANGED <<request, argc, envc, segment, words>>

align_stack ==
    /\ at = "strings" /\ Len(addresses) = argc + envc
    /\ stack' = align_down(stack, 2 * WORD)
    /\ at' = "words"
    /\ UNCHANGED <<request, argc, envc, mem, segment, addresses, words>>

(* Mutant: the addresses of envp are pushed first to last. *)
Word_Unreversed(n) ==
    CASE n = 1 \/ n = envc + 2 -> 0
      [] n \in 2 .. envc + 1 -> addresses[envc + 2 - n]
      [] n \in envc + 3 .. envc + argc + 2 -> addresses[n - 2]
      [] OTHER -> argc
(* The words from the highest down: null, envp, null, argv, argc. *)
Word(n) ==
    CASE n = 1 \/ n = envc + 2 -> 0
      [] n \in 2 .. envc + 1 -> addresses[n - 1]
      [] n \in envc + 3 .. envc + argc + 2 -> addresses[n - 2]
      [] OTHER -> argc

push_u64 ==
    /\ at = "words" /\ words < argc + envc + 3
    /\ push_bytes(WORD, [k \in 0 .. WORD - 1 |-> <<"word", Word(words + 1), k>>])
    /\ words' = words + 1
    /\ UNCHANGED <<request, argc, envc, segment, addresses>>

(* The process goes on in the new space; the old one is destroyed. *)
syscall_execve ==
    /\ at = "words" /\ words = argc + envc + 3
    /\ at' = "started"
    /\ UNCHANGED <<request, argc, envc, mem, segment, stack, addresses, words>>

Init ==
    /\ request \in Requests
    /\ at = "argv" /\ argc = 0 /\ envc = 0
    /\ mem = Nothing /\ segment = 0
    /\ stack = XBKS_USER_STACK_TOP /\ addresses = <<>> /\ words = 0

Next ==
    \/ copy_argv \/ copy_envp \/ load_program \/ load_elf_into_process
    \/ build_user_stack \/ push_string \/ align_stack \/ push_u64 \/ syscall_execve

Spec == Init /\ [][Next]_vars /\ WF_vars(Next)

-----------------------------------------------------------------------------
(* Properties.                                                             *)

(* Only pages of the user half, above its lowest image address, are ever   *)
(* mapped, for segments whose end wraps around as well.                    *)
MappedInsideUser == DOMAIN mem \subseteq USER_IMAGE_MIN .. XBKS_USER_TOP - 1

(* A program starts with each of its segments in place: bytes that lie in  *)
(* its file, then zeros; no later segment, and not the stack, has touched  *)
(* one.  Said of programs none of whose segments wraps around the address  *)
(* space, and of segments whose bytes do not wrap around in the file:      *)
(* load_elf_into_process accepts both kinds, and such an image overwrites  *)
(* other segments, or gets bytes that are not in its file.                 *)
WrapsImage(s) == s.p_vaddr + s.p_memsz >= SPACE
WrapsFile(s) == s.p_offset + s.p_filesz >= SPACE
FileRange(s) == s.p_offset .. s.p_offset + s.p_filesz - 1
ImageLoaded ==
    LET loadable == {i \in DOMAIN request.segments : request.segments[i].p_type = 1}
    IN  at = "started" /\ (\A i \in loadable : ~WrapsImage(request.segments[i])) =>
            \A i \in loadable :
                LET s == request.segments[i]
                IN  ~WrapsFile(s) =>
                        /\ FileRange(s) \subseteq 0 .. request.size - 1
                        /\ \A k \in 0 .. s.p_memsz - 1 :
                               mem[s.p_vaddr + k] = IF k < s.p_filesz THEN <<"file", s.p_offset + k, 0>> ELSE Zero

(* A program finds on its stack what it was started with: argc, argc       *)
(* pointers and a null, the pointers of the environment and a null, and    *)
(* behind each pointer its string with its terminator.  The arrays keep    *)
(* room for their null pointer, and no load that has come as far as the    *)
(* stack fails for want of room on it (build_user_stack).                  *)
IsWord(a, v) == \A k \in 0 .. WORD - 1 : a + k \in DOMAIN mem /\ mem[a + k] = <<"word", v, k>>
IsString(a, kind, i, length) ==
    /\ a + length \in DOMAIN mem /\ mem[a + length] = Zero
    /\ \A k \in 0 .. length - 1 : mem[a + k] = <<kind, i, k>>
Holds(a, kind, strings) ==
    /\ \A i \in DOMAIN strings :
           \E p \in DOMAIN mem : IsWord(a + WORD * (i - 1), p) /\ IsString(p, kind, i, strings[i])
    /\ IsWord(a + WORD * Len(strings), 0)
StackHoldsArguments ==
    /\ argc < MAX_ARGS /\ envc < MAX_ENV
    /\ at = "ENOEXEC" => stack = XBKS_USER_STACK_TOP
    /\ at = "started" =>
           /\ IsWord(stack, Len(request.argv))
           /\ Holds(stack + WORD, "argv", request.argv)
           /\ Holds(stack + WORD * (Len(request.argv) + 2), "envp", request.envp)

=============================================================================
