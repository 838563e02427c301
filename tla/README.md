# A TLA+ model of the xbks kernel

This directory specifies xbks in TLA+: processes and system calls
(`kernel/process.c`), memory (`mm/mm.c`), the tar ramdisk (`fs/ramdisk.c`), the
two loaders of programs, the console with keyboard, serial port and shell, the
TrueType renderer, and the kernel's library. TLC checks the modules on small
instances; TLAPS proves, for every value of the constants, the life cycle and
the isolation of processes, what the loader builds, that the font tables are
read inside the file, and what the memory functions write.

## The system

xbks runs on one CPU with interrupts masked and has no scheduler. At boot
`xbks_kernel_main` sets up memory, loads `/bin/xsh` from a tar ramdisk as
process 1 and enters user mode, or runs a kernel shell when that fails. From
then on the kernel runs only inside system calls, one at a time. `vfork` copies
the caller's address space, blocks the caller and runs the child; `exit` of the
child resumes the caller; `wait4` collects zombies; `execve` replaces an image.

| Part | Source | Module | Status |
|---|---|---|---|
| process table, vfork, execve, wait4, exit, init | `kernel/process.c` | `Process` | modelled |
| what those calls promise programs | | `VforkCalls`, `ProcessRefinement` | modelled |
| brk | `kernel/process.c` | `Process` | modelled |
| descriptors and file calls | `kernel/process.c` | `Process` | modelled |
| call entry and dispatch | `syscall/`, `arch/x86_64/syscall_entry.S` | `Process` | partly |
| frame allocator, page tables | `mm/mm.c` | `Mm` | modelled |
| what mm.c promises process.c | | `AddressSpaces` | modelled |
| program loader | `kernel/process.c` | `Loader`, proofs in `LoaderProofs`; outcome in `Process` | modelled |
| boot order, entry to user mode | `kernel/main.c`, `arch/` | `Process`, `Mm`, `Console` | partly |
| ramdisk | `fs/ramdisk.c` | `Ramdisk` | modelled |
| static ELF loader | `fs/elf.c` | `Userland` | modelled |
| in-kernel userland (unreachable from `xbks_kernel_main`) | `kernel/userland.c` | `Userland` | partly |
| shell, keyboard, serial port, terminal output, log, panic | `kernel/`, `drivers/` | `Console` | modelled |
| TrueType renderer | `drivers/font_ttf.c` | `Font`, `Cmap`, `Glyph`, `Raster` | modelled |
| strings, formatting | `lib/` | `StringLib`, `Format` | modelled |

`PROJECT.json` lists the components with the reason for each omission, the
hazards of the code, and for every definition the source lines it stands for.

## Modules

**Process.** One action per system call, one state variable per global of
`process.c` (`processes`, `current`, `next_pid`; `fds` holds the descriptor
tables of the slots), plus `cr3`, the address spaces that exist (`live`) and
their pages (`mapped`), the user context `at` (the registers a call saves and
restores), the result `rax`, the status word `wstatus` and what the CPU does
(`machine`). A call is atomic because nothing interrupts the kernel. Running
out of frames is a nondeterministic outcome of each operation that allocates;
a load or a clone that fails has made an address space or not, and destroys the
one it made (`abandon_space`).
A user pointer is null, out of range, in range without a page, or usable; the
third makes the CPU fault, and without an IDT the machine stops (`faulted`).
The ramdisk is a constant function from paths to what the kernel reads of a
file. Counts are bytes for files and entries for directories (directory entries
all have one size). Offsets wrap at `WORD`, which stands for 2^64.

**VforkCalls** says what programs rely on, without slots, pointers or page
tables: a vfork is a procedure call, an exit returns the child's pid to the
caller where it was suspended, a status is delivered once. A zombie whose
parent is gone may be reaped by another process, since `wait4` compares slots
and slots are reused. **ProcessRefinement** maps `Process` to it.

**Mm.** The loops of map, clone and destroy run one iteration per step, so that
an allocation can fail at each. Frames hold words; a word is 0 or the frame a
present entry points to, and user code may fill a page with words that look
like entries. Page flags are left out: every user page is mapped writable. The
depth and width of the tables are constants. `requests` counts the requests for
memory and bounds them by `MaxRequests`.

**AddressSpaces** says what `process.c` relies on: spaces are independent
partial maps, a new page is zeroed, a clone appears whole. `Mm` refines it with
the map from `xbks_vmm_translate` of every owned pml4.

**Ramdisk.** Paths are sequences of characters, because what the code does to
them (skip, cut, join within a buffer) is what can go wrong. The walk over the
headers, which three functions of the code repeat, is one operator. The state is
the image chosen at boot and a client that opens paths and lists directories
index by index. An image carries, for the properties, the list of what was
archived. The octal fields of a header are numbers and an execute bit; file data is made to look like headers so that a walk that strays is
noticed. No entry has another below it unless it is a directory, as in any
archive of a file tree.

**Loader.** One `execve` from its argument arrays to the first instruction:
the strings are copied one by one, the headers checked, each segment mapped and
filled, the stack built word by word. An address space is a function from
mapped addresses to bytes, and a byte says where it comes from (which byte of
the file, of an argument, of a word). Sums wrap at `SPACE`, which stands for
2^64. The check of `p_offset + p_filesz` against the size of the file (line 323)
is such a sum: a segment whose range in the file wraps passes it, and its bytes
are then those of the kernel memory around the file (`source_byte`), or the copy
meets an address without memory and the machine stops (`copy_faults`). A string
is its length; the number of frames left is a constant.

**Userland.** `xsh` and its commands, which run inside the kernel in two static
arenas. `xbks_elf_load_image` takes one step per program header in each of its
two passes; a file on the RAMDISK is a record of the fields the code looks at.

**Console.** The only part with concurrency: bytes arrive at the UART and at the
keyboard controller at any moment, the UART takes its time to send, and the
kernel polls. Each access to a device is a step. `todo` is the list of port
writes a text still needs, in the order `xbks_console_write` makes them.
Printed and typed characters are recorded for the properties. A message is one
or two symbols; a handful of keys stands for the two scancode maps.

**Font, Cmap, Glyph, Raster** are the stages of `font_ttf.c`. `Font` finds the
boot module, parses its directory and headers and draws the cells, and records
every read it makes of the file that no cursor checks (the reads of the
character map are `Cmap`'s); which glyphs a character visits
and whether it can be drawn are inputs. `Cmap` works on the 16-bit words of a
`cmap` table, `Glyph` on the bytes of `glyf` with one frame of `stack` per
active call of `load_glyph_outline`, `Raster` on the points of one glyph, with
the code's fixed-point numbers; its integers are unbounded where the code
multiplies values of type `int32_t`. Each takes as input what the one before it
promises: `Glyph` gets fonts that passed `parse_ttf`, `Raster` outlines whose
contours divide their points (`ContoursDividePoints`).

**StringLib** and **Format.** The memory and string functions go one byte per
step, `xbks_snprintf` one directive per step. An int has `INT` values and a long
`LONG`; the conversions between signed and unsigned are those of C.

**MC modules** give TLC its inputs. `MCExec`, `MCTypeface` and `MCLib` put
independent modules side by side in one run: the variable `part` says which of
them a behaviour follows, the others rest. `MCCmap` and `MCGlyph` write tables
from a description of what they should mean, which is what the properties
compare the answers with.

Operators with a suffix after an underscore (`erase_Bare`) are deliberately
wrong variants: each property was seen to fail with one of them, and a property
with several conjuncts with one for each that matters.

## Runs

| Run | Instance | Shows |
|---|---|---|
| `lifecycle` | 3 slots, 4 address spaces, pids up to 5, two images, two user contexts | one running process in its own live space; every blocked process has exactly one process that resumes it; one chain of vforks; init stops last; each address space has one owner; `Process` implements `VforkCalls` |
| `heap` | 3 slots, heap of 3 pages, an image with a page in the heap's way | memory below the break is mapped, a wedged heap stays wedged, a blocked parent does not change |
| `files` | 2 slots, 2 free descriptors, offsets modulo 4 | descriptors stay sound through wrapping seeks, a full table and vfork; an offset moves only as the call of its owner tells, and never past the end by reading |
| `seek_abi` | as `files`, `WORD` 256 | expected violation, below |
| `memory` | 4 levels of 2 entries, 11 usable frames, 5 requests | every usable frame has exactly one use; the counter is right; the kernel half is never lost; clone fails for want of frames only |
| `ramdisk` | every archive of up to 3 of 6 entries, plain, below `./` or with a prefix; image exact, with trailing zeros, or a byte short; paths of 8 characters | no path leaves its buffer, nor do the parts joined to make one; find answers for what was archived; a listing gives each child once; listing and opening agree |
| `spaces` | as `memory` with 14 usable frames | `Mm` implements `AddressSpaces`; every operation ends |
| `console` | lines of 2 characters, FIFOs of 2 bytes, 3 bytes of input, 2 calls of a process | keys are decoded once and in order; the screen shows the line; the outputs agree; input is served, a read answered, a reboot done |
| `exec` | addresses below 128, pages of 4 bytes, up to 2 segments, 4 arguments; arenas of 4 bytes, files of up to 3 headers | only user pages are mapped; the image and the arguments are in place; one command at a time in a clean arena |
| `typeface` | 1-byte to 240-byte files of 5 glyphs; 2 subtables; outlines of 5 points and composites of depth 2; cells of 4 by 8 pixels | no read leaves the file or the glyph; characters, outlines and pixels are the right ones; all of it ends |
| `raster_latin` | the same cells, characters above ASCII | expected violation, below |
| `lib` | 4 bytes of 3 values; ints of 32 and longs of 1024 values, buffers up to 5 bytes | writes and comparisons are exact; the buffer holds a prefix; numbers read back |

Bounds. Three slots give a chain of three processes, a zombie beside two living
processes, and reuse of a slot by a grandchild; with pids up to 5 a slot is used
twice. Four address spaces let an execve overlap with a full table. In `memory`
a space with one page takes 5 frames, so 11 frames let one clone succeed and
clones of larger spaces fail at each level; in `spaces` 14 frames let a clone of two
page tables succeed. The memory map has a range from
address 0, a hole and an unaligned range. Address spaces are symmetric in the
process runs; no run with symmetry checks liveness. In `ramdisk` three entries
in any order give a directory before, between and after what it holds, and a
path stored twice; one entry is longer than a buffer, and its prefix, slash and
name fill it exactly, as the longest ones of a tar header do. The properties on names
are stated for archives whose paths fit (`Fits`): a path that exactly fills a
buffer loses a character when the leading slash is added. Empty and dot
components inside a path are not resolved by the code, and the properties ask
only that such a path finds nothing false.

In `console` three bytes are enough to fill the line and type past its end, to
press shift, a letter and release it again in any order with the other device,
and to type the name of each command. In `exec` segments start below, at and
above each limit, share pages, touch the stack and wrap around, in memory, in
the file or in both; argument arrays
reach their limit and pass it; a RAMDISK without a shell and one with a broken
one are included. In `typeface` every table ends where the file ends, so that a
read beyond a table is seen; table sizes and header fields go one below and one
above what the parser accepts; triangles have each point on or off the curve in
every position, so that a contour starts with any mixture. In `lib` the operands
overlap in every way and the numbers include both ends of both types.

Fairness. `OperationsEnd` assumes that the kernel, once inside an operation on
memory, goes on (`WF_vars(KernelStep)`); `InputServed` that the kernel goes on,
that the UART sends what it was given and that the keyboard controller becomes
ready (one `WF` each); `RenderingEnds` that the font code goes on. Interrupts are
masked and nothing else runs, so the kernel's own steps are guaranteed by the
code; the two devices are what its polling loops rely on. No fairness is assumed
of user code or of typing.

### Findings

`seek_abi`: `include/xbks/uapi/syscall.h` line 8 says that rax is a
"non-negative result or negative errno". `syscall_lseek` stores and returns
base + offset unchecked, so `lseek(fd, -100, SEEK_SET)` returns -100, which is
no error number, and the offset has moved.

`raster_latin`: the comment in `drivers/font_ttf.c` line 822 says that
"descenders must be accounted for in the font-wide line box instead of per-glyph
cropping". `build_font_metrics` takes the outlines of 0x20 to 0x7e into the box,
but all 256 characters are drawn with it: a glyph above ASCII that reaches out of
the box is cropped at its cell. For ASCII characters `PixelsInked` shows that
nothing is cropped.

## Proofs

**ProcessProofs** proves, for all constants that satisfy the assumptions in
`Process` (sizes are naturals, programs' pages and entry points are in their
sets, sizes fit a word), that `TypeOK`, `OneRunning`, `NobodyStranded`,
`VforkChain`, `HaltsAlone`, `PidsDistinct` and `SpacesOwned` are invariants.

None of these is inductive alone. The inductive invariant `IInv` is `TypeOK`
with `LifeCycle`: the six together, with two facts that tie them to the machine
state (before boot no slot is used; in user mode `current` is a slot). They
need each other because `exit` resumes `vfork_parent` blindly: that it is
BLOCKED comes from `VforkChain`, that nobody else waits for the same process
from `NobodyStranded`, that both steps name one process from `PidsDistinct`,
and that the resumed space still exists from `SpacesOwned`. `HaltsAlone` holds
because a process without a vfork parent is the oldest of a chain of which the
current one is the youngest. The proof of a step has one lemma for types and
one for the life cycle per action; the calls that move no process share one
lemma (`QuietStep`).

**IsolationProofs** proves `BlockedFrozen`, `DescriptorsSound`, `HeapBacked`,
`HeapStuck` and `OffsetsTold` under the same assumptions. The first four share one lemma,
`Effects`: under `IInv` a step does to any one slot, its descriptors and its
pages one of a few things (`Effect`), and to a slot that is used and not the
current one nothing but resume it or remove it. That lemma needs `SpacesOwned`
(no two processes have the same page tables, and a new address space is nobody
else's) and `OneRunning` (a blocked process is not the current one). The rest
is arithmetic: `align_up` gives the first page boundary that is not below, so a
page under the new break is either under the old one or among the pages just
mapped. `OffsetsTold` goes call by call: a step changes one descriptor of the
current process (`OneDescriptor`), and what a read is served lies between the
offset and the end of the file (`ServedInside`), which no seek can have moved.

**RefinementProofs** proves that `Process` implements `VforkCalls`. The
mapping takes the context a suspended process returns to from the slot of the
process that suspended it, found by `CHOOSE`; `OneChildEach` makes that slot
unique. Beyond `IInv` the proof needs `KinInv`: while the process that a
`ppid` names is in the table it is in the slot `parent` points to (a slot is
reused only under a larger pid, so a stale pointer never makes a zombie look
like the child of another living process's pid), and every saved context is a
user context. Each kind of step (`StepKinds`) maps to one step of `VforkCalls`
or to a stutter.

**LoaderProofs** proves `MappedInsideUser`, `ImageLoaded` and
`StackHoldsArguments` for every program file and all arguments. The assumptions
in `Loader` are that the layout constants are page aligned and in order
(`LayoutAssumption`), that program headers and arguments are made of naturals
(`RequestsAssumption`), and that the longest strings with all their pointers
fit the stack (`ArgumentsAssumption`: with arrays of 32 entries and strings of 256
bytes, under 16 KiB of the 64 KiB there are). The first half of the invariant
(`Base`) bounds how far down the stack can be at each step, so no push leaves
the pages `build_user_stack` mapped and none can fail. The second half
(`Content`) says what the new space holds: the segments loaded so far
(`Placed`), untouched by later ones because `map_user_page` refuses a page that
is present, and the strings and words pushed so far, each above everything
pushed later. `MappedInsideUser` needs no condition on the headers: a segment
whose end wraps around maps no page at all or only pages between its start and
the user top. `ImageLoaded` is about programs none of whose loadable segments
wraps around in memory (`WrapsImage`), and in them about the segments whose
range in the file does not wrap (`WrapsFile`): such a range lies inside the file
and the new space holds its bytes. Of a segment that wraps in the file only its
pages are claimed; its neighbours are in place all the same.

**FontProofs** proves `ReadsInside`, the reads of the directory, the headers,
`loca` and `hmtx`, for every list of boot modules: sizes,
offsets, lengths and header fields are any naturals. The invariant says that a
file is one of the modules (`FileOK`), that each table found lies inside it
(`FoundOK`) and that, once headers are parsed, `loca` and `hmtx` are as long as
the glyph and metric counts need (`Accepted`). The last is what `glyph_bounds`
and `glyph_advance`, which check nothing, rely on.

**StringLibProofs** proves `WritesExactly` for every size of memory, every
width of a byte and all operands, overlapping ones included. The invariant
(`Typed`, `Ranges`, `Progress`) says how far each loop has come: what it has
passed holds the value the source had before the call, what lies ahead in the
source is still unwritten. For `memmove` the second half holds upwards only if
the destination starts below the source, and downwards only if above: the
choice of direction is what the proof turns on.

Model-checked only: everything about `Mm` (its refinement of `AddressSpaces`
included), `Console`, `Userland`, `Cmap`, `Glyph`, `Raster` and `Format`,
comparisons in `StringLib`, everything about `Ramdisk` (its walk and path operators are
recursive operators, which TLAPS does not support), and liveness (which TLAPS
does not handle here).

## Not modelled

- The size of the kernel's stacks: the 16384 bytes of the system call stack are
  less than the locals of `syscall_execve`, and each level of a composite glyph
  keeps an outline of almost 5 KB on the stack.
- Overflow of `next_pid` after 2^31 processes. The table of 16 processes can
  fill with zombies that nobody waits for; the model has it, and no property
  asks that slots come back, since that is up to programs.
- Page flags and caching, single registers, MSRs, and the descriptor tables of
  the processor (constant data).
- Cursor, wrap and scroll of the terminal, which are in the flanterm library
  and not in this repository; line settings of the serial port.
- The calls of `user_api` that only read the ramdisk or print, and the copying
  of Limine's answers at boot.
- File contents in `Process` and `Ramdisk`, and the wording of output.
- Formats that end inside a directive after a length modifier: the kernel's
  formats are constants and none does.
