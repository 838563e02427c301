-------------------------------- MODULE Mm --------------------------------
(***************************************************************************)
(* Physical and virtual memory (mm/mm.c): the list of free frames, page    *)
(* tables kept in frames, and the operations on address spaces: create,    *)
(* map a page, clone for vfork, destroy.                                   *)
(*                                                                         *)
(* A frame is its number.  Its content is an array of words; a word is     *)
(* NULL (no present bit) or the frame a present entry points to, and a     *)
(* page holds whatever words user code put there.  Each nested loop of the *)
(* code runs as a sequence of steps with the loop variables in pc, level,  *)
(* path and v, so that running out of frames can strike at every           *)
(* allocation.  The kernel is not preempted: one operation runs at a time. *)
(* The four levels the code spells out are the constant LEVELS.            *)
(***************************************************************************)
EXTENDS Integers, Sequences, FiniteSets

CONSTANTS
    LEVELS,        \* depth of the page tables: pml4, pdpt, pd, pt
    ENTRIES,       \* entries of a table (512)
    USER_ENTRIES,  \* entries of the pml4 below the kernel half (256)
    PAGE_SIZE,     \* bytes of a frame
    MemoryMap,     \* sequence of [usable, base, length], in bytes
    LastFrame,     \* largest frame number
    KernelTable,   \* what the kernel half of the kernel's pml4 points to
    VPages,        \* user pages programs ask for, as tuples of table indices
    MaxRequests    \* bound on the requests for memory of a behaviour

NULL == 0
Frames == 1 .. LastFrame
Idx == 0 .. ENTRIES - 1
Levels == 1 .. LEVELS

ASSUME ShapeAssumption ==
    /\ LEVELS \in Nat /\ LEVELS > 1
    /\ ENTRIES \in Nat /\ USER_ENTRIES \in Nat
    /\ 0 < USER_ENTRIES /\ USER_ENTRIES < ENTRIES
    /\ PAGE_SIZE \in Nat \ {0}
    /\ LastFrame \in Nat /\ MaxRequests \in Nat
    /\ KernelTable \in Nat /\ KernelTable > LastFrame

ASSUME VPagesAssumption ==
    VPages \subseteq {page \in [Levels -> Idx] : page[LEVELS] < USER_ENTRIES}

VARIABLES
    free_frames,       \* the list, first element first
    free_frame_count,
    mem,               \* frame -> its words
    owned,             \* pml4 frames held by processes
    boot_entry,        \* memory map entries xbks_mm_init has handled
    pc,                \* operation in progress
    dst,               \* address space it builds or destroys
    level, path, v,    \* loop nest: depth, table at each depth, index at each depth
    table, depth,      \* xbks_vmm_map_page: table reached and its depth
    frame,             \* frame allocated for a page and not mapped yet
    requests           \* requests for memory made so far

list == <<free_frames, free_frame_count>>
loops == <<level, path, v>>
walk == <<table, depth, frame>>
vars == <<free_frames, free_frame_count, mem, owned, boot_entry, pc, dst, level, path, v, table, depth, frame, requests>>

NoPath == [l \in Levels |-> NULL]
NoIndex == [l \in Levels |-> 0]
Zeroed == [i \in Idx |-> NULL]
Dirty == [i \in Idx |-> KernelTable]

(* Frames hold anything when the kernel starts. *)
Init ==
    /\ free_frames = <<>>
    /\ free_frame_count = 0
    /\ mem = [f \in Frames |-> Dirty]
    /\ owned = {}
    /\ boot_entry = 0
    /\ pc = "boot"
    /\ dst = NULL
    /\ level = LEVELS /\ path = NoPath /\ v = NoIndex
    /\ table = NULL /\ depth = LEVELS /\ frame = NULL
    /\ requests = 0

-----------------------------------------------------------------------------
(* The frame list.                                                         *)

xbks_pmm_alloc_frame(f) ==
    /\ free_frames # <<>>
    /\ f = Head(free_frames)
    /\ free_frames' = Tail(free_frames)
    /\ free_frame_count' = free_frame_count - 1
OutOfFrames == free_frames = <<>>

xbks_pmm_free_frame(f) ==
    /\ free_frames' = <<f>> \o free_frames
    /\ free_frame_count' = free_frame_count + 1

(* The link of the list is stored in the first word of a free frame; it is *)
(* an aligned address, so it does not look like a present entry.           *)
Linked(words) == [words EXCEPT ![0] = NULL]

align_up(address) == (address + PAGE_SIZE - 1) \div PAGE_SIZE
align_down(address) == address \div PAGE_SIZE

(* The frames of a range, in the order the list has them after the loop has *)
(* pushed them one by one; frame 0 is never pushed.                         *)
add_usable_range(base, length) ==
    LET start == IF align_up(base) = 0 THEN 1 ELSE align_up(base)
        end == align_down(base + length)
    IN  [k \in 1 .. (IF end > start THEN end - start ELSE 0) |-> end - k]

(* Boot handles the entries of the memory map in turn; without the HHDM or *)
(* the map the list stays empty.                                           *)
xbks_mm_init ==
    /\ pc = "boot"
    /\ UNCHANGED <<owned, dst, loops, walk>>
    /\ \/ /\ boot_entry < Len(MemoryMap)
          /\ boot_entry' = boot_entry + 1
          /\ LET entry == MemoryMap[boot_entry + 1]
                 added == IF entry.usable THEN add_usable_range(entry.base, entry.length) ELSE <<>>
             IN  /\ free_frames' = added \o free_frames
                 /\ free_frame_count' = free_frame_count + Len(added)
                 /\ mem' = [f \in Frames |-> IF \E k \in DOMAIN added : added[k] = f
                                             THEN Linked(mem[f]) ELSE mem[f]]
          /\ UNCHANGED pc
       \/ /\ boot_entry = Len(MemoryMap)
          /\ pc' = "idle"
          /\ UNCHANGED <<list, mem, boot_entry>>
       \/ /\ boot_entry = 0
          /\ pc' = "idle"
          /\ UNCHANGED <<list, mem, boot_entry>>

-----------------------------------------------------------------------------
(* Creating an address space, and the operations processes start on one.   *)

(* Mutant: the first kernel entry is not copied. *)
KernelMapped_OffByOne == [i \in Idx |-> IF i > USER_ENTRIES THEN KernelTable ELSE NULL]

(* A new pml4 is empty but for the kernel half. *)
KernelMapped == [i \in Idx |-> IF i >= USER_ENTRIES THEN KernelTable ELSE NULL]
xbks_create_kernel_mapped_pml4(f) ==
    /\ xbks_pmm_alloc_frame(f)
    /\ mem' = [mem EXCEPT ![f] = KernelMapped]

Idle ==
    /\ pc' = "idle"
    /\ dst' = NULL
    /\ level' = LEVELS /\ path' = NoPath /\ v' = NoIndex
    /\ table' = NULL /\ depth' = LEVELS /\ frame' = NULL

(* The loop nests of clone and destroy start at entry 0 of a pml4. *)
StartLoops(root) ==
    /\ level' = LEVELS
    /\ path' = [NoPath EXCEPT ![LEVELS] = root]
    /\ v' = NoIndex

(* A request for memory, counted against the bound. *)
Asks ==
    /\ pc = "idle"
    /\ requests < MaxRequests
    /\ requests' = requests + 1

(* load_program creates a space. *)
CreateSpace ==
    /\ Asks
    /\ \E f \in Frames : xbks_create_kernel_mapped_pml4(f) /\ owned' = owned \cup {f}
    /\ UNCHANGED <<boot_entry, pc, dst, loops, walk>>

(* map_user_page allocates the frame first. *)
map_user_page(root, page) ==
    /\ Asks
    /\ \E f \in Frames :
        /\ xbks_pmm_alloc_frame(f)
        /\ mem' = [mem EXCEPT ![f] = Zeroed]
        /\ frame' = f
    /\ pc' = "map"
    /\ dst' = root
    /\ v' = page
    /\ table' = root /\ depth' = LEVELS
    /\ UNCHANGED <<owned, boot_entry, level, path>>

(* syscall_vfork creates the child's space and clones into it. *)
VforkSpace(source) ==
    /\ Asks
    /\ \E f \in Frames : xbks_create_kernel_mapped_pml4(f) /\ dst' = f
    /\ pc' = "clone"
    /\ StartLoops(source)
    /\ UNCHANGED <<owned, boot_entry, walk>>

(* A process gives up a space: wait4, execve, or a load that failed. *)
DestroySpace(root) ==
    /\ pc = "idle"
    /\ owned' = owned \ {root}
    /\ pc' = "destroy"
    /\ dst' = root
    /\ StartLoops(root)
    /\ UNCHANGED <<list, mem, boot_entry, walk, requests>>

(* Without a free frame create, map and vfork fail before they change anything. *)
Refused == pc = "idle" /\ OutOfFrames /\ UNCHANGED vars

(* User code computes, or waits in hlt, without a request. *)
UserComputes == pc = "idle" /\ UNCHANGED vars

(* The table at each depth on the way to a page, and the frame of the page. *)
TablesTo(root, page) ==
    LET t[l \in Levels] == IF l = LEVELS THEN root
                           ELSE IF t[l + 1] = NULL THEN NULL ELSE mem[t[l + 1]][page[l + 1]]
    IN  t
xbks_vmm_translate(root, page) ==
    LET pt == TablesTo(root, page)[1] IN IF pt = NULL THEN NULL ELSE mem[pt][page[1]]

(* User code writes to one of its pages. *)
UserWrite(root, page) ==
    /\ pc = "idle"
    /\ xbks_vmm_translate(root, page) # NULL
    /\ mem' = [mem EXCEPT ![xbks_vmm_translate(root, page)] = Dirty]
    /\ UNCHANGED <<list, owned, boot_entry, pc, dst, loops, walk, requests>>

(* Mutant: a clone that failed is tried again over what it left. *)
AbandonClone_Retries ==
    /\ pc' = "clone"
    /\ StartLoops(path[LEVELS])
    /\ table' = NULL /\ depth' = LEVELS /\ frame' = NULL
    /\ UNCHANGED dst

(* When a clone fails syscall_vfork destroys what was built. *)
AbandonClone ==
    /\ pc' = "destroy"
    /\ StartLoops(dst)
    /\ table' = NULL /\ depth' = LEVELS /\ frame' = NULL
    /\ UNCHANGED dst

-----------------------------------------------------------------------------
(* xbks_vmm_map_page, called by map_user_page (pc = "map") and by clone     *)
(* (pc = "clone map"): one step per level, then the entry of the page.      *)

Mapping == pc \in {"map", "clone map"}
Entry == mem[table][v[depth]]

(* Mutant: the frame that could not be mapped is forgotten. *)
MapFails_Leaks ==
    /\ \/ pc = "map" /\ Idle
       \/ pc = "clone map" /\ AbandonClone
    /\ UNCHANGED <<list, mem, owned, boot_entry>>

(* The caller frees the frame it could not map. *)
MapFails ==
    /\ xbks_pmm_free_frame(frame)
    /\ mem' = [mem EXCEPT ![frame] = Linked(@)]
    /\ \/ pc = "map" /\ Idle
       \/ pc = "clone map" /\ AbandonClone
    /\ UNCHANGED <<owned, boot_entry>>

ensure_next_table ==
    /\ Mapping /\ depth > 1
    /\ \/ /\ Entry # NULL
          /\ table' = Entry
          /\ depth' = depth - 1
          /\ UNCHANGED <<list, mem, owned, boot_entry, pc, dst, loops, frame>>
       \/ /\ Entry = NULL
          /\ \E f \in Frames :
                /\ xbks_pmm_alloc_frame(f)
                /\ mem' = [mem EXCEPT ![f] = Zeroed, ![table] = [@ EXCEPT ![v[depth]] = f]]
                /\ table' = f
          /\ depth' = depth - 1
          /\ UNCHANGED <<owned, boot_entry, pc, dst, loops, frame>>
       \/ Entry = NULL /\ OutOfFrames /\ MapFails

(* The last level: a page that is present already is not mapped again. *)
SetPageEntry ==
    /\ Mapping /\ depth = 1
    /\ \/ Entry # NULL /\ MapFails
       \/ /\ Entry = NULL
          /\ mem' = [mem EXCEPT ![table] = [@ EXCEPT ![v[1]] = frame]]
          /\ \/ pc = "map" /\ Idle
             \/ /\ pc = "clone map"
                /\ pc' = "clone"
                /\ v' = [v EXCEPT ![1] = @ + 1]
                /\ table' = NULL /\ depth' = LEVELS /\ frame' = NULL
                /\ UNCHANGED <<dst, level, path>>
          /\ UNCHANGED <<list, owned, boot_entry>>

-----------------------------------------------------------------------------
(* The loop nests of clone and destroy over the user half of a space: at    *)
(* each level the first present entry from the loop index on.               *)

Limit(l) == IF l = LEVELS THEN USER_ENTRIES ELSE ENTRIES
Present(l, i) ==
    /\ i \in v[l] .. Limit(l) - 1
    /\ mem[path[l]][i] # NULL
    /\ \A j \in v[l] .. i - 1 : mem[path[l]][j] = NULL
LoopEnds(l) == \A j \in v[l] .. Limit(l) - 1 : mem[path[l]][j] = NULL

(* Into the table a present entry points to. *)
Descend ==
    /\ pc \in {"clone", "destroy"} /\ level > 1
    /\ \E i \in Idx :
        /\ Present(level, i)
        /\ path' = [path EXCEPT ![level - 1] = mem[path[level]][i]]
        /\ v' = [v EXCEPT ![level] = i, ![level - 1] = 0]
    /\ level' = level - 1
    /\ UNCHANGED <<list, mem, owned, boot_entry, pc, dst, walk>>

(* Mutants: the loop above visits the same entry again, or skips one. *)
Ascend_Repeats ==
    /\ level' = level + 1
    /\ path' = [path EXCEPT ![level] = NULL]
    /\ v' = [v EXCEPT ![level] = 0]
Ascend_Skips ==
    /\ level' = level + 1
    /\ path' = [path EXCEPT ![level] = NULL]
    /\ v' = [v EXCEPT ![level] = 0, ![level + 1] = @ + 2]

(* Out of a table whose loop ended, on to the next entry of the one above. *)
Ascend ==
    /\ level' = level + 1
    /\ path' = [path EXCEPT ![level] = NULL]
    /\ v' = [v EXCEPT ![level] = 0, ![level + 1] = @ + 1]

(* A present page is copied to a new frame, which is then mapped. *)
ClonePage ==
    /\ pc = "clone" /\ level = 1
    /\ \E i \in Idx :
        /\ Present(1, i)
        /\ \/ OutOfFrames /\ AbandonClone /\ UNCHANGED <<list, mem, owned, boot_entry>>
           \/ /\ \E f \in Frames :
                    /\ xbks_pmm_alloc_frame(f)
                    /\ mem' = [mem EXCEPT ![f] = mem[mem[path[1]][i]]]
                    /\ frame' = f
              /\ pc' = "clone map"
              /\ v' = [v EXCEPT ![1] = i]
              /\ table' = dst /\ depth' = LEVELS
              /\ UNCHANGED <<owned, boot_entry, dst, level, path>>

CloneTableEnds ==
    /\ pc = "clone" /\ level < LEVELS
    /\ LoopEnds(level)
    /\ Ascend
    /\ UNCHANGED <<list, mem, owned, boot_entry, pc, dst, walk>>

(* The clone is complete and belongs to the child. *)
CloneEnds ==
    /\ pc = "clone" /\ level = LEVELS
    /\ LoopEnds(LEVELS)
    /\ owned' = owned \cup {dst}
    /\ Idle
    /\ UNCHANGED <<list, mem, boot_entry>>

DestroyPage ==
    /\ pc = "destroy" /\ level = 1
    /\ \E i \in Idx :
        /\ Present(1, i)
        /\ LET page == mem[path[1]][i]
           IN  /\ xbks_pmm_free_frame(page)
               /\ mem' = [mem EXCEPT ![page] = Linked(@), ![path[1]] = [@ EXCEPT ![i] = NULL]]
        /\ v' = [v EXCEPT ![1] = i + 1]
    /\ UNCHANGED <<owned, boot_entry, pc, dst, level, path, walk>>

(* A table is freed when its loop has ended, then its entry is cleared. *)
DestroyTable ==
    /\ pc = "destroy" /\ level < LEVELS
    /\ LoopEnds(level)
    /\ xbks_pmm_free_frame(path[level])
    /\ mem' = [mem EXCEPT ![path[level]] = Linked(@),
                          ![path[level + 1]] = [@ EXCEPT ![v[level + 1]] = NULL]]
    /\ Ascend
    /\ UNCHANGED <<owned, boot_entry, pc, dst, walk>>

DestroyRoot ==
    /\ pc = "destroy" /\ level = LEVELS
    /\ LoopEnds(LEVELS)
    /\ xbks_pmm_free_frame(dst)
    /\ mem' = [mem EXCEPT ![dst] = Linked(@)]
    /\ Idle
    /\ UNCHANGED <<owned, boot_entry>>

-----------------------------------------------------------------------------

KernelStep ==
    /\ UNCHANGED requests
    /\ \/ xbks_mm_init
       \/ ensure_next_table \/ SetPageEntry
       \/ Descend
       \/ ClonePage \/ CloneTableEnds \/ CloneEnds
       \/ DestroyPage \/ DestroyTable \/ DestroyRoot

Request ==
    \/ CreateSpace
    \/ \E root \in owned, page \in VPages : map_user_page(root, page) \/ UserWrite(root, page)
    \/ \E root \in owned : VforkSpace(root) \/ DestroySpace(root)
    \/ Refused \/ UserComputes

Next == KernelStep \/ Request

(* The kernel runs with interrupts masked: an operation once begun goes on. *)
Spec == Init /\ [][Next]_vars /\ WF_vars(KernelStep)

-----------------------------------------------------------------------------
(* Properties.                                                             *)

(* All address spaces, the one being built or destroyed included, and the  *)
(* tables reached from them through the user half, by level.               *)
Roots == owned \cup ({dst} \ {NULL})
UserEntries(t, l) == {mem[t][i] : i \in 0 .. Limit(l) - 1} \ {NULL}
Tables ==
    LET t[l \in Levels] == IF l = LEVELS THEN Roots
                           ELSE UNION {UserEntries(x, l + 1) : x \in t[l + 1] \cap Frames}
    IN  t
References(tables) ==
    UNION {{<<l, t, i>> : t \in tables[l], i \in 0 .. Limit(l) - 1} : l \in Levels}

(* The frames that lie wholly inside a usable range of the memory map that *)
(* boot has handled; frame 0 is never used.                                *)
Managed ==
    {f \in Frames : \E k \in 1 .. boot_entry :
        /\ MemoryMap[k].usable
        /\ MemoryMap[k].base <= f * PAGE_SIZE
        /\ (f + 1) * PAGE_SIZE <= MemoryMap[k].base + MemoryMap[k].length}

(* Every frame of usable memory has exactly one use at every moment: it is  *)
(* on the free list once, or a pml4, or the frame in hand, or the target of *)
(* one entry of one table.  No failure path of map and clone loses a frame  *)
(* or frees it twice, destroy gives every one back, no frame that boot did   *)
(* not find usable is ever handed out, and the counter agrees with the list. *)
OneUse ==
    LET tables == Tables
        managed == Managed
        references == References(tables)
        uses(f) == Cardinality({k \in DOMAIN free_frames : free_frames[k] = f})
                   + Cardinality({r \in references : mem[r[2]][r[3]] = f})
                   + Cardinality({f} \cap Roots) + Cardinality({f} \cap {frame})
    IN  /\ \A l \in Levels : tables[l] \subseteq managed
        /\ \A f \in Frames : uses(f) = Cardinality({f} \cap managed)
        /\ free_frame_count = Len(free_frames)

(* Every pml4 maps the kernel from the moment it can be loaded until it is  *)
(* freed: destroying one space never touches the shared kernel half.        *)
KernelStaysMapped ==
    \A root \in Roots : \A i \in Idx : i >= USER_ENTRIES => mem[root][i] = KernelTable

(* A clone never finds a page present in the new space: it can fail for    *)
(* want of frames only, because it visits every page of the source once.   *)
CloneNeverCollides == pc = "clone map" /\ depth = 1 => Entry = NULL

(* Every operation on memory ends: the loops of map, clone and destroy, and *)
(* the destroy that follows a failed clone, come to an end.                 *)
OperationsEnd == (pc # "idle") ~> (pc = "idle")

(* What the page tables mean: the content of each mapped page of a space. *)
UserPages == {page \in [Levels -> Idx] : page[LEVELS] < USER_ENTRIES}
View(root) ==
    [page \in {p \in UserPages : xbks_vmm_translate(root, p) # NULL} |->
        mem[xbks_vmm_translate(root, page)]]

Abstract == INSTANCE AddressSpaces WITH
    Fresh <- Zeroed, Written <- Dirty, spaces <- [root \in owned |-> View(root)]

(* The page tables implement independent address spaces: map adds one zeroed *)
(* page, vfork's clone appears complete with the contents of its source,     *)
(* destroy takes a space away, and no other space ever changes.              *)
ImplementsAddressSpaces == Abstract!Spec

=============================================================================
