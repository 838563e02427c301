------------------------------ MODULE StringLib ------------------------------
(***************************************************************************)
(* The kernel's memory and string functions (lib/string.c): one call of    *)
(* one of them, a byte at a time, on a memory of Size bytes.  `old' is the *)
(* memory the call found.  The two operands may overlap in any way for     *)
(* memmove; they do not for memcpy, as all of its callers have it.         *)
(***************************************************************************)
EXTENDS Integers

CONSTANTS
    Size,
    BYTE,       \* values of a byte, 256
    Ints        \* values memset may be called with

ASSUME SizeAssumption == Size \in Nat
ASSUME BytesAssumption == BYTE \in Nat \ {0} /\ Ints \subseteq Int

Addresses == 0 .. Size - 1
Bytes == 0 .. BYTE - 1

VARIABLES
    mem, old,
    fn,         \* the function called
    at,         \* "call", memmove's loops "up" and "down", "return"
    dest, src,  \* its two operands, lhs and rhs for a comparison
    count,
    value,      \* of memset
    i,
    result      \* of strlen and the comparisons

vars == <<mem, old, fn, at, dest, src, count, value, i, result>>
arguments == <<old, fn, dest, src, count, value>>

Return(r) == at' = "return" /\ result' = r /\ UNCHANGED <<mem, i>>

-----------------------------------------------------------------------------
(* Writing.                                                                *)

unsigned_char(v) == v % BYTE

memset ==
    /\ fn = "memset" /\ at = "call"
    /\ IF i < count
       THEN mem' = [mem EXCEPT ![dest + i] = unsigned_char(value)] /\ i' = i + 1 /\ UNCHANGED <<at, result>>
       ELSE Return(0)
    /\ UNCHANGED arguments

(* The loop of memcpy, and of memmove to a lower address. *)
memcpy ==
    /\ (fn = "memcpy" /\ at = "call") \/ at = "up"
    /\ IF i < count
       THEN mem' = [mem EXCEPT ![dest + i] = mem[src + i]] /\ i' = i + 1 /\ UNCHANGED <<at, result>>
       ELSE Return(0)
    /\ UNCHANGED arguments

(* Mutant: bytes are always copied from the first on. *)
direction_Up(to, from) == "up"
(* A destination above its source is filled from its end. *)
direction(to, from) == IF to < from THEN "up" ELSE "down"

memmove ==
    /\ fn = "memmove" /\ at = "call"
    /\ IF dest = src \/ count = 0 THEN Return(0)
       ELSE /\ at' = direction(dest, src)
            /\ i' = IF at' = "up" THEN 0 ELSE count
            /\ UNCHANGED <<mem, result>>
    /\ UNCHANGED arguments

memmove_down ==
    /\ at = "down"
    /\ IF i > 0
       THEN mem' = [mem EXCEPT ![dest + i - 1] = mem[src + i - 1]] /\ i' = i - 1 /\ UNCHANGED <<at, result>>
       ELSE Return(0)
    /\ UNCHANGED arguments

-----------------------------------------------------------------------------
(* Reading.                                                                *)

GoOn == i' = i + 1 /\ UNCHANGED <<mem, at, result>>
left == mem[dest + i]
right == mem[src + i]

memcmp ==
    /\ fn = "memcmp" /\ at = "call"
    /\ IF i = count THEN Return(0) ELSE IF left # right THEN Return(left - right) ELSE GoOn
    /\ UNCHANGED arguments

strlen ==
    /\ fn = "strlen" /\ at = "call"
    /\ IF left = 0 THEN Return(i) ELSE GoOn
    /\ UNCHANGED arguments

(* Mutant: where the first string ends the second is not looked at. *)
strcmp_result_Ends(l, r) == IF l = 0 THEN 0 ELSE l - r
strcmp_result(l, r) == l - r

strcmp ==
    /\ fn = "strcmp" /\ at = "call"
    /\ IF left # 0 /\ left = right THEN GoOn ELSE Return(strcmp_result(left, right))
    /\ UNCHANGED arguments

(* Mutant: the comparison goes on past the end of the strings. *)
strncmp_ends_Late(l, r) == l # r
strncmp_ends(l, r) == l # r \/ l = 0

strncmp ==
    /\ fn = "strncmp" /\ at = "call"
    /\ IF i = count THEN Return(0) ELSE IF strncmp_ends(left, right) THEN Return(left - right) ELSE GoOn
    /\ UNCHANGED arguments

-----------------------------------------------------------------------------

Writers == {"memset", "memcpy", "memmove"}
OnStrings == {"strlen", "strcmp", "strncmp"}

(* A string ends before the memory does. *)
IsString(m, a) == \E e \in Addresses : a <= e /\ m[e] = 0

Disjoint == dest + count <= src \/ src + count <= dest

Init ==
    /\ mem \in [Addresses -> Bytes] /\ old = mem
    /\ fn \in Writers \cup OnStrings \cup {"memcmp"} /\ at = "call"
    /\ dest \in Addresses /\ src \in Addresses /\ count \in 0 .. Size
    /\ value \in Ints /\ i = 0 /\ result = 0
    /\ fn \notin OnStrings => dest + count <= Size /\ src + count <= Size
    /\ fn = "memcpy" => Disjoint
    /\ fn \in OnStrings => IsString(mem, dest) /\ IsString(mem, src)

Next == memset \/ memcpy \/ memmove \/ memmove_down \/ memcmp \/ strlen \/ strcmp \/ strncmp

Spec == Init /\ [][Next]_vars

-----------------------------------------------------------------------------
(* Properties.                                                             *)

(* When it returns, a writing function has filled its destination and      *)
(* nothing else: memset with its value, memcpy and memmove with what the   *)
(* source held before, however the two overlap for memmove.                *)
WritesExactly ==
    at = "return" /\ fn \in Writers =>
        \A a \in Addresses :
            mem[a] = IF ~(dest <= a /\ a < dest + count) THEN old[a]
                     ELSE IF fn = "memset" THEN unsigned_char(value) ELSE old[src + (a - dest)]

(* A comparison is 0 for equal operands and else the difference at the     *)
(* first byte where they differ; a string counts up to its terminator and  *)
(* is read no further.                                                     *)
Same(n) == \A k \in 0 .. n - 1 : mem[dest + k] = mem[src + k]
Length(a) == CHOOSE n \in 0 .. Size : mem[a + n] = 0 /\ \A k \in 0 .. n - 1 : mem[a + k] # 0
Compared ==
    CASE fn = "memcmp" -> count
      [] fn = "strcmp" -> Length(dest) + 1
      [] OTHER -> IF count <= Length(dest) THEN count ELSE Length(dest) + 1
ComparesFirstDifference ==
    /\ at = "call" /\ fn \in OnStrings =>
           /\ i <= Length(dest)
           /\ fn # "strlen" /\ ~(fn = "strncmp" /\ i = count) => i <= Length(src)
    /\ at = "return" =>
           /\ fn = "strlen" => result = Length(dest)
           /\ fn \in {"memcmp", "strcmp", "strncmp"} =>
                  \/ result = 0 /\ Same(Compared)
                  \/ \E k \in 0 .. Compared - 1 :
                         Same(k) /\ mem[dest + k] # mem[src + k] /\ result = mem[dest + k] - mem[src + k]

=============================================================================
