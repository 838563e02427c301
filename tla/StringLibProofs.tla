-------------------------- MODULE StringLibProofs --------------------------
(***************************************************************************)
(* Proof that memset, memcpy and memmove write what they should and        *)
(* nothing else, for a memory of any size and operands that lie in it.     *)
(* The inductive invariant says how far each loop has come: upwards the    *)
(* first i bytes are in place, downwards all but the first i.  The source  *)
(* byte a turn reads has not been overwritten because upwards the          *)
(* destination is the lower one, downwards the higher, and in memcpy the   *)
(* two are disjoint.                                                       *)
(***************************************************************************)
EXTENDS StringLib, TLAPS

Filled(n) == \A a \in Addresses : mem[a] = IF dest <= a /\ a < dest + n THEN unsigned_char(value) ELSE old[a]
CopiedUp(n) == \A a \in Addresses : mem[a] = IF dest <= a /\ a < dest + n THEN old[src + (a - dest)] ELSE old[a]
CopiedDown(n) ==
    \A a \in Addresses : mem[a] = IF dest + n <= a /\ a < dest + count THEN old[src + (a - dest)] ELSE old[a]

Up == at = "up" \/ (fn = "memcpy" /\ at = "call")

Typed ==
    /\ mem \in [Addresses -> Bytes] /\ old \in [Addresses -> Bytes]
    /\ dest \in Addresses /\ src \in Addresses /\ count \in 0 .. Size /\ value \in Int
    /\ at \in {"call", "up", "down", "return"}

Ranges ==
    /\ fn \in Writers => dest + count <= Size /\ src + count <= Size
    /\ fn = "memcpy" => Disjoint
    /\ at = "up" => fn = "memmove" /\ dest < src
    /\ at = "down" => fn = "memmove" /\ src < dest

Progress ==
    /\ fn \in Writers => i \in 0 .. count
    /\ fn = "memset" /\ at = "call" => Filled(i)
    /\ fn = "memmove" /\ at = "call" => i = 0 /\ mem = old
    /\ Up => CopiedUp(i)
    /\ at = "down" => CopiedDown(i)

IInv == Typed /\ Ranges /\ Progress /\ WritesExactly

LEMMA InitIInv == Init => IInv
<1> SUFFICES ASSUME Init PROVE IInv
    OBVIOUS
<1>1. Typed
    BY BytesAssumption DEF Init, Typed
<1>2. Ranges
    BY DEF Init, Ranges, Writers, OnStrings
<1>3. Progress
  <2>1. \A a \in Addresses : ~(dest <= a /\ a < dest + 0)
      BY <1>1 DEF Typed, Addresses
  <2> QED BY <1>1, <2>1 DEF Init, Progress, Up, Filled, CopiedUp, Typed
<1> QED BY <1>1, <1>2, <1>3 DEF Init, IInv, WritesExactly

LEMMA SetIInv == IInv /\ memset => IInv'
<1> SUFFICES ASSUME IInv, memset PROVE IInv'
    OBVIOUS
<1>1. CASE i < count
  <2>0. /\ fn = "memset" /\ at = "call" /\ mem' = [mem EXCEPT ![dest + i] = unsigned_char(value)] /\ i' = i + 1
        /\ UNCHANGED arguments /\ at' = at
      BY <1>1 DEF memset
  <2>1. dest + i \in Addresses /\ i \in Nat /\ unsigned_char(value) \in Bytes /\ i' \in 0 .. count
      BY <1>1, <2>0, SizeAssumption, BytesAssumption
      DEF IInv, Typed, Ranges, Progress, Writers, Addresses, Bytes, unsigned_char
  <2>2. Typed'
      BY <2>0, <2>1 DEF IInv, Typed, arguments
  <2>3. Filled(i)'
    <3>1. ASSUME NEW a \in Addresses
          PROVE  mem'[a] = IF dest <= a /\ a < dest + i' THEN unsigned_char(value) ELSE old[a]
      <4>1. CASE a = dest + i
          BY <2>0, <2>1, <4>1 DEF IInv, Typed, Addresses
      <4>2. CASE a # dest + i
        <5>1. mem'[a] = mem[a]
            BY <2>0, <4>2 DEF IInv, Typed
        <5>2. (dest <= a /\ a < dest + i') <=> (dest <= a /\ a < dest + i)
            BY <2>0, <2>1, <4>2 DEF IInv, Typed, Addresses
        <5> QED BY <2>0, <5>1, <5>2 DEF IInv, Progress, Filled
      <4> QED BY <4>1, <4>2
    <3> QED BY <2>0, <3>1 DEF Filled, arguments, unsigned_char
  <2> QED BY <2>0, <2>1, <2>2, <2>3 DEF IInv, Ranges, Progress, WritesExactly, Up, arguments, Disjoint, Writers
<1>2. CASE ~(i < count)
  <2>0. /\ fn = "memset" /\ at = "call" /\ at' = "return" /\ UNCHANGED <<mem, i>> /\ UNCHANGED arguments
      BY <1>2 DEF memset, Return
  <2>1. i = count
      BY <1>2, <2>0 DEF IInv, Progress, Typed, Writers
  <2>2. WritesExactly'
      BY <2>0, <2>1 DEF IInv, Progress, Filled, WritesExactly, arguments, unsigned_char
  <2> QED BY <2>0, <2>2 DEF IInv, Typed, Ranges, Progress, Up, arguments, Disjoint, Writers
<1> QED BY <1>1, <1>2

(* Upwards: the byte read lies beyond those written. *)
LEMMA CopyIInv == IInv /\ memcpy => IInv'
<1> SUFFICES ASSUME IInv, memcpy PROVE IInv'
    OBVIOUS
<1>0. Up /\ fn \in {"memcpy", "memmove"} /\ i \in 0 .. count /\ UNCHANGED arguments
    BY DEF memcpy, IInv, Ranges, Progress, Up, Writers
<1>1. CASE i < count
  <2>0. mem' = [mem EXCEPT ![dest + i] = mem[src + i]] /\ i' = i + 1 /\ at' = at
      BY <1>1 DEF memcpy
  <2>1. dest + i \in Addresses /\ src + i \in Addresses /\ i \in Nat /\ i' \in 0 .. count
      BY <1>0, <1>1, <2>0, SizeAssumption DEF IInv, Typed, Ranges, Writers, Addresses
  <2>2. mem[src + i] = old[src + i]
    <3>1. ~(dest <= src + i /\ src + i < dest + i)
        BY <1>0, <1>1, <2>1 DEF IInv, Typed, Ranges, Up, Disjoint, Addresses
    <3> QED BY <1>0, <2>1, <3>1 DEF IInv, Progress, CopiedUp
  <2>3. Typed'
      BY <1>0, <2>0, <2>1 DEF IInv, Typed, arguments
  <2>4. CopiedUp(i)'
    <3>1. ASSUME NEW a \in Addresses
          PROVE  mem'[a] = IF dest <= a /\ a < dest + i' THEN old[src + (a - dest)] ELSE old[a]
      <4>1. CASE a = dest + i
        <5>1. src + (a - dest) = src + i /\ dest <= a /\ a < dest + i'
            BY <2>0, <2>1, <4>1 DEF IInv, Typed, Addresses
        <5> QED BY <2>0, <2>1, <2>2, <4>1, <5>1 DEF IInv, Typed
      <4>2. CASE a # dest + i
        <5>1. mem'[a] = mem[a]
            BY <2>0, <4>2 DEF IInv, Typed
        <5>2. (dest <= a /\ a < dest + i') <=> (dest <= a /\ a < dest + i)
            BY <2>0, <2>1, <4>2 DEF IInv, Typed, Addresses
        <5> QED BY <1>0, <5>1, <5>2 DEF IInv, Progress, CopiedUp
      <4> QED BY <4>1, <4>2
    <3> QED BY <1>0, <3>1 DEF CopiedUp, arguments
  <2> QED BY <1>0, <2>0, <2>1, <2>3, <2>4
          DEF IInv, Ranges, Progress, WritesExactly, Up, arguments, Disjoint, Writers
<1>2. CASE ~(i < count)
  <2>0. at' = "return" /\ UNCHANGED <<mem, i>>
      BY <1>2 DEF memcpy, Return
  <2>1. i = count
      BY <1>0, <1>2 DEF IInv, Typed
  <2>2. WritesExactly'
      BY <1>0, <2>0, <2>1 DEF IInv, Progress, CopiedUp, WritesExactly, arguments
  <2> QED BY <1>0, <2>0, <2>2 DEF IInv, Typed, Ranges, Progress, Up, arguments, Disjoint, Writers
<1> QED BY <1>1, <1>2

(* Downwards: the byte read lies before those written. *)
LEMMA DownIInv == IInv /\ memmove_down => IInv'
<1> SUFFICES ASSUME IInv, memmove_down PROVE IInv'
    OBVIOUS
<1>0. at = "down" /\ fn = "memmove" /\ src < dest /\ i \in 0 .. count /\ UNCHANGED arguments
    BY DEF memmove_down, IInv, Ranges, Progress, Writers
<1>1. CASE i > 0
  <2>0. mem' = [mem EXCEPT ![dest + i - 1] = mem[src + i - 1]] /\ i' = i - 1 /\ at' = at
      BY <1>1 DEF memmove_down
  <2>1. dest + i - 1 \in Addresses /\ src + i - 1 \in Addresses /\ i \in Nat /\ i' \in 0 .. count
      BY <1>0, <1>1, <2>0, SizeAssumption DEF IInv, Typed, Ranges, Writers, Addresses
  <2>2. mem[src + i - 1] = old[src + i - 1]
    <3>1. ~(dest + i <= src + i - 1)
        BY <1>0, <2>1 DEF IInv, Typed, Addresses
    <3> QED BY <1>0, <2>1, <3>1 DEF IInv, Progress, CopiedDown
  <2>3. Typed'
      BY <1>0, <2>0, <2>1 DEF IInv, Typed, arguments
  <2>4. CopiedDown(i)'
    <3>1. ASSUME NEW a \in Addresses
          PROVE  mem'[a] = IF dest + i' <= a /\ a < dest + count THEN old[src + (a - dest)] ELSE old[a]
      <4>1. CASE a = dest + i - 1
        <5>1. src + (a - dest) = src + i - 1 /\ dest + i' <= a /\ a < dest + count
            BY <1>0, <2>0, <2>1, <4>1 DEF IInv, Typed, Addresses
        <5> QED BY <2>0, <2>1, <2>2, <4>1, <5>1 DEF IInv, Typed
      <4>2. CASE a # dest + i - 1
        <5>1. mem'[a] = mem[a]
            BY <2>0, <4>2 DEF IInv, Typed
        <5>2. (dest + i' <= a /\ a < dest + count) <=> (dest + i <= a /\ a < dest + count)
            BY <1>0, <2>0, <2>1, <4>2 DEF IInv, Typed, Addresses
        <5> QED BY <1>0, <5>1, <5>2 DEF IInv, Progress, CopiedDown
      <4> QED BY <4>1, <4>2
    <3> QED BY <1>0, <3>1 DEF CopiedDown, arguments
  <2> QED BY <1>0, <2>0, <2>1, <2>3, <2>4
          DEF IInv, Ranges, Progress, WritesExactly, Up, arguments, Disjoint, Writers
<1>2. CASE ~(i > 0)
  <2>0. at' = "return" /\ UNCHANGED <<mem, i>>
      BY <1>2 DEF memmove_down, Return
  <2>1. i = 0
      BY <1>0, <1>2 DEF IInv, Typed
  <2>2. \A a \in Addresses : dest + 0 <= a <=> dest <= a
      BY DEF IInv, Typed, Addresses
  <2>3. WritesExactly'
      BY <1>0, <2>0, <2>1, <2>2 DEF IInv, Progress, CopiedDown, WritesExactly, arguments
  <2> QED BY <1>0, <2>0, <2>3 DEF IInv, Typed, Ranges, Progress, Up, arguments, Disjoint, Writers
<1> QED BY <1>1, <1>2

(* Nothing has moved when memmove chooses its direction. *)
LEMMA MoveIInv == IInv /\ memmove => IInv'
<1> SUFFICES ASSUME IInv, memmove PROVE IInv'
    OBVIOUS
<1>0. fn = "memmove" /\ at = "call" /\ i = 0 /\ mem = old /\ mem' = mem /\ UNCHANGED arguments
    BY DEF memmove, Return, IInv, Progress
<1>1. Typed'
    BY <1>0 DEF memmove, Return, direction, IInv, Typed, arguments
<1>2. CASE dest = src \/ count = 0
  <2>0. at' = "return" /\ i' = i
      BY <1>2 DEF memmove, Return
  <2>1. ASSUME NEW a \in Addresses, dest <= a, a < dest + count PROVE src + (a - dest) = a
      BY <1>2, <2>1 DEF IInv, Typed, Addresses
  <2>2. WritesExactly'
      BY <1>0, <2>0, <2>1 DEF WritesExactly, arguments
  <2> QED BY <1>0, <1>1, <2>0, <2>2 DEF IInv, Ranges, Progress, Up, arguments, Disjoint, Writers
<1>3. CASE ~(dest = src \/ count = 0)
  <2>0. at' = direction(dest, src) /\ i' = IF at' = "up" THEN 0 ELSE count
      BY <1>3 DEF memmove
  <2>1. (at' = "up" /\ i' = 0 /\ dest < src) \/ (at' = "down" /\ i' = count /\ src < dest)
      BY <1>3, <2>0 DEF direction, IInv, Typed, Addresses
  <2>2. \A a \in Addresses : ~(dest <= a /\ a < dest + 0) /\ ~(dest + count <= a /\ a < dest + count)
      BY DEF IInv, Typed, Addresses
  <2>3. i' \in 0 .. count
      BY <2>1 DEF IInv, Typed
  <2>4. Progress'
      BY <1>0, <2>1, <2>2, <2>3 DEF Progress, CopiedUp, CopiedDown, Up, arguments, Writers
  <2> QED BY <1>0, <1>1, <2>1, <2>4 DEF IInv, Ranges, WritesExactly, arguments, Disjoint, Writers
<1> QED BY <1>2, <1>3

(* The functions that only read. *)
LEMMA ReadIInv == IInv /\ (memcmp \/ strlen \/ strcmp \/ strncmp) => IInv'
<1> SUFFICES ASSUME IInv, memcmp \/ strlen \/ strcmp \/ strncmp PROVE IInv'
    OBVIOUS
<1>1. fn \notin Writers /\ fn # "memmove" /\ fn # "memcpy" /\ mem' = mem /\ UNCHANGED arguments /\ at' \in {"call", "return"}
    BY DEF memcmp, strlen, strcmp, strncmp, Return, GoOn, Writers
<1> QED BY <1>1 DEF IInv, Typed, Ranges, Progress, WritesExactly, Up, arguments, Writers

LEMMA NextIInv == IInv /\ [Next]_vars => IInv'
<1>1. IInv /\ UNCHANGED vars => IInv'
    BY DEF IInv, vars, Typed, Ranges, Progress, WritesExactly, Up, Filled, CopiedUp, CopiedDown, Disjoint, unsigned_char
<1> QED BY <1>1, SetIInv, CopyIInv, MoveIInv, DownIInv, ReadIInv DEF Next

(* For every size of the memory and all operands in it, memset, memcpy and *)
(* memmove return with exactly their destination filled.                   *)
THEOREM StringLibWritesExactly == Spec => []WritesExactly
<1>1. IInv => WritesExactly
    BY DEF IInv
<1> QED BY <1>1, InitIInv, NextIInv, PTL DEF Spec
=============================================================================
