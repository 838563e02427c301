---------------------------- MODULE LoaderProofs ----------------------------
(***************************************************************************)
(* Proofs about Loader: for every program file and all arguments a load    *)
(* maps user addresses only, a program starts with its segments in place   *)
(* and finds its arguments on the stack.                                   *)
(***************************************************************************)
EXTENDS Loader, TLAPS

-----------------------------------------------------------------------------
(* Alignment.                                                              *)

(* Multiples of the alignment lie that far apart. *)
LEMMA Multiples ==
    ASSUME NEW a \in Nat \ {0}, NEW m \in Nat, NEW n \in Nat, m % a = 0, n % a = 0, m < n
    PROVE  m + a <= n
<1>1. m = a * (m \div a) /\ n = a * (n \div a) /\ m \div a \in Nat /\ n \div a \in Nat
  BY Z3
<1> DEFINE i == m \div a
           j == n \div a
<1>2. i < j
  <2>1. ASSUME j <= i PROVE FALSE
    <3>1. a * j <= a * i
      BY <1>1, <2>1
    <3> QED
      BY <1>1, <3>1
  <2> QED
    BY <1>1, <2>1
<1>3. a * (i + 1) <= a * j
  BY <1>1, <1>2
<1>4. a * (i + 1) = a * i + a
  BY <1>1
<1> QED
  BY <1>1, <1>3, <1>4

(* align_down returns the last multiple that is not above. *)
LEMMA AlignDown ==
    ASSUME NEW value \in Nat, NEW a \in Nat \ {0}
    PROVE  /\ align_down(value, a) \in Nat /\ align_down(value, a) % a = 0
           /\ align_down(value, a) <= value /\ value < align_down(value, a) + a
           /\ \A m \in Nat : m % a = 0 /\ m <= value => m <= align_down(value, a)
<1> DEFINE down == align_down(value, a)
<1> DEFINE quotient == value \div a
<1>1. quotient \in Nat /\ value % a \in 0 .. a - 1 /\ value - (value % a) = a * quotient
  BY Z3
<1>2. down = a * quotient /\ down \in Nat /\ down <= value /\ value < down + a
  BY <1>1 DEF align_down
<1>3. down % a = 0
  <2> HIDE DEF quotient, down
  <2>1. (a * quotient) % a = 0
    BY <1>1, Z3
  <2> QED
    BY <1>2, <2>1
<1>4. ASSUME NEW m \in Nat, m % a = 0, m <= value PROVE m <= down
  BY <1>2, <1>3, <1>4, Multiples
<1> QED
  BY <1>2, <1>3, <1>4

(* align_up returns the first multiple that is not below, if it is in range. *)
LEMMA AlignUp ==
    ASSUME NEW value \in Nat, NEW a \in Nat \ {0}, value + a <= SPACE
    PROVE  /\ align_up(value, a) \in Nat /\ align_up(value, a) % a = 0
           /\ value <= align_up(value, a)
           /\ \A m \in Nat : m % a = 0 /\ value <= m => align_up(value, a) <= m
<1>1. value + a - 1 \in Nat /\ (value + a - 1) % SPACE = value + a - 1
  BY LayoutAssumption
<1> DEFINE up == align_up(value, a)
<1>2. up = align_down(value + a - 1, a)
  BY <1>1 DEF align_up
<1>3. up \in Nat /\ up % a = 0 /\ up <= value + a - 1 /\ value + a - 1 < up + a
  BY <1>1, <1>2, AlignDown
<1>4. ASSUME NEW m \in Nat, m % a = 0, value <= m PROVE up <= m
  <2>1. m < up => m + a <= up
    BY <1>3, <1>4, Multiples
  <2> QED
    BY <1>3, <1>4, <2>1
<1> QED
  BY <1>3, <1>4

-----------------------------------------------------------------------------
(* The pages of a range.                                                   *)

(* They stay within any two page boundaries that contain the range. *)
LEMMA PagesInside ==
    ASSUME NEW base \in Nat, NEW size \in Nat, NEW low \in Nat, NEW high \in Nat,
           low % XBKS_PAGE_SIZE = 0, high % XBKS_PAGE_SIZE = 0, high + XBKS_PAGE_SIZE <= SPACE,
           low <= base, (base + size) % SPACE <= high
    PROVE  Bytes(Pages(base, size)) \subseteq low .. high - 1
<1> DEFINE P == XBKS_PAGE_SIZE
           end == (base + size) % SPACE
<1>1. P \in Nat \ {0} /\ SPACE \in Nat \ {0} /\ end \in Nat
  BY LayoutAssumption
<1>2. align_down(base, P) \in Nat /\ low <= align_down(base, P)
  BY <1>1, AlignDown
<1>3. align_up(end, P) \in Nat /\ align_up(end, P) <= high
  <2>1. end + P <= SPACE
    BY <1>1
  <2>2. \A m \in Nat : m % P = 0 /\ end <= m => align_up(end, P) <= m
    BY <1>1, <2>1, AlignUp
  <2> QED
    BY <1>1, <2>1, <2>2, AlignUp
<1>4. ASSUME NEW p \in Pages(base, size), NEW b \in p .. p + P - 1 PROVE b \in low .. high - 1
  <2>1. p \in Nat /\ p % P = 0 /\ low <= p /\ p < high
    BY <1>2, <1>3, <1>4 DEF Pages
  <2>2. p + P <= high
    BY <1>1, <2>1, Multiples
  <2> QED
    BY <1>1, <1>4, <2>1, <2>2
<1> QED
  BY <1>4 DEF Bytes

(* They contain a range that does not wrap around. *)
LEMMA PagesCover ==
    ASSUME NEW base \in Nat, NEW size \in Nat, base + size + XBKS_PAGE_SIZE <= SPACE
    PROVE  base .. base + size - 1 \subseteq Bytes(Pages(base, size))
<1> DEFINE P == XBKS_PAGE_SIZE
<1>1. P \in Nat \ {0} /\ (base + size) % SPACE = base + size
  BY LayoutAssumption
<1>2. align_down(base, P) \in Nat /\ align_down(base, P) % P = 0 /\ align_down(base, P) <= base
  BY <1>1, AlignDown
<1>3. align_up(base + size, P) \in Nat /\ base + size <= align_up(base + size, P)
  BY <1>1, AlignUp
<1> SUFFICES ASSUME NEW b \in base .. base + size - 1 PROVE \E p \in Pages(base, size) : b \in p .. p + P - 1
  BY DEF Bytes
<1>4. /\ align_down(b, P) \in Nat /\ align_down(b, P) % P = 0 /\ align_down(b, P) <= b
      /\ b < align_down(b, P) + P /\ align_down(base, P) <= align_down(b, P)
  <2>1. b \in Nat /\ base <= b
    OBVIOUS
  <2>2. \A m \in Nat : m % P = 0 /\ m <= b => m <= align_down(b, P)
    BY <1>1, <2>1, AlignDown
  <2>3. align_down(base, P) <= align_down(b, P)
    BY <1>2, <2>1, <2>2
  <2> QED
    BY <1>1, <2>1, <2>3, AlignDown
<1>5. align_down(b, P) \in Pages(base, size)
  BY <1>1, <1>2, <1>3, <1>4 DEF Pages
<1> QED
  BY <1>1, <1>4, <1>5

-----------------------------------------------------------------------------
(* The invariant.                                                          *)

StackBase == XBKS_USER_STACK_TOP - XBKS_USER_STACK_SIZE
Most == MAX_ARGS + MAX_ENV - 4
Floor == align_down(XBKS_USER_STACK_TOP - Most * MAX_STRING, 2 * WORD)
Pushing == {"strings", "words", "started"}
Phases == {"argv", "envp", "program", "segments", "stack", "EFAULT", "ENOEXEC", "faulted"} \cup Pushing

(* Types; strings that were copied are short enough, and not too many. *)
Typed ==
    /\ request \in Requests /\ at \in Phases
    /\ argc \in Nat /\ argc < MAX_ARGS /\ argc <= Len(request.argv)
    /\ envc \in Nat /\ envc < MAX_ENV /\ envc <= Len(request.envp)
    /\ mem = [a \in DOMAIN mem |-> mem[a]]
    /\ segment \in Nat /\ segment <= Len(request.segments)
    /\ stack \in Nat /\ addresses \in Seq(Nat) /\ words \in Nat
Copied ==
    /\ \A i \in 1 .. argc : request.argv[i] \in 0 .. MAX_STRING - 1
    /\ \A i \in 1 .. envc : request.envp[i] \in 0 .. MAX_STRING - 1
    /\ at \notin {"argv", "EFAULT"} => argc = Len(request.argv) /\ argc <= MAX_ARGS - 2
    /\ at \notin {"argv", "envp", "EFAULT"} => envc = Len(request.envp) /\ envc <= MAX_ENV - 2

(* How far down the stack can be, and that it is mapped. *)
StackPlace ==
    /\ at \notin Pushing => stack = XBKS_USER_STACK_TOP /\ addresses = <<>> /\ words = 0
    /\ at \in Pushing => /\ StackBase .. XBKS_USER_STACK_TOP - 1 \subseteq DOMAIN mem
                         /\ stack <= XBKS_USER_STACK_TOP
    /\ at = "strings" => /\ Len(addresses) <= argc + envc /\ words = 0
                         /\ XBKS_USER_STACK_TOP <= stack + Len(addresses) * MAX_STRING
    /\ at \in {"words", "started"} => /\ Len(addresses) = argc + envc /\ words <= argc + envc + 3
                                      /\ Floor <= stack + words * WORD
    /\ at = "started" => words = argc + envc + 3

Base == Typed /\ Copied /\ MappedInsideUser /\ StackPlace

(* The layout, in the form the steps use. *)
LEMMA Layout ==
    /\ StackBase \in Nat /\ XBKS_USER_STACK_TOP \in Nat /\ StackBase < XBKS_USER_STACK_TOP
    /\ USER_IMAGE_MIN \in Nat /\ XBKS_USER_TOP \in Nat /\ SPACE \in Nat
    /\ USER_IMAGE_MIN <= StackBase /\ XBKS_USER_STACK_TOP <= XBKS_USER_TOP /\ XBKS_USER_TOP < SPACE
    /\ WORD \in Nat /\ WORD > 0 /\ MAX_STRING \in Nat /\ Most \in Nat
BY LayoutAssumption, ArgumentsAssumption DEF StackBase, Most

(* The longest strings end above the floor, and all words above the base. *)
LEMMA FloorPlace ==
    /\ Floor \in Nat /\ Floor % (2 * WORD) = 0 /\ Floor <= XBKS_USER_STACK_TOP - Most * MAX_STRING
    /\ StackBase <= Floor - (Most + 3) * WORD
<1>1. Most * MAX_STRING \in Nat /\ XBKS_USER_STACK_TOP - Most * MAX_STRING \in Nat
  BY Layout, ArgumentsAssumption DEF Most
<1>2. 2 * WORD \in Nat \ {0}
  BY Layout
<1>3. Floor \in Nat /\ Floor % (2 * WORD) = 0 /\ Floor <= XBKS_USER_STACK_TOP - Most * MAX_STRING
  BY <1>1, <1>2, AlignDown DEF Floor
<1>4. MAX_ARGS + MAX_ENV - 1 = Most + 3
  BY ArgumentsAssumption DEF Most
<1>5. StackBase <= Floor - (Most + 3) * WORD
  BY <1>4, ArgumentsAssumption DEF StackBase, Floor, Most
<1> QED
  BY <1>3, <1>5

(* There is room for a string. *)
LEMMA RoomForString ==
    ASSUME NEW top \in Nat, NEW n \in Nat, n < Most, XBKS_USER_STACK_TOP <= top + n * MAX_STRING
    PROVE  /\ StackBase + MAX_STRING <= top
           /\ \A size \in Nat : size <= MAX_STRING /\ size <= top =>
                 XBKS_USER_STACK_TOP <= (top - size) + (n + 1) * MAX_STRING
<1>1. (n + 1) * MAX_STRING <= Most * MAX_STRING
  BY Layout
<1>2. (n + 1) * MAX_STRING = n * MAX_STRING + MAX_STRING /\ n * MAX_STRING \in Nat /\ Most * MAX_STRING \in Nat
  BY Layout
<1>3. (Most + 3) * WORD \in Nat
  BY Layout
<1>4. StackBase + MAX_STRING <= top
  BY <1>1, <1>2, <1>3, Layout, FloorPlace
<1> QED
  BY <1>2, <1>4, Layout

(* There is room for a word. *)
LEMMA RoomForWord ==
    ASSUME NEW top \in Nat, NEW w \in Nat, w < Most + 3, Floor <= top + w * WORD
    PROVE  StackBase + WORD <= top /\ Floor <= (top - WORD) + (w + 1) * WORD
<1>1. (w + 1) * WORD <= (Most + 3) * WORD
  BY Layout
<1>2. (w + 1) * WORD = w * WORD + WORD /\ w * WORD \in Nat /\ (Most + 3) * WORD \in Nat
  BY Layout
<1> QED
  BY <1>1, <1>2, Layout, FloorPlace

(* Aligning the stack goes no deeper than the floor. *)
LEMMA AlignedFloor ==
    ASSUME NEW top \in Nat, NEW n \in Nat, n <= Most, XBKS_USER_STACK_TOP <= top + n * MAX_STRING
    PROVE  /\ align_down(top, 2 * WORD) \in Nat /\ align_down(top, 2 * WORD) <= top
           /\ Floor <= align_down(top, 2 * WORD)
<1>1. n * MAX_STRING <= Most * MAX_STRING /\ n * MAX_STRING \in Nat /\ Most * MAX_STRING \in Nat
  BY Layout
<1>2. Floor \in Nat /\ Floor <= top /\ Floor % (2 * WORD) = 0
  BY <1>1, Layout, FloorPlace
<1>3. 2 * WORD \in Nat \ {0}
  BY Layout
<1> QED
  BY <1>2, <1>3, AlignDown

-----------------------------------------------------------------------------
(* Writes.                                                                 *)

(* A write changes the bytes of its range and no other. *)
LEMMA WriteBytes ==
    ASSUME NEW memory, NEW base \in Nat, NEW data
    PROVE  LET written == write_process_memory(memory, base, data) IN
           /\ DOMAIN written = DOMAIN memory
           /\ written = [a \in DOMAIN written |-> written[a]]
           /\ \A a \in DOMAIN memory : written[a] = IF a - base \in DOMAIN data THEN data[a - base] ELSE memory[a]
BY DEF write_process_memory

(* A push inside the stack succeeds and writes just below it. *)
LEMMA PushWorks ==
    ASSUME Base, at \in {"strings", "words"}, NEW size \in Nat \ {0}, StackBase + size <= stack,
           NEW data, DOMAIN data = 0 .. size - 1, push_bytes(size, data)
    PROVE  /\ stack' = stack - size /\ at' = at
           /\ DOMAIN mem' = DOMAIN mem /\ mem' = [a \in DOMAIN mem' |-> mem'[a]]
           /\ \A a \in DOMAIN mem : a \in Nat
           /\ \A a \in DOMAIN mem : a \notin stack - size .. stack - 1 => mem'[a] = mem[a]
           /\ \A k \in 0 .. size - 1 : stack - size + k \in DOMAIN mem /\ mem'[stack - size + k] = data[k]
<1> DEFINE down == stack - size
<1>1. stack \in Nat /\ stack <= XBKS_USER_STACK_TOP /\ StackBase .. XBKS_USER_STACK_TOP - 1 \subseteq DOMAIN mem
  BY DEF Base, Typed, StackPlace, Pushing
<1>2. down \in Nat /\ StackBase <= down /\ down < XBKS_USER_STACK_TOP /\ down % SPACE = down
  BY <1>1, Layout
<1>3. user_range_is_valid(down, size)
  BY <1>1, <1>2, Layout DEF user_range_is_valid
<1>4. \A k \in 0 .. size - 1 : down + k \in DOMAIN mem /\ (down + k) % SPACE = down + k
  BY <1>1, <1>2, Layout
<1>5. can_write(mem, down, size)
  BY <1>4 DEF can_write, Span
<1>6. mem' = write_process_memory(mem, down, data) /\ at' = at /\ stack' = down
  BY <1>2, <1>3, <1>5 DEF push_bytes
<1>7. /\ DOMAIN mem' = DOMAIN mem /\ mem' = [a \in DOMAIN mem' |-> mem'[a]]
      /\ \A a \in DOMAIN mem : mem'[a] = IF a - down \in DOMAIN data THEN data[a - down] ELSE mem[a]
  BY <1>2, <1>6, WriteBytes
<1>8. \A a \in DOMAIN mem : a \in Nat
  BY Layout DEF Base, MappedInsideUser
<1>9. ASSUME NEW a \in DOMAIN mem, a \notin down .. stack - 1 PROVE mem'[a] = mem[a]
  <2>1. a - down \notin 0 .. size - 1
    BY <1>1, <1>2, <1>8, <1>9
  <2> QED
    BY <1>7, <2>1
<1>10. ASSUME NEW k \in 0 .. size - 1 PROVE mem'[down + k] = data[k]
  <2>1. (down + k) - down = k /\ down + k \in DOMAIN mem
    BY <1>2, <1>4
  <2> QED
    BY <1>7, <1>10, <2>1
<1> QED
  BY <1>4, <1>6, <1>7, <1>8, <1>9, <1>10

(* The next string: which one it is, and its size. *)
Order(n) == argc + envc + 1 - n
Kind(n) == IF Order(n) > argc THEN "envp" ELSE "argv"
Number(n) == IF Order(n) > argc THEN Order(n) - argc ELSE Order(n)
Length(n) == IF Order(n) > argc THEN request.envp[Number(n)] ELSE request.argv[Number(n)]
StringData(n) == [k \in 0 .. Length(n) |-> IF k = Length(n) THEN Zero ELSE <<Kind(n), Number(n), k>>]

(* Every string that is pushed was copied. *)
LEMMA Lengths ==
    ASSUME Base, NEW n \in 1 .. argc + envc
    PROVE  Length(n) \in Nat /\ Length(n) < MAX_STRING
<1>1. argc \in Nat /\ envc \in Nat /\ Order(n) \in 1 .. argc + envc
  BY DEF Base, Typed, Order
<1> QED
  BY <1>1, Layout DEF Base, Copied, Length, Number

(* What pushing a string does. *)
LEMMA StringStep ==
    ASSUME Base, push_string
    PROVE  LET n == Len(addresses) + 1
               size == Length(n) + 1
           IN  /\ n \in 1 .. argc + envc /\ size \in Nat \ {0} /\ size <= MAX_STRING
               /\ StackBase + size <= stack /\ at = "strings"
               /\ push_bytes(size, StringData(n))
<1> DEFINE n == Len(addresses) + 1
           size == Length(n) + 1
<1>1. argc \in Nat /\ envc \in Nat /\ Len(addresses) \in Nat /\ stack \in Nat /\ at = "strings" /\ Len(addresses) < argc + envc
  BY DEF Base, Typed, push_string
<1>2. n \in 1 .. argc + envc /\ argc + envc <= Most
  BY <1>1, ArgumentsAssumption DEF Base, Copied, Most
<1>3. Length(n) \in Nat /\ size \in Nat \ {0} /\ size <= MAX_STRING
  BY <1>2, Lengths, Layout
<1>4. StackBase + size <= stack
  <2>1. XBKS_USER_STACK_TOP <= stack + Len(addresses) * MAX_STRING
    BY <1>1 DEF Base, StackPlace
  <2>2. Len(addresses) < Most
    BY <1>1, <1>2, Layout
  <2>3. StackBase + MAX_STRING <= stack
    BY <1>1, <2>1, <2>2, RoomForString
  <2> QED
    BY <1>1, <1>3, <2>3, Layout
<1>5. argc + envc - Len(addresses) = Order(n)
  BY <1>1 DEF Order
<1>6. push_bytes(size, StringData(n))
  <2>1. 0 .. string_size(Length(n)) - 1 = 0 .. Length(n) /\ string_size(Length(n)) = size
    BY <1>3 DEF string_size
  <2> HIDE DEF n
  <2>2. push_bytes(string_size(Length(n)),
                   [k \in 0 .. string_size(Length(n)) - 1 |-> IF k = Length(n) THEN Zero ELSE <<Kind(n), Number(n), k>>])
    BY <1>5 DEF push_string, Length, Kind, Number
  <2> QED
    BY <2>1, <2>2 DEF StringData
<1> QED
  BY <1>1, <1>2, <1>3, <1>4, <1>6

WordData(w) == [k \in 0 .. WORD - 1 |-> <<"word", Word(w), k>>]

(* What pushing a word does. *)
LEMMA WordStep ==
    ASSUME Base, push_u64
    PROVE  /\ at = "words" /\ words + 1 \in 1 .. argc + envc + 3 /\ WORD \in Nat \ {0}
           /\ StackBase + WORD <= stack /\ Floor <= (stack - WORD) + (words + 1) * WORD
           /\ push_bytes(WORD, WordData(words + 1))
<1>1. argc \in Nat /\ envc \in Nat /\ stack \in Nat /\ words \in Nat /\ at = "words" /\ words < argc + envc + 3
  BY DEF Base, Typed, push_u64
<1>2. argc + envc <= Most /\ Floor <= stack + words * WORD
  BY <1>1, ArgumentsAssumption DEF Base, Copied, StackPlace, Most
<1>3. words < Most + 3
  BY <1>1, <1>2, Layout
<1> QED
  BY <1>1, <1>2, <1>3, RoomForWord, Layout DEF push_u64, WordData

-----------------------------------------------------------------------------
(* Every step preserves Base.                                              *)

(* What the program headers hold. *)
Headers == [p_type : Nat, p_vaddr : Nat, p_memsz : Nat, p_offset : Nat, p_filesz : Nat]

(* An element of a sequence. *)
LEMMA ElementOfSeq ==
    ASSUME NEW S, NEW q \in Seq(S), NEW i \in 1 .. Len(q)
    PROVE  q[i] \in S
OBVIOUS

(* Each program header is well typed. *)
LEMMA HeaderFields ==
    ASSUME Base, NEW i \in 1 .. Len(request.segments)
    PROVE  request.segments[i] \in Headers
<1>1. request.segments \in Seq(Headers)
  BY RequestsAssumption DEF Base, Typed, Headers
<1> QED
  BY <1>1, ElementOfSeq

(* A load that fails with its stack untouched. *)
LEMMA FailBase ==
    ASSUME Base, Fail, at \notin Pushing \cup {"EFAULT", "argv", "envp"}, segment' \in Nat, segment' <= Len(request.segments),
           UNCHANGED <<request, argc, envc, stack, addresses, words>>
    PROVE  Base'
<1>1. MappedInsideUser' /\ mem' = [a \in DOMAIN mem' |-> mem'[a]]
  BY DEF Fail, Nothing, MappedInsideUser
<1>2. Typed'
  BY <1>1 DEF Base, Typed, Fail, Phases
<1>3. Copied'
  BY DEF Base, Copied, Fail
<1>4. StackPlace'
  BY DEF Base, StackPlace, Fail, Pushing
<1> QED
  BY <1>1, <1>2, <1>3, <1>4 DEF Base

(* A string that is copied is short enough, and there is room for it. *)
LEMMA CopyBase ==
    ASSUME Base, copy_argv \/ copy_envp
    PROVE  Base'
<1>1. /\ UNCHANGED <<request, mem, segment, stack, addresses, words>>
      /\ \/ /\ at = "argv" /\ envc' = envc
            /\ \/ at' = "EFAULT" /\ argc' = argc
               \/ at' = "envp" /\ argc' = argc /\ argc = Len(request.argv) /\ argc < MAX_ARGS - 1
               \/ /\ at' = at /\ argc' = argc + 1 /\ argc < Len(request.argv) /\ argc < MAX_ARGS - 1
                  /\ copy_user_string(request.argv[argc + 1])
         \/ /\ at = "envp" /\ argc' = argc
            /\ \/ at' = "EFAULT" /\ envc' = envc
               \/ at' = "program" /\ envc' = envc /\ envc = Len(request.envp) /\ envc < MAX_ENV - 1
               \/ /\ at' = at /\ envc' = envc + 1 /\ envc < Len(request.envp) /\ envc < MAX_ENV - 1
                  /\ copy_user_string(request.envp[envc + 1])
  BY DEF copy_argv, copy_envp, CopyNext, max_strings
<1>2. /\ argc \in Nat /\ envc \in Nat /\ MAX_ARGS \in Nat /\ MAX_ENV \in Nat /\ MAX_STRING \in Nat
      /\ request.argv \in Seq(Nat \cup {Outside}) /\ request.envp \in Seq(Nat \cup {Outside})
  BY ArgumentsAssumption, RequestsAssumption DEF Base, Typed
<1>3. Typed'
  <2>1. Len(request.argv) \in Nat /\ Len(request.envp) \in Nat
    BY <1>2
  <2>2. /\ argc' \in Nat /\ argc' < MAX_ARGS /\ argc' <= Len(request.argv)
        /\ envc' \in Nat /\ envc' < MAX_ENV /\ envc' <= Len(request.envp)
    <3>1. /\ argc < MAX_ARGS /\ argc <= Len(request.argv)
          /\ envc < MAX_ENV /\ envc <= Len(request.envp)
      BY DEF Base, Typed
    <3>2. /\ argc' = argc \/ (argc' = argc + 1 /\ argc < Len(request.argv) /\ argc < MAX_ARGS - 1)
          /\ envc' = envc \/ (envc' = envc + 1 /\ envc < Len(request.envp) /\ envc < MAX_ENV - 1)
      BY <1>1
    <3>3. argc \in Nat /\ envc \in Nat /\ MAX_ARGS \in Nat /\ MAX_ENV \in Nat
      BY <1>2
    <3> QED
      BY <2>1, <3>1, <3>2, <3>3
  <2>3. at' \in Phases
    BY <1>1 DEF Phases
  <2> QED
    BY <1>1, <2>2, <2>3 DEF Base, Typed
<1>4. Copied'
  <2>1. \A i \in 1 .. argc' : i \in 1 .. argc \/ (i = argc + 1 /\ argc' = argc + 1)
    BY <1>1, <1>2
  <2>2. \A i \in 1 .. envc' : i \in 1 .. envc \/ (i = envc + 1 /\ envc' = envc + 1)
    BY <1>1, <1>2
  <2>3. argc' = argc + 1 => request.argv[argc + 1] \in 0 .. MAX_STRING - 1
    <3>1. argc' = argc + 1 => argc + 1 \in 1 .. Len(request.argv) /\ copy_user_string(request.argv[argc + 1])
      BY <1>1, <1>2
    <3> QED
      BY <1>2, <3>1 DEF copy_user_string
  <2>4. envc' = envc + 1 => request.envp[envc + 1] \in 0 .. MAX_STRING - 1
    <3>1. envc' = envc + 1 => envc + 1 \in 1 .. Len(request.envp) /\ copy_user_string(request.envp[envc + 1])
      BY <1>1, <1>2
    <3> QED
      BY <1>2, <3>1 DEF copy_user_string
  <2>5. /\ \A i \in 1 .. argc' : request.argv[i] \in 0 .. MAX_STRING - 1
        /\ \A i \in 1 .. envc' : request.envp[i] \in 0 .. MAX_STRING - 1
    BY <2>1, <2>2, <2>3, <2>4 DEF Base, Copied
  <2> QED
    BY <1>1, <1>2, <2>5 DEF Base, Copied
<1>5. StackPlace' /\ MappedInsideUser'
  BY <1>1 DEF Base, StackPlace, MappedInsideUser, Pushing
<1> QED
  BY <1>3, <1>4, <1>5 DEF Base

(* Finding the program maps nothing. *)
LEMMA ProgramBase ==
    ASSUME Base, load_program
    PROVE  Base'
<1>1. CASE Fail
  BY <1>1, FailBase DEF load_program, Base, Typed, Pushing
<1>2. CASE at' = "segments" /\ UNCHANGED mem
  BY <1>2 DEF load_program, Base, Typed, Copied, MappedInsideUser, StackPlace, Phases, Pushing
<1> QED
  BY <1>1, <1>2 DEF load_program

(* The pages of a segment that is valid lie in the user half. *)
LEMMA SegmentInside ==
    ASSUME Base, segment < Len(request.segments), segment_is_valid(request.segments[segment + 1])
    PROVE  Bytes(Pages(request.segments[segment + 1].p_vaddr, request.segments[segment + 1].p_memsz))
               \subseteq USER_IMAGE_MIN .. XBKS_USER_TOP - 1
<1> DEFINE s == request.segments[segment + 1]
<1>1. segment \in Nat /\ Len(request.segments) \in Nat
  BY RequestsAssumption DEF Base, Typed
<1>2. s \in Headers
  BY <1>1, HeaderFields
<1>3. s.p_vaddr \in Nat /\ s.p_memsz \in Nat
  BY <1>2 DEF Headers
<1>4. USER_IMAGE_MIN <= s.p_vaddr /\ (s.p_vaddr + s.p_memsz) % SPACE <= XBKS_USER_TOP
  BY <1>3, LayoutAssumption DEF segment_is_valid
<1> QED
  BY <1>3, <1>4, PagesInside, LayoutAssumption

(* Mapping a segment that is valid, and filling it. *)
LEMMA SegmentBase ==
    ASSUME Base, load_elf_into_process
    PROVE  Base'
<1> DEFINE s == request.segments[segment + 1]
           pages == Pages(s.p_vaddr, s.p_memsz)
           data == source_bytes(s)
<1>1. /\ at = "segments" /\ UNCHANGED <<request, argc, envc, stack, addresses, words>>
      /\ segment' \in Nat /\ segment' <= Len(request.segments)
  <2>1. segment \in Nat /\ segment <= Len(request.segments) /\ Len(request.segments) \in Nat
    BY RequestsAssumption DEF Base, Typed
  <2>2. segment' = segment \/ (segment' = segment + 1 /\ segment < Len(request.segments))
    BY DEF load_elf_into_process
  <2> QED
    BY <2>1, <2>2 DEF load_elf_into_process
<1>2. CASE Fail
  BY <1>1, <1>2, FailBase DEF Pushing
<1>3. CASE at' \in {"segments", "stack"} /\ UNCHANGED mem
  BY <1>1, <1>3 DEF Base, Typed, Copied, MappedInsideUser, StackPlace, Phases, Pushing
<1>4. CASE /\ segment < Len(request.segments) /\ segment_is_valid(s) /\ at' = at
           /\ mem' = write_process_memory(map_user_range(pages), s.p_vaddr, data)
  <2>3. DOMAIN mem' = DOMAIN mem \cup Bytes(pages) /\ mem' = [a \in DOMAIN mem' |-> mem'[a]]
    BY <1>4 DEF write_process_memory, map_user_range
  <2>4. MappedInsideUser'
    BY <1>4, <2>3, SegmentInside DEF Base, MappedInsideUser
  <2> QED
    BY <1>1, <1>4, <2>3, <2>4 DEF Base, Typed, Copied, StackPlace, Phases, Pushing
<1>5. CASE /\ segment < Len(request.segments) /\ segment_is_valid(s) /\ at' = "faulted"
           /\ mem' = map_user_range(pages)
  <2>1. DOMAIN mem' = DOMAIN mem \cup Bytes(pages) /\ mem' = [a \in DOMAIN mem' |-> mem'[a]]
    BY <1>5 DEF map_user_range
  <2>2. MappedInsideUser'
    BY <1>5, <2>1, SegmentInside DEF Base, MappedInsideUser
  <2> QED
    BY <1>1, <1>5, <2>1, <2>2 DEF Base, Typed, Copied, StackPlace, Phases, Pushing
<1> QED
  BY <1>1, <1>2, <1>3, <1>4, <1>5 DEF load_elf_into_process

(* The pages of the stack are those of its range. *)
LEMMA StackPages ==
    Bytes(Pages(XBKS_USER_STACK_TOP - XBKS_USER_STACK_SIZE, XBKS_USER_STACK_SIZE)) = StackBase .. XBKS_USER_STACK_TOP - 1
<1> DEFINE pages == Pages(StackBase, XBKS_USER_STACK_SIZE)
<1>1. StackBase + XBKS_USER_STACK_SIZE = XBKS_USER_STACK_TOP /\ XBKS_USER_STACK_SIZE \in Nat
  BY LayoutAssumption DEF StackBase
<1>2. XBKS_USER_STACK_TOP % SPACE = XBKS_USER_STACK_TOP /\ XBKS_USER_STACK_TOP + XBKS_PAGE_SIZE <= SPACE
  BY LayoutAssumption
<1>3. StackBase % XBKS_PAGE_SIZE = 0
  <2> DEFINE P == XBKS_PAGE_SIZE
             q == XBKS_USER_STACK_TOP \div P
             r == XBKS_USER_STACK_SIZE \div P
  <2>1. P \in Nat \ {0} /\ XBKS_USER_STACK_TOP % P = 0 /\ XBKS_USER_STACK_SIZE % P = 0
    BY LayoutAssumption
  <2>2. q \in Int /\ r \in Int /\ XBKS_USER_STACK_TOP = P * q /\ XBKS_USER_STACK_SIZE = P * r
    BY <1>1, <2>1, Layout, Z3
  <2> HIDE DEF q, r
  <2>3. StackBase = P * (q - r)
    BY <2>1, <2>2 DEF StackBase
  <2>4. (P * (q - r)) % P = 0
    BY <2>1, <2>2, Z3
  <2> QED
    BY <2>3, <2>4
<1>4. Bytes(pages) \subseteq StackBase .. XBKS_USER_STACK_TOP - 1
  <2>1. /\ StackBase \in Nat /\ XBKS_USER_STACK_TOP \in Nat /\ XBKS_USER_STACK_TOP % XBKS_PAGE_SIZE = 0
        /\ StackBase <= StackBase /\ (StackBase + XBKS_USER_STACK_SIZE) % SPACE <= XBKS_USER_STACK_TOP
    BY <1>1, <1>2, Layout, LayoutAssumption
  <2> QED
    BY <1>1, <1>2, <1>3, <2>1, PagesInside
<1>5. StackBase .. XBKS_USER_STACK_TOP - 1 \subseteq Bytes(pages)
  <2>1. StackBase \in Nat /\ StackBase + XBKS_USER_STACK_SIZE + XBKS_PAGE_SIZE <= SPACE
    BY <1>1, <1>2, Layout
  <2>2. StackBase .. StackBase + XBKS_USER_STACK_SIZE - 1 \subseteq Bytes(pages)
    BY <1>1, <2>1, PagesCover
  <2>3. StackBase + XBKS_USER_STACK_SIZE - 1 = XBKS_USER_STACK_TOP - 1
    BY <1>1, <2>1
  <2> QED
    BY <2>2, <2>3
<1> QED
  BY <1>4, <1>5 DEF StackBase

(* What a stack that is mapped leaves as it was. *)
LEMMA StackMapped ==
    ASSUME Base, build_user_stack, ~Fail
    PROVE  /\ at = "stack" /\ at' = "strings" /\ DOMAIN mem \cap (StackBase .. XBKS_USER_STACK_TOP - 1) = {}
           /\ DOMAIN mem' = DOMAIN mem \cup (StackBase .. XBKS_USER_STACK_TOP - 1)
           /\ mem' = [a \in DOMAIN mem' |-> mem'[a]] /\ \A a \in DOMAIN mem : mem'[a] = mem[a]
BY StackPages DEF build_user_stack, can_map, map_user_range

(* The stack is mapped whole before anything is pushed. *)
LEMMA StackMapBase ==
    ASSUME Base, build_user_stack
    PROVE  Base'
<1>1. at = "stack" /\ UNCHANGED <<request, argc, envc, segment, stack, addresses, words>>
  BY DEF build_user_stack
<1>2. CASE Fail
  BY <1>1, <1>2, FailBase DEF Pushing, Base, Typed
<1>3. CASE ~Fail
  <2>1. /\ at' = "strings" /\ DOMAIN mem' = DOMAIN mem \cup (StackBase .. XBKS_USER_STACK_TOP - 1)
        /\ mem' = [a \in DOMAIN mem' |-> mem'[a]]
    BY <1>3, StackMapped
  <2>2. MappedInsideUser'
    BY <2>1, Layout DEF Base, MappedInsideUser
  <2>3. Typed' /\ Copied'
    BY <1>1, <2>1 DEF Base, Typed, Copied, Phases, Pushing
  <2>4. /\ stack = XBKS_USER_STACK_TOP /\ addresses = <<>> /\ words = 0
        /\ argc \in Nat /\ envc \in Nat
    BY <1>1 DEF Base, Typed, StackPlace, Pushing
  <2>5. Len(addresses) = 0 /\ 0 * MAX_STRING = 0 /\ 0 <= argc + envc
    BY <2>4, Layout
  <2>6. StackPlace'
    BY <1>1, <2>1, <2>4, <2>5, Layout DEF StackPlace, Pushing
  <2> QED
    BY <2>2, <2>3, <2>6 DEF Base
<1> QED
  BY <1>2, <1>3

(* Counters, and how many strings there are at most. *)
LEMMA Scalars ==
    ASSUME Base
    PROVE  /\ argc \in Nat /\ envc \in Nat /\ stack \in Nat /\ words \in Nat /\ addresses \in Seq(Nat)
           /\ at \in Pushing => argc + envc <= Most
<1>1. /\ argc \in Nat /\ envc \in Nat /\ stack \in Nat /\ words \in Nat /\ addresses \in Seq(Nat)
  BY DEF Base, Typed
<1>2. at \in Pushing => argc <= MAX_ARGS - 2 /\ envc <= MAX_ENV - 2
  BY DEF Base, Copied, Pushing
<1> QED
  BY <1>1, <1>2, ArgumentsAssumption DEF Most

(* A string goes below those before it, and the floor is far enough below. *)
LEMMA StringBase ==
    ASSUME Base, push_string
    PROVE  Base'
<1> DEFINE n == Len(addresses) + 1
           size == Length(n) + 1
<1>1. /\ n \in 1 .. argc + envc /\ size \in Nat \ {0} /\ size <= MAX_STRING
      /\ StackBase + size <= stack /\ at = "strings" /\ push_bytes(size, StringData(n))
  BY StringStep
<1> HIDE DEF size
<1>2. DOMAIN StringData(n) = 0 .. size - 1
  <2>1. Length(n) \in Nat
    BY <1>1, Lengths
  <2> QED
    BY <2>1 DEF StringData, size
<1>3. /\ stack' = stack - size /\ at' = at
      /\ DOMAIN mem' = DOMAIN mem /\ mem' = [a \in DOMAIN mem' |-> mem'[a]]
  BY <1>1, <1>2, PushWorks
<1>4. UNCHANGED <<request, argc, envc, segment, words>> /\ addresses' = Append(addresses, stack')
  BY DEF push_string
<1>5. stack \in Nat /\ stack' \in Nat /\ stack' <= stack /\ size <= stack
  BY <1>1, <1>3, Layout, Scalars
<1>6. addresses \in Seq(Nat) /\ addresses' \in Seq(Nat) /\ Len(addresses') = n
  BY <1>4, <1>5 DEF Base, Typed
<1>7. Typed' /\ Copied' /\ MappedInsideUser'
  BY <1>1, <1>3, <1>4, <1>5, <1>6 DEF Base, Typed, Copied, MappedInsideUser, Phases, Pushing
<1>8. XBKS_USER_STACK_TOP <= stack' + Len(addresses') * MAX_STRING
  <2>1. XBKS_USER_STACK_TOP <= stack + Len(addresses) * MAX_STRING /\ Len(addresses) \in Nat
    BY <1>1, <1>6 DEF Base, StackPlace
  <2>2. Len(addresses) < Most
    <3>1. argc \in Nat /\ envc \in Nat /\ argc + envc <= Most
      BY <1>1, Scalars DEF Pushing
    <3> QED
      BY <1>1, <2>1, <3>1, Layout
  <2>3. \A m \in Nat : m <= MAX_STRING /\ m <= stack =>
            XBKS_USER_STACK_TOP <= (stack - m) + (Len(addresses) + 1) * MAX_STRING
    BY <1>5, <2>1, <2>2, RoomForString
  <2> QED
    BY <1>1, <1>3, <1>5, <1>6, <2>3
<1>9. StackPlace'
  <2>1. stack <= XBKS_USER_STACK_TOP /\ StackBase .. XBKS_USER_STACK_TOP - 1 \subseteq DOMAIN mem /\ words = 0
    BY <1>1 DEF Base, StackPlace, Pushing
  <2>2. stack' <= XBKS_USER_STACK_TOP /\ Len(addresses') <= argc' + envc'
    BY <1>1, <1>4, <1>5, <1>6, <2>1, Layout DEF Base, Typed
  <2> QED
    BY <1>1, <1>3, <1>4, <1>8, <2>1, <2>2 DEF StackPlace, Pushing
<1> QED
  BY <1>7, <1>9 DEF Base

(* Aligning the stack stays above the floor. *)
LEMMA AlignBase ==
    ASSUME Base, align_stack
    PROVE  Base' /\ stack' <= stack
<1>1. /\ at = "strings" /\ Len(addresses) = argc + envc /\ at' = "words"
      /\ stack' = align_down(stack, 2 * WORD)
      /\ UNCHANGED <<request, argc, envc, mem, segment, addresses, words>>
  BY DEF align_stack
<1>2. /\ stack \in Nat /\ argc \in Nat /\ envc \in Nat /\ words = 0 /\ stack <= XBKS_USER_STACK_TOP
      /\ XBKS_USER_STACK_TOP <= stack + Len(addresses) * MAX_STRING
      /\ Len(addresses) \in Nat /\ StackBase .. XBKS_USER_STACK_TOP - 1 \subseteq DOMAIN mem
  BY <1>1 DEF Base, Typed, StackPlace, Pushing
<1>3. argc + envc <= Most
  BY <1>1, Scalars DEF Pushing
<1>4. stack' \in Nat /\ stack' <= stack /\ Floor <= stack'
  BY <1>1, <1>2, <1>3, AlignedFloor
<1>5. Typed' /\ Copied' /\ MappedInsideUser'
  BY <1>1, <1>4 DEF Base, Typed, Copied, MappedInsideUser, Phases, Pushing
<1>6. StackPlace'
  <2>1. words' = 0 /\ stack' + 0 * WORD = stack' /\ words' <= argc' + envc' + 3 /\ stack' <= XBKS_USER_STACK_TOP
    BY <1>1, <1>2, <1>4, Layout
  <2> QED
    BY <1>1, <1>2, <1>4, <2>1 DEF StackPlace, Pushing
<1> QED
  BY <1>4, <1>5, <1>6 DEF Base

(* A word goes below the floor by its own size, no more. *)
LEMMA WordBase ==
    ASSUME Base, push_u64
    PROVE  Base'
<1>1. /\ at = "words" /\ words + 1 \in 1 .. argc + envc + 3 /\ WORD \in Nat \ {0}
      /\ StackBase + WORD <= stack /\ Floor <= (stack - WORD) + (words + 1) * WORD
      /\ push_bytes(WORD, WordData(words + 1))
  BY WordStep
<1>2. DOMAIN WordData(words + 1) = 0 .. WORD - 1
  BY DEF WordData
<1>3. /\ stack' = stack - WORD /\ at' = at
      /\ DOMAIN mem' = DOMAIN mem /\ mem' = [a \in DOMAIN mem' |-> mem'[a]]
  BY <1>1, <1>2, PushWorks
<1>4. UNCHANGED <<request, argc, envc, segment, addresses>> /\ words' = words + 1
  BY DEF push_u64
<1>5. stack \in Nat /\ stack' \in Nat /\ stack' <= stack /\ words \in Nat
  <2>1. StackBase + WORD <= stack /\ stack' = stack - WORD
    BY <1>1, <1>3
  <2>2. StackBase \in Nat /\ WORD \in Nat /\ stack \in Nat /\ words \in Nat
    BY Layout, Scalars
  <2> QED
    BY <2>1, <2>2
<1>6. Typed' /\ Copied' /\ MappedInsideUser'
  <2>1. words' \in Nat
    BY <1>4, <1>5
  <2> QED
    BY <1>1, <1>3, <1>4, <1>5, <2>1 DEF Base, Typed, Copied, MappedInsideUser
<1>7. StackPlace'
  <2>1. /\ stack <= XBKS_USER_STACK_TOP /\ StackBase .. XBKS_USER_STACK_TOP - 1 \subseteq DOMAIN mem
        /\ Len(addresses) = argc + envc
    BY <1>1 DEF Base, StackPlace, Pushing
  <2>2. stack' <= XBKS_USER_STACK_TOP /\ words' <= argc' + envc' + 3 /\ Floor <= stack' + words' * WORD
    BY <1>1, <1>3, <1>4, <1>5, <2>1, Layout
  <2> QED
    BY <1>1, <1>3, <1>4, <2>1, <2>2 DEF StackPlace, Pushing
<1> QED
  BY <1>6, <1>7 DEF Base

(* Starting the program changes no memory. *)
LEMMA StartBase ==
    ASSUME Base, syscall_execve
    PROVE  Base'
BY DEF Base, Typed, Copied, MappedInsideUser, StackPlace, Phases, Pushing, syscall_execve

(* Base is inductive. *)
LEMMA BaseInit ==
    ASSUME Init
    PROVE  Base
<1>1. request \in Requests /\ request.argv \in Seq(Nat \cup {Outside}) /\ request.envp \in Seq(Nat \cup {Outside})
  BY RequestsAssumption DEF Init
<1>2. request.segments \in Seq(Headers)
  BY <1>1, RequestsAssumption DEF Headers
<1>3. Len(request.argv) \in Nat /\ Len(request.envp) \in Nat /\ Len(request.segments) \in Nat
  BY <1>1, <1>2
<1>4. Typed
  <2>1. mem = [a \in DOMAIN mem |-> mem[a]]
    BY DEF Init, Nothing
  <2>2. addresses \in Seq(Nat) /\ stack \in Nat /\ words \in Nat
    BY Layout DEF Init
  <2> QED
    BY <1>1, <1>3, <2>1, <2>2, ArgumentsAssumption DEF Init, Typed, Phases
<1>5. Copied /\ StackPlace
  BY DEF Init, Copied, StackPlace, Pushing
<1>6. MappedInsideUser
  BY DEF Init, Nothing, MappedInsideUser
<1> QED
  BY <1>4, <1>5, <1>6 DEF Base

(* Every step preserves Base. *)
LEMMA BaseStep ==
    ASSUME Base, [Next]_vars
    PROVE  Base'
<1>1. CASE UNCHANGED vars
  BY <1>1 DEF vars, Base, Typed, Copied, MappedInsideUser, StackPlace
<1>2. CASE copy_argv \/ copy_envp
  BY <1>2, CopyBase
<1>3. CASE load_program
  BY <1>3, ProgramBase
<1>4. CASE load_elf_into_process
  BY <1>4, SegmentBase
<1>5. CASE build_user_stack
  BY <1>5, StackMapBase
<1>6. CASE push_string
  BY <1>6, StringBase
<1>7. CASE align_stack
  BY <1>7, AlignBase
<1>8. CASE push_u64
  BY <1>8, WordBase
<1>9. CASE syscall_execve
  BY <1>9, StartBase
<1> QED
  BY <1>1, <1>2, <1>3, <1>4, <1>5, <1>6, <1>7, <1>8, <1>9 DEF Next

(* No program file, whatever its headers say, and no arguments make a load  *)
(* map a page outside the user half (load_elf_into_process, map_user_range, *)
(* build_user_stack).                                                       *)
THEOREM MappedInsideUserCorrect == Spec => []MappedInsideUser
<1>1. Init => Base
  BY BaseInit
<1>2. Base /\ [Next]_vars => Base'
  BY BaseStep
<1>3. Base => MappedInsideUser
  BY DEF Base
<1> QED
  BY <1>1, <1>2, <1>3, PTL DEF Spec

-----------------------------------------------------------------------------
(* What the new space holds.                                               *)

NoneWraps == \A i \in DOMAIN request.segments : request.segments[i].p_type = 1 => ~WrapsImage(request.segments[i])

(* The segments that are loaded have passed the check of their end in the  *)
(* file and are in place, none of them on the stack.                       *)
InPlace(i) ==
    LET s == request.segments[i]
    IN  s.p_type = 1 =>
            /\ (s.p_offset + s.p_filesz) % SPACE <= request.size
            /\ \A k \in 0 .. s.p_memsz - 1 :
                   /\ s.p_vaddr + k \in DOMAIN mem
                   /\ mem[s.p_vaddr + k] = IF k < s.p_filesz THEN source_byte(request.size, (s.p_offset + k) % SPACE) ELSE Zero
                   /\ at \in Pushing => s.p_vaddr + k \notin StackBase .. XBKS_USER_STACK_TOP - 1
Loading == {"argv", "envp", "program", "segments", "stack"} \cup Pushing
Placed ==
    at \in Loading =>
        /\ NoneWraps => \A i \in 1 .. segment : InPlace(i)
        /\ at \in {"argv", "envp", "program"} => segment = 0
        /\ at \in {"stack"} \cup Pushing => segment = Len(request.segments)

(* The strings are on the stack, above the words; so are the words. *)
StringsPushed ==
    at \in Pushing =>
        \A n \in 1 .. Len(addresses) :
            /\ StackBase <= addresses[n] /\ stack + words * WORD <= addresses[n]
            /\ addresses[n] + Length(n) < XBKS_USER_STACK_TOP
            /\ IsString(addresses[n], Kind(n), Number(n), Length(n))
Place(top, count, j) == top + WORD * (count - j)
WordsPushed ==
    at \in {"words", "started"} =>
        \A j \in 1 .. words : IsWord(Place(stack, words, j), Word(j))

Content == Placed /\ StringsPushed /\ WordsPushed

(* Steps before the segments. *)
LEMMA EarlyContent ==
    ASSUME Base, Content, copy_argv \/ copy_envp \/ load_program
    PROVE  Content'
<1>1. /\ at \in {"argv", "envp", "program"} /\ UNCHANGED <<request, segment>>
      /\ at' \in {"argv", "envp", "program", "segments", "EFAULT", "ENOEXEC"}
  BY DEF copy_argv, copy_envp, CopyNext, load_program, Fail
<1>2. segment = 0
  BY <1>1 DEF Content, Placed, Loading
<1>3. Placed'
  BY <1>1, <1>2 DEF Placed, Pushing
<1>4. StringsPushed' /\ WordsPushed'
  BY <1>1 DEF StringsPushed, WordsPushed, Pushing
<1> QED
  BY <1>3, <1>4 DEF Content

(* The bytes of a segment that is valid and does not wrap around are mapped. *)
LEMMA SegmentMapped ==
    ASSUME Base, NEW s \in Headers, segment_is_valid(s), ~WrapsImage(s)
    PROVE  \A k \in 0 .. s.p_memsz - 1 : s.p_vaddr + k \in Bytes(Pages(s.p_vaddr, s.p_memsz))
<1>1. s.p_vaddr \in Nat /\ s.p_memsz \in Nat
  BY DEF Headers
<1>2. (s.p_vaddr + s.p_memsz) % SPACE = s.p_vaddr + s.p_memsz
  BY <1>1, LayoutAssumption DEF WrapsImage
<1>3. s.p_vaddr + s.p_memsz + XBKS_PAGE_SIZE <= SPACE
  BY <1>1, <1>2, LayoutAssumption DEF segment_is_valid
<1>4. s.p_vaddr .. s.p_vaddr + s.p_memsz - 1 \subseteq Bytes(Pages(s.p_vaddr, s.p_memsz))
  BY <1>1, <1>3, PagesCover
<1> QED
  BY <1>1, <1>4

(* A segment is filled, and those before it keep their bytes: its pages are *)
(* all new.                                                                 *)
LEMMA SegmentContent ==
    ASSUME Base, Content, load_elf_into_process
    PROVE  Content'
<1> DEFINE s == request.segments[segment + 1]
           pages == Pages(s.p_vaddr, s.p_memsz)
           data == source_bytes(s)
<1>1. /\ at = "segments" /\ at' \in {"segments", "stack", "ENOEXEC", "faulted"} /\ request' = request
      /\ at' = "stack" => segment = Len(request.segments) /\ UNCHANGED <<mem, segment>>
  BY DEF load_elf_into_process, Fail
<1>2. StringsPushed' /\ WordsPushed'
  BY <1>1 DEF StringsPushed, WordsPushed, Pushing
<1>3. CASE at' \in {"ENOEXEC", "faulted"}
  BY <1>2, <1>3 DEF Content, Placed, Loading, Pushing
<1>4. CASE at' = "stack"
  <2>1. Placed'
    BY <1>1, <1>4 DEF Content, Placed, NoneWraps, InPlace, Loading, Pushing
  <2> QED
    BY <1>2, <2>1 DEF Content
<1>5. CASE at' = "segments"
  <2>1. segment < Len(request.segments) /\ segment' = segment + 1
    BY <1>1, <1>5 DEF load_elf_into_process, Fail
  <2>2. segment \in Nat /\ Len(request.segments) \in Nat
    BY RequestsAssumption DEF Base, Typed
  <2>3. segment + 1 \in 1 .. Len(request.segments) /\ s \in Headers
    BY <2>1, <2>2, HeaderFields
  <2>4. \/ s.p_type # 1 /\ mem' = mem
        \/ /\ s.p_type = 1 /\ segment_is_valid(s) /\ can_map(pages)
           /\ mem' = write_process_memory(map_user_range(pages), s.p_vaddr, data)
    BY <1>1, <1>5 DEF load_elf_into_process, Fail
  <2>5. \A a \in DOMAIN mem : a \in DOMAIN mem'
    BY <2>4 DEF write_process_memory, map_user_range
  <2> SUFFICES ASSUME NoneWraps, NEW i \in 1 .. segment + 1 PROVE InPlace(i)'
    BY <1>1, <1>2, <1>5, <2>1 DEF Content, Placed, NoneWraps, Pushing
  <2>6. s.p_type = 1 => ~WrapsImage(s)
    <3>1. DOMAIN request.segments = 1 .. Len(request.segments)
      BY RequestsAssumption DEF Base, Typed
    <3> QED
      BY <2>3, <3>1 DEF NoneWraps
  <2>7. CASE s.p_type # 1 /\ mem' = mem
    <3>1. CASE i = segment + 1
      BY <1>1, <2>7, <3>1 DEF InPlace
    <3>2. CASE i # segment + 1
      <4>1. InPlace(i)
        BY <1>1, <2>2, <3>2 DEF Content, Placed, Loading
      <4> QED
        BY <1>1, <1>5, <2>7, <4>1 DEF InPlace, Pushing
    <3> QED
      BY <3>1, <3>2
  <2>8. CASE s.p_type = 1 /\ segment_is_valid(s) /\ can_map(pages)
             /\ mem' = write_process_memory(map_user_range(pages), s.p_vaddr, data)
    <3>1. /\ s.p_vaddr \in Nat /\ s.p_memsz \in Nat /\ s.p_filesz \in Nat /\ s.p_filesz <= s.p_memsz
      BY <2>3, <2>8 DEF Headers, segment_is_valid
    <3>2. /\ DOMAIN mem' = DOMAIN mem \cup Bytes(pages)
          /\ \A a \in DOMAIN mem' : mem'[a] = IF a - s.p_vaddr \in 0 .. s.p_filesz - 1 THEN data[a - s.p_vaddr]
                                              ELSE IF a \in Bytes(pages) THEN Zero ELSE mem[a]
      BY <2>8 DEF write_process_memory, map_user_range, source_bytes
    <3>3. \A k \in 0 .. s.p_memsz - 1 : s.p_vaddr + k \in Bytes(pages)
      BY <2>3, <2>6, <2>8, SegmentMapped
    <3>4. CASE i = segment + 1
      <4> SUFFICES ASSUME NEW k \in 0 .. s.p_memsz - 1
                   PROVE  /\ s.p_vaddr + k \in DOMAIN mem'
                          /\ mem'[s.p_vaddr + k] = IF k < s.p_filesz THEN source_byte(request.size, (s.p_offset + k) % SPACE) ELSE Zero
        BY <1>1, <1>5, <2>8, <3>4 DEF InPlace, Pushing, segment_is_valid
      <4>1. s.p_vaddr + k \in Bytes(pages) /\ (s.p_vaddr + k) - s.p_vaddr = k /\ k \in Nat
        BY <3>1, <3>3
      <4>2. k < s.p_filesz <=> k \in 0 .. s.p_filesz - 1
        BY <3>1, <4>1
      <4>3. k < s.p_filesz => data[k] = source_byte(request.size, (s.p_offset + k) % SPACE)
        BY <4>2 DEF source_bytes
      <4> QED
        BY <3>2, <4>1, <4>2, <4>3
    <3>5. CASE i # segment + 1
      <4> DEFINE t == request.segments[i]
      <4>1. InPlace(i)
        BY <1>1, <2>2, <3>5 DEF Content, Placed, Loading
      <4>2. ASSUME NEW a \in DOMAIN mem PROVE mem'[a] = mem[a]
        <5>1. a \notin Bytes(pages) /\ a \in DOMAIN mem' /\ a \in Nat
          BY <2>8, <3>2, <4>2, Layout DEF can_map, Base, MappedInsideUser
        <5>2. a - s.p_vaddr \notin 0 .. s.p_filesz - 1
          <6>1. ASSUME a - s.p_vaddr \in 0 .. s.p_filesz - 1 PROVE FALSE
            <7>1. a - s.p_vaddr \in 0 .. s.p_memsz - 1 /\ s.p_vaddr + (a - s.p_vaddr) = a
              BY <3>1, <5>1, <6>1
            <7> QED
              BY <3>3, <5>1, <7>1
          <6> QED
            BY <6>1
        <5> QED
          BY <3>2, <5>1, <5>2
      <4> QED
        BY <1>1, <1>5, <2>5, <4>1, <4>2 DEF InPlace, Pushing
    <3> QED
      BY <3>4, <3>5
  <2> QED
    BY <2>4, <2>7, <2>8
<1> QED
  BY <1>1, <1>3, <1>4, <1>5

(* IsString and IsWord of a memory. *)
StringIn(m, a, kind, i, length) ==
    /\ a + length \in DOMAIN m /\ m[a + length] = Zero
    /\ \A k \in 0 .. length - 1 : m[a + k] = <<kind, i, k>>
WordIn(m, a, value) == \A k \in 0 .. WORD - 1 : a + k \in DOMAIN m /\ m[a + k] = <<"word", value, k>>

(* What lies above a write stays. *)
LEMMA KeepsString ==
    ASSUME NEW m, NEW m2, NEW top \in Nat, DOMAIN m2 = DOMAIN m,
           \A a \in DOMAIN m : a >= top => m2[a] = m[a],
           NEW a \in Nat, a >= top, NEW length \in Nat, a .. a + length \subseteq DOMAIN m,
           NEW kind, NEW i, StringIn(m, a, kind, i, length)
    PROVE  StringIn(m2, a, kind, i, length)
<1>1. a + length \in DOMAIN m /\ a + length >= top
  OBVIOUS
<1>2. \A k \in 0 .. length - 1 : a + k \in DOMAIN m /\ a + k >= top
  OBVIOUS
<1> QED
  BY <1>1, <1>2 DEF StringIn

(* The same of a word. *)
LEMMA KeepsWord ==
    ASSUME NEW m, NEW m2, NEW top \in Nat, DOMAIN m2 = DOMAIN m,
           \A a \in DOMAIN m : a >= top => m2[a] = m[a],
           NEW a \in Nat, a >= top, NEW value, WordIn(m, a, value)
    PROVE  WordIn(m2, a, value)
<1>1. \A k \in 0 .. WORD - 1 : a + k >= top
  BY Layout
<1> QED
  BY <1>1 DEF WordIn

(* Mapping the stack changes no byte of a segment, and shares none. *)
LEMMA StackMapContent ==
    ASSUME Base, Content, build_user_stack
    PROVE  Content'
<1>1. at = "stack" /\ UNCHANGED <<request, argc, envc, segment, stack, addresses, words>>
  BY DEF build_user_stack
<1>2. CASE Fail
  BY <1>2 DEF Content, Placed, StringsPushed, WordsPushed, Fail, Loading, Pushing
<1>3. CASE ~Fail
  <2>1. /\ at' = "strings" /\ DOMAIN mem \cap (StackBase .. XBKS_USER_STACK_TOP - 1) = {}
        /\ DOMAIN mem' = DOMAIN mem \cup (StackBase .. XBKS_USER_STACK_TOP - 1)
        /\ \A a \in DOMAIN mem : mem'[a] = mem[a]
    BY <1>3, StackMapped
  <2>2. ASSUME NEW i, InPlace(i) PROVE InPlace(i)'
    BY <1>1, <2>1, <2>2 DEF InPlace
  <2>3. segment = Len(request.segments) /\ (NoneWraps => \A i \in 1 .. segment : InPlace(i))
    BY <1>1 DEF Content, Placed, Loading
  <2>4. Placed'
    BY <1>1, <2>1, <2>2, <2>3 DEF Placed, NoneWraps
  <2>5. addresses = <<>>
    BY <1>1 DEF Base, StackPlace, Pushing
  <2>6. StringsPushed' /\ WordsPushed'
    <3>1. Len(addresses') = 0
      BY <1>1, <2>5
    <3> QED
      BY <2>1, <3>1 DEF StringsPushed, WordsPushed
  <2> QED
    BY <2>4, <2>6 DEF Content
<1> QED
  BY <1>2, <1>3

(* A push changes no byte of a segment. *)
LEMMA PushPlaced ==
    ASSUME Base, Content, at \in {"strings", "words"}, at' = at, UNCHANGED <<request, segment>>,
           NEW size \in Nat \ {0}, StackBase + size <= stack, DOMAIN mem' = DOMAIN mem,
           \A a \in DOMAIN mem : a \in Nat /\ (a \notin stack - size .. stack - 1 => mem'[a] = mem[a])
    PROVE  Placed'
<1>1. stack \in Nat /\ stack <= XBKS_USER_STACK_TOP
  BY Scalars DEF Base, StackPlace, Pushing
<1>2. \A a \in DOMAIN mem : a \notin StackBase .. XBKS_USER_STACK_TOP - 1 => mem'[a] = mem[a]
  <2>1. stack - size .. stack - 1 \subseteq StackBase .. XBKS_USER_STACK_TOP - 1
    BY <1>1, Layout
  <2> QED
    BY <2>1
<1>3. ASSUME NEW i, InPlace(i) PROVE InPlace(i)'
  BY <1>2, <1>3 DEF InPlace, Pushing
<1> QED
  BY <1>3 DEF Content, Placed, NoneWraps, Loading, Pushing

(* Each string is on the stack once it is pushed, below those before it. *)
LEMMA StringContent ==
    ASSUME Base, Content, push_string
    PROVE  Content'
<1> DEFINE new == Len(addresses) + 1
           size == Length(new) + 1
<1>1. /\ new \in 1 .. argc + envc /\ size \in Nat \ {0}
      /\ StackBase + size <= stack /\ at = "strings" /\ push_bytes(size, StringData(new))
  BY StringStep
<1>2. Length(new) \in Nat /\ size = Length(new) + 1
  BY <1>1, Lengths
<1> HIDE DEF size
<1>3. DOMAIN StringData(new) = 0 .. size - 1
  BY <1>2 DEF StringData
<1>4. /\ stack' = stack - size /\ at' = at /\ DOMAIN mem' = DOMAIN mem
      /\ \A a \in DOMAIN mem : a \in Nat
      /\ \A a \in DOMAIN mem : a \notin stack - size .. stack - 1 => mem'[a] = mem[a]
      /\ \A k \in 0 .. size - 1 : stack - size + k \in DOMAIN mem /\ mem'[stack - size + k] = StringData(new)[k]
  BY <1>1, <1>3, PushWorks
<1>5. UNCHANGED <<request, argc, envc, segment, words>> /\ addresses' = Append(addresses, stack')
  BY DEF push_string
<1>6. /\ stack \in Nat /\ stack <= XBKS_USER_STACK_TOP /\ words = 0 /\ addresses \in Seq(Nat)
      /\ StackBase .. XBKS_USER_STACK_TOP - 1 \subseteq DOMAIN mem
      /\ Len(addresses) \in Nat /\ 0 * WORD = 0 /\ argc \in Nat /\ envc \in Nat
  BY <1>1, Scalars, Layout DEF Base, StackPlace, Pushing
<1>7. Placed'
  BY <1>1, <1>4, <1>5, PushPlaced
<1>8. stack' \in Nat /\ StackBase <= stack' /\ stack' + Length(new) = stack - 1 /\ stack' < stack
  <2>1. stack' = stack - size /\ StackBase + size <= stack /\ size \in Nat /\ size > 0
    BY <1>1, <1>4
  <2>2. stack \in Nat /\ StackBase \in Nat
    BY <1>6, Layout
  <2> QED
    BY <1>2, <2>1, <2>2
<1>9. Len(addresses') = new /\ addresses'[new] = stack' /\ \A n \in 1 .. Len(addresses) : addresses'[n] = addresses[n]
  BY <1>5, <1>6, <1>8
<1>10. ASSUME NEW n PROVE Length(n)' = Length(n) /\ Kind(n)' = Kind(n) /\ Number(n)' = Number(n)
  BY <1>5 DEF Length, Kind, Number, Order
<1>11. StringsPushed'
  <2> SUFFICES ASSUME NEW n \in 1 .. new
               PROVE  /\ StackBase <= addresses'[n] /\ stack' + 0 * WORD <= addresses'[n]
                      /\ addresses'[n] + Length(n) < XBKS_USER_STACK_TOP
                      /\ StringIn(mem', addresses'[n], Kind(n), Number(n), Length(n))
    <3>1. words' * WORD = 0 * WORD
      BY <1>5, <1>6
    <3>2. \A n \in 1 .. Len(addresses') :
              /\ StackBase <= addresses'[n] /\ stack' + words' * WORD <= addresses'[n]
              /\ addresses'[n] + Length(n)' < XBKS_USER_STACK_TOP
              /\ StringIn(mem', addresses'[n], Kind(n)', Number(n)', Length(n)')
      BY <1>9, <1>10, <3>1
    <3> QED
      BY <3>2 DEF StringsPushed, IsString, StringIn
  <2>1. CASE n = new
    <3>1. StringIn(mem', stack', Kind(new), Number(new), Length(new))
      <4>1. \A k \in 0 .. Length(new) : stack' + k \in DOMAIN mem' /\ mem'[stack' + k] = StringData(new)[k]
        BY <1>2, <1>4
      <4>2. /\ StringData(new)[Length(new)] = Zero
            /\ \A k \in 0 .. Length(new) - 1 : StringData(new)[k] = <<Kind(new), Number(new), k>>
        BY <1>2 DEF StringData
      <4>3. Length(new) \in 0 .. Length(new) /\ \A k \in 0 .. Length(new) - 1 : k \in 0 .. Length(new)
        BY <1>2
      <4> QED
        BY <4>1, <4>2, <4>3 DEF StringIn
    <3> QED
      BY <1>6, <1>8, <1>9, <2>1, <3>1, Layout
  <2>2. CASE n # new
    <3>1. n \in 1 .. Len(addresses) /\ addresses[n] \in Nat
      BY <1>6, <2>2
    <3>2. /\ StackBase <= addresses[n] /\ stack + words * WORD <= addresses[n]
          /\ addresses[n] + Length(n) < XBKS_USER_STACK_TOP
          /\ StringIn(mem, addresses[n], Kind(n), Number(n), Length(n))
      BY <1>1, <3>1 DEF Content, StringsPushed, IsString, StringIn, Pushing
    <3>3. Length(n) \in Nat
      <4>1. n \in 1 .. argc + envc
        BY <1>1, <1>6, <3>1
      <4> QED
        BY <4>1, Lengths
    <3>4. stack <= addresses[n]
      BY <1>6, <3>2
    <3>5. addresses[n] .. addresses[n] + Length(n) \subseteq DOMAIN mem
      BY <1>6, <3>1, <3>2, <3>3, Layout
    <3>6. \A a \in DOMAIN mem : a >= stack => mem'[a] = mem[a]
      BY <1>4, <1>6
    <3>7. StringIn(mem', addresses[n], Kind(n), Number(n), Length(n))
      BY <1>4, <1>6, <3>1, <3>2, <3>3, <3>4, <3>5, <3>6, KeepsString
    <3> QED
      BY <1>6, <1>8, <1>9, <3>1, <3>2, <3>4, <3>7
  <2> QED
    BY <2>1, <2>2
<1>12. WordsPushed'
  BY <1>1, <1>4 DEF WordsPushed
<1> QED
  BY <1>7, <1>11, <1>12 DEF Content

(* Aligning the stack keeps what is on it. *)
LEMMA AlignContent ==
    ASSUME Base, Content, align_stack
    PROVE  Content'
<1>1. /\ at = "strings" /\ at' = "words"
      /\ UNCHANGED <<request, argc, envc, mem, segment, addresses, words>>
  BY DEF align_stack
<1>2. words = 0 /\ stack \in Nat /\ stack' \in Nat /\ stack' <= stack /\ addresses \in Seq(Nat)
  <2>1. Base' /\ stack' <= stack
    BY AlignBase
  <2>2. stack' \in Nat
    BY <2>1 DEF Base, Typed
  <2> QED
    BY <1>1, <2>1, <2>2, Scalars DEF Base, StackPlace
<1>3. Placed'
  BY <1>1 DEF Content, Placed, NoneWraps, InPlace, Loading, Pushing
<1>4. StringsPushed'
  <2> SUFFICES ASSUME NEW n \in 1 .. Len(addresses)
               PROVE  /\ StackBase <= addresses[n] /\ stack' + words * WORD <= addresses[n]
                      /\ addresses[n] + Length(n) < XBKS_USER_STACK_TOP
                      /\ IsString(addresses[n], Kind(n), Number(n), Length(n))
    BY <1>1 DEF StringsPushed, IsString, Length, Kind, Number, Order
  <2>1. /\ StackBase <= addresses[n] /\ stack + words * WORD <= addresses[n]
        /\ addresses[n] + Length(n) < XBKS_USER_STACK_TOP
        /\ IsString(addresses[n], Kind(n), Number(n), Length(n))
    BY <1>1 DEF Content, StringsPushed, Pushing
  <2>2. words * WORD = 0 /\ addresses[n] \in Nat
    BY <1>2, Layout
  <2> QED
    BY <1>2, <2>1, <2>2
<1>5. WordsPushed'
  <2>1. 1 .. words' = {}
    BY <1>1, <1>2
  <2> QED
    BY <2>1 DEF WordsPushed
<1> QED
  BY <1>3, <1>4, <1>5 DEF Content

(* The words move one place up with each push. *)
LEMMA Places ==
    ASSUME NEW w \in Nat, NEW top \in Nat, NEW down \in Nat, down = top - WORD
    PROVE  /\ Place(down, w + 1, w + 1) = down
           /\ \A j \in 1 .. w : /\ Place(down, w + 1, j) = Place(top, w, j)
                               /\ Place(top, w, j) \in Nat /\ Place(top, w, j) >= top
<1>1. WORD \in Nat /\ (w + 1) - (w + 1) = 0 /\ WORD * 0 = 0 /\ down + 0 = down
  BY Layout
<1>2. ASSUME NEW j \in 1 .. w
      PROVE  /\ Place(down, w + 1, j) = Place(top, w, j)
             /\ Place(top, w, j) \in Nat /\ Place(top, w, j) >= top
  <2>1. w - j \in Nat /\ w + 1 - j = (w - j) + 1
    OBVIOUS
  <2>2. WORD * ((w - j) + 1) = WORD * (w - j) + WORD /\ WORD * (w - j) \in Nat
    BY <1>1, <2>1
  <2> QED
    BY <1>1, <2>1, <2>2 DEF Place
<1> QED
  BY <1>1, <1>2 DEF Place

(* Each word is on the stack once it is pushed; the strings above it stay. *)
LEMMA WordContent ==
    ASSUME Base, Content, push_u64
    PROVE  Content'
<1> DEFINE new == words + 1
<1>1. /\ at = "words" /\ new \in 1 .. argc + envc + 3 /\ WORD \in Nat \ {0}
      /\ StackBase + WORD <= stack /\ push_bytes(WORD, WordData(new))
  BY WordStep
<1>2. DOMAIN WordData(new) = 0 .. WORD - 1
  BY DEF WordData
<1>3. /\ stack' = stack - WORD /\ at' = at /\ DOMAIN mem' = DOMAIN mem
      /\ \A a \in DOMAIN mem : a \in Nat
      /\ \A a \in DOMAIN mem : a \notin stack - WORD .. stack - 1 => mem'[a] = mem[a]
      /\ \A k \in 0 .. WORD - 1 : stack - WORD + k \in DOMAIN mem /\ mem'[stack - WORD + k] = WordData(new)[k]
  BY <1>1, <1>2, PushWorks
<1>4. UNCHANGED <<request, argc, envc, segment, addresses>> /\ words' = new
  BY DEF push_u64
<1>5. /\ stack \in Nat /\ stack <= XBKS_USER_STACK_TOP /\ words \in Nat /\ addresses \in Seq(Nat)
      /\ StackBase .. XBKS_USER_STACK_TOP - 1 \subseteq DOMAIN mem
      /\ argc \in Nat /\ envc \in Nat /\ Len(addresses) = argc + envc
  BY <1>1, Scalars DEF Base, StackPlace, Pushing
<1>6. stack' \in Nat /\ StackBase <= stack' /\ stack' < stack /\ WORD <= stack
  <2>1. WORD \in Nat /\ WORD > 0 /\ StackBase \in Nat
    BY Layout
  <2> QED
    BY <1>1, <1>3, <1>5, <2>1
<1>7. \A a \in DOMAIN mem : a >= stack => mem'[a] = mem[a]
  BY <1>3, <1>5
<1>8. Placed'
  BY <1>1, <1>3, <1>4, PushPlaced
<1>9. StringsPushed'
  <2> SUFFICES ASSUME NEW n \in 1 .. Len(addresses)
               PROVE  /\ StackBase <= addresses[n] /\ stack' + new * WORD <= addresses[n]
                      /\ addresses[n] + Length(n) < XBKS_USER_STACK_TOP
                      /\ StringIn(mem', addresses[n], Kind(n), Number(n), Length(n))
    BY <1>4 DEF StringsPushed, IsString, StringIn, Length, Kind, Number, Order
  <2>1. /\ StackBase <= addresses[n] /\ stack + words * WORD <= addresses[n]
        /\ addresses[n] + Length(n) < XBKS_USER_STACK_TOP
        /\ StringIn(mem, addresses[n], Kind(n), Number(n), Length(n))
    BY <1>1 DEF Content, StringsPushed, IsString, StringIn, Pushing
  <2>2. addresses[n] \in Nat /\ Length(n) \in Nat
    <3>1. n \in 1 .. argc + envc
      BY <1>5
    <3> QED
      BY <1>5, <3>1, Lengths
  <2>3. words * WORD \in Nat /\ new * WORD = words * WORD + WORD
    BY <1>5, Layout
  <2>4. stack <= addresses[n]
    BY <1>5, <2>1, <2>2, <2>3
  <2>5. stack' + new * WORD <= addresses[n]
    <3>1. stack' = stack - WORD /\ WORD \in Nat /\ stack \in Nat
      BY <1>3, <1>5, Layout
    <3> HIDE DEF new
    <3> QED
      BY <2>1, <2>2, <2>3, <3>1
  <2>6. addresses[n] .. addresses[n] + Length(n) \subseteq DOMAIN mem
    BY <1>5, <2>1, <2>2, Layout
  <2>7. StringIn(mem', addresses[n], Kind(n), Number(n), Length(n))
    BY <1>3, <1>5, <1>7, <2>1, <2>2, <2>4, <2>6, KeepsString
  <2> QED
    BY <2>1, <2>5, <2>7
<1>10. /\ Place(stack', new, new) = stack'
       /\ \A j \in 1 .. words : /\ Place(stack', new, j) = Place(stack, words, j)
                               /\ Place(stack, words, j) \in Nat /\ Place(stack, words, j) >= stack
  <2>1. words \in Nat /\ stack \in Nat /\ stack' \in Nat /\ stack' = stack - WORD
    BY <1>3, <1>5, <1>6
  <2> QED
    BY <2>1, Places
<1>11. WordsPushed'
  <2>1. ASSUME NEW j PROVE Word(j)' = Word(j)
    BY <1>4 DEF Word
  <2> SUFFICES ASSUME NEW j \in 1 .. new PROVE WordIn(mem', Place(stack', new, j), Word(j))
    BY <1>4, <2>1 DEF WordsPushed, IsWord, WordIn, Place
  <2>2. CASE j = new
    <3>1. WordIn(mem', stack', Word(new))
      BY <1>3 DEF WordIn, WordData
    <3> QED
      BY <1>10, <2>2, <3>1
  <2>3. CASE j # new
    <3>1. j \in 1 .. words
      BY <1>5, <2>3
    <3>2. WordIn(mem, Place(stack, words, j), Word(j))
      BY <1>1, <3>1 DEF Content, WordsPushed, IsWord, WordIn
    <3>3. WordIn(mem', Place(stack, words, j), Word(j))
      BY <1>3, <1>5, <1>7, <1>10, <3>1, <3>2, KeepsWord
    <3> QED
      BY <1>10, <3>1, <3>3
  <2> QED
    BY <2>2, <2>3
<1> QED
  BY <1>8, <1>9, <1>11 DEF Content

(* Starting the program keeps what was built. *)
LEMMA StartContent ==
    ASSUME Base, Content, syscall_execve
    PROVE  Content'
<1>1. at = "words" /\ at' = "started" /\ UNCHANGED <<request, argc, envc, mem, segment, stack, addresses, words>>
  BY DEF syscall_execve
<1>2. Placed'
  BY <1>1 DEF Content, Placed, NoneWraps, InPlace, Loading, Pushing
<1>3. StringsPushed'
  BY <1>1 DEF Content, StringsPushed, IsString, Length, Kind, Number, Order, Pushing
<1>4. WordsPushed'
  BY <1>1 DEF Content, WordsPushed, IsWord, Word, Place
<1> QED
  BY <1>2, <1>3, <1>4 DEF Content

-----------------------------------------------------------------------------
(* The theorems.                                                           *)

LoaderInv == Base /\ Content

(* The invariant holds of a load that has not begun. *)
LEMMA LoaderInvInit ==
    ASSUME Init
    PROVE  LoaderInv
<1>1. Placed
  BY DEF Init, Placed, Pushing
<1>2. StringsPushed /\ WordsPushed
  BY DEF Init, StringsPushed, WordsPushed, Pushing
<1> QED
  BY <1>1, <1>2, BaseInit DEF LoaderInv, Content

(* Every step preserves it. *)
LEMMA LoaderInvStep ==
    ASSUME LoaderInv, [Next]_vars
    PROVE  LoaderInv'
<1> USE DEF LoaderInv
<1>1. Base'
  BY BaseStep
<1>2. CASE UNCHANGED vars
  <2>1. Placed'
    BY <1>2 DEF vars, Content, Placed, NoneWraps, InPlace
  <2>2. StringsPushed'
    BY <1>2 DEF vars, Content, StringsPushed, IsString, Length, Kind, Number, Order
  <2>3. WordsPushed'
    BY <1>2 DEF vars, Content, WordsPushed, IsWord, Word, Place
  <2> QED
    BY <1>1, <2>1, <2>2, <2>3 DEF Content
<1>3. CASE copy_argv \/ copy_envp \/ load_program
  BY <1>1, <1>3, EarlyContent
<1>4. CASE load_elf_into_process
  BY <1>1, <1>4, SegmentContent
<1>5. CASE build_user_stack
  BY <1>1, <1>5, StackMapContent
<1>6. CASE push_string
  BY <1>1, <1>6, StringContent
<1>7. CASE align_stack
  BY <1>1, <1>7, AlignContent
<1>8. CASE push_u64
  BY <1>1, <1>8, WordContent
<1>9. CASE syscall_execve
  BY <1>1, <1>9, StartContent
<1> QED
  BY <1>2, <1>3, <1>4, <1>5, <1>6, <1>7, <1>8, <1>9 DEF Next

(* A number below the modulus is its own remainder. *)
LEMMA BelowModulus ==
    ASSUME NEW x \in Nat, NEW n \in Nat, x < n
    PROVE  x % n = x
OBVIOUS

(* A segment that passed the check and does not wrap around in the file     *)
(* takes its bytes from inside the file.                                    *)
LEMMA BytesOfFile ==
    ASSUME NEW size \in Nat, NEW s \in Headers, ~WrapsFile(s), (s.p_offset + s.p_filesz) % SPACE <= size
    PROVE  /\ FileRange(s) \subseteq 0 .. size - 1
           /\ \A k \in 0 .. s.p_filesz - 1 :
                  source_byte(size, (s.p_offset + k) % SPACE) = <<"file", s.p_offset + k, 0>>
<1>1. s.p_offset \in Nat /\ s.p_filesz \in Nat /\ SPACE \in Nat
  BY LayoutAssumption DEF Headers
<1>2. s.p_offset + s.p_filesz < SPACE
  BY <1>1 DEF WrapsFile
<1>3. s.p_offset + s.p_filesz <= size
  BY <1>1, <1>2
<1>4. FileRange(s) \subseteq 0 .. size - 1
  BY <1>1, <1>3 DEF FileRange
<1>5. ASSUME NEW k \in 0 .. s.p_filesz - 1
      PROVE  source_byte(size, (s.p_offset + k) % SPACE) = <<"file", s.p_offset + k, 0>>
  <2>1. (s.p_offset + k) % SPACE = s.p_offset + k
    <3>1. s.p_offset + k \in Nat /\ s.p_offset + k < SPACE
      BY <1>1, <1>2
    <3> QED
      BY <1>1, <3>1, BelowModulus
  <2>2. s.p_offset + k < size
    BY <1>1, <1>3
  <2> QED
    BY <2>1, <2>2 DEF source_byte
<1> QED
  BY <1>4, <1>5

(* A program none of whose segments wraps around the address space starts   *)
(* with every segment in place whose end in the file does not wrap around:  *)
(* bytes inside the file, then zeros, for any number of segments of any     *)
(* size (load_elf_into_process).                                            *)
THEOREM ImageLoadedCorrect == Spec => []ImageLoaded
<1>1. Init => LoaderInv
  BY LoaderInvInit
<1>2. LoaderInv /\ [Next]_vars => LoaderInv'
  BY LoaderInvStep
<1>3. LoaderInv => ImageLoaded
  <2> DEFINE s(i) == request.segments[i]
  <2> SUFFICES ASSUME LoaderInv, at = "started", NoneWraps,
                      NEW i \in DOMAIN request.segments, s(i).p_type = 1, ~WrapsFile(s(i))
               PROVE  /\ FileRange(s(i)) \subseteq 0 .. request.size - 1
                      /\ \A k \in 0 .. s(i).p_memsz - 1 :
                             mem[s(i).p_vaddr + k] = IF k < s(i).p_filesz THEN <<"file", s(i).p_offset + k, 0>> ELSE Zero
    BY DEF ImageLoaded, NoneWraps
  <2>1. DOMAIN request.segments = 1 .. Len(request.segments) /\ request.size \in Nat
    BY RequestsAssumption DEF LoaderInv, Base, Typed
  <2>2. segment = Len(request.segments) /\ \A j \in 1 .. segment : InPlace(j)
    BY DEF LoaderInv, Content, Placed, Loading, Pushing
  <2>3. InPlace(i)
    BY <2>1, <2>2
  <2>4. s(i) \in Headers
    BY <2>1, HeaderFields DEF LoaderInv
  <2>5. (s(i).p_offset + s(i).p_filesz) % SPACE <= request.size
    BY <2>3 DEF InPlace
  <2>6. FileRange(s(i)) \subseteq 0 .. request.size - 1
    BY <2>1, <2>4, <2>5, BytesOfFile
  <2>7. ASSUME NEW k \in 0 .. s(i).p_memsz - 1
        PROVE  mem[s(i).p_vaddr + k] = IF k < s(i).p_filesz THEN <<"file", s(i).p_offset + k, 0>> ELSE Zero
    <3>1. mem[s(i).p_vaddr + k] = IF k < s(i).p_filesz THEN source_byte(request.size, (s(i).p_offset + k) % SPACE) ELSE Zero
      BY <2>3, <2>7 DEF InPlace
    <3>2. k < s(i).p_filesz => k \in 0 .. s(i).p_filesz - 1
      BY <2>4, <2>7 DEF Headers
    <3>3. k < s(i).p_filesz => source_byte(request.size, (s(i).p_offset + k) % SPACE) = <<"file", s(i).p_offset + k, 0>>
      BY <2>1, <2>4, <2>5, <3>2, BytesOfFile
    <3> QED
      BY <3>1, <3>3
  <2> QED
    BY <2>6, <2>7
<1> QED
  BY <1>1, <1>2, <1>3, PTL DEF Spec

(* The word p places above the stack pointer of a program that starts. *)
LEMMA WordAt ==
    ASSUME LoaderInv, at = "started", NEW p \in 0 .. argc + envc + 2
    PROVE  IsWord(stack + WORD * p, Word(argc + envc + 3 - p))
<1>1. argc \in Nat /\ envc \in Nat /\ words = argc + envc + 3
  BY Scalars DEF LoaderInv, Base, StackPlace
<1>2. argc + envc + 3 - p \in 1 .. words /\ words - (argc + envc + 3 - p) = p
  BY <1>1
<1>3. \A j \in 1 .. words : IsWord(stack + WORD * (words - j), Word(j))
  BY DEF LoaderInv, Content, WordsPushed, Place
<1> DEFINE j == argc + envc + 3 - p
<1>4. IsWord(stack + WORD * (words - j), Word(j))
  BY <1>2, <1>3
<1> QED
  BY <1>2, <1>4

(* What is in each place. *)
LEMMA WordValues ==
    ASSUME argc \in Nat, envc \in Nat
    PROVE  /\ Word(argc + envc + 3) = argc /\ Word(envc + 2) = 0 /\ Word(1) = 0
           /\ \A j \in 2 .. envc + 1 : Word(j) = addresses[j - 1]
           /\ \A j \in envc + 3 .. envc + argc + 2 : Word(j) = addresses[j - 2]
BY DEF Word

(* The places of argv. *)
LEMMA PlacesOfArgv ==
    ASSUME NEW a \in Nat, NEW e \in Nat
    PROVE  /\ a + e + 3 - 0 = a + e + 3 /\ a + e + 3 - (1 + a) = e + 2
           /\ \A i \in 1 .. a : /\ a + e + 1 - i \in 1 .. a + e /\ a + e + 1 - (a + e + 1 - i) = i
                               /\ a + e + 3 - (1 + i - 1) \in e + 3 .. e + a + 2
                               /\ a + e + 3 - (1 + i - 1) - 2 = a + e + 1 - i
OBVIOUS

(* The places of envp. *)
LEMMA PlacesOfEnvp ==
    ASSUME NEW a \in Nat, NEW e \in Nat
    PROVE  /\ a + e + 3 - (a + 2 + e) = 1
           /\ \A i \in 1 .. e : /\ e + 1 - i \in 1 .. a + e /\ a + e + 1 - (e + 1 - i) = a + i
                               /\ a + i > a /\ (a + i) - a = i
                               /\ a + e + 3 - (a + 2 + i - 1) \in 2 .. e + 1
                               /\ a + e + 3 - (a + 2 + i - 1) - 1 = e + 1 - i
OBVIOUS

(* The string behind an address. *)
LEMMA StringAt ==
    ASSUME LoaderInv, at = "started", NEW n \in 1 .. argc + envc
    PROVE  addresses[n] \in DOMAIN mem /\ IsString(addresses[n], Kind(n), Number(n), Length(n))
<1>1. /\ Len(addresses) = argc + envc /\ addresses \in Seq(Nat)
      /\ StackBase .. XBKS_USER_STACK_TOP - 1 \subseteq DOMAIN mem
  BY Scalars DEF LoaderInv, Base, StackPlace, Pushing
<1>2. /\ StackBase <= addresses[n] /\ addresses[n] + Length(n) < XBKS_USER_STACK_TOP
      /\ IsString(addresses[n], Kind(n), Number(n), Length(n))
  BY <1>1 DEF LoaderInv, Content, StringsPushed, Pushing
<1>3. Length(n) \in Nat /\ addresses[n] \in Nat
  BY <1>1, Lengths DEF LoaderInv
<1> QED
  BY <1>1, <1>2, <1>3, Layout

(* The array of pointers that starts q places above the stack pointer. *)
LEMMA ArrayAt ==
    ASSUME NEW strings, NEW kind, NEW q \in Nat, LoaderInv, at = "started",
           DOMAIN strings = 1 .. Len(strings), Len(strings) \in Nat, q + Len(strings) <= argc + envc + 2,
           \A i \in 1 .. Len(strings) :
               \E n \in 1 .. argc + envc :
                   /\ Word(argc + envc + 3 - (q + i - 1)) = addresses[n]
                   /\ Kind(n) = kind /\ Number(n) = i /\ Length(n) = strings[i],
           Word(argc + envc + 3 - (q + Len(strings))) = 0
    PROVE  Holds(stack + WORD * q, kind, strings)
<1>1. argc \in Nat /\ envc \in Nat /\ stack \in Nat /\ WORD \in Nat
  BY Scalars, Layout DEF LoaderInv
<1>2. \A k \in Nat : (stack + WORD * q) + WORD * k = stack + WORD * (q + k)
  BY <1>1
<1>3. ASSUME NEW i \in 1 .. Len(strings)
      PROVE  \E p \in DOMAIN mem : IsWord((stack + WORD * q) + WORD * (i - 1), p) /\ IsString(p, kind, i, strings[i])
  <2>1. PICK n \in 1 .. argc + envc : /\ Word(argc + envc + 3 - (q + i - 1)) = addresses[n]
                                      /\ Kind(n) = kind /\ Number(n) = i /\ Length(n) = strings[i]
    OBVIOUS
  <2>2. addresses[n] \in DOMAIN mem /\ IsString(addresses[n], kind, i, strings[i])
    BY <2>1, StringAt
  <2>3. q + i - 1 \in 0 .. argc + envc + 2 /\ i - 1 \in Nat /\ q + (i - 1) = q + i - 1
    BY <1>1
  <2>4. IsWord(stack + WORD * (q + i - 1), addresses[n])
    BY <2>1, <2>3, WordAt
  <2>5. (stack + WORD * q) + WORD * (i - 1) = stack + WORD * (q + i - 1)
    BY <1>2, <2>3
  <2> QED
    BY <2>2, <2>4, <2>5
<1>4. IsWord((stack + WORD * q) + WORD * Len(strings), 0)
  <2>1. q + Len(strings) \in 0 .. argc + envc + 2
    BY <1>1
  <2>2. IsWord(stack + WORD * (q + Len(strings)), 0)
    BY <2>1, WordAt
  <2> QED
    BY <1>2, <2>2
<1> QED
  BY <1>3, <1>4 DEF Holds

(* Every program that starts finds all its arguments and its environment, *)
(* and a load never runs out of stack (build_user_stack).                 *)
THEOREM StackHoldsArgumentsCorrect == Spec => []StackHoldsArguments
<1>1. Init => LoaderInv
  BY LoaderInvInit
<1>2. LoaderInv /\ [Next]_vars => LoaderInv'
  BY LoaderInvStep
<1>3. LoaderInv => StackHoldsArguments
  <2> SUFFICES ASSUME LoaderInv PROVE StackHoldsArguments
    OBVIOUS
  <2>1. argc < MAX_ARGS /\ envc < MAX_ENV /\ (at = "ENOEXEC" => stack = XBKS_USER_STACK_TOP)
    BY DEF LoaderInv, Base, Typed, StackPlace, Pushing
  <2>2. ASSUME at = "started"
        PROVE  /\ IsWord(stack, Len(request.argv))
               /\ Holds(stack + WORD, "argv", request.argv)
               /\ Holds(stack + WORD * (Len(request.argv) + 2), "envp", request.envp)
    <3>1. argc \in Nat /\ envc \in Nat /\ stack \in Nat /\ WORD \in Nat
      BY Scalars, Layout DEF LoaderInv
    <3>2. /\ argc = Len(request.argv) /\ envc = Len(request.envp)
          /\ DOMAIN request.argv = 1 .. argc /\ DOMAIN request.envp = 1 .. envc
      BY <2>2, RequestsAssumption DEF LoaderInv, Base, Typed, Copied
    <3>3. IsWord(stack, argc)
      <4>1. Word(argc + envc + 3 - 0) = argc
        BY <3>1, WordValues, PlacesOfArgv
      <4>2. IsWord(stack + WORD * 0, argc)
        <5>1. 0 \in 0 .. argc + envc + 2
          BY <3>1
        <5> QED
          BY <2>2, <4>1, <5>1, WordAt
      <4>3. stack + WORD * 0 = stack
        BY <3>1
      <4> QED
        BY <4>2, <4>3
    <3>4. Holds(stack + WORD * 1, "argv", request.argv)
      <4>1. ASSUME NEW i \in 1 .. argc
            PROVE  \E n \in 1 .. argc + envc :
                       /\ Word(argc + envc + 3 - (1 + i - 1)) = addresses[n]
                       /\ Kind(n) = "argv" /\ Number(n) = i /\ Length(n) = request.argv[i]
        <5> DEFINE n == argc + envc + 1 - i
        <5>1. n \in 1 .. argc + envc /\ Order(n) = i /\ ~(i > argc)
          BY <3>1, PlacesOfArgv DEF Order
        <5>2. Word(argc + envc + 3 - (1 + i - 1)) = addresses[n]
          <6>1. argc + envc + 3 - (1 + i - 1) \in envc + 3 .. envc + argc + 2 /\ argc + envc + 3 - (1 + i - 1) - 2 = n
            BY <3>1, PlacesOfArgv
          <6> QED
            BY <3>1, <6>1, WordValues
        <5>3. Kind(n) = "argv" /\ Number(n) = i /\ Length(n) = request.argv[i]
          BY <5>1 DEF Kind, Number, Length
        <5> QED
          BY <5>1, <5>2, <5>3
      <4>2. Word(argc + envc + 3 - (1 + argc)) = 0
        BY <3>1, WordValues, PlacesOfArgv
      <4>3. 1 \in Nat /\ 1 + argc <= argc + envc + 2
        BY <3>1
      <4> QED
        BY <2>2, <3>1, <3>2, <4>1, <4>2, <4>3, ArrayAt
    <3>5. Holds(stack + WORD * (argc + 2), "envp", request.envp)
      <4>1. ASSUME NEW i \in 1 .. envc
            PROVE  \E n \in 1 .. argc + envc :
                       /\ Word(argc + envc + 3 - (argc + 2 + i - 1)) = addresses[n]
                       /\ Kind(n) = "envp" /\ Number(n) = i /\ Length(n) = request.envp[i]
        <5> DEFINE n == envc + 1 - i
        <5>1. n \in 1 .. argc + envc /\ Order(n) = argc + i /\ argc + i > argc /\ (argc + i) - argc = i
          BY <3>1, PlacesOfEnvp DEF Order
        <5>2. Word(argc + envc + 3 - (argc + 2 + i - 1)) = addresses[n]
          <6>1. argc + envc + 3 - (argc + 2 + i - 1) \in 2 .. envc + 1 /\ argc + envc + 3 - (argc + 2 + i - 1) - 1 = n
            BY <3>1, PlacesOfEnvp
          <6> QED
            BY <3>1, <6>1, WordValues
        <5>3. Kind(n) = "envp" /\ Number(n) = i /\ Length(n) = request.envp[i]
          BY <5>1 DEF Kind, Number, Length
        <5> QED
          BY <5>1, <5>2, <5>3
      <4>2. Word(argc + envc + 3 - (argc + 2 + envc)) = 0
        BY <3>1, WordValues, PlacesOfEnvp
      <4>3. argc + 2 \in Nat /\ argc + 2 + envc <= argc + envc + 2
        BY <3>1
      <4> QED
        BY <2>2, <3>1, <3>2, <4>1, <4>2, <4>3, ArrayAt
    <3>6. stack + WORD * 1 = stack + WORD
      BY <3>1
    <3> QED
      BY <3>2, <3>3, <3>4, <3>5, <3>6
  <2> QED
    BY <2>1, <2>2 DEF StackHoldsArguments
<1> QED
  BY <1>1, <1>2, <1>3, PTL DEF Spec
=============================================================================
