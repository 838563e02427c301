------------------------------- MODULE Format -------------------------------
(***************************************************************************)
(* The kernel's formatted output (lib/format.c): one call of xbks_snprintf *)
(* with a buffer of `capacity' bytes, a directive of the format at a time. *)
(* A character is a string of one letter or NUL.  An argument is a pointer *)
(* to a text, [text], Null for the null pointer, or what a 64-bit register *)
(* holds, [reg], of which a directive for an int reads the lower part.     *)
(* `printed' records what each directive put out, found room or not.       *)
(***************************************************************************)
EXTENDS Integers, Sequences, SequencesExt

CONSTANTS
    Calls,      \* [fmt, args]: formats with arguments of the types they ask for
    Capacities,
    INT,        \* values of an int, 2^32
    LONG,       \* values of a long, of a long long and of a size_t, 2^64
    NUL, Null,
    Old         \* what a byte of the buffer held before

VARIABLES
    call, capacity,
    i,          \* of the format
    used,       \* number of arguments taken
    sink,       \* [buffer, length]; one byte after the buffer is kept in view
    printed,    \* sequence of [what, wide, arg, text], history
    at,         \* "format", "end", "return"
    written     \* the value returned

vars == <<call, capacity, i, used, sink, printed, at, written>>

INT_MAX == INT \div 2 - 1

-----------------------------------------------------------------------------
(* The sink.                                                               *)

(* Mutant: the last byte counts from one. *)
has_room_Past(length) == capacity # 0 /\ length <= capacity
has_room(length) == capacity # 0 /\ length + 1 < capacity

sink_putc(s, ch) ==
    [buffer |-> IF has_room(s.length) THEN [s.buffer EXCEPT ![s.length] = ch] ELSE s.buffer,
     length |-> s.length + 1]

sink_write(s, text) == FoldLeft(sink_putc, s, text)

alphabet(uppercase) ==
    <<"0", "1", "2", "3", "4", "5", "6", "7", "8", "9">>
        \o (IF uppercase THEN <<"A", "B", "C", "D", "E", "F">> ELSE <<"a", "b", "c", "d", "e", "f">>)

(* The digits are found from the last and put out from the first. *)
digits(base, uppercase) ==
    LET d[v \in Nat] == IF v = 0 THEN << >> ELSE Append(d[v \div base], alphabet(uppercase)[(v % base) + 1]) IN d

unsigned(value, base, uppercase) == IF value = 0 THEN <<"0">> ELSE digits(base, uppercase)[value]

(* Mutant: the one taken off before the sign is turned is not put back. *)
magnitude_Short(value) == IF value < 0 THEN -(value + 1) ELSE value
magnitude(value) == IF value < 0 THEN (-(value + 1) + 1) % LONG ELSE value

signed(value) == (IF value < 0 THEN <<"-">> ELSE << >>) \o unsigned(magnitude(value), 10, FALSE)

-----------------------------------------------------------------------------
(* The directives.                                                         *)

(* va_arg: of the register, the bits of the type asked for. *)
AsUnsigned(v, wide) == v % (IF wide THEN LONG ELSE INT)
AsSigned(v, wide) ==
    LET m == IF wide THEN LONG ELSE INT IN IF v % m >= m \div 2 THEN (v % m) - m ELSE v % m

(* (char)value; four characters stand for the 256. *)
AsChar(v) == <<NUL, "a", "b", "c">>[(v % 4) + 1]

TakesArgument == {"s", "c", "d", "i", "u", "x", "X", "p"}

converted(what, wide, arg) ==
    CASE what = "%" -> <<"%">>
      [] what = "s" -> IF arg.text = Null THEN <<"(", "n", "u", "l", "l", ")">> ELSE arg.text
      [] what = "c" -> <<AsChar(arg.reg)>>
      [] what \in {"d", "i"} -> signed(AsSigned(arg.reg, wide))
      [] what = "u" -> unsigned(AsUnsigned(arg.reg, wide), 10, FALSE)
      [] what \in {"x", "X"} -> unsigned(AsUnsigned(arg.reg, wide), 16, what = "X")
      [] what = "p" -> <<"0", "x">> \o unsigned(AsUnsigned(arg.reg, TRUE), 16, FALSE)
      [] OTHER -> <<"%", what>>

Emit(what, wide, arg, text) ==
    /\ sink' = sink_write(sink, text)
    /\ printed' = Append(printed, [what |-> what, wide |-> wide, arg |-> arg, text |-> text])

fmt(j) == IF j <= Len(call.fmt) THEN call.fmt[j] ELSE NUL

(* The letters l, ll or z before a conversion. *)
modifiers(j) ==
    CASE fmt(j) = "l" -> IF fmt(j + 1) = "l" THEN 2 ELSE 1
      [] fmt(j) = "z" -> 1
      [] OTHER -> 0

plain_char ==
    /\ at = "format" /\ fmt(i) \notin {NUL, "%"}
    /\ Emit("plain", FALSE, Null, <<fmt(i)>>)
    /\ i' = i + 1
    /\ UNCHANGED <<call, capacity, used, at, written>>

lone_percent ==
    /\ at = "format" /\ fmt(i) = "%" /\ fmt(i + 1) = NUL
    /\ Emit("plain", FALSE, Null, <<"%">>)
    /\ at' = "end"
    /\ UNCHANGED <<call, capacity, i, used, written>>

conversion ==
    /\ at = "format" /\ fmt(i) = "%" /\ fmt(i + 1) # NUL
    /\ LET m == modifiers(i + 1)
           what == fmt(i + 1 + m)
           takes == what \in TakesArgument
           arg == IF takes THEN call.args[used + 1] ELSE Null
       IN  /\ Emit(what, m # 0, arg, converted(what, m # 0, arg))
           /\ used' = IF takes THEN used + 1 ELSE used
           /\ i' = i + 1 + m + 1
    /\ UNCHANGED <<call, capacity, at, written>>

format_ends ==
    /\ at = "format" /\ fmt(i) = NUL
    /\ at' = "end"
    /\ UNCHANGED <<call, capacity, i, used, sink, printed, written>>

(* Mutant: a text too long is ended after the buffer. *)
terminator_After(length) == IF length < capacity THEN length ELSE capacity
terminator(length) == IF length < capacity THEN length ELSE capacity - 1

(* Mutant: the length is returned as it is. *)
length_returned_Whole(length) == length
length_returned(length) == IF length > INT_MAX THEN INT_MAX ELSE length

xbks_snprintf_returns ==
    /\ at = "end"
    /\ sink' = IF capacity = 0 THEN sink ELSE [sink EXCEPT !.buffer[terminator(sink.length)] = NUL]
    /\ written' = length_returned(sink.length)
    /\ at' = "return"
    /\ UNCHANGED <<call, capacity, i, used, printed>>

Init ==
    /\ call \in Calls /\ capacity \in Capacities
    /\ i = 1 /\ used = 0 /\ at = "format" /\ written = 0 /\ printed = << >>
    /\ sink = [buffer |-> [b \in 0 .. capacity |-> Old], length |-> 0]

Next == plain_char \/ lone_percent \/ conversion \/ format_ends \/ xbks_snprintf_returns

Spec == Init /\ [][Next]_vars

-----------------------------------------------------------------------------
(* Properties.                                                             *)

Text == FlattenSeq([k \in 1 .. Len(printed) |-> printed[k].text])

(* xbks_snprintf leaves the longest prefix of the text that fits, ended,   *)
(* writes no byte after the buffer (none at all into a buffer of no bytes) *)
(* and returns the length the text would have had.                         *)
BufferHoldsPrefix ==
    at = "return" =>
        LET kept == IF Len(Text) < capacity THEN Len(Text) ELSE capacity - 1 IN
        /\ written = IF Len(Text) > INT_MAX THEN INT_MAX ELSE Len(Text)
        /\ \A b \in 0 .. capacity :
               sink.buffer[b] = IF b = capacity \/ b > kept THEN Old ELSE IF b = kept THEN NUL ELSE Text[b + 1]

(* The number a text of digits stands for. *)
Digit(ch) == CHOOSE k \in 0 .. 15 : ch \in {alphabet(TRUE)[k + 1], alphabet(FALSE)[k + 1]}
Number(text, base) == FoldLeft(LAMBDA n, ch : base * n + Digit(ch), 0, text)
(* It has a digit, and starts with no zero unless it is zero. *)
Numeral(text) == text # << >> /\ (text[1] = "0" => Len(text) = 1)

ReadsBack(p) ==
    CASE p.what \in {"d", "i"} ->
             LET value == AsSigned(p.arg.reg, p.wide)
                 negative == p.text[1] = "-"
                 rest == IF negative THEN Tail(p.text) ELSE p.text
             IN  Numeral(rest) /\ value = (IF negative THEN -Number(rest, 10) ELSE Number(rest, 10))
      [] p.what = "u" -> Numeral(p.text) /\ Number(p.text, 10) = AsUnsigned(p.arg.reg, p.wide)
      [] p.what \in {"x", "X"} -> Numeral(p.text) /\ Number(p.text, 16) = AsUnsigned(p.arg.reg, p.wide)
      [] p.what = "p" -> Number(Tail(Tail(p.text)), 16) = p.arg.reg
      [] OTHER -> TRUE

(* A printed number reads back as the argument, the least int and the      *)
(* least long included.                                                    *)
NumbersReadBack == \A k \in DOMAIN printed : ReadsBack(printed[k])
=============================================================================
