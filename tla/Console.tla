------------------------------ MODULE Console ------------------------------
(***************************************************************************)
(* The console: PS/2 keyboard and COM1 as input (drivers/keyboard.c,       *)
(* drivers/serial.c), the debug port, COM1 and the framebuffer terminal as *)
(* output (kernel/log.c, drivers/tty.c), and the two readers the kernel    *)
(* has: the early shell (kernel/shell.c) and read and write of a process   *)
(* (kernel/process.c).                                                     *)
(*                                                                         *)
(* The kernel polls; the devices act between any two of its port accesses. *)
(* A character is a string, and a text no property looks into is one       *)
(* character too.  Everything the kernel has begun to print and not yet    *)
(* sent is in todo, one port access each; nothing else happens in the      *)
(* kernel until todo is empty.                                             *)
(***************************************************************************)
EXTENDS Integers, Sequences, SequencesExt

CONSTANTS
    LINE_SIZE,      \* sizeof(line) in the shell (128)
    FIFO_SIZE,      \* bytes the UART and the keyboard controller hold
    commands,       \* the shell's commands: name -> "print", "clear" or "reboot"
    SerialBytes,    \* bytes that may arrive on COM1
    Scancodes,      \* bytes the keyboard may send
    Counts, Texts,  \* what a process reads and writes
    MaxInput,       \* bound on the bytes that arrive
    MaxCalls        \* bound on the calls of the process

ASSUME ConsoleSizes ==
    /\ LINE_SIZE \in Nat \ {0} /\ FIFO_SIZE \in Nat \ {0}
    /\ Scancodes \subseteq 0 .. 255

VARIABLES
    pc,             \* "boot", "poll", "keys", "user", "resetting", "halted"
    reader,         \* who waits for a character: "shell" or "read"
    shift_pressed,
    line,           \* what the shell has in its buffer
    buffer, want,   \* what read has stored, and how much it was asked for
    calls,
    todo,           \* port accesses still to do: <<port, byte>>
    tty_context,    \* is there a terminal
    received,       \* UART receive FIFO
    scancodes,      \* keyboard controller output
    transmit_empty, \* UART may be given a byte
    controller_busy,\* bit 1 of the keyboard controller's status
    reset,          \* the reset pulse was requested
    printed,        \* what each output got
    arrived,        \* bytes the two input devices accepted
    typed           \* characters readers got: <<device, character>>

kernel == <<pc, reader, shift_pressed, line, buffer, want, calls, tty_context, typed>>
inputs == <<received, scancodes, arrived>>
vars == <<kernel, inputs, todo, transmit_empty, controller_busy, reset, printed>>

LF == "LF"
CR == "CR"
BS == "BS"
ESC == "esc"
NUL == "nul"
BLANK == " "
CLEAR == "clear"        \* the two escape sequences of command_clear
PROMPT == "xbks> "
Printable(ch) == ch \notin {LF, CR, BS, ESC, NUL}

-----------------------------------------------------------------------------
(* Output.                                                                 *)

On(port, data) == [i \in DOMAIN data |-> <<port, data[i]>>]

(* Mutant: a line feed is sent alone. *)
crlf_Bare(data) == data
(* The carriage return serial_write and tty_write put before a line feed. *)
crlf(data) == FlattenSeq([i \in DOMAIN data |-> IF data[i] = LF THEN <<CR, LF>> ELSE <<data[i]>>])

xbks_serial_write(data) == On("serial", crlf(data))

xbks_tty_write(data, tty) == IF tty THEN On("tty", crlf(data)) ELSE <<>>

xbks_console_write(data, tty) ==
    On("debugcon", data) \o xbks_serial_write(data) \o xbks_tty_write(data, tty)

xbks_log_write(message, tty) == xbks_console_write(<<message>>, tty) \o xbks_console_write(<<LF>>, tty)

(* One access of todo.  Only COM1 makes the kernel wait. *)
Output ==
    /\ todo # <<>>
    /\ LET port == Head(todo)[1]
       IN  /\ port = "serial" => transmit_empty
           /\ transmit_empty' = (transmit_empty /\ port # "serial")
           /\ printed' = [printed EXCEPT ![port] = Append(@, Head(todo)[2])]
    /\ todo' = Tail(todo)
    /\ UNCHANGED <<kernel, inputs, controller_busy, reset>>

-----------------------------------------------------------------------------
(* Boot: what is said before there is a terminal, the terminal, and who    *)
(* reads.                                                                  *)

(* A usable framebuffer, a system font, and whether flanterm takes each.   *)
xbks_tty_init(framebuffer, font, alpha, plain) ==
    /\ framebuffer
    /\ (font /\ alpha) \/ plain

xbks_panic ==
    /\ todo' = xbks_log_write("panic", FALSE)
    /\ pc' = "halted"
    /\ UNCHANGED <<reader, shift_pressed, line, tty_context>>

xbks_shell_run(tty) ==
    /\ pc' = "poll" /\ reader' = "shell" /\ shift_pressed' = FALSE /\ line' = <<>>
    /\ todo' = xbks_log_write("boot", FALSE) \o xbks_log_write("late init", tty)
               \o xbks_console_write(<<LF, "early shell", LF>>, tty) \o xbks_console_write(<<PROMPT>>, tty)

xbks_process_start_init(tty) ==
    /\ pc' = "user" /\ shift_pressed' = FALSE
    /\ todo' = xbks_log_write("boot", FALSE) \o xbks_log_write("late init", tty)
    /\ UNCHANGED <<reader, line>>

xbks_kernel_main ==
    /\ pc = "boot"
    /\ UNCHANGED <<buffer, want, calls, typed, inputs, transmit_empty, controller_busy, reset, printed>>
    /\ \/ xbks_panic
       \/ \E framebuffer, font, alpha, plain \in BOOLEAN :
             /\ tty_context' = xbks_tty_init(framebuffer, font, alpha, plain)
             /\ \/ xbks_process_start_init(tty_context')
                \/ xbks_shell_run(tty_context')

-----------------------------------------------------------------------------
(* The shell.                                                              *)

run_command(name) ==
    LET say(data) == xbks_console_write(data, tty_context)
    IN  IF name = <<>> THEN <<>>
        ELSE IF name \notin DOMAIN commands
             THEN say(<<"unknown command: ">>) \o say(name) \o say(<<LF>>)
             ELSE IF commands[name] = "clear" THEN say(<<CLEAR>>) ELSE say(<<commands[name], LF>>)

Reboots(name) == name \in DOMAIN commands /\ commands[name] = "reboot"

fits(ch) == Printable(ch) /\ Len(line) + 1 < LINE_SIZE

(* Mutant: the cursor moves back and the character stays. *)
erase_Bare == <<BS>>
erase == <<BS, BLANK, BS>>

(* What the loop of xbks_shell_run does with a character. *)
shell_char(ch) ==
    /\ pc' = IF ch = LF /\ Reboots(line) THEN "resetting" ELSE "poll"
    /\ line' = CASE ch = LF -> IF Reboots(line) THEN line ELSE <<>>
                 [] ch = BS /\ line # <<>> -> Front(line)
                 [] fits(ch) -> Append(line, ch)
                 [] OTHER -> line
    /\ LET say(data) == xbks_console_write(data, tty_context)
       IN  todo' = CASE ch = LF -> say(<<LF>>) \o run_command(line)
                                   \o (IF Reboots(line) THEN <<>> ELSE say(<<PROMPT>>))
                     [] ch = BS /\ line # <<>> -> say(erase)
                     [] fits(ch) -> say(<<ch>>)
                     [] OTHER -> <<>>

(* Wait for the controller, pulse the reset line, halt. *)
command_reboot ==
    /\ pc = "resetting" /\ todo = <<>>
    /\ ~controller_busy
    /\ reset' = TRUE
    /\ pc' = "halted"
    /\ UNCHANGED <<reader, shift_pressed, line, buffer, want, calls, tty_context, typed,
                   inputs, todo, transmit_empty, controller_busy, printed>>

-----------------------------------------------------------------------------
(* Input.                                                                  *)

(* The entries the model tells apart: escape, a digit, backspace, enter    *)
(* and a letter.  Every other key has no character.                        *)
normal_scancode_map ==
    [key \in 0 .. 127 |-> CASE key = 1 -> ESC [] key = 2 -> "1" [] key = 14 -> BS
                            [] key = 28 -> LF [] key = 30 -> "a" [] OTHER -> NUL]
shifted_scancode_map ==
    [key \in 0 .. 127 |-> CASE key = 1 -> ESC [] key = 2 -> "!" [] key = 14 -> BS
                            [] key = 28 -> LF [] key = 30 -> "A" [] OTHER -> NUL]

(* One turn of the loop of syscall_read. *)
read_char(ch) ==
    /\ buffer' = Append(buffer, ch)
    /\ pc' = IF Len(buffer') = want THEN "user" ELSE "poll"

(* A character reaches the reader. *)
Deliver(device, ch) ==
    /\ typed' = Append(typed, <<device, ch>>)
    /\ \/ /\ reader = "shell"
          /\ shell_char(ch)
          /\ UNCHANGED buffer
       \/ /\ reader = "read"
          /\ read_char(ch)
          /\ UNCHANGED <<line, todo>>

(* Mutant: while COM1 is silent the keyboard is not looked at. *)
read_char_serial_Only ==
    /\ pc = "poll" /\ todo = <<>>
    /\ \/ /\ received # <<>>
          /\ received' = Tail(received)
          /\ Deliver("serial", IF Head(received) = CR THEN LF ELSE Head(received))
       \/ received = <<>> /\ UNCHANGED <<pc, received, line, buffer, todo, typed>>
    /\ UNCHANGED <<reader, shift_pressed, want, calls, tty_context, scancodes, arrived,
                   transmit_empty, controller_busy, reset, printed>>
(* First half of xbks_keyboard_read_char: COM1. *)
read_char_serial ==
    /\ pc = "poll" /\ todo = <<>>
    /\ \/ /\ received # <<>>
          /\ received' = Tail(received)
          /\ Deliver("serial", IF Head(received) = CR THEN LF ELSE Head(received))
       \/ /\ received = <<>>
          /\ pc' = "keys"
          /\ UNCHANGED <<received, line, buffer, todo, typed>>
    /\ UNCHANGED <<reader, shift_pressed, want, calls, tty_context, scancodes, arrived,
                   transmit_empty, controller_busy, reset, printed>>

(* Mutant: only the press of a shift key is looked at. *)
scancode_shift_Sticks(scancode) ==
    IF scancode \in {42, 54} THEN TRUE ELSE shift_pressed
(* shift_pressed after a scancode; bit 7 says the key went up. *)
scancode_shift(scancode) ==
    IF scancode % 128 \in {42, 54} THEN scancode < 128 ELSE shift_pressed

(* The character of a scancode, NUL when it has none. *)
scancode_char(scancode) ==
    IF scancode >= 128 \/ scancode \in {42, 54} THEN NUL
    ELSE IF shift_pressed THEN shifted_scancode_map[scancode] ELSE normal_scancode_map[scancode]

(* Second half: the keyboard; without a character the loop of              *)
(* xbks_keyboard_read_char_blocking starts over.                           *)
read_char_keyboard ==
    /\ pc = "keys"
    /\ \/ /\ scancodes = <<>>
          /\ pc' = "poll"
          /\ UNCHANGED <<scancodes, shift_pressed, line, buffer, todo, typed>>
       \/ /\ scancodes # <<>>
          /\ scancodes' = Tail(scancodes)
          /\ shift_pressed' = scancode_shift(Head(scancodes))
          /\ LET ch == scancode_char(Head(scancodes))
             IN  \/ ch = NUL /\ pc' = "poll" /\ UNCHANGED <<line, buffer, todo, typed>>
                 \/ ch # NUL /\ Deliver("keyboard", ch)
    /\ UNCHANGED <<reader, want, calls, tty_context, received, arrived,
                   transmit_empty, controller_busy, reset, printed>>

-----------------------------------------------------------------------------
(* The process: read of standard input and write of the console.           *)

syscall_read(count) ==
    /\ pc = "user" /\ todo = <<>> /\ calls < MaxCalls
    /\ calls' = calls + 1
    /\ buffer' = <<>> /\ want' = count
    /\ reader' = "read"
    /\ pc' = IF count = 0 THEN "user" ELSE "poll"
    /\ UNCHANGED <<shift_pressed, line, tty_context, typed, inputs, todo,
                   transmit_empty, controller_busy, reset, printed>>

syscall_write(data) ==
    /\ pc = "user" /\ todo = <<>> /\ calls < MaxCalls
    /\ calls' = calls + 1
    /\ todo' = xbks_console_write(data, tty_context)
    /\ UNCHANGED <<pc, reader, shift_pressed, line, buffer, want, tty_context, typed, inputs,
                   transmit_empty, controller_busy, reset, printed>>

(* The loop of hlt a panic, a reboot and the end of xbks_kernel_main run.  *)
(* A process that makes no more calls is left out of Next the same way.    *)
halt ==
    /\ todo = <<>>
    /\ pc = "halted" \/ (pc = "user" /\ calls = MaxCalls)
    /\ UNCHANGED vars

-----------------------------------------------------------------------------
(* The devices, external.  A full FIFO loses what comes next.              *)

serial_arrives(byte) ==
    /\ Len(arrived.serial) + Len(arrived.keyboard) < MaxInput
    /\ Len(received) < FIFO_SIZE
    /\ received' = Append(received, byte)
    /\ arrived' = [arrived EXCEPT !.serial = Append(@, byte)]
    /\ UNCHANGED <<kernel, scancodes, todo, transmit_empty, controller_busy, reset, printed>>

key_arrives(scancode) ==
    /\ Len(arrived.serial) + Len(arrived.keyboard) < MaxInput
    /\ Len(scancodes) < FIFO_SIZE
    /\ scancodes' = Append(scancodes, scancode)
    /\ arrived' = [arrived EXCEPT !.keyboard = Append(@, scancode)]
    /\ UNCHANGED <<kernel, received, todo, transmit_empty, controller_busy, reset, printed>>

uart_sends ==
    /\ ~transmit_empty
    /\ transmit_empty' = TRUE
    /\ UNCHANGED <<kernel, inputs, todo, controller_busy, reset, printed>>

controller_ready ==
    /\ controller_busy
    /\ controller_busy' = FALSE
    /\ UNCHANGED <<kernel, inputs, todo, transmit_empty, reset, printed>>

-----------------------------------------------------------------------------

Init ==
    /\ pc = "boot" /\ reader = "shell"
    /\ shift_pressed = FALSE
    /\ line = <<>> /\ buffer = <<>> /\ want = 0 /\ calls = 0
    /\ todo = <<>>
    /\ tty_context = FALSE
    /\ received = <<>> /\ scancodes = <<>>
    /\ arrived = [serial |-> <<>>, keyboard |-> <<>>]
    /\ transmit_empty = TRUE
    /\ controller_busy \in BOOLEAN
    /\ reset = FALSE
    /\ printed = [debugcon |-> <<>>, serial |-> <<>>, tty |-> <<>>]
    /\ typed = <<>>

Kernel ==
    \/ xbks_kernel_main
    \/ Output
    \/ read_char_serial \/ read_char_keyboard
    \/ command_reboot
    \/ halt

Calls ==
    \/ \E count \in Counts : syscall_read(count)
    \/ \E data \in Texts : syscall_write(data)

Devices ==
    \/ \E byte \in SerialBytes : serial_arrives(byte)
    \/ \E scancode \in Scancodes : key_arrives(scancode)
    \/ uart_sends
    \/ controller_ready

Next == Kernel \/ Calls \/ Devices

(* The kernel never stops by itself, the UART sends what it was given and  *)
(* the controller takes its command; nobody is obliged to type.            *)
Fairness ==
    /\ WF_vars(Kernel)
    /\ WF_vars(uart_sends)
    /\ WF_vars(controller_ready)

Spec == Init /\ [][Next]_vars /\ Fairness

-----------------------------------------------------------------------------
(* Properties.                                                             *)

(* Consumed input of a device, and the characters readers got from it. *)
Consumed(device, waiting) == SubSeq(arrived[device], 1, Len(arrived[device]) - Len(waiting))
Got(device) == LET mine == SelectSeq(typed, LAMBDA t : t[1] = device)
               IN  [i \in DOMAIN mine |-> mine[i][2]]

(* Is shift down at the k-th scancode: the last shift key event before it  *)
(* is a press. *)
ShiftAt(codes, k) ==
    LET events == {i \in 1 .. k - 1 : codes[i] % 128 \in {42, 54}}
    IN  events # {} /\ codes[CHOOSE i \in events : \A j \in events : j <= i] < 128

(* Every byte taken from COM1 and every key press with a character reaches *)
(* a reader exactly once and in order, a key with the shift state of the   *)
(* moment it was pressed, however late the kernel polls and whatever       *)
(* arrives on the other device (xbks_keyboard_read_char); what a read has  *)
(* stored is what was typed last, from both devices together, and never    *)
(* more than it was asked for (syscall_read).                              *)
KeystrokesDecoded ==
    LET bytes == Consumed("serial", received)
        codes == Consumed("keyboard", scancodes)
        map(k) == IF ShiftAt(codes, k) THEN shifted_scancode_map ELSE normal_scancode_map
        chars == [k \in DOMAIN codes |-> IF codes[k] < 128 THEN map(k)[codes[k]] ELSE NUL]
    IN  /\ Got("serial") = [k \in DOMAIN bytes |-> IF bytes[k] = CR THEN LF ELSE bytes[k]]
        /\ Got("keyboard") = SelectSeq(chars, LAMBDA ch : ch # NUL)
        /\ reader = "read" =>
               LET last == SubSeq(typed, Len(typed) - Len(buffer) + 1, Len(typed))
               IN  /\ buffer = [i \in DOMAIN last |-> last[i][2]]
                   /\ Len(buffer) <= want /\ (pc = "user" => Len(buffer) = want)

(* A terminal that shows one line: text up to the cursor and blanks after. *)
Show(screen, ch) ==
    CASE ch \in {LF, CLEAR} -> [text |-> <<>>, cursor |-> 0]
      [] ch = CR -> [screen EXCEPT !.cursor = 0]
      [] ch = BS -> [screen EXCEPT !.cursor = @ - 1]
      [] OTHER -> [text |-> SubSeq(screen.text, 1, screen.cursor) \o <<ch>>
                            \o SubSeq(screen.text, screen.cursor + 2, Len(screen.text)),
                   cursor |-> screen.cursor + 1]
Screen(port) == FoldLeft(Show, [text |-> <<>>, cursor |-> 0], printed[port])

(* While the shell waits, every output shows the prompt and exactly the    *)
(* line that Enter would run: no echo without a stored character, no       *)
(* erased character left behind, and room left for the terminator          *)
(* (xbks_shell_run).                                                       *)
ScreenShowsLine ==
    pc \in {"poll", "keys"} /\ reader = "shell" /\ todo = <<>> =>
        /\ Len(line) < LINE_SIZE
        /\ \A port \in {"debugcon", "serial"} \cup (IF tty_context THEN {"tty"} ELSE {}) :
               LET screen == Screen(port)
               IN  /\ SubSeq(screen.text, 1, screen.cursor) = <<PROMPT>> \o line
                   /\ \A i \in screen.cursor + 1 .. Len(screen.text) : screen.text[i] = BLANK

WithoutCR(data) == SelectSeq(data, LAMBDA ch : ch # CR)
LinesReturn(data) == \A i \in DOMAIN data : data[i] = LF => i > 1 /\ data[i - 1] = CR
Said == 2       \* characters printed before xbks_tty_init: the boot message

(* The outputs never disagree: COM1 is never ahead of the debug port, the  *)
(* terminal never ahead of COM1, both return the carriage at every line,   *)
(* and between two writes all have shown the same text since they exist    *)
(* (xbks_console_write).                                                   *)
OutputsAgree ==
    LET debugcon == printed.debugcon
        serial == WithoutCR(printed.serial)
        tty == WithoutCR(printed.tty)
    IN  /\ IsPrefix(serial, debugcon)
        /\ IsPrefix(tty, SubSeq(serial, Said + 1, Len(serial)))
        /\ LinesReturn(printed.serial) /\ LinesReturn(printed.tty)
        /\ todo = <<>> => /\ serial = debugcon
                          /\ tty = IF tty_context THEN SubSeq(debugcon, Said + 1, Len(debugcon)) ELSE <<>>

(* Input that has arrived is read as long as somebody reads: COM1 first,   *)
(* but the keyboard too once COM1 is silent; a read returns when enough    *)
(* has been typed, and the shell answers every Enter with a new prompt or  *)
(* a reset.                                                                *)
InputServed ==
    /\ (reader = "shell" /\ pc \in {"poll", "keys"} /\ scancodes # <<>>)
            ~> (scancodes = <<>> \/ reset)
    /\ (reader = "read" /\ pc \in {"poll", "keys"} /\ Len(received) + Len(buffer) >= want) ~> (pc = "user")
    /\ (pc = "resetting") ~> reset

=============================================================================
