----------------------------- MODULE MCConsole -----------------------------
(***************************************************************************)
(* Instances of Console for TLC: a line of two characters, FIFOs of two    *)
(* bytes, commands with names short enough to be typed.                    *)
(***************************************************************************)
EXTENDS Console, TLC

MCCommands == <<"a">> :> "print" @@ <<"A">> :> "clear" @@ <<"a", "a">> :> "reboot"

MCSerialBytes == {"a", CR, BS}

(* Press and release of shift, a letter, backspace, enter, and the prefix  *)
(* of an extended key.                                                     *)
MCScancodes == {42, 170, 30, 14, 28, 224}

MCCounts == {0, 2}
MCTexts == {<<"text", LF>>}
=============================================================================
