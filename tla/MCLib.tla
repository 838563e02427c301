------------------------------- MODULE MCLib -------------------------------
(***************************************************************************)
(* The kernel's library: a behaviour is a call of a memory or string       *)
(* function (StringLib) or of xbks_snprintf (Format), the other one rests. *)
(***************************************************************************)
EXTENDS StringLib

CONSTANTS Calls, Capacities, INT, LONG, NUL, Null, Old

VARIABLES part, call, capacity, format_i, used, sink, printed, format_at, written

format == <<call, capacity, format_i, used, sink, printed, format_at, written>>

F == INSTANCE Format WITH i <- format_i, at <- format_at

Inputs == INSTANCE MCFormat WITH i <- format_i, at <- format_at, Calls <- {}
MCCalls == Inputs!MCCalls

(* Values for memset beside the three of a byte: one too large, one below 0. *)
MCInts == {1, 5, -1}

StringRests ==
    /\ mem = <<>> /\ old = <<>> /\ fn = "none" /\ at = "none" /\ dest = 0 /\ src = 0
    /\ count = 0 /\ value = 0 /\ i = 0 /\ result = 0
FormatRests ==
    /\ call = "none" /\ capacity = 0 /\ format_i = 0 /\ used = 0 /\ sink = "none" /\ printed = <<>>
    /\ format_at = "none" /\ written = 0

MCInit ==
    \/ part = "string" /\ Init /\ FormatRests
    \/ part = "format" /\ F!Init /\ StringRests
MCNext ==
    \/ part = "string" /\ Next /\ UNCHANGED <<part, format>>
    \/ part = "format" /\ F!Next /\ UNCHANGED <<part, vars>>
MCSpec == MCInit /\ [][MCNext]_<<part, vars, format>>

(* xbks_snprintf leaves the longest prefix that fits, ended (Format). *)
BufferHoldsPrefix == F!BufferHoldsPrefix

(* A printed number reads back as the argument (Format). *)
NumbersReadBack == F!NumbersReadBack
=============================================================================
