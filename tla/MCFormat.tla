------------------------------ MODULE MCFormat ------------------------------
(* Formats of up to two directives, with or without a lone % at the end.   *)
EXTENDS Format


(* Around zero, the ends of an int and the ends of a long. *)
Numbers == {0, 1, 9, 10, 15, 16, 31, 32, 511, 512, 513, 1008, 1023}

D(text, args) == [fmt |-> text, args |-> args]

Directives ==
    {D(<<"a">>, << >>), D(<<"%", "%">>, << >>), D(<<"%", "q">>, << >>), D(<<"%", "l", "%">>, << >>)}
    \cup {D(<<"%", "s">>, <<[text |-> t]>>) : t \in {<< >>, <<"a", "b">>, Null}}
    \cup {D(<<"%", "c">>, <<[reg |-> n]>>) : n \in {0, 1, 15}}
    \cup {D(<<"%">> \o m \o <<c>>, <<[reg |-> n]>>) :
              m \in {<< >>, <<"l">>, <<"l", "l">>, <<"z">>}, c \in {"d", "i", "u", "x", "X"}, n \in Numbers}
    \cup {D(<<"%", "p">>, <<[reg |-> n]>>) : n \in Numbers}

Probes == {d \in Directives : d.args = << >> \/ d.fmt[2] = "s" \/ d.args[1].reg \in {0, 15, 512}}

Join(c, d) == D(c.fmt \o d.fmt, c.args \o d.args)

(* A text longer than an int can tell. *)
Long == Join(D(<<"a", "b", "c">>, << >>), D(<<"%", "s", "%", "s", "%", "d">>, <<[text |-> Null], [text |-> Null], [reg |-> 16]>>))

MCCalls ==
    {D(<< >>, << >>), D(<<"%">>, << >>), Long} \cup Directives
    \cup {Join(d, D(<<"%">>, << >>)) : d \in Probes} \cup {Join(c, d) : c \in Probes, d \in Probes}
=============================================================================
