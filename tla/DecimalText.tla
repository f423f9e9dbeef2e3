----------------------------- MODULE DecimalText -----------------------------
(***************************************************************************)
(* The decimal text in which the server sends every integer reply:         *)
(* sprintf("%d") on the server (process_open, process_lseek, ...) and      *)
(* atoi on the client (open, close, write, lseek, unlink in mylib.c), over *)
(* ASCII codes.                                                             *)
(***************************************************************************)
EXTENDS Integers, Sequences, SequencesExt

CH_MINUS == 45
CH_0 == 48
IsDigit(c) == c \in CH_0..(CH_0 + 9)

RECURSIVE Dec(_)
Dec(n) == IF n < 10 THEN <<CH_0 + n>> ELSE Dec(n \div 10) \o <<CH_0 + (n % 10)>>

\* sprintf(msg, "%d", n)
Itoa(n) == IF n < 0 THEN <<CH_MINUS>> \o Dec(-n) ELSE Dec(n)

\* atoi(buffer) after buffer[rv] = 0: an optional sign, then the digits up
\* to the first unit that is not one; atoi("") is 0.
Atoi(s) ==
    LET neg    == s # <<>> /\ s[1] = CH_MINUS
        body   == IF neg THEN Tail(s) ELSE s
        stop   == SelectInSeq(body, LAMBDA c : ~IsDigit(c))
        digits == IF stop = 0 THEN body ELSE SubSeq(body, 1, stop - 1)
        v      == FoldLeft(LAMBDA acc, c : 10 * acc + (c - CH_0), 0, digits)
    IN  IF neg THEN -v ELSE v

=============================================================================
