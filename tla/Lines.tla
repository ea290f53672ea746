-------------------------------- MODULE Lines --------------------------------
(***************************************************************************)
(* What one call of Readline (socket_template/readline/readline.cpp) takes *)
(* from a stream of bytes and returns, as functions of the stream.         *)
(***************************************************************************)
EXTENDS Naturals, SequencesExt

\* A byte is a number.
Newline == 10

HasLine(s) == Newline \in Range(s)

\* The bytes up to the first newline, which belongs to the line, or all of them.
Line(s) == IF HasLine(s) THEN SubSeq(s, 1, Min({k \in 1 .. Len(s) : s[k] = Newline})) ELSE s

Rest(s) == SubSeq(s, Len(Line(s)) + 1, Len(s))

\* What a buffer of n > 0 bytes gets: one byte is kept for the terminating NUL, and
\* what does not fit is dropped.
Stored(s, n) == SubSeq(Line(s), 1, Min({n - 1, Len(Line(s))}))
===============================================================================
