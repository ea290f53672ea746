------------------------------- MODULE Readline -------------------------------
(***************************************************************************)
(* socket_template/readline/readline.cpp: one call of Readline on a stream *)
(* whose bytes arrive one by one and whose other side may hang up.  Bytes  *)
(* other than the newline differ by their position only.                   *)
(***************************************************************************)
EXTENDS Lines

CONSTANTS Sizes,     \* the values of the parameter n, a size_t
          SizeMax,   \* SIZE_MAX, the largest size_t
          MaxBytes,  \* bound: the bytes the other side sends
          Failing    \* {"read"} if read may return -1 (other than for EINTR), {} if not

ASSUME SizesAssumption == SizeMax \in Nat /\ Sizes \subseteq 0 .. SizeMax
ASSUME MaxBytesAssumption == MaxBytes \in Nat
ASSUME FailingAssumption == Failing \subseteq {"read"}

VARIABLES n,           \* the parameter
          stream,      \* all that has arrived
          closed,      \* the other side has hung up
          pos,         \* how many bytes of the stream have been read
          rpc,         \* "read", "returned" or "error" (-1)
          total_read,  \* on return, the value returned
          buffer,      \* what has been stored
          terminated   \* the NUL has been stored

vars == <<n, stream, closed, pos, rpc, total_read, buffer, terminated>>

Init == /\ n \in Sizes
        /\ stream = <<>> /\ closed = FALSE
        /\ pos = 0
        /\ rpc = "read"
        /\ total_read = 0 /\ buffer = <<>> /\ terminated = FALSE
-------------------------------------------------------------------------------
\* Mutant: no byte is kept for the NUL.
LimitNoNul == n

\* n - 1 is computed in size_t.
Limit == (n + SizeMax) % (SizeMax + 1)

\* Mutant: a full buffer ends the call.
ReadUntilFull == /\ rpc = "read"
                 /\ pos < Len(stream)
                 /\ pos' = pos + 1
                 /\ LET ch == stream[pos + 1]
                    IN  /\ IF total_read < Limit
                           THEN total_read' = total_read + 1 /\ buffer' = Append(buffer, ch)
                           ELSE UNCHANGED <<total_read, buffer>>
                        /\ rpc' = IF ch = Newline \/ total_read' = Limit THEN "returned" ELSE "read"
                        /\ terminated' = (rpc' = "returned")
                 /\ UNCHANGED <<n, stream, closed>>

\* An interrupted read is made again: only a read that returns a byte is a step.
ReadByte == /\ rpc = "read"
            /\ pos < Len(stream)
            /\ pos' = pos + 1
            /\ LET ch == stream[pos + 1]
               IN  /\ IF total_read < Limit
                      THEN total_read' = total_read + 1 /\ buffer' = Append(buffer, ch)
                      ELSE UNCHANGED <<total_read, buffer>>
                   /\ rpc' = IF ch = Newline THEN "returned" ELSE "read"
                   /\ terminated' = (ch = Newline)
            /\ UNCHANGED <<n, stream, closed>>

\* Mutant: end-of-file ends the call only when nothing was read before it.
EndOfEmptyOnly == /\ rpc = "read"
                  /\ pos = 0 /\ stream = <<>>
                  /\ closed
                  /\ rpc' = "returned"
                  /\ UNCHANGED <<n, stream, closed, pos, total_read, buffer, terminated>>

\* When nothing was stored, 0 is returned at once: the buffer is left as it was.
EndOfFile == /\ rpc = "read"
             /\ pos = Len(stream)
             /\ closed
             /\ rpc' = "returned"
             /\ terminated' = (total_read > 0)
             /\ UNCHANGED <<n, stream, closed, pos, total_read, buffer>>

ReadError == /\ rpc = "read"
             /\ "read" \in Failing
             /\ rpc' = "error"
             /\ UNCHANGED <<n, stream, closed, pos, total_read, buffer, terminated>>

Step == ReadByte \/ EndOfFile

\* The other side.
Arrive(newline) == /\ ~closed
                   /\ Len(stream) < MaxBytes
                   /\ stream' = Append(stream, IF newline THEN Newline ELSE Newline + 1 + Len(stream))
                   /\ UNCHANGED <<n, closed, pos, rpc, total_read, buffer, terminated>>

HangUp == /\ ~closed
          /\ closed' = TRUE
          /\ UNCHANGED <<n, stream, pos, rpc, total_read, buffer, terminated>>

Returned == rpc # "read" /\ UNCHANGED vars

Next == Step \/ ReadError \/ (\E newline \in BOOLEAN : Arrive(newline)) \/ HangUp \/ Returned

Spec == Init /\ [][Next]_vars

FairSpec == Spec /\ WF_vars(Step)
-------------------------------------------------------------------------------
(* TypeOK: the ranges of the variables.                                    *)
TypeOK == /\ n \in Sizes
          /\ stream \in Seq(Nat) /\ Len(stream) <= MaxBytes
          /\ closed \in BOOLEAN
          /\ pos \in 0 .. Len(stream)
          /\ rpc \in {"read", "returned", "error"}
          /\ total_read \in 0 .. pos
          /\ buffer \in Seq(Nat)
          /\ terminated \in BOOLEAN

(* InBuffer: with room for at least one byte, the bytes stored and the NUL *)
(* never exceed the buffer.                                                *)
InBuffer == n > 0 => Len(buffer) + 1 <= n

(* OneLine: on return, exactly the first line has been taken from the      *)
(* stream, however it arrived, so that the next call starts at the next    *)
(* line; the buffer has as much of it as fits, the length is returned, and *)
(* unless that is 0 the buffer is a string that the caller can print.      *)
OneLine == rpc = "returned" /\ n > 0 =>
             /\ pos = Len(Line(stream))
             /\ buffer = Stored(stream, n)
             /\ total_read = Len(buffer)
             /\ total_read > 0 => terminated

(* HangUpLeadsToReturn: a line without a newline ends with the stream.     *)
HangUpLeadsToReturn == closed ~> (rpc # "read")

(* ReadsAtMostN: lines 21 and 24 say that without a newline at most n bytes*)
(* are read.                                                               *)
ReadsAtMostN == ~HasLine(SubSeq(stream, 1, pos)) => pos <= n
===============================================================================
