------------------------------- MODULE Transfer -------------------------------
(***************************************************************************)
(* What a stream between two processes promises: the sink gets the bytes   *)
(* the source puts in, in order and once, and comes to the end of the      *)
(* stream only when the source has closed it and every byte put in has     *)
(* been taken out.  A sink that fails promises nothing more.               *)
(***************************************************************************)
EXTENDS SequencesExt

VARIABLES put,      \* what the source has put in
          got,      \* what the sink has taken out
          source,   \* "open" or "closed"
          sink      \* "open", "ended" or "failed"

vars == <<put, got, source, sink>>

TypeOK == /\ IsPrefix(got, put)
          /\ source \in {"open", "closed"}
          /\ sink \in {"open", "ended", "failed"}

Init == /\ put = <<>>
        /\ got = <<>>
        /\ source = "open"
        /\ sink = "open"

Put == /\ source = "open"
       /\ IsStrictPrefix(put, put')
       /\ UNCHANGED <<got, source, sink>>

Close == /\ source = "open"
         /\ source' = "closed"
         /\ UNCHANGED <<put, got, sink>>

Get == /\ sink = "open"
       /\ IsStrictPrefix(got, got')
       /\ IsPrefix(got', put)
       /\ UNCHANGED <<put, source, sink>>

End == /\ sink = "open"
       /\ source = "closed"
       /\ got = put
       /\ sink' = "ended"
       /\ UNCHANGED <<put, got, source>>

\* Perhaps in the middle of taking something out.
Fail == /\ sink # "failed"
        /\ sink' = "failed"
        /\ IsPrefix(got, got')
        /\ IsPrefix(got', put)
        /\ UNCHANGED <<put, source>>

Next == Put \/ Close \/ Get \/ End \/ Fail

Spec == Init /\ [][Next]_vars
===============================================================================
