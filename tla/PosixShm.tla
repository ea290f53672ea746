------------------------------- MODULE PosixShm -------------------------------
(***************************************************************************)
(* process_template/posix_shm: four programs that share the memory object  *)
(* of one name.  posix_shm_create makes and sizes it, posix_shm_write sizes*)
(* it anew and writes its data, posix_shm_read prints it as a string,      *)
(* posix_shm_unlink takes the name away.  They run at the same time, any   *)
(* number of each, with nothing to order them, and any may be killed.      *)
(***************************************************************************)
EXTENDS Naturals, FiniteSets

CONSTANTS Creators, Writers, Readers, Unlinkers,   \* the processes
          len,          \* strlen(data), without a NUL
          CreateSize,   \* the size that posix_shm_create asks for
          Page,         \* bytes of a page
          Failing       \* the system calls that may return -1

Procs == Creators \cup Writers \cup Readers \cup Unlinkers
Objects == 1 .. Cardinality(Creators)   \* each creator makes one at most
None == 0

Calls == {"shm_open", "ftruncate", "fstat", "mmap", "close", "shm_unlink"}

VARIABLES pc,       \* pc[p]: the next system call of p, or "memcpy" or "printf"
          name,     \* the object that has the name, or None
          made,     \* the number of objects made so far
          size,     \* size[o]
          bytes,    \* bytes[o]: the places that hold their byte of the data; others hold 0
          obj,      \* obj[p]: the object that p has opened
          mapped,   \* mapped[p]: the size p knows the object by
          at,       \* at[p]: for a reader, the bytes it has printed
          left,     \* left[p]: for a writer, the places that it has still to write
          done,     \* history: done[o]: the programs that have sized o or written to it
          before    \* history: before[p]: for a reader, done of the object when it opened it

vars == <<pc, name, made, size, bytes, obj, mapped, at, left, done, before>>

memory == <<name, made, size, bytes>>
progress == <<mapped, at, left>>
history == <<done, before>>

Init == /\ pc = [p \in Procs |-> IF p \in Unlinkers THEN "shm_unlink" ELSE "shm_open"]
        /\ name = None
        /\ made = 0
        /\ size = [o \in Objects |-> 0]
        /\ bytes = [o \in Objects |-> {}]
        /\ obj = [p \in Procs |-> None]
        /\ mapped = [p \in Procs |-> 0]
        /\ at = [p \in Procs |-> 0]
        /\ left = [p \in Procs |-> {}]
        /\ done = [o \in Objects |-> {}]
        /\ before = [p \in Procs |-> {}]

Goto(p, call) == pc' = [pc EXCEPT ![p] = call]
Done(p, program) == /\ Goto(p, "exited")
                    /\ done' = [done EXCEPT ![obj[p]] = @ \cup {program}]
                    /\ UNCHANGED before
-------------------------------------------------------------------------------
(* Memory: what a process may touch, and how a size is changed.            *)

\* The last byte of the page that the last of n bytes is in.
PageEnd(n) == ((n + Page - 1) \div Page) * Page

\* A byte may be touched if its page is mapped and the object reaches into the page.
MayTouch(p, byte) == byte <= PageEnd(mapped[p]) /\ byte <= PageEnd(size[obj[p]])

Truncate(o, n) == /\ size' = [size EXCEPT ![o] = n]
                  /\ bytes' = [bytes EXCEPT ![o] = {b \in @ : b <= n}]

Open(p, o) == /\ Goto(p, IF p \in Readers THEN "fstat" ELSE "ftruncate")
              /\ obj' = [obj EXCEPT ![p] = o]
              /\ before' = [before EXCEPT ![p] = IF p \in Readers THEN done[o] ELSE {}]
-------------------------------------------------------------------------------
\* Mutant: an object that is there is emptied first.
CreateTrunc(p) ==
  /\ p \in Creators
  /\ pc[p] = "shm_open"
  /\ IF name = None
     THEN made' = made + 1 /\ name' = made' /\ UNCHANGED <<size, bytes>>
     ELSE Truncate(name, 0) /\ UNCHANGED <<name, made>>
  /\ Open(p, name')
  /\ UNCHANGED <<progress, done>>

\* O_RDWR | O_CREAT: an object that is there is opened as it is, a new one is empty.
Create(p) ==
  /\ p \in Creators
  /\ pc[p] = "shm_open"
  /\ IF name = None THEN made' = made + 1 /\ name' = made' ELSE UNCHANGED <<name, made>>
  /\ Open(p, name')
  /\ UNCHANGED <<size, bytes, progress, done>>

\* Without O_CREAT, there must be one.
OpenExisting(p) ==
  /\ p \in Writers \cup Readers
  /\ pc[p] = "shm_open"
  /\ IF name = None THEN Goto(p, "failed") /\ UNCHANGED <<obj, before>> ELSE Open(p, name)
  /\ UNCHANGED <<memory, progress, done>>

\* Mutant: the creator asks for less than the writer has.
FtruncateShort(p) ==
  /\ pc[p] = "ftruncate"
  /\ Goto(p, "mmap")
  /\ LET n == IF p \in Creators THEN len - 1 ELSE len
     IN  Truncate(obj[p], n) /\ mapped' = [mapped EXCEPT ![p] = n]
  /\ UNCHANGED <<name, made, obj, at, left, history>>

Ftruncate(p) ==
  /\ pc[p] = "ftruncate"
  /\ Goto(p, "mmap")
  /\ LET n == IF p \in Creators THEN CreateSize ELSE len
     IN  Truncate(obj[p], n) /\ mapped' = [mapped EXCEPT ![p] = n]
  /\ UNCHANGED <<name, made, obj, at, left, history>>

Fstat(p) ==
  /\ pc[p] = "fstat"
  /\ Goto(p, "mmap")
  /\ mapped' = [mapped EXCEPT ![p] = size[obj[p]]]
  /\ UNCHANGED <<memory, obj, at, left, history>>

\* A mapping of no bytes is refused.  The creator has finished with it.
Mmap(p) ==
  /\ pc[p] = "mmap"
  /\ IF mapped[p] = 0 THEN Goto(p, "failed") /\ UNCHANGED history
     ELSE IF p \in Creators THEN Done(p, "create")
     ELSE Goto(p, "close") /\ UNCHANGED history
  /\ UNCHANGED <<memory, obj, progress>>

\* The mapping, and through it the object, outlives the descriptor and the name.
Close(p) ==
  /\ pc[p] = "close"
  /\ Goto(p, IF p \in Writers THEN "memcpy" ELSE "printf")
  /\ left' = [left EXCEPT ![p] = IF p \in Writers THEN 1 .. len ELSE {}]
  /\ UNCHANGED <<memory, obj, mapped, at, history>>

\* memcpy writes the bytes in an order of its own.
Memcpy(p) ==
  /\ pc[p] = "memcpy"
  /\ \E b \in left[p] :
       /\ left' = [left EXCEPT ![p] = @ \ {b}]
       /\ IF MayTouch(p, b)
          THEN /\ bytes' = [bytes EXCEPT ![obj[p]] = @ \cup {b}]
               /\ IF left'[p] = {} THEN Done(p, "write") ELSE UNCHANGED <<pc, history>>
          ELSE Goto(p, "faulted") /\ UNCHANGED <<bytes, history>>
  /\ UNCHANGED <<name, made, size, obj, mapped, at>>

\* printf goes on from byte to byte until it finds a 0.
Printf(p) ==
  /\ pc[p] = "printf"
  /\ LET b == at[p] + 1
     IN  IF ~MayTouch(p, b) THEN Goto(p, "faulted") /\ UNCHANGED at
         ELSE IF b \in bytes[obj[p]] THEN at' = [at EXCEPT ![p] = b] /\ UNCHANGED pc
         ELSE Goto(p, "exited") /\ UNCHANGED at
  /\ UNCHANGED <<memory, obj, mapped, left, history>>

Unlink(p) ==
  /\ pc[p] = "shm_unlink"
  /\ Goto(p, IF name = None THEN "failed" ELSE "exited")
  /\ name' = None
  /\ UNCHANGED <<made, size, bytes, obj, progress, history>>

Error(p) == /\ pc[p] \in Failing
            /\ Goto(p, "failed")
            /\ UNCHANGED <<memory, obj, progress, history>>

\* Killed or failed is the same to the others.
Kill(p) == /\ pc[p] \in Calls \cup {"memcpy", "printf"}
           /\ Goto(p, "failed")
           /\ UNCHANGED <<memory, obj, progress, history>>

Ended == /\ \A p \in Procs : pc[p] \notin Calls \cup {"memcpy", "printf"}
         /\ UNCHANGED vars

Step(p) == \/ Create(p) \/ OpenExisting(p) \/ Ftruncate(p) \/ Fstat(p) \/ Mmap(p) \/ Close(p)
           \/ Memcpy(p) \/ Printf(p) \/ Unlink(p) \/ Error(p) \/ Kill(p)

Next == (\E p \in Procs : Step(p)) \/ Ended

Spec == Init /\ [][Next]_vars
-------------------------------------------------------------------------------
(* TypeOK: the ranges of the variables.                                    *)
TypeOK == /\ pc \in [Procs -> Calls \cup {"memcpy", "printf", "exited", "failed", "faulted"}]
          /\ name \in Objects \cup {None}
          /\ made \in 0 .. Cardinality(Objects)
          /\ size \in [Objects -> {0, len, CreateSize}]
          /\ bytes \in [Objects -> SUBSET (1 .. len)]
          /\ obj \in [Procs -> Objects \cup {None}]
          /\ mapped \in [Procs -> {0, len, CreateSize}]
          /\ at \in [Procs -> 0 .. len]
          /\ left \in [Procs -> SUBSET (1 .. len)]
          /\ done \in [Objects -> SUBSET {"create", "write"}]
          /\ before \in [Procs -> SUBSET {"create", "write"}]

(* NoFault: no process touches memory that it has not mapped or that the   *)
(* object does not reach, however the others size the object meanwhile and *)
(* though the data that printf reads has no NUL of its own.                *)
NoFault == \A p \in Procs : pc[p] # "faulted"

(* ReadsWhatWasWritten: a reader that opens the object after somebody has  *)
(* written to it prints all of the data, whatever others do to the object  *)
(* or to its name meanwhile; and one that opens it after somebody has      *)
(* created or written it does not find it empty.                           *)
ReadsWhatWasWritten ==
  \A p \in Readers :
    /\ pc[p] = "exited" /\ "write" \in before[p] => at[p] = len
    /\ pc[p] = "mmap" /\ before[p] \cap {"create", "write"} # {} => mapped[p] > 0
===============================================================================
