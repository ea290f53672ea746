-------------------------------- MODULE Epoll --------------------------------
(***************************************************************************)
(* io_template/epoll/epoll.cpp: open every file of the command line, watch *)
(* them all with one epoll instance, read from those that are readable and *)
(* close those whose other side is gone, until all are closed.             *)
(*                                                                         *)
(* The files are FIFOs (a regular file cannot be watched).  A descriptor is*)
(* named by its position on the command line.  Each FIFO has at most one   *)
(* writing process at a time; one may come back after it has left.         *)
(***************************************************************************)
EXTENDS Naturals, SequencesExt

CONSTANTS Named,        \* argv: Named[d] is the FIFO of descriptor d
          MAX_EVENTS,   \* of one epoll_wait
          MAX_BUF,      \* of one read
          Failing,      \* the system calls that may return -1
          MaxBytes,     \* bound: bytes written to a FIFO
          MaxArrivals   \* bound: times a writer opens a FIFO

Calls == {"epoll_create", "open", "epoll_ctl", "epoll_wait", "read", "close"}

\* epoll_create fails when no file is named.
ASSUME NamedAssumption == Named \in Seq(Range(Named)) /\ Named # <<>>
ASSUME SizesAssumption == MAX_EVENTS \in Nat \ {0} /\ MAX_BUF \in Nat \ {0}
ASSUME FailingAssumption == Failing \subseteq Calls
ASSUME BoundsAssumption == MaxBytes \in Nat /\ MaxArrivals \in Nat \ {0}

Descriptors == 1 .. Len(Named)
Fifos == Range(Named)

VARIABLES mpc,           \* where main is, by its next system call
          i,             \* main's loop variable
          fds,           \* fds[d]: "none", "open" or "closed"
          num_open_fds,
          evlist,        \* the events still to be handled
          met,           \* a writer has come while main is blocked in open
          writing,       \* the FIFOs that have a writer
          arrivals,      \* history: how often a writer opened each FIFO
          written,       \* history: bytes written to each FIFO
          taken,         \* history: bytes main has read from each FIFO
          reported       \* history: bytes written to the FIFO of each descriptor when its
                         \* hang-up was last reported

vars == <<mpc, i, fds, num_open_fds, evlist, met, writing, arrivals, written, taken, reported>>
fifoVars == <<writing, arrivals, written>>

Bytes(f) == written[f] - taken[f]
HasReader(f) == \/ \E d \in Descriptors : Named[d] = f /\ fds[d] = "open"
                \/ mpc = "open" /\ i \in Descriptors /\ Named[i] = f

Init == /\ mpc = "epoll_create"
        /\ i = 1
        /\ fds = [d \in Descriptors |-> "none"]
        /\ num_open_fds = 0
        /\ evlist = <<>>
        /\ met = FALSE
        /\ writing = {}
        /\ arrivals = [f \in Fifos |-> 0]
        /\ written = [f \in Fifos |-> 0]
        /\ taken = [f \in Fifos |-> 0]
        /\ reported = [d \in Descriptors |-> 0]
-------------------------------------------------------------------------------
(* main.                                                                   *)

EpollCreate == /\ mpc = "epoll_create"
               /\ mpc' = "open"
               /\ UNCHANGED <<i, fds, num_open_fds, evlist, met, fifoVars, taken, reported>>

\* open blocks until the FIFO has a writer, or has had one meanwhile.
Open == /\ mpc = "open"
        /\ met \/ Named[i] \in writing
        /\ fds' = [fds EXCEPT ![i] = "open"]
        /\ met' = FALSE
        /\ mpc' = "epoll_ctl"
        /\ UNCHANGED <<i, num_open_fds, evlist, fifoVars, taken, reported>>

EpollCtl == /\ mpc = "epoll_ctl"
            /\ i' = i + 1
            /\ IF i < Len(Named)
               THEN mpc' = "open" /\ UNCHANGED num_open_fds
               ELSE mpc' = "epoll_wait" /\ num_open_fds' = Len(Named)
            /\ UNCHANGED <<fds, evlist, met, fifoVars, taken, reported>>

Readable(d) == Bytes(Named[d]) > 0
HungUp(d) == Named[d] \notin writing
Ready == {d \in Descriptors : fds[d] = "open" /\ (Readable(d) \/ HungUp(d))}

\* Blocks until something is ready; which come first, and in what order, is the
\* kernel's choice.  (EINTR only makes main call it again.)
EpollWait == /\ mpc = "epoll_wait"
             /\ Ready # {}
             /\ \E chosen \in SUBSET Ready :
                  /\ Cardinality(chosen) = Min({MAX_EVENTS, Cardinality(Ready)})
                  /\ evlist' \in SetToSeqs({[fd |-> d, in |-> Readable(d), hup |-> HungUp(d)] :
                                              d \in chosen})
                  /\ reported' = [d \in Descriptors |-> IF d \in chosen /\ HungUp(d)
                                                         THEN written[Named[d]] ELSE reported[d]]
             /\ mpc' = "handle"
             /\ UNCHANGED <<i, fds, num_open_fds, met, fifoVars, taken>>

\* The event is done with: the next one, or back to the loop's test.
NextEvent == /\ evlist' = Tail(evlist)
             /\ mpc' = IF evlist' # <<>> THEN "handle"
                       ELSE IF num_open_fds' > 0 THEN "epoll_wait" ELSE "exited"

\* Mutant: read on until there is nothing left.
ReadOn == /\ mpc = "handle"
          /\ evlist[1].in
          /\ LET d == evlist[1].fd
                 f == Named[d]
             IN  /\ Readable(d) \/ HungUp(d)
                 /\ taken' = [taken EXCEPT ![f] = @ + Min({MAX_BUF, Bytes(f)})]
                 /\ IF Readable(d) THEN UNCHANGED <<evlist, mpc, num_open_fds>>
                                   ELSE UNCHANGED num_open_fds /\ NextEvent
          /\ UNCHANGED <<i, fds, met, fifoVars, reported>>

\* Another descriptor of the same FIFO may have taken the bytes: then read blocks.
Read == /\ mpc = "handle"
        /\ evlist[1].in
        /\ LET d == evlist[1].fd
               f == Named[d]
           IN  /\ Readable(d) \/ HungUp(d)
               /\ taken' = [taken EXCEPT ![f] = @ + Min({MAX_BUF, Bytes(f)})]
        /\ UNCHANGED num_open_fds
        /\ NextEvent
        /\ UNCHANGED <<i, fds, met, fifoVars, reported>>

\* Mutant: num_open_fds is not decremented.
CloseUncounted == /\ mpc = "handle"
                  /\ ~evlist[1].in
                  /\ evlist[1].hup
                  /\ fds' = [fds EXCEPT ![evlist[1].fd] = "closed"]
                  /\ UNCHANGED num_open_fds
                  /\ NextEvent
                  /\ UNCHANGED <<i, met, fifoVars, taken, reported>>

\* Mutant: the hang-up is looked at before the data.
CloseFirst == /\ mpc = "handle"
              /\ evlist[1].hup
              /\ fds' = [fds EXCEPT ![evlist[1].fd] = "closed"]
              /\ num_open_fds' = num_open_fds - 1
              /\ NextEvent
              /\ UNCHANGED <<i, met, fifoVars, taken, reported>>

Close == /\ mpc = "handle"
         /\ ~evlist[1].in
         /\ evlist[1].hup
         /\ fds' = [fds EXCEPT ![evlist[1].fd] = "closed"]
         /\ num_open_fds' = num_open_fds - 1
         /\ NextEvent
         /\ UNCHANGED <<i, met, fifoVars, taken, reported>>

Call == IF mpc # "handle" THEN mpc ELSE IF evlist[1].in THEN "read" ELSE "close"

\* main returns and its descriptors are closed.
Error == /\ Call \in Failing
         /\ mpc' = "failed"
         /\ fds' = [d \in Descriptors |-> IF fds[d] = "open" THEN "closed" ELSE fds[d]]
         /\ evlist' = <<>>
         /\ UNCHANGED <<i, num_open_fds, met, fifoVars, taken, reported>>

MainStep == EpollCreate \/ Open \/ EpollCtl \/ EpollWait \/ Read \/ Close
-------------------------------------------------------------------------------
(* The processes on the other side are not part of the repository.         *)

\* A writer's open blocks until the FIFO has a reader.
Arrive(f) == /\ f \notin writing
             /\ HasReader(f)
             /\ arrivals[f] < MaxArrivals
             /\ arrivals' = [arrivals EXCEPT ![f] = @ + 1]
             /\ writing' = writing \cup {f}
             /\ met' = (met \/ (mpc = "open" /\ Named[i] = f))
             /\ UNCHANGED <<mpc, i, fds, num_open_fds, evlist, written, taken, reported>>

Write(f) == /\ f \in writing
            /\ HasReader(f)
            /\ written[f] < MaxBytes
            /\ written' = [written EXCEPT ![f] = @ + 1]
            /\ UNCHANGED <<mpc, i, fds, num_open_fds, evlist, met, writing, arrivals, taken, reported>>

\* It closes its end, or ends (by SIGPIPE, for one).
Leave(f) == /\ f \in writing
            /\ writing' = writing \ {f}
            /\ UNCHANGED <<mpc, i, fds, num_open_fds, evlist, met, arrivals, written, taken, reported>>

Ended == mpc \in {"exited", "failed"} /\ UNCHANGED vars

Next == MainStep \/ Error \/ (\E f \in Fifos : Arrive(f) \/ Write(f) \/ Leave(f)) \/ Ended

Spec == Init /\ [][Next]_vars

\* The kernel runs main; no call need fail.  Somebody opens every FIFO, and
\* nobody keeps one for ever: without that the program is not meant to end.
FairSpec == /\ Spec
            /\ WF_vars(MainStep)
            /\ \A f \in Fifos : WF_vars(Arrive(f)) /\ WF_vars(Leave(f))
-------------------------------------------------------------------------------
(* TypeOK: the ranges of the variables.                                    *)
TypeOK == /\ mpc \in Calls \cup {"handle", "exited", "failed"}
          /\ i \in 1 .. Len(Named) + 1
          /\ fds \in [Descriptors -> {"none", "open", "closed"}]
          /\ num_open_fds \in 0 .. Len(Named)
          /\ evlist \in Seq([fd : Descriptors, in : BOOLEAN, hup : BOOLEAN])
          /\ Len(evlist) <= MAX_EVENTS
          /\ met \in BOOLEAN
          /\ writing \in SUBSET Fifos
          /\ arrivals \in [Fifos -> 0 .. MaxArrivals]
          /\ written \in [Fifos -> 0 .. MaxBytes]
          /\ taken \in [Fifos -> 0 .. MaxBytes]
          /\ reported \in [Descriptors -> 0 .. MaxBytes]

(* Counted: main loops while num_open_fds > 0, and that is the number of   *)
(* descriptors it has still open: no event closes one twice.               *)
Counted == mpc \in {"epoll_wait", "handle", "exited"} =>
             num_open_fds = Cardinality({d \in Descriptors : fds[d] = "open"})

(* ReadNeverBlocks: although the events were gathered earlier, a read does *)
(* not block, if no FIFO is named twice on the command line.               *)
ReadNeverBlocks == IsInjective(Named) /\ mpc = "handle" /\ evlist[1].in => Readable(evlist[1].fd)

(* Drained: a descriptor is closed at a hang-up only when every byte that  *)
(* had been written before its hang-up was reported has been read.  What is*)
(* lost is only what a writer wrote that came back after the report.       *)
Drained == mpc # "failed" =>
             \A d \in Descriptors : fds[d] = "closed" => taken[Named[d]] >= reported[d]

(* Terminates: main ends, however the writers come, write and leave.       *)
Terminates == <>(mpc \in {"exited", "failed"})
===============================================================================
