----------------------------- MODULE EpollProofs -----------------------------
(***************************************************************************)
(* Theorems about Epoll, for every command line (a FIFO may be named more  *)
(* than once), every size of the event list and of the buffer, and every   *)
(* number of bytes and of writers.                                         *)
(***************************************************************************)
EXTENDS Epoll, SequenceTheorems, FiniteSetTheorems, TLAPS

Event == [fd : Descriptors, in : BOOLEAN, hup : BOOLEAN]
OpenFds == {d \in Descriptors : fds[d] = "open"}
EventOf(d) == [fd |-> d, in |-> Readable(d), hup |-> HungUp(d)]

\* Of the FIFO of d nothing is unread that was in it when its hang-up was reported.
AllRead(d) == taken[Named[d]] >= reported[d]

(* The files are opened one after the other, before any event is waited    *)
(* for.                                                                    *)
Opening == /\ mpc = "epoll_create" => i = 1 /\ OpenFds = {}
           /\ mpc = "open" => i <= Len(Named) /\ OpenFds = 1 .. i - 1
           /\ mpc = "epoll_ctl" => i <= Len(Named) /\ OpenFds = 1 .. i

(* The events of one call of epoll_wait are of different descriptors, all  *)
(* of them still open.                                                     *)
Pending == /\ evlist # <<>> <=> mpc = "handle"
           /\ \A k, l \in 1 .. Len(evlist) :
                /\ fds[evlist[k].fd] = "open"
                /\ evlist[k].fd = evlist[l].fd => k = l

Flow == \A f \in Fifos : taken[f] <= written[f]

(* What an event said when it was gathered is still so when it is handled. *)
StillReadable == IsInjective(Named) =>
                   \A k \in 1 .. Len(evlist) : evlist[k].in => Readable(evlist[k].fd)
StillDrained == \A k \in 1 .. Len(evlist) :
                  ~evlist[k].in /\ evlist[k].hup => AllRead(evlist[k].fd)

IInv == /\ TypeOK
        /\ Opening
        /\ Pending
        /\ Flow
        /\ Counted
        /\ StillReadable
        /\ StillDrained
        /\ Drained
-------------------------------------------------------------------------------
(* Facts about the command line, the descriptors and lists of events.      *)

LEMMA NamedFacts == /\ Len(Named) \in Nat \ {0}
                    /\ \A d \in Descriptors : Named[d] \in Fifos
                    /\ DOMAIN Named = Descriptors
  BY NamedAssumption, EmptySeq, LenProperties, ElementOfSeq DEF Descriptors, Fifos

LEMMA MinOfTwo == ASSUME NEW a \in Nat, NEW b \in Nat
                  PROVE  Min({a, b}) = IF a <= b THEN a ELSE b
  BY DEF Min

LEMMA SomeDescriptors == ASSUME NEW ds \in SUBSET Descriptors
                         PROVE  /\ IsFiniteSet(ds)
                                /\ Cardinality(ds) \in 0 .. Len(Named)
                                /\ ds # {} => Cardinality(ds) > 0
  <1>1. IsFiniteSet(Descriptors) /\ Cardinality(Descriptors) = Len(Named)
    BY NamedFacts, FS_Interval DEF Descriptors
  <1>2. IsFiniteSet(ds) /\ Cardinality(ds) <= Len(Named)
    BY <1>1, FS_Subset
  <1>3. QED
    BY <1>2, FS_CardinalityType, FS_EmptySet, NamedFacts

(* A list of the events of some descriptors has one event of each.         *)
LEMMA EventList ==
  ASSUME NEW ds \in SUBSET Descriptors, ds # {},
         NEW evs \in SetToSeqs({EventOf(d) : d \in ds})
  PROVE  /\ evs \in Seq(Event)
         /\ Len(evs) \in 1 .. Cardinality(ds)
         /\ \A k \in 1 .. Len(evs) : evs[k].fd \in ds /\ evs[k] = EventOf(evs[k].fd)
         /\ \A k, l \in 1 .. Len(evs) : evs[k].fd = evs[l].fd => k = l
  <1> DEFINE S == {EventOf(d) : d \in ds}
             g == [e \in S |-> e.fd]
  <1>1. \A e \in S : e \in Event /\ e.fd \in ds /\ e = EventOf(e.fd)
    <2>1. \A d \in ds : Readable(d) \in BOOLEAN /\ HungUp(d) \in BOOLEAN
      BY DEF Readable, HungUp
    <2>2. QED
      BY <2>1 DEF EventOf, Event
  <1>2. g \in Injection(S, ds)
    BY <1>1 DEF Injection, IsInjective
  <1>3. IsFiniteSet(S) /\ Cardinality(S) <= Cardinality(ds)
    BY <1>2, SomeDescriptors, FS_Injection
  <1>4. Cardinality(S) \in 1 .. Cardinality(ds)
    <2>1. S # {}
      OBVIOUS
    <2>2. QED
      BY <1>3, <2>1, SomeDescriptors, FS_CardinalityType, FS_EmptySet, SMTT(30)
  <1>5. /\ evs \in [1 .. Cardinality(S) -> S]
        /\ \A k, l \in 1 .. Cardinality(S) : k # l => evs[k] # evs[l]
    BY DEF SetToSeqs
  <1> HIDE DEF S
  <1>6. evs \in Seq(S) /\ Len(evs) = Cardinality(S)
    BY <1>4, <1>5
  <1>7. evs \in Seq(Event)
    BY <1>1, <1>6, SeqMonotonic
  <1>8. QED
    BY <1>1, <1>4, <1>5, <1>6, <1>7
-------------------------------------------------------------------------------
(* The inductive invariant.                                                *)

LEMMA InitIInv == Init => IInv
  <1> SUFFICES ASSUME Init PROVE IInv
    OBVIOUS
  <1> USE NamedFacts DEF Init
  <1>1. TypeOK
    <2>1. 0 \in 0 .. MaxArrivals /\ 0 \in 0 .. MaxBytes /\ 0 <= MAX_EVENTS
      BY SizesAssumption, BoundsAssumption
    <2>2. evlist \in Seq([fd : Descriptors, in : BOOLEAN, hup : BOOLEAN]) /\ Len(evlist) = 0
      BY EmptySeq
    <2>3. arrivals \in [Fifos -> 0 .. MaxArrivals]
      BY <2>1
    <2>4. /\ written \in [Fifos -> 0 .. MaxBytes] /\ taken \in [Fifos -> 0 .. MaxBytes]
          /\ reported \in [Descriptors -> 0 .. MaxBytes]
      BY <2>1
    <2>5. fds \in [Descriptors -> {"none", "open", "closed"}]
      OBVIOUS
    <2>6. i \in 1 .. Len(Named) + 1 /\ num_open_fds \in 0 .. Len(Named)
      OBVIOUS
    <2>7. mpc \in Calls /\ met \in BOOLEAN /\ writing \in SUBSET Fifos
      BY DEF Calls
    <2>8. QED
      BY <2>1, <2>2, <2>3, <2>4, <2>5, <2>6, <2>7 DEF TypeOK
  <1>2. Opening /\ Pending /\ Counted /\ StillReadable /\ StillDrained
    BY DEF Opening, OpenFds, Pending, Counted, StillReadable, StillDrained
  <1>3. Flow /\ Drained
    BY DEF Flow, Drained
  <1>4. QED
    BY <1>1, <1>2, <1>3 DEF IInv

LEMMA OpeningIInv == ASSUME IInv, EpollCreate \/ Open \/ EpollCtl
                     PROVE  IInv'
  <1> USE NamedFacts DEF IInv
  <1>1. evlist = <<>> /\ UNCHANGED <<evlist, writing, arrivals, written, taken, reported>>
    BY DEF EpollCreate, Open, EpollCtl, Pending, fifoVars
  <1>2. Flow'
    BY <1>1 DEF Flow
  <1>3. StillReadable' /\ StillDrained'
    BY <1>1 DEF StillReadable, StillDrained
  <1>4. CASE EpollCreate
    <2>1. TypeOK'
      BY <1>1, <1>4 DEF EpollCreate, TypeOK, Calls
    <2>2. Opening' /\ Pending' /\ Counted'
      BY <1>1, <1>4 DEF EpollCreate, Opening, Pending, Counted, OpenFds
    <2>3. Drained'
      BY <1>1, <1>4 DEF EpollCreate, Drained
    <2>4. QED
      BY <1>2, <1>3, <2>1, <2>2, <2>3
  <1>5. CASE Open
    <2>1. /\ mpc = "open" /\ mpc' = "epoll_ctl" /\ met' = FALSE
          /\ fds' = [fds EXCEPT ![i] = "open"]
          /\ met \/ Named[i] \in writing
          /\ UNCHANGED <<i, num_open_fds>>
      BY <1>5 DEF Open
    <2>2. i \in Descriptors /\ OpenFds' = OpenFds \cup {i}
      BY <2>1 DEF Opening, TypeOK, Descriptors, OpenFds
    <2>3. TypeOK'
      BY <1>1, <2>1 DEF TypeOK, Calls
    <2>4. Opening'
      BY <2>1, <2>2 DEF Opening, TypeOK
    <2>5. Pending' /\ Counted'
      BY <1>1, <2>1 DEF Pending, Counted
    <2>6. Drained'
      BY <1>1, <2>1 DEF Drained, TypeOK
    <2>7. QED
      BY <1>2, <1>3, <2>3, <2>4, <2>5, <2>6
  <1>6. CASE EpollCtl
    <2>1. /\ mpc = "epoll_ctl" /\ i' = i + 1
          /\ IF i < Len(Named) THEN mpc' = "open" /\ UNCHANGED num_open_fds
                               ELSE mpc' = "epoll_wait" /\ num_open_fds' = Len(Named)
          /\ UNCHANGED <<fds, met>>
      BY <1>6 DEF EpollCtl
    <2>2. i \in 1 .. Len(Named) /\ OpenFds = 1 .. i /\ OpenFds' = OpenFds
      BY <2>1 DEF Opening, TypeOK, OpenFds
    <2>3. TypeOK'
      BY <1>1, <2>1, <2>2 DEF TypeOK, Calls
    <2>4. Opening' /\ Pending'
      BY <1>1, <2>1, <2>2 DEF Opening, Pending
    <2>5. Counted'
      <3>1. Cardinality(1 .. i) = i
        BY <2>2, FS_Interval
      <3>2. i < Len(Named) \/ i = Len(Named)
        BY <2>2
      <3>3. QED
        BY <2>1, <2>2, <3>1, <3>2 DEF Counted, OpenFds
    <2>6. Drained'
      BY <1>1, <2>1 DEF Drained
    <2>7. QED
      BY <1>2, <1>3, <2>3, <2>4, <2>5, <2>6
  <1>7. QED
    BY <1>4, <1>5, <1>6

LEMMA EpollWaitIInv == ASSUME IInv, EpollWait
                       PROVE  IInv'
  <1> USE NamedFacts DEF IInv
  <1>1. /\ mpc = "epoll_wait" /\ mpc' = "handle" /\ Ready # {}
        /\ UNCHANGED <<i, fds, num_open_fds, met, writing, arrivals, written, taken>>
    BY DEF EpollWait, fifoVars
  <1>2. PICK chosen \in SUBSET Ready :
               /\ Cardinality(chosen) = Min({MAX_EVENTS, Cardinality(Ready)})
               /\ evlist' \in SetToSeqs({EventOf(d) : d \in chosen})
               /\ reported' = [d \in Descriptors |-> IF d \in chosen /\ HungUp(d)
                                                      THEN written[Named[d]] ELSE reported[d]]
    BY DEF EpollWait, EventOf
  <1>3. Ready \in SUBSET Descriptors /\ \A d \in Ready : fds[d] = "open"
    BY DEF Ready
  <1>4. Cardinality(chosen) \in 1 .. MAX_EVENTS
    BY <1>1, <1>2, <1>3, SomeDescriptors, MinOfTwo, SizesAssumption
  <1>5. chosen # {} /\ chosen \in SUBSET Descriptors
    <2>1. Cardinality(chosen) # 0
      BY <1>4, SizesAssumption
    <2>2. chosen # {}
      BY <2>1, FS_EmptySet
    <2>3. QED
      BY <1>3, <2>2
  <1>6. /\ evlist' \in Seq(Event)
        /\ Len(evlist') \in 1 .. MAX_EVENTS
        /\ \A k \in 1 .. Len(evlist') : evlist'[k].fd \in chosen /\ evlist'[k] = EventOf(evlist'[k].fd)
        /\ \A k, l \in 1 .. Len(evlist') : evlist'[k].fd = evlist'[l].fd => k = l
    BY <1>2, <1>4, <1>5, EventList, SizesAssumption
  <1>7. TypeOK'
    <2>1. reported' \in [Descriptors -> 0 .. MaxBytes]
      BY <1>2 DEF TypeOK
    <2>2. QED
      BY <1>1, <1>6, <2>1, SMTT(30) DEF TypeOK, Event
  <1>8. Opening' /\ Counted'
    BY <1>1 DEF Opening, Counted, OpenFds
  <1>9. Pending'
    BY <1>1, <1>3, <1>6, EmptySeq DEF Pending
  <1>10. Flow' /\ Drained'
    <2>1. \A d \in Descriptors : fds[d] = "closed" => reported'[d] = reported[d]
      BY <1>2, <1>3
    <2>2. QED
      BY <1>1, <2>1 DEF Flow, Drained
  <1>11. \A k \in 1 .. Len(evlist') :
           /\ evlist'[k].fd \in Descriptors
           /\ evlist'[k].in <=> Readable(evlist'[k].fd)
           /\ evlist'[k].hup => Named[evlist'[k].fd] \notin writing
    <2> TAKE k \in 1 .. Len(evlist')
    <2>1. PICK d \in Descriptors : evlist'[k] = EventOf(d)
      BY <1>5, <1>6
    <2>2. evlist'[k].fd = d /\ evlist'[k].in = Readable(d) /\ evlist'[k].hup = HungUp(d)
      BY <2>1 DEF EventOf
    <2>3. QED
      BY <2>2 DEF HungUp
  <1>12. StillReadable'
    <2>1. \A d \in Descriptors : Readable(d)' <=> Readable(d)
      BY <1>1 DEF Readable, Bytes
    <2>2. QED
      BY <1>11, <2>1 DEF StillReadable
  <1>13. StillDrained'
    <2>1. ASSUME NEW d \in Descriptors, ~Readable(d)
          PROVE  taken[Named[d]] = written[Named[d]] /\ written[Named[d]] \in Nat
      BY <2>1, BoundsAssumption DEF Readable, Bytes, Flow, TypeOK
    <2>2. ASSUME NEW d \in chosen, ~Readable(d), HungUp(d)
          PROVE  taken'[Named[d]] >= reported'[d]
      <3>1. d \in Descriptors
        BY <1>5
      <3>2. reported'[d] = written[Named[d]]
        BY <1>2, <2>2, <3>1
      <3>3. QED
        BY <1>1, <2>1, <2>2, <3>1, <3>2
    <2>3. \A k \in 1 .. Len(evlist') : ~evlist'[k].in /\ evlist'[k].hup =>
            /\ evlist'[k].fd \in chosen
            /\ ~Readable(evlist'[k].fd)
            /\ HungUp(evlist'[k].fd)
      BY <1>6, <1>11 DEF HungUp
    <2>4. \A k \in 1 .. Len(evlist') : ~evlist'[k].in /\ evlist'[k].hup =>
            taken'[Named[evlist'[k].fd]] >= reported'[evlist'[k].fd]
      BY <2>2, <2>3
    <2>5. QED
      BY <2>4 DEF StillDrained, AllRead
  <1>14. QED
    BY <1>7, <1>8, <1>9, <1>10, <1>12, <1>13

(* The first event is done with, and the others are as they were.          *)
LEMMA NextEventFacts ==
  ASSUME TypeOK, Pending, mpc = "handle", NextEvent
  PROVE  /\ evlist \in Seq(Event) /\ 1 \in 1 .. Len(evlist)
         /\ evlist' \in Seq(Event) /\ Len(evlist') <= MAX_EVENTS
         /\ evlist' # <<>> <=> mpc' = "handle"
         /\ mpc' \in {"handle", "epoll_wait", "exited"}
         /\ \A k \in 1 .. Len(evlist') : k + 1 \in 1 .. Len(evlist) /\ evlist'[k] = evlist[k + 1]
  <1>1. evlist \in Seq(Event) /\ evlist # <<>>
    BY DEF TypeOK, Pending, Event
  <1>2. /\ Len(evlist) \in Nat \ {0} /\ evlist' \in Seq(Event)
        /\ Len(evlist') = Len(evlist) - 1
        /\ \A k \in 1 .. Len(evlist') : evlist'[k] = evlist[k + 1]
    BY <1>1, HeadTailProperties, EmptySeq DEF NextEvent
  <1>3. Len(evlist') <= MAX_EVENTS
    <2>1. Len(evlist) <= MAX_EVENTS
      BY DEF TypeOK
    <2>2. QED
      BY <1>2, <2>1, SizesAssumption
  <1>4. evlist' # <<>> <=> mpc' = "handle"
    BY DEF NextEvent
  <1>5. mpc' \in {"handle", "epoll_wait", "exited"}
    BY DEF NextEvent
  <1>6. QED
    BY <1>1, <1>2, <1>3, <1>4, <1>5

LEMMA ReadIInv == ASSUME IInv, Read
                  PROVE  IInv'
  <1> DEFINE e == evlist[1]
             f == Named[e.fd]
             n == Min({MAX_BUF, Bytes(f)})
  <1> USE NamedFacts DEF IInv
  <1>1. /\ mpc = "handle" /\ e.in
        /\ taken' = [taken EXCEPT ![f] = @ + n]
        /\ UNCHANGED <<i, fds, num_open_fds, met, writing, arrivals, written, reported>>
        /\ NextEvent
    BY DEF Read, fifoVars
  <1>2. /\ evlist \in Seq(Event) /\ 1 \in 1 .. Len(evlist)
        /\ evlist' \in Seq(Event) /\ Len(evlist') <= MAX_EVENTS
        /\ evlist' # <<>> <=> mpc' = "handle"
        /\ mpc' \in {"handle", "epoll_wait", "exited"}
        /\ \A k \in 1 .. Len(evlist') : k + 1 \in 1 .. Len(evlist) /\ evlist'[k] = evlist[k + 1]
    BY <1>1, NextEventFacts
  <1>3. \A k \in 1 .. Len(evlist) : evlist[k] \in Event /\ evlist[k].fd \in Descriptors
    <2>1. \A k \in 1 .. Len(evlist) : evlist[k] \in Event
      BY <1>2, ElementOfSeq
    <2>2. QED
      BY <2>1 DEF Event
  <1>4. f \in Fifos
    BY <1>2, <1>3
  <1>5. written[f] \in 0 .. MaxBytes /\ taken[f] \in 0 .. written[f]
    <2> HIDE DEF f
    <2>1. written[f] \in 0 .. MaxBytes /\ taken[f] \in 0 .. MaxBytes
      BY <1>4 DEF TypeOK
    <2>2. taken[f] <= written[f]
      BY <1>4 DEF Flow
    <2>3. QED
      BY <2>1, <2>2, BoundsAssumption
  <1>6. n \in 0 .. Bytes(f)
    BY <1>5, MinOfTwo, SizesAssumption DEF Bytes
  <1> HIDE DEF n
  <1>7. /\ taken'[f] \in taken[f] .. written[f]
        /\ \A h \in Fifos \ {f} : taken'[h] = taken[h]
        /\ taken' \in [Fifos -> 0 .. MaxBytes]
    <2>1. taken'[f] = taken[f] + n /\ \A h \in Fifos \ {f} : taken'[h] = taken[h]
      BY <1>1, <1>4 DEF TypeOK
    <2>2. taken[f] + n \in taken[f] .. written[f] /\ taken[f] + n \in 0 .. MaxBytes
      <3>1. Bytes(f) = written[f] - taken[f]
        BY DEF Bytes
      <3> HIDE DEF f
      <3>2. QED
        BY <1>5, <1>6, <3>1, BoundsAssumption
    <2>3. QED
      BY <1>1, <1>4, <2>1, <2>2 DEF TypeOK
  <1>8. TypeOK'
    BY <1>1, <1>2, <1>7 DEF TypeOK, Event, Calls
  <1>9. Opening' /\ Counted'
    BY <1>1, <1>2 DEF Opening, Counted, OpenFds
  <1>10. Pending'
    <2>1. ASSUME NEW k \in 1 .. Len(evlist'), NEW l \in 1 .. Len(evlist')
          PROVE  /\ fds[evlist'[k].fd] = "open"
                 /\ evlist'[k].fd = evlist'[l].fd => k = l
      <3>1. /\ k + 1 \in 1 .. Len(evlist) /\ evlist'[k] = evlist[k + 1]
            /\ l + 1 \in 1 .. Len(evlist) /\ evlist'[l] = evlist[l + 1]
        BY <1>2
      <3>2. /\ fds[evlist[k + 1].fd] = "open"
            /\ evlist[k + 1].fd = evlist[l + 1].fd => k + 1 = l + 1
        BY <3>1 DEF Pending
      <3>3. QED
        BY <3>1, <3>2
    <2>2. QED
      BY <1>1, <1>2, <2>1 DEF Pending
  <1>11. Flow'
    <2> HIDE DEF f
    <2>1. taken'[f] <= written[f]
      BY <1>5, <1>7
    <2>2. \A h \in Fifos \ {f} : taken'[h] <= written[h]
      BY <1>7 DEF Flow
    <2>3. QED
      BY <1>1, <2>1, <2>2 DEF Flow
  <1>12. \A d \in Descriptors : AllRead(d) => AllRead(d)'
    <2>1. \A h \in Fifos : taken'[h] >= taken[h] /\ taken[h] \in Nat /\ taken'[h] \in Nat
      <3>1. taken[f] \in Nat /\ taken'[f] \in Nat /\ taken'[f] >= taken[f]
        BY <1>5, <1>7, BoundsAssumption
      <3> HIDE DEF f
      <3>2. \A h \in Fifos : taken[h] \in Nat
        BY DEF TypeOK
      <3>3. QED
        BY <1>7, <3>1, <3>2
    <2>2. \A d \in Descriptors : reported[d] \in Nat
      BY DEF TypeOK
    <2>3. QED
      BY <1>1, <2>1, <2>2 DEF AllRead
  <1>13. StillReadable'
    <2>1. \A k \in 2 .. Len(evlist) : IsInjective(Named) => Named[evlist[k].fd] # f
      BY <1>2, <1>3 DEF Pending, IsInjective
    <2>2. QED
      BY <1>1, <1>2, <1>3, <1>7, <2>1, SMTT(30) DEF StillReadable, Readable, Bytes
  <1>14. StillDrained'
    BY <1>2, <1>3, <1>12 DEF StillDrained
  <1>15. Drained'
    BY <1>1, <1>2, <1>12 DEF Drained, AllRead
  <1>16. QED
    BY <1>8, <1>9, <1>10, <1>11, <1>13, <1>14, <1>15

LEMMA CloseIInv == ASSUME IInv, Close
                   PROVE  IInv'
  <1> DEFINE e == evlist[1]
  <1> USE NamedFacts DEF IInv
  <1>1. /\ mpc = "handle" /\ ~e.in /\ e.hup
        /\ fds' = [fds EXCEPT ![e.fd] = "closed"]
        /\ num_open_fds' = num_open_fds - 1
        /\ UNCHANGED <<i, met, writing, arrivals, written, taken, reported>>
        /\ NextEvent
    BY DEF Close, fifoVars
  <1>2. /\ evlist \in Seq(Event) /\ 1 \in 1 .. Len(evlist)
        /\ evlist' \in Seq(Event) /\ Len(evlist') <= MAX_EVENTS
        /\ evlist' # <<>> <=> mpc' = "handle"
        /\ mpc' \in {"handle", "epoll_wait", "exited"}
        /\ \A k \in 1 .. Len(evlist') : k + 1 \in 1 .. Len(evlist) /\ evlist'[k] = evlist[k + 1]
    BY <1>1, NextEventFacts
  <1>3. \A k \in 1 .. Len(evlist) : evlist[k] \in Event /\ evlist[k].fd \in Descriptors
    <2>1. \A k \in 1 .. Len(evlist) : evlist[k] \in Event
      BY <1>2, ElementOfSeq
    <2>2. QED
      BY <2>1 DEF Event
  <1>4. e.fd \in OpenFds /\ OpenFds' = OpenFds \ {e.fd}
    BY <1>1, <1>2, <1>3 DEF OpenFds, Pending, TypeOK
  <1>5. num_open_fds = Cardinality(OpenFds) /\ num_open_fds' = Cardinality(OpenFds')
    <2>1. IsFiniteSet(OpenFds)
      BY SomeDescriptors DEF OpenFds
    <2>2. num_open_fds = Cardinality(OpenFds)
      BY <1>1 DEF Counted, OpenFds
    <2>3. QED
      <3>1. Cardinality(OpenFds \ {e.fd}) = Cardinality(OpenFds) - 1
        BY <1>4, <2>1, FS_RemoveElement
      <3>2. QED
        BY <1>1, <1>4, <2>2, <3>1
  <1>6. num_open_fds' \in 0 .. Len(Named)
    <2>1. OpenFds' \in SUBSET Descriptors
      BY DEF OpenFds
    <2>2. QED
      BY <1>5, <2>1, SomeDescriptors
  <1>7. TypeOK'
    BY <1>1, <1>2, <1>6 DEF TypeOK, Event, Calls
  <1>8. Opening'
    BY <1>2 DEF Opening
  <1>9. Counted'
    BY <1>5 DEF Counted, OpenFds
  <1>10. Pending'
    <2>1. /\ \A k \in 1 .. Len(evlist) : fds[evlist[k].fd] = "open"
          /\ \A k, l \in 1 .. Len(evlist) : evlist[k].fd = evlist[l].fd => k = l
      BY DEF Pending
    <2>2. ASSUME NEW k \in 1 .. Len(evlist), k # 1
          PROVE  fds'[evlist[k].fd] = "open"
      <3>1. 1 \in 1 .. Len(evlist)
        BY <1>2
      <3>2. evlist[k].fd # evlist[1].fd
        BY <2>1, <2>2, <3>1
      <3>3. evlist[k].fd # e.fd /\ evlist[k].fd \in Descriptors /\ fds[evlist[k].fd] = "open"
        BY <1>3, <2>1, <3>2
      <3>4. QED
        BY <1>1, <3>3 DEF TypeOK
    <2>3. Len(evlist) \in Nat /\ Len(evlist') \in Nat
      BY <1>2, LenProperties
    <2>4. ASSUME NEW k \in 1 .. Len(evlist'), NEW l \in 1 .. Len(evlist')
          PROVE  /\ fds'[evlist'[k].fd] = "open"
                 /\ evlist'[k].fd = evlist'[l].fd => k = l
      <3>1. /\ k + 1 \in 1 .. Len(evlist) /\ k + 1 # 1 /\ evlist'[k] = evlist[k + 1]
            /\ l + 1 \in 1 .. Len(evlist) /\ evlist'[l] = evlist[l + 1]
        BY <1>2, <2>3
      <3>2. evlist[k + 1].fd = evlist[l + 1].fd => k + 1 = l + 1
        BY <2>1, <3>1
      <3>3. QED
        BY <2>2, <2>3, <3>1, <3>2
    <2>5. QED
      BY <1>2, <2>4 DEF Pending
  <1>11. Flow'
    BY <1>1 DEF Flow
  <1>12. \A d \in Descriptors : (AllRead(d) <=> AllRead(d)') /\ (Readable(d) <=> Readable(d)')
    BY <1>1 DEF AllRead, Readable, Bytes
  <1>13. StillReadable'
    BY <1>2, <1>3, <1>12 DEF StillReadable
  <1>14. StillDrained'
    BY <1>2, <1>3, <1>12 DEF StillDrained
  <1>15. Drained'
    <2>1. AllRead(e.fd)
      BY <1>1, <1>2 DEF StillDrained
    <2>2. \A d \in Descriptors : fds[d] = "closed" => AllRead(d)
      BY <1>1 DEF Drained, AllRead
    <2>3. \A d \in Descriptors : fds'[d] = "closed" => d = e.fd \/ fds[d] = "closed"
      BY <1>1 DEF TypeOK
    <2>4. QED
      BY <1>12, <2>1, <2>2, <2>3 DEF Drained, AllRead
  <1>16. QED
    BY <1>7, <1>8, <1>9, <1>10, <1>11, <1>13, <1>14, <1>15

LEMMA ErrorIInv == ASSUME IInv, Error
                   PROVE  IInv'
  <1> USE NamedFacts DEF IInv
  <1>1. /\ mpc' = "failed" /\ evlist' = <<>>
        /\ fds' = [d \in Descriptors |-> IF fds[d] = "open" THEN "closed" ELSE fds[d]]
        /\ UNCHANGED <<i, num_open_fds, met, writing, arrivals, written, taken, reported>>
    BY DEF Error, fifoVars
  <1>2. OpenFds' = {}
    BY <1>1 DEF OpenFds
  <1>3. TypeOK'
    BY <1>1, EmptySeq, SizesAssumption DEF TypeOK
  <1>4. Opening' /\ Pending' /\ Counted' /\ StillReadable' /\ StillDrained' /\ Drained'
    BY <1>1 DEF Opening, Pending, Counted, StillReadable, StillDrained, Drained
  <1>5. Flow'
    BY <1>1 DEF Flow
  <1>6. QED
    BY <1>3, <1>4, <1>5

LEMMA WriterIInv == ASSUME IInv, NEW f \in Fifos, Arrive(f) \/ Write(f) \/ Leave(f)
                    PROVE  IInv'
  <1> USE NamedFacts DEF IInv
  <1>1. UNCHANGED <<mpc, i, fds, num_open_fds, evlist, taken, reported>>
    BY DEF Arrive, Write, Leave
  <1>2. TypeOK'
    <2>1. CASE Arrive(f)
      BY <2>1, BoundsAssumption DEF Arrive, TypeOK
    <2>2. CASE Write(f)
      BY <2>2, BoundsAssumption, SMTT(30) DEF Write, TypeOK
    <2>3. CASE Leave(f)
      BY <2>3 DEF Leave, TypeOK
    <2>4. QED
      BY <2>1, <2>2, <2>3
  <1>3. \A h \in Fifos : written'[h] >= written[h]
    <2>1. CASE Arrive(f) \/ Leave(f)
      BY <2>1, BoundsAssumption DEF Arrive, Leave, TypeOK
    <2>2. CASE Write(f)
      BY <2>2, SMTT(30) DEF Write, TypeOK
    <2>3. QED
      BY <2>1, <2>2
  <1>4. \A h \in Fifos : written[h] \in Nat /\ written'[h] \in Nat /\ taken[h] \in Nat
    BY <1>2, BoundsAssumption DEF TypeOK
  <1>5. Opening' /\ Pending' /\ Counted'
    BY <1>1 DEF Opening, Pending, Counted, OpenFds
  <1>6. Flow'
    BY <1>1, <1>3, <1>4 DEF Flow
  <1>7. \A k \in 1 .. Len(evlist) : evlist[k].fd \in Descriptors
    <2>1. \A k \in 1 .. Len(evlist) : evlist[k] \in Event
      BY ElementOfSeq DEF TypeOK, Event
    <2>2. QED
      BY <2>1 DEF Event
  <1>8. StillReadable'
    <2>1. \A d \in Descriptors : Readable(d) => Readable(d)'
      BY <1>1, <1>3, <1>4 DEF Readable, Bytes
    <2>2. QED
      BY <1>1, <1>7, <2>1 DEF StillReadable
  <1>9. StillDrained' /\ Drained'
    BY <1>1 DEF StillDrained, Drained, AllRead
  <1>10. QED
    BY <1>2, <1>5, <1>6, <1>8, <1>9

LEMMA NextIInv == IInv /\ [Next]_vars => IInv'
  <1>1. ASSUME IInv, UNCHANGED vars PROVE IInv'
    <2> USE <1>1 DEF vars, IInv
    <2>1. TypeOK'
      BY DEF TypeOK
    <2>2. Opening' /\ Counted'
      BY DEF Opening, OpenFds, Counted
    <2>3. Pending' /\ Flow'
      BY DEF Pending, Flow
    <2>4. StillReadable' /\ StillDrained' /\ Drained'
      BY DEF StillReadable, StillDrained, Drained, AllRead, Readable, Bytes
    <2>5. QED
      BY <2>1, <2>2, <2>3, <2>4
  <1>2. QED
    BY <1>1, OpeningIInv, EpollWaitIInv, ReadIInv, CloseIInv, ErrorIInv, WriterIInv
       DEF Next, MainStep, Ended

LEMMA Invariance == Spec => []IInv
  BY InitIInv, NextIInv, PTL DEF Spec
-------------------------------------------------------------------------------
(* The variables keep their types.                                         *)
THEOREM TypeCorrect == Spec => []TypeOK
  <1>1. IInv => TypeOK
    BY DEF IInv
  <1>2. QED
    BY <1>1, Invariance, PTL

(* main's count is that of the descriptors it has open, whichever events   *)
(* epoll_wait reports, and in whichever order.                             *)
THEOREM Counting == Spec => []Counted
  <1>1. IInv => Counted
    BY DEF IInv
  <1>2. QED
    BY <1>1, Invariance, PTL

(* A read that an event called for finds bytes, unless a FIFO is named     *)
(* twice.                                                                  *)
THEOREM Unblocked == Spec => []ReadNeverBlocks
  <1>1. IInv => ReadNeverBlocks
    <2> SUFFICES ASSUME IInv, IsInjective(Named), mpc = "handle", evlist[1].in
                 PROVE  Readable(evlist[1].fd)
      BY DEF ReadNeverBlocks
    <2>1. 1 \in 1 .. Len(evlist)
      BY EmptySeq DEF IInv, Pending, TypeOK
    <2>2. QED
      BY <2>1 DEF IInv, StillReadable
  <1>2. QED
    BY <1>1, Invariance, PTL

(* When a descriptor is closed at a hang-up, all has been read that was    *)
(* written before the hang-up was reported, even if the FIFO has got       *)
(* another writer since, or is named twice.                                *)
THEOREM Draining == Spec => []Drained
  <1>1. IInv => Drained
    BY DEF IInv
  <1>2. QED
    BY <1>1, Invariance, PTL
===============================================================================
