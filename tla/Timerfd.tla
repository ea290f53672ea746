------------------------------- MODULE Timerfd -------------------------------
(***************************************************************************)
(* timer_template/timerfd/timerfd.cpp: arm a timer as the first argument   *)
(* says and read its expirations until there have been max_loop of them,   *)
(* which is the second argument.  Both arguments are given.                *)
(***************************************************************************)
EXTENDS Integers, SequencesExt

CONSTANTS Specs,      \* what the first argument may ask for, see Format
          Clocks,     \* readings of the monotonic clock, [sec, nsec]
          MaxLoops,   \* what the second argument may be
          IntMax,     \* INT_MAX: an int is one of 2 * (IntMax + 1) numbers
          MaxExpired, \* bound: expirations in one run of the program
          Failing     \* the system calls that may return -1

VARIABLES mpc,        \* where main is, by its next system call
          spec,       \* what the first argument asks for
          time,       \* struct itimerspec time, a record of the four numbers
          max_loop,
          armed,      \* the timer: "no", "once" or "periodic"
          due,        \* its expirations that have not been read
          taken,      \* history: those that have
          num_loop, total_loop,
          start, now  \* what the clock has said

vars == <<mpc, spec, time, max_loop, armed, due, taken, num_loop, total_loop, start, now>>

NsecPerSec == 1000000000
NsecPerMs == 1000000
-------------------------------------------------------------------------------
(* The first argument as a sequence of tokens: a number, ":" or "/".       *)

Colon == -1
Slash == -2

\* A part of the specification is a second and perhaps a nanosecond, <<1>> or <<1, 2>>.
\* The argument is one part, or two: the time of the first expiration and the period.
FormatPart(part) == IF Len(part) = 1 THEN part ELSE <<part[1], Slash, part[2]>>
Format(s) == IF Len(s) = 1 THEN FormatPart(s[1])
             ELSE FormatPart(s[1]) \o <<Colon>> \o FormatPart(s[2])

\* The place of the first c, or 0.
strchr(str, c) == LET places == {k \in DOMAIN str : str[k] = c}
                  IN  IF places = {} THEN 0 ELSE Min(places)
Before(str, k) == IF k = 0 THEN str ELSE SubSeq(str, 1, k - 1)
After(str, k) == SubSeq(str, k + 1, Len(str))
atoi(str) == IF str = <<>> \/ Head(str) < 0 THEN 0 ELSE Head(str)

Seconds(str) == atoi(Before(str, strchr(str, Slash)))
Nanoseconds(str) == IF strchr(str, Slash) = 0 THEN 0 ELSE atoi(After(str, strchr(str, Slash)))

\* Mutant: the colon does not end the first part.
ItimerspecUncut(str) ==
  LET colon == strchr(str, Colon)
      period == After(str, colon)
  IN  [value |-> <<Seconds(str), Nanoseconds(str)>>,
       interval |-> IF colon = 0 THEN <<0, 0>> ELSE <<Seconds(period), Nanoseconds(period)>>]

ItimerspecFromStr(str) ==
  LET colon == strchr(str, Colon)
      value == Before(str, colon)
      period == After(str, colon)
  IN  [value |-> <<Seconds(value), Nanoseconds(value)>>,
       interval |-> IF colon = 0 THEN <<0, 0>> ELSE <<Seconds(period), Nanoseconds(period)>>]
-------------------------------------------------------------------------------
\* What is left of x in an int.
IntMin == -(IntMax + 1)
AsInt(x) == ((x - IntMin) % (2 * (IntMax + 1))) + IntMin

\* The seconds and the milliseconds that are printed.  There may be 1000 milliseconds, which
\* printf then puts after a decimal point.
Elapsed(from, to) ==
  LET secs == to.sec - from.sec
      nsecs == to.nsec - from.nsec
      s == IF nsecs < 0 THEN secs - 1 ELSE secs
      n == IF nsecs < 0 THEN nsecs + NsecPerSec ELSE nsecs
  IN  <<s, (n + NsecPerMs \div 2) \div NsecPerMs>>

NotBefore(t, u) == t.sec > u.sec \/ (t.sec = u.sec /\ t.nsec >= u.nsec)

Zero == [sec |-> 0, nsec |-> 0]

Init == /\ mpc = "timerfd_create"
        /\ spec \in Specs
        /\ time = ItimerspecFromStr(Format(spec))
        /\ max_loop \in MaxLoops
        /\ armed = "no"
        /\ due = 0 /\ taken = 0
        /\ num_loop = 0 /\ total_loop = 0
        /\ start = Zero /\ now = Zero

Test(total) == IF total < max_loop THEN "read" ELSE "exited"

clocks == <<start, now>>
loops == <<taken, num_loop, total_loop>>
args == <<spec, time, max_loop>>

TimerfdCreate == /\ mpc = "timerfd_create"
                 /\ mpc' = "timerfd_settime"
                 /\ UNCHANGED <<args, armed, due, loops, clocks>>

\* EINVAL if the nanoseconds make a second; a value of zero disarms.
TimerfdSettime == /\ mpc = "timerfd_settime"
                  /\ IF time.value[2] < NsecPerSec /\ time.interval[2] < NsecPerSec
                     THEN /\ mpc' = "clock_start"
                          /\ armed' = IF time.value = <<0, 0>> THEN "no"
                                      ELSE IF time.interval = <<0, 0>> THEN "once"
                                      ELSE "periodic"
                     ELSE mpc' = "failed" /\ UNCHANGED armed
                  /\ UNCHANGED <<args, due, loops, clocks>>

ClockStart == /\ mpc = "clock_start"
              /\ start' \in Clocks
              /\ now' = start'
              /\ mpc' = Test(0)
              /\ UNCHANGED <<args, armed, due, loops>>

\* Mutant: the number that was read is not looked at.
ReadOne == /\ mpc = "read"
           /\ due > 0
           /\ mpc' = "clock_now"
           /\ due' = 0
           /\ taken' = taken + due
           /\ num_loop' = 1
           /\ total_loop' = AsInt(total_loop + 1)
           /\ UNCHANGED <<args, armed, clocks>>

\* read blocks until there is an expiration and says how many there have been since the
\* last read, in 8 bytes of which num_loop has the first 4; the others fall on bytes of
\* the data segment that nothing reads.
Read == /\ mpc = "read"
        /\ due > 0
        /\ mpc' = "clock_now"
        /\ due' = 0
        /\ taken' = taken + due
        /\ num_loop' = AsInt(due)
        /\ total_loop' = AsInt(total_loop + num_loop')
        /\ UNCHANGED <<args, armed, clocks>>

ClockNow == /\ mpc = "clock_now"
            /\ now' \in {t \in Clocks : NotBefore(t, now)}
            /\ mpc' = Test(total_loop)
            /\ UNCHANGED <<args, armed, due, loops, start>>

Error == /\ \/ mpc \in {"timerfd_create", "timerfd_settime", "read"} \cap Failing
            \/ (mpc \in {"clock_start", "clock_now"} /\ "clock_gettime" \in Failing)
         /\ mpc' = "failed"
         /\ UNCHANGED <<args, armed, due, loops, clocks>>

MainStep == TimerfdCreate \/ TimerfdSettime \/ ClockStart \/ Read \/ ClockNow

\* However long main is kept from reading, the kernel goes on counting.
Expire == /\ armed # "no"
          /\ taken + due < MaxExpired
          /\ due' = due + 1
          /\ armed' = IF armed = "once" THEN "no" ELSE armed
          /\ UNCHANGED <<mpc, args, loops, clocks>>

\* For ever, too, if the timer is not armed any more.
Ended == /\ \/ mpc \in {"exited", "failed"}
            \/ (mpc = "read" /\ due = 0 /\ (armed = "no" \/ taken = MaxExpired))
         /\ UNCHANGED vars

Next == MainStep \/ Error \/ Expire \/ Ended

Spec == Init /\ [][Next]_vars
-------------------------------------------------------------------------------
(* TypeOK: the ranges of the variables.                                    *)
Ints == IntMin .. IntMax
TypeOK == /\ mpc \in {"timerfd_create", "timerfd_settime", "clock_start", "read", "clock_now",
                      "exited", "failed"}
          /\ spec \in Specs /\ max_loop \in MaxLoops
          /\ {time.value, time.interval} \subseteq Nat \X Nat
          /\ armed \in {"no", "once", "periodic"}
          /\ taken + due \in 0 .. MaxExpired
          /\ {num_loop, total_loop} \subseteq Ints
          /\ {start, now} \subseteq Clocks \cup {Zero}

(* Parsed: the timer is set to what the argument asks for in the format of *)
(* the comment at line 21: a part, or a second number, that is left out    *)
(* is zero and is never taken from the other part.                         *)
Part(s, k) == IF k > Len(s) THEN <<0, 0>> ELSE IF Len(s[k]) = 1 THEN <<s[k][1], 0>> ELSE s[k]
Parsed == time.value = Part(spec, 1) /\ time.interval = Part(spec, 2)

Overflow == taken > IntMax
(* PrintsRight: main leaves with success only after max_loop expirations,  *)
(* however many of them each read finds, even when the int it counts in    *)
(* overflows; until then the total is exact and main does not read on once *)
(* it has enough; and the elapsed time, taken as a number, is the clock's  *)
(* to half a millisecond.                                                  *)
PrintsRight == /\ mpc = "exited" => taken >= max_loop
               /\ ~Overflow => total_loop = taken
               /\ mpc = "read" /\ ~Overflow => taken < max_loop
               /\ LET ns == (now.sec - start.sec) * NsecPerSec + now.nsec - start.nsec
                      printed == Elapsed(start, now)
                  IN  printed[1] * NsecPerSec + printed[2] * NsecPerMs - ns
                        \in -(NsecPerMs \div 2) .. NsecPerMs \div 2

(* EnoughLeadsToExit: main ends unless its timer is not armed, or expires  *)
(* only once and is asked for more, or the count overflows.                *)
EnoughLeadsToExit ==
  mpc = "read" /\ (armed = "periodic" \/ (max_loop = 1 /\ (armed = "once" \/ due > 0)))
    ~> mpc \in {"exited", "failed"} \/ Overflow
===============================================================================
