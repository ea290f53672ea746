------------------------------ MODULE MCPrograms ------------------------------
(* The arguments and the clock readings that the programs are run with.    *)
EXTENDS Programs

\* What exit keeps of -1, 256 and 300 is another number; 1000 stands for no argument.
MCArgs == {-1, 0, 3, 256, 300, Absent}

\* 1  0  0/5  1:2/3  1/2:3  1/2:3/4  0:1  0/1000000000 (refused)
MCSpecs == { << <<1>> >>, << <<0>> >>, << <<0, 5>> >>, << <<1>>, <<2, 3>> >>,
             << <<1, 2>>, <<3>> >>, << <<1, 2>>, <<3, 4>> >>, << <<0>>, <<1>> >>,
             << <<0, 1000000000>> >> }

\* Differences that are rounded up to a whole second, that borrow one, and the largest.
MCClocks == { [sec |-> 0, nsec |-> 0], [sec |-> 0, nsec |-> 999600000],
              [sec |-> 1, nsec |-> 100000000], [sec |-> 1, nsec |-> 999999999] }
===============================================================================
