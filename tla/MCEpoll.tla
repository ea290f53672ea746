------------------------------- MODULE MCEpoll -------------------------------
(* Instances of Epoll for TLC.                                             *)
EXTENDS Epoll

ThreeFifos == <<"a", "b", "c">>
AllCalls == Calls
===============================================================================
