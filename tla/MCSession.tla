------------------------------- MODULE MCSession -------------------------------
(* Instances of Session for TLC.                                           *)
EXTENDS Session

TwoClients == {"c1", "c2"}
OneClient == {"c1"}
Hi == <<104, 105, 33>>    \* "hi!"
AllCalls == Calls
Everyone == Clients \cup {Server}
None == {}
===============================================================================
