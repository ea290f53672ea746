------------------------------- MODULE Session -------------------------------
(***************************************************************************)
(* socket_template/internet_socket: the server and its clients (the code   *)
(* compiled with #if 1).  A client connects, sends its request and a       *)
(* newline, and reads one line; the server accepts one connection, reads a *)
(* line, answers without a newline and closes, and finds its descriptor    *)
(* closed when its loop comes round.                                       *)
(*                                                                         *)
(* TCP is two streams per connection.  A call of Readline is one step that *)
(* waits for a whole line or the end of the stream: module Readline shows  *)
(* what the bytewise reading amounts to.  A location is named after the    *)
(* next call; an ended process is "exited" (0), "failed" (-1) or "killed". *)
(***************************************************************************)
EXTENDS Lines

CONSTANTS Clients,     \* at most BACKLOG of them
          Request,     \* "hello"
          ServerSize,  \* DATA_MAX_SIZE of the server
          ClientSize,  \* DATA_MAX_SIZE of the client
          Failing,     \* the calls that may return -1
          Killable     \* the processes that a signal may kill

Calls == {"socket", "setsockopt", "bind", "listen", "accept", "connect", "read", "write", "close"}
Server == "server"
Answer == <<111, 107>>    \* "ok"

ASSUME RequestAssumption == Request \in Seq(Nat) /\ Request # <<>> /\ ~HasLine(Request)
ASSUME SizesAssumption == ServerSize \in Nat \ {0, 1} /\ ClientSize \in Nat \ {0, 1}
ASSUME FailingAssumption == Failing \subseteq Calls
ASSUME KillableAssumption == Killable \subseteq Clients \cup {Server}

VARIABLES cpc,      \* where each client is
          spc,      \* where the server is
          queue,    \* connections made and not accepted yet, in order
          accepted, \* the client the server has accepted, as a set
          open,     \* open[c]: the ends, of "client" and "server", of c's connection
          reset,    \* the clients whose connection has been reset
          up, down, \* bytes sent to the server and to the client, not read yet
          req,      \* the server's req_data
          ack       \* each client's ack_data

vars == <<cpc, spc, queue, accepted, open, reset, up, down, req, ack>>
connection == <<open, reset, up, down>>

ended == {"exited", "failed", "killed"}
listening == {"accept", "readline", "answer", "close", "loop"}

Init == /\ cpc = [c \in Clients |-> "socket"]
        /\ spc = "socket"
        /\ queue = <<>> /\ accepted = {}
        /\ open = [c \in Clients |-> {}] /\ reset = {}
        /\ up = [c \in Clients |-> <<>>] /\ down = [c \in Clients |-> <<>>]
        /\ req = <<>>
        /\ ack = [c \in Clients |-> <<>>]
-------------------------------------------------------------------------------
(* A client.                                                               *)

Socket(c) == /\ cpc[c] = "socket"
             /\ cpc' = [cpc EXCEPT ![c] = "connect"]
             /\ UNCHANGED <<spc, queue, accepted, connection, req, ack>>

\* It succeeds as soon as somebody listens, before any accept.
Connect(c) == /\ cpc[c] = "connect"
              /\ spc \in listening
              /\ cpc' = [cpc EXCEPT ![c] = "write"]
              /\ queue' = Append(queue, c)
              /\ open' = [open EXCEPT ![c] = {"client", "server"}]
              /\ UNCHANGED <<spc, accepted, reset, up, down, req, ack>>

\* A client's end closes its side; answers it has not read reset the connection.
ClientEnd(c, how) == /\ cpc' = [cpc EXCEPT ![c] = how]
                     /\ open' = [open EXCEPT ![c] = @ \ {"client"}]
                     /\ reset' = IF down[c] # <<>> THEN reset \cup {c} ELSE reset

ConnectionRefused(c) == /\ cpc[c] = "connect"
                        /\ spc \notin listening
                        /\ ClientEnd(c, "failed")
                        /\ UNCHANGED <<spc, queue, accepted, up, down, req, ack>>

\* Bytes sent to a server that is gone are lost, and provoke a reset.
Send(c, bytes) == IF "server" \in open[c]
                  THEN up' = [up EXCEPT ![c] = @ \o bytes] /\ UNCHANGED reset
                  ELSE reset' = reset \cup {c} /\ UNCHANGED up

Write(c) == /\ \/ cpc[c] = "write" /\ Send(c, Request) /\ cpc' = [cpc EXCEPT ![c] = "newline"]
               \/ cpc[c] = "newline" /\ Send(c, <<Newline>>) /\ cpc' = [cpc EXCEPT ![c] = "readline"]
            /\ UNCHANGED <<spc, queue, accepted, open, down, req, ack>>

\* SIGPIPE or an error, once the reset has been received.
WriteAfterReset(c) == /\ cpc[c] \in {"write", "newline"}
                      /\ c \in reset
                      /\ \E how \in {"failed", "killed"} : ClientEnd(c, how)
                      /\ UNCHANGED <<spc, queue, accepted, up, down, req, ack>>

\* The answer has no newline: Readline ends with the stream.
ClientReadline(c) == /\ cpc[c] = "readline"
                     /\ HasLine(down[c]) \/ "server" \notin open[c]
                     /\ ack' = [ack EXCEPT ![c] = Stored(down[c], ClientSize)]
                     /\ down' = [down EXCEPT ![c] = Rest(@)]
                     /\ cpc' = [cpc EXCEPT ![c] = IF Line(down[c]) = <<>> THEN "failed" ELSE "exited"]
                     /\ open' = [open EXCEPT ![c] = @ \ {"client"}]
                     /\ UNCHANGED <<spc, queue, accepted, reset, up, req>>

ClientReset(c) == /\ cpc[c] = "readline"
                  /\ c \in reset
                  /\ ClientEnd(c, "failed")
                  /\ UNCHANGED <<spc, queue, accepted, up, down, req, ack>>

ClientCall(loc) == IF loc = "newline" THEN "write" ELSE IF loc = "readline" THEN "read" ELSE loc

ClientError(c) == /\ ClientCall(cpc[c]) \in Failing
                  /\ ClientEnd(c, "failed")
                  /\ UNCHANGED <<spc, queue, accepted, up, down, req, ack>>

Client(c) == \/ Socket(c) \/ Connect(c) \/ ConnectionRefused(c) \/ Write(c) \/ WriteAfterReset(c)
             \/ ClientReadline(c) \/ ClientReset(c)
-------------------------------------------------------------------------------
(* The server.                                                             *)

Listen == /\ \/ spc = "socket" /\ spc' = "setsockopt"
             \/ spc = "setsockopt" /\ spc' = "bind"
             \/ spc = "bind" /\ spc' = "listen"
             \/ spc = "listen" /\ spc' = "accept"
          /\ UNCHANGED <<cpc, queue, accepted, connection, req, ack>>

Accept == /\ spc = "accept"
          /\ queue # <<>>
          /\ accepted' = {Head(queue)}
          /\ queue' = Tail(queue)
          /\ spc' = "loop"
          /\ UNCHANGED <<cpc, connection, req, ack>>

\* Mutant: the server answers before it reads.
LoopAnswers == /\ spc = "loop"
               /\ spc' = "answer"
               /\ UNCHANGED <<cpc, queue, accepted, connection, req, ack>>

\* The address is looked up and printed.
Loop == /\ spc = "loop"
        /\ spc' = "readline"
        /\ UNCHANGED <<cpc, queue, accepted, connection, req, ack>>

\* Closing a connection that has bytes not read, or was never accepted, resets it.
Hangup(cs) == /\ open' = [c \in Clients |-> IF c \in cs THEN open[c] \ {"server"} ELSE open[c]]
              /\ reset' = reset \cup {c \in cs : "server" \in open[c]
                                                 /\ (up[c] # <<>> \/ c \notin accepted)}

ServerEnd(how) == /\ spc' = how
                  /\ Hangup(Clients)
                  /\ UNCHANGED <<cpc, queue, accepted, up, down, req, ack>>

ServerReadline == /\ spc = "readline"
                  /\ \E c \in accepted :
                       /\ "server" \in open[c]
                       /\ HasLine(up[c]) \/ (up[c] # <<>> /\ "client" \notin open[c])
                       /\ req' = Stored(up[c], ServerSize)
                       /\ up' = [up EXCEPT ![c] = Rest(@)]
                  /\ spc' = "answer"
                  /\ UNCHANGED <<cpc, queue, accepted, open, reset, down, ack>>

\* Readline returns 0 when the client has gone, -1 when the connection was reset or
\* accept_fd is closed: the server closes it (again) and ends.
ServerReadNothing == /\ spc = "readline"
                     /\ \E c \in accepted : \/ "server" \notin open[c]
                                            \/ c \in reset
                                            \/ up[c] = <<>> /\ "client" \notin open[c]
                     /\ ServerEnd("failed")

\* A failed write is only reported.
Reply == /\ spc = "answer"
         /\ \E c \in accepted :
              down' = IF "client" \in open[c] THEN [down EXCEPT ![c] = @ \o Answer] ELSE down
         /\ spc' = "close"
         /\ UNCHANGED <<cpc, queue, accepted, open, reset, up, req, ack>>

ReplyError == /\ spc = "answer"
              /\ "write" \in Failing
              /\ spc' = "close"
              /\ UNCHANGED <<cpc, queue, accepted, connection, req, ack>>

\* Mutant: the connection is not closed.
NoClose == /\ spc = "close"
           /\ spc' = "loop"
           /\ UNCHANGED <<cpc, queue, accepted, connection, req, ack>>

\* Mutant: the next connection is accepted.
CloseAcceptNext == /\ spc = "close"
                   /\ Hangup(accepted)
                   /\ spc' = "accept"
                   /\ UNCHANGED <<cpc, queue, accepted, up, down, req, ack>>

Close == /\ spc = "close"
         /\ Hangup(accepted)
         /\ spc' = "loop"
         /\ UNCHANGED <<cpc, queue, accepted, up, down, req, ack>>

ServerCall == IF spc = "readline" THEN "read" ELSE spc

ServerError == /\ ServerCall \in Failing
               /\ ServerEnd("failed")

ServerStep == \/ Listen \/ Accept \/ Loop \/ ServerReadline \/ ServerReadNothing
              \/ Reply \/ Close
-------------------------------------------------------------------------------
KillServer == /\ Server \in Killable
              /\ spc \notin ended
              /\ ServerEnd("killed")

KillClient(c) == /\ c \in Killable
                 /\ cpc[c] \notin ended
                 /\ ClientEnd(c, "killed")
                 /\ UNCHANGED <<spc, queue, accepted, up, down, req, ack>>

\* The server may wait for a client for ever.
Idle == /\ \A c \in Clients : cpc[c] \in ended
        /\ spc \in ended \cup {"accept"}
        /\ UNCHANGED vars

Next == \/ ServerStep \/ ReplyError \/ ServerError \/ KillServer
        \/ \E c \in Clients : Client(c) \/ ClientError(c) \/ KillClient(c)
        \/ Idle

Spec == Init /\ [][Next]_vars

\* Every process runs, no call need fail, and TCP delivers what it has accepted.
FairSpec == Spec /\ WF_vars(ServerStep) /\ \A c \in Clients : WF_vars(Client(c))
-------------------------------------------------------------------------------
(* TypeOK: the ranges of the variables.                                    *)
TypeOK == /\ cpc \in [Clients -> {"socket", "connect", "write", "newline", "readline"} \cup ended]
          /\ spc \in {"socket", "setsockopt", "bind", "listen"} \cup listening \cup ended
          /\ queue \in Seq(Clients)
          /\ accepted \in SUBSET Clients
          /\ open \in [Clients -> SUBSET {"client", "server"}]
          /\ reset \in SUBSET Clients
          /\ up \in [Clients -> Seq(Nat)] /\ down \in [Clients -> Seq(Nat)]
          /\ req \in Seq(Nat) /\ (spc \in {"answer", "close"} => req # <<>>)
          /\ ack \in [Clients -> Seq(Nat)]

(* AckMeansReceived: a client that reports an answer reports the server's, *)
(* and the server had received its whole request, as far as its buffer     *)
(* holds it; so it is never the answer to half a request or to another's.  *)
AckMeansReceived == \A c \in Clients : cpc[c] = "exited" =>
                      /\ ack[c] = Stored(Answer, ClientSize)
                      /\ c \in accepted
                      /\ req = Stored(Append(Request, Newline), ServerSize)

(* ClientsEnd: no client waits for ever, though the answer lacks the       *)
(* newline its Readline looks for and most are never accepted.             *)
ClientsEnd == (\E c \in accepted : TRUE) ~> (\A c \in Clients : cpc[c] \in ended)

(* ServerEnds: the server ends after the connection it has accepted.       *)
ServerEnds == accepted # {} ~> (spc \in ended)

(* ConnectionEstablished: line 82 of the server says, at the head of the   *)
(* loop, that here the connection is established.                          *)
ConnectionEstablished == spc = "loop" => \E c \in accepted : "server" \in open[c]
===============================================================================
