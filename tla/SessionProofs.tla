---------------------------- MODULE SessionProofs ----------------------------
(***************************************************************************)
(* Theorems about Session, for every number of clients, every request and  *)
(* all sizes of the buffers.                                               *)
(***************************************************************************)
EXTENDS Session, SequenceTheorems, TLAPS

Whole == Append(Request, Newline)
Unconnected(c) == cpc[c] \in {"socket", "connect"}
Answered(c) == down[c] # <<>> \/ cpc[c] = "exited"

(* The server accepts one connection in its life.                          *)
AcceptsOnce == /\ \A c, d \in accepted : c = d
               /\ spc \notin listening \cup ended \/ spc = "accept" => accepted = {}

(* Who holds the client's end, and what there is of a client that has not  *)
(* connected: nothing.                                                     *)
ClientEnds == \A c \in Clients :
                /\ "client" \in open[c] <=> cpc[c] \in {"write", "newline", "readline"}
                /\ Unconnected(c) => /\ open[c] = {} /\ up[c] = <<>> /\ down[c] = <<>>
                                     /\ c \notin accepted

Queued == \A k \in 1 .. Len(queue) : ~Unconnected(queue[k])

(* What a client has sent and the server has not taken: a whole request    *)
(* only if its newline has been written.                                   *)
Upstream == \A c \in Clients :
              /\ up[c] \in {<<>>, Request, Whole}
              /\ cpc[c] = "write" => up[c] = <<>>
              /\ cpc[c] = "newline" => /\ up[c] # Whole
                                       /\ "server" \in open[c] => up[c] = Request

(* The answer is sent once, and only to a client whose whole request is in *)
(* req; after it nothing more is read from that client.                    *)
Downstream == \A c \in Clients :
                /\ down[c] \in {<<>>, Answer}
                /\ Answered(c) => /\ c \in accepted
                                  /\ req = Stored(Whole, ServerSize)
                                  /\ spc = "close" \/ "server" \notin open[c]

(* A client that is still there when it is answered has sent it all.       *)
Answering == spc = "answer" =>
               \A c \in accepted : /\ ~Answered(c)
                                   /\ "client" \in open[c] => req = Stored(Whole, ServerSize)

Printed == \A c \in Clients : cpc[c] = "exited" => ack[c] = Stored(Answer, ClientSize)

IInv == /\ TypeOK
        /\ AcceptsOnce
        /\ ClientEnds
        /\ Queued
        /\ Upstream
        /\ Downstream
        /\ Answering
        /\ Printed
-------------------------------------------------------------------------------
(* Lines of the few streams there are.                                     *)

LEMMA Lineless == ~HasLine(<<>>) /\ ~HasLine(Request)
  BY RequestAssumption DEF HasLine, Range

LEMMA LinelessLine == ASSUME NEW s, ~HasLine(s)
                      PROVE  Line(s) = s
  BY DEF Line

(* A stream that ends with its only newline is one line.                   *)
LEMMA WholeLine == Line(Whole) = Whole
  <1> DEFINE n == Len(Request) + 1
  <1>1. Request \in Seq(Nat) /\ Newline \in Nat
    BY RequestAssumption DEF Newline
  <1>2. /\ Whole \in Seq(Nat) /\ Len(Whole) = n /\ n \in Nat
        /\ \A k \in 1 .. Len(Request) : Whole[k] = Request[k]
        /\ Whole[n] = Newline
    BY <1>1, AppendProperties DEF Whole
  <1>3. {k \in 1 .. Len(Whole) : Whole[k] = Newline} = {n}
    <2>1. \A k \in 1 .. Len(Request) : Request[k] # Newline
      BY <1>1, RequestAssumption DEF HasLine, Range
    <2>2. QED
      BY <1>1, <1>2, <2>1
  <1>4. Min({n}) = n
    BY <1>2 DEF Min
  <1>5. HasLine(Whole)
    BY <1>2 DEF HasLine, Range
  <1>6. SubSeq(Whole, 1, n) = Whole
    BY <1>2, SubSeqFull
  <1>7. QED
    BY <1>2, <1>3, <1>4, <1>5, <1>6 DEF Line

(* So every line is the whole stream, and the rest is empty.               *)
LEMMA OneLineStreams ==
  ASSUME NEW s \in {<<>>, Request, Whole, Answer}
  PROVE  s \in Seq(Nat) /\ Line(s) = s /\ Rest(s) = <<>>
  <1>1. s \in Seq(Nat)
    <2>1. Request \in Seq(Nat) /\ Newline \in Nat
      BY RequestAssumption DEF Newline
    <2>2. Whole \in Seq(Nat)
      BY <2>1, AppendProperties DEF Whole
    <2>3. Answer \in Seq(Nat) /\ <<>> \in Seq(Nat)
      BY DEF Answer
    <2>4. QED
      BY <2>1, <2>2, <2>3
  <1>2. ~HasLine(Answer)
    BY DEF HasLine, Range, Answer, Newline
  <1>3. Line(s) = s
    BY <1>2, WholeLine, Lineless, LinelessLine
  <1>4. SubSeq(s, Len(s) + 1, Len(s)) = <<>>
    BY <1>1, SubSeqEmpty
  <1>5. QED
    BY <1>1, <1>3, <1>4 DEF Rest

(* What is stored of such a line is a part of it, and not nothing.         *)
LEMMA StoredPart ==
  ASSUME NEW s \in {<<>>, Request, Whole, Answer}, NEW n \in Nat \ {0, 1}
  PROVE  Stored(s, n) \in Seq(Nat) /\ (s # <<>> => Stored(s, n) # <<>>)
  <1> DEFINE m == Min({n - 1, Len(s)})
  <1>1. s \in Seq(Nat) /\ Line(s) = s
    BY OneLineStreams
  <1>2. m \in 0 .. Len(s) /\ (s # <<>> => m > 0)
    <2>1. m = IF n - 1 <= Len(s) THEN n - 1 ELSE Len(s)
      BY <1>1 DEF Min
    <2>2. s # <<>> => Len(s) > 0
      BY <1>1, EmptySeq
    <2>3. QED
      BY <1>1, <2>1, <2>2
  <1>3. Stored(s, n) = SubSeq(s, 1, m)
    BY <1>1 DEF Stored
  <1> HIDE DEF m
  <1>4. SubSeq(s, 1, m) \in Seq(Nat) /\ Len(SubSeq(s, 1, m)) = m
    BY <1>1, <1>2
  <1>5. QED
    BY <1>2, <1>3, <1>4, EmptySeq
-------------------------------------------------------------------------------
(* The inductive invariant.                                                *)

LEMMA InitIInv == Init => IInv
  <1>1. Init => TypeOK
    BY EmptySeq DEF Init, TypeOK, listening, ended
  <1>2. Init => AcceptsOnce /\ ClientEnds /\ Queued /\ Upstream /\ Downstream /\ Answering /\ Printed
    BY DEF Init, AcceptsOnce, ClientEnds, Unconnected, Queued, Upstream, Downstream,
           Answered, Answering, Printed, listening, ended
  <1>3. QED
    BY <1>1, <1>2 DEF IInv

(* Every action but Accept and Connect leaves the queue alone.             *)
LEMMA QueuedStays == ASSUME TypeOK, Queued, UNCHANGED queue,
                            \A c \in Clients : Unconnected(c)' => Unconnected(c)
                     PROVE  Queued'
  <1>1. \A k \in 1 .. Len(queue) : queue[k] \in Clients
    BY ElementOfSeq DEF TypeOK
  <1>2. QED
    BY <1>1 DEF Queued

LEMMA ClientIInv == ASSUME IInv, NEW c \in Clients,
                           Client(c) \/ ClientError(c) \/ KillClient(c)
                    PROVE  IInv'
  <1> USE DEF IInv, Unconnected, Answered
  <1>1. CASE Socket(c)
    <2>1. Queued'
      BY <1>1, QueuedStays DEF Socket, TypeOK
    <2>2. QED
      BY <1>1, <2>1 DEF Socket, connection, TypeOK, AcceptsOnce, ClientEnds, Upstream,
                        Downstream, Answering, Printed, listening, ended
  <1>2. CASE Connect(c)
    <2>1. \A k \in 1 .. Len(queue) : queue[k] \in Clients
      BY ElementOfSeq DEF TypeOK
    <2>2. /\ Len(queue') = Len(queue) + 1 /\ queue'[Len(queue) + 1] = c
          /\ \A k \in 1 .. Len(queue) : queue'[k] = queue[k]
      BY <1>2, AppendProperties DEF Connect, TypeOK
    <2>3. Len(queue) \in Nat
      BY LenProperties DEF TypeOK
    <2>4. /\ cpc[c] = "connect" /\ cpc' = [cpc EXCEPT ![c] = "write"]
          /\ open' = [open EXCEPT ![c] = {"client", "server"}]
          /\ UNCHANGED <<spc, accepted, reset, up, down, req, ack>>
      BY <1>2 DEF Connect
    <2>5. up[c] = <<>> /\ down[c] = <<>> /\ c \notin accepted
      BY <2>4 DEF ClientEnds
    <2>6. queue' \in Seq(Clients)
      BY <1>2, AppendProperties DEF Connect, TypeOK
    <2>7. TypeOK'
      BY <2>4, <2>6 DEF TypeOK
    <2>8. Queued'
      <3>1. \A d \in Clients : ~Unconnected(d) \/ d = c => cpc'[d] \notin {"socket", "connect"}
        BY <2>4 DEF TypeOK
      <3>2. \A k \in 1 .. Len(queue) + 1 : queue'[k] \in Clients
                                          /\ (~Unconnected(queue'[k]) \/ queue'[k] = c)
        BY <2>1, <2>2, <2>3 DEF Queued
      <3>3. QED
        BY <2>2, <2>3, <3>1, <3>2 DEF Queued
    <2>9. AcceptsOnce' /\ ClientEnds'
      BY <2>4, <2>5 DEF AcceptsOnce, ClientEnds, TypeOK
    <2>10. Upstream'
      BY <2>4, <2>5 DEF Upstream, TypeOK
    <2>11. Downstream' /\ Answering' /\ Printed'
      BY <2>4, <2>5 DEF Downstream, Answering, Printed, TypeOK
    <2>12. QED
      BY <2>7, <2>8, <2>9, <2>10, <2>11
  <1>3. CASE Write(c)
    <2> DEFINE next == IF cpc[c] = "write" THEN Request ELSE Whole
    <2>1. /\ \/ cpc[c] = "write" /\ cpc' = [cpc EXCEPT ![c] = "newline"]
             \/ cpc[c] = "newline" /\ cpc' = [cpc EXCEPT ![c] = "readline"]
          /\ UNCHANGED <<spc, queue, accepted, open, down, req, ack>>
      BY <1>3 DEF Write
    <2>2. IF "server" \in open[c] THEN up' = [up EXCEPT ![c] = next] /\ UNCHANGED reset
                                  ELSE up' = up /\ reset' = reset \cup {c}
      <3>1. Request \in Seq(Nat) /\ Newline \in Nat
        BY RequestAssumption DEF Newline
      <3>2. <<>> \o Request = Request /\ Request \o <<Newline>> = Whole
        BY <3>1, ConcatEmptySeq, AppendIsConcat DEF Whole
      <3>3. up \in [Clients -> Seq(Nat)]
        BY DEF TypeOK
      <3>4. QED
        BY <1>3, <3>2, <3>3 DEF Write, Send, Upstream
    <2>3. next \in {Request, Whole} /\ next \in Seq(Nat)
      BY OneLineStreams
    <2>4. TypeOK'
      <3>1. up' \in [Clients -> Seq(Nat)]
        BY <2>2, <2>3 DEF TypeOK
      <3>2. reset' \in SUBSET Clients
        BY <2>2 DEF TypeOK
      <3>3. cpc' \in [Clients -> {"socket", "connect", "write", "newline", "readline"} \cup ended]
        BY <2>1 DEF TypeOK
      <3>4. QED
        BY <2>1, <3>1, <3>2, <3>3 DEF TypeOK
    <2>5. Queued'
      BY <2>1, QueuedStays DEF TypeOK
    <2>6. Upstream'
      <3>1. Request # Whole
        <4>1. ~(Len(Request) = Len(Request) + 1)
          BY RequestAssumption, LenProperties
        <4>2. QED
          BY <4>1, RequestAssumption, AppendProperties DEF Whole, Newline
      <3>2. \A d \in Clients \ {c} : up'[d] = up[d] /\ cpc'[d] = cpc[d]
        BY <2>1, <2>2 DEF TypeOK
      <3>3. CASE cpc[c] = "write"
        <4>1. cpc'[c] = "newline" /\ up[c] = <<>>
          BY <2>1, <3>3 DEF TypeOK, Upstream
        <4>2. up'[c] = IF "server" \in open[c] THEN Request ELSE <<>>
          BY <2>2, <3>3, <4>1 DEF TypeOK
        <4>3. <<>> # Whole
          BY RequestAssumption, AppendProperties, EmptySeq DEF Whole, Newline
        <4>4. QED
          BY <2>1, <3>1, <3>2, <4>1, <4>2, <4>3 DEF Upstream
      <3>4. CASE cpc[c] = "newline"
        <4>1. cpc'[c] = "readline" /\ up'[c] \in {up[c], Whole}
          BY <2>1, <2>2, <3>4 DEF TypeOK
        <4>2. QED
          BY <2>1, <3>2, <4>1 DEF Upstream
      <3>5. QED
        BY <2>1, <3>3, <3>4
    <2>7. QED
      BY <2>1, <2>2, <2>4, <2>5, <2>6, SMTT(30)
         DEF TypeOK, AcceptsOnce, ClientEnds, Downstream, Answering, Printed
  <1>4. CASE ClientReadline(c)
    <2>1. down[c] \in {<<>>, Answer} /\ Answer # <<>>
      BY DEF Downstream, Answer
    <2>2. Line(down[c]) = down[c] /\ Rest(down[c]) = <<>>
      BY <2>1, OneLineStreams
    <2>3. /\ down' = [down EXCEPT ![c] = <<>>]
          /\ cpc' = [cpc EXCEPT ![c] = IF down[c] = <<>> THEN "failed" ELSE "exited"]
          /\ ack' = [ack EXCEPT ![c] = Stored(down[c], ClientSize)]
          /\ open' = [open EXCEPT ![c] = @ \ {"client"}]
          /\ UNCHANGED <<spc, queue, accepted, reset, up, req>>
      BY <1>4, <2>2 DEF ClientReadline, TypeOK
    <2>4. cpc[c] = "readline"
      BY <1>4 DEF ClientReadline
    <2>5. Stored(down[c], ClientSize) \in Seq(Nat)
      BY <2>1, StoredPart, SizesAssumption
    <2>6. TypeOK'
      <3>1. down' \in [Clients -> Seq(Nat)] /\ ack' \in [Clients -> Seq(Nat)]
        BY <2>3, <2>5 DEF TypeOK
      <3>2. QED
        BY <2>3, <3>1 DEF TypeOK, ended
    <2>7. Queued'
      BY <2>3, QueuedStays DEF TypeOK
    <2>8. AcceptsOnce' /\ ClientEnds' /\ Upstream'
      BY <2>3, <2>4 DEF AcceptsOnce, ClientEnds, Upstream, TypeOK
    <2>9. Downstream' /\ Answering'
      BY <2>1, <2>3, <2>4 DEF Downstream, Answering, TypeOK
    <2>10. Printed'
      BY <2>1, <2>3, <2>4 DEF Printed, TypeOK
    <2>11. QED
      BY <2>6, <2>7, <2>8, <2>9, <2>10
  <1>5. CASE \/ ConnectionRefused(c) \/ WriteAfterReset(c) \/ ClientReset(c)
             \/ ClientError(c) \/ KillClient(c)
    <2>1. PICK how \in {"failed", "killed"} : ClientEnd(c, how)
      BY <1>5 DEF ConnectionRefused, WriteAfterReset, ClientReset, ClientError, KillClient
    <2>2. UNCHANGED <<spc, queue, accepted, up, down, req, ack>>
      BY <1>5 DEF ConnectionRefused, WriteAfterReset, ClientReset, ClientError, KillClient
    <2>3. /\ cpc' = [cpc EXCEPT ![c] = how]
          /\ open' = [open EXCEPT ![c] = @ \ {"client"}]
          /\ reset' \in SUBSET Clients
      BY <2>1 DEF ClientEnd, TypeOK
    <2>4. TypeOK'
      BY <2>2, <2>3 DEF TypeOK, ended
    <2>5. Queued'
      BY <2>2, <2>3, QueuedStays DEF TypeOK
    <2>6. ClientEnds'
      BY <2>2, <2>3 DEF TypeOK, ClientEnds
    <2>7. Downstream' /\ Answering'
      BY <2>2, <2>3 DEF TypeOK, Downstream, Answering
    <2>8. QED
      BY <2>2, <2>3, <2>4, <2>5, <2>6, <2>7 DEF TypeOK, AcceptsOnce, Upstream, Printed
  <1>6. QED
    BY <1>1, <1>2, <1>3, <1>4, <1>5 DEF Client

LEMMA ServerIInv == ASSUME IInv, ServerStep \/ ReplyError \/ ServerError \/ KillServer
                    PROVE  IInv'
  <1> USE DEF IInv, Unconnected, Answered
  <1>1. CASE Listen \/ Loop \/ ReplyError
    <2>1. UNCHANGED <<cpc, queue, accepted, connection, req, ack>>
      BY <1>1 DEF Listen, Loop, ReplyError
    <2>2. QED
      BY <1>1, <2>1 DEF Listen, Loop, ReplyError, connection, TypeOK, AcceptsOnce, ClientEnds,
                        Queued, Upstream, Downstream, Answering, Printed, listening, ended
  <1>2. CASE Accept
    <2>1. /\ spc = "accept" /\ spc' = "loop" /\ queue # <<>>
          /\ accepted' = {Head(queue)} /\ queue' = Tail(queue)
          /\ UNCHANGED <<cpc, open, reset, up, down, req, ack>>
      BY <1>2 DEF Accept, connection
    <2>2. /\ Head(queue) \in Clients /\ Tail(queue) \in Seq(Clients)
          /\ Head(queue) = queue[1] /\ 1 \in 1 .. Len(queue)
          /\ Len(Tail(queue)) = Len(queue) - 1
          /\ \A k \in 1 .. Len(Tail(queue)) : Tail(queue)[k] = queue[k + 1]
          /\ Len(queue) \in Nat
      BY <2>1, HeadTailProperties, EmptySeq, LenProperties DEF TypeOK
    <2>3. ~Unconnected(Head(queue))
      BY <2>2 DEF Queued
    <2>4. TypeOK'
      BY <2>1, <2>2 DEF TypeOK, listening
    <2>5. AcceptsOnce' /\ Printed'
      BY <2>1 DEF AcceptsOnce, Printed, listening
    <2>6. ClientEnds'
      BY <2>1, <2>2, <2>3 DEF ClientEnds
    <2>7. Queued'
      BY <2>1, <2>2 DEF Queued
    <2>8. Upstream' /\ Downstream' /\ Answering'
      BY <2>1 DEF Upstream, Downstream, Answering, AcceptsOnce
    <2>9. QED
      BY <2>4, <2>5, <2>6, <2>7, <2>8
  <1>3. CASE ServerReadline
    <2>1. PICK c \in accepted :
            /\ "server" \in open[c]
            /\ HasLine(up[c]) \/ (up[c] # <<>> /\ "client" \notin open[c])
            /\ req' = Stored(up[c], ServerSize)
            /\ up' = [up EXCEPT ![c] = Rest(@)]
      BY <1>3 DEF ServerReadline
    <2>2. /\ spc = "readline" /\ spc' = "answer"
          /\ UNCHANGED <<cpc, queue, accepted, open, reset, down, ack>>
      BY <1>3 DEF ServerReadline
    <2>3. c \in Clients /\ accepted = {c}
      BY DEF TypeOK, AcceptsOnce
    <2>4. up[c] \in {Request, Whole} /\ up' = [up EXCEPT ![c] = <<>>]
      BY <2>1, <2>3, OneLineStreams, Lineless DEF Upstream, TypeOK
    <2>5. "client" \in open[c] => up[c] = Whole
      BY <2>1, <2>4, Lineless
    <2>6. req' \in Seq(Nat) /\ req' # <<>>
      <3>1. Request # <<>> /\ Whole # <<>>
        BY RequestAssumption, AppendProperties, EmptySeq DEF Whole, Newline
      <3>2. QED
        BY <2>1, <2>4, <3>1, StoredPart, SizesAssumption
    <2>7. TypeOK'
      BY <2>2, <2>4, <2>6 DEF TypeOK, listening
    <2>8. ~Answered(c) /\ \A d \in Clients : ~Answered(d)
      BY <2>1, <2>2, <2>3 DEF Downstream
    <2>9. ~Unconnected(c)
      BY <2>1, <2>3 DEF ClientEnds
    <2>10. ClientEnds' /\ Queued'
      BY <2>2, <2>3, <2>4, <2>9 DEF ClientEnds, Queued, TypeOK
    <2>11. Upstream'
      <3>1. Request # <<>> /\ Whole # <<>>
        BY RequestAssumption, AppendProperties, EmptySeq DEF Whole, Newline
      <3>2. cpc[c] \notin {"write", "newline"}
        BY <2>1, <2>3, <2>4, <2>5, <3>1 DEF Upstream, ClientEnds
      <3>3. QED
        BY <2>2, <2>3, <2>4, <3>2 DEF Upstream, TypeOK
    <2>12. Downstream' /\ Answering'
      BY <2>1, <2>2, <2>3, <2>5, <2>8 DEF Downstream, Answering
    <2>13. QED
      BY <2>2, <2>7, <2>10, <2>11, <2>12 DEF AcceptsOnce, Printed, listening, ended
  <1>4. CASE Reply
    <2>1. PICK c \in accepted :
            down' = IF "client" \in open[c] THEN [down EXCEPT ![c] = @ \o Answer] ELSE down
      BY <1>4 DEF Reply
    <2>2. /\ spc = "answer" /\ spc' = "close"
          /\ UNCHANGED <<cpc, queue, accepted, open, reset, up, req, ack>>
      BY <1>4 DEF Reply
    <2>3. c \in Clients /\ down[c] = <<>> /\ ~Unconnected(c)
      BY <2>2 DEF TypeOK, Answering, ClientEnds
    <2>4. Answer \in Seq(Nat) /\ <<>> \o Answer = Answer
      BY ConcatEmptySeq DEF Answer
    <2>5. down' = IF "client" \in open[c] THEN [down EXCEPT ![c] = Answer] ELSE down
      BY <2>1, <2>3, <2>4 DEF TypeOK
    <2>6. TypeOK'
      BY <2>2, <2>4, <2>5 DEF TypeOK, listening
    <2>7. Downstream'
      BY <2>2, <2>3, <2>5 DEF Downstream, Answering, TypeOK
    <2>8. QED
      BY <2>2, <2>3, <2>5, <2>6, <2>7, SMTT(30) DEF AcceptsOnce, ClientEnds, Queued, Upstream, Answering,
                                          Printed, TypeOK, listening, ended
  <1>5. CASE Close
    BY <1>5 DEF Close, Hangup, TypeOK, AcceptsOnce, ClientEnds, Queued, Upstream, Downstream,
                Answering, Printed, listening, ended
  <1>6. CASE ServerReadNothing \/ ServerError \/ KillServer
    <2>1. PICK how \in {"failed", "killed"} : ServerEnd(how)
      BY <1>6 DEF ServerReadNothing, ServerError, KillServer
    <2>2. /\ spc' = how
          /\ open' = [c \in Clients |-> open[c] \ {"server"}]
          /\ reset' \in SUBSET Clients
          /\ UNCHANGED <<cpc, queue, accepted, up, down, req, ack>>
      BY <2>1 DEF ServerEnd, Hangup, TypeOK
    <2>3. TypeOK' /\ Queued' /\ AcceptsOnce'
      BY <2>2 DEF TypeOK, Queued, AcceptsOnce, listening, ended
    <2>4. ClientEnds'
      BY <2>2 DEF ClientEnds, TypeOK
    <2>5. QED
      BY <2>2, <2>3, <2>4 DEF Upstream, Downstream, Answering, Printed
  <1>7. QED
    BY <1>1, <1>2, <1>3, <1>4, <1>5, <1>6 DEF ServerStep

LEMMA NextIInv == IInv /\ [Next]_vars => IInv'
  <1>1. ASSUME IInv, Idle \/ UNCHANGED vars PROVE IInv'
    BY <1>1 DEF Idle, vars, IInv, TypeOK, AcceptsOnce, ClientEnds, Unconnected, Queued,
                Upstream, Downstream, Answered, Answering, Printed
  <1>2. QED
    BY <1>1, ClientIInv, ServerIInv DEF Next

LEMMA Invariance == Spec => []IInv
  BY InitIInv, NextIInv, PTL DEF Spec
-------------------------------------------------------------------------------
(* The variables keep their types.                                         *)
THEOREM TypeCorrect == Spec => []TypeOK
  <1>1. IInv => TypeOK
    BY DEF IInv
  <1>2. QED
    BY <1>1, Invariance, PTL

(* A client that reports an answer reports the server's, given to its own  *)
(* whole request.                                                          *)
THEOREM AnswersAreEarned == Spec => []AckMeansReceived
  <1>1. IInv => AckMeansReceived
    BY DEF IInv, AckMeansReceived, Downstream, Answered, Printed, Whole
  <1>2. QED
    BY <1>1, Invariance, PTL
===============================================================================
