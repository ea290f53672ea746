---------------------------- MODULE ReadlineProofs ----------------------------
(***************************************************************************)
(* Theorems about Readline, for every n and every stream.                  *)
(***************************************************************************)
EXTENDS Readline, SequenceTheorems, TLAPS

\* Readline reads on as long as it has seen no newline, and stores what fits.  It returns at
\* a newline, or at the end of a stream to which nothing can be added any more.
IInv ==
  /\ TypeOK
  /\ n > 0 => /\ total_read = IF pos < n THEN pos ELSE n - 1
              /\ buffer = SubSeq(stream, 1, total_read)
  /\ \A k \in 1 .. pos : stream[k] = Newline => k = pos /\ rpc = "returned"
  /\ rpc = "returned" => \/ pos > 0 /\ stream[pos] = Newline
                         \/ closed /\ pos = Len(stream)
  /\ rpc = "returned" /\ total_read > 0 => terminated

(* n - 1 does not wrap around when n is not 0.                             *)
LEMMA LimitOfSize == ASSUME NEW m \in 1 .. SizeMax
  PROVE  (m + SizeMax) % (SizeMax + 1) = m - 1
  <1> DEFINE w == SizeMax + 1
             x == m - 1
             r == (x + w) % w
             q == (x + w) \div w
  <1>1. w \in Nat /\ w > 0 /\ x \in 0 .. w - 1 /\ m + SizeMax = x + w
    BY SizesAssumption, MaxBytesAssumption
  <1> HIDE DEF w, x
  <1>2. x + w = (w * q) + r /\ r \in 0 .. w - 1 /\ q \in Int
    BY <1>1
  <1> HIDE DEF q, r
  <1>3. q >= 2 => w * q >= w + w
    BY <1>1, <1>2
  <1>4. q <= 0 => w * q <= 0
    BY <1>1, <1>2
  <1>5. q = 1
    BY <1>1, <1>2, <1>3, <1>4
  <1>6. r = x
    BY <1>1, <1>2, <1>5
  <1>7. QED
    BY <1>1, <1>6 DEF r, w, x

(* The first m elements of a sequence that grows stay what they are, and   *)
(* the next one makes them m + 1.                                          *)
LEMMA FirstOfAppend == ASSUME NEW s \in Seq(Nat), NEW e \in Nat, NEW m \in 0 .. Len(s)
  PROVE  SubSeq(Append(s, e), 1, m) = SubSeq(s, 1, m)
  <1>1. Append(s, e) = s \o <<e>> /\ <<e>> \in Seq(Nat) /\ Len(s) \in Nat
    BY AppendIsConcat, LenProperties
  <1>2. CASE m = 0
    BY <1>2, SubSeqEmpty
  <1>3. CASE m # 0
    <2>1. 1 \in 1 .. Len(s) /\ m \in 1 .. Len(s)
      BY <1>1, <1>3
    <2>2. QED
      BY <1>1, <2>1, SubSeqOfConcat1
  <1>4. QED
    BY <1>2, <1>3

LEMMA OneMore == ASSUME NEW s \in Seq(Nat), NEW m \in 0 .. Len(s) - 1
  PROVE  Append(SubSeq(s, 1, m), s[m + 1]) = SubSeq(s, 1, m + 1) /\ s[m + 1] \in Nat
  <1>1. Len(s) \in Nat /\ 1 \in 1 .. Len(s) /\ m + 1 \in 1 .. Len(s) /\ (m + 1) - 1 = m
    BY LenProperties
  <1>2. s[m + 1] \in Nat
    BY <1>1, ElementOfSeq
  <1>3. SubSeq(s, 1, m + 1) = SubSeq(s, 1, m) \o <<s[m + 1]>>
    BY <1>1, SubSeqRecursiveSecond
  <1>4. SubSeq(s, 1, m) \in Seq(Nat)
    <2>1. \A i \in 1 .. m : s[i] \in Nat
      BY <1>1, ElementOfSeq
    <2>2. 1 \in Int /\ m \in Int
      BY <1>1
    <2>3. QED
      BY <2>1, <2>2, SubSeqProperties
  <1>5. QED
    BY <1>2, <1>3, <1>4, AppendIsConcat
-------------------------------------------------------------------------------
LEMMA InitIInv == ASSUME Init PROVE IInv
  <1>1. n \in Sizes /\ n \in Nat
    BY SizesAssumption, MaxBytesAssumption DEF Init
  <1>2. SubSeq(<<>>, 1, 0) = <<>>
    BY SubSeqEmpty
  <1>3. TypeOK
    <2>1. <<>> \in Seq(Nat) /\ Len(<<>>) = 0 /\ 0 <= MaxBytes /\ 0 \in 0 .. 0
      BY SizesAssumption, MaxBytesAssumption
    <2>2. QED
      BY <1>1, <2>1, Zenon DEF Init, TypeOK
  <1>4. QED
    BY <1>1, <1>2, <1>3 DEF Init, IInv

LEMMA NextIInv == ASSUME IInv, [Next]_vars PROVE IInv'
  <1>0. /\ n \in 0 .. SizeMax /\ n \in Sizes /\ SizeMax \in Nat /\ n \in Nat
        /\ stream \in Seq(Nat) /\ Len(stream) \in Nat /\ buffer \in Seq(Nat)
        /\ pos \in 0 .. Len(stream) /\ total_read \in 0 .. pos
        /\ rpc \in {"read", "returned", "error"}
    BY LenProperties, SizesAssumption, MaxBytesAssumption DEF IInv, TypeOK
  <1>1. CASE ReadByte
    <2> DEFINE ch == stream[pos + 1]
    <2>1. /\ rpc = "read" /\ pos < Len(stream) /\ pos' = pos + 1
          /\ UNCHANGED <<n, stream, closed>>
          /\ rpc' = IF ch = Newline THEN "returned" ELSE "read"
          /\ terminated' = (ch = Newline)
          /\ IF total_read < Limit
             THEN total_read' = total_read + 1 /\ buffer' = Append(buffer, ch)
             ELSE UNCHANGED <<total_read, buffer>>
      BY <1>1 DEF ReadByte
    <2>2. ch \in Nat
      BY <1>0, <2>1, OneMore
    <2>3. TypeOK'
      <3>1. total_read' \in 0 .. pos' /\ pos' \in 0 .. Len(stream)
        BY <1>0, <2>1, SMTT(30)
      <3>2. buffer' \in Seq(Nat)
        <4>1. Append(buffer, ch) \in Seq(Nat)
          BY <1>0, <2>2, AppendProperties
        <4>2. QED
          BY <1>0, <2>1, <4>1, Zenon
      <3>3. QED
        BY <1>0, <2>1, <3>1, <3>2 DEF IInv, TypeOK
    <2>4. ASSUME n > 0
          PROVE  /\ total_read' = IF pos' < n THEN pos' ELSE n - 1
                 /\ buffer' = SubSeq(stream, 1, total_read')
      <3>1. Limit = n - 1
        BY <1>0, <2>4, LimitOfSize DEF Limit
      <3>2. /\ total_read = IF pos < n THEN pos ELSE n - 1
            /\ buffer = SubSeq(stream, 1, total_read)
        BY <2>4 DEF IInv
      <3>3. CASE total_read < n - 1
        <4>1. total_read = pos /\ total_read' = pos + 1 /\ pos + 1 < n
          BY <1>0, <2>1, <3>1, <3>2, <3>3
        <4>2. pos \in 0 .. Len(stream) - 1
          BY <1>0, <2>1
        <4>3. buffer' = Append(SubSeq(stream, 1, pos), ch)
          BY <2>1, <3>1, <3>2, <3>3, <4>1
        <4>4. buffer' = SubSeq(stream, 1, pos + 1)
          BY <1>0, <4>2, <4>3, OneMore
        <4>5. QED
          BY <2>1, <4>1, <4>4
      <3>4. CASE ~(total_read < n - 1)
        BY <1>0, <2>1, <2>4, <3>1, <3>2, <3>4
      <3>5. QED
        BY <3>3, <3>4
    <2>5. \A k \in 1 .. pos' : stream[k] = Newline => k = pos' /\ rpc' = "returned"
      <3>1. \A k \in 1 .. pos : stream[k] # Newline
        BY <2>1 DEF IInv
      <3>2. QED
        BY <1>0, <2>1, <3>1
    <2>6. rpc' = "returned" => pos' > 0 /\ stream'[pos'] = Newline /\ terminated'
      <3>1. stream'[pos'] = ch /\ pos' > 0
        BY <1>0, <2>1
      <3> HIDE DEF ch
      <3>2. rpc' = "returned" => ch = Newline
        BY <2>1
      <3>3. QED
        BY <2>1, <3>1, <3>2
    <2> HIDE DEF ch
    <2>7. QED
      BY <2>1, <2>3, <2>4, <2>5, <2>6 DEF IInv
  <1>2. CASE EndOfFile
    <2>1. /\ rpc = "read" /\ rpc' = "returned" /\ closed /\ pos = Len(stream)
          /\ terminated' = (total_read > 0)
          /\ UNCHANGED <<n, stream, closed, pos, total_read, buffer>>
      BY <1>2 DEF EndOfFile
    <2>2. \A k \in 1 .. pos : stream[k] # Newline
      BY <2>1 DEF IInv
    <2>3. TypeOK'
      BY <2>1 DEF IInv, TypeOK
    <2>4. /\ \A k \in 1 .. pos : stream[k] = Newline => k = pos /\ rpc' = "returned"
          /\ rpc' = "returned" /\ total_read > 0 => terminated'
      BY <2>1, <2>2
    <2>5. QED
      BY <2>1, <2>3, <2>4 DEF IInv
  <1>3. CASE ReadError
    BY <1>3 DEF ReadError, IInv, TypeOK
  <1>4. ASSUME NEW newline \in BOOLEAN, Arrive(newline) PROVE IInv'
    <2>1. PICK e \in Nat : stream' = Append(stream, e)
      BY <1>0, <1>4 DEF Arrive, Newline
    <2>2. /\ ~closed /\ Len(stream) < MaxBytes
          /\ UNCHANGED <<n, closed, pos, rpc, total_read, buffer, terminated>>
      BY <1>4 DEF Arrive
    <2>3. /\ stream' \in Seq(Nat) /\ Len(stream') = Len(stream) + 1
          /\ \A k \in 1 .. pos : stream'[k] = stream[k]
      BY <1>0, <2>1, AppendProperties
    <2>4. TypeOK'
      BY <1>0, <2>2, <2>3, SizesAssumption, MaxBytesAssumption DEF IInv, TypeOK
    <2>5. SubSeq(stream', 1, total_read) = SubSeq(stream, 1, total_read)
      BY <1>0, <2>1, FirstOfAppend
    <2>6. \A k \in 1 .. pos : stream'[k] = Newline => k = pos /\ rpc = "returned"
      BY <2>3 DEF IInv
    <2>7. rpc = "returned" => pos > 0 /\ stream'[pos] = Newline
      <3>1. rpc = "returned" => pos > 0 /\ stream[pos] = Newline
        BY <2>2 DEF IInv
      <3>2. pos > 0 => pos \in 1 .. pos
        BY <1>0
      <3>3. QED
        BY <2>3, <3>1, <3>2
    <2>8. QED
      BY <2>2, <2>4, <2>5, <2>6, <2>7 DEF IInv
  <1>5. CASE HangUp
    BY <1>5 DEF HangUp, IInv, TypeOK
  <1>6. CASE UNCHANGED vars
    BY <1>6 DEF vars, IInv, TypeOK
  <1>7. QED
    BY <1>1, <1>2, <1>3, <1>4, <1>5, <1>6 DEF Next, Step, Returned

LEMMA Invariance == Spec => []IInv
  BY InitIInv, NextIInv, PTL DEF Spec

(* The variables keep their types.                                         *)
THEOREM TypeCorrect == Spec => []TypeOK
  <1>1. IInv => TypeOK
    BY DEF IInv
  <1>2. QED
    BY <1>1, Invariance, PTL

(* Readline never writes beyond its buffer if there is room for one byte.  *)
THEOREM InsideBuffer == Spec => []InBuffer
  <1>1. IInv => InBuffer
    <2> SUFFICES ASSUME IInv, n > 0 PROVE Len(buffer) + 1 <= n
      BY DEF InBuffer
    <2>1. /\ n \in Nat /\ stream \in Seq(Nat) /\ Len(stream) \in Nat /\ pos \in 0 .. Len(stream)
          /\ total_read = IF pos < n THEN pos ELSE n - 1
          /\ buffer = SubSeq(stream, 1, total_read)
      BY LenProperties, SizesAssumption, MaxBytesAssumption DEF IInv, TypeOK
    <2>2. total_read \in Nat /\ total_read <= n - 1
      BY <2>1
    <2>3. Len(buffer) = total_read
      BY <2>1, <2>2
    <2>4. QED
      BY <2>1, <2>2, <2>3
  <1>2. QED
    BY <1>1, Invariance, PTL

(* Readline takes exactly one line from the stream, however it arrives,    *)
(* stores as much of it as fits and returns the length of that.            *)
THEOREM TakesOneLine == Spec => []OneLine
  <1>1. IInv => OneLine
    <2> SUFFICES ASSUME IInv, rpc = "returned", n > 0
                 PROVE  /\ pos = Len(Line(stream))
                        /\ buffer = Stored(stream, n)
                        /\ total_read = Len(buffer)
                        /\ total_read > 0 => terminated
      BY DEF OneLine
    <2>1. /\ n \in Nat /\ stream \in Seq(Nat) /\ Len(stream) \in Nat /\ pos \in 0 .. Len(stream)
          /\ total_read = IF pos < n THEN pos ELSE n - 1
          /\ buffer = SubSeq(stream, 1, total_read)
      BY LenProperties, SizesAssumption, MaxBytesAssumption DEF IInv, TypeOK
    <2>2. total_read \in 0 .. pos
      BY <2>1
    <2>3. Line(stream) = SubSeq(stream, 1, pos)
      <3>1. CASE pos > 0 /\ stream[pos] = Newline
        <4>1. pos \in {k \in 1 .. Len(stream) : stream[k] = Newline}
          BY <2>1, <3>1
        <4>2. \A k \in {k \in 1 .. Len(stream) : stream[k] = Newline} : pos =< k
          BY <2>1 DEF IInv
        <4>3. Min({k \in 1 .. Len(stream) : stream[k] = Newline}) = pos
          BY <2>1, <4>1, <4>2 DEF Min
        <4>4. HasLine(stream)
          BY <2>1, <4>1 DEF HasLine, Range
        <4>5. QED
          BY <4>3, <4>4, Zenon DEF Line
      <3>2. CASE ~(pos > 0 /\ stream[pos] = Newline)
        <4>1. pos = Len(stream)
          BY <3>2 DEF IInv
        <4>2. \A k \in 1 .. Len(stream) : stream[k] # Newline
          BY <2>1, <3>2, <4>1 DEF IInv
        <4>3. ~HasLine(stream)
          BY <2>1, <4>2 DEF HasLine, Range
        <4>4. SubSeq(stream, 1, pos) = stream
          BY <2>1, <4>1, SubSeqFull
        <4>5. QED
          BY <4>3, <4>4, Zenon DEF Line
      <3>3. QED
        BY <3>1, <3>2
    <2>4. SubSeq(stream, 1, pos) \in Seq(Nat) /\ Len(SubSeq(stream, 1, pos)) = pos
      BY <2>1
    <2>5. Min({n - 1, pos}) = total_read
      BY <2>1 DEF Min
    <2>6. SubSeq(SubSeq(stream, 1, pos), 1, total_read) = SubSeq(stream, 1, total_read)
      <3>1. CASE total_read = 0
        BY <3>1, SubSeqEmpty
      <3>2. CASE total_read > 0
        <4>1. /\ 1 \in 1 .. Len(stream) /\ pos \in 1 .. Len(stream)
              /\ 1 \in 1 .. pos - 1 + 1 /\ total_read \in 1 .. pos - 1 + 1
              /\ 1 + 1 - 1 = 1 /\ 1 + total_read - 1 = total_read
          BY <2>1, <2>2, <3>2
        <4>2. QED
          BY <2>1, <4>1, SubSeqOfSubSeq
      <3>3. QED
        BY <2>1, <2>2, <3>1, <3>2
    <2>7. buffer = Stored(stream, n)
      BY <2>1, <2>3, <2>4, <2>5, <2>6 DEF Stored
    <2>8. Len(buffer) = total_read
      BY <2>1, <2>2
    <2>9. QED
      BY <2>3, <2>4, <2>7, <2>8 DEF IInv
  <1>2. QED
    BY <1>1, Invariance, PTL
===============================================================================
