------------------------------ MODULE PipeProofs ------------------------------
(***************************************************************************)
(* Theorems about the programs that put a pipe between processes:          *)
(* pipe_filter.cpp, whose module this one extends, pipe.cpp, pipe_sync.cpp.*)
(***************************************************************************)
EXTENDS PipeFilter, SequenceTheorems, FiniteSetTheorems, TLAPS

(* pipe_filter.cpp.  Mine is the end of the pipe that a child is to use,   *)
(* Theirs the other one.                                                   *)
Mine(c) == IF c = "ls" THEN "write" ELSE "read"
Theirs(c) == IF c = "ls" THEN "read" ELSE "write"

\* The descriptors in places are the ones that refer to the end.
At(p, end, places) == \A d \in Descriptors : table[p][d] = end <=> d \in places

ParentHolds ==
  LET loc == pc["parent"]
  IN  /\ loc \in {"pipe", "fork", "close a", "close b", "wait"} \cup ended
      /\ loc = "pipe" => /\ {table["parent"][3], table["parent"][4]} = {"closed"}
                         /\ \A c \in Children : pc[c] = "none"
      /\ loc = "fork" => fd[1] # fd[2]
      /\ At("parent", "read", IF loc \in {"fork", "close a"} THEN {fd[1]} ELSE {})
      /\ At("parent", "write", IF loc \in {"fork", "close a", "close b"} THEN {fd[2]} ELSE {})

Places(c) == IF pc[c] \in {"close a", "dup2"} THEN {Used(c)}
             ELSE IF pc[c] = "close b" THEN {Used(c), Std(c)}
             ELSE IF pc[c] \in {"exec", "run"} THEN {Std(c)}
             ELSE {}

ChildHolds(c) == /\ pc[c] \in {"none", "close a", "dup2", "close b", "exec", "run"} \cup ended
                 /\ pc[c] # "none" => fd[1] # fd[2]
                 /\ pc[c] \in {"dup2", "close b"} => Used(c) # Std(c)
                 /\ At(c, Mine(c), Places(c))
                 /\ At(c, Theirs(c), IF pc[c] = "close a" THEN {Unused(c)} ELSE {})

Counts == /\ wrote = pipe + count
          /\ pc["ls"] = "exited" => wrote = Lines
          /\ pc["wc"] = "exited" => pipe = 0 /\ Holders("write") = {}

IInv == TypeOK /\ ParentHolds /\ (\A c \in Children : ChildHolds(c)) /\ Counts
-------------------------------------------------------------------------------
LEMMA InitIInv == Init => IInv
  <1> SUFFICES ASSUME Init PROVE IInv
    OBVIOUS
  <1> USE DEF Processes, Children, Descriptors
  <1>1. PICK inherited \in SUBSET (0 .. 2) :
          table = [p \in Processes |->
                     IF p = "parent"
                     THEN [d \in Descriptors |-> IF d \in inherited THEN "other" ELSE "closed"]
                     ELSE Closed]
    BY DEF Init
  <1>2. /\ \A d \in Descriptors : /\ table["parent"][d] \in {"other", "closed"}
                                  /\ d \in {3, 4} => table["parent"][d] = "closed"
        /\ \A c \in Children, d \in Descriptors : table[c][d] = "closed"
    BY <1>1 DEF Closed
  <1>3. /\ pc["parent"] = "pipe"
        /\ \A c \in Children : pc[c] = "none"
    BY DEF Init
  <1>4. TypeOK
    <2>1. table \in [Processes -> [Descriptors -> {"closed", "other", "read", "write"}]]
      BY <1>1 DEF Closed
    <2>2. QED
      BY <1>3, <2>1, SizesAssumption DEF Init, TypeOK
  <1>5. ParentHolds
    BY <1>2, <1>3 DEF ParentHolds, At
  <1>6. \A c \in Children : ChildHolds(c)
    BY <1>2, <1>3 DEF ChildHolds, Places, At, Mine, Theirs, ended
  <1>7. Counts
    BY <1>3 DEF Init, Counts
  <1>8. QED
    BY <1>4, <1>5, <1>6, <1>7 DEF IInv

(* What a process holds does not change as long as it does nothing.        *)
LEMMA ChildFrame ==
  ASSUME NEW c \in Children, ChildHolds(c), UNCHANGED <<fd, pc[c], table[c]>>
  PROVE  ChildHolds(c)'
  <1>1. Places(c)' = Places(c) /\ Used(c)' = Used(c) /\ Unused(c)' = Unused(c)
    BY DEF Places, Used, Unused, Std
  <1>2. \A end, places : At(c, end, places) => At(c, end, places)'
    BY DEF At
  <1>3. QED
    BY <1>1, <1>2, Zenon DEF ChildHolds, Std, Mine, Theirs

LEMMA ParentFrame ==
  ASSUME ParentHolds, pc["parent"] # "pipe", UNCHANGED <<fd, pc["parent"], table["parent"]>>
  PROVE  ParentHolds'
  BY DEF ParentHolds, At

(* An end is held by those who hold it.                                    *)
LEMMA Held == \A end : Holders(end) = {} <=> \A p \in Processes, d \in Descriptors : table[p][d] # end
  BY DEF Holders

LEMMA Smallest == ASSUME NEW S \in SUBSET Descriptors, S # {}
  PROVE  Min(S) \in S
  <1>1. \E x \in S : \A y \in S : x =< y
    <2>1. S \subseteq {0, 1, 2, 3, 4}
      BY DEF Descriptors
    <2>2. CASE 0 \in S
      BY <2>1, <2>2
    <2>3. CASE 0 \notin S /\ 1 \in S
      BY <2>1, <2>3
    <2>4. CASE 0 \notin S /\ 1 \notin S /\ 2 \in S
      BY <2>1, <2>4
    <2>5. CASE 0 \notin S /\ 1 \notin S /\ 2 \notin S /\ 3 \in S
      BY <2>1, <2>5
    <2>6. CASE S = {4}
      BY <2>6
    <2>7. QED
      BY <2>1, <2>2, <2>3, <2>4, <2>5, <2>6
  <1>2. QED
    BY <1>1 DEF Min

LEMMA ParentIInv == ASSUME IInv, CreatePipe \/ (\E c \in Children : Fork(c)) \/ ParentClose
  PROVE  IInv'
  <1> USE DEF IInv
  <1>1. CASE CreatePipe
    <2> DEFINE free == {d \in Descriptors : table["parent"][d] = "closed"}
               r == Min(free)
               w == Min(free \ {r})
    <2>1. pc["parent"] = "pipe" /\ {3, 4} \subseteq free /\ \A c \in Children : pc[c] = "none"
      BY <1>1 DEF CreatePipe, ParentHolds, Descriptors
    <2>2. r \in free
      BY <2>1, Smallest
    <2>3. w \in free \ {r}
      <3>1. free \ {r} \in SUBSET Descriptors /\ free \ {r} # {}
        BY <2>1
      <3>2. QED
        BY <3>1, Smallest
    <2>4. /\ fd' = <<r, w>>
          /\ table' = [table EXCEPT !["parent"][r] = "read", !["parent"][w] = "write"]
          /\ pc' = [pc EXCEPT !["parent"] = "fork"]
          /\ UNCHANGED <<pipe, wrote, count, waits, ignored>>
      BY <1>1 DEF CreatePipe, Goto
    <2>5. r \in Descriptors /\ w \in Descriptors /\ r # w
      BY <2>2, <2>3
    <2> HIDE DEF r, w, free
    <2> USE DEF Processes, Children
    <2>6. TypeOK'
      <3>1. table' \in [Processes -> [Descriptors -> {"closed", "other", "read", "write"}]]
        BY <2>4, <2>5 DEF TypeOK
      <3>2. fd' \in Descriptors \X Descriptors
        BY <2>4, <2>5
      <3>3. pc' \in [Processes -> {"pipe", "fork", "close a", "dup2", "close b", "exec", "run",
                                   "wait", "none"} \cup ended]
            /\ \A c \in Children : pc'[c] \notin {"pipe", "fork", "wait"}
        BY <2>1, <2>4 DEF TypeOK
      <3>4. QED
        BY <2>4, <3>1, <3>2, <3>3 DEF TypeOK
    <2>7. \A d \in Descriptors : table'["parent"][d] = IF d = w THEN "write" ELSE IF d = r THEN "read"
                                                       ELSE table["parent"][d]
      BY <2>4, <2>5 DEF TypeOK
    <2>8. \A d \in Descriptors : table["parent"][d] # "read" /\ table["parent"][d] # "write"
      BY <2>1 DEF ParentHolds, At
    <2>9. pc'["parent"] = "fork" /\ fd'[1] = r /\ fd'[2] = w
      BY <2>4 DEF TypeOK
    <2>10. ParentHolds'
      BY <2>5, <2>7, <2>8, <2>9 DEF ParentHolds, At
    <2>11. \A c \in Children : pc'[c] = "none" /\ table'[c] = table[c]
      BY <2>1, <2>4 DEF TypeOK
    <2>12. \A c \in Children : ChildHolds(c)'
      <3>1. \A c \in Children : Places(c) = {} /\ Places(c)' = {}
        BY <2>1, <2>11 DEF Places, ended
      <3>2. ASSUME NEW c \in Children PROVE At(c, Mine(c), {})' /\ At(c, Theirs(c), {})'
        <4>1. At(c, Mine(c), {}) /\ At(c, Theirs(c), {})
          BY <2>1, <3>1 DEF ChildHolds
        <4>2. QED
          BY <2>11, <4>1 DEF At
      <3>3. QED
        BY <2>11, <3>1, <3>2 DEF ChildHolds
    <2>13. Counts'
      BY <2>4, <2>11 DEF Counts
    <2>14. QED
      BY <2>6, <2>10, <2>12, <2>13
  <1>2. ASSUME NEW c \in Children, Fork(c) PROVE IInv'
    <2> USE DEF Processes
    <2>1. /\ pc["parent"] = "fork" /\ pc[c] = "none" /\ c # "parent"
          /\ UNCHANGED <<fd, pipe, wrote, count, waits, ignored>>
      BY <1>2 DEF Fork, Children
    <2>2. /\ pc'[c] = "close a" /\ table'[c] = table["parent"]
          /\ pc'["parent"] \in {"fork", "close a"} /\ table'["parent"] = table["parent"]
          /\ \A b \in Children \ {c} : pc'[b] = pc[b] /\ table'[b] = table[b]
      BY <1>2 DEF Fork, TypeOK, Children
    <2>3. TypeOK'
      BY <1>2, <2>1 DEF Fork, TypeOK, Children
    <2>4. ParentHolds'
      <3>1. fd[1] # fd[2] /\ At("parent", "read", {fd[1]}) /\ At("parent", "write", {fd[2]})
        BY <2>1 DEF ParentHolds
      <3>2. At("parent", "read", {fd[1]})' /\ At("parent", "write", {fd[2]})'
        <4>1. table'["parent"] = table["parent"] /\ fd' = fd
          BY <2>1, <2>2
        <4>2. QED
          BY <3>1, <4>1, ZenonT(30) DEF At
      <3>3. QED
        BY <2>1, <2>2, <3>1, <3>2 DEF ParentHolds
    <2>5. ChildHolds(c)'
      <3>1. /\ fd[1] # fd[2]
            /\ \A d \in Descriptors : /\ table'[c][d] = "read" <=> d = fd[1]
                                      /\ table'[c][d] = "write" <=> d = fd[2]
        <4>1. fd[1] # fd[2] /\ At("parent", "read", {fd[1]}) /\ At("parent", "write", {fd[2]})
          BY <2>1 DEF ParentHolds
        <4>2. QED
          BY <2>2, <4>1, ZenonT(30) DEF At
      <3>2. CASE c = "ls"
        BY <2>1, <2>2, <3>1, <3>2 DEF ChildHolds, At, Places, Used, Unused, Mine, Theirs
      <3>3. CASE c = "wc"
        BY <2>1, <2>2, <3>1, <3>3 DEF ChildHolds, At, Places, Used, Unused, Mine, Theirs
      <3>4. QED
        BY <3>2, <3>3 DEF Children
    <2>6. \A b \in Children \ {c} : ChildHolds(b)'
      BY <2>1, <2>2, ChildFrame
    <2>7. Counts'
      <3>1. pc["wc"] # "exited"
        <4>1. table["parent"][fd[2]] = "write" /\ fd[2] \in Descriptors
          BY <2>1 DEF ParentHolds, At, TypeOK
        <4>2. QED
          BY <4>1, Held DEF Counts
      <3>2. QED
        BY <2>1, <2>2, <3>1 DEF Counts, Children
    <2>8. QED
      BY <2>3, <2>4, <2>5, <2>6, <2>7
  <1>3. CASE ParentClose
    <2> USE DEF Processes
    <2>1. ASSUME NEW place \in Descriptors, NEW loc \in {"close b", "wait"},
                 pc["parent"] \in {"close a", "close b"},
                 pc' = [pc EXCEPT !["parent"] = loc],
                 table' = [table EXCEPT !["parent"][place] = "closed"],
                 UNCHANGED <<fd, pipe, wrote, count, waits, ignored>>
          PROVE  /\ TypeOK' /\ (\A b \in Children : ChildHolds(b)') /\ Counts'
                 /\ pc'["parent"] = loc
                 /\ \A d \in Descriptors :
                      table'["parent"][d] = IF d = place THEN "closed" ELSE table["parent"][d]
      <3>1. /\ pc'["parent"] = loc
            /\ \A b \in Children : pc'[b] = pc[b] /\ table'[b] = table[b]
            /\ \A d \in Descriptors :
                 table'["parent"][d] = IF d = place THEN "closed" ELSE table["parent"][d]
        BY <2>1 DEF TypeOK, Children
      <3>2. TypeOK'
        BY <2>1 DEF TypeOK, Children
      <3>3. \A b \in Children : ChildHolds(b)'
        BY <2>1, <3>1, ChildFrame
      <3>4. pc'["ls"] = pc["ls"] /\ pc'["wc"] = pc["wc"]
        BY <3>1 DEF Children
      <3>5. \A p \in Processes, d \in Descriptors : table[p][d] # "write" => table'[p][d] # "write"
        <4> SUFFICES ASSUME NEW p \in Processes, NEW d \in Descriptors, table[p][d] # "write"
                     PROVE  table'[p][d] # "write"
          OBVIOUS
        <4>1. CASE p = "parent"
          BY <3>1, <4>1
        <4>2. CASE p \in Children
          BY <3>1, <4>2
        <4>3. QED
          BY <4>1, <4>2
      <3>6. Holders("write") = {} => Holders("write")' = {}
        BY <3>5 DEF Holders
      <3>7. Counts'
        BY <2>1, <3>4, <3>6 DEF Counts
      <3>8. QED
        BY <3>1, <3>2, <3>3, <3>7
    <2>2. fd[1] \in Descriptors /\ fd[2] \in Descriptors /\ UNCHANGED <<fd, pipe, wrote, count, waits, ignored>>
      BY <1>3 DEF TypeOK, ParentClose
    <2>3. CASE /\ pc["parent"] = "close a"
               /\ pc' = [pc EXCEPT !["parent"] = "close b"]
               /\ table' = [table EXCEPT !["parent"][fd[1]] = "closed"]
      <3>1. /\ TypeOK' /\ (\A b \in Children : ChildHolds(b)') /\ Counts' /\ pc'["parent"] = "close b"
            /\ \A d \in Descriptors :
                 table'["parent"][d] = IF d = fd[1] THEN "closed" ELSE table["parent"][d]
        BY <2>1, <2>2, <2>3
      <3>2. At("parent", "read", {fd[1]}) /\ At("parent", "write", {fd[2]})
        BY <2>3 DEF ParentHolds
      <3>3. fd[1] # fd[2]
        BY <2>2, <3>2 DEF At
      <3>4. At("parent", "read", {})' /\ At("parent", "write", {fd[2]})'
        BY <2>2, <3>1, <3>2, <3>3 DEF At
      <3>5. ParentHolds'
        BY <3>1, <3>4 DEF ParentHolds
      <3>6. QED
        BY <3>1, <3>5
    <2>4. CASE /\ pc["parent"] = "close b"
               /\ pc' = [pc EXCEPT !["parent"] = "wait"]
               /\ table' = [table EXCEPT !["parent"][fd[2]] = "closed"]
      <3>1. /\ TypeOK' /\ (\A b \in Children : ChildHolds(b)') /\ Counts' /\ pc'["parent"] = "wait"
            /\ \A d \in Descriptors :
                 table'["parent"][d] = IF d = fd[2] THEN "closed" ELSE table["parent"][d]
        BY <2>1, <2>2, <2>4
      <3>2. At("parent", "read", {}) /\ At("parent", "write", {fd[2]})
        BY <2>4 DEF ParentHolds
      <3>3. At("parent", "read", {})' /\ At("parent", "write", {})'
        BY <3>1, <3>2 DEF At
      <3>4. ParentHolds'
        BY <3>1, <3>3 DEF ParentHolds
      <3>5. QED
        BY <3>1, <3>4
    <2>5. QED
      BY <1>3, <2>3, <2>4 DEF ParentClose, Close, Goto
  <1>4. QED
    BY <1>1, <1>2, <1>3

(* A process that ends holds nothing any more.                             *)
LEMMA EndIInv ==
  ASSUME IInv, NEW p \in Processes, NEW how \in ended, End(p, how), pc[p] # "none",
         UNCHANGED <<fd, pipe, wrote, count, ignored>>, waits' \in 0 .. 2,
         p = "ls" /\ how = "exited" => wrote = Lines,
         p = "wc" /\ how = "exited" => pipe = 0 /\ Holders("write") = {}
  PROVE  IInv'
  <1> USE DEF IInv
  <1>1. /\ pc'[p] = how /\ \A d \in Descriptors : table'[p][d] = "closed"
        /\ \A q \in Processes \ {p} : pc'[q] = pc[q] /\ table'[q] = table[q]
    BY DEF End, Goto, TypeOK, Closed
  <1>2. TypeOK'
    BY DEF End, Goto, TypeOK, Closed, Processes, Children, ended
  <1>3. ParentHolds'
    <2>1. CASE p = "parent"
      <3>1. pc'["parent"] \in ended /\ At("parent", "read", {})' /\ At("parent", "write", {})'
        BY <1>1, <2>1 DEF At
      <3>2. QED
        BY <3>1 DEF ParentHolds, ended
    <2>2. CASE p \in Children
      <3>1. pc["parent"] # "pipe"
        BY <2>2 DEF ParentHolds
      <3>2. pc'["parent"] = pc["parent"] /\ table'["parent"] = table["parent"]
        BY <1>1, <2>2 DEF Processes, Children
      <3>3. QED
        BY <3>1, <3>2, ParentFrame
    <2>3. QED
      BY <2>1, <2>2 DEF Processes
  <1>4. ASSUME NEW c \in Children PROVE ChildHolds(c)'
    <2>1. CASE c = p
      <3>1. pc'[c] \in ended /\ At(c, "read", {})' /\ At(c, "write", {})'
        BY <1>1, <2>1 DEF At
      <3>2. Places(c)' = {}
        BY <3>1 DEF Places, ended
      <3>3. pc'[c] \notin {"close a", "dup2", "close b"}
        BY <3>1 DEF ended
      <3>4. pc["parent"] # "pipe" /\ fd[1] # fd[2]
        BY <2>1 DEF ParentHolds, ChildHolds
      <3>5. QED
        BY <3>1, <3>2, <3>3, <3>4 DEF ChildHolds, Mine, Theirs
    <2>2. CASE c # p
      <3>1. pc'[c] = pc[c] /\ table'[c] = table[c]
        BY <1>1, <2>2 DEF Processes
      <3>2. QED
        BY <3>1, ChildFrame
    <2>3. QED
      BY <2>1, <2>2
  <1>5. Counts'
    <2>1. \A q \in Processes, d \in Descriptors : table[q][d] # "write" => table'[q][d] # "write"
      <3> SUFFICES ASSUME NEW q \in Processes, NEW d \in Descriptors, table[q][d] # "write"
                   PROVE  table'[q][d] # "write"
        OBVIOUS
      <3>1. CASE q = p
        BY <1>1, <3>1
      <3>2. CASE q # p
        BY <1>1, <3>2
      <3>3. QED
        BY <3>1, <3>2
    <2>2. Holders("write") = {} => Holders("write")' = {}
      BY <2>1 DEF Holders
    <2>3. pc'["ls"] = "exited" => wrote = Lines
      BY <1>1 DEF Counts, Processes, Children
    <2>4. pc'["wc"] = "exited" => pipe = 0 /\ Holders("write") = {}
      BY <1>1 DEF Counts, Processes, Children
    <2>5. QED
      BY <2>2, <2>3, <2>4 DEF Counts
  <1>6. QED
    BY <1>2, <1>3, <1>4, <1>5

(* A child that goes on disturbs nobody else.                              *)
LEMMA ChildIInv ==
  ASSUME IInv, NEW c \in Children, NEW loc \in {"dup2", "close b", "exec", "run"}, Goto(c, loc),
         pc[c] # "none", UNCHANGED <<fd, pipe, wrote, count, waits, ignored>>,
         table' \in [Processes -> [Descriptors -> {"closed", "other", "read", "write"}]],
         \A q \in Processes \ {c} : table'[q] = table[q],
         \A d \in Descriptors : table'[c][d] = "write" => Holders("write") # {},
         ChildHolds(c)'
  PROVE  IInv'
  <1> USE DEF IInv
  <1>1. pc'[c] = loc /\ \A q \in Processes \ {c} : pc'[q] = pc[q]
    BY DEF Goto, TypeOK, Processes
  <1>2. TypeOK'
    BY DEF Goto, TypeOK, Processes, Children
  <1>3. ParentHolds'
    <2>1. pc["parent"] # "pipe"
      BY DEF ParentHolds
    <2>2. pc'["parent"] = pc["parent"] /\ table'["parent"] = table["parent"]
      BY <1>1 DEF Processes, Children
    <2>3. QED
      BY <2>1, <2>2, ParentFrame
  <1>4. ASSUME NEW b \in Children \ {c} PROVE ChildHolds(b)'
    <2>1. pc'[b] = pc[b] /\ table'[b] = table[b]
      BY <1>1 DEF Processes
    <2>2. QED
      BY <2>1, ChildFrame
  <1>5. Counts'
    <2>1. \A b \in Children : pc'[b] = "exited" => pc[b] = "exited"
      BY <1>1 DEF Processes
    <2>2. ASSUME Holders("write") = {} PROVE Holders("write")' = {}
      <3>1. \A q \in Processes, d \in Descriptors : table'[q][d] # "write"
        <4> SUFFICES ASSUME NEW q \in Processes, NEW d \in Descriptors PROVE table'[q][d] # "write"
          OBVIOUS
        <4>1. CASE q = c
          BY <2>2, <4>1
        <4>2. CASE q # c
          BY <2>2, <4>2, Held
        <4>3. QED
          BY <4>1, <4>2
      <3>2. QED
        BY <3>1 DEF Holders
    <2>3. QED
      BY <2>1, <2>2 DEF Counts, Children
  <1>6. QED
    BY <1>2, <1>3, <1>4, <1>5

LEMMA PlugIInv == ASSUME IInv, NEW c \in Children,
                         CloseUnused(c) \/ Dup2(c) \/ CloseUsed(c) \/ Exec(c)
  PROVE  IInv'
  <1> DEFINE mine == Mine(c)
             theirs == Theirs(c)
             used == Used(c)
             unused == Unused(c)
             std == Std(c)
             held(d) == table'[c][d]
  <1>1. /\ used \in Descriptors /\ unused \in Descriptors /\ std \in Descriptors
        /\ fd[1] # fd[2] => used # unused
    <2>1. fd[1] \in Descriptors /\ fd[2] \in Descriptors
      BY DEF IInv, TypeOK
    <2>2. 0 \in Descriptors /\ 1 \in Descriptors
      BY DEF Descriptors
    <2>3. QED
      BY <2>1, <2>2, Zenon DEF Used, Unused, Std
  <1>2. UNCHANGED <<fd, pipe, wrote, count, waits, ignored>> /\ Used(c)' = used /\ Unused(c)' = unused
    BY DEF CloseUnused, Dup2, CloseUsed, Exec, Used, Unused
  <1>3. /\ c \in Processes /\ c \in DOMAIN pc /\ c \in DOMAIN table /\ DOMAIN table[c] = Descriptors
        /\ table \in [Processes -> [Descriptors -> {"closed", "other", "read", "write"}]]
    BY DEF IInv, TypeOK, Processes
  <1>4. /\ At(c, mine, Places(c))
        /\ At(c, theirs, IF pc[c] = "close a" THEN {unused} ELSE {})
        /\ pc[c] # "none" => fd[1] # fd[2]
        /\ pc[c] \in {"dup2", "close b"} => used # std
    BY DEF IInv, ChildHolds
  <1>5. mine \in {"read", "write"} /\ theirs \in {"read", "write"} /\ mine # theirs
    BY DEF Mine, Theirs
  <1>6. ASSUME NEW loc \in {"dup2", "close b", "exec", "run"}, Goto(c, loc),
               pc[c] # "none", loc \in {"dup2", "close b"} => used # std,
               table' \in [Processes -> [Descriptors -> {"closed", "other", "read", "write"}]],
               \A q \in Processes \ {c} : table'[q] = table[q],
               \A d \in Descriptors : held(d) = mine <=>
                 d \in (IF loc = "dup2" THEN {used} ELSE IF loc = "close b" THEN {used, std} ELSE {std}),
               \A d \in Descriptors : held(d) # theirs,
               table[c][used] = mine \/ table[c][std] = mine
        PROVE  IInv'
    <2>1. pc'[c] = loc
      BY <1>3, <1>6 DEF Goto
    <2>2. Places(c)' = IF loc = "dup2" THEN {used} ELSE IF loc = "close b" THEN {used, std} ELSE {std}
      BY <1>2, <2>1 DEF Places, Std, std
    <2>3. At(c, Mine(c), Places(c))'
      BY <1>6, <2>2 DEF At, Mine, mine
    <2>4. At(c, Theirs(c), {})'
      BY <1>6 DEF At, Theirs, theirs
    <2>5. Used(c)' # Std(c)' \/ loc \notin {"dup2", "close b"}
      BY <1>2, <1>6 DEF Std, std
    <2>6. ChildHolds(c)'
      BY <1>2, <1>4, <1>6, <2>1, <2>3, <2>4, <2>5 DEF ChildHolds, Std
    <2>7. ASSUME NEW d \in Descriptors, table'[c][d] = "write" PROVE Holders("write") # {}
      <3>1. mine = "write"
        BY <1>5, <1>6, <2>7
      <3>2. QED
        BY <1>1, <1>3, <1>6, <3>1, Held
    <2>8. QED
      BY <1>2, <1>6, <2>6, <2>7, ChildIInv
  <1> HIDE DEF mine, theirs, used, unused, std
  <1>7. CASE CloseUnused(c)
    <2>1. pc[c] = "close a" /\ table' = [table EXCEPT ![c][unused] = "closed"]
      BY <1>7 DEF CloseUnused, Close, unused
    <2>2. PICK loc \in {"dup2", "exec"} : /\ loc = (IF used # std THEN "dup2" ELSE "exec")
                                          /\ Goto(c, loc)
      BY <1>7 DEF CloseUnused, used, std
    <2>3. \A d \in Descriptors : held(d) = IF d = unused THEN "closed" ELSE table[c][d]
      BY <1>3, <2>1
    <2>4. used # unused
      BY <1>1, <1>4, <2>1
    <2>5. /\ \A d \in Descriptors : table[c][d] = mine <=> d = used
          /\ \A d \in Descriptors : table[c][d] = theirs <=> d = unused
      BY <1>4, <2>1 DEF At, Places, used
    <2>6. \A d \in Descriptors : (held(d) = mine <=> d = used) /\ held(d) # theirs
      BY <1>5, <2>3, <2>4, <2>5
    <2>7. /\ table' \in [Processes -> [Descriptors -> {"closed", "other", "read", "write"}]]
          /\ \A q \in Processes \ {c} : table'[q] = table[q]
      BY <1>1, <1>3, <2>1
    <2> HIDE DEF held
    <2>8. QED
      BY <1>1, <1>6, <2>1, <2>2, <2>5, <2>6, <2>7
  <1>8. CASE Dup2(c)
    <2>1. /\ pc[c] = "dup2" /\ Goto(c, "close b")
          /\ table' = [table EXCEPT ![c][std] = table[c][used]]
      BY <1>8 DEF Dup2, used, std
    <2>2. \A d \in Descriptors : held(d) = IF d = std THEN table[c][used] ELSE table[c][d]
      BY <1>3, <2>1
    <2>3. used # std
      BY <1>4, <2>1
    <2>4. /\ \A d \in Descriptors : table[c][d] = mine <=> d = used
          /\ \A d \in Descriptors : table[c][d] # theirs
      BY <1>4, <2>1 DEF At, Places, used
    <2>5. \A d \in Descriptors : (held(d) = mine <=> d \in {used, std}) /\ held(d) # theirs
      BY <1>1, <2>2, <2>4
    <2>6. /\ table' \in [Processes -> [Descriptors -> {"closed", "other", "read", "write"}]]
          /\ \A q \in Processes \ {c} : table'[q] = table[q]
      BY <1>1, <1>3, <2>1
    <2> HIDE DEF held
    <2>7. QED
      BY <1>1, <1>6, <2>1, <2>3, <2>4, <2>5, <2>6
  <1>9. CASE CloseUsed(c)
    <2>1. /\ pc[c] = "close b" /\ Goto(c, "exec")
          /\ table' = [table EXCEPT ![c][used] = "closed"]
      BY <1>9 DEF CloseUsed, Close, used
    <2>2. \A d \in Descriptors : held(d) = IF d = used THEN "closed" ELSE table[c][d]
      BY <1>3, <2>1
    <2>3. used # std
      BY <1>4, <2>1
    <2>4. /\ \A d \in Descriptors : table[c][d] = mine <=> d \in {used, std}
          /\ \A d \in Descriptors : table[c][d] # theirs
      BY <1>4, <2>1 DEF At, Places, used, std
    <2>5. \A d \in Descriptors : (held(d) = mine <=> d = std) /\ held(d) # theirs
      BY <1>5, <2>2, <2>3, <2>4
    <2>6. /\ table' \in [Processes -> [Descriptors -> {"closed", "other", "read", "write"}]]
          /\ \A q \in Processes \ {c} : table'[q] = table[q]
      BY <1>1, <1>3, <2>1
    <2> HIDE DEF held
    <2>7. QED
      BY <1>1, <1>6, <2>1, <2>4, <2>5, <2>6
  <1>10. CASE Exec(c)
    <2>1. pc[c] = "exec" /\ Goto(c, "run") /\ UNCHANGED table
      BY <1>10 DEF Exec
    <2>2. /\ \A d \in Descriptors : table[c][d] = mine <=> d = std
          /\ \A d \in Descriptors : table[c][d] # theirs
      BY <1>4, <2>1 DEF At, Places, std
    <2>3. \A d \in Descriptors : held(d) = table[c][d]
      BY <2>1
    <2> HIDE DEF held
    <2>4. QED
      BY <1>1, <1>3, <1>6, <2>1, <2>2, <2>3
  <1>11. QED
    BY <1>7, <1>8, <1>9, <1>10

LEMMA Ranges ==
  ASSUME TypeOK
  PROVE  /\ pipe \in Nat /\ count \in Nat /\ wrote \in Nat /\ wrote <= Lines /\ pipe <= Capacity
         /\ Lines \in Nat /\ Capacity \in Nat /\ waits \in 0 .. 2
  <1>1. pipe \in 0 .. Capacity /\ count \in 0 .. Lines /\ wrote \in 0 .. Lines /\ waits \in 0 .. 2
    BY DEF TypeOK
  <1>2. QED
    BY <1>1, SizesAssumption

LEMMA ProgramIInv == ASSUME IInv, LsWrite \/ LsEnd \/ WcRead \/ WcEnd
  PROVE  IInv'
  <1> USE DEF IInv
  <1>1. "ls" \in Children /\ "wc" \in Children /\ Children \subseteq Processes
    BY DEF Children, Processes
  <1>2. /\ pipe \in Nat /\ count \in Nat /\ wrote \in Nat /\ wrote <= Lines /\ pipe <= Capacity
        /\ Lines \in Nat /\ Capacity \in Nat /\ wrote = pipe + count /\ waits \in 0 .. 2
    BY Ranges DEF Counts
  <1>3. ASSUME NEW c \in Children, pc[c] = "run"
        PROVE  table[c][Std(c)] = Mine(c) /\ Std(c) \in Descriptors
    <2>1. Std(c) \in Descriptors
      BY DEF Std, Descriptors
    <2>2. QED
      BY <1>3, <2>1 DEF ChildHolds, At, Places
  <1>4. ASSUME UNCHANGED <<pc, table, fd, waits, ignored>>, wrote' \in 0 .. Lines, pipe' \in 0 .. Capacity,
               count' \in 0 .. Lines, Counts'
        PROVE  IInv'
    <2>1. ParentHolds' /\ \A c \in Children : ChildHolds(c)'
      <3>1. pc'["parent"] = pc["parent"] /\ table'["parent"] = table["parent"]
        BY <1>4
      <3>2. ParentHolds'
        BY <1>4 DEF ParentHolds, At
      <3>3. QED
        BY <1>4, <3>2, ChildFrame
    <2>2. QED
      BY <1>4, <2>1 DEF TypeOK
  <1>5. CASE LsWrite
    <2>1. Holders("write") # {} /\ pc["ls"] = "run"
      BY <1>1, <1>5, Held, 1 \in Descriptors DEF LsWrite, Descriptors
    <2>2. QED
      BY <1>2, <1>4, <1>5, <2>1 DEF LsWrite, Counts
  <1>6. CASE LsEnd
    <2>1. table["ls"][1] = "write" /\ pc["ls"] = "run"
      BY <1>1, <1>3, <1>6 DEF LsEnd, Std, Mine
    <2>2. PICK how \in {"exited", "killed"} : End("ls", how) /\ (how = "exited" => wrote = Lines)
      BY <1>6, <2>1 DEF LsEnd
    <2>3. UNCHANGED <<fd, pipe, wrote, count, waits, ignored>> /\ how \in ended
      BY <1>6 DEF LsEnd, ended
    <2>4. QED
      BY <1>1, <1>2, <2>1, <2>2, <2>3, EndIInv
  <1>7. CASE WcRead
    BY <1>2, <1>4, <1>7 DEF WcRead, Counts
  <1>8. CASE WcEnd
    <2>1. table["wc"][0] = "read" /\ pc["wc"] = "run"
      BY <1>1, <1>3, <1>8 DEF WcEnd, Std, Mine
    <2>2. /\ pipe = 0 /\ Holders("write") = {} /\ End("wc", "exited") /\ "exited" \in ended
          /\ UNCHANGED <<fd, pipe, wrote, count, waits, ignored>>
      BY <1>8, <2>1 DEF WcEnd, ended
    <2>3. QED
      BY <1>1, <1>2, <2>1, <2>2, EndIInv
  <1>9. QED
    BY <1>5, <1>6, <1>7, <1>8

(* The parent counts two waits only when both children have ended.         *)
LEMMA BothEnded ==
  ASSUME NEW k \in Nat, k < Cardinality({c \in Children : pc[c] \in ended})
  PROVE  k <= 1 /\ (k = 1 => \A c \in Children : pc[c] \in ended)
  <1> DEFINE S == {c \in Children : pc[c] \in ended}
  <1>1. IsFiniteSet({"ls", "wc"}) /\ Cardinality({"ls", "wc"}) = 2
    <2>1. IsFiniteSet({"ls"}) /\ Cardinality({"ls"}) = 1
      BY FS_Singleton
    <2>2. {"ls", "wc"} = {"ls"} \cup {"wc"} /\ "wc" \notin {"ls"}
      OBVIOUS
    <2>3. /\ IsFiniteSet({"ls"} \cup {"wc"})
          /\ Cardinality({"ls"} \cup {"wc"}) = Cardinality({"ls"}) + 1
      <3> HIDE DEF S
      <3>1. IsFiniteSet({"ls"}) /\ "wc" \notin {"ls"}
        BY <2>1, <2>2
      <3>2. QED
        BY ONLY <3>1, FS_AddElement, ZenonT(30)
    <2>4. QED
      BY <2>1, <2>2, <2>3
  <1>2. S \subseteq {"ls", "wc"}
    BY DEF Children
  <1>3. Cardinality(S) <= 2 /\ Cardinality(S) \in Nat
    BY <1>1, <1>2, FS_Subset, FS_CardinalityType
  <1>4. ASSUME S # {"ls", "wc"} PROVE Cardinality(S) <= 1
    <2>1. \E c : S \subseteq {c}
      BY <1>2, <1>4
    <2>2. PICK c : S \subseteq {c}
      BY <2>1
    <2>3. IsFiniteSet({c}) /\ Cardinality({c}) = 1
      BY FS_Singleton
    <2>4. QED
      BY <2>2, <2>3, FS_Subset
  <1>5. S = {"ls", "wc"} => \A c \in Children : pc[c] \in ended
    BY DEF Children
  <1>6. k < Cardinality(S)
    OBVIOUS
  <1> HIDE DEF S
  <1>7. QED
    BY <1>3, <1>4, <1>5, <1>6

LEMMA NextIInv == IInv /\ [Next]_vars => IInv'
  <1> SUFFICES ASSUME IInv, [Next]_vars PROVE IInv'
    OBVIOUS
  <1> USE DEF IInv
  <1>1. CASE ParentStep
    <2>1. CASE CreatePipe \/ (\E c \in Children : Fork(c)) \/ ParentClose
      BY <2>1, ParentIInv
    <2>2. CASE Wait
      <3>1. waits \in Nat /\ waits <= 1 /\ pc["parent"] = "wait" /\ waits' = waits + 1
        <4>1. waits \in Nat
          BY Ranges
        <4>2. QED
          BY <2>2, <4>1, BothEnded DEF Wait
      <3>2. CASE waits' = 2
        <4>1. End("parent", "exited") /\ "exited" \in ended /\ "parent" \in Processes
          BY <2>2, <3>2 DEF Wait, ended, Processes
        <4>2. QED
          BY <2>2, <3>1, <3>2, <4>1, EndIInv DEF Wait
      <3>3. CASE waits' # 2
        <4>1. UNCHANGED <<pc, table, fd, pipe, wrote, count, ignored>> /\ waits' \in 0 .. 2
          BY <2>2, <3>1, <3>3 DEF Wait
        <4>2. ParentHolds'
          BY <4>1 DEF ParentHolds, At
        <4>3. \A c \in Children : ChildHolds(c)'
          BY <4>1, ChildFrame
        <4>4. QED
          BY <4>1, <4>2, <4>3 DEF TypeOK, Counts, Holders
      <3>4. QED
        BY <3>2, <3>3
    <2>3. CASE NoChild
      <3>1. pc["parent"] # "none" /\ waits' \in 0 .. 2 /\ UNCHANGED <<fd, pipe, wrote, count, ignored>>
        BY <2>3, Ranges DEF NoChild
      <3>2. End("parent", "failed") /\ "failed" \in ended /\ "parent" \in Processes
        BY <2>3 DEF NoChild, ended, Processes
      <3>3. QED
        BY <3>1, <3>2, EndIInv
    <2>4. QED
      BY <1>1, <2>1, <2>2, <2>3 DEF ParentStep
  <1>2. ASSUME NEW c \in Children, ChildStep(c) PROVE IInv'
    BY <1>2, PlugIInv, ProgramIInv DEF ChildStep
  <1>3. ASSUME NEW p \in Processes, NEW how \in {"failed", "killed"}, End(p, how), pc[p] # "none",
               UNCHANGED <<fd, pipe, wrote, count, waits, ignored>>
        PROVE  IInv'
    <2>1. how \in ended /\ waits' \in 0 .. 2 /\ how # "exited"
      BY <1>3 DEF ended, TypeOK
    <2>2. QED
      BY <1>3, <2>1, EndIInv
  <1>4. ASSUME NEW c \in Children, ExecError(c) PROVE IInv'
    BY <1>3, <1>4 DEF ExecError, Processes
  <1>5. ASSUME NEW p \in Processes, Error(p) \/ Kill(p) PROVE IInv'
    <2>1. pc[p] # "none"
      BY <1>5, FailingAssumption DEF Error, Kill, Call, Calls
    <2>2. QED
      BY <1>3, <1>5, <2>1 DEF Error, Kill
  <1>6. CASE UNCHANGED vars
    <2>1. ParentHolds'
      BY <1>6 DEF vars, ParentHolds, At
    <2>2. \A c \in Children : ChildHolds(c)'
      BY <1>6, ChildFrame DEF vars
    <2>3. QED
      BY <1>6, <2>1, <2>2 DEF vars, TypeOK, Counts, Holders
  <1>7. QED
    BY <1>1, <1>2, <1>4, <1>5, <1>6 DEF Next, Ended

LEMMA Invariance == Spec => []IInv
  BY InitIInv, NextIInv, PTL DEF Spec
-------------------------------------------------------------------------------
(* Type correctness of pipe_filter.cpp for any number of lines and any     *)
(* capacity of the pipe, whichever descriptors were closed at the start.   *)
THEOREM TypeCorrect == Spec => []TypeOK
  <1>1. IInv => TypeOK
    BY DEF IInv
  <1>2. QED
    BY <1>1, Invariance, PTL

(* Each child runs its program with its end of the pipe where the program  *)
(* looks for it, nowhere else, and without the other end.                  *)
THEOREM PluggedIn == Spec => []Plumbed
  <1>1. IInv => Plumbed
    <2> SUFFICES ASSUME IInv, NEW c \in Children, pc[c] = "run", NEW d \in Descriptors
                 PROVE  /\ (table[c][d] = Mine(c)) <=> (d = Std(c))
                        /\ table[c][d] # Theirs(c)
      BY DEF Plumbed, Mine, Theirs
    <2>1. At(c, Mine(c), {Std(c)}) /\ At(c, Theirs(c), {})
      BY DEF IInv, ChildHolds, Places
    <2>2. QED
      BY <2>1 DEF At
  <1>2. QED
    BY <1>1, Invariance, PTL

(* If ls and wc come to their own end, wc has counted every line of ls.    *)
THEOREM EveryLineCounts == Spec => []CountsAll
  <1>1. IInv => CountsAll
    BY Ranges DEF IInv, Counts, CountsAll
  <1>2. QED
    BY <1>1, Invariance, PTL

(* The parent returns 0 only when both children have ended.                *)
THEOREM Refinement == Spec => Implements
  <1>1. Init => Abstract!Init
    BY DEF Init, Abstract!Init, Processes, Children
  <1>2. IInv /\ [Next]_vars => [Abstract!Next]_(Abstract!vars)
    <2> SUFFICES ASSUME IInv, [Next]_vars PROVE [Abstract!Next]_(Abstract!vars)
      OBVIOUS
    <2>0. /\ \A p \in Processes : p \in DOMAIN pc
          /\ "parent" \in Processes /\ "parent" \notin Children /\ Children \subseteq Processes
      BY DEF IInv, TypeOK, Processes, Children
    <2>1. ASSUME UNCHANGED pc PROVE UNCHANGED Abstract!vars
      BY <2>1 DEF Abstract!vars
    <2>2. ASSUME NEW loc, Goto("parent", loc), loc \notin {"exited", "failed", "killed"},
                 pc["parent"] \notin {"exited", "failed", "killed"}
          PROVE  UNCHANGED Abstract!vars
      BY <2>0, <2>2 DEF Goto, Abstract!vars
    <2>3. ASSUME NEW how \in {"failed", "killed"}, Goto("parent", how),
                 pc["parent"] \notin {"exited", "failed", "killed"}
          PROVE  Abstract!GiveUp
      BY <2>0, <2>3 DEF Goto, Abstract!GiveUp
    <2>4. ASSUME NEW c \in Children, NEW loc, Goto(c, loc), loc \notin ended \cup {"none"},
                 pc[c] \notin ended \cup {"none"}
          PROVE  UNCHANGED Abstract!vars
      BY <2>0, <2>4 DEF Goto, Abstract!vars
    <2>5. ASSUME NEW c \in Children, NEW how \in ended, Goto(c, how), pc[c] \notin ended \cup {"none"}
          PROVE  Abstract!Finish(c)
      BY <2>0, <2>5 DEF Goto, Abstract!Finish, ended
    <2>6. CASE ParentStep
      <3>1. CASE CreatePipe
        BY <2>2, <3>1 DEF CreatePipe
      <3>2. ASSUME NEW c \in Children, Fork(c) PROVE Abstract!Start(c)
        BY <2>0, <3>2 DEF Fork, Abstract!Start, ended
      <3>3. CASE ParentClose
        BY <2>2, <3>3 DEF ParentClose
      <3>4. CASE Wait
        <4>1. CASE waits' = 2
          <5>1. \A c \in Children : pc[c] \in ended
            <6>1. waits \in Nat
              BY Ranges DEF IInv
            <6>2. waits = 1
              BY <3>4, <4>1, <6>1 DEF Wait
            <6>3. QED
              BY <3>4, <6>1, <6>2, BothEnded DEF Wait
          <5>2. pc["parent"] = "wait" /\ Goto("parent", "exited")
            BY <3>4, <4>1 DEF Wait, End
          <5>3. Abstract!GoOn
            BY <2>0, <5>1, <5>2 DEF Goto, Abstract!GoOn, ended
          <5>4. QED
            BY <5>3 DEF Abstract!Next
        <4>2. CASE waits' # 2
          BY <2>1, <3>4, <4>2 DEF Wait
        <4>3. QED
          BY <4>1, <4>2
      <3>5. CASE NoChild
        <4>1. pc["parent"] = "wait" /\ Goto("parent", "failed")
          BY <3>5 DEF NoChild, End
        <4>2. Abstract!GiveUp
          BY <2>3, <4>1
        <4>3. QED
          BY <4>2 DEF Abstract!Next
      <3>6. QED
        BY <2>6, <3>1, <3>2, <3>3, <3>4, <3>5 DEF ParentStep, Abstract!Next
    <2>7. ASSUME NEW c \in Children, ChildStep(c) PROVE [Abstract!Next]_(Abstract!vars)
      <3>1. CASE CloseUnused(c) \/ Dup2(c) \/ CloseUsed(c) \/ Exec(c)
        BY <2>4, <3>1 DEF CloseUnused, Dup2, CloseUsed, Exec, ended
      <3>2. CASE LsWrite \/ WcRead
        BY <2>1, <3>2 DEF LsWrite, WcRead
      <3>3. CASE (c = "ls" /\ LsEnd) \/ (c = "wc" /\ WcEnd)
        BY <2>5, <3>3 DEF LsEnd, WcEnd, End, ended, Abstract!Next
      <3>4. QED
        BY <2>7, <3>1, <3>2, <3>3 DEF ChildStep
    <2>8. ASSUME NEW p \in Processes, NEW how \in {"failed", "killed"}, End(p, how),
                 pc[p] \notin ended \cup {"none"}
          PROVE  [Abstract!Next]_(Abstract!vars)
      <3>1. CASE p \in Children
        BY <2>5, <2>8, <3>1 DEF End, ended, Abstract!Next
      <3>2. CASE p = "parent"
        BY <2>3, <2>8, <3>2 DEF End, ended, Abstract!Next
      <3>3. QED
        BY <3>1, <3>2 DEF Processes
    <2>9. ASSUME NEW c \in Children, ExecError(c) PROVE [Abstract!Next]_(Abstract!vars)
      BY <2>0, <2>8, <2>9 DEF ExecError, ended
    <2>10. ASSUME NEW p \in Processes, Error(p) \/ Kill(p) PROVE [Abstract!Next]_(Abstract!vars)
      <3>1. pc[p] \notin ended \cup {"none"}
        BY <2>10, FailingAssumption DEF Error, Kill, Call, Calls, ended
      <3>2. QED
        BY <2>8, <2>10, <3>1 DEF Error, Kill
    <2>11. CASE UNCHANGED vars
      BY <2>1, <2>11 DEF vars
    <2>12. QED
      BY <2>6, <2>7, <2>9, <2>10, <2>11 DEF Next, Ended
  <1>3. QED
    BY <1>1, <1>2, Invariance, PTL DEF Spec, Implements, Abstract!Spec
-------------------------------------------------------------------------------
(* pipe.cpp.  PipeParameters is what module Pipe assumes of its constants. *)

CONSTANTS Lengths, BufSize, PipeSize, PipeFailing, PipeKillable

VARIABLES message, mpc, cpc, readers, writers, bytes, sent, buf, out

Pipe == INSTANCE Pipe WITH
  Capacity <- PipeSize, Failing <- PipeFailing, Killable <- PipeKillable, pipe <- bytes

PipeParameters == /\ Lengths \subseteq Nat /\ {BufSize, PipeSize} \subseteq Nat \ {0}
                  /\ PipeFailing \subseteq Pipe!Calls /\ PipeKillable \subseteq Pipe!Processes

\* The child's bytes are in order; the parent holds the write end until it closes it, so that
\* the child comes to end-of-file with everything on its output.
PipeInv ==
  /\ message \in Seq(Nat) /\ bytes \in Seq(Nat) /\ buf \in Seq(Nat) /\ out \in Seq(Nat)
  /\ sent \in 0 .. Len(message)
  /\ cpc # "failed" => (out \o buf) \o bytes = SubSeq(message, 1, sent)
  /\ mpc \in {"pipe", "fork", "close0", "write", "close1", "wait"} \cup Pipe!ended
  /\ cpc \in {"none", "close1", "read", "write", "newline", "close0"} \cup Pipe!ended
  /\ mpc \in {"pipe", "fork"} => cpc = "none"
  /\ mpc \in {"fork", "close0", "write", "close1"} => "parent" \in writers
  /\ cpc \notin {"write", "failed", "killed"} => buf = <<>>
  /\ cpc = "write" => buf # <<>>
  /\ cpc \in {"newline", "close0", "exited"} =>
       bytes = <<>> /\ mpc \in {"wait"} \cup Pipe!ended

(* A sequence is a prefix of what it is put in front of.                   *)
LEMMA PrefixOf ==
  ASSUME NEW s \in Seq(Nat), NEW u \in Seq(Nat)
  PROVE  /\ Pipe!Abstract!IsPrefix(s, s \o u)
         /\ u # <<>> => Pipe!Abstract!IsStrictPrefix(s, s \o u)
  <1>1. Len(s) \in Nat /\ Len(u) \in Nat /\ Len(s \o u) = Len(s) + Len(u)
    BY ConcatProperties, LenProperties
  <1>2. SubSeq(s, 1, Len(s)) = SubSeq(s \o u, 1, Len(s))
    <2>1. CASE Len(s) = 0
      BY <2>1, SubSeqEmpty
    <2>2. CASE Len(s) # 0
      <3>1. 1 \in 1 .. Len(s) /\ Len(s) \in 1 .. Len(s)
        BY <1>1, <2>2
      <3>2. QED
        BY <3>1, SubSeqOfConcat1
    <2>3. QED
      BY <2>1, <2>2
  <1>3. u # <<>> => s # s \o u
    BY ConcatEqualIffEmpty
  <1>4. Len(s) <= Len(s \o u)
    BY <1>1
  <1>5. QED
    BY <1>2, <1>3, <1>4, Zenon DEF Pipe!Abstract!IsPrefix, Pipe!Abstract!IsStrictPrefix

(* A sequence is its first k elements and the others.                      *)
LEMMA Cut ==
  ASSUME NEW s \in Seq(Nat), NEW k \in 0 .. Len(s)
  PROVE  /\ SubSeq(s, 1, k) \in Seq(Nat) /\ SubSeq(s, k + 1, Len(s)) \in Seq(Nat)
         /\ SubSeq(s, 1, k) \o SubSeq(s, k + 1, Len(s)) = s
         /\ k > 0 => SubSeq(s, 1, k) # <<>>
  <1>1. Len(s) \in Nat
    BY LenProperties
  <1>2. 1 \in 1 .. Len(s) + 1 /\ k \in 1 - 1 .. Len(s) /\ Len(s) \in k .. Len(s)
    BY <1>1
  <1>3. SubSeq(s, 1, k) \o SubSeq(s, k + 1, Len(s)) = s
    BY <1>2, ConcatAdjacentSubSeq, SubSeqFull
  <1>4. \A i \in 1 .. Len(s) : s[i] \in Nat
    BY ElementOfSeq
  <1>5. SubSeq(s, 1, k) \in Seq(Nat) /\ (k > 0 => Len(SubSeq(s, 1, k)) = k)
    <2>1. 1 \in Int /\ k \in Int /\ \A i \in 1 .. k : s[i] \in Nat
      BY <1>1, <1>4
    <2>2. /\ SubSeq(s, 1, k) \in Seq(Nat)
          /\ Len(SubSeq(s, 1, k)) = IF 1 <= k THEN k - 1 + 1 ELSE 0
      BY <2>1, SubSeqProperties
    <2>3. QED
      BY <2>1, <2>2
  <1>6. SubSeq(s, k + 1, Len(s)) \in Seq(Nat)
    <2>1. k + 1 \in Int /\ Len(s) \in Int /\ \A i \in k + 1 .. Len(s) : s[i] \in Nat
      BY <1>1, <1>4
    <2>2. QED
      BY <2>1, SubSeqProperties
  <1>7. k > 0 => SubSeq(s, 1, k) # <<>>
    <2>1. Len(<<>>) = 0
      OBVIOUS
    <2>2. QED
      BY <1>5, <2>1
  <1>8. QED
    BY <1>3, <1>5, <1>6, <1>7

(* The next k bytes of the message.                                        *)
LEMMA NextBytes ==
  ASSUME NEW s \in Seq(Nat), NEW n \in 0 .. Len(s), NEW k \in Nat, n + k <= Len(s)
  PROVE  /\ SubSeq(s, 1, n) \in Seq(Nat) /\ SubSeq(s, n + 1, n + k) \in Seq(Nat)
         /\ SubSeq(s, 1, n + k) = SubSeq(s, 1, n) \o SubSeq(s, n + 1, n + k)
         /\ k > 0 => SubSeq(s, n + 1, n + k) # <<>>
  <1>1. Len(s) \in Nat
    BY LenProperties
  <1>2. 1 \in 1 .. Len(s) + 1 /\ n \in 1 - 1 .. Len(s) /\ n + k \in n .. Len(s)
    BY <1>1
  <1>3. SubSeq(s, 1, n) \o SubSeq(s, n + 1, n + k) = SubSeq(s, 1, n + k)
    BY <1>2, ConcatAdjacentSubSeq
  <1>4. \A i \in 1 .. Len(s) : s[i] \in Nat
    BY ElementOfSeq
  <1>5. n + 1 \in Int /\ n + k \in Int /\ \A i \in n + 1 .. n + k : s[i] \in Nat
    BY <1>1, <1>4
  <1>6. /\ SubSeq(s, n + 1, n + k) \in Seq(Nat)
        /\ Len(SubSeq(s, n + 1, n + k)) = IF n + 1 <= n + k THEN (n + k) - (n + 1) + 1 ELSE 0
    BY <1>5, SubSeqProperties
  <1>7. k > 0 => SubSeq(s, n + 1, n + k) # <<>>
    <2>1. Len(<<>>) = 0
      OBVIOUS
    <2>2. QED
      BY <1>6, <2>1
  <1>8. QED
    BY <1>3, <1>6, <1>7, Cut

LEMMA Associative ==
  \A s, t, u \in Seq(Nat) : (s \o t) \o u = s \o (t \o u)
  <1> SUFFICES ASSUME NEW s \in Seq(Nat), NEW t \in Seq(Nat), NEW u \in Seq(Nat)
               PROVE  (s \o t) \o u = s \o (t \o u)
    BY Zenon
  <1>1. QED
    BY ConcatAssociative, SMTT(30)

LEMMA PipeBegins == ASSUME PipeParameters, Pipe!Init PROVE PipeInv
  <1>1. PICK n \in Lengths : message = [k \in 1 .. n |-> k]
    BY DEF Pipe!Init
  <1>2. message \in Seq(Nat)
    BY <1>1 DEF PipeParameters
  <1>3. QED
    BY <1>2 DEF Pipe!Init, PipeInv

LEMMA PutStep == ASSUME PipeInv, Pipe!PutBytes
  PROVE  PipeInv' /\ Pipe!Abstract!Put
  <1>1. PICK k \in 1 .. PipeSize - Len(bytes) :
          /\ sent + k <= Len(message)
          /\ bytes' = bytes \o SubSeq(message, sent + 1, sent + k)
          /\ sent' = sent + k
    BY DEF Pipe!PutBytes
  <1> DEFINE new == SubSeq(message, sent + 1, sent + k)
             old == SubSeq(message, 1, sent)
  <1>2. k \in Nat /\ k > 0 /\ sent \in Nat /\ sent + k \in 0 .. Len(message)
    BY <1>1, LenProperties DEF PipeInv
  <1>3. new \in Seq(Nat) /\ new # <<>> /\ old \in Seq(Nat) /\ SubSeq(message, 1, sent + k) = old \o new
    BY <1>1, <1>2, NextBytes DEF PipeInv
  <1>4. SubSeq(message, 1, sent)' = old \o new
    BY <1>1, <1>3 DEF Pipe!PutBytes
  <1>5. bytes' = bytes \o new /\ UNCHANGED <<message, mpc, cpc, readers, writers, buf, out>>
    BY <1>1 DEF Pipe!PutBytes
  <1> HIDE DEF new, old
  <1>6. bytes' \in Seq(Nat)
    BY <1>3, <1>5, ConcatProperties DEF PipeInv
  <1>7. cpc # "failed" => (out \o buf) \o bytes' = old \o new
    <2>1. ASSUME cpc # "failed" PROVE (out \o buf) \o bytes' = old \o new
      <3>1. out \o buf \in Seq(Nat)
        BY ConcatProperties DEF PipeInv
      <3>2. (out \o buf) \o (bytes \o new) = ((out \o buf) \o bytes) \o new
        <4>1. bytes \in Seq(Nat)
          BY DEF PipeInv
        <4>2. QED
          BY <1>3, <3>1, <4>1, Associative, Zenon
      <3>3. (out \o buf) \o bytes = old
        BY <2>1 DEF PipeInv, old
      <3>4. QED
        BY <1>5, <3>2, <3>3
    <2>2. QED
      BY <2>1
  <1>8. mpc = "write" /\ cpc \notin {"newline", "close0", "exited"}
    BY DEF Pipe!PutBytes, PipeInv, Pipe!ended
  <1>9. PipeInv'
    BY <1>1, <1>2, <1>4, <1>5, <1>6, <1>7, <1>8 DEF PipeInv
  <1>10. Pipe!Abstract!IsStrictPrefix(old, old \o new)
    BY <1>3, PrefixOf
  <1>11. Pipe!Abstract!Put
    BY <1>4, <1>5, <1>8, <1>10 DEF Pipe!Abstract!Put, Pipe!ended, old
  <1>12. QED
    BY <1>9, <1>11

LEMMA ReadStep == ASSUME PipeParameters, PipeInv, Pipe!Read
  PROVE  PipeInv' /\ UNCHANGED Pipe!Abstract!vars
  <1>1. PICK k \in 0 .. Len(bytes) : /\ buf' = SubSeq(bytes, 1, k)
                                     /\ bytes' = SubSeq(bytes, k + 1, Len(bytes))
                                     /\ k > 0
    <2> DEFINE k == Pipe!Min({Len(bytes), BufSize})
    <2>1. Len(bytes) \in Nat /\ Len(bytes) > 0 /\ BufSize \in Nat /\ BufSize > 0
      BY LenProperties, EmptySeq, SMTT(30) DEF PipeInv, PipeParameters, Pipe!Read
    <2>2. \E x \in {Len(bytes), BufSize} : \A y \in {Len(bytes), BufSize} : x =< y
      BY <2>1
    <2>3. k \in {Len(bytes), BufSize} /\ k <= Len(bytes)
      BY <2>2 DEF Pipe!Min
    <2>4. k \in 0 .. Len(bytes) /\ k > 0
      BY <2>1, <2>3
    <2>5. buf' = SubSeq(bytes, 1, k) /\ bytes' = SubSeq(bytes, k + 1, Len(bytes))
      BY DEF Pipe!Read
    <2> HIDE DEF k
    <2>6. QED
      BY <2>4, <2>5
  <1>2. cpc = "read" /\ cpc' = "write" /\ UNCHANGED <<message, mpc, readers, writers, sent, out>>
    BY DEF Pipe!Read
  <1>3. buf = <<>> /\ (out \o buf) \o bytes = SubSeq(message, 1, sent)
    BY <1>2 DEF PipeInv
  <1>4. buf' \in Seq(Nat) /\ bytes' \in Seq(Nat) /\ buf' \o bytes' = bytes /\ buf' # <<>>
    BY <1>1, Cut DEF PipeInv
  <1>5. (out \o buf') \o bytes' = SubSeq(message, 1, sent)
    <2>0. out \in Seq(Nat)
      BY DEF PipeInv
    <2>1. (out \o buf') \o bytes' = out \o bytes
      BY <1>4, <2>0, Associative, Zenon
    <2>2. out \o buf = out
      BY <1>3, ConcatEmptySeq DEF PipeInv
    <2>3. QED
      BY <1>3, <2>1, <2>2
  <1>6. PipeInv'
    BY <1>2, <1>4, <1>5 DEF PipeInv
  <1>7. QED
    BY <1>2, <1>6 DEF Pipe!Abstract!vars

LEMMA WriteStep == ASSUME PipeInv, Pipe!WriteOut
  PROVE  PipeInv' /\ Pipe!Abstract!Get
  <1>1. /\ cpc = "write" /\ cpc' = "read" /\ out' = out \o buf /\ buf' = <<>>
        /\ UNCHANGED <<message, mpc, readers, writers, bytes, sent>>
    BY DEF Pipe!WriteOut
  <1>2. buf # <<>> /\ (out \o buf) \o bytes = SubSeq(message, 1, sent)
    BY <1>1 DEF PipeInv
  <1>3. out \o buf \in Seq(Nat) /\ (out \o buf) \o <<>> = out \o buf /\ <<>> \in Seq(Nat)
    BY ConcatProperties, ConcatEmptySeq DEF PipeInv
  <1>4. PipeInv'
    BY <1>1, <1>2, <1>3 DEF PipeInv
  <1>5. Pipe!Abstract!IsStrictPrefix(out, out')
    BY <1>1, <1>2, PrefixOf DEF PipeInv
  <1>6. Pipe!Abstract!IsPrefix(out', SubSeq(message, 1, sent))
    BY <1>1, <1>2, <1>3, PrefixOf DEF PipeInv
  <1>7. Pipe!Abstract!Get
    BY <1>1, <1>5, <1>6 DEF Pipe!Abstract!Get, Pipe!ended
  <1>8. QED
    BY <1>4, <1>7

LEMMA ShortWriteStep == ASSUME PipeInv, Pipe!ShortWrite
  PROVE  PipeInv' /\ Pipe!Abstract!Fail
  <1>1. PICK k \in 1 .. Len(buf) - 1 : out' = out \o SubSeq(buf, 1, k)
    BY DEF Pipe!ShortWrite
  <1>2. /\ cpc = "write" /\ cpc' = "failed" /\ UNCHANGED <<message, mpc, bytes, sent, buf>>
        /\ "parent" \in writers => "parent" \in writers'
    BY DEF Pipe!ShortWrite, Pipe!Drop
  <1> DEFINE some == SubSeq(buf, 1, k)
             rest == SubSeq(buf, k + 1, Len(buf))
  <1>3. k \in 0 .. Len(buf)
    BY LenProperties DEF PipeInv
  <1>4. some \in Seq(Nat) /\ rest \in Seq(Nat) /\ some \o rest = buf
    BY <1>3, Cut DEF PipeInv
  <1>5. out' = out \o some
    BY <1>1
  <1> HIDE DEF some, rest
  <1>6. out' \in Seq(Nat)
    BY <1>4, <1>5, ConcatProperties DEF PipeInv
  <1>7. out' \o (rest \o bytes) = SubSeq(message, 1, sent)
    <2>1. (out \o buf) \o bytes = SubSeq(message, 1, sent)
      BY <1>2 DEF PipeInv
    <2>0. out \in Seq(Nat) /\ bytes \in Seq(Nat)
      BY DEF PipeInv
    <2>2. out \o buf = out' \o rest
      BY <1>4, <1>5, <2>0, Associative, Zenon
    <2>3. (out' \o rest) \o bytes = out' \o (rest \o bytes)
      BY <1>4, <1>6, <2>0, Associative, Zenon
    <2>4. QED
      BY <2>1, <2>2, <2>3
  <1>8. rest \o bytes \in Seq(Nat)
    BY <1>4, ConcatProperties DEF PipeInv
  <1>9. Pipe!Abstract!IsPrefix(out, out') /\ Pipe!Abstract!IsPrefix(out', SubSeq(message, 1, sent))
    BY <1>4, <1>5, <1>6, <1>7, <1>8, PrefixOf DEF PipeInv
  <1>10. PipeInv'
    BY <1>2, <1>6 DEF PipeInv, Pipe!ended
  <1>11. Pipe!Abstract!Fail
    BY <1>2, <1>9 DEF Pipe!Abstract!Fail, Pipe!ended
  <1>12. QED
    BY <1>10, <1>11

(* Everything else leaves the bytes where they are.                        *)
LEMMA ParentQuiet ==
  ASSUME PipeInv,
         Pipe!CreatePipe \/ Pipe!Fork \/ Pipe!ParentCloseRead \/ Pipe!Written \/ Pipe!BrokenPipe
           \/ Pipe!ParentCloseWrite \/ Pipe!Wait \/ Pipe!ParentError \/ Pipe!KillParent
  PROVE  PipeInv' /\ [Pipe!Abstract!Close]_(Pipe!Abstract!vars)
  <1> USE DEF Pipe!Drop, Pipe!ended
  <1>0. /\ UNCHANGED <<message, bytes, sent, buf, out>>
        /\ SubSeq(message, 1, sent)' = SubSeq(message, 1, sent)
    BY DEF Pipe!CreatePipe, Pipe!Fork, Pipe!ParentCloseRead, Pipe!Written, Pipe!BrokenPipe,
           Pipe!ParentCloseWrite, Pipe!Wait, Pipe!ParentError, Pipe!KillParent
  <1>1. CASE Pipe!CreatePipe
    <2>1. mpc = "pipe" /\ mpc' = "fork" /\ "parent" \in writers' /\ UNCHANGED cpc
      BY <1>1 DEF Pipe!CreatePipe
    <2>2. PipeInv'
      BY <1>0, <2>1 DEF PipeInv
    <2>3. UNCHANGED Pipe!Abstract!vars
      BY <1>0, <2>1, Zenon DEF Pipe!Abstract!vars
    <2>4. QED
      BY <2>2, <2>3
  <1>2. CASE Pipe!Fork
    <2>1. mpc = "fork" /\ mpc' = "close0" /\ "parent" \in writers' /\ cpc' = "close1"
      BY <1>2 DEF Pipe!Fork, Pipe!Processes
    <2>2. cpc = "none"
      BY <2>1 DEF PipeInv
    <2>3. PipeInv'
      BY <1>0, <2>1, <2>2 DEF PipeInv
    <2>4. UNCHANGED Pipe!Abstract!vars
      BY <1>0, <2>1, <2>2, Zenon DEF Pipe!Abstract!vars
    <2>5. QED
      BY <2>3, <2>4
  <1>3. CASE Pipe!ParentCloseRead \/ Pipe!Written
    <2>1. mpc \in {"close0", "write"} /\ mpc' \in {"write", "close1"} /\ UNCHANGED <<cpc, writers>>
      BY <1>3 DEF Pipe!ParentCloseRead, Pipe!Written
    <2>2. PipeInv'
      BY <1>0, <2>1 DEF PipeInv
    <2>3. UNCHANGED Pipe!Abstract!vars
      BY <1>0, <2>1, Zenon DEF Pipe!Abstract!vars
    <2>4. QED
      BY <2>2, <2>3
  <1>4. CASE \/ Pipe!BrokenPipe \/ Pipe!ParentCloseWrite \/ Pipe!Wait
             \/ Pipe!ParentError \/ Pipe!KillParent
    <2>1. mpc' \in {"wait", "exited", "failed", "killed"} /\ UNCHANGED cpc
      BY <1>4 DEF Pipe!BrokenPipe, Pipe!ParentCloseWrite, Pipe!Wait, Pipe!ParentError,
                  Pipe!KillParent
    <2>2. PipeInv'
      BY <1>0, <2>1 DEF PipeInv
    <2>3. CASE mpc \in {"wait", "exited", "failed", "killed"}
      <3>1. UNCHANGED Pipe!Abstract!vars
        BY <1>0, <2>1, <2>3, Zenon DEF Pipe!Abstract!vars
      <3>2. QED
        BY <2>2, <3>1
    <2>4. CASE mpc \notin {"wait", "exited", "failed", "killed"}
      <3>1. Pipe!Abstract!Close
        BY <1>0, <2>1, <2>4, Zenon DEF Pipe!Abstract!Close
      <3>2. QED
        BY <2>2, <3>1
    <2>5. QED
      BY <2>3, <2>4
  <1>5. QED
    BY <1>1, <1>2, <1>3, <1>4

LEMMA ChildQuiet ==
  ASSUME PipeParameters, PipeInv,
         Pipe!ChildCloseWrite \/ Pipe!WriteNewline \/ Pipe!ChildCloseRead
           \/ Pipe!EndOfFile \/ Pipe!ChildError \/ Pipe!KillChild
  PROVE  PipeInv' /\ [Pipe!Abstract!End \/ Pipe!Abstract!Fail]_(Pipe!Abstract!vars)
  <1> USE DEF Pipe!Drop, Pipe!ended
  <1>0. /\ UNCHANGED <<message, mpc, bytes, sent, buf, out>>
        /\ SubSeq(message, 1, sent)' = SubSeq(message, 1, sent)
        /\ "parent" \in writers => "parent" \in writers'
    BY DEF Pipe!ChildCloseWrite, Pipe!WriteNewline, Pipe!ChildCloseRead, Pipe!EndOfFile,
           Pipe!ChildError, Pipe!KillChild
  <1>1. CASE Pipe!ChildCloseWrite \/ Pipe!WriteNewline \/ Pipe!ChildCloseRead
    <2>1. \/ cpc = "close1" /\ cpc' = "read"
          \/ cpc = "newline" /\ cpc' = "close0"
          \/ cpc = "close0" /\ cpc' = "exited"
      BY <1>1 DEF Pipe!ChildCloseWrite, Pipe!WriteNewline, Pipe!ChildCloseRead
    <2>2. PipeInv'
      BY <1>0, <2>1 DEF PipeInv
    <2>3. UNCHANGED Pipe!Abstract!vars
      BY <1>0, <2>1, Zenon DEF Pipe!Abstract!vars
    <2>4. QED
      BY <2>2, <2>3
  <1>2. CASE Pipe!EndOfFile
    <2>1. cpc = "read" /\ cpc' = "newline" /\ bytes = <<>> /\ writers = {}
      BY <1>2 DEF Pipe!EndOfFile
    <2>2. mpc \in {"wait"} \cup Pipe!ended /\ buf = <<>>
      BY <2>1 DEF PipeInv
    <2>3. PipeInv'
      BY <1>0, <2>1, <2>2 DEF PipeInv
    <2>4. out = SubSeq(message, 1, sent)
      <3>1. (out \o buf) \o bytes = SubSeq(message, 1, sent) /\ out \in Seq(Nat)
        BY <2>1 DEF PipeInv
      <3>2. out \o <<>> = out
        BY <3>1, ConcatEmptySeq
      <3>3. QED
        BY <2>1, <2>2, <3>1, <3>2
    <2>5. Pipe!Abstract!End
      BY <1>0, <2>1, <2>2, <2>4, Zenon DEF Pipe!Abstract!End
    <2>6. QED
      BY <2>3, <2>5
  <1>3. CASE Pipe!ChildError \/ Pipe!KillChild
    <2>1. cpc' \in {"failed", "killed"} /\ cpc \notin {"none", "failed", "killed"}
      BY <1>3 DEF Pipe!ChildError, Pipe!KillChild, Pipe!Call, Pipe!Calls, PipeParameters
    <2>2. PipeInv'
      BY <1>0, <2>1 DEF PipeInv
    <2>3. out \in Seq(Nat) /\ <<>> \in Seq(Nat) /\ buf \o bytes \in Seq(Nat)
      BY ConcatProperties DEF PipeInv
    <2>4. out \o (buf \o bytes) = SubSeq(message, 1, sent)
      <3>1. (out \o buf) \o bytes = SubSeq(message, 1, sent)
        BY <2>1 DEF PipeInv
      <3>2. out \in Seq(Nat) /\ buf \in Seq(Nat) /\ bytes \in Seq(Nat)
        BY DEF PipeInv
      <3>3. QED
        BY <3>1, <3>2, Associative, Zenon
    <2>5. Pipe!Abstract!IsPrefix(out, SubSeq(message, 1, sent))
      BY <2>3, <2>4, PrefixOf
    <2>6. Pipe!Abstract!IsPrefix(out, out)
      BY <2>3, PrefixOf, ConcatEmptySeq
    <2>7. Pipe!Abstract!Fail
      BY <1>0, <2>1, <2>5, <2>6, Zenon DEF Pipe!Abstract!Fail
    <2>8. QED
      BY <2>2, <2>7
  <1>4. QED
    BY <1>1, <1>2, <1>3

LEMMA PipeStep == ASSUME PipeParameters, PipeInv, [Pipe!Next]_(Pipe!vars)
  PROVE  PipeInv' /\ [Pipe!Abstract!Next]_(Pipe!Abstract!vars)
  <1>1. CASE UNCHANGED Pipe!vars
    BY <1>1 DEF Pipe!vars, PipeInv, Pipe!Abstract!vars
  <1>2. CASE Pipe!ParentStep \/ Pipe!ParentError \/ Pipe!KillParent
    BY <1>2, PutStep, ParentQuiet DEF Pipe!ParentStep, Pipe!Abstract!Next
  <1>3. CASE Pipe!ChildStep \/ Pipe!ShortWrite \/ Pipe!ChildError \/ Pipe!KillChild
    BY <1>3, ReadStep, WriteStep, ShortWriteStep, ChildQuiet DEF Pipe!ChildStep, Pipe!Abstract!Next
  <1>4. QED
    BY <1>1, <1>2, <1>3 DEF Pipe!Next, Pipe!Ended

(* No byte is lost, repeated or overtaken between the parent's message and *)
(* the child's output, for any message, buffer and capacity.               *)
THEOREM NothingLost == ASSUME PipeParameters PROVE Pipe!Spec => []Pipe!InTransit
  <1>1. PipeInv => Pipe!InTransit
    BY DEF PipeInv, Pipe!InTransit
  <1>2. QED
    BY <1>1, PipeBegins, PipeStep, PTL DEF Pipe!Spec

(* pipe.cpp is a stream: its child comes to end-of-file only once the      *)
(* parent's write end is gone and all that was put in is on its output.    *)
THEOREM PipeRefinement == ASSUME PipeParameters PROVE Pipe!Spec => Pipe!Implements
  <1>1. Pipe!Init => Pipe!Abstract!Init
    BY SubSeqEmpty DEF Pipe!Init, Pipe!Abstract!Init, Pipe!ended
  <1>2. QED
    BY <1>1, PipeBegins, PipeStep, PTL DEF Pipe!Spec, Pipe!Implements, Pipe!Abstract!Spec
-------------------------------------------------------------------------------
(* pipe_sync.cpp, for every number of children; SyncParameters is what     *)
(* module PipeSync assumes of its constants.  Its parent and children are  *)
(* where mpc and cpc say, and writers are the holders of the write end,    *)
(* as in pipe.cpp.                                                         *)

CONSTANTS N, SyncFailing, SyncKillable

VARIABLE i

Sync == INSTANCE PipeSync WITH Failing <- SyncFailing, Killable <- SyncKillable

SyncParameters == /\ N \in Nat \ {0}
                  /\ SyncFailing \subseteq Sync!Calls /\ SyncKillable \subseteq Sync!Children

(* The children forked so far are those below i, and all are once the      *)
(* parent reads.                                                           *)
SyncForked == /\ mpc = "pipe" => i = 1
              /\ \A c \in Sync!Children : c < i <=> cpc[c] # "none"
              /\ mpc = "read" => i = N + 1

SyncInv == Sync!TypeOK /\ Sync!WriteEnd /\ SyncForked
-------------------------------------------------------------------------------
LEMMA SyncBegins == ASSUME SyncParameters, Sync!Init PROVE SyncInv
  BY DEF SyncParameters, Sync!Init, SyncInv, Sync!TypeOK, Sync!WriteEnd, Sync!Working,
         SyncForked, Sync!Children

LEMMA SyncParent == ASSUME SyncParameters, SyncInv, Sync!ParentStep \/ Sync!ParentError
                    PROVE  SyncInv'
  <1> USE DEF SyncParameters, SyncInv, Sync!Calls
  <1>1. CASE Sync!CreatePipe
    BY <1>1 DEF Sync!CreatePipe, Sync!TypeOK, Sync!WriteEnd, Sync!Working, SyncForked,
                Sync!Children, Sync!Parent
  <1>2. CASE Sync!Fork
    <2>1. i \in Sync!Children /\ Sync!Parent \in writers
      BY <1>2 DEF Sync!Fork, Sync!TypeOK, Sync!WriteEnd, Sync!Children
    <2>2. Sync!TypeOK' /\ SyncForked'
      BY <1>2, <2>1 DEF Sync!Fork, Sync!TypeOK, SyncForked, Sync!Children
    <2>3. {c \in Sync!Children : Sync!Working(c)}'
            = {c \in Sync!Children : Sync!Working(c)} \cup {i}
      BY <1>2, <2>1 DEF Sync!Fork, Sync!TypeOK, Sync!Working
    <2>4. Sync!WriteEnd'
      BY <1>2, <2>1, <2>3 DEF Sync!Fork, Sync!WriteEnd
    <2>5. QED
      BY <2>2, <2>4
  <1>3. CASE Sync!ParentClose \/ Sync!ParentRead \/ Sync!ParentError
    <2>1. Sync!TypeOK' /\ SyncForked'
      <3>1. Sync!TypeOK'
        BY <1>3 DEF Sync!ParentClose, Sync!ParentRead, Sync!ParentError, Sync!TypeOK
      <3>2. mpc' # "pipe" /\ (mpc' = "read" => i' = N + 1)
        BY <1>3 DEF Sync!ParentClose, Sync!ParentRead, Sync!ParentError, Sync!TypeOK
      <3>3. UNCHANGED <<cpc, i>>
        BY <1>3 DEF Sync!ParentClose, Sync!ParentRead, Sync!ParentError
      <3>4. QED
        BY <3>1, <3>2, <3>3 DEF SyncForked
    <2>2. Sync!Parent \notin Sync!Children
      BY DEF Sync!Parent, Sync!Children
    <2>3. {c \in Sync!Children : Sync!Working(c)}' = {c \in Sync!Children : Sync!Working(c)}
      BY <1>3 DEF Sync!ParentClose, Sync!ParentRead, Sync!ParentError, Sync!Working
    <2>4. Sync!WriteEnd'
      BY <1>3, <2>2, <2>3 DEF Sync!ParentClose, Sync!ParentRead, Sync!ParentError,
                              Sync!WriteEnd, Sync!TypeOK
    <2>5. QED
      BY <2>1, <2>4
  <1>4. QED
    BY <1>1, <1>2, <1>3 DEF Sync!ParentStep

LEMMA SyncChild == ASSUME SyncInv, NEW c \in Sync!Children,
                          Sync!Child(c) \/ Sync!ChildError(c) \/ Sync!Kill(c)
                   PROVE  SyncInv'
  <1> USE DEF SyncInv, Sync!Child, Sync!ChildCloseRead, Sync!ChildCloseWrite, Sync!ChildExit,
              Sync!ChildError, Sync!Kill
  <1>1. Sync!TypeOK'
    BY DEF Sync!TypeOK
  <1>2. SyncForked'
    BY DEF Sync!TypeOK, SyncForked
  <1>3. Sync!Parent # c
    BY DEF Sync!Parent, Sync!Children
  <1>4. CASE Sync!ChildCloseRead(c) \/ Sync!ChildExit(c)
    <2>1. {d \in Sync!Children : Sync!Working(d)}' = {d \in Sync!Children : Sync!Working(d)}
      BY <1>4 DEF Sync!TypeOK, Sync!Working
    <2>2. QED
      BY <1>1, <1>2, <1>4, <2>1 DEF Sync!WriteEnd
  <1>5. CASE Sync!ChildCloseWrite(c) \/ Sync!ChildError(c) \/ Sync!Kill(c)
    <2>1. {d \in Sync!Children : Sync!Working(d)}' = {d \in Sync!Children : Sync!Working(d)} \ {c}
      BY <1>5 DEF Sync!TypeOK, Sync!Working
    <2>2. mpc' = mpc /\ writers' = writers \ {c}
      BY <1>5
    <2>3. QED
      BY <1>1, <1>2, <1>3, <2>1, <2>2 DEF Sync!WriteEnd
  <1>6. QED
    BY <1>4, <1>5

LEMMA SyncStep == ASSUME SyncParameters PROVE SyncInv /\ [Sync!Next]_(Sync!vars) => SyncInv'
  <1>1. ASSUME SyncInv, Sync!Ended \/ UNCHANGED Sync!vars PROVE SyncInv'
    BY <1>1 DEF Sync!Ended, Sync!vars, SyncInv, Sync!TypeOK, Sync!WriteEnd, Sync!Working, SyncForked
  <1>2. QED
    BY <1>1, SyncParent, SyncChild DEF Sync!Next

LEMMA SyncInvariant == ASSUME SyncParameters PROVE Sync!Spec => []SyncInv
  BY SyncBegins, SyncStep, PTL DEF Sync!Spec
-------------------------------------------------------------------------------
(* The variables keep their types.                                         *)
THEOREM SyncTypeCorrect == ASSUME SyncParameters PROVE Sync!Spec => []Sync!TypeOK
  <1>1. SyncInv => Sync!TypeOK
    BY DEF SyncInv
  <1>2. QED
    BY <1>1, SyncInvariant, PTL

(* The write end is held by the children at work, and by the parent until  *)
(* it has forked them all.                                                 *)
THEOREM WriteEndHeld == ASSUME SyncParameters PROVE Sync!Spec => []Sync!WriteEnd
  <1>1. SyncInv => Sync!WriteEnd
    BY DEF SyncInv
  <1>2. QED
    BY <1>1, SyncInvariant, PTL

LEMMA SyncAbstractStep == ASSUME SyncParameters
  PROVE  SyncInv /\ [Sync!Next]_(Sync!vars) => [Sync!Abstract!Next]_(Sync!Abstract!vars)
  <1> SUFFICES ASSUME SyncInv, [Sync!Next]_(Sync!vars)
               PROVE  Sync!Abstract!Next \/ UNCHANGED Sync!Abstract!vars
    OBVIOUS
  <1> USE DEF Sync!Abstract!vars
  <1> Sync!TypeOK /\ Sync!WriteEnd /\ SyncForked
    BY DEF SyncInv
  <1>1. CASE Sync!CreatePipe \/ Sync!ParentClose
    BY <1>1 DEF Sync!CreatePipe, Sync!ParentClose, Sync!Working
  <1>2. CASE Sync!Fork
    <2>1. PICK c \in Sync!Children : c = i
      BY <1>2 DEF SyncParameters, Sync!Fork, Sync!TypeOK, Sync!Children
    <2>2. cpc[c] = "none"
      BY <2>1 DEF SyncParameters, SyncForked, Sync!TypeOK, Sync!Children
    <2>3. Sync!Abstract!Start(c)
      BY <1>2, <2>1, <2>2 DEF Sync!Fork, Sync!Abstract!Start, Sync!TypeOK, Sync!Working
    <2>4. QED
      BY <2>3 DEF Sync!Abstract!Next
  <1>3. CASE Sync!ParentRead
    <2>1. \A c \in Sync!Children : cpc[c] # "none" /\ ~Sync!Working(c)
      BY <1>3 DEF SyncParameters, Sync!ParentRead, Sync!WriteEnd, SyncForked, Sync!Children
    <2>2. Sync!Abstract!GoOn
      BY <1>3, <2>1 DEF Sync!ParentRead, Sync!Abstract!GoOn, Sync!Working
    <2>3. QED
      BY <2>2 DEF Sync!Abstract!Next
  <1>4. CASE Sync!ParentError
    <2>1. mpc \notin {"exited", "failed"}
      BY <1>4 DEF SyncParameters, Sync!ParentError, Sync!Calls
    <2>2. Sync!Abstract!GiveUp
      BY <1>4, <2>1 DEF Sync!ParentError, Sync!Abstract!GiveUp, Sync!Working
    <2>3. QED
      BY <2>2 DEF Sync!Abstract!Next
  <1>5. ASSUME NEW c \in Sync!Children, Sync!Child(c) \/ Sync!ChildError(c) \/ Sync!Kill(c)
        PROVE  Sync!Abstract!Next \/ UNCHANGED Sync!Abstract!vars
    <2>1. CASE cpc'[c] \in {"sleep"} \/ ~Sync!Working(c)
      BY <1>5, <2>1 DEF Sync!TypeOK, Sync!Working, Sync!Child, Sync!ChildCloseRead,
                        Sync!ChildCloseWrite, Sync!ChildExit, Sync!ChildError, Sync!Kill
    <2>2. CASE Sync!Working(c) /\ cpc'[c] # "sleep"
      <3>1. Sync!Abstract!Finish(c)
        BY <1>5, <2>2 DEF Sync!Abstract!Finish, Sync!TypeOK, Sync!Working, Sync!Child,
                          Sync!ChildCloseRead, Sync!ChildCloseWrite, Sync!ChildExit,
                          Sync!ChildError, Sync!Kill
      <3>2. QED
        BY <3>1 DEF Sync!Abstract!Next
    <2>3. QED
      BY <2>1, <2>2
  <1>6. CASE Sync!Ended \/ UNCHANGED Sync!vars
    BY <1>6 DEF Sync!Ended, Sync!vars, Sync!Working
  <1>7. QED
    BY <1>1, <1>2, <1>3, <1>4, <1>5, <1>6 DEF Sync!Next, Sync!ParentStep

(* pipe_sync.cpp implements ForkJoin: the parent goes on only when every   *)
(* child has been forked and has given up the write end.                   *)
THEOREM SyncRefinement == ASSUME SyncParameters PROVE Sync!Spec => Sync!Implements
  <1>1. Sync!Init => Sync!Abstract!Init
    BY DEF Sync!Init, Sync!Abstract!Init
  <1>2. QED
    BY <1>1, SyncAbstractStep, SyncInvariant, PTL DEF Sync!Spec, Sync!Implements, Sync!Abstract!Spec
===============================================================================
