---------------------------- MODULE SigchldProofs ----------------------------
(***************************************************************************)
(* Theorems about Sigchld, for every number of children.                   *)
(***************************************************************************)
EXTENDS Sigchld, FiniteSetTheorems, TLAPS

(* SIGCHLD is blocked before there is a child that could raise it.         *)
Masked == /\ mpc \in {"sigaction", "sigprocmask"}
               => ~pending /\ \A c \in Children : child[c] = "none"
          /\ mpc \in {"fork", "test", "sigsuspend"} => blocked
          /\ mpc = "fork" => \A c \in Children : c >= i => child[c] = "none"

IInv == TypeOK /\ Masked /\ Counted /\ HandlerConfined /\ SignalsMerge
-------------------------------------------------------------------------------
LEMMA WithFinite ==
  ASSUME NEW s
  PROVE  /\ IsFiniteSet(With(s))
         /\ Cardinality(With(s)) \in Nat
         /\ Cardinality(With(s)) <= N
         /\ Cardinality(With(s)) = N => With(s) = Children
  <1>1. IsFiniteSet(Children) /\ Cardinality(Children) = N
    BY FS_Interval, NAssumption DEF Children
  <1>2. With(s) \in SUBSET Children
    BY DEF With
  <1>3. QED
    BY <1>1, <1>2, FS_Subset, FS_CardinalityType

LEMMA DeadFinite == IsFiniteSet(Dead) /\ Cardinality(Dead) \in Nat
  <1>1. IsFiniteSet(With("zombie")) /\ IsFiniteSet(With("reaped"))
    BY WithFinite
  <1>2. IsFiniteSet(Dead)
    BY <1>1, FS_Union DEF Dead
  <1>3. QED
    BY <1>2, FS_CardinalityType

(* A step that only delivers, counts or loops leaves the counts alone.     *)
LEMMA SameChildren ==
  ASSUME UNCHANGED child
  PROVE  Dead' = Dead /\ \A s : With(s)' = With(s)
  BY DEF Dead, With

LEMMA InitIInv == Init => IInv
  <1> SUFFICES ASSUME Init PROVE IInv
    OBVIOUS
  <1>1. With("reaped") = {} /\ Dead = {}
    BY DEF Init, With, Dead
  <1>2. Counted /\ SignalsMerge
    BY <1>1, FS_EmptySet, NAssumption DEF Init, Counted, SignalsMerge, One
  <1>3. TypeOK
    <2>1. blocked \in BOOLEAN /\ pending \in BOOLEAN
      BY Zenon DEF Init
    <2>2. QED
      BY <2>1, NAssumption, MaxJobCtlAssumption DEF Init, TypeOK
  <1>4. Masked
    BY DEF Init, Masked
  <1>5. HandlerConfined
    BY DEF Init, HandlerConfined
  <1>6. QED
    BY <1>2, <1>3, <1>4, <1>5 DEF IInv

LEMMA ForkStep == ASSUME IInv, Fork PROVE IInv'
  <1> USE NAssumption DEF IInv, Fork
  <1>1. i \in Children /\ child[i] = "none"
    BY DEF TypeOK, Masked, Children
  <1>2. TypeOK' /\ Masked' /\ HandlerConfined'
    BY <1>1 DEF TypeOK, Masked, HandlerConfined, Children
  <1>3. With("reaped")' = With("reaped") /\ With("zombie")' = With("zombie")
    BY <1>1 DEF With, TypeOK
  <1>4. Counted' /\ SignalsMerge'
    BY <1>3 DEF Counted, SignalsMerge, Dead, One
  <1>5. QED
    BY <1>2, <1>4

LEMMA QuietStep ==
  ASSUME IInv, SigAction \/ SigProcMask \/ Test \/ MainError \/ Deliver \/ NoMore \/ HandlerReturn
  PROVE  IInv'
  <1> USE DEF IInv
  <1>1. Dead' = Dead /\ With("reaped")' = With("reaped")
    BY SameChildren DEF SigAction, SigProcMask, Test, MainError, Deliver, NoMore, HandlerReturn
  <1>2. TypeOK'
    <2>1. CASE SigAction \/ SigProcMask \/ Test \/ MainError
      BY <2>1 DEF TypeOK, SigAction, SigProcMask, Test, MainError
    <2>2. CASE Deliver \/ NoMore \/ HandlerReturn
      <3>1. blocked' \in BOOLEAN /\ pending' \in BOOLEAN
        BY <2>2, Zenon DEF TypeOK, Deliver, NoMore, HandlerReturn
      <3>2. QED
        BY <2>2, <3>1 DEF TypeOK, Deliver, NoMore, HandlerReturn
    <2>3. QED
      BY <2>1, <2>2
  <1>3. Masked' /\ HandlerConfined'
    BY FailingAssumption DEF TypeOK, Masked, HandlerConfined, Calls,
       SigAction, SigProcMask, Test, MainError, Deliver, NoMore, HandlerReturn
  <1>4. Counted'
    BY <1>1 DEF Counted, SigAction, SigProcMask, Test, MainError, Deliver, NoMore, HandlerReturn
  <1>5. SignalsMerge'
    <2>1. CASE SigAction \/ SigProcMask \/ Test \/ MainError
      <3>1. UNCHANGED <<sig_cnt, handler, pending, jobctl>>
        BY <2>1 DEF SigAction, SigProcMask, Test, MainError
      <3>2. QED
        BY <3>1, <1>1 DEF SignalsMerge, One
    <2>2. CASE Deliver \/ NoMore
      BY <2>2, <1>1, DeadFinite DEF SignalsMerge, One, TypeOK, Deliver, NoMore
    <2>3. CASE HandlerReturn
      <3>1. handler # "idle" /\ handler' = "idle" /\ pending' = pending /\ jobctl' = jobctl
             /\ sig_cnt' <= sig_cnt + 1
        BY <2>3, FailingAssumption DEF HandlerReturn, TypeOK, Calls
      <3>2. QED
        BY <3>1, <1>1, <1>2, DeadFinite DEF SignalsMerge, One, TypeOK
    <2>4. QED
      BY <2>1, <2>2, <2>3
  <1>6. QED
    BY <1>2, <1>3, <1>4, <1>5

LEMMA ReapStep == ASSUME IInv, NEW c \in Children, Reap(c) PROVE IInv'
  <1> USE NAssumption DEF IInv, Reap
  <1>1. With("reaped")' = With("reaped") \cup {c} /\ c \notin With("reaped")
    BY DEF With, TypeOK
  <1>2. Cardinality(With("reaped")') = Cardinality(With("reaped")) + 1
    BY <1>1, WithFinite, FS_AddElement
  <1>3. IsFiniteSet(Children) /\ Cardinality(Children) = N
    BY FS_Interval DEF Children
  <1>4. Cardinality(With("reaped")') <= N
    <2>1. With("reaped")' \in SUBSET Children
      BY DEF With
    <2>2. QED
      BY <2>1, <1>3, FS_Subset
  <1>5. num_live_children > 0
    BY <1>2, <1>4, WithFinite DEF Counted, TypeOK
  <1>6. TypeOK'
    BY <1>5 DEF TypeOK
  <1>7. Counted'
    BY <1>2, WithFinite DEF Counted, TypeOK
  <1>8. Dead' = Dead
    BY DEF Dead, With, TypeOK
  <1>9. Masked' /\ HandlerConfined' /\ SignalsMerge'
    BY <1>8 DEF TypeOK, Masked, HandlerConfined, SignalsMerge
  <1>10. QED
    BY <1>6, <1>7, <1>9

LEMMA ChildStep == ASSUME IInv, NEW c \in Children, End(c) \/ StopOrContinue(c) PROVE IInv'
  <1> USE DEF IInv
  <1>1. TypeOK' /\ Masked' /\ HandlerConfined'
    <2>1. TypeOK'
      <3>1. blocked' \in BOOLEAN /\ pending' \in BOOLEAN
        BY Zenon DEF TypeOK, End, StopOrContinue
      <3>2. QED
        BY <3>1, MaxJobCtlAssumption DEF TypeOK, End, StopOrContinue
    <2>2. Masked'
      BY DEF TypeOK, Masked, End, StopOrContinue
    <2>3. HandlerConfined'
      BY DEF HandlerConfined, End, StopOrContinue
    <2>4. QED
      BY <2>1, <2>2, <2>3
  <1>2. With("reaped")' = With("reaped")
    BY DEF With, TypeOK, End, StopOrContinue
  <1>3. Counted'
    BY <1>2 DEF Counted, End, StopOrContinue
  <1>4. Cardinality(Dead') + jobctl' = Cardinality(Dead) + jobctl + 1
    <2>1. CASE End(c)
      <3>1. Dead' = Dead \cup {c} /\ c \notin Dead
        BY <2>1 DEF End, Dead, With, TypeOK
      <3>2. Cardinality(Dead') = Cardinality(Dead) + 1
        BY <3>1, DeadFinite, FS_AddElement
      <3>3. QED
        BY <2>1, <3>2, DeadFinite DEF End, TypeOK
    <2>2. CASE StopOrContinue(c)
      <3>1. Dead' = Dead
        BY <2>2 DEF StopOrContinue, Dead, With, TypeOK
      <3>2. QED
        BY <2>2, <3>1, DeadFinite DEF StopOrContinue, TypeOK
    <2>3. QED
      BY <2>1, <2>2
  <1>5. /\ sig_cnt' = sig_cnt /\ handler' = handler /\ pending' = TRUE
        /\ jobctl \in Nat /\ jobctl' \in Nat
    BY MaxJobCtlAssumption DEF End, StopOrContinue, TypeOK
  <1>6. Cardinality(Dead') \in Nat
    <2>1. IsFiniteSet(Children)
      BY FS_Interval, NAssumption DEF Children
    <2>2. Dead' \in SUBSET Children
      BY DEF Dead, With
    <2>3. IsFiniteSet(Dead')
      BY <2>1, <2>2, FS_Subset
    <2>4. QED
      BY <2>3, FS_CardinalityType
  <1>7. SignalsMerge'
    BY <1>4, <1>5, <1>6, DeadFinite DEF SignalsMerge, One, TypeOK
  <1>8. QED
    BY <1>1, <1>3, <1>7

LEMMA NextIInv == IInv /\ [Next]_vars => IInv'
  <1>1. ASSUME IInv, Ended \/ UNCHANGED vars PROVE IInv'
    BY <1>1 DEF Ended, vars, IInv, TypeOK, Masked, Counted, HandlerConfined, SignalsMerge, Dead, With
  <1>2. QED
    BY <1>1, ForkStep, QuietStep, ReapStep, ChildStep DEF Next, ParentStep

LEMMA Invariance == Spec => []IInv
  BY InitIInv, NextIInv, PTL DEF Spec
-------------------------------------------------------------------------------
(* The variables keep their types: num_live_children is never negative.    *)
THEOREM TypeCorrect == Spec => []TypeOK
  <1>1. IInv => TypeOK
    BY DEF IInv
  <1>2. QED
    BY <1>1, Invariance, PTL

(* The counter main loops on is the number of children still to be reaped. *)
THEOREM Counting == Spec => []Counted
  <1>1. IInv => Counted
    BY DEF IInv
  <1>2. QED
    BY <1>1, Invariance, PTL

(* The handler never interrupts main outside sigsuspend.                   *)
THEOREM Confinement == Spec => []HandlerConfined
  <1>1. IInv => HandlerConfined
    BY DEF IInv
  <1>2. QED
    BY <1>1, Invariance, PTL

(* Main never counts more signals than there were events.                  *)
THEOREM Merging == Spec => []SignalsMerge
  <1>1. IInv => SignalsMerge
    BY DEF IInv
  <1>2. QED
    BY <1>1, Invariance, PTL

(* No dead child is forgotten, as long as waitpid has no other error than  *)
(* ECHILD.                                                                 *)
THEOREM NoChildLost ==
  ASSUME "waitpid" \notin Failing
  PROVE  Spec => []NoLostChild
  <1>1. Init => NoLostChild
    BY DEF Init, NoLostChild, With
  <1>2. TypeOK /\ NoLostChild /\ [Next]_vars => NoLostChild'
    <2> SUFFICES ASSUME TypeOK, NoLostChild, [Next]_vars PROVE NoLostChild'
      OBVIOUS
    <2>1. CASE SigAction \/ SigProcMask \/ Test \/ MainError \/ Deliver
      BY <2>1 DEF NoLostChild, With, SigAction, SigProcMask, Test, MainError, Deliver
    <2>2. CASE Fork
      BY <2>2, NAssumption DEF NoLostChild, With, Fork, TypeOK
    <2>3. CASE NoMore \/ HandlerReturn
      BY <2>3 DEF NoLostChild, With, NoMore, HandlerReturn, TypeOK
    <2>4. ASSUME NEW c \in Children, Reap(c) PROVE NoLostChild'
      BY <2>4 DEF NoLostChild, Reap
    <2>5. ASSUME NEW c \in Children, End(c) \/ StopOrContinue(c) PROVE NoLostChild'
      BY <2>5 DEF NoLostChild, End, StopOrContinue
    <2>6. CASE Ended \/ UNCHANGED vars
      BY <2>6 DEF Ended, vars, NoLostChild, With
    <2>7. QED
      BY <2>1, <2>2, <2>3, <2>4, <2>5, <2>6 DEF Next, ParentStep
  <1>3. QED
    BY <1>1, <1>2, TypeCorrect, PTL DEF Spec

LEMMA AbstractStep == IInv /\ [Next]_vars => [Abstract!Next]_Abstract!vars
  <1> SUFFICES ASSUME IInv, [Next]_vars
               PROVE  Abstract!Next \/ UNCHANGED Abstract!vars
    OBVIOUS
  <1> USE DEF Abstract!vars
  <1> TypeOK
    BY DEF IInv
  <1>1. CASE SigAction \/ SigProcMask \/ Deliver \/ NoMore \/ HandlerReturn
    BY <1>1 DEF SigAction, SigProcMask, Deliver, NoMore, HandlerReturn
  <1>2. CASE Fork
    <2>1. PICK c \in Children : c = i /\ child[c] = "none"
      BY <1>2, NAssumption DEF Fork, IInv, TypeOK, Masked, Children
    <2>2. Abstract!Start(c)
      BY <1>2, <2>1 DEF Fork, Abstract!Start, TypeOK
    <2>3. QED
      BY <2>2 DEF Abstract!Next
  <1>3. CASE Test
    <2>1. CASE num_live_children > 0
      BY <1>3, <2>1 DEF Test
    <2>2. CASE num_live_children = 0
      <3>1. With("reaped") = Children
        BY <2>2, WithFinite, NAssumption DEF IInv, Counted
      <3>2. Abstract!GoOn
        BY <1>3, <2>2, <3>1 DEF Test, With, Abstract!GoOn
      <3>3. QED
        BY <3>2 DEF Abstract!Next
    <2>3. QED
      BY <2>1, <2>2 DEF TypeOK
  <1>4. CASE MainError
    <2>1. mpc \notin {"exited", "failed"}
      BY <1>4, FailingAssumption DEF MainError, Calls
    <2>2. Abstract!GiveUp
      BY <1>4, <2>1 DEF MainError, Abstract!GiveUp
    <2>3. QED
      BY <2>2 DEF Abstract!Next
  <1>5. ASSUME NEW c \in Children, Reap(c) \/ StopOrContinue(c)
        PROVE  UNCHANGED Abstract!vars
    BY <1>5 DEF Reap, StopOrContinue, TypeOK
  <1>6. ASSUME NEW c \in Children, End(c)
        PROVE  Abstract!Next
    <2>1. Abstract!Finish(c)
      BY <1>6 DEF End, Abstract!Finish, TypeOK
    <2>2. QED
      BY <2>1 DEF Abstract!Next
  <1>7. CASE Ended \/ UNCHANGED vars
    BY <1>7 DEF Ended, vars
  <1>8. QED
    BY <1>1, <1>2, <1>3, <1>4, <1>5, <1>6, <1>7 DEF Next, ParentStep

(* sigchld.cpp implements ForkJoin: main reports the end only when every   *)
(* child has ended.                                                        *)
THEOREM Refinement == Spec => Implements
  <1>1. Init => Abstract!Init
    BY DEF Init, Abstract!Init
  <1>2. QED
    BY <1>1, AbstractStep, Invariance, PTL DEF Spec, Implements, Abstract!Spec
===============================================================================
