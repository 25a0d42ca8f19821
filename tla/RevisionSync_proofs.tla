------------------------- MODULE RevisionSync_proofs -------------------------
(***************************************************************************)
(* Theorems about RevisionSync for every number of calls and workers and   *)
(* every bound: the store knows what it does not show, and implements the  *)
(* register of module Screen.                                              *)
(***************************************************************************)
EXTENDS RevisionSync, TLAPS

USE SyncAssumption

\* Nothing that is under way or on the screen is newer than the database, and
\* staleRevision, never behind the screen, is the newest of what has arrived.
Bounds ==
  /\ \A r \in events : r <= revision
  /\ \A c \in Call : reply[c] <= revision
  /\ snapshot <= stale /\ stale <= revision
  /\ heard = stale

IInv == TypeOK /\ Bounds

\* Both hold of the first state.
LEMMA InitIInv == Init => IInv
<1> SUFFICES ASSUME Init PROVE IInv
  OBVIOUS
<1>1. TypeOK
  BY DEF Init, TypeOK, Phase
<1>2. Bounds
  BY DEF Init, Bounds, Larger
<1> QED
  BY <1>1, <1>2 DEF IInv

\* Every step of the backend and of the renderer keeps them.
LEMMA StepIInv == IInv /\ [Next]_vars => IInv'
<1> SUFFICES ASSUME IInv, [Next]_vars PROVE IInv'
  OBVIOUS
<1> USE DEF IInv, TypeOK, Bounds, Phase, Larger, vars, backend, screen
<1>1. ASSUME NEW w \in Worker, Write(w) PROVE IInv'
  <2>1. TypeOK'
    BY <1>1 DEF Write
  <2>2. Bounds'
    BY <1>1 DEF Write
  <2> QED
    BY <2>1, <2>2
<1>2. ASSUME NEW w \in Worker, Emit(w) PROVE IInv'
  <2>1. TypeOK'
    BY <1>2 DEF Emit
  <2>2. Bounds'
    BY <1>2 DEF Emit
  <2> QED
    BY <2>1, <2>2
<1>3. ASSUME NEW w \in Worker, EmitFails(w) PROVE IInv'
  <2>1. TypeOK'
    BY <1>3 DEF EmitFails
  <2>2. Bounds'
    BY <1>3 DEF EmitFails
  <2> QED
    BY <2>1, <2>2
<1>4. ASSUME NEW c \in Call, Execute(c) PROVE IInv'
  <2>1. TypeOK'
    <3>1. revision' \in Nat /\ call' \in [Call -> Phase]
      BY <1>4, SMT DEF Execute
    <3> QED
      BY <1>4, <3>1 DEF Execute
  <2>2. \A r \in events' : r <= revision'
    BY <1>4 DEF Execute
  <2>3. \A d \in Call : reply'[d] <= revision'
    BY <1>4 DEF Execute
  <2>4. snapshot' <= stale' /\ stale' <= revision'
    BY <1>4 DEF Execute
  <2>5. heard' = stale'
    BY <1>4 DEF Execute
  <2> QED
    BY <2>1, <2>2, <2>3, <2>4, <2>5
<1>5. ASSUME NEW c \in Call, ReadSnapshot(c) PROVE IInv'
  <2>1. TypeOK'
    BY <1>5 DEF ReadSnapshot
  <2>2. \A r \in events' : r <= revision'
    BY <1>5 DEF ReadSnapshot
  <2>3. \A d \in Call : reply'[d] <= revision'
    BY <1>5 DEF ReadSnapshot
  <2>4. snapshot' <= stale' /\ stale' <= revision'
    BY <1>5 DEF ReadSnapshot
  <2>5. heard' = stale'
    BY <1>5 DEF ReadSnapshot
  <2> QED
    BY <2>1, <2>2, <2>3, <2>4, <2>5
<1>6. ASSUME NEW c \in Call, Answered(c) PROVE IInv'
  <2>1. TypeOK'
    BY <1>6 DEF Answered, Ask
  <2>2. Bounds'
    BY <1>6 DEF Answered, Ask
  <2> QED
    BY <2>1, <2>2
<1>7. ASSUME NEW c \in Call, Shown(c) PROVE IInv'
  <2>1. TypeOK'
    BY <1>7 DEF Shown
  <2>2. \A r \in events' : r <= revision'
    BY <1>7 DEF Shown
  <2>3. \A d \in Call : reply'[d] <= revision'
    BY <1>7 DEF Shown
  <2>4. snapshot' <= stale' /\ stale' <= revision'
    BY <1>7 DEF Shown
  <2>5. heard' = stale'
    BY <1>7 DEF Shown
  <2> QED
    BY <2>1, <2>2, <2>3, <2>4, <2>5
<1>8. ASSUME NEW c \in Call, Refused(c) PROVE IInv'
  <2>1. TypeOK'
    BY <1>8 DEF Refused
  <2>2. Bounds'
    BY <1>8 DEF Refused
  <2> QED
    BY <2>1, <2>2
<1>9. ASSUME NEW c \in Call, PressRefresh(c) PROVE IInv'
  <2>1. TypeOK'
    BY <1>9 DEF PressRefresh, Ask
  <2>2. Bounds'
    BY <1>9 DEF PressRefresh, Ask
  <2> QED
    BY <2>1, <2>2
<1>10. ASSUME NEW c \in Call, PressCommand(c) PROVE IInv'
  <2>1. TypeOK'
    BY <1>10 DEF PressCommand
  <2>2. Bounds'
    BY <1>10 DEF PressCommand
  <2> QED
    BY <2>1, <2>2
<1>11. ASSUME NEW r \in events, OnEvent(r) PROVE IInv'
  <2>1. TypeOK'
    <3>1. events' \subseteq Nat /\ stale' \in Nat /\ heard' \in Nat
      BY <1>11 DEF OnEvent
    <3> QED
      BY <1>11, <3>1 DEF OnEvent
  <2>2. \A e \in events' : e <= revision'
    BY <1>11 DEF OnEvent
  <2>3. \A d \in Call : reply'[d] <= revision'
    BY <1>11 DEF OnEvent
  <2>4. snapshot' <= stale' /\ stale' <= revision'
    BY <1>11 DEF OnEvent
  <2>5. heard' = stale'
    BY <1>11 DEF OnEvent
  <2> QED
    BY <2>1, <2>2, <2>3, <2>4, <2>5
<1>12. CASE Listen
  BY <1>12 DEF Listen
<1>13. CASE Mount
  BY <1>13 DEF Mount, Ask
<1>14. CASE UNCHANGED vars
  BY <1>14
<1> QED
  BY <1>1, <1>2, <1>3, <1>4, <1>5, <1>6, <1>7, <1>8, <1>9, <1>10, <1>11,
     <1>12, <1>13, <1>14 DEF Next

\* The strengthening holds of every state that can be reached.
THEOREM SyncIInv == Spec => []IInv
BY InitIInv, StepIInv, PTL DEF Spec

\* The fields of the store and what is under way to it are of their types.
THEOREM SyncTypes == Spec => []TypeOK
<1>1. IInv => TypeOK
  BY DEF IInv
<1> QED
  BY <1>1, SyncIInv, PTL

\* However replies and events are lost, repeated and reordered, a screen that is
\* behind what its store was told says so (refresh, onEvent, isStale).
THEOREM BehindIsFlagged == Spec => []NeverSilentlyBehind
<1>1. IInv => NeverSilentlyBehind
  BY DEF IInv, TypeOK, Bounds, NeverSilentlyBehind, isStale, Larger
<1> QED
  BY <1>1, SyncIInv, PTL

\* Every step of the store is a step of the register, or none.
LEMMA StepScreen ==
  ASSUME IInv, IInv', [Next]_vars
  PROVE  [Promise!Next]_(Promise!screenVars)
<1> USE DEF IInv, TypeOK, Bounds, Phase, vars, backend, screen, Promise!screenVars
<1>1. ASSUME NEW w \in Worker, Write(w) PROVE Promise!Change
  BY <1>1 DEF Write, Promise!Change
<1>2. ASSUME NEW c \in Call, Execute(c)
      PROVE  Promise!Change \/ UNCHANGED Promise!screenVars
  BY <1>2 DEF Execute, Promise!Change
<1>3. ASSUME NEW c \in Call, Shown(c) PROVE Promise!Show
  BY <1>3 DEF Shown, Promise!Show, Larger
<1>4. ASSUME NEW r \in events, OnEvent(r) PROVE Promise!Hear
  BY <1>4 DEF OnEvent, Promise!Hear, Larger
<1>5. ASSUME \/ \E w \in Worker : Emit(w) \/ EmitFails(w)
             \/ \E c \in Call : \/ ReadSnapshot(c) \/ Answered(c) \/ Refused(c)
                                \/ PressRefresh(c) \/ PressCommand(c)
             \/ Listen \/ Mount \/ UNCHANGED vars
      PROVE  UNCHANGED Promise!screenVars
  BY <1>5 DEF Emit, EmitFails, ReadSnapshot, Answered, Refused, PressRefresh,
              PressCommand, Listen, Mount
<1> QED
  BY <1>1, <1>2, <1>3, <1>4, <1>5 DEF Next, Promise!Next

\* The store implements the register: a screen of some version of the database
\* and a memory of the newest one heard of.
THEOREM StoreImplementsScreen == Spec => ImplementsScreen
<1>1. Init => Promise!Init
  BY DEF Init, Promise!Init, Larger
<1>2. IInv /\ IInv' /\ [Next]_vars => [Promise!Next]_(Promise!screenVars)
  BY StepScreen
<1> QED
  BY <1>1, <1>2, SyncIInv, PTL DEF Spec, ImplementsScreen, Promise!Spec
=============================================================================
