------------------------ MODULE SourceInjection_proofs ------------------------
(***************************************************************************)
(* Theorems about SourceInjection, for every set of injectors and streams,  *)
(* every time limit and every discipline of the application.               *)
(***************************************************************************)
EXTENDS SourceInjection, WellFoundedInduction, TLAPS

-----------------------------------------------------------------------------
(* The loops over the tracks.                                               *)

LEMMA FirstIsMember ==
  ASSUME NEW S \in SUBSET Nat, S # {}
  PROVE  First(S) \in S
<1> DEFINE R == OpToRel(<, Nat)
<1>1. \A x, y \in Nat : <<x, y>> \in R <=> x < y
  BY DEF OpToRel
<1>2. IsWellFoundedOn(R, Nat)
  BY NatLessThanWellFounded
<1> HIDE DEF R
<1>3. \E x \in S : \A y \in S : ~(<<y, x>> \in R)
  BY <1>2, WFMin, Zenon
<1>4. PICK x \in S : \A y \in S : ~(<<y, x>> \in R)
  BY <1>3
<1>5. \A y \in S : x <= y
  <2> SUFFICES ASSUME NEW y \in S PROVE ~(y < x)
    OBVIOUS
  <2> QED
    BY <1>1, <1>4
<1> QED
  BY <1>5 DEF First

LEMMA CurrentStays == UNCHANGED <<resets, todo>> => Current' = Current
  BY DEF Current

LEMMA CurrentIsStream ==
  ASSUME resets \subseteq Streams, todo \subseteq Streams, resets # {} \/ todo # {}
  PROVE  /\ Current \in Streams
         /\ resets # {} => Current \in resets
         /\ resets = {} => Current \in todo
  BY FirstIsMember, StreamsAssumption DEF Current

-----------------------------------------------------------------------------
(* Locks.                                                                   *)

InjectionTypes ==
  /\ format \in Flags /\ sinkbin \in Flags /\ connected \in Flags
  /\ source \in Flags /\ sourceConfigured \in Flags
  /\ resetPosition \in Flags /\ eventsSent \in Flags /\ target \in Flags
  /\ sourceLock \in [Streams -> Injectors \union {CONTROL, NOBODY}]
  /\ mPauseInjector \in BOOLEAN
  /\ pc \in [Injectors -> {"idle", "lock"} \union Holding]
  /\ stream \in [Injectors -> Streams]
  /\ first \in [Injectors -> BOOLEAN] /\ status \in [Injectors -> BOOLEAN]
  /\ found \in [Injectors -> BOOLEAN] /\ pausedCall \in [Injectors -> BOOLEAN]
  /\ op \in {"none", "configure", "flush", "stop"}
  /\ at \in {"next", "clear", "unlock", "format", "setup"}
  /\ resets \subseteq Streams /\ drop \subseteq Streams /\ todo \subseteq Streams

\* Where an injector, or TearDownStream, is between lock and unlock it has the lock.
LocksHeld ==
  /\ \A i \in Injectors : pc[i] \in Holding => sourceLock[stream[i]] = i
  /\ at \in {"clear", "unlock"} => Current \in Streams /\ sourceLock[Current] = CONTROL
  /\ at # "next" => op # "none"

\* A stream whose source is configured has one; what SendHelper found stays so.
SourceStays ==
  /\ \A s \in Streams : sourceConfigured[s] => source[s] \/ (at = "unlock" /\ s = Current)
  /\ \A i \in Injectors : found[i] =>
       /\ pc[i] \in Holding
       /\ source[stream[i]] /\ sourceConfigured[stream[i]]

\* A call made while injection is paused does not get past the gate.
PausedAtGate ==
  \A i \in Injectors : pausedCall[i] =>
    /\ mPauseInjector
    /\ pc[i] \notin {"forward", "auxWait", "auxDecide", "auxPush", "push"}

SourceIInv == InjectionTypes /\ LocksHeld /\ SourceStays /\ PausedAtGate

LEMMA SourceInitially == Init => SourceIInv
<1> SUFFICES ASSUME Init PROVE SourceIInv
  OBVIOUS
<1> USE DEF Init
<1>1. InjectionTypes
  BY StreamsAssumption DEF InjectionTypes, None, Flags
<1>2. LocksHeld /\ SourceStays /\ PausedAtGate
  BY DEF LocksHeld, SourceStays, PausedAtGate, None, Holding
<1> QED
  BY <1>1, <1>2 DEF SourceIInv

LEMMA CallKeeps ==
  ASSUME SourceIInv, NEW i \in Injectors, NEW s \in Streams,
         \/ Call(i, s) \/ LockSource(i)
         \/ TestSource(i) \/ WaitForSourceSetup(i) \/ Decide(i)
         \/ SendGstEvents(i) \/ Gate(i) \/ Forward(i) \/ AuxDecide(i) \/ Push(i)
         \/ UnlockSource(i)
  PROVE  SourceIInv'
<1> USE DEF sourceVars, positionVars, callVars, injectorVars, controlVars, sharedVars
<1>0. InjectionTypes /\ LocksHeld /\ SourceStays /\ PausedAtGate
  BY DEF SourceIInv
<1>c. UNCHANGED <<resets, todo>> => Current' = Current
  BY CurrentStays
<1>1. CASE Call(i, s)
  <2>1. InjectionTypes'
    BY <1>0, <1>1 DEF Call, At, InjectionTypes, Holding, Flags
  <2>2. LocksHeld'
    BY <1>0, <1>1, <1>c, InjectorsAssumption DEF Call, At, InjectionTypes, LocksHeld, Holding
  <2>3. SourceStays'
    BY <1>0, <1>1, <1>c, InjectorsAssumption DEF Call, At, InjectionTypes, LocksHeld, SourceStays, Holding
  <2>4. PausedAtGate'
    BY <1>0, <1>1 DEF Call, At, InjectionTypes, PausedAtGate, Holding
  <2> QED
    BY <2>1, <2>2, <2>3, <2>4 DEF SourceIInv
<1>2. CASE LockSource(i)
  <2>1. InjectionTypes'
    BY <1>0, <1>2 DEF LockSource, At, InjectionTypes, Holding
  <2>2. LocksHeld'
    <3>1. /\ pc[i] = "lock" /\ pc'[i] = "test" /\ \A j \in Injectors : j # i => pc'[j] = pc[j]
          /\ stream' = stream /\ sourceLock[stream[i]] = NOBODY /\ sourceLock'[stream[i]] = i
          /\ \A r \in Streams : r # stream[i] => sourceLock'[r] = sourceLock[r]
          /\ UNCHANGED <<op, at>> /\ Current' = Current
      BY <1>0, <1>2, <1>c DEF LockSource, At, InjectionTypes
    <3>2. \A j \in Injectors : j # NOBODY /\ stream[j] \in Streams
      BY <1>0, InjectorsAssumption DEF InjectionTypes
    <3>3. CONTROL # NOBODY
      BY DEF CONTROL, NOBODY
    <3>4. \A j \in Injectors : pc'[j] \in Holding => sourceLock'[stream'[j]] = j
      <4> SUFFICES ASSUME NEW j \in Injectors, pc'[j] \in Holding
                   PROVE  sourceLock'[stream'[j]] = j
        OBVIOUS
      <4>1. CASE j = i
        BY <3>1, <4>1
      <4>2. CASE j # i
        <5>1. sourceLock[stream[j]] = j
          BY <1>0, <3>1, <4>2 DEF LocksHeld
        <5> QED
          BY <3>1, <3>2, <4>2, <5>1
      <4> QED
        BY <4>1, <4>2
    <3> QED
      BY <1>0, <3>1, <3>3, <3>4 DEF LocksHeld
  <2>3. SourceStays'
    BY <1>0, <1>2, <1>c, InjectorsAssumption DEF LockSource, At, InjectionTypes, LocksHeld, SourceStays, Holding
  <2>4. PausedAtGate'
    BY <1>0, <1>2 DEF LockSource, At, InjectionTypes, PausedAtGate, Holding
  <2> QED
    BY <2>1, <2>2, <2>3, <2>4 DEF SourceIInv
<1>3. CASE TestSource(i)
  <2>1. InjectionTypes'
    BY <1>0, <1>3 DEF TestSource, At, NeedsWait, InjectionTypes, Holding, Flags
  <2>2. LocksHeld'
    BY <1>0, <1>3, <1>c, InjectorsAssumption DEF TestSource, At, NeedsWait, InjectionTypes, LocksHeld, Holding
  <2>3. SourceStays'
    BY <1>0, <1>3, <1>c, InjectorsAssumption DEF TestSource, At, NeedsWait, InjectionTypes, LocksHeld, SourceStays, Holding
  <2>4. PausedAtGate'
    BY <1>0, <1>3 DEF TestSource, At, NeedsWait, InjectionTypes, PausedAtGate, Holding
  <2> QED
    BY <2>1, <2>2, <2>3, <2>4 DEF SourceIInv
<1>4. CASE WaitForSourceSetup(i)
  <2>1. InjectionTypes'
    BY <1>0, <1>4 DEF WaitForSourceSetup, WaitRound, Waiting, InjectionTypes, Holding
  <2>2. LocksHeld'
    BY <1>0, <1>4, <1>c, InjectorsAssumption DEF WaitForSourceSetup, WaitRound, Waiting, InjectionTypes, LocksHeld, Holding
  <2>3. SourceStays'
    BY <1>0, <1>4, <1>c, InjectorsAssumption DEF WaitForSourceSetup, WaitRound, Waiting, InjectionTypes, LocksHeld, SourceStays, Holding
  <2>4. PausedAtGate'
    BY <1>0, <1>4 DEF WaitForSourceSetup, WaitRound, Waiting, InjectionTypes, PausedAtGate, Holding
  <2> QED
    BY <2>1, <2>2, <2>3, <2>4 DEF SourceIInv
<1>5. CASE Decide(i)
  <2>1. InjectionTypes'
    BY <1>0, <1>5 DEF Decide, At, InjectionTypes, Holding
  <2>2. LocksHeld'
    BY <1>0, <1>5, <1>c, InjectorsAssumption DEF Decide, At, InjectionTypes, LocksHeld, Holding
  <2>3. SourceStays'
    BY <1>0, <1>5, <1>c, InjectorsAssumption DEF Decide, At, InjectionTypes, LocksHeld, SourceStays, Holding
  <2>4. PausedAtGate'
    BY <1>0, <1>5 DEF Decide, At, InjectionTypes, PausedAtGate, Holding
  <2> QED
    BY <2>1, <2>2, <2>3, <2>4 DEF SourceIInv
<1>6. CASE SendGstEvents(i)
  <2>1. InjectionTypes'
    BY <1>0, <1>6 DEF SendGstEvents, At, Flags, InjectionTypes, Holding
  <2>2. LocksHeld'
    BY <1>0, <1>6, <1>c, InjectorsAssumption DEF SendGstEvents, At, Flags, InjectionTypes, LocksHeld, Holding
  <2>3. SourceStays'
    BY <1>0, <1>6, <1>c, InjectorsAssumption DEF SendGstEvents, At, Flags, InjectionTypes, LocksHeld, SourceStays, Holding
  <2>4. PausedAtGate'
    BY <1>0, <1>6 DEF SendGstEvents, At, Flags, InjectionTypes, PausedAtGate, Holding
  <2> QED
    BY <2>1, <2>2, <2>3, <2>4 DEF SourceIInv
<1>7. CASE Gate(i)
  <2>1. InjectionTypes'
    BY <1>0, <1>7 DEF Gate, At, InjectionTypes, Holding
  <2>2. LocksHeld'
    BY <1>0, <1>7, <1>c, InjectorsAssumption DEF Gate, At, InjectionTypes, LocksHeld, Holding
  <2>3. SourceStays'
    BY <1>0, <1>7, <1>c, InjectorsAssumption DEF Gate, At, InjectionTypes, LocksHeld, SourceStays, Holding
  <2>4. PausedAtGate'
    BY <1>0, <1>7 DEF Gate, At, InjectionTypes, PausedAtGate, Holding
  <2> QED
    BY <2>1, <2>2, <2>3, <2>4 DEF SourceIInv
<1>8. CASE Forward(i)
  <2>1. InjectionTypes'
    BY <1>0, <1>8 DEF Forward, At, InjectionTypes, Holding
  <2>2. LocksHeld'
    BY <1>0, <1>8, <1>c, InjectorsAssumption DEF Forward, At, InjectionTypes, LocksHeld, Holding
  <2>3. SourceStays'
    BY <1>0, <1>8, <1>c, InjectorsAssumption DEF Forward, At, InjectionTypes, LocksHeld, SourceStays, Holding
  <2>4. PausedAtGate'
    BY <1>0, <1>8 DEF Forward, At, InjectionTypes, PausedAtGate, Holding
  <2> QED
    BY <2>1, <2>2, <2>3, <2>4 DEF SourceIInv
<1>9. CASE AuxDecide(i)
  <2>1. InjectionTypes'
    BY <1>0, <1>9 DEF AuxDecide, At, InjectionTypes, Holding
  <2>2. LocksHeld'
    BY <1>0, <1>9, <1>c, InjectorsAssumption DEF AuxDecide, At, InjectionTypes, LocksHeld, Holding
  <2>3. SourceStays'
    BY <1>0, <1>9, <1>c, InjectorsAssumption DEF AuxDecide, At, InjectionTypes, LocksHeld, SourceStays, Holding
  <2>4. PausedAtGate'
    BY <1>0, <1>9 DEF AuxDecide, At, InjectionTypes, PausedAtGate, Holding
  <2> QED
    BY <2>1, <2>2, <2>3, <2>4 DEF SourceIInv
<1>10. CASE Push(i)
  <2>1. InjectionTypes'
    BY <1>0, <1>10 DEF Push, At, InjectionTypes, Holding
  <2>2. LocksHeld'
    BY <1>0, <1>10, <1>c, InjectorsAssumption DEF Push, At, InjectionTypes, LocksHeld, Holding
  <2>3. SourceStays'
    BY <1>0, <1>10, <1>c, InjectorsAssumption DEF Push, At, InjectionTypes, LocksHeld, SourceStays, Holding
  <2>4. PausedAtGate'
    BY <1>0, <1>10 DEF Push, At, InjectionTypes, PausedAtGate, Holding
  <2> QED
    BY <2>1, <2>2, <2>3, <2>4 DEF SourceIInv
<1>11. CASE UnlockSource(i)
  <2>1. InjectionTypes'
    BY <1>0, <1>11, StreamsAssumption DEF UnlockSource, At, InjectionTypes, Holding
  <2>2. LocksHeld'
    BY <1>0, <1>11, <1>c, InjectorsAssumption DEF UnlockSource, At, InjectionTypes, LocksHeld, Holding
  <2>3. SourceStays'
    BY <1>0, <1>11, <1>c, InjectorsAssumption DEF UnlockSource, At, InjectionTypes, LocksHeld, SourceStays, Holding
  <2>4. PausedAtGate'
    BY <1>0, <1>11 DEF UnlockSource, At, InjectionTypes, PausedAtGate, Holding
  <2> QED
    BY <2>1, <2>2, <2>3, <2>4 DEF SourceIInv
<1> QED
  BY <1>1, <1>2, <1>3, <1>4, <1>5, <1>6, <1>7, <1>8, <1>9, <1>10, <1>11

LEMMA FoundKeeps ==
  ASSUME SourceIInv, NEW s \in Streams, FoundSource(s)
  PROVE  SourceIInv'
<1> USE DEF sourceVars, positionVars, callVars, injectorVars, controlVars, sharedVars
<1>0. InjectionTypes /\ LocksHeld /\ SourceStays /\ PausedAtGate
  BY DEF SourceIInv
<1>c. UNCHANGED <<resets, todo>> => Current' = Current
  BY CurrentStays
<1>1. InjectionTypes'
  BY <1>0 DEF FoundSource, Flags, InjectionTypes, Holding
<1>2. LocksHeld'
  BY <1>0, <1>c, InjectorsAssumption DEF FoundSource, Flags, InjectionTypes, LocksHeld, Holding
<1>3. SourceStays'
  BY <1>0, <1>c, InjectorsAssumption DEF FoundSource, Flags, InjectionTypes, LocksHeld, SourceStays, Holding
<1>4. PausedAtGate'
  BY <1>0 DEF FoundSource, Flags, InjectionTypes, PausedAtGate, Holding
<1> QED
  BY <1>1, <1>2, <1>3, <1>4 DEF SourceIInv

LEMMA OperationKeeps ==
  ASSUME SourceIInv, NEW new \in Flags, NEW forward, NEW esChange, NEW trick,
         \/ ConfigureBegins(new, forward, esChange, trick) \/ FlushBegins \/ StopBegins
         \/ PauseInjector \/ ResumeInjector \/ ControlEnds \/ UNCHANGED vars
  PROVE  SourceIInv'
<1> USE DEF sourceVars, positionVars, callVars, injectorVars, controlVars, sharedVars
<1>0. InjectionTypes /\ LocksHeld /\ SourceStays /\ PausedAtGate
  BY DEF SourceIInv
<1>c. UNCHANGED <<resets, todo>> => Current' = Current
  BY CurrentStays
<1>i. \A i \in Injectors : i # CONTROL /\ i # NOBODY
  BY InjectorsAssumption
<1>1. CASE ConfigureBegins(new, forward, esChange, trick)
  <2>1. InjectionTypes'
    BY <1>0, <1>1 DEF ConfigureBegins, Begin, InjectionTypes, Flags
  <2>2. LocksHeld'
    BY <1>0, <1>1, <1>c, <1>i DEF ConfigureBegins, Begin, InjectionTypes, LocksHeld
  <2>3. SourceStays'
    BY <1>0, <1>1, <1>c, <1>i DEF ConfigureBegins, Begin, InjectionTypes, LocksHeld, SourceStays
  <2>4. PausedAtGate'
    BY <1>0, <1>1 DEF ConfigureBegins, Begin, InjectionTypes, PausedAtGate
  <2> QED
    BY <2>1, <2>2, <2>3, <2>4 DEF SourceIInv
<1>2. CASE FlushBegins
  <2>1. InjectionTypes'
    BY <1>0, <1>2 DEF FlushBegins, Begin, InjectionTypes, Flags
  <2>2. LocksHeld'
    BY <1>0, <1>2, <1>c, <1>i DEF FlushBegins, Begin, InjectionTypes, LocksHeld
  <2>3. SourceStays'
    BY <1>0, <1>2, <1>c, <1>i DEF FlushBegins, Begin, InjectionTypes, LocksHeld, SourceStays
  <2>4. PausedAtGate'
    BY <1>0, <1>2 DEF FlushBegins, Begin, InjectionTypes, PausedAtGate
  <2> QED
    BY <2>1, <2>2, <2>3, <2>4 DEF SourceIInv
<1>3. CASE StopBegins
  <2>1. InjectionTypes'
    BY <1>0, <1>3 DEF StopBegins, Begin, None, InjectionTypes, Flags
  <2>2. LocksHeld'
    BY <1>0, <1>3, <1>c, <1>i DEF StopBegins, Begin, None, InjectionTypes, LocksHeld
  <2>3. SourceStays'
    BY <1>0, <1>3, <1>c, <1>i DEF StopBegins, Begin, None, InjectionTypes, LocksHeld, SourceStays
  <2>4. PausedAtGate'
    BY <1>0, <1>3 DEF StopBegins, Begin, None, InjectionTypes, PausedAtGate
  <2> QED
    BY <2>1, <2>2, <2>3, <2>4 DEF SourceIInv
<1>4. CASE PauseInjector
  <2>1. InjectionTypes'
    BY <1>0, <1>4 DEF PauseInjector, InjectionTypes, Flags
  <2>2. LocksHeld'
    BY <1>0, <1>4, <1>c, <1>i DEF PauseInjector, InjectionTypes, LocksHeld
  <2>3. SourceStays'
    BY <1>0, <1>4, <1>c, <1>i DEF PauseInjector, InjectionTypes, LocksHeld, SourceStays
  <2>4. PausedAtGate'
    BY <1>0, <1>4 DEF PauseInjector, InjectionTypes, PausedAtGate
  <2> QED
    BY <2>1, <2>2, <2>3, <2>4 DEF SourceIInv
<1>5. CASE ResumeInjector
  <2>1. InjectionTypes'
    BY <1>0, <1>5 DEF ResumeInjector, InjectionTypes, Flags
  <2>2. LocksHeld'
    BY <1>0, <1>5, <1>c, <1>i DEF ResumeInjector, InjectionTypes, LocksHeld
  <2>3. SourceStays'
    BY <1>0, <1>5, <1>c, <1>i DEF ResumeInjector, InjectionTypes, LocksHeld, SourceStays
  <2>4. PausedAtGate'
    BY <1>0, <1>5 DEF ResumeInjector, InjectionTypes, PausedAtGate
  <2> QED
    BY <2>1, <2>2, <2>3, <2>4 DEF SourceIInv
<1>6. CASE ControlEnds
  <2>1. InjectionTypes'
    BY <1>0, <1>6 DEF ControlEnds, None, InjectionTypes, Flags
  <2>2. LocksHeld'
    BY <1>0, <1>6, <1>c, <1>i DEF ControlEnds, None, InjectionTypes, LocksHeld
  <2>3. SourceStays'
    BY <1>0, <1>6, <1>c, <1>i DEF ControlEnds, None, InjectionTypes, LocksHeld, SourceStays
  <2>4. PausedAtGate'
    BY <1>0, <1>6 DEF ControlEnds, None, InjectionTypes, PausedAtGate
  <2> QED
    BY <2>1, <2>2, <2>3, <2>4 DEF SourceIInv
<1>7. CASE UNCHANGED vars
  <2>1. InjectionTypes'
    BY <1>0, <1>7 DEF vars, InjectionTypes, Flags
  <2>2. LocksHeld'
    BY <1>0, <1>7, <1>c, <1>i DEF vars, InjectionTypes, LocksHeld
  <2>3. SourceStays'
    BY <1>0, <1>7, <1>c, <1>i DEF vars, InjectionTypes, LocksHeld, SourceStays
  <2>4. PausedAtGate'
    BY <1>0, <1>7 DEF vars, InjectionTypes, PausedAtGate
  <2> QED
    BY <2>1, <2>2, <2>3, <2>4 DEF SourceIInv
<1> QED
  BY <1>1, <1>2, <1>3, <1>4, <1>5, <1>6, <1>7

LEMMA TearDownKeeps ==
  ASSUME SourceIInv,
         \/ TearDownNothing \/ TearDownLocks \/ TearDownClears \/ TearDownUnlocks
         \/ SetFormat \/ SetupStream \/ ResetStream
  PROVE  SourceIInv'
<1> USE DEF sourceVars, positionVars, callVars, injectorVars, controlVars, sharedVars
<1>0. InjectionTypes /\ LocksHeld /\ SourceStays /\ PausedAtGate
  BY DEF SourceIInv
<1>c. UNCHANGED <<resets, todo>> => Current' = Current
  BY CurrentStays
<1>i. \A i \in Injectors : i # CONTROL /\ i # NOBODY
  BY InjectorsAssumption
<1>1. CASE TearDownNothing
  <2>1. InjectionTypes'
    BY <1>0, <1>1 DEF TearDownNothing, TearsDown, AfterTearDown, ControlRest, InjectionTypes, Flags
  <2>2. LocksHeld'
    BY <1>0, <1>1, <1>c, <1>i DEF TearDownNothing, TearsDown, AfterTearDown, ControlRest, InjectionTypes, LocksHeld
  <2>3. SourceStays'
    BY <1>0, <1>1, <1>c, <1>i DEF TearDownNothing, TearsDown, AfterTearDown, ControlRest, InjectionTypes, LocksHeld, SourceStays
  <2>4. PausedAtGate'
    BY <1>0, <1>1 DEF TearDownNothing, TearsDown, AfterTearDown, ControlRest, InjectionTypes, PausedAtGate
  <2> QED
    BY <2>1, <2>2, <2>3, <2>4 DEF SourceIInv
<1>2. CASE TearDownLocks
  <2>1. InjectionTypes'
    BY <1>0, <1>2 DEF TearDownLocks, TearsDown, ControlRest, InjectionTypes, Flags
  <2>2. LocksHeld'
    <3>1. Current \in Streams /\ Current' = Current /\ sourceLock[Current] = NOBODY
      BY <1>0, <1>2, <1>c, CurrentIsStream DEF TearDownLocks, TearsDown, ControlRest, InjectionTypes
    <3>2. sourceLock'[Current] = CONTROL /\ \A s \in Streams \ {Current} : sourceLock'[s] = sourceLock[s]
      BY <1>0, <1>2, <3>1 DEF TearDownLocks, InjectionTypes
    <3>3. UNCHANGED <<pc, stream, op>> /\ op # "none" /\ at' = "clear"
      BY <1>2 DEF TearDownLocks, TearsDown, ControlRest
    <3>4. \A i \in Injectors : pc'[i] \in Holding => sourceLock'[stream'[i]] = i
      BY <1>0, <1>i, <3>1, <3>2, <3>3 DEF InjectionTypes, LocksHeld
    <3> QED
      BY <3>1, <3>2, <3>3, <3>4 DEF LocksHeld
  <2>3. SourceStays'
    BY <1>0, <1>2, <1>c, <1>i DEF TearDownLocks, TearsDown, ControlRest, InjectionTypes, LocksHeld, SourceStays
  <2>4. PausedAtGate'
    BY <1>0, <1>2 DEF TearDownLocks, TearsDown, ControlRest, InjectionTypes, PausedAtGate
  <2> QED
    BY <2>1, <2>2, <2>3, <2>4 DEF SourceIInv
<1>3. CASE TearDownClears
  <2>1. InjectionTypes'
    BY <1>0, <1>3 DEF TearDownClears, ControlRest, InjectionTypes, Flags
  <2>2. LocksHeld'
    BY <1>0, <1>3, <1>c, <1>i DEF TearDownClears, ControlRest, InjectionTypes, LocksHeld
  <2>3. SourceStays'
    BY <1>0, <1>3, <1>c, <1>i DEF TearDownClears, ControlRest, InjectionTypes, LocksHeld, SourceStays
  <2>4. PausedAtGate'
    BY <1>0, <1>3 DEF TearDownClears, ControlRest, InjectionTypes, PausedAtGate
  <2> QED
    BY <2>1, <2>2, <2>3, <2>4 DEF SourceIInv
<1>4. CASE TearDownUnlocks
  <2>1. InjectionTypes'
    BY <1>0, <1>4 DEF TearDownUnlocks, AfterTearDown, ControlRest, InjectionTypes, Flags
  <2>2. LocksHeld'
    BY <1>0, <1>4, <1>c, <1>i DEF TearDownUnlocks, AfterTearDown, ControlRest, InjectionTypes, LocksHeld
  <2>3. SourceStays'
    <3>1. /\ at = "unlock" /\ sourceLock[Current] = CONTROL /\ Current \in Streams
          /\ sourceConfigured' = [sourceConfigured EXCEPT ![Current] = FALSE]
          /\ UNCHANGED <<pc, stream, found, source>>
      BY <1>0, <1>4 DEF TearDownUnlocks, ControlRest, LocksHeld
    <3>2. ~sourceConfigured'[Current]
          /\ \A s \in Streams \ {Current} : sourceConfigured'[s] = sourceConfigured[s]
      BY <1>0, <3>1 DEF InjectionTypes, Flags
    <3>3. \A i \in Injectors : found[i] => stream[i] \in Streams \ {Current}
      BY <1>0, <1>i, <3>1 DEF InjectionTypes, LocksHeld, SourceStays
    <3> QED
      BY <1>0, <3>1, <3>2, <3>3 DEF SourceStays
  <2>4. PausedAtGate'
    BY <1>0, <1>4 DEF TearDownUnlocks, AfterTearDown, ControlRest, InjectionTypes, PausedAtGate
  <2> QED
    BY <2>1, <2>2, <2>3, <2>4 DEF SourceIInv
<1>5. CASE SetFormat
  <2>1. InjectionTypes'
    BY <1>0, <1>5 DEF SetFormat, ControlRest, InjectionTypes, Flags
  <2>2. LocksHeld'
    BY <1>0, <1>5, <1>c, <1>i DEF SetFormat, ControlRest, InjectionTypes, LocksHeld
  <2>3. SourceStays'
    BY <1>0, <1>5, <1>c, <1>i DEF SetFormat, ControlRest, InjectionTypes, LocksHeld, SourceStays
  <2>4. PausedAtGate'
    BY <1>0, <1>5 DEF SetFormat, ControlRest, InjectionTypes, PausedAtGate
  <2> QED
    BY <2>1, <2>2, <2>3, <2>4 DEF SourceIInv
<1>6. CASE SetupStream
  <2>1. InjectionTypes'
    BY <1>0, <1>6 DEF SetupStream, ControlRest, InjectionTypes, Flags
  <2>2. LocksHeld'
    BY <1>0, <1>6, <1>c, <1>i DEF SetupStream, ControlRest, InjectionTypes, LocksHeld
  <2>3. SourceStays'
    BY <1>0, <1>6, <1>c, <1>i DEF SetupStream, ControlRest, InjectionTypes, LocksHeld, SourceStays
  <2>4. PausedAtGate'
    BY <1>0, <1>6 DEF SetupStream, ControlRest, InjectionTypes, PausedAtGate
  <2> QED
    BY <2>1, <2>2, <2>3, <2>4 DEF SourceIInv
<1>7. CASE ResetStream
  <2>1. InjectionTypes'
    BY <1>0, <1>7 DEF ResetStream, InjectionTypes, Flags
  <2>2. LocksHeld'
    BY <1>0, <1>7, <1>c, <1>i DEF ResetStream, InjectionTypes, LocksHeld
  <2>3. SourceStays'
    BY <1>0, <1>7, <1>c, <1>i DEF ResetStream, InjectionTypes, LocksHeld, SourceStays
  <2>4. PausedAtGate'
    BY <1>0, <1>7 DEF ResetStream, InjectionTypes, PausedAtGate
  <2> QED
    BY <2>1, <2>2, <2>3, <2>4 DEF SourceIInv
<1> QED
  BY <1>1, <1>2, <1>3, <1>4, <1>5, <1>6, <1>7

LEMMA SourceStep == SourceIInv /\ [Next]_vars => SourceIInv'
<1> SUFFICES ASSUME SourceIInv, [Next]_vars PROVE SourceIInv'
  OBVIOUS
<1>1. ASSUME NEW i \in Injectors,
             (\E s \in Streams \ {AUX_AUDIO} : Call(i, s)) \/ LockSource(i) \/ SendHelper(i)
      PROVE  SourceIInv'
  <2>1. AUDIO \in Streams
    BY StreamsAssumption
  <2> QED
    BY <1>1, <2>1, CallKeeps DEF SendHelper
<1>2. ASSUME NEW s \in Streams, FoundSource(s) PROVE SourceIInv'
  BY <1>2, FoundKeeps
<1>3. ASSUME NEW new \in Flags, NEW forward \in BOOLEAN, NEW esChange \in BOOLEAN,
             NEW trick \in BOOLEAN, ConfigureBegins(new, forward, esChange, trick)
      PROVE  SourceIInv'
  BY <1>3, OperationKeeps
<1>4. CASE \/ FlushBegins \/ StopBegins \/ PauseInjector \/ ResumeInjector
           \/ ControlEnds \/ UNCHANGED vars
  <2>1. None \in Flags
    BY DEF None, Flags
  <2> QED
    BY <1>4, <2>1, OperationKeeps
<1>5. CASE TearDownStream \/ SetFormat \/ SetupStream \/ ResetStream
  BY <1>5, TearDownKeeps DEF TearDownStream
<1> QED
  BY <1>1, <1>2, <1>3, <1>4, <1>5 DEF Next, ControlGoes

(* However many calls of SendHelper wait for their source while streams are *)
(* configured, torn down and flushed, in whatever discipline: what is       *)
(* pushed goes to the source that was found configured under the lock, and  *)
(* a call made after PauseInjector pushes nothing until injection is        *)
(* resumed (InterfacePlayerRDK.cpp:2791-2816, 2901-3096 and 3112).          *)
THEOREM PushedToItsSource == Spec => []PushesAsAllowed
<1>1. SourceIInv => PushesAsAllowed
  BY DEF SourceIInv, SourceStays, PausedAtGate, PushesAsAllowed, ConfiguredUntilPushed,
     PausedCallsPushNothing
<1> QED
  BY <1>1, SourceInitially, SourceStep, PTL DEF Spec

-----------------------------------------------------------------------------
(* The application that does not inject while it configures or stops.       *)

\* No call is under way in ConfigurePipeline or Stop; what their loops still have
\* to do.
OperationsAlone ==
  /\ op \in {"configure", "stop"} => \A i \in Injectors : pc[i] = "idle"
  /\ at \in {"clear", "unlock"} => op \in {"configure", "stop"}
  /\ at \in {"format", "setup"} => op = "configure" /\ resets = {}
  /\ drop \subseteq resets
  /\ op # "configure" => drop = {}
  /\ op = "none" => resets = {}
  /\ op \in {"none", "flush"} => todo = {}

\* A stream with a format is marked for its first buffer, or its source has its
\* events.
FirstIsMarked ==
  /\ op = "configure" => \A s \in Streams \ resets : resetPosition[s]
  /\ \A s \in Streams \ {AUX_AUDIO} : format[s] =>
       resetPosition[s] \/ (eventsSent[s] /\ source[s])

\* A call sends the events itself, or they were sent to the source it will use.
CallsSendEvents ==
  \A i \in Injectors :
    /\ pc[i] # "idle" => format[stream[i]] /\ stream[i] # AUX_AUDIO
    /\ pc[i] \in {"lock", "test", "wait", "decide", "events"} =>
         first[i] \/ (eventsSent[stream[i]] /\ source[stream[i]])
    /\ pc[i] = "decide" /\ status[i] => sourceConfigured[stream[i]]
    /\ pc[i] = "events" => sourceConfigured[stream[i]]
    /\ pc[i] \in {"gate", "forward", "auxWait", "auxDecide", "auxPush", "push"} =>
         eventsSent[stream[i]] /\ source[stream[i]]

EventsIInv == during = {} => OperationsAlone /\ FirstIsMarked /\ CallsSendEvents

LEMMA EventsInitially == Init => EventsIInv
  BY DEF Init, EventsIInv, OperationsAlone, FirstIsMarked, CallsSendEvents, None

LEMMA CallMarks ==
  ASSUME SourceIInv, EventsIInv, during = {}, NEW i \in Injectors,
         NEW s \in Streams \ {AUX_AUDIO},
         \/ Call(i, s) \/ LockSource(i)
         \/ TestSource(i) \/ WaitForSourceSetup(i) \/ Decide(i)
         \/ SendGstEvents(i) \/ Gate(i) \/ Forward(i) \/ AuxDecide(i) \/ Push(i)
         \/ UnlockSource(i)
  PROVE  OperationsAlone' /\ FirstIsMarked' /\ CallsSendEvents'
<1> USE DEF sourceVars, positionVars, callVars, injectorVars, controlVars, sharedVars
<1>0. /\ InjectionTypes /\ LocksHeld /\ SourceStays
      /\ OperationsAlone /\ FirstIsMarked /\ CallsSendEvents
  BY DEF SourceIInv, EventsIInv
<1>1. CASE Call(i, s)
  <2>1. OperationsAlone'
    BY <1>0, <1>1 DEF Call, At, Holding, InjectionTypes, Flags,
       OperationsAlone
  <2>2. FirstIsMarked'
    BY <1>0, <1>1 DEF Call, At, Holding, InjectionTypes, Flags,
       OperationsAlone, CallsSendEvents, SourceStays, LocksHeld, FirstIsMarked
  <2>3. CallsSendEvents'
    BY <1>0, <1>1 DEF Call, At, Holding, InjectionTypes, Flags,
       OperationsAlone, FirstIsMarked, LocksHeld, SourceStays, CallsSendEvents
  <2> QED
    BY <2>1, <2>2, <2>3
<1>2. CASE LockSource(i)
  <2>1. OperationsAlone'
    BY <1>0, <1>2 DEF LockSource, At, Holding, InjectionTypes, Flags,
       OperationsAlone
  <2>2. FirstIsMarked'
    BY <1>0, <1>2 DEF LockSource, At, Holding, InjectionTypes, Flags,
       OperationsAlone, CallsSendEvents, SourceStays, LocksHeld, FirstIsMarked
  <2>3. CallsSendEvents'
    BY <1>0, <1>2 DEF LockSource, At, Holding, InjectionTypes, Flags,
       OperationsAlone, FirstIsMarked, LocksHeld, SourceStays, CallsSendEvents
  <2> QED
    BY <2>1, <2>2, <2>3
<1>3. CASE TestSource(i)
  <2>1. OperationsAlone'
    BY <1>0, <1>3 DEF TestSource, At, NeedsWait, Holding, InjectionTypes, Flags,
       OperationsAlone
  <2>2. FirstIsMarked'
    BY <1>0, <1>3 DEF TestSource, At, NeedsWait, Holding, InjectionTypes, Flags,
       OperationsAlone, CallsSendEvents, SourceStays, LocksHeld, FirstIsMarked
  <2>3. CallsSendEvents'
    BY <1>0, <1>3 DEF TestSource, At, NeedsWait, Holding, InjectionTypes, Flags,
       OperationsAlone, FirstIsMarked, LocksHeld, SourceStays, CallsSendEvents
  <2> QED
    BY <2>1, <2>2, <2>3
<1>4. CASE WaitForSourceSetup(i)
  <2>1. OperationsAlone'
    BY <1>0, <1>4 DEF WaitForSourceSetup, At, WaitRound, Waiting, Holding, InjectionTypes, Flags,
       OperationsAlone
  <2>2. FirstIsMarked'
    BY <1>0, <1>4 DEF WaitForSourceSetup, At, WaitRound, Waiting, Holding, InjectionTypes, Flags,
       OperationsAlone, CallsSendEvents, SourceStays, LocksHeld, FirstIsMarked
  <2>3. CallsSendEvents'
    BY <1>0, <1>4 DEF WaitForSourceSetup, At, WaitRound, Waiting, Holding, InjectionTypes, Flags,
       OperationsAlone, FirstIsMarked, LocksHeld, SourceStays, CallsSendEvents
  <2> QED
    BY <2>1, <2>2, <2>3
<1>5. CASE Decide(i)
  <2>1. OperationsAlone'
    BY <1>0, <1>5 DEF Decide, At, Holding, InjectionTypes, Flags,
       OperationsAlone
  <2>2. FirstIsMarked'
    BY <1>0, <1>5 DEF Decide, At, Holding, InjectionTypes, Flags,
       OperationsAlone, CallsSendEvents, SourceStays, LocksHeld, FirstIsMarked
  <2>3. CallsSendEvents'
    BY <1>0, <1>5 DEF Decide, At, Holding, InjectionTypes, Flags,
       OperationsAlone, FirstIsMarked, LocksHeld, SourceStays, CallsSendEvents
  <2> QED
    BY <2>1, <2>2, <2>3
<1>6. CASE SendGstEvents(i)
  <2>1. OperationsAlone'
    BY <1>0, <1>6 DEF SendGstEvents, At, EventStreams, Holding, InjectionTypes, Flags,
       OperationsAlone
  <2>2. FirstIsMarked'
    BY <1>0, <1>6 DEF SendGstEvents, At, EventStreams, Holding, InjectionTypes, Flags,
       OperationsAlone, CallsSendEvents, SourceStays, LocksHeld, FirstIsMarked
  <2>3. CallsSendEvents'
    BY <1>0, <1>6 DEF SendGstEvents, At, EventStreams, Holding, InjectionTypes, Flags,
       OperationsAlone, FirstIsMarked, LocksHeld, SourceStays, CallsSendEvents
  <2> QED
    BY <2>1, <2>2, <2>3
<1>7. CASE Gate(i)
  <2>1. OperationsAlone'
    BY <1>0, <1>7 DEF Gate, At, Holding, InjectionTypes, Flags,
       OperationsAlone
  <2>2. FirstIsMarked'
    BY <1>0, <1>7 DEF Gate, At, Holding, InjectionTypes, Flags,
       OperationsAlone, CallsSendEvents, SourceStays, LocksHeld, FirstIsMarked
  <2>3. CallsSendEvents'
    BY <1>0, <1>7 DEF Gate, At, Holding, InjectionTypes, Flags,
       OperationsAlone, FirstIsMarked, LocksHeld, SourceStays, CallsSendEvents
  <2> QED
    BY <2>1, <2>2, <2>3
<1>8. CASE Forward(i)
  <2>1. OperationsAlone'
    BY <1>0, <1>8 DEF Forward, At, NeedsWait, Holding, InjectionTypes, Flags,
       OperationsAlone
  <2>2. FirstIsMarked'
    BY <1>0, <1>8 DEF Forward, At, NeedsWait, Holding, InjectionTypes, Flags,
       OperationsAlone, CallsSendEvents, SourceStays, LocksHeld, FirstIsMarked
  <2>3. CallsSendEvents'
    BY <1>0, <1>8 DEF Forward, At, NeedsWait, Holding, InjectionTypes, Flags,
       OperationsAlone, FirstIsMarked, LocksHeld, SourceStays, CallsSendEvents
  <2> QED
    BY <2>1, <2>2, <2>3
<1>9. CASE AuxDecide(i)
  <2>1. OperationsAlone'
    BY <1>0, <1>9 DEF AuxDecide, At, Holding, InjectionTypes, Flags,
       OperationsAlone
  <2>2. FirstIsMarked'
    BY <1>0, <1>9 DEF AuxDecide, At, Holding, InjectionTypes, Flags,
       OperationsAlone, CallsSendEvents, SourceStays, LocksHeld, FirstIsMarked
  <2>3. CallsSendEvents'
    BY <1>0, <1>9 DEF AuxDecide, At, Holding, InjectionTypes, Flags,
       OperationsAlone, FirstIsMarked, LocksHeld, SourceStays, CallsSendEvents
  <2> QED
    BY <2>1, <2>2, <2>3
<1>10. CASE Push(i)
  <2>1. OperationsAlone'
    BY <1>0, <1>10 DEF Push, At, Holding, InjectionTypes, Flags,
       OperationsAlone
  <2>2. FirstIsMarked'
    BY <1>0, <1>10 DEF Push, At, Holding, InjectionTypes, Flags,
       OperationsAlone, CallsSendEvents, SourceStays, LocksHeld, FirstIsMarked
  <2>3. CallsSendEvents'
    BY <1>0, <1>10 DEF Push, At, Holding, InjectionTypes, Flags,
       OperationsAlone, FirstIsMarked, LocksHeld, SourceStays, CallsSendEvents
  <2> QED
    BY <2>1, <2>2, <2>3
<1>11. CASE UnlockSource(i)
  <2>1. OperationsAlone'
    BY <1>0, <1>11 DEF UnlockSource, At, Holding, InjectionTypes, Flags,
       OperationsAlone
  <2>2. FirstIsMarked'
    BY <1>0, <1>11 DEF UnlockSource, At, Holding, InjectionTypes, Flags,
       OperationsAlone, CallsSendEvents, SourceStays, LocksHeld, FirstIsMarked
  <2>3. CallsSendEvents'
    BY <1>0, <1>11 DEF UnlockSource, At, Holding, InjectionTypes, Flags,
       OperationsAlone, FirstIsMarked, LocksHeld, SourceStays, CallsSendEvents
  <2> QED
    BY <2>1, <2>2, <2>3
<1> QED
  BY <1>1, <1>2, <1>3, <1>4, <1>5, <1>6, <1>7, <1>8, <1>9, <1>10, <1>11

LEMMA OperationMarks ==
  ASSUME SourceIInv, EventsIInv, during = {},
         \/ \E new \in Flags, forward, esChange, trick \in BOOLEAN :
              ConfigureBegins(new, forward, esChange, trick)
         \/ FlushBegins \/ StopBegins \/ PauseInjector \/ ResumeInjector
         \/ ControlEnds \/ (\E s \in Streams : FoundSource(s)) \/ UNCHANGED vars
  PROVE  OperationsAlone' /\ FirstIsMarked' /\ CallsSendEvents'
<1> USE DEF sourceVars, positionVars, callVars, injectorVars, controlVars, sharedVars
<1>0. /\ InjectionTypes /\ LocksHeld /\ SourceStays
      /\ OperationsAlone /\ FirstIsMarked /\ CallsSendEvents
  BY DEF SourceIInv, EventsIInv
<1>1. CASE \E new \in Flags, forward, esChange, trick \in BOOLEAN :
              ConfigureBegins(new, forward, esChange, trick)
  <2>1. OperationsAlone'
    BY <1>0, <1>1 DEF ConfigureBegins, Begin, InjectionTypes, Flags,
       OperationsAlone
  <2>2. FirstIsMarked'
    BY <1>0, <1>1 DEF ConfigureBegins, Begin, InjectionTypes, Flags,
       OperationsAlone, FirstIsMarked
  <2>3. CallsSendEvents'
    BY <1>0, <1>1 DEF ConfigureBegins, Begin, InjectionTypes, Flags,
       OperationsAlone, FirstIsMarked, LocksHeld, SourceStays, CallsSendEvents
  <2> QED
    BY <2>1, <2>2, <2>3
<1>2. CASE FlushBegins
  <2>1. OperationsAlone'
    BY <1>0, <1>2 DEF FlushBegins, Begin, InjectionTypes, Flags,
       OperationsAlone
  <2>2. FirstIsMarked'
    BY <1>0, <1>2 DEF FlushBegins, Begin, InjectionTypes, Flags,
       OperationsAlone, FirstIsMarked
  <2>3. CallsSendEvents'
    BY <1>0, <1>2 DEF FlushBegins, Begin, InjectionTypes, Flags,
       OperationsAlone, FirstIsMarked, LocksHeld, SourceStays, CallsSendEvents
  <2> QED
    BY <2>1, <2>2, <2>3
<1>3. CASE StopBegins
  <2>1. OperationsAlone'
    BY <1>0, <1>3 DEF StopBegins, Begin, InjectionTypes, Flags,
       OperationsAlone
  <2>2. FirstIsMarked'
    BY <1>0, <1>3 DEF StopBegins, Begin, InjectionTypes, Flags,
       OperationsAlone, FirstIsMarked
  <2>3. CallsSendEvents'
    BY <1>0, <1>3 DEF StopBegins, Begin, InjectionTypes, Flags,
       OperationsAlone, FirstIsMarked, LocksHeld, SourceStays, CallsSendEvents
  <2> QED
    BY <2>1, <2>2, <2>3
<1>4. CASE PauseInjector
  <2>1. OperationsAlone'
    BY <1>0, <1>4 DEF PauseInjector, InjectionTypes, Flags,
       OperationsAlone
  <2>2. FirstIsMarked'
    BY <1>0, <1>4 DEF PauseInjector, InjectionTypes, Flags,
       OperationsAlone, FirstIsMarked
  <2>3. CallsSendEvents'
    BY <1>0, <1>4 DEF PauseInjector, InjectionTypes, Flags,
       OperationsAlone, FirstIsMarked, LocksHeld, SourceStays, CallsSendEvents
  <2> QED
    BY <2>1, <2>2, <2>3
<1>5. CASE ResumeInjector
  <2>1. OperationsAlone'
    BY <1>0, <1>5 DEF ResumeInjector, InjectionTypes, Flags,
       OperationsAlone
  <2>2. FirstIsMarked'
    BY <1>0, <1>5 DEF ResumeInjector, InjectionTypes, Flags,
       OperationsAlone, FirstIsMarked
  <2>3. CallsSendEvents'
    BY <1>0, <1>5 DEF ResumeInjector, InjectionTypes, Flags,
       OperationsAlone, FirstIsMarked, LocksHeld, SourceStays, CallsSendEvents
  <2> QED
    BY <2>1, <2>2, <2>3
<1>6. CASE ControlEnds
  <2>1. OperationsAlone'
    BY <1>0, <1>6 DEF ControlEnds, InjectionTypes, Flags,
       OperationsAlone
  <2>2. FirstIsMarked'
    BY <1>0, <1>6 DEF ControlEnds, InjectionTypes, Flags,
       OperationsAlone, FirstIsMarked
  <2>3. CallsSendEvents'
    BY <1>0, <1>6 DEF ControlEnds, InjectionTypes, Flags,
       OperationsAlone, FirstIsMarked, LocksHeld, SourceStays, CallsSendEvents
  <2> QED
    BY <2>1, <2>2, <2>3
<1>7. CASE \E s \in Streams : FoundSource(s)
  <2>1. OperationsAlone'
    BY <1>0, <1>7 DEF FoundSource, InjectionTypes, Flags,
       OperationsAlone
  <2>2. FirstIsMarked'
    BY <1>0, <1>7 DEF FoundSource, InjectionTypes, Flags,
       OperationsAlone, FirstIsMarked
  <2>3. CallsSendEvents'
    BY <1>0, <1>7 DEF FoundSource, InjectionTypes, Flags,
       OperationsAlone, FirstIsMarked, LocksHeld, SourceStays, CallsSendEvents
  <2> QED
    BY <2>1, <2>2, <2>3
<1>8. CASE UNCHANGED vars
  <2>1. OperationsAlone'
    BY <1>0, <1>8 DEF vars, InjectionTypes, Flags,
       OperationsAlone
  <2>2. FirstIsMarked'
    BY <1>0, <1>8 DEF vars, InjectionTypes, Flags,
       OperationsAlone, FirstIsMarked
  <2>3. CallsSendEvents'
    BY <1>0, <1>8 DEF vars, InjectionTypes, Flags,
       OperationsAlone, FirstIsMarked, LocksHeld, SourceStays, CallsSendEvents
  <2> QED
    BY <2>1, <2>2, <2>3
<1> QED
  BY <1>1, <1>2, <1>3, <1>4, <1>5, <1>6, <1>7, <1>8

LEMMA TearDownMarks ==
  ASSUME SourceIInv, EventsIInv, during = {},
         \/ TearDownNothing \/ TearDownLocks \/ TearDownClears \/ TearDownUnlocks
         \/ SetFormat \/ SetupStream \/ ResetStream
  PROVE  OperationsAlone' /\ FirstIsMarked' /\ CallsSendEvents'
<1> USE DEF sourceVars, positionVars, callVars, injectorVars, controlVars, sharedVars
<1>0. /\ InjectionTypes /\ LocksHeld /\ SourceStays
      /\ OperationsAlone /\ FirstIsMarked /\ CallsSendEvents
  BY DEF SourceIInv, EventsIInv
<1>1. CASE TearDownNothing
  <2>1. OperationsAlone'
    BY <1>0, <1>1 DEF TearDownNothing, TearsDown, AfterTearDown, ControlRest, InjectionTypes, Flags,
       OperationsAlone
  <2>2. FirstIsMarked'
    BY <1>0, <1>1 DEF TearDownNothing, TearsDown, AfterTearDown, ControlRest, InjectionTypes, Flags,
       OperationsAlone, FirstIsMarked
  <2>3. CallsSendEvents'
    BY <1>0, <1>1 DEF TearDownNothing, TearsDown, AfterTearDown, ControlRest, InjectionTypes, Flags,
       OperationsAlone, FirstIsMarked, LocksHeld, SourceStays, CallsSendEvents
  <2> QED
    BY <2>1, <2>2, <2>3
<1>2. CASE TearDownLocks
  <2>1. OperationsAlone'
    BY <1>0, <1>2 DEF TearDownLocks, TearsDown, ControlRest, InjectionTypes, Flags,
       OperationsAlone
  <2>2. FirstIsMarked'
    BY <1>0, <1>2 DEF TearDownLocks, TearsDown, ControlRest, InjectionTypes, Flags,
       OperationsAlone, FirstIsMarked
  <2>3. CallsSendEvents'
    BY <1>0, <1>2 DEF TearDownLocks, TearsDown, ControlRest, InjectionTypes, Flags,
       OperationsAlone, FirstIsMarked, LocksHeld, SourceStays, CallsSendEvents
  <2> QED
    BY <2>1, <2>2, <2>3
<1>3. CASE TearDownClears
  <2>1. OperationsAlone'
    BY <1>0, <1>3 DEF TearDownClears, ControlRest, InjectionTypes, Flags,
       OperationsAlone
  <2>2. FirstIsMarked'
    BY <1>0, <1>3 DEF TearDownClears, ControlRest, InjectionTypes, Flags,
       OperationsAlone, FirstIsMarked
  <2>3. CallsSendEvents'
    BY <1>0, <1>3 DEF TearDownClears, ControlRest, InjectionTypes, Flags,
       OperationsAlone, FirstIsMarked, LocksHeld, SourceStays, CallsSendEvents
  <2> QED
    BY <2>1, <2>2, <2>3
<1>4. CASE TearDownUnlocks
  <2>1. OperationsAlone'
    BY <1>0, <1>4 DEF TearDownUnlocks, AfterTearDown, ControlRest, InjectionTypes, Flags,
       OperationsAlone
  <2>2. FirstIsMarked'
    BY <1>0, <1>4 DEF TearDownUnlocks, AfterTearDown, ControlRest, InjectionTypes, Flags,
       OperationsAlone, FirstIsMarked
  <2>3. CallsSendEvents'
    BY <1>0, <1>4 DEF TearDownUnlocks, AfterTearDown, ControlRest, InjectionTypes, Flags,
       OperationsAlone, FirstIsMarked, LocksHeld, SourceStays, CallsSendEvents
  <2> QED
    BY <2>1, <2>2, <2>3
<1>5. CASE SetFormat
  <2>1. OperationsAlone'
    BY <1>0, <1>5 DEF SetFormat, ControlRest, InjectionTypes, Flags,
       OperationsAlone
  <2>2. FirstIsMarked'
    BY <1>0, <1>5 DEF SetFormat, ControlRest, InjectionTypes, Flags,
       OperationsAlone, FirstIsMarked
  <2>3. CallsSendEvents'
    BY <1>0, <1>5 DEF SetFormat, ControlRest, InjectionTypes, Flags,
       OperationsAlone, FirstIsMarked, LocksHeld, SourceStays, CallsSendEvents
  <2> QED
    BY <2>1, <2>2, <2>3
<1>6. CASE SetupStream
  <2>1. OperationsAlone'
    BY <1>0, <1>6 DEF SetupStream, ControlRest, InjectionTypes, Flags,
       OperationsAlone
  <2>2. FirstIsMarked'
    BY <1>0, <1>6 DEF SetupStream, ControlRest, InjectionTypes, Flags,
       OperationsAlone, FirstIsMarked
  <2>3. CallsSendEvents'
    BY <1>0, <1>6 DEF SetupStream, ControlRest, InjectionTypes, Flags,
       OperationsAlone, FirstIsMarked, LocksHeld, SourceStays, CallsSendEvents
  <2> QED
    BY <2>1, <2>2, <2>3
<1>7. CASE ResetStream
  <2>1. OperationsAlone'
    BY <1>0, <1>7 DEF ResetStream, InjectionTypes, Flags,
       OperationsAlone
  <2>2. FirstIsMarked'
    BY <1>0, <1>7 DEF ResetStream, InjectionTypes, Flags,
       OperationsAlone, FirstIsMarked
  <2>3. CallsSendEvents'
    BY <1>0, <1>7 DEF ResetStream, InjectionTypes, Flags,
       OperationsAlone, FirstIsMarked, LocksHeld, SourceStays, CallsSendEvents
  <2> QED
    BY <2>1, <2>2, <2>3
<1> QED
  BY <1>1, <1>2, <1>3, <1>4, <1>5, <1>6, <1>7

LEMMA EventsStep == SourceIInv /\ EventsIInv /\ [Next]_vars => EventsIInv'
<1> SUFFICES ASSUME SourceIInv, EventsIInv, [Next]_vars, during' = {} PROVE EventsIInv'
  BY DEF EventsIInv
<1>0. during = {}
  BY DEF Next, vars, sharedVars, SendHelper, WaitForSourceSetup, WaitRound, Call, LockSource,
     TestSource, Decide, SendGstEvents, Gate, Forward, AuxDecide, Push, UnlockSource,
     PauseInjector, ResumeInjector, FoundSource, ConfigureBegins, FlushBegins, StopBegins,
     Begin, ControlGoes, TearDownStream, TearDownNothing, TearDownLocks, TearDownClears,
     TearDownUnlocks, ControlRest, SetFormat, SetupStream, ResetStream, ControlEnds
<1>1. ASSUME NEW i \in Injectors,
             (\E s \in Streams \ {AUX_AUDIO} : Call(i, s)) \/ LockSource(i) \/ SendHelper(i)
      PROVE  EventsIInv'
  <2>1. AUDIO \in Streams \ {AUX_AUDIO}
    BY StreamsAssumption DEF AUDIO, AUX_AUDIO
  <2> QED
    BY <1>0, <1>1, <2>1, CallMarks DEF SendHelper, EventsIInv
<1>2. CASE \/ \E new \in Flags, forward, esChange, trick \in BOOLEAN :
                ConfigureBegins(new, forward, esChange, trick)
           \/ FlushBegins \/ StopBegins \/ PauseInjector \/ ResumeInjector
           \/ ControlEnds \/ (\E s \in Streams : FoundSource(s)) \/ UNCHANGED vars
  BY <1>0, <1>2, OperationMarks DEF EventsIInv
<1>3. CASE TearDownStream \/ SetFormat \/ SetupStream \/ ResetStream
  BY <1>0, <1>3, TearDownMarks DEF TearDownStream, EventsIInv
<1> QED
  BY <1>1, <1>2, <1>3 DEF Next, ControlGoes

(* An application that injects only between its calls of ConfigurePipeline  *)
(* and Stop: whatever the streams it configures, the flushes, pauses, waits *)
(* that fail and injectors of one stream that meet, no source gets data     *)
(* before its segment and protection events (InterfacePlayerRDK.cpp:380,    *)
(* 2402 and 2901-2934).                                                     *)
THEOREM SegmentBeforeBuffers == Spec => []EventsBeforeData
<1>1. EventsIInv => EventsBeforeData
  BY DEF EventsIInv, CallsSendEvents, EventsBeforeData
<1>2. Init => SourceIInv /\ EventsIInv
  BY SourceInitially, EventsInitially
<1>3. (SourceIInv /\ EventsIInv) /\ [Next]_vars => (SourceIInv /\ EventsIInv)'
  BY SourceStep, EventsStep
<1> QED
  BY <1>1, <1>2, <1>3, PTL DEF Spec

=============================================================================
