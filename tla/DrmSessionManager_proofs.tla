----------------------- MODULE DrmSessionManager_proofs -----------------------
(***************************************************************************)
(* createDrmSession returns a session for the key asked for, and takes over *)
(* a slot in use only when none is free, for any streams, keys and slots;   *)
(* the decryptor elements call it as it expects to be called, and none of   *)
(* them keeps a buffer waiting for a key that will not come.                *)
(***************************************************************************)
EXTENDS CdmiDecryptor, TLAPS

KeyIDRecords == [data : SUBSET Keys, creationTime : Nat, isFailedKeyId : BOOLEAN]
ContextRecords == [data : Keys, session : Nat, state : KeyStates]

Types ==
  /\ cachedKeyIDs \in [Slots -> KeyIDRecords]
  /\ drmSessionContexts \in [Slots -> ContextRecords]
  /\ lockedBy \in SUBSET Streams
  /\ pc \in [Streams -> Pcs]
  /\ keyId \in [Streams -> Keys]
  /\ selectedSlot \in [Streams -> Slots]
  /\ result \in [Streams -> Nat]
  /\ requests \in Nat
  /\ created \in Nat

Inside(s) == pc[s] \notin {"idle", "wantLock"}

\* Whoever is past the lock holds it, and has been counted.
Locked ==
  /\ \A s \in Streams : Inside(s) => lockedBy = {s}
  /\ \A s \in Streams : pc[s] # "idle" => requests > 0

\* A slot holds key ids exactly when it has been used since it was cleared, and
\* then those of one PSSH.
SlotsInOrder ==
  \A i \in Slots :
    /\ cachedKeyIDs[i].data # {} <=> cachedKeyIDs[i].creationTime > 0
    /\ cachedKeyIDs[i].data = {} \/ \E k \in Keys : cachedKeyIDs[i].data = KeysOf[k]

HasSlot(s)     == pc[s] \in {"use", "waitReady", "initialize", "acquire"}
HasContext(s)  == pc[s] \in {"waitReady", "initialize", "acquire"}
HasResult(s)   == pc[s] = "return" /\ result[s] # NULL

\* The slot selected is for the key ids asked for, and from the use of the slot
\* on so is its session.
ServedAt(s) ==
  /\ HasSlot(s) \/ HasResult(s) => Cached(s).data = KeysOf[keyId[s]]
  /\ HasContext(s) \/ HasResult(s) => Context(s).data \in KeysOf[keyId[s]]
  /\ HasResult(s) => Context(s).session = result[s]

Served == \A s \in Streams : ServedAt(s)

IInv == Types /\ Locked /\ SlotsInOrder /\ Served

LEMMA SlotNumbers == 0 \in Slots /\ Slots \subseteq Nat
  BY BoundsAssumption DEF Slots

LEMMA AnyKeyIsKey == AnyKey \in Keys
  BY KeysAssumption DEF AnyKey

LEMMA KeysOfKeys ==
  ASSUME NEW k \in Keys
  PROVE  KeysOf[k] \in SUBSET Keys /\ k \in KeysOf[k] /\ KeysOf[k] # {}
  BY KeysAssumption

LEMMA EmptyRecords == NoKeyID \in KeyIDRecords /\ NoContext \in ContextRecords
  BY AnyKeyIsKey DEF KeyIDRecords, ContextRecords, NoKeyID, NoContext, NULL, KeyStates

\* What the assignment to one field of a slot changes and leaves.
LEMMA TimeAssigned ==
  ASSUME Types, NEW i \in Slots, NEW t \in Nat,
         cachedKeyIDs' = [cachedKeyIDs EXCEPT ![i].creationTime = t]
  PROVE  /\ cachedKeyIDs' \in [Slots -> KeyIDRecords]
         /\ \A j \in Slots : cachedKeyIDs'[j].data = cachedKeyIDs[j].data
         /\ cachedKeyIDs'[i].creationTime = t
         /\ \A j \in Slots \ {i} : cachedKeyIDs'[j] = cachedKeyIDs[j]
  BY DEF Types, KeyIDRecords

LEMMA FailureAssigned ==
  ASSUME Types, NEW i \in Slots,
         cachedKeyIDs' = [cachedKeyIDs EXCEPT ![i].isFailedKeyId = TRUE]
  PROVE  /\ cachedKeyIDs' \in [Slots -> KeyIDRecords]
         /\ \A j \in Slots : /\ cachedKeyIDs'[j].data = cachedKeyIDs[j].data
                             /\ cachedKeyIDs'[j].creationTime = cachedKeyIDs[j].creationTime
  BY DEF Types, KeyIDRecords

LEMMA StateAssigned ==
  ASSUME Types, NEW i \in Slots, NEW state \in KeyStates,
         drmSessionContexts' = [drmSessionContexts EXCEPT ![i].state = state]
  PROVE  /\ drmSessionContexts' \in [Slots -> ContextRecords]
         /\ \A j \in Slots : /\ drmSessionContexts'[j].data = drmSessionContexts[j].data
                             /\ drmSessionContexts'[j].session = drmSessionContexts[j].session
  BY DEF Types, ContextRecords

LEMMA InitIInv == DrmInit => IInv
<1> SUFFICES ASSUME DrmInit PROVE IInv
  OBVIOUS
<1> USE DEF DrmInit
<1>1. Types
  BY SlotNumbers, AnyKeyIsKey, EmptyRecords DEF Types, NULL, Pcs
<1>2. Locked
  BY DEF Locked, Inside
<1>3. SlotsInOrder
  BY DEF SlotsInOrder, NoKeyID
<1>4. Served
  BY DEF Served, ServedAt, HasSlot, HasContext, HasResult
<1> QED
  BY <1>1, <1>2, <1>3, <1>4 DEF IInv

\* The two places where a call writes one field of its slot.
LEMMA GivesUpWrites ==
  ASSUME Types, NEW s \in Streams, NEW from, GivesUp(s, from)
  PROVE  /\ Returns(s, from, NULL)
         /\ cachedKeyIDs' \in [Slots -> KeyIDRecords]
         /\ \A j \in Slots : /\ cachedKeyIDs'[j].data = cachedKeyIDs[j].data
                             /\ cachedKeyIDs'[j].creationTime = cachedKeyIDs[j].creationTime
<1>1. selectedSlot[s] \in Slots
  BY DEF Types
<1> QED
  BY <1>1, FailureAssigned DEF GivesUp

LEMMA SetStateWrites ==
  ASSUME Types, NEW s \in Streams, NEW state \in KeyStates, SetState(s, state)
  PROVE  /\ drmSessionContexts' \in [Slots -> ContextRecords]
         /\ \A j \in Slots : /\ drmSessionContexts'[j].data = drmSessionContexts[j].data
                             /\ drmSessionContexts'[j].session = drmSessionContexts[j].session
<1>1. selectedSlot[s] \in Slots
  BY DEF Types
<1> QED
  BY <1>1, StateAssigned DEF SetState

LEMMA RenewalWrites ==
  ASSUME Types, NEW i \in Slots, NEW from, NEW to \in KeyStates, RenewalGoes(i, from, to)
  PROVE  /\ drmSessionContexts' \in [Slots -> ContextRecords]
         /\ \A j \in Slots : /\ drmSessionContexts'[j].data = drmSessionContexts[j].data
                             /\ drmSessionContexts'[j].session = drmSessionContexts[j].session
         /\ UNCHANGED <<cachedKeyIDs, lockedBy, pc, callVars, result, requests, created>>
  BY StateAssigned DEF RenewalGoes

-----------------------------------------------------------------------------
\* What a step of a call does to the slots and to the rest.
LEMMA ProceedsTypes ==
  ASSUME Types, NEW s \in Streams, Proceeds(s)
  PROVE  Types'
<1> USE SlotNumbers DEF Types
<1>0. /\ selectedSlot[s] \in Slots /\ keyId[s] \in Keys
      /\ drmSessionContexts[selectedSlot[s]].session \in Nat
  BY DEF ContextRecords
<1>1. CASE Lock(s)
  BY <1>1 DEF Lock, Goes, Returns, callVars, Pcs, NULL
<1>2. CASE SelectCached(s)
  <2> PICK i \in Slots : SelectCached(s)!(i)
    BY <1>2 DEF SelectCached
  <2>1. CASE cachedKeyIDs[i].isFailedKeyId
    BY <2>1 DEF Goes, Returns, Pcs, NULL
  <2>2. CASE ~cachedKeyIDs[i].isFailedKeyId
    <3>1. cachedKeyIDs' \in [Slots -> KeyIDRecords]
      BY <2>2, TimeAssigned
    <3> QED
      BY <2>2, <3>1 DEF Goes, Pcs
  <2> QED
    BY <2>1, <2>2
<1>3. CASE SelectOldest(s)
  <2> PICK i \in Slots : SelectOldest(s)!(i)
    BY <1>3 DEF SelectOldest
  <2>1. [data |-> KeysOf[keyId[s]], creationTime |-> requests, isFailedKeyId |-> FALSE]
          \in KeyIDRecords
    BY <1>0, KeysOfKeys DEF KeyIDRecords
  <2> QED
    BY <2>1 DEF Goes, Pcs
<1>4. CASE UseSession(s)
  <2>1. CASE GivesUp(s, "use")
    <3>1. /\ Returns(s, "use", NULL)
          /\ cachedKeyIDs' \in [Slots -> KeyIDRecords]
          /\ \A j \in Slots : /\ cachedKeyIDs'[j].data = cachedKeyIDs[j].data
                              /\ cachedKeyIDs'[j].creationTime = cachedKeyIDs[j].creationTime
      BY <2>1, GivesUpWrites
    <3>2. UNCHANGED <<drmSessionContexts, lockedBy, callVars, requests, created>>
      BY <1>4 DEF UseSession
    <3> QED
      BY <3>1, <3>2 DEF Goes, Returns, callVars, Pcs, NULL
  <2>2. CASE ~GivesUp(s, "use")
    BY <1>0, <1>4, <2>2 DEF UseSession, Goes, Returns, Context, callVars, Pcs
  <2> QED
    BY <2>1, <2>2
<1>5. CASE WaitForReady(s)
  <2>1. CASE GivesUp(s, "waitReady")
    BY <1>5, <2>1, GivesUpWrites DEF WaitForReady, Goes, Returns, callVars, Pcs, NULL
  <2>2. CASE ~GivesUp(s, "waitReady")
    BY <1>0, <1>5, <2>2 DEF WaitForReady, Goes, Returns, Context, callVars, Pcs
  <2> QED
    BY <2>1, <2>2
<1>6. CASE NewSession(s)
  <2>1. [data |-> keyId[s], session |-> created', state |-> "INIT"] \in ContextRecords
    BY <1>0, <1>6 DEF NewSession, ContextRecords, KeyStates
  <2> QED
    BY <1>6, <2>1 DEF NewSession, Goes, callVars, Pcs
<1>7. CASE InitializeDrmSession(s)
  <2>1. CASE GivesUp(s, "initialize") /\ SetState(s, "ERROR")
    <3>1. drmSessionContexts' \in [Slots -> ContextRecords]
      BY <2>1, SetStateWrites DEF KeyStates
    <3> QED
      BY <1>7, <2>1, <3>1, GivesUpWrites
         DEF InitializeDrmSession, Goes, Returns, callVars, Pcs, NULL
  <2>2. CASE Goes(s, "initialize", "acquire") /\ UNCHANGED <<cachedKeyIDs, drmSessionContexts, result>>
    BY <1>7, <2>2 DEF InitializeDrmSession, Goes, callVars, Pcs
  <2> QED
    BY <1>7, <2>1, <2>2 DEF InitializeDrmSession
<1>8. CASE AcquireLicense(s)
  <2>1. drmSessionContexts' \in [Slots -> ContextRecords]
    BY <1>8, SetStateWrites DEF AcquireLicense, KeyStates
  <2>2. CASE GivesUp(s, "acquire")
    BY <1>8, <2>1, <2>2, GivesUpWrites DEF AcquireLicense, Goes, Returns, callVars, Pcs, NULL
  <2>3. CASE ~GivesUp(s, "acquire")
    BY <1>0, <1>8, <2>1, <2>3 DEF AcquireLicense, Goes, Returns, Context, callVars, Pcs
  <2> QED
    BY <2>2, <2>3
<1> QED
  BY <1>1, <1>2, <1>3, <1>4, <1>5, <1>6, <1>7, <1>8 DEF Proceeds

LEMMA ClearsTypes ==
  ASSUME Types, Clears
  PROVE  Types'
<1> USE EmptyRecords DEF Types
<1>1. CASE ClearFailedKeyIds
  BY <1>1 DEF ClearFailedKeyIds, callVars
<1>2. ASSUME NEW force \in BOOLEAN, ClearDrmSession(force) PROVE Types'
  <2>1. \A i \in Slots : [NoContext EXCEPT !.data = drmSessionContexts[i].data]
                           \in ContextRecords
    BY DEF ContextRecords
  <2> QED
    BY <1>2, <2>1 DEF ClearDrmSession, callVars
<1>3. CASE ClearSessionData
  BY <1>3 DEF ClearSessionData, callVars
<1> QED
  BY <1>1, <1>2, <1>3 DEF Clears

LEMMA StepTypes == Types /\ [DrmNext]_drmVars => Types'
<1> SUFFICES ASSUME Types, [DrmNext]_drmVars PROVE Types'
  OBVIOUS
<1>1. ASSUME NEW s \in Streams, NEW k \in Keys, Call(s, k) PROVE Types'
  BY <1>1 DEF Call, Goes, Pcs, Types
<1>2. ASSUME NEW s \in Streams, Return(s) PROVE Types'
  BY <1>2, SlotNumbers, AnyKeyIsKey DEF Return, Goes, Pcs, NULL, Types
<1>3. ASSUME NEW i \in Slots, GenerateKeyRequest(i) \/ ProcessDRMKey(i) PROVE Types'
  <2> PICK from, to \in KeyStates : RenewalGoes(i, from, to)
    BY <1>3 DEF GenerateKeyRequest, ProcessDRMKey, KeyStates
  <2> QED
    BY RenewalWrites DEF callVars, Types
<1>4. CASE UNCHANGED drmVars
  BY <1>4 DEF drmVars, callVars, Types
<1> QED
  BY <1>1, <1>2, <1>3, <1>4, ProceedsTypes, ClearsTypes DEF DrmNext

-----------------------------------------------------------------------------
\* Who moves in a step of a call, and that nobody else is inside.
LEMMA ProceedsMoves ==
  ASSUME Types, NEW s \in Streams, Proceeds(s), ~Lock(s)
  PROVE  /\ Inside(s) /\ pc[s] # "return"
         /\ \E to \in Pcs \ {"idle", "wantLock"} : pc' = [pc EXCEPT ![s] = to]
         /\ UNCHANGED <<lockedBy, keyId, requests>>
<1> USE DEF Inside, Goes, Returns, Pcs, callVars
<1>1. CASE SelectCached(s) \/ SelectOldest(s)
  BY <1>1 DEF SelectCached, SelectOldest
<1>2. CASE UseSession(s) \/ WaitForReady(s)
  BY <1>2 DEF UseSession, WaitForReady, GivesUp
<1>3. CASE NewSession(s) \/ InitializeDrmSession(s) \/ AcquireLicense(s)
  BY <1>3 DEF NewSession, InitializeDrmSession, AcquireLicense, GivesUp
<1> QED
  BY <1>1, <1>2, <1>3 DEF Proceeds

LEMMA Alone ==
  ASSUME Locked, NEW s \in Streams, Inside(s), NEW t \in Streams \ {s}
  PROVE  ~Inside(t)
  BY DEF Locked

LEMMA StepLocked == IInv /\ [DrmNext]_drmVars => Locked'
<1> SUFFICES ASSUME IInv, [DrmNext]_drmVars PROVE Locked'
  OBVIOUS
<1> USE DEF IInv
<1>1. ASSUME NEW s \in Streams, NEW k \in Keys, Call(s, k) PROVE Locked'
  BY <1>1 DEF Call, Goes, Locked, Inside, Types
<1>2. ASSUME NEW s \in Streams, Lock(s) PROVE Locked'
  BY <1>2 DEF Lock, Goes, Returns, Locked, Inside, Types
<1>3. ASSUME NEW s \in Streams, Proceeds(s), ~Lock(s) PROVE Locked'
  BY <1>3, ProceedsMoves DEF Locked, Inside, Types
<1>4. ASSUME NEW s \in Streams, Return(s) PROVE Locked'
  BY <1>4, Alone DEF Return, Goes, Locked, Inside, Types
<1>5. ASSUME NEW i \in Slots, GenerateKeyRequest(i) \/ ProcessDRMKey(i) PROVE Locked'
  BY <1>5 DEF GenerateKeyRequest, ProcessDRMKey, RenewalGoes, Locked, Inside
<1>6. CASE Clears
  BY <1>6 DEF Clears, ClearFailedKeyIds, ClearDrmSession, ClearSessionData, Locked, Inside
<1>7. CASE UNCHANGED drmVars
  BY <1>7 DEF drmVars, Locked, Inside
<1> QED
  BY <1>1, <1>2, <1>3, <1>4, <1>5, <1>6, <1>7 DEF DrmNext

-----------------------------------------------------------------------------
\* A step that leaves key ids and times alone leaves the slots in order.
LEMMA SlotsKept ==
  ASSUME SlotsInOrder,
         \A j \in Slots : /\ cachedKeyIDs'[j].data = cachedKeyIDs[j].data
                          /\ cachedKeyIDs'[j].creationTime = cachedKeyIDs[j].creationTime
  PROVE  SlotsInOrder'
  BY DEF SlotsInOrder, Slots

LEMMA StepSlots == IInv /\ [DrmNext]_drmVars => SlotsInOrder'
<1> SUFFICES ASSUME IInv, [DrmNext]_drmVars PROVE SlotsInOrder'
  OBVIOUS
<1> USE DEF IInv
<1>1. CASE UNCHANGED cachedKeyIDs
  BY <1>1, SlotsKept
<1>2. ASSUME NEW s \in Streams, NEW from, GivesUp(s, from) PROVE SlotsInOrder'
  BY <1>2, GivesUpWrites, SlotsKept
<1>3. ASSUME NEW s \in Streams, SelectCached(s) PROVE SlotsInOrder'
  <2> PICK i \in Slots : SelectCached(s)!(i)
    BY <1>3 DEF SelectCached
  <2>1. CASE ~cachedKeyIDs[i].isFailedKeyId
    <3>1. requests \in Nat /\ requests > 0
      BY <2>1 DEF Types, Locked, Goes
    <3>2. cachedKeyIDs[i].data # {}
      OBVIOUS
    <3> QED
      BY <2>1, <3>1, <3>2, TimeAssigned DEF SlotsInOrder, Slots
  <2> QED
    BY <1>1, <2>1
<1>4. ASSUME NEW s \in Streams, SelectOldest(s) PROVE SlotsInOrder'
  <2> PICK i \in Slots : SelectOldest(s)!(i)
    BY <1>4 DEF SelectOldest
  <2>1. requests \in Nat /\ requests > 0 /\ keyId[s] \in Keys
    BY DEF Types, Locked, Goes
  <2>2. /\ cachedKeyIDs'[i].data = KeysOf[keyId[s]]
        /\ cachedKeyIDs'[i].creationTime = requests
        /\ \A j \in Slots \ {i} : cachedKeyIDs'[j] = cachedKeyIDs[j]
    BY DEF Types
  <2> QED
    BY <2>1, <2>2, KeysOfKeys DEF SlotsInOrder, Slots
<1>5. CASE ClearFailedKeyIds
  <2>1. \A i \in Slots : cachedKeyIDs'[i] \in {NoKeyID, cachedKeyIDs[i]}
    BY <1>5 DEF ClearFailedKeyIds
  <2> QED
    BY <2>1 DEF SlotsInOrder, Slots, NoKeyID
<1>6. CASE ClearSessionData
  BY <1>6 DEF ClearSessionData, SlotsInOrder, Slots, NoKeyID
<1>7. ASSUME NEW s \in Streams, Proceeds(s) PROVE SlotsInOrder'
  BY <1>1, <1>2, <1>3, <1>4, <1>7
     DEF Proceeds, Lock, UseSession, WaitForReady, NewSession, InitializeDrmSession,
         AcquireLicense
<1>8. ASSUME NEW i \in Slots, GenerateKeyRequest(i) \/ ProcessDRMKey(i) PROVE SlotsInOrder'
  BY <1>1, <1>8 DEF GenerateKeyRequest, ProcessDRMKey, RenewalGoes
<1> QED
  BY <1>1, <1>5, <1>6, <1>7, <1>8 DEF DrmNext, Call, Return, Clears, ClearDrmSession, drmVars

-----------------------------------------------------------------------------
\* Nothing has to be served to a call that is not past the lock.
LEMMA OutsideServed ==
  ASSUME NEW s \in Streams, ~Inside(s)
  PROVE  ServedAt(s)
  BY DEF Inside, ServedAt, HasSlot, HasContext, HasResult

\* Only the call that moves needs a look.
LEMMA OneMoves ==
  ASSUME IInv, NEW s \in Streams, Inside(s) \/ lockedBy = {},
         NEW to, pc' = [pc EXCEPT ![s] = to], ServedAt(s)'
  PROVE  Served'
<1> SUFFICES ASSUME NEW t \in Streams, t # s PROVE ServedAt(t)'
  BY DEF Served
<1>1. ~Inside(t)
  BY DEF IInv, Locked, Inside
<1>2. ~Inside(t)'
  BY <1>1 DEF Inside, IInv, Types
<1> QED
  BY <1>2, OutsideServed DEF ServedAt, Inside, HasSlot, HasContext, HasResult

LEMMA SelectServes ==
  ASSUME IInv, NEW s \in Streams, SelectCached(s) \/ SelectOldest(s)
  PROVE  ServedAt(s)'
<1> USE DEF IInv, Types
<1>0. keyId[s] \in Keys
  OBVIOUS
<1>1. CASE SelectCached(s)
  <2> PICK i \in Slots : SelectCached(s)!(i)
    BY <1>1 DEF SelectCached
  <2>1. CASE cachedKeyIDs[i].isFailedKeyId
    BY <2>1 DEF Returns, Goes, ServedAt, HasSlot, HasContext, HasResult
  <2>2. CASE ~cachedKeyIDs[i].isFailedKeyId
    <3>1. cachedKeyIDs'[i].data = cachedKeyIDs[i].data
      BY <2>2, TimeAssigned
    <3>2. PICK k \in Keys : cachedKeyIDs[i].data = KeysOf[k]
      BY DEF SlotsInOrder
    <3>3. cachedKeyIDs[i].data = KeysOf[keyId[s]]
      BY <3>2, KeysAssumption
    <3> QED
      BY <2>2, <3>1, <3>3 DEF Goes, ServedAt, HasSlot, HasContext, HasResult, Cached
  <2> QED
    BY <2>1, <2>2
<1>2. CASE SelectOldest(s)
  <2> PICK i \in Slots : SelectOldest(s)!(i)
    BY <1>2 DEF SelectOldest
  <2> QED
    BY DEF Goes, ServedAt, HasSlot, HasContext, HasResult, Cached
<1> QED
  BY <1>1, <1>2

LEMMA GivesUpServes ==
  ASSUME IInv, NEW s \in Streams, NEW from, GivesUp(s, from)
  PROVE  ServedAt(s)'
  BY DEF IInv, Types, GivesUp, Returns, Goes, ServedAt, HasSlot, HasContext, HasResult

LEMMA ProceedsServes ==
  ASSUME IInv, NEW s \in Streams, Proceeds(s), ~Lock(s)
  PROVE  ServedAt(s)'
<1>0. ServedAt(s) /\ selectedSlot[s] \in Slots /\ s \in DOMAIN pc /\ s \in DOMAIN result
  BY DEF IInv, Types, Served
<1> USE DEF HasSlot, HasContext, HasResult, Cached, Context
<1>1. CASE UseSession(s) /\ ~GivesUp(s, "use")
  BY <1>0, <1>1 DEF UseSession, HasSession, Goes, Returns, callVars, ServedAt
<1>2. CASE WaitForReady(s) /\ ~GivesUp(s, "waitReady")
  BY <1>0, <1>2 DEF WaitForReady, Goes, Returns, callVars, ServedAt
<1>3. CASE NewSession(s)
  <2>1. drmSessionContexts'[selectedSlot[s]].data = keyId[s]
    BY <1>0, <1>3 DEF NewSession, IInv, Types
  <2> QED
    BY <1>0, <1>3, <2>1, KeysOfKeys DEF NewSession, Goes, callVars, ServedAt, IInv, Types
<1>4. CASE InitializeDrmSession(s) /\ ~GivesUp(s, "initialize")
  BY <1>0, <1>4 DEF InitializeDrmSession, Goes, callVars, ServedAt
<1>5. CASE AcquireLicense(s) /\ ~GivesUp(s, "acquire")
  <2>1. \A j \in Slots : /\ drmSessionContexts'[j].data = drmSessionContexts[j].data
                         /\ drmSessionContexts'[j].session = drmSessionContexts[j].session
    BY <1>5, SetStateWrites DEF AcquireLicense, KeyStates, IInv
  <2> QED
    BY <1>0, <1>5, <2>1 DEF AcquireLicense, Goes, Returns, callVars, ServedAt
<1> QED
  BY <1>1, <1>2, <1>3, <1>4, <1>5, SelectServes, GivesUpServes DEF Proceeds

LEMMA StepServed == IInv /\ [DrmNext]_drmVars => Served'
<1> SUFFICES ASSUME IInv, [DrmNext]_drmVars PROVE Served'
  OBVIOUS
<1> USE DEF HasSlot, HasContext, HasResult, Cached, Context
<1>1. ASSUME NEW s \in Streams, NEW k \in Keys, Call(s, k) PROVE Served'
  <2>1. \A t \in Streams \ {s} : pc'[t] = pc[t] /\ keyId'[t] = keyId[t]
    BY <1>1 DEF Call, Goes, IInv, Types
  <2>2. pc'[s] = "wantLock"
    BY <1>1 DEF Call, Goes, IInv, Types
  <2> QED
    BY <1>1, <2>1, <2>2 DEF Call, IInv, Served, ServedAt
<1>2. ASSUME NEW s \in Streams, Lock(s) PROVE Served'
  <2>1. ServedAt(s)'
    BY <1>2 DEF Lock, Goes, Returns, ServedAt, IInv, Types
  <2> QED
    BY <1>2, <2>1, OneMoves DEF Lock, Goes, Returns
<1>3. ASSUME NEW s \in Streams, Proceeds(s), ~Lock(s) PROVE Served'
  BY <1>3, ProceedsServes, ProceedsMoves, OneMoves DEF IInv
<1>4. ASSUME NEW s \in Streams, Return(s) PROVE Served'
  <2>1. ServedAt(s)' /\ Inside(s)
    BY <1>4 DEF Return, Goes, Inside, ServedAt, IInv, Types
  <2> QED
    BY <1>4, <2>1, OneMoves DEF Return, Goes
<1>5. ASSUME NEW i \in Slots, GenerateKeyRequest(i) \/ ProcessDRMKey(i) PROVE Served'
  <2> PICK from, to \in KeyStates : RenewalGoes(i, from, to)
    BY <1>5 DEF GenerateKeyRequest, ProcessDRMKey, KeyStates
  <2> QED
    BY RenewalWrites DEF callVars, IInv, Types, Served, ServedAt
<1>6. CASE Clears
  <2>1. Quiet /\ UNCHANGED pc
    BY <1>6 DEF Clears, ClearFailedKeyIds, ClearDrmSession, ClearSessionData
  <2> QED
    BY <2>1 DEF Quiet, Served, ServedAt
<1>7. CASE UNCHANGED drmVars
  BY <1>7 DEF drmVars, callVars, IInv, Served, ServedAt
<1> QED
  BY <1>1, <1>2, <1>3, <1>4, <1>5, <1>6, <1>7 DEF DrmNext

-----------------------------------------------------------------------------
LEMMA Invariance == DrmSpec => []IInv
<1>1. IInv /\ [DrmNext]_drmVars => IInv'
  BY StepTypes, StepLocked, StepSlots, StepServed DEF IInv
<1> QED
  BY <1>1, InitIInv, PTL DEF DrmSpec

\* The session createDrmSession returns is the one in the slot it selected, and
\* was made for a key id of the PSSH asked for.
THEOREM ReturnedSessionIsForKey == DrmSpec => []SessionIsForKey
<1>1. IInv => SessionIsForKey
  <2> SUFFICES ASSUME IInv, NEW s \in Streams, HasResult(s)
               PROVE  /\ Context(s).session = result[s]
                      /\ keyId[s] \in KeysOf[Context(s).data]
    BY DEF SessionIsForKey, HasResult
  <2>1. keyId[s] \in Keys /\ Context(s).data \in KeysOf[keyId[s]]
    BY DEF IInv, Types, Served, ServedAt
  <2> QED
    BY <2>1, KeysAssumption DEF IInv, Served, ServedAt
<1> QED
  BY <1>1, Invariance, PTL

\* SelectOldest of getDrmSession overwrites the key ids of a slot only when no
\* slot is free.
THEOREM TakesFreeSlotFirst == DrmSpec => FreeSlotFirst
<1> DEFINE Taken(i) == /\ cachedKeyIDs[i].data # {}
                       /\ cachedKeyIDs'[i].data \notin {cachedKeyIDs[i].data, {}}
<1>1. ASSUME IInv, DrmNext, NEW i \in Slots, Taken(i), NEW j \in Slots
      PROVE  cachedKeyIDs[j].data # {}
  <2>0. Types
    BY <1>1 DEF IInv
  <2>1. PICK s \in Streams : SelectOldest(s)
    <3>1. ~UNCHANGED cachedKeyIDs
      BY <1>1
    <3>2. \A s \in Streams, from \in Pcs : ~GivesUp(s, from)
      BY <1>1, <2>0, GivesUpWrites
    <3>3. \A s \in Streams : ~SelectCached(s)
      <4> SUFFICES ASSUME NEW s \in Streams, SelectCached(s) PROVE FALSE
        OBVIOUS
      <4> PICK k \in Slots : SelectCached(s)!(k)
        BY DEF SelectCached
      <4>1. requests \in Nat /\ ~cachedKeyIDs[k].isFailedKeyId
        BY <2>0, <3>1 DEF Types
      <4> QED
        BY <1>1, <2>0, <4>1, TimeAssigned
    <3>4. ~Clears
      BY <1>1, <3>1 DEF Clears, ClearFailedKeyIds, ClearDrmSession, ClearSessionData, NoKeyID
    <3>5. \A s \in Streams : Proceeds(s) => SelectOldest(s)
      BY <3>1, <3>2, <3>3
         DEF Proceeds, Lock, UseSession, WaitForReady, NewSession, InitializeDrmSession,
             AcquireLicense, Pcs
    <3> QED
      BY <1>1, <3>1, <3>4, <3>5
         DEF DrmNext, Call, Return, GenerateKeyRequest, ProcessDRMKey, RenewalGoes
  <2>2. PICK k \in Slots : SelectOldest(s)!(k)
    BY <2>1 DEF SelectOldest
  <2>3. k = i
    BY <1>1, <2>0, <2>2 DEF Types
  <2>4. \A l \in Slots : cachedKeyIDs[l].creationTime \in Nat
    BY <2>0 DEF Types, KeyIDRecords
  <2> QED
    BY <1>1, <2>2, <2>3, <2>4 DEF IInv, SlotsInOrder
<1>2. IInv /\ [DrmNext]_drmVars =>
        [\A i, j \in Slots : Taken(i) => cachedKeyIDs[j].data # {}]_drmVars
  BY <1>1
<1> QED
  BY <1>2, Invariance, PTL DEF DrmSpec, FreeSlotFirst

-----------------------------------------------------------------------------
(* The decryptor elements.                                                 *)

DecTypes ==
  /\ pc \in [Streams -> Pcs]
  /\ element \in [Streams -> {"ready", "paused"}]
  /\ canWait \in [Streams -> BOOLEAN]
  /\ streamReceived \in [Streams -> BOOLEAN]
  /\ streaming \in [Streams -> {"out", "waiting", "woken"}]
  /\ answered \in [Streams -> BOOLEAN]

\* An element whose event is being answered stays as it was when it came: paused,
\* with no buffer inside.  Once one was answered no buffer has to wait, until the
\* element is paused anew.
SettledAt(s) ==
  /\ pc[s] # "idle" => streaming[s] = "out" /\ element[s] = "paused"
  /\ streaming[s] # "out" => ~answered[s]
  /\ streaming[s] = "waiting" => element[s] = "paused"
  /\ element[s] = "ready" => ~answered[s]
  /\ answered[s] => ~canWait[s] \/ streamReceived[s]

Settled == DecTypes /\ \A s \in Streams : SettledAt(s)

LEMMA InitSettled == Init => Settled
  BY DEF Init, DrmInit, Settled, DecTypes, SettledAt, Pcs

\* What the elements do is a step of the manager, or nothing to it.
LEMMA ManagerSteps == [Next]_vars => [DrmNext]_drmVars
<1> SUFFICES ASSUME [Next]_vars PROVE DrmNext \/ UNCHANGED drmVars
  OBVIOUS
<1>1. CASE Manager
  BY <1>1 DEF Manager, DrmNext
<1>2. ASSUME NEW s \in Streams, Decryptor(s) PROVE DrmNext \/ UNCHANGED drmVars
  BY <1>2 DEF Decryptor, ReadyToPaused, PausedToReady, Replace, ProtectionEvent, Answer,
              Buffer, SpuriousWake, WaitEnds, DrmNext
<1>3. CASE UNCHANGED vars
  BY <1>3 DEF vars
<1> QED
  BY <1>1, <1>2, <1>3 DEF Next

\* The manager moves only a call that is under way.
LEMMA ManagerMoves ==
  ASSUME DecTypes, Manager
  PROVE  /\ pc' \in [Streams -> Pcs] /\ UNCHANGED decVars
         /\ \A s \in Streams : pc'[s] # "idle" => pc[s] # "idle"
<1>1. ASSUME NEW s \in Streams, Proceeds(s)
      PROVE  pc[s] # "idle" /\ \E to \in Pcs : pc' = [pc EXCEPT ![s] = to]
  BY <1>1 DEF Proceeds, Lock, SelectCached, SelectOldest, UseSession, WaitForReady, NewSession,
              InitializeDrmSession, AcquireLicense, GivesUp, Returns, Goes, Pcs
<1>2. ASSUME NEW i \in Slots, GenerateKeyRequest(i) \/ ProcessDRMKey(i) PROVE UNCHANGED pc
  BY <1>2 DEF GenerateKeyRequest, ProcessDRMKey, RenewalGoes
<1>3. ASSUME Clears PROVE UNCHANGED pc
  BY <1>3 DEF Clears, ClearFailedKeyIds, ClearDrmSession, ClearSessionData
<1>4. \/ UNCHANGED pc
      \/ \E s \in Streams, to \in Pcs : pc[s] # "idle" /\ pc' = [pc EXCEPT ![s] = to]
  BY <1>1, <1>2, <1>3 DEF Manager
<1> QED
  BY <1>4 DEF Manager, DecTypes

LEMMA DecryptorSettles ==
  ASSUME Settled, NEW s \in Streams, Decryptor(s)
  PROVE  Settled'
<1> USE DEF Settled, DecTypes, SettledAt, Signal, Becomes, Unlocked, drmVars, decVars
<1>1. CASE ReadyToPaused(s)
  BY <1>1 DEF ReadyToPaused
<1>2. CASE PausedToReady(s)
  BY <1>2 DEF PausedToReady
<1>3. CASE Replace(s)
  BY <1>3 DEF Replace
<1>4. ASSUME NEW k \in Keys, ProtectionEvent(s, k) PROVE Settled'
  BY <1>4 DEF ProtectionEvent, Call, Goes, Pcs
<1>5. CASE Answer(s)
  BY <1>5 DEF Answer, Return, Goes, Pcs
<1>6. CASE Buffer(s)
  BY <1>6 DEF Buffer
<1>7. CASE SpuriousWake(s)
  BY <1>7 DEF SpuriousWake
<1>8. CASE WaitEnds(s)
  BY <1>8 DEF WaitEnds
<1> QED
  BY <1>1, <1>2, <1>3, <1>4, <1>5, <1>6, <1>7, <1>8 DEF Decryptor

LEMMA SettledInvariance == Spec => []Settled
<1>1. Settled /\ [Next]_vars => Settled'
  <2> SUFFICES ASSUME Settled, [Next]_vars PROVE Settled'
    OBVIOUS
  <2>1. CASE Manager
    BY <2>1, ManagerMoves DEF Settled, DecTypes, SettledAt, decVars
  <2>2. CASE UNCHANGED vars
    BY <2>2 DEF vars, drmVars, decVars, Settled, DecTypes, SettledAt
  <2> QED
    BY <2>1, <2>2, DecryptorSettles DEF Next
<1> QED
  BY <1>1, InitSettled, PTL DEF Spec

\* Once createDrmSession has answered, no buffer waits for the key, and none waits
\* in an element that is not paused: gstcdmidecryptor.cpp:888-890.
THEOREM NobodyWaitsInVain == Spec => []NoVainWait
<1>1. Settled => NoVainWait
  BY DEF Settled, SettledAt, NoVainWait
<1> QED
  BY <1>1, SettledInvariance, PTL

\* The elements call the manager as its specification allows, whatever events and
\* buffers come: what is proved of it holds of the whole.
THEOREM DecryptorsKeepDrmSpec == Spec => DrmSpec
<1>1. Init => DrmInit
  BY DEF Init
<1> QED
  BY <1>1, ManagerSteps, PTL DEF Spec, DrmSpec

\* So the session an element takes over from createDrmSession is for the key of
\* its event.
THEOREM ElementsGetSessionForKey == Spec => []SessionIsForKey
  BY DecryptorsKeepDrmSpec, ReturnedSessionIsForKey, PTL
=============================================================================
