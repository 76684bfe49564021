-------------------------- MODULE DrmSessionManager --------------------------
(***************************************************************************)
(* drm/DrmSessionManager.cpp: the slots that hold the DRM sessions, and     *)
(* createDrmSession, which finds or makes the session for a key id.  There  *)
(* is one slot per allowed session; a slot remembers the key ids of the     *)
(* PSSH it serves, when it was last asked for and whether that failed, and  *)
(* holds at most one session object.  createDrmSession runs under           *)
(* mDrmSessionLock from its first test to its return, licence request       *)
(* included; sessions change state meanwhile (licence renewal).             *)
(*                                                                         *)
(* A region of cachedKeyMutex or sessionMutex is one action.  The           *)
(* application clears sessions only when no request is under way, and turns *)
(* the manager off and on (setSessionMgrState) at any time.  The key system *)
(* of a session is a function of its key, so line 639 is never true;        *)
(* nothing is ever primary, as no caller passes isPrimarySession.  A fake   *)
(* tune (lines 482-491) ends like a failed licence request.                 *)
(***************************************************************************)
EXTENDS Integers, FiniteSets

CONSTANTS
  Streams,         \* callers of createDrmSession
  Keys,            \* key ids
  KeysOf,          \* the key ids in the PSSH that a key id comes from
  MaxDRMSessions,  \* mMaxDRMSessions
  MaxRequests      \* bound: calls of createDrmSession in one behaviour

ASSUME KeysAssumption ==
  /\ Keys # {}
  /\ KeysOf \in [Keys -> SUBSET Keys]
  /\ \A k \in Keys : k \in KeysOf[k] /\ \A l \in KeysOf[k] : KeysOf[l] = KeysOf[k]
ASSUME BoundsAssumption == MaxDRMSessions \in Nat \ {0} /\ MaxRequests \in Nat

VARIABLES
  cachedKeyIDs,        \* per slot: key ids, last use, failed
  drmSessionContexts,  \* per slot: the session object, its key id and state
  lockedBy,            \* the streams that hold mDrmSessionLock: none or one
  pc,                  \* where the createDrmSession of each stream is
  keyId,               \* the key id it was called for
  selectedSlot,
  result,              \* the session it returns
  requests,            \* how many calls there were; also the clock
  created              \* how many session objects were made

callVars == <<keyId, selectedSlot>>
drmVars == <<cachedKeyIDs, drmSessionContexts, lockedBy, pc, callVars,
             result, requests, created>>

Slots == 0..(MaxDRMSessions - 1)
NULL == 0
KeyStates == {"INIT", "PENDING", "READY", "ERROR"}
Pcs == {"idle", "wantLock", "select", "use", "waitReady", "initialize", "acquire", "return"}

NoKeyID == [data |-> {}, creationTime |-> 0, isFailedKeyId |-> FALSE]
AnyKey == CHOOSE k \in Keys : TRUE   \* stands for an empty vector, never read
NoContext == [data |-> AnyKey, session |-> NULL, state |-> "INIT"]

DrmTypeOK ==
  /\ cachedKeyIDs \in [Slots -> [data : SUBSET Keys, creationTime : 0..requests,
                                 isFailedKeyId : BOOLEAN]]
  /\ drmSessionContexts \in [Slots -> [data : Keys, session : 0..created,
                                       state : KeyStates]]
  /\ lockedBy \in SUBSET Streams
  /\ pc \in [Streams -> Pcs]
  /\ keyId \in [Streams -> Keys]
  /\ selectedSlot \in [Streams -> Slots]
  /\ result \in [Streams -> 0..created]
  /\ requests \in 0..MaxRequests
  /\ created \in 0..requests

DrmInit ==
  /\ cachedKeyIDs = [i \in Slots |-> NoKeyID]
  /\ drmSessionContexts = [i \in Slots |-> NoContext]
  /\ lockedBy = {}
  /\ pc = [s \in Streams |-> "idle"]
  /\ keyId = [s \in Streams |-> AnyKey]
  /\ selectedSlot = [s \in Streams |-> 0]
  /\ result = [s \in Streams |-> NULL]
  /\ requests = 0
  /\ created = 0

Quiet == \A s \in Streams : pc[s] = "idle"
Goes(s, from, to) == pc[s] = from /\ pc' = [pc EXCEPT ![s] = to]
Returns(s, from, session) ==
  /\ Goes(s, from, "return")
  /\ result' = [result EXCEPT ![s] = session]

Context(s) == drmSessionContexts[selectedSlot[s]]
Cached(s) == cachedKeyIDs[selectedSlot[s]]
SetState(s, state) ==
  drmSessionContexts' = [drmSessionContexts EXCEPT ![selectedSlot[s]].state = state]

\* The slot is marked and nullptr returned.
GivesUp(s, from) ==
  /\ Returns(s, from, NULL)
  /\ cachedKeyIDs' = [cachedKeyIDs EXCEPT ![selectedSlot[s]].isFailedKeyId = TRUE]

-----------------------------------------------------------------------------
(* createDrmSession.                                                       *)

Call(s, k) ==
  /\ requests < MaxRequests
  /\ requests' = requests + 1
  /\ Goes(s, "idle", "wantLock")
  /\ keyId' = [keyId EXCEPT ![s] = k]
  /\ UNCHANGED <<cachedKeyIDs, drmSessionContexts, lockedBy,
                 selectedSlot, result, created>>

\* Lines 429-438.  The manager is active, or it is not.
Lock(s) ==
  /\ lockedBy = {}
  /\ lockedBy' = {s}
  /\ \/ Goes(s, "wantLock", "select") /\ UNCHANGED result
     \/ Returns(s, "wantLock", NULL)
  /\ UNCHANGED <<cachedKeyIDs, drmSessionContexts, callVars, requests,
                 created>>

\* Lines 553-631: the key id is cached.  The slot keeps what it holds and is
\* the one used last, unless it is marked failed.
SelectCached(s) ==
  \E i \in Slots :
    /\ keyId[s] \in cachedKeyIDs[i].data
    /\ \A j \in 0..(i - 1) : keyId[s] \notin cachedKeyIDs[j].data
    /\ IF cachedKeyIDs[i].isFailedKeyId
       THEN Returns(s, "select", NULL) /\ UNCHANGED <<cachedKeyIDs, selectedSlot>>
       ELSE /\ Goes(s, "select", "use") /\ UNCHANGED result
            /\ selectedSlot' = [selectedSlot EXCEPT ![s] = i]
            /\ cachedKeyIDs' = [cachedKeyIDs EXCEPT ![i].creationTime = requests]
    /\ UNCHANGED <<drmSessionContexts, lockedBy, keyId, requests, created>>

\* Lines 567-631: it is not; the slot used least recently is taken over, the
\* first of those if there are several.
SelectOldest(s) ==
  \E i \in Slots :
    /\ \A j \in Slots : keyId[s] \notin cachedKeyIDs[j].data
    /\ \A j \in Slots : /\ cachedKeyIDs[i].creationTime <= cachedKeyIDs[j].creationTime
                        /\ cachedKeyIDs[i].creationTime = cachedKeyIDs[j].creationTime
                             => i <= j
    /\ Goes(s, "select", "use")
    /\ selectedSlot' = [selectedSlot EXCEPT ![s] = i]
    /\ cachedKeyIDs' = [cachedKeyIDs EXCEPT ![i] =
         [data |-> KeysOf[keyId[s]], creationTime |-> requests, isFailedKeyId |-> FALSE]]
    /\ UNCHANGED <<drmSessionContexts, lockedBy, keyId, result, requests,
                   created>>

\* Faulty variant: any session in the slot will do.
HasSession_OfAnyKey(s) == Context(s).session # NULL

\* Line 643: the session in the slot is one for these key ids.
HasSession(s) == Context(s).session # NULL /\ Context(s).data \in Cached(s).data

\* Lines 643-686.
UseSession(s) ==
  /\ HasSession(s)
  /\ CASE Context(s).state = "READY" ->
            Returns(s, "use", Context(s).session) /\ UNCHANGED cachedKeyIDs
       [] Context(s).state = "INIT" ->
            Goes(s, "use", "initialize") /\ UNCHANGED <<cachedKeyIDs, result>>
       [] Context(s).state = "PENDING" ->
            Goes(s, "use", "waitReady") /\ UNCHANGED <<cachedKeyIDs, result>>
       [] OTHER -> GivesUp(s, "use")
  /\ UNCHANGED <<drmSessionContexts, lockedBy, callVars, requests, created>>

\* Line 667, waitForState: the session became ready, or the time is over.
WaitForReady(s) ==
  /\ \/ /\ Context(s).state = "READY"
        /\ Returns(s, "waitReady", Context(s).session)
        /\ UNCHANGED cachedKeyIDs
     \/ GivesUp(s, "waitReady")
  /\ UNCHANGED <<drmSessionContexts, lockedBy, callVars, requests, created>>

\* Lines 687-708: there is none, or one for other key ids, which is deleted.
NewSession(s) ==
  /\ ~HasSession(s)
  /\ Goes(s, "use", "initialize")
  /\ created' = created + 1
  /\ drmSessionContexts' = [drmSessionContexts EXCEPT ![selectedSlot[s]] =
       [data |-> keyId[s], session |-> created', state |-> "INIT"]]
  /\ UNCHANGED <<cachedKeyIDs, lockedBy, callVars, result, requests>>

\* initializeDrmSession and lines 470-480.
InitializeDrmSession(s) ==
  /\ \/ /\ Goes(s, "initialize", "acquire")
        /\ UNCHANGED <<cachedKeyIDs, drmSessionContexts, result>>
     \/ /\ SetState(s, "ERROR")
        /\ GivesUp(s, "initialize")
  /\ UNCHANGED <<lockedBy, callVars, requests, created>>

\* Lines 492-512: the application's AcquireLicenseCb.
AcquireLicense(s) ==
  /\ \/ /\ SetState(s, "READY")
        /\ Returns(s, "acquire", Context(s).session)
        /\ UNCHANGED cachedKeyIDs
     \/ /\ \E state \in {"INIT", "PENDING", "ERROR"} : SetState(s, state)
        /\ GivesUp(s, "acquire")
  /\ UNCHANGED <<lockedBy, callVars, requests, created>>

\* The locals of the call are gone with it.
Return(s) ==
  /\ Goes(s, "return", "idle")
  /\ lockedBy' = {}
  /\ keyId' = [keyId EXCEPT ![s] = AnyKey]
  /\ selectedSlot' = [selectedSlot EXCEPT ![s] = 0]
  /\ result' = [result EXCEPT ![s] = NULL]
  /\ UNCHANGED <<cachedKeyIDs, drmSessionContexts, requests, created>>

Proceeds(s) ==
  \/ Lock(s) \/ SelectCached(s) \/ SelectOldest(s) \/ UseSession(s) \/ WaitForReady(s)
  \/ NewSession(s) \/ InitializeDrmSession(s) \/ AcquireLicense(s)

-----------------------------------------------------------------------------
(* Licence renewal: the application asks the session for a new challenge    *)
(* (generateKeyRequest, which sets KEY_ERROR until it has one) and gives it *)
(* the answer (processDRMKey).                                              *)

RenewalGoes(i, from, to) ==
  /\ drmSessionContexts[i].session # NULL
  /\ drmSessionContexts[i].state = from
  /\ drmSessionContexts' = [drmSessionContexts EXCEPT ![i].state = to]
  /\ UNCHANGED <<cachedKeyIDs, lockedBy, pc, callVars, result, requests, created>>

GenerateKeyRequest(i) ==
  RenewalGoes(i, "READY", "ERROR") \/ RenewalGoes(i, "ERROR", "PENDING")

ProcessDRMKey(i) == \E to \in {"READY", "ERROR"} : RenewalGoes(i, "PENDING", to)

-----------------------------------------------------------------------------
(* The application.                                                        *)

ClearFailedKeyIds ==
  /\ Quiet
  /\ cachedKeyIDs' = [i \in Slots |->
       IF cachedKeyIDs[i].isFailedKeyId THEN NoKeyID ELSE cachedKeyIDs[i]]
  /\ UNCHANGED <<drmSessionContexts, lockedBy, pc, callVars, result,
                 requests, created>>

\* The key id of a deleted session stays in the slot.
ClearDrmSession(forceClearSession) ==
  /\ Quiet
  /\ drmSessionContexts' = [i \in Slots |->
       IF cachedKeyIDs[i].isFailedKeyId \/ forceClearSession
       THEN [NoContext EXCEPT !.data = drmSessionContexts[i].data]
       ELSE drmSessionContexts[i]]
  /\ UNCHANGED <<cachedKeyIDs, lockedBy, pc, callVars, result, requests,
                 created>>

\* Also UpdateMaxDRMSessions with another maximum, as far as the slots go.
ClearSessionData ==
  /\ Quiet
  /\ cachedKeyIDs' = [i \in Slots |-> NoKeyID]
  /\ drmSessionContexts' = [i \in Slots |-> NoContext]
  /\ UNCHANGED <<lockedBy, pc, callVars, result, requests, created>>

Clears ==
  \/ ClearFailedKeyIds \/ ClearSessionData
  \/ \E force \in BOOLEAN : ClearDrmSession(force)

DrmNext ==
  \/ \E s \in Streams : (\E k \in Keys : Call(s, k)) \/ Proceeds(s) \/ Return(s)
  \/ \E i \in Slots : GenerateKeyRequest(i) \/ ProcessDRMKey(i)
  \/ Clears

DrmSpec == DrmInit /\ [][DrmNext]_drmVars

-----------------------------------------------------------------------------
\* The session createDrmSession returns is the one in the slot it selected, and
\* was made for a key id of the same PSSH as the one asked for: the slot was
\* chosen by the cached key ids, the session by the key id kept beside it, and
\* clearFailedKeyIds and clearDrmSession change only one of the two.
SessionIsForKey ==
  \A s \in Streams :
    pc[s] = "return" /\ result[s] # NULL =>
      /\ Context(s).session = result[s]
      /\ keyId[s] \in KeysOf[Context(s).data]

\* A slot in use is taken over for other key ids only when no slot is free,
\* whatever failed or was cleared before.
FreeSlotFirst ==
  [][\A i, j \in Slots :
       /\ cachedKeyIDs[i].data # {}
       /\ cachedKeyIDs'[i].data \notin {cachedKeyIDs[i].data, {}}
       => cachedKeyIDs[j].data # {}]_drmVars
=============================================================================
