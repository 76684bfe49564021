----------------------------- MODULE OcdmSession -----------------------------
(***************************************************************************)
(* drm/ocdm: OCDMSessionAdapter, and the decryption of its two subclasses.  *)
(* A requester (createDrmSession, later the renewal of the licence) builds  *)
(* the session of the OCDM service, takes the challenge and gives the       *)
(* licence back; the service calls back from one thread, in order; a second *)
(* caller of createDrmSession waits for the state; a streaming thread       *)
(* decrypts; the application clears the context when no request is under    *)
(* way, and the adapter may then be built on again.                         *)
(*                                                                         *)
(* An Event is a Boolean: signalled, until a wait consumes it.  A wait of   *)
(* timeout 0 is not used.  The service is external, modelled from its       *)
(* callbacks.  A licence is for one key.                                    *)
(***************************************************************************)
EXTENDS Integers, Sequences

CONSTANTS
  MaxOcdmSessions,   \* bound: sessions that are built on the adapter
  MaxOcdmRequests,   \* bound: key requests
  MaxChanges     \* bound: status changes that the service makes by itself

ASSUME OcdmAssumption == {MaxOcdmSessions, MaxOcdmRequests, MaxChanges} \subseteq Nat

VARIABLES
  m_eKeyState, m_keyStatus, m_keyStateIndeterminate,
  m_pOpenCDMSession,     \* a session of the service, or NULL
  m_challengeReady, m_keyStatusReady, m_keyStatusWait,   \* Events
  decryptMutex,          \* who has it: "requester", "decryptor" or NOBODY
  requester,             \* "out"; "build"; "built"; "challenge"; "license"; "status"; "decide"
  waiter,                \* in waitForState: "out" or "wait"
  handle,                \* the session the streaming thread decrypts with, or OUT
  opened,                \* how many sessions the service has opened
  status,                \* external: of the key, for each of them
  told,                  \* external: the callbacks to come, then the one in progress
  callback,              \* keyUpdateOCDM after it read the session: what it read, or OUT
  requests, changes

ocdmVars == <<m_eKeyState, m_keyStatus, m_keyStateIndeterminate, m_pOpenCDMSession,
              m_challengeReady, m_keyStatusReady, m_keyStatusWait, decryptMutex,
              requester, waiter, handle, opened, status, told, callback,
              requests, changes>>
stateVars == <<m_eKeyState, m_keyStatus, m_keyStateIndeterminate>>
eventVars == <<m_challengeReady, m_keyStatusReady, m_keyStatusWait>>
serviceVars == <<opened, status, told, callback>>

NULL == 0
OUT == -1
NOBODY == "free"
OcdmSessions == 1..MaxOcdmSessions
Statuses == {"InternalError", "Usable", "OutputRestricted"}
KeyStates == {"INIT", "PENDING", "READY", "ERROR"}

OcdmTypeOK ==
  /\ m_eKeyState \in KeyStates /\ m_keyStatus \in Statuses
  /\ m_keyStateIndeterminate \in BOOLEAN
  /\ {m_pOpenCDMSession} \subseteq {NULL} \union OcdmSessions
  /\ {m_challengeReady, m_keyStatusReady, m_keyStatusWait} \subseteq BOOLEAN
  /\ decryptMutex \in {"requester", "decryptor", NOBODY}
  /\ requester \in {"out", "build", "built", "challenge", "license", "status", "decide"}
  /\ waiter \in {"out", "wait"}
  /\ {handle, callback} \subseteq {OUT, NULL} \union OcdmSessions
  /\ opened \in 0..MaxOcdmSessions /\ status \in [OcdmSessions -> Statuses]
  /\ told \in Seq({"challenge", "key", "keys"})
  /\ requests \in 0..MaxOcdmRequests /\ changes \in 0..MaxChanges

OcdmInit ==
  /\ m_eKeyState = "INIT" /\ m_keyStatus = "InternalError" /\ m_keyStateIndeterminate = FALSE
  /\ m_pOpenCDMSession = NULL
  /\ m_challengeReady = FALSE /\ m_keyStatusReady = FALSE /\ m_keyStatusWait = FALSE
  /\ decryptMutex = NOBODY
  /\ requester = "out" /\ waiter = "out" /\ handle = OUT
  /\ opened = 0 /\ status = [s \in OcdmSessions |-> "InternalError"]
  /\ told = <<>> /\ callback = OUT
  /\ requests = 0 /\ changes = 0

Goes(from, to) == requester = from /\ requester' = to

-----------------------------------------------------------------------------
(* The requester.                                                          *)

\* generateDRMSession, into opencdm_construct_session.  Without an OpenCDM
\* system, or when the construction fails, there is no session.
BeginGenerateDRMSession ==
  /\ m_eKeyState = "INIT" /\ decryptMutex = NOBODY /\ opened < MaxOcdmSessions
  /\ \/ /\ Goes("out", "build") /\ decryptMutex' = "requester"
        /\ opened' = opened + 1
        \* The key may be known before the session is handed over.
        /\ \E s \in {"InternalError", "Usable"} :
             /\ status' = [status EXCEPT ![opened + 1] = s]
             /\ told' = Append(told, "challenge") \o (IF s = "Usable" THEN <<"key", "keys">> ELSE <<>>)
        /\ UNCHANGED m_eKeyState
     \/ /\ requester = "out" /\ m_eKeyState' = "ERROR"
        /\ UNCHANGED <<requester, decryptMutex, opened, status, told>>
  /\ UNCHANGED <<m_keyStatus, m_keyStateIndeterminate, m_pOpenCDMSession, eventVars, waiter,
                 handle, callback, requests, changes>>

EndGenerateDRMSession ==
  /\ Goes("build", "built")
  /\ m_pOpenCDMSession' = opened
  /\ decryptMutex' = NOBODY
  /\ UNCHANGED <<stateVars, eventVars, waiter, handle, serviceVars, requests, changes>>

\* generateKeyRequest, for a new session or the renewal of a licence.
BeginGenerateKeyRequest ==
  /\ requests < MaxOcdmRequests /\ requests' = requests + 1
  /\ \/ Goes("built", "challenge") /\ UNCHANGED told
     \/ /\ Goes("out", "challenge") /\ m_pOpenCDMSession # NULL /\ m_eKeyState = "READY"
        /\ told' = Append(told, "challenge")
  /\ m_eKeyState' = "ERROR"
  /\ UNCHANGED <<m_keyStatus, m_keyStateIndeterminate, m_pOpenCDMSession, eventVars,
                 decryptMutex, waiter, handle, opened, status, callback, changes>>

\* The challenge is there, or it is empty or the time is over.
EndGenerateKeyRequest ==
  /\ \/ /\ m_challengeReady /\ m_challengeReady' = FALSE
        /\ Goes("challenge", "license") /\ m_eKeyState' = "PENDING"
     \/ /\ ~m_challengeReady /\ UNCHANGED m_challengeReady
        /\ Goes("challenge", "out") /\ UNCHANGED m_eKeyState
  /\ UNCHANGED <<m_keyStatus, m_keyStateIndeterminate, m_pOpenCDMSession, m_keyStatusReady,
                 m_keyStatusWait, decryptMutex, waiter, handle, serviceVars, requests,
                 changes>>

\* The application got no licence: processDRMKey is not called.
NoLicense ==
  /\ Goes("license", "out")
  /\ UNCHANGED <<stateVars, m_pOpenCDMSession, eventVars, decryptMutex, waiter, handle,
                 serviceVars, requests, changes>>

\* processDRMKey up to its wait.  The service takes the licence and tells the
\* status of the key, or it refuses it.  Without key data it gets the licence by
\* itself: it has told the status before, or will.
BeginProcessDRMKey ==
  /\ \/ Goes("license", "status") /\ UNCHANGED <<status, told, m_keyStatusWait>>
     \/ /\ Goes("license", "status")
        /\ \E s \in {"Usable", "OutputRestricted"} :
             status' = [status EXCEPT ![m_pOpenCDMSession] = s]
        /\ told' = told \o <<"key", "keys">>
        /\ UNCHANGED m_keyStatusWait
     \/ /\ Goes("license", "out")
        /\ m_keyStatusWait' = TRUE
        /\ UNCHANGED <<status, told>>
  /\ UNCHANGED <<stateVars, m_pOpenCDMSession, m_challengeReady, m_keyStatusReady, decryptMutex,
                 waiter, handle, opened, callback, requests, changes>>

\* Woken by keysUpdatedOCDM, or the time is over.
StatusReady ==
  /\ Goes("status", "decide")
  /\ m_keyStatusReady' = FALSE
  /\ UNCHANGED <<stateVars, m_pOpenCDMSession, m_challengeReady, m_keyStatusWait, decryptMutex,
                 waiter, handle, serviceVars, requests, changes>>

\* Faulty variant: a key that came before the session is not looked at.
EndProcessDRMKey_NoEarlyKey ==
  /\ Goes("decide", "out")
  /\ m_eKeyState' = IF m_keyStatus = "Usable" THEN "READY" ELSE "ERROR"
  /\ m_keyStatusWait' = TRUE
  /\ UNCHANGED <<m_keyStatus, m_keyStateIndeterminate, m_pOpenCDMSession, m_challengeReady,
                 m_keyStatusReady, decryptMutex, waiter, handle, serviceVars, requests, changes>>

\* For HWError the process ends; it is not among the statuses.
EndProcessDRMKey ==
  /\ Goes("decide", "out")
  /\ m_keyStatus' = IF m_keyStateIndeterminate THEN status[m_pOpenCDMSession] ELSE m_keyStatus
  /\ m_keyStateIndeterminate' = FALSE
  /\ m_eKeyState' = IF m_keyStatus' = "Usable" THEN "READY" ELSE "ERROR"
  /\ m_keyStatusWait' = TRUE
  /\ UNCHANGED <<m_pOpenCDMSession, m_challengeReady, m_keyStatusReady, decryptMutex, waiter,
                 handle, serviceVars, requests, changes>>

\* An adapter whose session failed is deleted, or it is cleared.
ClearDecryptContext ==
  /\ requester = "out" /\ waiter = "out" /\ decryptMutex = NOBODY
  /\ m_pOpenCDMSession # NULL
  /\ m_pOpenCDMSession' = NULL /\ m_eKeyState' = "INIT"
  \* The callback in progress goes on, and no other comes from the closed session.
  /\ told' = IF callback = OUT THEN <<>> ELSE <<Head(told)>>
  /\ UNCHANGED <<m_keyStatus, m_keyStateIndeterminate, eventVars, decryptMutex, requester,
                 waiter, handle, opened, status, callback, requests, changes>>

-----------------------------------------------------------------------------
(* The callbacks.                                                          *)

\* The service has got a licence by itself, or output protection changed.
StatusChanges ==
  /\ changes < MaxChanges /\ changes' = changes + 1
  /\ m_pOpenCDMSession # NULL
  /\ \E s \in {"Usable", "OutputRestricted"} :
       status' = [status EXCEPT ![m_pOpenCDMSession] = s]
  /\ told' = told \o <<"key", "keys">>
  /\ UNCHANGED <<stateVars, m_pOpenCDMSession, eventVars, decryptMutex, requester, waiter, handle,
                 opened, callback, requests>>

Comes(c) == told # <<>> /\ Head(told) = c

ProcessOCDMChallenge ==
  /\ Comes("challenge") /\ told' = Tail(told)
  /\ m_challengeReady' = TRUE
  /\ UNCHANGED <<stateVars, m_pOpenCDMSession, m_keyStatusReady, m_keyStatusWait, decryptMutex,
                 requester, waiter, handle, opened, status, callback, requests, changes>>

\* keyUpdateOCDM reads m_pOpenCDMSession without a lock.
BeginKeyUpdateOCDM ==
  /\ Comes("key") /\ callback = OUT
  /\ callback' = m_pOpenCDMSession
  /\ UNCHANGED <<stateVars, m_pOpenCDMSession, eventVars, decryptMutex, requester, waiter, handle,
                 opened, status, told, requests, changes>>

EndKeyUpdateOCDM ==
  /\ callback # OUT
  /\ callback' = OUT /\ told' = Tail(told)
  /\ m_keyStatus' = IF callback # NULL THEN status[callback] ELSE m_keyStatus
  /\ m_keyStateIndeterminate' = (callback = NULL)
  /\ UNCHANGED <<m_eKeyState, m_pOpenCDMSession, eventVars, decryptMutex, requester, waiter,
                 handle, opened, status, requests, changes>>

KeysUpdatedOCDM ==
  /\ Comes("keys") /\ told' = Tail(told)
  /\ m_keyStatusReady' = TRUE
  /\ UNCHANGED <<stateVars, m_pOpenCDMSession, m_challengeReady, m_keyStatusWait, decryptMutex,
                 requester, waiter, handle, opened, status, callback, requests, changes>>

-----------------------------------------------------------------------------
(* waitForState(KEY_READY), called for a session in PENDING, and decrypt.   *)

BeginWaitForState ==
  /\ waiter = "out" /\ m_eKeyState = "PENDING"
  /\ waiter' = "wait"
  /\ UNCHANGED <<stateVars, m_pOpenCDMSession, eventVars, decryptMutex, requester, handle,
                 serviceVars, requests, changes>>

EndWaitForState ==
  /\ waiter = "wait" /\ waiter' = "out"
  /\ \/ /\ m_keyStatusWait /\ m_keyStatusWait' = FALSE
     \/ ~m_keyStatusWait /\ UNCHANGED m_keyStatusWait   \* timeout
  /\ UNCHANGED <<stateVars, m_pOpenCDMSession, m_challengeReady, m_keyStatusReady, decryptMutex,
                 requester, handle, serviceVars, requests, changes>>

\* Faulty variant: the mutex is taken after the session was read.
BeginDecrypt_ReadsBefore ==
  /\ handle = OUT /\ m_eKeyState = "READY"
  /\ handle' = m_pOpenCDMSession
  /\ UNCHANGED <<stateVars, m_pOpenCDMSession, eventVars, decryptMutex, requester, waiter,
                 serviceVars, requests, changes>>

\* OCDMGSTSessionAdapter tests the session first, reads it again under the mutex;
\* OCDMBasicSessionAdapter has no test.  Output protection may refuse before.
BeginDecrypt ==
  /\ handle = OUT /\ decryptMutex = NOBODY
  /\ handle' = m_pOpenCDMSession
  /\ decryptMutex' = "decryptor"
  /\ UNCHANGED <<stateVars, m_pOpenCDMSession, eventVars, requester, waiter, serviceVars,
                 requests, changes>>

EndDecrypt ==
  /\ handle # OUT /\ handle' = OUT
  /\ decryptMutex' = IF decryptMutex = "decryptor" THEN NOBODY ELSE decryptMutex
  /\ UNCHANGED <<stateVars, m_pOpenCDMSession, eventVars, requester, waiter, serviceVars,
                 requests, changes>>

OcdmNext ==
  \/ BeginGenerateDRMSession \/ EndGenerateDRMSession
  \/ BeginGenerateKeyRequest \/ EndGenerateKeyRequest
  \/ NoLicense \/ BeginProcessDRMKey \/ StatusReady \/ EndProcessDRMKey
  \/ ClearDecryptContext
  \/ StatusChanges \/ ProcessOCDMChallenge
  \/ BeginKeyUpdateOCDM \/ EndKeyUpdateOCDM \/ KeysUpdatedOCDM
  \/ BeginWaitForState \/ EndWaitForState
  \/ BeginDecrypt \/ EndDecrypt

OcdmSpec == OcdmInit /\ [][OcdmNext]_ocdmVars

-----------------------------------------------------------------------------
(* opencdmsessionadapter.cpp:214-229 and 264-368: when processDRMKey has    *)
(* decided and the service has told the status of the key, also before the  *)
(* session was handed over, and has nothing more to tell, the key is ready  *)
(* if it is usable and in error if it is not.                               *)
KeyStateFollows ==
  [][/\ requester = "decide" /\ requester' = "out"
     /\ told = <<>> /\ status[m_pOpenCDMSession] # "InternalError"
     => (m_eKeyState' = "READY" <=> status[m_pOpenCDMSession] = "Usable")]_ocdmVars

(* OcdmGstSessionAdapter.cpp:293-420, OcdmBasicSessionAdapter.cpp:27-79: a   *)
(* buffer is decrypted with the session that the adapter has, or with none, *)
(* until the end of the decryption: clearDecryptContext may close it before *)
(* or after, and another may be built.                                      *)
DecryptsLiveSession == handle # OUT => handle = m_pOpenCDMSession
=============================================================================
