-------------------------------- MODULE AesDec --------------------------------
(***************************************************************************)
(* drm/aes/Aes.cpp: the one AesDec, which the tracks of an HLS playback     *)
(* share.  SetDecryptInfo starts a thread that gets the key from the        *)
(* application; Decrypt, SetDecryptInfo and Release wait for it on mCond,   *)
(* once, for a limited time.  The callers are any threads, in any order.    *)
(*                                                                         *)
(* A region of mMutex is one action.  It is a variable because the thread   *)
(* is joined with it held.  Left out: the cipher, the curl instance,        *)
(* profiling.                                                               *)
(***************************************************************************)
EXTENDS Integers

CONSTANTS
  Users,        \* threads that call AesDec
  Urls,         \* key URIs
  MaxAesCalls   \* bound: calls in one behaviour

VARIABLES
  mDrmState, mPrevDrmState,
  mDrmUrl,           \* of the key asked for last; NONE at first
  mDrmInfo,          \* its key URI, which the thread reads
  m_ptr,             \* the key: its URI, or NONE for a null pointer
  licenseAcquisitionThreadStarted,
  thread,            \* where the acquisition thread is: "none", "begun", "getting",
                     \* "got" or "failed" (to be signalled), "ended"
  keyURI,            \* what the thread gets
  mMutex,            \* who holds it: a user, or FREE
  method,            \* per user: the method it is in, or "out"
  at,                \* per user: "lock" (to be taken, at first or after a
                     \* notification or a timeout), "wait" or "join"
  url,               \* per user: the argument of SetDecryptInfo
  waited,            \* per user: the wait is behind it
  aesCalls,
  unreliable         \* history: a wait timed out or was cancelled

aesVars == <<mDrmState, mPrevDrmState, mDrmUrl, mDrmInfo, m_ptr,
             licenseAcquisitionThreadStarted, thread, keyURI, mMutex,
             method, at, url, waited, aesCalls, unreliable>>
keyVars == <<mDrmUrl, mDrmInfo, licenseAcquisitionThreadStarted>>
threadVars == <<m_ptr, thread, keyURI>>
userVars == <<method, at, url, waited>>

NONE == "none"
FREE == "free"
ASSUME AesAssumption == FREE \notin Users
DrmStates == {"INITIALIZED", "ACQUIRING_KEY", "KEY_ACQUIRED", "KEY_FAILED", "KEY_FLUSH"}
Methods == {"SetDecryptInfo", "Decrypt", "Release", "CancelKeyWait", "RestoreKeyState"}

AesTypeOK ==
  /\ mDrmState \in DrmStates /\ mPrevDrmState \in DrmStates
  /\ {mDrmUrl, mDrmInfo, m_ptr, keyURI} \subseteq Urls \union {NONE}
  /\ licenseAcquisitionThreadStarted \in BOOLEAN
  /\ thread \in {"none", "begun", "getting", "got", "failed", "ended"}
  /\ mMutex \in Users \union {FREE}
  /\ method \in [Users -> Methods \union {"out"}]
  /\ at \in [Users -> {"lock", "wait", "join"}]
  /\ url \in [Users -> Urls \union {NONE}]
  /\ waited \in [Users -> BOOLEAN]
  /\ aesCalls \in 0..MaxAesCalls /\ unreliable \in BOOLEAN

AesInit ==
  /\ mDrmState = "INITIALIZED" /\ mPrevDrmState = "INITIALIZED"
  /\ mDrmUrl = NONE /\ mDrmInfo = NONE /\ m_ptr = NONE
  /\ licenseAcquisitionThreadStarted = FALSE
  /\ thread = "none" /\ keyURI = NONE
  /\ mMutex = FREE
  /\ method = [u \in Users |-> "out"] /\ at = [u \in Users |-> "lock"]
  /\ url = [u \in Users |-> NONE] /\ waited = [u \in Users |-> FALSE]
  /\ aesCalls = 0 /\ unreliable = FALSE

-----------------------------------------------------------------------------
Enter(u) ==
  /\ method[u] = "out" /\ aesCalls < MaxAesCalls
  /\ aesCalls' = aesCalls + 1
  /\ \E c \in Methods, x \in Urls :
       /\ method' = [method EXCEPT ![u] = c]
       /\ url' = [url EXCEPT ![u] = IF c = "SetDecryptInfo" THEN x ELSE NONE]
  /\ UNCHANGED <<mDrmState, mPrevDrmState, keyVars, threadVars, mMutex, at, waited, unreliable>>

\* The method has the mutex and does not give it up in a wait (again).
Has(u, c) == method[u] = c /\ at[u] = "lock" /\ mMutex = FREE

Leave(u) ==
  /\ method' = [method EXCEPT ![u] = "out"]
  /\ at' = [at EXCEPT ![u] = "lock"]
  /\ url' = [url EXCEPT ![u] = NONE]
  /\ waited' = [waited EXCEPT ![u] = FALSE]

\* mCond.notify_all; `a` is `at` after what the caller itself does.
NotifyAll(a) == at' = [v \in Users |-> IF a[v] = "wait" THEN "lock" ELSE a[v]]

MustWait(u) ==
  /\ ~waited[u]
  /\ \/ method[u] \in {"SetDecryptInfo", "Decrypt"} /\ mDrmState = "ACQUIRING_KEY"
     \/ /\ method[u] = "Release"
        /\ "ACQUIRING_KEY" \in {mDrmState, mPrevDrmState} /\ mDrmState # "KEY_FAILED"

\* WaitForKeyAcquireCompleteUnlocked, entered.
WaitForKey(u) ==
  /\ \E c \in Methods : Has(u, c)
  /\ MustWait(u)
  /\ at' = [at EXCEPT ![u] = "wait"]
  /\ waited' = [waited EXCEPT ![u] = TRUE]
  /\ UNCHANGED <<mDrmState, mPrevDrmState, keyVars, threadVars, mMutex, method, url, aesCalls,
                 unreliable>>

WaitTimesOut(u) ==
  /\ at[u] = "wait"
  /\ at' = [at EXCEPT ![u] = "lock"]
  /\ unreliable' = TRUE
  /\ UNCHANGED <<mDrmState, mPrevDrmState, keyVars, threadVars, mMutex, method, url, waited,
                 aesCalls>>

-----------------------------------------------------------------------------
\* The new thread, or none (std::thread throws).
StartThread(u) ==
  /\ \/ /\ thread' = "begun" /\ licenseAcquisitionThreadStarted' = TRUE
        /\ mDrmState' = "ACQUIRING_KEY"
     \/ /\ thread' = "none" /\ licenseAcquisitionThreadStarted' = FALSE
        /\ mDrmState' = "KEY_FAILED"
  /\ mMutex' = FREE
  /\ Leave(u)
  /\ UNCHANGED <<m_ptr, keyURI>>

\* The key is there: mDrmInfo, with its IV, is new and the key stays.
SameKey(u) ==
  /\ Has(u, "SetDecryptInfo") /\ ~MustWait(u)
  /\ mDrmUrl # NONE /\ mDrmState = "KEY_ACQUIRED" /\ url[u] = mDrmUrl
  /\ mDrmInfo' = url[u]
  /\ Leave(u)
  /\ UNCHANGED <<mDrmState, mPrevDrmState, mDrmUrl, licenseAcquisitionThreadStarted,
                 threadVars, mMutex, aesCalls, unreliable>>

\* Faulty variant: the key is taken for the same one when it is there.
NewKey_OnlyIfNone(u) ==
  /\ Has(u, "SetDecryptInfo") /\ ~MustWait(u)
  /\ mDrmInfo' = url[u] /\ mDrmUrl' = url[u]
  /\ IF mDrmState = "KEY_ACQUIRED"
     THEN /\ Leave(u)
          /\ UNCHANGED <<mDrmState, mPrevDrmState, mMutex, licenseAcquisitionThreadStarted,
                         threadVars>>
     ELSE /\ mPrevDrmState' = "INITIALIZED"
          /\ IF licenseAcquisitionThreadStarted
             THEN /\ mDrmState' = "ACQUIRING_KEY"
                  /\ mMutex' = u /\ at' = [at EXCEPT ![u] = "join"]
                  /\ UNCHANGED <<licenseAcquisitionThreadStarted, threadVars, method, url, waited>>
             ELSE StartThread(u)
  /\ UNCHANGED <<aesCalls, unreliable>>

\* A thread that was started before is joined first, with the mutex held.
NewKey(u) ==
  /\ Has(u, "SetDecryptInfo") /\ ~MustWait(u)
  /\ ~(mDrmUrl # NONE /\ mDrmState = "KEY_ACQUIRED" /\ url[u] = mDrmUrl)
  /\ mDrmInfo' = url[u] /\ mDrmUrl' = url[u]
  /\ mPrevDrmState' = "INITIALIZED"
  /\ IF licenseAcquisitionThreadStarted
     THEN /\ mDrmState' = "ACQUIRING_KEY"
          /\ mMutex' = u /\ at' = [at EXCEPT ![u] = "join"]
          /\ UNCHANGED <<licenseAcquisitionThreadStarted, threadVars, method, url, waited>>
     ELSE StartThread(u)
  /\ UNCHANGED <<aesCalls, unreliable>>

JoinedBySet(u) ==
  /\ method[u] = "SetDecryptInfo" /\ at[u] = "join" /\ thread = "ended"
  /\ StartThread(u)
  /\ UNCHANGED <<mPrevDrmState, mDrmUrl, mDrmInfo, aesCalls, unreliable>>

\* Decrypts with m_ptr, or fails: nothing changes.
Decrypt(u) ==
  /\ Has(u, "Decrypt") /\ ~MustWait(u)
  /\ Leave(u)
  /\ UNCHANGED <<mDrmState, mPrevDrmState, keyVars, threadVars, mMutex, aesCalls, unreliable>>

ReleaseKey(u) ==
  /\ Has(u, "Release") /\ ~MustWait(u)
  /\ IF licenseAcquisitionThreadStarted
     THEN /\ mMutex' = u /\ at' = [at EXCEPT ![u] = "join"]
          /\ UNCHANGED <<method, url, waited>>
     ELSE /\ method' = [method EXCEPT ![u] = "out"] /\ waited' = [waited EXCEPT ![u] = FALSE]
          /\ NotifyAll(at) /\ UNCHANGED <<url, mMutex>>
  /\ UNCHANGED <<mDrmState, mPrevDrmState, keyVars, threadVars, aesCalls, unreliable>>

JoinedByRelease(u) ==
  /\ method[u] = "Release" /\ at[u] = "join" /\ thread = "ended"
  /\ licenseAcquisitionThreadStarted' = FALSE /\ thread' = "none"
  /\ method' = [method EXCEPT ![u] = "out"] /\ waited' = [waited EXCEPT ![u] = FALSE]
  /\ NotifyAll([at EXCEPT ![u] = "lock"])
  /\ mMutex' = FREE
  /\ UNCHANGED <<mDrmState, mPrevDrmState, mDrmUrl, mDrmInfo, m_ptr, keyURI, url, aesCalls,
                 unreliable>>

CancelKeyWait(u) ==
  /\ Has(u, "CancelKeyWait")
  /\ mPrevDrmState' = IF mDrmState # "KEY_FLUSH" THEN mDrmState ELSE mPrevDrmState
  /\ mDrmState' = "KEY_FLUSH"
  /\ method' = [method EXCEPT ![u] = "out"]
  /\ NotifyAll(at)
  /\ unreliable' = TRUE
  /\ UNCHANGED <<keyVars, threadVars, mMutex, url, waited, aesCalls>>

RestoreKeyState(u) ==
  /\ Has(u, "RestoreKeyState")
  /\ mDrmState' = IF mDrmState = "KEY_FLUSH" THEN mPrevDrmState ELSE mDrmState
  /\ Leave(u)
  /\ UNCHANGED <<mPrevDrmState, keyVars, threadVars, mMutex, aesCalls, unreliable>>

-----------------------------------------------------------------------------
(* The acquisition thread.  It reads mDrmInfo and writes m_ptr without the  *)
(* mutex.                                                                   *)

ResolveURL ==
  /\ thread = "begun"
  /\ thread' = "getting" /\ keyURI' = mDrmInfo
  /\ UNCHANGED <<mDrmState, mPrevDrmState, keyVars, m_ptr, mMutex, userVars, aesCalls, unreliable>>

GetAccessKey ==
  /\ thread = "getting"
  /\ \/ thread' = "got" /\ m_ptr' = keyURI
     \/ thread' = "failed" /\ m_ptr' = NONE
  /\ UNCHANGED <<mDrmState, mPrevDrmState, keyVars, keyURI, mMutex, userVars, aesCalls, unreliable>>

\* SignalKeyAcquired and SignalDrmError.
SignalKey ==
  /\ thread \in {"got", "failed"} /\ mMutex = FREE
  /\ mDrmState' = IF thread = "got" THEN "KEY_ACQUIRED" ELSE "KEY_FAILED"
  /\ thread' = "ended"
  /\ NotifyAll(at)
  /\ UNCHANGED <<mPrevDrmState, keyVars, m_ptr, keyURI, mMutex, method, url, waited, aesCalls,
                 unreliable>>

AesUser(u) ==
  \/ Enter(u) \/ WaitForKey(u) \/ WaitTimesOut(u)
  \/ SameKey(u) \/ NewKey(u) \/ JoinedBySet(u) \/ Decrypt(u)
  \/ ReleaseKey(u) \/ JoinedByRelease(u) \/ CancelKeyWait(u) \/ RestoreKeyState(u)

AesNext ==
  \/ \E u \in Users : AesUser(u)
  \/ ResolveURL \/ GetAccessKey \/ SignalKey

AesSpec == AesInit /\ [][AesNext]_aesVars

-----------------------------------------------------------------------------
KeyState == IF mDrmState = "KEY_FLUSH" THEN mPrevDrmState ELSE mDrmState

(* Aes.cpp:93-126, 240 and 307-332: whatever is cancelled, restored and set *)
(* while a key is fetched, the state tells the truth.  When it says that    *)
(* there is a key, or will again once restored, m_ptr is the one of the key *)
(* URI set last and nobody is writing it; when it says that one is being    *)
(* fetched, a thread that will say so is under way, or is about to start.   *)
KeyStateIsTrue ==
  /\ mDrmState = "KEY_ACQUIRED" => /\ m_ptr = mDrmUrl /\ mDrmInfo = mDrmUrl
                                   /\ thread \in {"none", "ended"}
  /\ mDrmState = "ACQUIRING_KEY" =>
       \/ thread \in {"begun", "getting", "got", "failed"}
       \/ \E u \in Users : method[u] = "SetDecryptInfo" /\ at[u] = "join"

\* Who joins the thread with the mutex held waited for it to signal, which it
\* needs the mutex for (line 285: "We wait for license acquisition to complete"),
\* unless the wait timed out or was cancelled.
JoinsEndedThread ==
  unreliable \/ \A u \in Users : at[u] = "join" => thread = "ended"
=============================================================================
