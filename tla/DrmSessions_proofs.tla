------------------------- MODULE DrmSessions_proofs -------------------------
(***************************************************************************)
(* The sessions of the decryption libraries and services: the key of an HLS*)
(* playlist, the session of the OCDM service, the playback sessions of the *)
(* content security manager with its watermark tasks, the display and      *)
(* network the player watches, and the Thunder plugins that it calls.      *)
(***************************************************************************)
EXTENDS AesDec, OcdmSession, ContentSecurity, WatermarkTasks, PlayerExternals,
        ThunderAccess, SequenceTheorems, TLAPS

-----------------------------------------------------------------------------
(* The key of AesDec.                                                      *)

SetJoins == \E u \in Users : method[u] = "SetDecryptInfo" /\ at[u] = "join"
UnderWay == thread \in {"begun", "getting", "got", "failed"}

\* Who joins the thread holds the mutex, and there is a thread to join.
JoinersHold ==
  \A u \in Users :
    /\ mMutex = u <=> at[u] = "join"
    /\ at[u] = "join" => method[u] \in {"SetDecryptInfo", "Release"}

ThreadKnown ==
  /\ licenseAcquisitionThreadStarted <=> thread # "none"
  /\ (\E u \in Users : at[u] = "join") => thread # "none"

\* The thread gets the key that was asked for last, unless another one has been
\* asked for by a caller that is about to join it.
ThreadGetsTheKey ==
  /\ mDrmInfo = mDrmUrl
  /\ thread \in {"getting", "got"} => keyURI = mDrmUrl \/ SetJoins
  /\ thread = "got" => m_ptr = keyURI

\* What the state says, also the one that RestoreKeyState will bring back.
StateSaysSo ==
  /\ KeyState = "KEY_ACQUIRED" => m_ptr = mDrmUrl /\ thread \in {"none", "ended"}
  /\ KeyState = "ACQUIRING_KEY" => UnderWay \/ SetJoins

AesTypes ==
  /\ mDrmState \in DrmStates /\ mPrevDrmState \in DrmStates
  /\ licenseAcquisitionThreadStarted \in BOOLEAN
  /\ thread \in {"none", "begun", "getting", "got", "failed", "ended"}
  /\ mMutex \in Users \union {FREE}
  /\ method \in [Users -> Methods \union {"out"}]
  /\ at \in [Users -> {"lock", "wait", "join"}]

AesIInv == AesTypes /\ JoinersHold /\ ThreadKnown /\ ThreadGetsTheKey /\ StateSaysSo

LEMMA AesInitially == AesInit => AesIInv
<1> SUFFICES ASSUME AesInit PROVE AesIInv
  OBVIOUS
<1> USE DEF AesInit
<1>1. AesTypes
  BY DEF AesTypes, DrmStates, Methods
<1>2. JoinersHold
  BY AesAssumption DEF JoinersHold
<1>3. ThreadKnown /\ ThreadGetsTheKey
  BY DEF ThreadKnown, ThreadGetsTheKey
<1>4. StateSaysSo
  BY DEF StateSaysSo, KeyState
<1> QED
  BY <1>1, <1>2, <1>3, <1>4 DEF AesIInv

\* A caller that neither had nor takes the mutex for longer than a step leaves the
\* joining alone.
LEMMA QuietUser ==
  ASSUME AesIInv, mMutex' = mMutex,
         method' \in [Users -> Methods \union {"out"}],
         at' \in [Users -> {"lock", "wait", "join"}],
         \A v \in Users : at'[v] = "join" <=> at[v] = "join",
         \A v \in Users : at[v] = "join" => method'[v] = method[v]
  PROVE  JoinersHold' /\ (SetJoins' <=> SetJoins)
         /\ ((\E u \in Users : at'[u] = "join") <=> (\E u \in Users : at[u] = "join"))
  BY DEF AesIInv, JoinersHold, SetJoins

LEMMA CallersKeep ==
  ASSUME AesIInv, NEW u \in Users,
         \/ Enter(u) \/ WaitForKey(u) \/ WaitTimesOut(u) \/ SameKey(u) \/ Decrypt(u)
         \/ CancelKeyWait(u) \/ RestoreKeyState(u)
  PROVE  AesIInv'
<1> USE DEF keyVars, threadVars, Has, Leave, NotifyAll
<1>0. AesTypes /\ JoinersHold
  BY DEF AesIInv
<1>1. /\ mMutex' = mMutex
      /\ method' \in [Users -> Methods \union {"out"}]
      /\ at' \in [Users -> {"lock", "wait", "join"}]
      /\ \A v \in Users : at'[v] = "join" <=> at[v] = "join"
      /\ \A v \in Users : at[v] = "join" => method'[v] = method[v]
  <2>1. CASE Enter(u)
    BY <1>0, <2>1 DEF Enter, AesTypes, JoinersHold
  <2>2. CASE WaitForKey(u) \/ WaitTimesOut(u)
    BY <1>0, <2>2 DEF WaitForKey, WaitTimesOut, AesTypes
  <2>3. CASE SameKey(u) \/ Decrypt(u) \/ RestoreKeyState(u)
    BY <1>0, <2>3 DEF SameKey, Decrypt, RestoreKeyState, AesTypes
  <2>4. CASE CancelKeyWait(u)
    BY <1>0, <2>4 DEF CancelKeyWait, AesTypes
  <2> QED
    BY <2>1, <2>2, <2>3, <2>4
<1>2. /\ JoinersHold' /\ (SetJoins' <=> SetJoins)
      /\ ((\E v \in Users : at'[v] = "join") <=> (\E v \in Users : at[v] = "join"))
  BY <1>1, QuietUser
<1>3. /\ UNCHANGED <<mDrmUrl, m_ptr, thread, keyURI, licenseAcquisitionThreadStarted>>
      /\ mDrmInfo' = mDrmUrl
  BY DEF Enter, WaitForKey, WaitTimesOut, SameKey, Decrypt, CancelKeyWait, RestoreKeyState,
         AesIInv, ThreadGetsTheKey
<1>4. mDrmState' \in DrmStates /\ mPrevDrmState' \in DrmStates /\ KeyState' = KeyState
  BY <1>0 DEF Enter, WaitForKey, WaitTimesOut, SameKey, Decrypt, CancelKeyWait, RestoreKeyState,
              AesTypes, KeyState, DrmStates
<1> QED
  BY <1>1, <1>2, <1>3, <1>4
     DEF AesIInv, AesTypes, ThreadKnown, ThreadGetsTheKey, StateSaysSo, UnderWay

\* Nobody joins when a new key is set or the key is released: the mutex is free.
LEMMA NobodyJoins ==
  ASSUME AesIInv, mMutex = FREE
  PROVE  \A v \in Users : at[v] # "join"
  BY AesAssumption DEF AesIInv, JoinersHold

\* StartThread, by the only caller that may be joining.
LEMMA StartKeeps ==
  ASSUME AesIInv, NEW u \in Users, StartThread(u),
         \A v \in Users \ {u} : at[v] # "join",
         mDrmInfo' = mDrmUrl', mPrevDrmState' \in DrmStates
  PROVE  AesIInv'
<1> USE DEF StartThread, Leave
<1>0. AesTypes /\ JoinersHold
  BY DEF AesIInv
<1>1. AesTypes'
  BY <1>0 DEF AesTypes, DrmStates
<1>2. \A v \in Users : at'[v] # "join"
  BY <1>0 DEF AesTypes
<1>3. JoinersHold'
  BY <1>2, AesAssumption DEF JoinersHold
<1>4. /\ thread' = "begun" /\ licenseAcquisitionThreadStarted' = TRUE /\ mDrmState' = "ACQUIRING_KEY"
      \/ /\ thread' = "none" /\ licenseAcquisitionThreadStarted' = FALSE
         /\ mDrmState' = "KEY_FAILED"
  OBVIOUS
<1> QED
  BY <1>1, <1>2, <1>3, <1>4
     DEF AesIInv, ThreadKnown, ThreadGetsTheKey, StateSaysSo, KeyState, UnderWay

LEMMA NewKeyKeeps ==
  ASSUME AesIInv, NEW u \in Users, NewKey(u)
  PROVE  AesIInv'
<1>0. AesTypes /\ JoinersHold /\ ThreadKnown /\ ThreadGetsTheKey
  BY DEF AesIInv
<1>1. /\ \A v \in Users : at[v] # "join"
      /\ method[u] = "SetDecryptInfo" /\ mDrmInfo' = mDrmUrl' /\ mPrevDrmState' = "INITIALIZED"
  BY NobodyJoins DEF NewKey, Has
<1>2. CASE licenseAcquisitionThreadStarted
  <2>1. /\ mDrmState' = "ACQUIRING_KEY" /\ mMutex' = u /\ at' = [at EXCEPT ![u] = "join"]
        /\ UNCHANGED <<licenseAcquisitionThreadStarted, threadVars, method, url, waited>>
    BY <1>2 DEF NewKey
  <2>2. AesTypes'
    BY <1>0, <1>1, <2>1 DEF AesTypes, DrmStates, threadVars
  <2>3. at'[u] = "join" /\ \A v \in Users \ {u} : at'[v] # "join"
    BY <1>0, <1>1, <2>1 DEF AesTypes
  <2>4. JoinersHold' /\ SetJoins'
    BY <1>1, <2>1, <2>3 DEF JoinersHold, SetJoins
  <2>5. ThreadKnown' /\ ThreadGetsTheKey'
    BY <1>0, <1>1, <1>2, <2>1, <2>4 DEF ThreadKnown, ThreadGetsTheKey, threadVars
  <2>6. StateSaysSo'
    BY <2>1, <2>4 DEF StateSaysSo, KeyState
  <2> QED
    BY <2>2, <2>4, <2>5, <2>6 DEF AesIInv
<1>3. CASE ~licenseAcquisitionThreadStarted
  BY <1>1, <1>3, StartKeeps DEF NewKey, DrmStates
<1> QED
  BY <1>2, <1>3

LEMMA JoinedKeeps ==
  ASSUME AesIInv, NEW u \in Users, JoinedBySet(u) \/ JoinedByRelease(u)
  PROVE  AesIInv'
<1>0. AesTypes /\ JoinersHold /\ ThreadKnown /\ ThreadGetsTheKey /\ StateSaysSo
  BY DEF AesIInv
<1>1. at[u] = "join" /\ \A v \in Users \ {u} : at[v] # "join"
  BY <1>0 DEF JoinedBySet, JoinedByRelease, JoinersHold
<1>2. CASE JoinedBySet(u)
  BY <1>0, <1>1, <1>2, StartKeeps DEF JoinedBySet, ThreadGetsTheKey, AesTypes
<1>3. CASE JoinedByRelease(u)
  <2>1. /\ method[u] = "Release" /\ thread = "ended" /\ thread' = "none"
        /\ licenseAcquisitionThreadStarted' = FALSE /\ mMutex' = FREE
        /\ method' = [method EXCEPT ![u] = "out"]
        /\ UNCHANGED <<mDrmState, mPrevDrmState, mDrmUrl, mDrmInfo, m_ptr, keyURI>>
    BY <1>3 DEF JoinedByRelease
  <2>2. /\ at' \in [Users -> {"lock", "wait", "join"}]
        /\ \A v \in Users : at'[v] # "join"
    BY <1>0, <1>1, <1>3 DEF JoinedByRelease, NotifyAll, AesTypes
  <2>3. AesTypes'
    BY <1>0, <2>1, <2>2 DEF AesTypes
  <2>4. JoinersHold'
    BY <2>1, <2>2, AesAssumption DEF JoinersHold
  <2>5. ~SetJoins
    BY <1>1, <2>1 DEF SetJoins
  <2>6. KeyState' = KeyState /\ KeyState # "ACQUIRING_KEY"
    BY <1>0, <2>1, <2>5 DEF KeyState, StateSaysSo, UnderWay
  <2> QED
    BY <1>0, <2>1, <2>2, <2>3, <2>4, <2>6 DEF AesIInv, ThreadKnown, ThreadGetsTheKey, StateSaysSo
<1> QED
  BY <1>2, <1>3

LEMMA ReleaseKeeps ==
  ASSUME AesIInv, NEW u \in Users, ReleaseKey(u)
  PROVE  AesIInv'
<1>0. AesTypes /\ JoinersHold /\ ThreadKnown /\ ThreadGetsTheKey /\ StateSaysSo
  BY DEF AesIInv
<1>1. /\ \A v \in Users : at[v] # "join"
      /\ method[u] = "Release"
      /\ UNCHANGED <<mDrmState, mPrevDrmState, keyVars, threadVars>>
  BY NobodyJoins DEF ReleaseKey, Has
<1>2. ~SetJoins /\ ~SetJoins'
  <2>1. \A v \in Users : method'[v] = "SetDecryptInfo" => at'[v] # "join"
    BY <1>0, <1>1 DEF ReleaseKey, Has, NotifyAll, AesTypes
  <2> QED
    BY <1>1, <2>1 DEF SetJoins
<1>3. AesTypes' /\ JoinersHold' /\ ThreadKnown'
  <2>1. CASE licenseAcquisitionThreadStarted
    <3>1. mMutex' = u /\ at' = [at EXCEPT ![u] = "join"] /\ UNCHANGED method
      BY <2>1 DEF ReleaseKey
    <3> QED
      BY <1>0, <1>1, <2>1, <3>1 DEF AesTypes, JoinersHold, ThreadKnown, keyVars, threadVars
  <2>2. CASE ~licenseAcquisitionThreadStarted
    <3>1. /\ method' = [method EXCEPT ![u] = "out"] /\ mMutex' = mMutex /\ mMutex = FREE
          /\ at' = [v \in Users |-> IF at[v] = "wait" THEN "lock" ELSE at[v]]
      BY <2>2 DEF ReleaseKey, NotifyAll, Has
    <3>2. \A v \in Users : at'[v] # "join"
      BY <1>1, <3>1
    <3> QED
      BY <1>0, <1>1, <2>2, <3>1, <3>2, AesAssumption
         DEF AesTypes, JoinersHold, ThreadKnown, keyVars, threadVars
  <2> QED
    BY <2>1, <2>2
<1> QED
  BY <1>0, <1>1, <1>2, <1>3
     DEF AesIInv, ThreadGetsTheKey, StateSaysSo, KeyState, UnderWay, keyVars, threadVars

LEMMA ThreadKeeps ==
  ASSUME AesIInv, ResolveURL \/ GetAccessKey \/ SignalKey
  PROVE  AesIInv'
<1> USE DEF keyVars, userVars
<1>0. AesTypes /\ JoinersHold /\ ThreadKnown /\ ThreadGetsTheKey /\ StateSaysSo
  BY DEF AesIInv
<1>1. CASE ResolveURL \/ GetAccessKey
  <2>1. /\ UNCHANGED <<mDrmState, mPrevDrmState, mDrmUrl, mDrmInfo,
                       licenseAcquisitionThreadStarted, mMutex, method, at>>
        /\ UnderWay /\ thread' \in {"getting", "got", "failed"}
    BY <1>1 DEF ResolveURL, GetAccessKey, UnderWay
  <2>2. JoinersHold' /\ ThreadKnown' /\ AesTypes' /\ (SetJoins' <=> SetJoins)
    BY <1>0, <2>1 DEF JoinersHold, ThreadKnown, AesTypes, SetJoins, UnderWay
  <2>3. ThreadGetsTheKey'
    BY <1>0, <1>1, <2>1, <2>2 DEF ResolveURL, GetAccessKey, ThreadGetsTheKey
  <2>4. StateSaysSo'
    BY <1>0, <2>1 DEF StateSaysSo, KeyState, UnderWay
  <2> QED
    BY <2>2, <2>3, <2>4 DEF AesIInv
<1>2. CASE SignalKey
  <2>1. /\ thread \in {"got", "failed"} /\ thread' = "ended" /\ mMutex = FREE
        /\ mDrmState' = (IF thread = "got" THEN "KEY_ACQUIRED" ELSE "KEY_FAILED")
        /\ UNCHANGED <<mPrevDrmState, mDrmUrl, mDrmInfo, licenseAcquisitionThreadStarted,
                       m_ptr, keyURI, mMutex, method>>
    BY <1>2 DEF SignalKey
  <2>2. at' = [v \in Users |-> IF at[v] = "wait" THEN "lock" ELSE at[v]]
    BY <1>2 DEF SignalKey, NotifyAll
  <2>3. (\A v \in Users : at[v] # "join") /\ (\A v \in Users : at'[v] # "join")
    BY <2>1, <2>2, NobodyJoins
  <2>4. JoinersHold' /\ ThreadKnown' /\ AesTypes'
    BY <1>0, <2>1, <2>2, <2>3, AesAssumption DEF JoinersHold, ThreadKnown, AesTypes, DrmStates
  <2>5. ~SetJoins /\ (thread = "got" => m_ptr = mDrmUrl)
    BY <1>0, <2>3 DEF SetJoins, ThreadGetsTheKey
  <2> QED
    BY <1>0, <2>1, <2>4, <2>5 DEF AesIInv, ThreadGetsTheKey, StateSaysSo, KeyState
<1> QED
  BY <1>1, <1>2

\* Whatever callers set, cancel, restore and release while keys are fetched, the
\* state of AesDec does not promise a key that m_ptr does not hold, nor one that no
\* thread is fetching.
THEOREM AesStateIsTrue == AesSpec => []KeyStateIsTrue
<1>1. AesIInv /\ [AesNext]_aesVars => AesIInv'
  <2> SUFFICES ASSUME AesIInv, [AesNext]_aesVars PROVE AesIInv'
    OBVIOUS
  <2>1. CASE UNCHANGED aesVars
    BY <2>1 DEF aesVars, AesIInv, AesTypes, JoinersHold, ThreadKnown, ThreadGetsTheKey,
                StateSaysSo, KeyState, UnderWay, SetJoins
  <2> QED
    BY <2>1, CallersKeep, NewKeyKeeps, JoinedKeeps, ReleaseKeeps, ThreadKeeps
       DEF AesNext, AesUser
<1>2. AesIInv => KeyStateIsTrue
  BY DEF AesIInv, ThreadGetsTheKey, StateSaysSo, KeyState, UnderWay, SetJoins, KeyStateIsTrue
<1> QED
  BY <1>1, <1>2, AesInitially, PTL DEF AesSpec

-----------------------------------------------------------------------------
(* The session of the OCDM service.                                        *)

Tellings == {"challenge", "key", "keys"}
OcdmTypes ==
  /\ m_eKeyState \in KeyStates /\ m_keyStatus \in Statuses
  /\ m_pOpenCDMSession \in {NULL} \union OcdmSessions
  /\ decryptMutex \in {"requester", "decryptor", NOBODY}
  /\ requester \in {"out", "build", "built", "challenge", "license", "status", "decide"}
  /\ {handle, callback} \subseteq {OUT, NULL} \union OcdmSessions
  /\ opened \in 0..MaxOcdmSessions /\ status \in [OcdmSessions -> Statuses]
  /\ told \in Seq(Tellings)

\* Whoever is in the service with the mutex, and what is decrypted with.
MutexHeld ==
  /\ requester = "build" <=> decryptMutex = "requester"
  /\ handle # OUT <=> decryptMutex = "decryptor"
  /\ DecryptsLiveSession

\* The adapter has the session opened last or none, and the requester goes on
\* only with one.
SessionKnown ==
  /\ m_pOpenCDMSession \in {NULL, opened}
  /\ requester = "build" => m_pOpenCDMSession = NULL /\ opened # 0
  /\ requester \notin {"out", "build"} => m_pOpenCDMSession # NULL
  /\ m_eKeyState = "INIT" => m_pOpenCDMSession = NULL \/ requester = "built"

HasKey(t)   == \E i \in 1..Len(t) : t[i] = "key"
LaterKey(t) == \E i \in 2..Len(t) : t[i] = "key"
InUse       == requester = "build" \/ m_pOpenCDMSession # NULL

\* The status of the key of the session in use is known, or will be asked for
\* when it is needed, or the service has yet to tell it; a callback for an earlier
\* session is not the last.
StatusKnown ==
  /\ callback # OUT => told # <<>> /\ Head(told) = "key"
  /\ InUse /\ status[opened] # "InternalError" =>
       /\ HasKey(told) \/ m_keyStateIndeterminate \/ m_keyStatus = status[opened]
       /\ callback \notin {OUT, NULL, opened} => LaterKey(told)

OcdmIInv == OcdmTypes /\ MutexHeld /\ SessionKnown /\ StatusKnown

LEMMA TellsKey ==
  ASSUME NEW t \in Seq(Tellings)
  PROVE  /\ t \o <<"key", "keys">> \in Seq(Tellings)
         /\ HasKey(t \o <<"key", "keys">>)
         /\ t # <<>> => LaterKey(t \o <<"key", "keys">>)
         /\ t # <<>> => /\ Head(t \o <<"key", "keys">>) = Head(t)
                        /\ t \o <<"key", "keys">> # <<>>
<1> DEFINE k == <<"key", "keys">>
<1>1. k \in Seq(Tellings) /\ Len(k) = 2 /\ k[1] = "key"
  BY DEF Tellings
<1> HIDE DEF k
<1>2. /\ t \o k \in Seq(Tellings) /\ Len(t \o k) = Len(t) + 2
      /\ \A i \in 1..(Len(t) + 2) : (t \o k)[i] = IF i <= Len(t) THEN t[i] ELSE k[i - Len(t)]
  <2>1. /\ t \o k \in Seq(Tellings) /\ Len(t \o k) = Len(t) + Len(k)
        /\ \A i \in 1..(Len(t) + Len(k)) : (t \o k)[i] = IF i <= Len(t) THEN t[i] ELSE k[i - Len(t)]
    BY <1>1, ConcatProperties
  <2> QED
    BY <1>1, <2>1
<1>3. Len(t) \in Nat
  OBVIOUS
<1>4. (t \o k)[Len(t) + 1] = "key" /\ Len(t) + 1 \in 1..Len(t \o k)
  BY <1>1, <1>2, <1>3
<1>5. t # <<>> => Len(t) > 0
  BY EmptySeq
<1>6. t # <<>> => (t \o k)[1] = t[1] /\ Head(t) = t[1] /\ Head(t \o k) = (t \o k)[1]
  BY <1>2, <1>3, <1>5, EmptySeq
<1>7. t # <<>> => t \o k # <<>>
  BY <1>1, ConcatEqualIffEmpty
<1> QED
  BY <1>2, <1>3, <1>4, <1>5, <1>6, <1>7 DEF HasKey, LaterKey, k

LEMMA TellsChallenge ==
  ASSUME NEW t \in Seq(Tellings)
  PROVE  /\ Append(t, "challenge") \in Seq(Tellings)
         /\ Append(t, "challenge") # <<>>
         /\ HasKey(t) => HasKey(Append(t, "challenge"))
         /\ LaterKey(t) => LaterKey(Append(t, "challenge"))
         /\ t # <<>> => Head(Append(t, "challenge")) = Head(t)
<1>1. "challenge" \in Tellings
  BY DEF Tellings
<1>2. /\ Append(t, "challenge") \in Seq(Tellings) /\ Append(t, "challenge") # <<>>
      /\ Len(Append(t, "challenge")) = Len(t) + 1
      /\ \A i \in 1..Len(t) : Append(t, "challenge")[i] = t[i]
  BY <1>1, AppendProperties
<1>3. t # <<>> => Head(Append(t, "challenge")) = Head(t)
  BY HeadTailAppend
<1>4. Len(t) \in Nat
  OBVIOUS
<1> QED
  BY <1>2, <1>3, <1>4 DEF HasKey, LaterKey

LEMMA TellingDone ==
  ASSUME NEW t \in Seq(Tellings), t # <<>>
  PROVE  /\ Tail(t) \in Seq(Tellings)
         /\ HasKey(t) /\ Head(t) # "key" => HasKey(Tail(t))
         /\ LaterKey(t) => HasKey(Tail(t))
<1>1. Len(t) \in Nat \ {0} /\ Head(t) = t[1]
  BY EmptySeq
<1>2. /\ Tail(t) \in Seq(Tellings) /\ Len(Tail(t)) = Len(t) - 1
      /\ \A i \in 1..(Len(t) - 1) : Tail(t)[i] = t[i + 1]
  BY HeadTailProperties
<1>3. ASSUME LaterKey(t) PROVE HasKey(Tail(t))
  <2>1. PICK i \in 2..Len(t) : t[i] = "key"
    BY <1>3 DEF LaterKey
  <2>2. i - 1 \in 1..(Len(t) - 1) /\ (i - 1) + 1 = i
    BY <1>1, <2>1
  <2> QED
    BY <1>2, <2>1, <2>2 DEF HasKey
<1>4. HasKey(t) /\ Head(t) # "key" => LaterKey(t)
  BY <1>1 DEF HasKey, LaterKey
<1> QED
  BY <1>2, <1>3, <1>4

-----------------------------------------------------------------------------
LEMMA OcdmInitially == OcdmInit => OcdmIInv
<1> SUFFICES ASSUME OcdmInit PROVE OcdmIInv
  OBVIOUS
<1> USE DEF OcdmInit
<1>1. OcdmTypes
  <2>1. told \in Seq(Tellings)
    BY EmptySeq
  <2> QED
    BY <2>1, OcdmAssumption DEF OcdmTypes, KeyStates, Statuses, NOBODY, NULL, OUT
<1>2. MutexHeld /\ SessionKnown
  BY DEF MutexHeld, SessionKnown, DecryptsLiveSession, NOBODY
<1>3. StatusKnown
  BY DEF StatusKnown, InUse
<1> QED
  BY <1>1, <1>2, <1>3 DEF OcdmIInv

LEMMA OpenedIsSession ==
  ASSUME OcdmTypes, SessionKnown
  PROVE  /\ opened \in Nat
         /\ InUse => opened \in OcdmSessions
  BY OcdmAssumption DEF OcdmTypes, SessionKnown, InUse, OcdmSessions, NULL

\* Neither the service nor what is in its session moves.
LEMMA ServiceQuiet ==
  ASSUME OcdmIInv, UNCHANGED <<opened, status, told, callback, m_pOpenCDMSession, m_keyStatus,
                               m_keyStateIndeterminate>>,
         requester' # "build"
  PROVE  StatusKnown'
  BY DEF OcdmIInv, StatusKnown, InUse

LEMMA RequesterKeeps ==
  ASSUME OcdmIInv, \/ EndGenerateDRMSession \/ EndGenerateKeyRequest \/ NoLicense \/ StatusReady
  PROVE  OcdmIInv'
<1> USE DEF Goes, stateVars, eventVars, serviceVars
<1>0. OcdmTypes /\ MutexHeld /\ SessionKnown /\ StatusKnown
  BY DEF OcdmIInv
<1>1. CASE EndGenerateDRMSession
  <2>1. OcdmTypes'
    BY <1>0, <1>1, OpenedIsSession DEF EndGenerateDRMSession, OcdmTypes, InUse
  <2>2. MutexHeld' /\ SessionKnown'
    BY <1>0, <1>1, OpenedIsSession DEF EndGenerateDRMSession, MutexHeld, SessionKnown, NOBODY, DecryptsLiveSession,
       NULL
  <2>3. StatusKnown'
    BY <1>0, <1>1 DEF EndGenerateDRMSession, StatusKnown, InUse
  <2> QED
    BY <2>1, <2>2, <2>3 DEF OcdmIInv
<1>2. CASE EndGenerateKeyRequest \/ NoLicense \/ StatusReady
  <2>1. /\ UNCHANGED <<opened, status, told, callback, m_pOpenCDMSession, m_keyStatus,
                       m_keyStateIndeterminate, decryptMutex, handle>>
        /\ requester \notin {"out", "build", "built"} /\ requester' \in {"license", "out", "decide"}
        /\ m_eKeyState' \in {m_eKeyState, "PENDING"}
    BY <1>2 DEF EndGenerateKeyRequest, NoLicense, StatusReady
  <2>2. StatusKnown'
    BY <2>1, ServiceQuiet
  <2>3. OcdmTypes'
    BY <1>0, <2>1 DEF OcdmTypes, KeyStates
  <2>4. MutexHeld' /\ SessionKnown'
    BY <1>0, <2>1 DEF MutexHeld, SessionKnown, DecryptsLiveSession
  <2> QED
    BY <2>2, <2>3, <2>4 DEF OcdmIInv
<1> QED
  BY <1>1, <1>2

LEMMA BeginGenerateKeeps ==
  ASSUME OcdmIInv, BeginGenerateDRMSession
  PROVE  OcdmIInv'
<1> USE DEF Goes, eventVars
<1>0. OcdmTypes /\ MutexHeld /\ SessionKnown /\ StatusKnown /\ opened \in Nat
  BY OpenedIsSession DEF OcdmIInv
<1>1. CASE requester' = "build"
  <2>1. /\ requester = "out" /\ m_eKeyState = "INIT" /\ opened < MaxOcdmSessions
        /\ decryptMutex = NOBODY /\ decryptMutex' = "requester" /\ opened' = opened + 1
        /\ UNCHANGED <<m_eKeyState, m_keyStatus, m_keyStateIndeterminate, m_pOpenCDMSession,
                       handle, callback>>
    BY <1>1 DEF BeginGenerateDRMSession
  <2>2. PICK s \in {"InternalError", "Usable"} :
          /\ status' = [status EXCEPT ![opened + 1] = s]
          /\ told' = Append(told, "challenge")
                       \o (IF s = "Usable" THEN <<"key", "keys">> ELSE <<>>)
    BY <1>1, <2>1 DEF BeginGenerateDRMSession
  <2>3. opened + 1 \in OcdmSessions
    BY <1>0, <2>1, OcdmAssumption DEF OcdmSessions
  <2>4. PICK t : t = Append(told, "challenge")
    OBVIOUS
  <2>5. t \in Seq(Tellings) /\ t # <<>> /\ (told # <<>> => Head(t) = Head(told))
    BY <1>0, <2>4, TellsChallenge DEF OcdmTypes
  <2>6. /\ told' \in Seq(Tellings) /\ told' # <<>> /\ Head(told') = Head(t)
        /\ s = "Usable" => HasKey(told') /\ LaterKey(told')
    <3>1. CASE s = "Usable"
      <4>1. told' = t \o <<"key", "keys">>
        BY <2>2, <2>4, <3>1
      <4> QED
        BY <2>5, <4>1, TellsKey
    <3>2. CASE s # "Usable"
      <4>1. told' = t
        BY <2>2, <2>4, <2>5, <3>2, ConcatEmptySeq
      <4> QED
        BY <2>5, <3>2, <4>1
    <3> QED
      BY <3>1, <3>2
  <2>7. status' \in [OcdmSessions -> Statuses] /\ status'[opened'] = s
    BY <1>0, <2>1, <2>2, <2>3 DEF OcdmTypes, Statuses
  <2>8. OcdmTypes'
    BY <1>0, <1>1, <2>1, <2>3, <2>6, <2>7, OcdmAssumption DEF OcdmTypes, OcdmSessions
  <2>9. MutexHeld' /\ SessionKnown'
    BY <1>0, <1>1, <2>1 DEF MutexHeld, SessionKnown, DecryptsLiveSession, NOBODY, NULL
  <2>10. StatusKnown'
    BY <1>0, <2>1, <2>5, <2>6, <2>7 DEF StatusKnown
  <2> QED
    BY <2>8, <2>9, <2>10 DEF OcdmIInv
<1>2. CASE requester' # "build"
  <2>1. /\ requester = "out" /\ m_eKeyState' = "ERROR"
        /\ UNCHANGED <<requester, decryptMutex, opened, status, told, m_keyStatus,
                       m_keyStateIndeterminate, m_pOpenCDMSession, handle, callback>>
    BY <1>2 DEF BeginGenerateDRMSession
  <2>2. StatusKnown'
    BY <1>2, <2>1, ServiceQuiet
  <2>3. OcdmTypes' /\ MutexHeld' /\ SessionKnown'
    BY <1>0, <2>1 DEF OcdmTypes, KeyStates, MutexHeld, SessionKnown, DecryptsLiveSession
  <2> QED
    BY <2>2, <2>3 DEF OcdmIInv
<1> QED
  BY <1>1, <1>2

LEMMA KeyRequestKeeps ==
  ASSUME OcdmIInv, BeginGenerateKeyRequest
  PROVE  OcdmIInv'
<1> USE DEF Goes, eventVars
<1>0. OcdmTypes /\ MutexHeld /\ SessionKnown /\ StatusKnown
  BY DEF OcdmIInv
<1>1. /\ m_eKeyState' = "ERROR" /\ requester \in {"out", "built"} /\ requester' = "challenge"
      /\ m_pOpenCDMSession # NULL
      /\ told' \in {told, Append(told, "challenge")}
      /\ UNCHANGED <<m_keyStatus, m_keyStateIndeterminate, m_pOpenCDMSession, decryptMutex,
                     handle, opened, status, callback>>
  BY <1>0 DEF BeginGenerateKeyRequest, SessionKnown
<1>2. /\ told' \in Seq(Tellings)
      /\ HasKey(told) => HasKey(told')
      /\ LaterKey(told) => LaterKey(told')
      /\ told # <<>> => told' # <<>> /\ Head(told') = Head(told)
  BY <1>0, <1>1, TellsChallenge DEF OcdmTypes
<1>3. OcdmTypes'
  BY <1>0, <1>1, <1>2 DEF OcdmTypes, KeyStates
<1>4. MutexHeld' /\ SessionKnown'
  BY <1>0, <1>1 DEF MutexHeld, SessionKnown, DecryptsLiveSession
<1>5. StatusKnown'
  BY <1>0, <1>1, <1>2 DEF StatusKnown, InUse
<1> QED
  BY <1>3, <1>4, <1>5 DEF OcdmIInv

\* The service has a new status for the key of the session in use, and will tell it.
LEMMA NewStatusKeeps ==
  ASSUME OcdmIInv, m_pOpenCDMSession # NULL,
         NEW s \in Statuses, status' = [status EXCEPT ![m_pOpenCDMSession] = s],
         told' = told \o <<"key", "keys">>,
         requester' = requester \/ (requester = "license" /\ requester' = "status"),
         UNCHANGED <<m_eKeyState, m_keyStatus, m_keyStateIndeterminate, m_pOpenCDMSession,
                     decryptMutex, handle, opened, callback>>
  PROVE  OcdmIInv'
<1>0. OcdmTypes /\ MutexHeld /\ SessionKnown /\ StatusKnown
  BY DEF OcdmIInv
<1>1. /\ told' \in Seq(Tellings) /\ HasKey(told')
      /\ told # <<>> => told' # <<>> /\ Head(told') = Head(told) /\ LaterKey(told')
  BY <1>0, TellsKey DEF OcdmTypes
<1>2. OcdmTypes'
  BY <1>0, <1>1 DEF OcdmTypes
<1>3. MutexHeld' /\ SessionKnown'
  BY <1>0 DEF MutexHeld, SessionKnown, DecryptsLiveSession
<1>4. StatusKnown'
  BY <1>0, <1>1 DEF StatusKnown
<1> QED
  BY <1>2, <1>3, <1>4 DEF OcdmIInv

LEMMA ProcessKeeps ==
  ASSUME OcdmIInv, BeginProcessDRMKey \/ EndProcessDRMKey
  PROVE  OcdmIInv'
<1> USE DEF Goes, stateVars, serviceVars
<1>0. OcdmTypes /\ MutexHeld /\ SessionKnown /\ StatusKnown
  BY DEF OcdmIInv
<1>1. CASE BeginProcessDRMKey
  <2>1. /\ requester = "license" /\ m_pOpenCDMSession # NULL /\ requester' \in {"status", "out"}
        /\ UNCHANGED <<m_eKeyState, m_keyStatus, m_keyStateIndeterminate, m_pOpenCDMSession,
                       decryptMutex, handle, opened, callback>>
    BY <1>0, <1>1 DEF BeginProcessDRMKey, SessionKnown
  <2>2. CASE UNCHANGED <<status, told>>
    <3>1. StatusKnown'
      BY <2>1, <2>2, ServiceQuiet
    <3>2. OcdmTypes' /\ MutexHeld' /\ SessionKnown'
      BY <1>0, <2>1, <2>2 DEF OcdmTypes, MutexHeld, SessionKnown, DecryptsLiveSession
    <3> QED
      BY <3>1, <3>2 DEF OcdmIInv
  <2>3. CASE ~ UNCHANGED <<status, told>>
    <3>1. PICK s \in {"Usable", "OutputRestricted"} :
            status' = [status EXCEPT ![m_pOpenCDMSession] = s]
      BY <1>1, <2>3 DEF BeginProcessDRMKey
    <3>2. told' = told \o <<"key", "keys">> /\ requester' = "status" /\ s \in Statuses
      BY <1>1, <2>3 DEF BeginProcessDRMKey, Statuses
    <3> QED
      BY <2>1, <3>1, <3>2, NewStatusKeeps
  <2> QED
    BY <2>2, <2>3
<1>2. CASE EndProcessDRMKey
  <2>1. /\ requester = "decide" /\ requester' = "out" /\ m_pOpenCDMSession = opened
        /\ opened \in OcdmSessions /\ InUse
        /\ m_keyStatus' = IF m_keyStateIndeterminate THEN status[m_pOpenCDMSession] ELSE m_keyStatus
        /\ m_eKeyState' \in {"READY", "ERROR"}
        /\ UNCHANGED <<m_pOpenCDMSession, decryptMutex, handle, opened, callback, status, told>>
    BY <1>0, <1>2, OpenedIsSession DEF EndProcessDRMKey, SessionKnown, InUse
  <2>2. OcdmTypes'
    BY <1>0, <2>1 DEF OcdmTypes, KeyStates
  <2>3. MutexHeld' /\ SessionKnown'
    BY <1>0, <2>1 DEF MutexHeld, SessionKnown, DecryptsLiveSession
  <2>4. StatusKnown'
    BY <1>0, <2>1 DEF StatusKnown
  <2> QED
    BY <2>2, <2>3, <2>4 DEF OcdmIInv
<1> QED
  BY <1>1, <1>2

LEMMA ClearKeeps ==
  ASSUME OcdmIInv, ClearDecryptContext
  PROVE  OcdmIInv'
<1> USE DEF eventVars
<1>0. OcdmTypes /\ MutexHeld /\ SessionKnown /\ StatusKnown
  BY DEF OcdmIInv
<1>1. /\ requester = "out" /\ decryptMutex = NOBODY /\ handle = OUT
      /\ m_pOpenCDMSession' = NULL /\ m_eKeyState' = "INIT"
      /\ UNCHANGED <<m_keyStatus, m_keyStateIndeterminate, decryptMutex, requester,
                     handle, opened, status, callback>>
  BY <1>0 DEF ClearDecryptContext, MutexHeld, NOBODY
<1>2. told' \in Seq(Tellings) /\ (callback # OUT => told' # <<>> /\ Head(told') = "key")
  <2>1. CASE callback = OUT
    <3>1. told' = <<>>
      BY <2>1 DEF ClearDecryptContext
    <3> QED
      BY <2>1, <3>1, EmptySeq
  <2>2. CASE callback # OUT
    <3>1. told' = <<"key">>
      BY <1>0, <2>2 DEF ClearDecryptContext, StatusKnown
    <3> QED
      BY <3>1, EmptySeq DEF Tellings
  <2> QED
    BY <2>1, <2>2
<1>3. OcdmTypes'
  BY <1>0, <1>1, <1>2 DEF OcdmTypes, KeyStates
<1>4. MutexHeld' /\ SessionKnown'
  BY <1>0, <1>1 DEF MutexHeld, SessionKnown, DecryptsLiveSession
<1>5. StatusKnown'
  BY <1>0, <1>1, <1>2 DEF StatusKnown, InUse
<1> QED
  BY <1>3, <1>4, <1>5 DEF OcdmIInv

LEMMA CallbackKeeps ==
  ASSUME OcdmIInv, \/ StatusChanges \/ ProcessOCDMChallenge \/ KeysUpdatedOCDM
                   \/ BeginKeyUpdateOCDM \/ EndKeyUpdateOCDM
  PROVE  OcdmIInv'
<1> USE DEF stateVars, eventVars, Comes
<1>0. OcdmTypes /\ MutexHeld /\ SessionKnown /\ StatusKnown
  BY DEF OcdmIInv
<1>1. CASE StatusChanges
  <2>1. PICK s \in {"Usable", "OutputRestricted"} :
          status' = [status EXCEPT ![m_pOpenCDMSession] = s]
    BY <1>1 DEF StatusChanges
  <2>2. s \in Statuses
    BY DEF Statuses
  <2> QED
    BY <1>1, <2>1, <2>2, NewStatusKeeps DEF StatusChanges
<1>2. CASE ProcessOCDMChallenge \/ KeysUpdatedOCDM
  <2>1. /\ told # <<>> /\ Head(told) # "key" /\ told' = Tail(told) /\ callback = OUT
        /\ UNCHANGED <<m_eKeyState, m_keyStatus, m_keyStateIndeterminate, m_pOpenCDMSession,
                       decryptMutex, requester, handle, opened, status, callback>>
    BY <1>0, <1>2 DEF ProcessOCDMChallenge, KeysUpdatedOCDM, StatusKnown
  <2>2. told' \in Seq(Tellings) /\ (HasKey(told) => HasKey(told'))
    BY <1>0, <2>1, TellingDone DEF OcdmTypes
  <2>3. OcdmTypes'
    BY <1>0, <2>1, <2>2 DEF OcdmTypes
  <2>4. MutexHeld' /\ SessionKnown' /\ StatusKnown'
    BY <1>0, <2>1, <2>2 DEF MutexHeld, SessionKnown, StatusKnown, InUse, DecryptsLiveSession
  <2> QED
    BY <2>3, <2>4 DEF OcdmIInv
<1>3. CASE BeginKeyUpdateOCDM
  <2>1. /\ told # <<>> /\ Head(told) = "key" /\ callback' = m_pOpenCDMSession
        /\ UNCHANGED <<m_eKeyState, m_keyStatus, m_keyStateIndeterminate, m_pOpenCDMSession,
                       decryptMutex, requester, handle, opened, status, told>>
    BY <1>3 DEF BeginKeyUpdateOCDM
  <2>2. OcdmTypes'
    BY <1>0, <2>1 DEF OcdmTypes
  <2>3. MutexHeld' /\ SessionKnown'
    BY <1>0, <2>1 DEF MutexHeld, SessionKnown, DecryptsLiveSession
  <2>4. StatusKnown'
    BY <1>0, <2>1 DEF StatusKnown, InUse, SessionKnown
  <2> QED
    BY <2>2, <2>3, <2>4 DEF OcdmIInv
<1>4. CASE EndKeyUpdateOCDM
  <2>1. /\ callback # OUT /\ callback' = OUT /\ told # <<>> /\ told' = Tail(told)
        /\ m_keyStatus' = IF callback # NULL THEN status[callback] ELSE m_keyStatus
        /\ m_keyStateIndeterminate' = (callback = NULL)
        /\ UNCHANGED <<m_eKeyState, m_pOpenCDMSession, decryptMutex, requester, handle, opened,
                       status>>
    BY <1>0, <1>4 DEF EndKeyUpdateOCDM, StatusKnown
  <2>2. told' \in Seq(Tellings) /\ (LaterKey(told) => HasKey(told'))
    BY <1>0, <2>1, TellingDone DEF OcdmTypes
  <2>3. OcdmTypes'
    BY <1>0, <2>1, <2>2 DEF OcdmTypes
  <2>4. MutexHeld' /\ SessionKnown'
    BY <1>0, <2>1 DEF MutexHeld, SessionKnown, DecryptsLiveSession
  <2>5. StatusKnown'
    BY <1>0, <2>1, <2>2 DEF StatusKnown, InUse
  <2> QED
    BY <2>3, <2>4, <2>5 DEF OcdmIInv
<1> QED
  BY <1>1, <1>2, <1>3, <1>4

LEMMA DecryptionKeeps ==
  ASSUME OcdmIInv, \/ BeginWaitForState \/ EndWaitForState \/ BeginDecrypt \/ EndDecrypt
                   \/ UNCHANGED ocdmVars
  PROVE  OcdmIInv'
<1> USE DEF stateVars, eventVars, serviceVars
<1>0. OcdmTypes /\ MutexHeld /\ SessionKnown /\ StatusKnown
  BY DEF OcdmIInv
<1>1. UNCHANGED <<m_eKeyState, m_keyStatus, m_keyStateIndeterminate, m_pOpenCDMSession, requester,
                  opened, status, told, callback>>
  BY DEF BeginWaitForState, EndWaitForState, BeginDecrypt, EndDecrypt, ocdmVars
<1>2. \/ UNCHANGED <<handle, decryptMutex>>
      \/ /\ decryptMutex = NOBODY /\ decryptMutex' = "decryptor" /\ handle' = m_pOpenCDMSession
      \/ /\ handle # OUT /\ handle' = OUT
         /\ decryptMutex' = IF decryptMutex = "decryptor" THEN NOBODY ELSE decryptMutex
  BY DEF BeginWaitForState, EndWaitForState, BeginDecrypt, EndDecrypt, ocdmVars
<1>3. OcdmTypes'
  BY <1>0, <1>1, <1>2 DEF OcdmTypes
<1>4. MutexHeld'
  BY <1>0, <1>1, <1>2 DEF MutexHeld, DecryptsLiveSession, NOBODY, OcdmTypes, OUT, NULL, OcdmSessions
<1>5. SessionKnown' /\ StatusKnown'
  BY <1>0, <1>1 DEF SessionKnown, StatusKnown, InUse
<1> QED
  BY <1>3, <1>4, <1>5 DEF OcdmIInv

LEMMA OcdmStep == OcdmIInv /\ [OcdmNext]_ocdmVars => OcdmIInv'
  BY BeginGenerateKeeps, RequesterKeeps, KeyRequestKeeps, ProcessKeeps, ClearKeeps,
     CallbackKeeps, DecryptionKeeps DEF OcdmNext

(* A buffer is decrypted with the session that the adapter has, or with     *)
(* none, from the moment the mutex is taken to the end of the decryption:   *)
(* neither clearDecryptContext nor the construction of the next session     *)
(* comes between (OcdmGstSessionAdapter.cpp:293-420,                        *)
(* OcdmBasicSessionAdapter.cpp:27-79).                                      *)
THEOREM OneSessionPerDecrypt == OcdmSpec => []DecryptsLiveSession
<1>1. OcdmIInv => DecryptsLiveSession
  BY DEF OcdmIInv, MutexHeld
<1> QED
  BY <1>1, OcdmInitially, OcdmStep, PTL DEF OcdmSpec

(* processDRMKey decides with the status that the service has told, also    *)
(* when it came before the session was handed over and the callback found   *)
(* none to ask (opencdmsessionadapter.cpp:214-229 and 264-368).             *)
THEOREM DecidesWithToldStatus == OcdmSpec => KeyStateFollows
<1> DEFINE Decided == /\ requester = "decide" /\ requester' = "out"
                      /\ told = <<>> /\ status[m_pOpenCDMSession] # "InternalError"
                      => (m_eKeyState' = "READY" <=> status[m_pOpenCDMSession] = "Usable")
<1>1. ASSUME OcdmIInv, OcdmNext, requester = "decide", requester' = "out",
             told = <<>>, status[m_pOpenCDMSession] # "InternalError"
      PROVE  m_eKeyState' = "READY" <=> status[m_pOpenCDMSession] = "Usable"
  <2>1. EndProcessDRMKey
    BY <1>1 DEF OcdmNext, BeginGenerateDRMSession, EndGenerateDRMSession, BeginGenerateKeyRequest,
       EndGenerateKeyRequest, NoLicense, BeginProcessDRMKey, StatusReady, ClearDecryptContext,
       StatusChanges, ProcessOCDMChallenge, BeginKeyUpdateOCDM, EndKeyUpdateOCDM,
       KeysUpdatedOCDM, BeginWaitForState, EndWaitForState, BeginDecrypt, EndDecrypt, Goes
  <2>2. InUse /\ m_pOpenCDMSession = opened /\ ~HasKey(told)
    BY <1>1 DEF OcdmIInv, SessionKnown, InUse, HasKey
  <2>3. m_keyStateIndeterminate \/ m_keyStatus = status[m_pOpenCDMSession]
    BY <1>1, <2>2 DEF OcdmIInv, StatusKnown
  <2>4. m_keyStatus' = status[m_pOpenCDMSession]
    BY <2>1, <2>3 DEF EndProcessDRMKey
  <2> QED
    BY <2>1, <2>4 DEF EndProcessDRMKey
<1>2. OcdmIInv /\ [OcdmNext]_ocdmVars => [Decided]_ocdmVars
  BY <1>1
<1> QED
  BY <1>2, OcdmInitially, OcdmStep, PTL DEF OcdmSpec, KeyStateFollows

-----------------------------------------------------------------------------
(* The playback sessions.                                                   *)

Threads == {"client", "licence"}

HoldTypes ==
  /\ service \in [Sessions -> {"unused", "active", "inactive", "closed"}]
  /\ shown \in [Sessions -> Speeds \union {0, None}]
  /\ holds \in [Holders -> Sessions \union {None}]
  /\ closing \in [Threads -> Sessions \union {None}]
  /\ request \in [slot : Slots \union {None}, input : Inputs \union {None},
                  muted : BOOLEAN, api : {"open", "update"}, id : Sessions \union {None}]
  /\ mute \in BOOLEAN
  /\ speed \in Speeds \union {0}

\* What the client's copies are where it is; while it is in a call about the
\* session, the manager's does not change.
ClientCopies ==
  /\ client = "idle" => holds["outer"] = None
  /\ holds["inner"] # None => client \in {"position", "drop"}
  /\ client = "state" => holds["outer"] # None /\ holds["outer"] = holds["manager"]
  /\ client = "position" => holds["inner"] # None /\ holds["inner"] = holds["manager"]
  /\ closing["client"] # None => client = "close"

\* And those of the licence thread.
LicenceCopies ==
  /\ holds["local"] # None => licence \in {"reuse", "slot"}
  /\ holds["new"] # None => licence = "save"
  /\ licence \notin {"idle", "reuse", "close"} => request.slot \in Slots
  /\ closing["licence"] # None => licence \in {"close", "selfLock"}

HoldIInv == HoldTypes /\ ClientCopies /\ LicenceCopies

LEMMA NoneIsNone == None \notin Sessions /\ None \notin Slots
  BY ContentSecurityAssumption DEF Sessions

LEMMA HoldInitially == CSInit => HoldIInv
<1> SUFFICES ASSUME CSInit PROVE HoldIInv
  OBVIOUS
<1> USE DEF CSInit
<1>1. request \in [slot : Slots \union {None}, input : Inputs \union {None},
                  muted : BOOLEAN, api : {"open", "update"}, id : Sessions \union {None}]
  BY DEF NoRequest
<1>2. HoldTypes
  BY <1>1 DEF HoldTypes, Threads
<1>3. ClientCopies /\ LicenceCopies
  BY DEF ClientCopies, LicenceCopies, Holders
<1> QED
  BY <1>2, <1>3 DEF HoldIInv

LEMMA ClientHolds ==
  ASSUME HoldIInv, ClientOperation \/ ClientStep
  PROVE  HoldIInv'
<1> USE DEF Begins, ClientGoes, licenceVars, sessionVars
<1>0. HoldTypes /\ ClientCopies /\ LicenceCopies
  BY DEF HoldIInv
<1>. {"manager", "outer", "inner", "local", "new"} \subseteq Holders
  BY DEF Holders
<1>1. ASSUME NEW b \in BOOLEAN, setVideoMute(b) PROVE HoldIInv'
  BY <1>0, <1>1, NoneIsNone DEF setVideoMute, CopyThen, HoldIInv, HoldTypes, ClientCopies, LicenceCopies
<1>2. CASE hideWatermarkOnDetach
  BY <1>0, <1>2, NoneIsNone DEF hideWatermarkOnDetach, CopyThen, HoldIInv, HoldTypes, ClientCopies, LicenceCopies
<1>3. CASE setVideoWindowSize
  BY <1>0, <1>3, NoneIsNone DEF setVideoWindowSize, CopyThen, HoldIInv, HoldTypes, ClientCopies, LicenceCopies
<1>4. CASE notifyCleanup
  BY <1>0, <1>4, NoneIsNone DEF notifyCleanup, CopyThen, HoldIInv, HoldTypes, ClientCopies, LicenceCopies
<1>5. ASSUME NEW v \in Speeds, NEW first \in BOOLEAN, setPlaybackSpeedState(v, first) PROVE HoldIInv'
  BY <1>0, <1>5, NoneIsNone DEF setPlaybackSpeedState, PlaybackSpeed, MaySend, HoldIInv, HoldTypes, ClientCopies, LicenceCopies
<1>6. ASSUME NEW i \in Slots, ClearSlot(i) PROVE HoldIInv'
  BY <1>0, <1>6, NoneIsNone, ContentSecurityAssumption DEF ClearSlot, Release, Holders, Threads, HoldIInv, HoldTypes, ClientCopies, LicenceCopies
<1>7. CASE UpdateSessionState
  BY <1>0, <1>7, NoneIsNone DEF UpdateSessionState, SetDrmSessionState, HoldIInv, HoldTypes, ClientCopies, LicenceCopies
<1>8. CASE SpeedAfterUnmute
  BY <1>0, <1>8, NoneIsNone DEF SpeedAfterUnmute, PlaybackSpeed, MaySend, HoldIInv, HoldTypes, ClientCopies, LicenceCopies
<1>9. CASE SendPosition
  BY <1>0, <1>9, NoneIsNone DEF SendPosition, SetPlaybackPosition, HoldIInv, HoldTypes, ClientCopies, LicenceCopies
<1>10. CASE SendWindowSize
  BY <1>0, <1>10, NoneIsNone DEF SendWindowSize, HoldIInv, HoldTypes, ClientCopies, LicenceCopies
<1>11. CASE DropCopy
  BY <1>0, <1>11, NoneIsNone DEF DropCopy, Release, Threads, HoldIInv, HoldTypes, ClientCopies, LicenceCopies
<1>12. CASE ClientReleaseSession
  BY <1>0, <1>12, NoneIsNone DEF ClientReleaseSession, CloseDrmSession, Threads, HoldIInv, HoldTypes, ClientCopies, LicenceCopies
<1> QED
  BY <1>1, <1>2, <1>3, <1>4, <1>5, <1>6, <1>7, <1>8, <1>9, <1>10, <1>11, <1>12
  DEF ClientOperation, ClientStep

LEMMA LicenceHolds ==
  ASSUME HoldIInv, LicenceStep
  PROVE  HoldIInv'
<1> USE DEF LicenceGoes, clientVars, sessionVars
<1>0. HoldTypes /\ ClientCopies /\ LicenceCopies
  BY DEF HoldIInv
<1>. {"manager", "outer", "inner", "local", "new"} \subseteq Holders
  BY DEF Holders
<1>1. ASSUME NEW i \in Slots, ReuseSession(i) PROVE HoldIInv'
  BY <1>0, <1>1, NoneIsNone, ContentSecurityAssumption
  DEF ReuseSession, Holders, HoldIInv, HoldTypes, ClientCopies, LicenceCopies
<1>2. ASSUME NEW i \in Slots, NEW given \in Inputs, AcquireLicense(i, given) PROVE HoldIInv'
  BY <1>0, <1>2, NoneIsNone
  DEF AcquireLicense, NoRequest, HoldIInv, HoldTypes, ClientCopies, LicenceCopies
<1>3. CASE ActivateReused
  <2>1. /\ licence = "reuse" /\ licence' = IF closing'["licence"] = None THEN "idle" ELSE "close"
        /\ holds' = [holds EXCEPT !["local"] = None]
        /\ closing' = closing \/ closing' = [closing EXCEPT !["licence"] = holds["local"]]
        /\ UNCHANGED <<clientVars, request>>
    BY <1>3 DEF ActivateReused, Release
  <2>2. /\ service' \in [Sessions -> {"unused", "active", "inactive", "closed"}]
        /\ shown' \in [Sessions -> Speeds \union {0, None}]
    BY <1>0, <1>3 DEF ActivateReused, SetDrmSessionState, HoldTypes
  <2>3. HoldTypes'
    <3>1. holds["local"] \in Sessions \union {None}
      BY <1>0 DEF HoldTypes
    <3>2. holds' \in [Holders -> Sessions \union {None}]
      BY <1>0, <2>1 DEF HoldTypes
    <3>3. closing' \in [Threads -> Sessions \union {None}]
      BY <1>0, <2>1, <3>1 DEF HoldTypes, Threads
    <3> QED
      BY <1>0, <2>1, <2>2, <3>2, <3>3 DEF HoldTypes, clientVars
  <2>4. ClientCopies'
    BY <1>0, <2>1 DEF HoldTypes, ClientCopies, Threads, clientVars
  <2>5. LicenceCopies'
    BY <1>0, <2>1 DEF HoldTypes, LicenceCopies, Threads
  <2> QED
    BY <2>3, <2>4, <2>5 DEF HoldIInv
<1>4. CASE CompareHash
  BY <1>0, <1>4, NoneIsNone
  DEF CompareHash, HoldIInv, HoldTypes, ClientCopies, LicenceCopies
<1>5. CASE ActivateSame
  BY <1>0, <1>5, NoneIsNone
  DEF ActivateSame, SetDrmSessionState, HoldIInv, HoldTypes, ClientCopies, LicenceCopies
<1>6. CASE ChooseApi
  <2>1. licence = "choose" /\ licence' \in {"lock", "id"}
        /\ UNCHANGED <<sessionVars, clientVars>>
    BY <1>6 DEF ChooseApi
  <2>2. request'.slot = request.slot
        /\ request' \in [slot : Slots \union {None}, input : Inputs \union {None},
                        muted : BOOLEAN, api : {"open", "update"}, id : Sessions \union {None}]
    <3>1. request \in [slot : Slots \union {None}, input : Inputs \union {None},
                      muted : BOOLEAN, api : {"open", "update"}, id : Sessions \union {None}]
      BY <1>0 DEF HoldTypes
    <3>2. CASE request' = [request EXCEPT !.api = "open", !.id = None]
      BY <3>1, <3>2
    <3>3. CASE request' = [request EXCEPT !.api = "update"]
      BY <3>1, <3>3
    <3> QED
      BY <1>6, <3>2, <3>3 DEF ChooseApi
  <2>3. HoldTypes'
    BY <1>0, <2>1, <2>2 DEF HoldTypes, sessionVars, clientVars
  <2>4. ClientCopies'
    BY <1>0, <2>1 DEF ClientCopies, sessionVars, clientVars
  <2>5. LicenceCopies'
    BY <1>0, <2>1, <2>2 DEF LicenceCopies, sessionVars, clientVars
  <2> QED
    BY <2>3, <2>4, <2>5 DEF HoldIInv
<1>7. CASE ReadSessionID
  BY <1>0, <1>7, NoneIsNone
  DEF ReadSessionID, HoldIInv, HoldTypes, ClientCopies, LicenceCopies
<1>8. CASE LockSecMutex
  BY <1>0, <1>8, NoneIsNone
  DEF LockSecMutex, HoldIInv, HoldTypes, ClientCopies, LicenceCopies
<1>9. CASE RequestGranted
  <2>1. PICK s \in GrantedIn :
          /\ service' = [service EXCEPT ![s] = IF request.muted THEN "inactive" ELSE "active"]
          /\ shown' = IF request.muted THEN [shown EXCEPT ![s] = None] ELSE shown
          /\ \E id \in NewSessionId(s) : getSessionManager(id, request.input)
    BY <1>9 DEF RequestGranted
  <2>2. PICK id \in NewSessionId(s) : getSessionManager(id, request.input)
    BY <2>1
  <2>3. s \in Sessions /\ id \in Sessions \union {None}
    BY <1>0 DEF GrantedIn, NewSessionId, Open, HoldTypes
  <2>4. holds' = [holds EXCEPT !["new"] = id] /\ licence = "rpc" /\ licence' = "save"
        /\ UNCHANGED <<closing, client, request, mute, speed>>
    BY <1>9, <2>2 DEF RequestGranted, getSessionManager
  <2>5. HoldTypes'
    BY <1>0, <2>1, <2>3, <2>4 DEF HoldTypes
  <2>6. ClientCopies' /\ LicenceCopies'
    BY <1>0, <2>3, <2>4 DEF HoldTypes, ClientCopies, LicenceCopies
  <2> QED
    BY <2>5, <2>6 DEF HoldIInv
<1>10. CASE RequestRefused
  BY <1>0, <1>10, NoneIsNone
  DEF RequestRefused, HoldIInv, HoldTypes, ClientCopies, LicenceCopies
<1>11. CASE SaveSession
  BY <1>0, <1>11, NoneIsNone
  DEF SaveSession, Release, Threads, HoldIInv, HoldTypes, ClientCopies, LicenceCopies
<1>12. CASE Retry
  BY <1>0, <1>12, NoneIsNone
  DEF Retry, HoldIInv, HoldTypes, ClientCopies, LicenceCopies
<1>13. CASE AcquireReturns
  BY <1>0, <1>13, NoneIsNone, ContentSecurityAssumption
  DEF AcquireReturns, NoRequest, HoldIInv, HoldTypes, ClientCopies, LicenceCopies
<1>14. CASE CopyToSlot
  BY <1>0, <1>14, NoneIsNone, ContentSecurityAssumption
  DEF CopyToSlot, NoRequest, HoldIInv, HoldTypes, ClientCopies, LicenceCopies
<1>15. CASE setSecManagerSession
  BY <1>0, <1>15, NoneIsNone, ContentSecurityAssumption
  DEF setSecManagerSession, Release, Threads, NoRequest, Holders, HoldIInv, HoldTypes, ClientCopies, LicenceCopies
<1>16. CASE LicenceReleaseSession
  BY <1>0, <1>16, NoneIsNone
  DEF LicenceReleaseSession, CloseDrmSession, Threads, HoldIInv, HoldTypes, ClientCopies, LicenceCopies
<1> QED
  BY <1>1, <1>2, <1>3, <1>4, <1>5, <1>6, <1>7, <1>8, <1>9, <1>10, <1>11, <1>12, <1>13, <1>14, <1>15, <1>16
  DEF LicenceStep

LEMMA HoldStep == HoldIInv /\ [CSNext]_csVars => HoldIInv'
<1>1. ASSUME HoldIInv, UNCHANGED csVars PROVE HoldIInv'
  BY <1>1 DEF csVars, sessionVars, clientVars, licenceVars, HoldIInv, HoldTypes, ClientCopies,
     LicenceCopies
<1> QED
  BY <1>1, ClientHolds, LicenceHolds DEF CSNext

-----------------------------------------------------------------------------
(* References.  A session that is being closed and is referenced again was   *)
(* made for too early.                                                       *)

Kept ==
  /\ OpenIffReferenced
  /\ \A t \in Threads : closing[t] # None /\ closing[t] \in Referenced => closing[t] \in early

\* No reference is lost and none is new.
SameReferences(f) ==
  /\ \A h \in Holders : f[h] # None => \E g \in Holders : holds[g] = f[h]
  /\ \A h \in Holders : holds[h] # None => \E g \in Holders : f[g] = holds[h]

LEMMA ReferencesKeep ==
  ASSUME HoldTypes, Kept, SameReferences(holds'), Open' = Open, UNCHANGED <<closing, early>>
  PROVE  Kept'
<1>1. Referenced' = Referenced
  BY DEF SameReferences, Referenced
<1> QED
  BY <1>1 DEF Kept, OpenIffReferenced, OpenIsReferenced, ReferencedIsOpen

\* Thread t drops one reference to s, or none.
LEMMA SessionReleaseKeeps ==
  ASSUME HoldTypes, Kept, NEW t \in Threads, closing[t] = None,
         NEW s \in Sessions \union {None}, NEW f, Release(t, s, f),
         \E h \in Holders : holds[h] = s,
         \A h \in Holders : f[h] # None => \E g \in Holders : holds[g] = f[h],
         \A h \in Holders : holds[h] \notin {None, s} => \E g \in Holders : f[g] = holds[h],
         Open' = Open, UNCHANGED early
  PROVE  Kept'
<1>1. holds' = f
  BY DEF Release
<1>2. \A r \in Referenced' : r \in Referenced
  BY <1>1 DEF Referenced
<1>3. \A r \in Referenced : r # s => r \in Referenced'
  BY <1>1 DEF Referenced
<1>4. CASE LastReference(s, f)
  <2>1. closing' = [closing EXCEPT ![t] = s] /\ closing'[t] = s
    BY <1>4 DEF Release, HoldTypes
  <2>2. s \notin Referenced'
    BY <1>1, <1>4 DEF LastReference, Referenced
  <2>3. \A u \in Threads : u # t => closing'[u] = closing[u]
    BY <2>1 DEF HoldTypes
  <2>4. OpenIsReferenced'
    <3> SUFFICES ASSUME NEW r \in Open', r \notin Referenced'
                 PROVE  \E u \in DOMAIN closing' : closing'[u] = r
      BY DEF OpenIsReferenced
    <3>1. DOMAIN closing' = Threads /\ DOMAIN closing = Threads
      BY <2>1 DEF HoldTypes
    <3>2. CASE r = s
      BY <2>1, <3>1, <3>2
    <3>3. CASE r # s
      <4>1. \E u \in Threads : closing[u] = r
        BY <1>3, <3>1, <3>3 DEF Kept, OpenIffReferenced, OpenIsReferenced
      <4>2. r # None
        BY NoneIsNone DEF Open
      <4> QED
        BY <2>3, <3>1, <4>1, <4>2
    <3> QED
      BY <3>2, <3>3
  <2>5. ReferencedIsOpen'
    BY <1>2 DEF Kept, OpenIffReferenced, ReferencedIsOpen
  <2> QED
    BY <1>2, <2>1, <2>2, <2>3, <2>4, <2>5 DEF Kept, OpenIffReferenced
<1>5. CASE ~LastReference(s, f)
  <2>1. UNCHANGED closing
    BY <1>5 DEF Release
  <2>2. \A r \in Referenced : r \in Referenced'
    BY <1>1, <1>3, <1>5, NoneIsNone DEF LastReference, Referenced
  <2>3. Referenced' = Referenced
    BY <1>2, <2>2
  <2> QED
    BY <2>1, <2>3 DEF Kept, OpenIffReferenced, OpenIsReferenced, ReferencedIsOpen
<1> QED
  BY <1>4, <1>5

\* ~SessionManager, run by thread t.
LEMMA CloseKeeps ==
  ASSUME HoldTypes, Kept, NEW t \in Threads, CloseDrmSession(closing[t]),
         closing' = [closing EXCEPT ![t] = None], UNCHANGED <<holds, early>>
  PROVE  Kept'
<1>1. closing'[t] = None /\ DOMAIN closing' = Threads /\ DOMAIN closing = Threads
      /\ \A u \in Threads : u # t => closing'[u] = closing[u]
  BY DEF HoldTypes
<1>2. Referenced' = Referenced
  BY DEF Referenced
<1>3. Open' = Open \ {closing[t]}
  BY DEF CloseDrmSession, Open, HoldTypes
<1>4. OpenIsReferenced'
  BY <1>1, <1>2, <1>3 DEF Kept, OpenIffReferenced, OpenIsReferenced
<1>5. ReferencedIsOpen'
  BY <1>2, <1>3, NoneIsNone DEF Kept, OpenIffReferenced, ReferencedIsOpen, Referenced
<1>6. \A u \in Threads : closing'[u] # None /\ closing'[u] \in Referenced' => closing'[u] \in early'
  BY <1>1, <1>2 DEF Kept
<1> QED
  BY <1>4, <1>5, <1>6 DEF Kept, OpenIffReferenced

LEMMA OpenStays ==
  ASSUME HoldTypes
  PROVE  /\ UNCHANGED service => Open' = Open
         /\ \A s, active : SetDrmSessionState(s, active) => Open' = Open
         /\ \A s, v : SetPlaybackPosition(s, v) => Open' = Open
  BY DEF Open, SetDrmSessionState, SetPlaybackPosition, HoldTypes

LEMMA CopyIsSame ==
  ASSUME HoldTypes, NEW h \in Holders, NEW g \in Holders, holds[h] = None
  PROVE  SameReferences([holds EXCEPT ![h] = holds[g]])
<1> DEFINE f == [holds EXCEPT ![h] = holds[g]]
<1>1. f[h] = holds[g] /\ \A k \in Holders : k # h => f[k] = holds[k]
  BY DEF HoldTypes
<1> HIDE DEF f
<1>2. \A k \in Holders : f[k] # None => \E j \in Holders : holds[j] = f[k]
  BY <1>1
<1>3. \A k \in Holders : holds[k] # None => \E j \in Holders : f[j] = holds[k]
  BY <1>1
<1> QED
  BY <1>2, <1>3 DEF SameReferences, f

LEMMA StillSame == SameReferences(holds)
  BY DEF SameReferences

\* One object drops its reference, another gets it or keeps what it has.
LEMMA DropKeeps ==
  ASSUME HoldTypes, Kept, NEW t \in Threads, closing[t] = None, NEW h \in Holders,
         NEW g \in Holders,
         \/ Release(t, holds[g], [holds EXCEPT ![g] = holds[h], ![h] = None]) /\ g # h
         \/ Release(t, holds[h], [holds EXCEPT ![h] = None]),
         Open' = Open, UNCHANGED early
  PROVE  Kept'
<1>1. CASE Release(t, holds[g], [holds EXCEPT ![g] = holds[h], ![h] = None]) /\ g # h
  <2> DEFINE f == [holds EXCEPT ![g] = holds[h], ![h] = None]
  <2>1. f[g] = holds[h] /\ f[h] = None /\ \A j \in Holders \ {g, h} : f[j] = holds[j]
    BY <1>1 DEF HoldTypes
  <2> HIDE DEF f
  <2>2. \A j \in Holders : f[j] # None => \E i \in Holders : holds[i] = f[j]
    BY <2>1
  <2>3. \A j \in Holders : holds[j] \notin {None, holds[g]} => \E i \in Holders : f[i] = holds[j]
    BY <2>1
  <2>4. Release(t, holds[g], f) /\ holds[g] \in Sessions \union {None}
    BY <1>1 DEF f, HoldTypes
  <2> QED
    BY <2>2, <2>3, <2>4, SessionReleaseKeeps
<1>2. CASE Release(t, holds[h], [holds EXCEPT ![h] = None])
  <2> DEFINE f == [holds EXCEPT ![h] = None]
  <2>1. f[h] = None /\ \A j \in Holders : j # h => f[j] = holds[j]
    BY DEF HoldTypes
  <2> HIDE DEF f
  <2>2. \A j \in Holders : f[j] # None => \E i \in Holders : holds[i] = f[j]
    BY <2>1
  <2>3. \A j \in Holders : holds[j] \notin {None, holds[h]} => \E i \in Holders : f[i] = holds[j]
    BY <2>1
  <2>4. Release(t, holds[h], f) /\ holds[h] \in Sessions \union {None}
    BY <1>2 DEF f, HoldTypes
  <2>5. PICK s : s = holds[h]
    OBVIOUS
  <2> QED
    BY <2>2, <2>3, <2>4, <2>5, SessionReleaseKeeps
<1> QED
  BY <1>1, <1>2

LEMMA ClientKeepsReferences ==
  ASSUME HoldIInv, Kept, ClientOperation \/ ClientStep
  PROVE  Kept'
<1> USE DEF Begins, ClientGoes, sessionVars
<1>0. HoldTypes /\ ClientCopies /\ LicenceCopies
  BY DEF HoldIInv
<1>h. {"manager", "outer", "inner", "local", "new"} \subseteq Holders /\ Slots \subseteq Holders
      /\ "client" \in Threads
  BY DEF Holders, Threads
<1>1. CASE \/ \E b \in BOOLEAN : setVideoMute(b)
           \/ hideWatermarkOnDetach \/ setVideoWindowSize \/ notifyCleanup
  <2>1. client = "idle" /\ holds' = [holds EXCEPT !["outer"] = holds["manager"]]
        /\ UNCHANGED <<service, closing, early>>
    BY <1>1 DEF setVideoMute, hideWatermarkOnDetach, setVideoWindowSize, notifyCleanup, CopyThen
  <2>2. SameReferences(holds')
    BY <1>0, <1>h, <2>1, CopyIsSame DEF ClientCopies
  <2> QED
    BY <1>0, <2>1, <2>2, OpenStays, ReferencesKeep
<1>2. CASE (\E v \in Speeds, first \in BOOLEAN : setPlaybackSpeedState(v, first)) \/ SpeedAfterUnmute
  <2>1. client \in {"idle", "unmuted"} /\ holds' = [holds EXCEPT !["inner"] = holds["manager"]]
        /\ UNCHANGED <<service, closing, early>>
    BY <1>2 DEF setPlaybackSpeedState, SpeedAfterUnmute, PlaybackSpeed
  <2>2. SameReferences(holds')
    BY <1>0, <1>h, <2>1, CopyIsSame DEF ClientCopies
  <2> QED
    BY <1>0, <2>1, <2>2, OpenStays, ReferencesKeep
<1>3. ASSUME NEW i \in Slots, ClearSlot(i) PROVE Kept'
  <2>1. closing["client"] = None /\ Release("client", holds[i], [holds EXCEPT ![i] = None])
        /\ UNCHANGED <<service, early>>
    BY <1>0, <1>3 DEF ClearSlot, ClientCopies
  <2> QED
    BY <1>0, <1>h, <2>1, OpenStays, DropKeeps
<1>4. CASE UpdateSessionState
  <2>1. Open' = Open /\ UNCHANGED <<closing, early>>
    BY <1>0, <1>4, OpenStays DEF UpdateSessionState
  <2>2. CASE UNCHANGED holds
    BY <1>0, <2>1, <2>2, StillSame, ReferencesKeep
  <2>3. CASE holds' = [holds EXCEPT !["manager"] = None]
    <3>1. holds["outer"] = holds["manager"]
      BY <1>0, <1>4 DEF UpdateSessionState, ClientCopies
    <3>2. /\ holds'["manager"] = None
          /\ \A h \in Holders : h # "manager" => holds'[h] = holds[h]
      BY <1>0, <1>h, <2>3 DEF HoldTypes
    <3>3. \A h \in Holders : holds'[h] # None => \E g \in Holders : holds[g] = holds'[h]
      BY <3>2
    <3>4. \A h \in Holders : holds[h] # None => \E g \in Holders : holds'[g] = holds[h]
      BY <1>h, <3>1, <3>2
    <3> QED
      BY <1>0, <2>1, <3>3, <3>4, ReferencesKeep DEF SameReferences
  <2> QED
    BY <1>4, <2>2, <2>3 DEF UpdateSessionState
<1>5. CASE SendPosition \/ SendWindowSize
  <2>1. Open' = Open /\ UNCHANGED <<holds, closing, early>>
    BY <1>0, <1>5, OpenStays DEF SendPosition, SendWindowSize
  <2> QED
    BY <1>0, <2>1, StillSame, ReferencesKeep
<1>6. CASE DropCopy
  <2>1. PICK h \in {"outer", "inner"} :
          Release("client", holds[h], [holds EXCEPT ![h] = None])
    BY <1>6 DEF DropCopy
  <2>2. closing["client"] = None /\ UNCHANGED <<service, early>> /\ h \in Holders
    BY <1>0, <1>h, <1>6 DEF DropCopy, ClientCopies
  <2> QED
    BY <1>0, <1>h, <2>1, <2>2, OpenStays, DropKeeps
<1>7. CASE ClientReleaseSession
  BY <1>0, <1>h, <1>7, CloseKeeps DEF ClientReleaseSession
<1> QED
  BY <1>1, <1>2, <1>3, <1>4, <1>5, <1>6, <1>7 DEF ClientOperation, ClientStep

LEMMA LicenceKeepsReferences ==
  ASSUME Backend = "thunder", HoldIInv, Kept, LicenceStep
  PROVE  Kept'
<1> USE DEF LicenceGoes, sessionVars
<1>0. HoldTypes /\ ClientCopies /\ LicenceCopies
  BY DEF HoldIInv
<1>h. {"manager", "outer", "inner", "local", "new"} \subseteq Holders /\ Slots \subseteq Holders
      /\ "licence" \in Threads
  BY DEF Holders, Threads
<1>1. ASSUME NEW i \in Slots, ReuseSession(i) PROVE Kept'
  <2>1. /\ holds["manager"] = None /\ holds["local"] = None /\ UNCHANGED <<service, closing, early>>
        /\ holds' = [holds EXCEPT !["manager"] = holds[i], !["local"] = holds[i]]
    BY <1>0, <1>1 DEF ReuseSession, LicenceCopies
  <2>2. /\ holds'["manager"] = holds[i] /\ holds'["local"] = holds[i]
        /\ \A h \in Holders \ {"manager", "local"} : holds'[h] = holds[h]
    BY <1>0, <1>h, <2>1 DEF HoldTypes
  <2>3. \A h \in Holders : holds'[h] # None => \E g \in Holders : holds[g] = holds'[h]
    BY <1>h, <2>2
  <2>4. \A h \in Holders : holds[h] # None => \E g \in Holders : holds'[g] = holds[h]
    BY <1>h, <2>1, <2>2
  <2> QED
    BY <1>0, <2>1, <2>3, <2>4, OpenStays, ReferencesKeep DEF SameReferences
<1>2. CASE \/ \E i \in Slots, given \in Inputs : AcquireLicense(i, given)
           \/ CompareHash \/ ActivateSame \/ ChooseApi \/ ReadSessionID \/ LockSecMutex
           \/ RequestRefused \/ Retry \/ AcquireReturns
  <2>1. Open' = Open /\ UNCHANGED <<holds, closing, early>>
    BY <1>0, <1>2, OpenStays DEF AcquireLicense, CompareHash, ActivateSame, ChooseApi, ReadSessionID, LockSecMutex,
       RequestRefused, Retry, AcquireReturns
  <2> QED
    BY <1>0, <2>1, StillSame, ReferencesKeep
<1>3. CASE ActivateReused
  <2>1. Open' = Open /\ UNCHANGED early /\ closing["licence"] = None
        /\ Release("licence", holds["local"], [holds EXCEPT !["local"] = None])
    BY <1>0, <1>3, OpenStays DEF ActivateReused, LicenceCopies
  <2> QED
    BY <1>0, <1>h, <2>1, DropKeeps
<1>4. CASE RequestGranted
  <2>1. PICK s \in GrantedIn :
          /\ service' = [service EXCEPT ![s] = IF request.muted THEN "inactive" ELSE "active"]
          /\ \E id \in NewSessionId(s) : getSessionManager(id, request.input)
    BY <1>4 DEF RequestGranted
  <2>2. s \in Sessions /\ s # None /\ NewSessionId(s) = {s}
    BY <1>0, NoneIsNone DEF GrantedIn, NewSessionId, Open, HoldTypes
  <2>3. /\ holds' = [holds EXCEPT !["new"] = s] /\ holds["new"] = None
        /\ early' = IF s \notin Referenced /\ s \in {closing[t] : t \in DOMAIN closing}
                    THEN early \union {s} ELSE early
        /\ UNCHANGED closing
    BY <1>0, <1>4, <2>1, <2>2 DEF RequestGranted, getSessionManager, LicenceCopies
  <2>4. Open' = Open \union {s}
    BY <1>0, <2>1, <2>2 DEF Open, HoldTypes
  <2>5. holds'["new"] = s /\ \A h \in Holders : h # "new" => holds'[h] = holds[h]
    BY <1>0, <1>h, <2>3 DEF HoldTypes
  <2>6. \A r \in Sessions : r \in Referenced' <=> r \in Referenced \/ r = s
    BY <1>h, <2>2, <2>3, <2>5 DEF Referenced
  <2>7. Referenced \subseteq Sessions /\ Referenced' \subseteq Sessions /\ Open \subseteq Sessions
    BY <1>0, <2>2, <2>5 DEF Referenced, Open, HoldTypes
  <2>8. DOMAIN closing = Threads
    BY <1>0 DEF HoldTypes
  <2>9. OpenIsReferenced'
    <3> SUFFICES ASSUME NEW r \in Open'
                 PROVE  r \in Referenced' \/ \E t \in Threads : closing[t] = r
      BY <2>3, <2>8 DEF OpenIsReferenced
    <3>1. r \in Open => r \in Referenced \/ \E t \in Threads : closing[t] = r
      BY <2>8 DEF Kept, OpenIffReferenced, OpenIsReferenced
    <3> QED
      BY <2>2, <2>4, <2>6, <2>7, <3>1
  <2>10. ReferencedIsOpen'
    BY <2>3, <2>4, <2>6, <2>7 DEF Kept, OpenIffReferenced, ReferencedIsOpen
  <2>11. \A t \in Threads : closing'[t] # None /\ closing'[t] \in Referenced' => closing'[t] \in early'
    BY <2>3, <2>6, <2>7, <2>8 DEF Kept
  <2> QED
    BY <2>9, <2>10, <2>11 DEF Kept, OpenIffReferenced
<1>5. CASE SaveSession
  <2>1. Open' = Open /\ UNCHANGED early /\ closing["licence"] = None
    BY <1>0, <1>5, OpenStays DEF SaveSession, LicenceCopies
  <2>2. CASE holds["manager"] = None
    <3>1. Release("licence", holds["new"],
                  [holds EXCEPT !["new"] = None, !["manager"] = holds["new"]])
      BY <1>5, <2>2 DEF SaveSession
    <3>2. [holds EXCEPT !["new"] = None, !["manager"] = holds["new"]]
            = [holds EXCEPT !["manager"] = holds["new"], !["new"] = None]
      BY <1>0, <1>h DEF HoldTypes
    <3> DEFINE f == [holds EXCEPT !["manager"] = holds["new"], !["new"] = None]
    <3>3. /\ f["manager"] = holds["new"] /\ f["new"] = None
          /\ \A h \in Holders \ {"manager", "new"} : f[h] = holds[h]
      BY <1>0, <1>h DEF HoldTypes
    <3>4. Release("licence", holds["new"], f) /\ holds["new"] \in Sessions \union {None}
      BY <1>0, <1>h, <3>1, <3>2 DEF HoldTypes
    <3> HIDE DEF f
    <3>5. \A j \in Holders : f[j] # None => \E i \in Holders : holds[i] = f[j]
      BY <1>h, <3>3
    <3>6. \A j \in Holders : holds[j] \notin {None, holds["new"]} => \E i \in Holders : f[i] = holds[j]
      BY <1>h, <2>2, <3>3
    <3> QED
      BY <1>0, <1>h, <2>1, <3>4, <3>5, <3>6, SessionReleaseKeeps
  <2>3. CASE holds["manager"] # None
    <3>1. Release("licence", holds["new"],
                  [holds EXCEPT !["new"] = None, !["manager"] = holds["manager"]])
      BY <1>5, <2>3 DEF SaveSession
    <3>2. [holds EXCEPT !["new"] = None, !["manager"] = holds["manager"]]
            = [holds EXCEPT !["new"] = None]
      BY <1>0, <1>h DEF HoldTypes
    <3> QED
      BY <1>0, <1>h, <2>1, <3>1, <3>2, DropKeeps
  <2> QED
    BY <2>2, <2>3
<1>6. CASE CopyToSlot
  <2>1. holds["local"] = None /\ holds' = [holds EXCEPT !["local"] = holds["manager"]]
        /\ UNCHANGED <<service, closing, early>>
    BY <1>0, <1>6 DEF CopyToSlot, LicenceCopies
  <2>2. SameReferences(holds')
    BY <1>0, <1>h, <2>1, CopyIsSame
  <2> QED
    BY <1>0, <2>1, <2>2, OpenStays, ReferencesKeep
<1>7. CASE setSecManagerSession
  <2>1. /\ request.slot \in Slots /\ closing["licence"] = None /\ UNCHANGED <<service, early>>
        /\ Release("licence", holds[request.slot],
                   [holds EXCEPT ![request.slot] = holds["local"], !["local"] = None])
    BY <1>0, <1>7 DEF setSecManagerSession, LicenceCopies
  <2>2. request.slot # "local"
    BY <2>1, ContentSecurityAssumption
  <2> QED
    BY <1>0, <1>h, <2>1, <2>2, OpenStays, DropKeeps
<1>8. CASE LicenceReleaseSession
  BY <1>0, <1>h, <1>8, CloseKeeps DEF LicenceReleaseSession
<1> QED
  BY <1>1, <1>2, <1>3, <1>4, <1>5, <1>6, <1>7, <1>8 DEF LicenceStep

LEMMA KeptInitially == CSInit => Kept
<1> SUFFICES ASSUME CSInit PROVE Kept
  OBVIOUS
<1>1. Open = {} /\ Referenced = {}
  BY DEF CSInit, Open, Referenced
<1> QED
  BY <1>1 DEF Kept, OpenIffReferenced, OpenIsReferenced, ReferencedIsOpen

(* Every session that is open at the service is referenced or about to be   *)
(* closed, and every one that is referenced is open, except one that was    *)
(* taken for dead when an update of it was granted: over the Thunder        *)
(* service, whose newSession has the id of the session that was opened      *)
(* (ContentSecurityManagerSession.h:61-115, ContentSecurityManager.cpp,      *)
(* DrmSessionManager.cpp).                                                  *)
THEOREM SessionsOpenWhileReferenced ==
  ASSUME Backend = "thunder"
  PROVE  CSSpec => []OpenIffReferenced
<1>1. HoldIInv /\ Kept /\ [CSNext]_csVars => Kept'
  <2>1. ASSUME HoldIInv, Kept, UNCHANGED csVars PROVE Kept'
    <3>1. UNCHANGED <<service, holds, closing, early>>
      BY <2>1 DEF csVars, sessionVars
    <3> QED
      BY <2>1, <3>1, OpenStays, StillSame, ReferencesKeep DEF HoldIInv
  <2> QED
    BY <2>1, ClientKeepsReferences, LicenceKeepsReferences DEF CSNext
<1>2. Kept => OpenIffReferenced
  BY DEF Kept
<1> QED
  BY <1>1, <1>2, HoldInitially, KeptInitially, HoldStep, PTL DEF CSSpec

-----------------------------------------------------------------------------
(* Watermarks.                                                              *)

ShownRight ==
  \A s \in Sessions :
    shown[s] \in {None} \union (IF mute \/ ~firstFrame THEN {} ELSE {speed})

\* Only the session that DrmSessionManager has can show one, and it shows the right
\* one unless the client is on its way to say so.
WatermarkShown ==
  /\ firstFrame \in BOOLEAN
  /\ \A s \in Sessions : shown[s] # None => s = holds["manager"] /\ service[s] = "active"
  /\ client \notin {"state", "position"} => ShownRight
  /\ client = "state" /\ call = "mute" /\ ~mute => ShownRight
  /\ client \in {"unmuted", "position"} => ~mute
  /\ client = "position" => firstFrame

LEMMA LicenceKeepsShown ==
  ASSUME HoldIInv, WatermarkShown, LicenceStep
  PROVE  WatermarkShown'
<1> USE DEF LicenceGoes
<1>0. HoldTypes
  BY DEF HoldIInv
<1>h. {"manager", "outer", "inner", "local", "new"} \subseteq Holders /\ "manager" \notin Slots
  BY ContentSecurityAssumption DEF Holders
<1>1. UNCHANGED clientVars
  BY DEF LicenceStep, ReuseSession, AcquireLicense, ActivateReused, CompareHash, ActivateSame,
     ChooseApi, ReadSessionID, LockSecMutex, RequestGranted, RequestRefused, SaveSession, Retry,
     AcquireReturns, CopyToSlot, setSecManagerSession, LicenceReleaseSession
<1>2. holds["manager"] # None => holds'["manager"] = holds["manager"]
  <2>1. CASE \E i \in Slots : ReuseSession(i) \/ \E given \in Inputs : AcquireLicense(i, given)
    BY <2>1 DEF ReuseSession, AcquireLicense, sessionVars
  <2>2. CASE ActivateReused \/ SaveSession \/ CopyToSlot
    BY <1>0, <1>h, <2>2 DEF ActivateReused, Release, SaveSession, CopyToSlot, HoldTypes
  <2>3. CASE setSecManagerSession
    <3>1. request.slot # "manager"
      BY <1>h, <2>3 DEF setSecManagerSession, HoldIInv, LicenceCopies
    <3> QED
      BY <1>0, <1>h, <2>3, <3>1 DEF setSecManagerSession, Release, HoldTypes
  <2>4. CASE RequestGranted
    BY <1>0, <1>h, <2>4 DEF RequestGranted, getSessionManager, HoldTypes
  <2> QED
    BY <2>1, <2>2, <2>3, <2>4 DEF LicenceStep, CompareHash, ActivateSame, ChooseApi, ReadSessionID,
       LockSecMutex, RequestRefused, Retry, AcquireReturns, LicenceReleaseSession, sessionVars
<1>3. \A s \in Sessions : shown'[s] # None =>
                          shown'[s] = shown[s] /\ (service[s] = "active" => service'[s] = "active")
  <2>1. CASE ActivateReused \/ ActivateSame
    BY <1>0, <2>1 DEF ActivateReused, ActivateSame, SetDrmSessionState, HoldTypes
  <2>2. CASE RequestGranted
    BY <1>0, <2>2 DEF RequestGranted, HoldTypes
  <2>3. CASE LicenceReleaseSession
    BY <1>0, <2>3 DEF LicenceReleaseSession, CloseDrmSession, HoldTypes
  <2> QED
    BY <2>1, <2>2, <2>3 DEF LicenceStep, ReuseSession, AcquireLicense, CompareHash, ChooseApi,
       ReadSessionID, LockSecMutex, RequestRefused, SaveSession, Retry, AcquireReturns,
       CopyToSlot, setSecManagerSession, sessionVars
<1>4. ShownRight => ShownRight'
  BY <1>1, <1>3 DEF ShownRight, clientVars
<1> QED
  BY <1>1, <1>2, <1>3, <1>4, NoneIsNone DEF WatermarkShown, clientVars

LEMMA ClientKeepsShown ==
  ASSUME HoldIInv, WatermarkShown, ClientOperation \/ ClientStep
  PROVE  WatermarkShown'
<1> USE DEF Begins, ClientGoes
<1>0. HoldTypes /\ ClientCopies
  BY DEF HoldIInv
<1>h. {"manager", "outer", "inner", "local", "new"} \subseteq Holders /\ "manager" \notin Slots
  BY ContentSecurityAssumption DEF Holders
<1>1. CASE \/ \E b \in BOOLEAN : setVideoMute(b)
           \/ hideWatermarkOnDetach \/ setVideoWindowSize \/ notifyCleanup
  <2>1. /\ client = "idle" /\ UNCHANGED <<service, shown>>
        /\ holds'["manager"] = holds["manager"]
        /\ \/ client' \in {"state", "window"} /\ holds["manager"] # None
           \/ client' = "idle" /\ holds["manager"] = None
        /\ firstFrame' \in BOOLEAN
    BY <1>0, <1>1, <1>h DEF setVideoMute, hideWatermarkOnDetach, setVideoWindowSize, notifyCleanup,
       CopyThen, HoldTypes, WatermarkShown
  <2>2. \A s \in Sessions : shown'[s] # None => s = holds'["manager"] /\ service'[s] = "active"
    BY <2>1 DEF WatermarkShown
  <2>3. CASE holds["manager"] = None
    <3>1. ShownRight'
      BY <2>2, <2>1, <2>3, NoneIsNone DEF ShownRight
    <3> QED
      BY <2>1, <2>2, <2>3, <3>1 DEF WatermarkShown
  <2>4. CASE holds["manager"] # None
    <3>1. client' = "window" => UNCHANGED <<mute, speed, firstFrame>>
      BY <1>1, <2>1, <2>4 DEF setVideoMute, hideWatermarkOnDetach, setVideoWindowSize, notifyCleanup,
         CopyThen
    <3>2. call' = "mute" => UNCHANGED <<speed, firstFrame>>
      BY <1>1 DEF setVideoMute, hideWatermarkOnDetach, setVideoWindowSize, notifyCleanup
    <3>3. ShownRight
      BY <2>1 DEF WatermarkShown
    <3>4. client' = "window" => ShownRight'
      BY <2>1, <3>1, <3>3 DEF ShownRight
    <3>5. call' = "mute" /\ ~mute' => ShownRight'
      BY <2>1, <3>2, <3>3 DEF ShownRight
    <3> QED
      BY <2>1, <2>2, <2>4, <3>4, <3>5 DEF WatermarkShown
  <2> QED
    BY <2>3, <2>4
<1>2. CASE (\E v \in Speeds, first \in BOOLEAN : setPlaybackSpeedState(v, first)) \/ SpeedAfterUnmute
  <2>1. PICK seen \in BOOLEAN :
          /\ firstFrame' = seen /\ (firstFrame => seen)
          /\ \/ MaySend(seen) /\ client' = "position"
             \/ ~MaySend(seen) /\ client' \in {"drop", "idle"}
          /\ UNCHANGED <<service, shown, mute>> /\ holds'["manager"] = holds["manager"]
    <3>1. ASSUME NEW v \in Speeds, NEW first \in BOOLEAN, setPlaybackSpeedState(v, first)
          PROVE  /\ firstFrame' = (first \/ firstFrame)
                 /\ \/ MaySend(first \/ firstFrame) /\ client' = "position"
                    \/ ~MaySend(first \/ firstFrame) /\ client' \in {"drop", "idle"}
                 /\ UNCHANGED <<service, shown, mute>> /\ holds'["manager"] = holds["manager"]
      BY <1>0, <1>h, <3>1 DEF setPlaybackSpeedState, PlaybackSpeed, HoldTypes
    <3>2. ASSUME SpeedAfterUnmute
          PROVE  /\ firstFrame' = (FALSE \/ firstFrame)
                 /\ \/ MaySend(FALSE \/ firstFrame) /\ client' = "position"
                    \/ ~MaySend(FALSE \/ firstFrame) /\ client' \in {"drop", "idle"}
                 /\ UNCHANGED <<service, shown, mute>> /\ holds'["manager"] = holds["manager"]
      BY <1>0, <1>h, <3>2 DEF SpeedAfterUnmute, PlaybackSpeed, HoldTypes
    <3>3. \A first \in BOOLEAN : (first \/ firstFrame) \in BOOLEAN
      OBVIOUS
    <3> QED
      BY <1>2, <3>1, <3>2, <3>3
  <2>2. \A s \in Sessions : shown'[s] # None => s = holds'["manager"] /\ service'[s] = "active"
    BY <2>1 DEF WatermarkShown
  <2>3. CASE MaySend(seen)
    BY <2>1, <2>2, <2>3 DEF MaySend, WatermarkShown
  <2>4. CASE ~MaySend(seen)
    <3>1. ShownRight
      BY <1>2 DEF WatermarkShown, setPlaybackSpeedState, SpeedAfterUnmute
    <3>2. ShownRight'
      BY <2>1, <2>2, <2>4, <3>1, NoneIsNone DEF MaySend, ShownRight
    <3> QED
      BY <2>1, <2>2, <2>4, <3>2 DEF WatermarkShown
  <2> QED
    BY <2>3, <2>4
<1>3. CASE UpdateSessionState
  <2>1. holds["outer"] = holds["manager"] /\ client = "state"
    BY <1>0, <1>3 DEF UpdateSessionState, ClientCopies
  <2>2. CASE call = "mute" /\ ~mute
    <3>1. /\ UNCHANGED <<shown, holds, speed, mute>> /\ firstFrame' = firstFrame
          /\ \A s \in Sessions : service[s] = "active" => service'[s] = "active"
          /\ client' = "unmuted"
      BY <1>0, <1>3, <2>2 DEF UpdateSessionState, SetDrmSessionState, HoldTypes, WatermarkShown
    <3>2. ShownRight'
      BY <2>1, <2>2, <3>1 DEF WatermarkShown, ShownRight
    <3> QED
      BY <2>2, <3>1, <3>2 DEF WatermarkShown
  <2>3. CASE ~(call = "mute" /\ ~mute)
    <3>1. \A s \in Sessions : shown'[s] = None
      BY <1>0, <1>3, <2>1, <2>3 DEF UpdateSessionState, SetDrmSessionState, HoldTypes, WatermarkShown,
         Open
    <3>2. client' = "drop" /\ firstFrame' \in BOOLEAN
      BY <1>3, <2>3 DEF UpdateSessionState, WatermarkShown
    <3> QED
      BY <3>1, <3>2 DEF WatermarkShown, ShownRight
  <2> QED
    BY <2>2, <2>3
<1>4. CASE SendPosition
  <2>1. holds["inner"] = holds["manager"] /\ client' = "drop" /\ ~mute /\ firstFrame
        /\ UNCHANGED <<service, holds, mute, firstFrame, speed>>
    BY <1>0, <1>4 DEF SendPosition, SetPlaybackPosition, ClientCopies, WatermarkShown
  <2>2. \A s \in Sessions : shown'[s] # None => s = holds["manager"] /\ service[s] = "active"
    BY <1>0, <1>4, <2>1 DEF SendPosition, SetPlaybackPosition, HoldTypes, WatermarkShown
  <2>3. \A s \in Sessions : shown'[s] # None => shown'[s] = speed
    BY <1>0, <1>4, <2>1, <2>2 DEF SendPosition, SetPlaybackPosition, HoldTypes, WatermarkShown, Open
  <2>4. ShownRight'
    BY <2>1, <2>3 DEF ShownRight
  <2> QED
    BY <2>1, <2>2, <2>4 DEF WatermarkShown
<1>5. CASE (\E i \in Slots : ClearSlot(i)) \/ SendWindowSize \/ DropCopy \/ ClientReleaseSession
  <2>1. /\ UNCHANGED <<mute, speed, firstFrame>> /\ client' \in {"idle", "drop", "close"}
        /\ client \notin {"state", "position"}
        /\ holds'["manager"] = holds["manager"]
    BY <1>0, <1>5, <1>h DEF ClearSlot, SendWindowSize, DropCopy, ClientReleaseSession, Release, sessionVars,
       HoldTypes
  <2>2. \A s \in Sessions : shown'[s] # None =>
                            shown'[s] = shown[s] /\ (service[s] = "active" => service'[s] = "active")
    BY <1>0, <1>5 DEF ClearSlot, SendWindowSize, DropCopy, ClientReleaseSession, CloseDrmSession, sessionVars,
       HoldTypes
  <2>3. ShownRight'
    BY <2>1, <2>2 DEF ShownRight, WatermarkShown
  <2> QED
    BY <2>1, <2>2, <2>3 DEF WatermarkShown
<1> QED
  BY <1>1, <1>2, <1>3, <1>4, <1>5 DEF ClientOperation, ClientStep

(* When the application is not in a call, the watermark that the service    *)
(* shows, if it shows one, has the current speed, the video is not muted    *)
(* and a first frame was reported, whatever the licence thread opened,      *)
(* activated or closed meanwhile, over either service                       *)
(* (DrmSessionManager.cpp:189-296, 505-509 and 649-656).                    *)
THEOREM WatermarkAsAsked == CSSpec => []ShownAsAsked
<1>1. CSInit => WatermarkShown
  BY DEF CSInit, WatermarkShown, ShownRight
<1>2. HoldIInv /\ WatermarkShown /\ [CSNext]_csVars => WatermarkShown'
  <2>1. ASSUME WatermarkShown, UNCHANGED csVars PROVE WatermarkShown'
    BY <2>1 DEF csVars, sessionVars, clientVars, WatermarkShown, ShownRight
  <2> QED
    BY <2>1, ClientKeepsShown, LicenceKeepsShown DEF CSNext
<1>3. WatermarkShown => ShownAsAsked
  BY DEF WatermarkShown, ShownRight, ShownAsAsked, AtRest
<1> QED
  BY <1>1, <1>2, <1>3, HoldInitially, HoldStep, PTL DEF CSSpec

-----------------------------------------------------------------------------
(* The display and the network interface.                                   *)

DisplayEvents == Resolutions \union {"hotplug", "hdcp"}
Reads == {"hotplug", "hdcp"}
LastOf(q) == q[Len(q)]

DisplayTypes ==
  /\ fake \in BOOLEAN /\ changed \in BOOLEAN /\ gstElement \in BOOLEAN
  /\ hdmi \in Displays \union {Unplugged}
  /\ asked \in DisplayStatuses \union {NotMade} /\ handled \in DisplayStatuses
  /\ displayEvents \in Seq(DisplayEvents)

InterfaceTypes ==
  /\ interface \in {"wlan0", "eth0"} /\ interfaceEvents \in Seq({"wlan0", "eth0"})
  /\ query \in {"none", "WIFI", "ETHERNET", "failed"}
  /\ registered \in BOOLEAN /\ isInterfaceWifi \in BOOLEAN /\ missed \in BOOLEAN

\* What the constructor read, and the pointer to the decoder.
AskedSays ==
  /\ asked # NotMade /\ ~changed /\ ~fake => SaysOf(asked)
  /\ gstElement => source # "none" /\ asked # NotMade

\* No handler runs before it is registered.  The handlers know the protocol unless an
\* event is on its way that makes them read it, and the last event says the
\* resolution or makes them read it.
HandlersFollow ==
  /\ fake \/ asked = NotMade => displayEvents = <<>> /\ handled.read = "never"
  /\ displayEvents # <<>> => LastOf(displayEvents) \in Reads \union {hdmi.resolution}
  /\ handled.read = "whole" =>
       /\ (\A k \in 1..Len(displayEvents) : displayEvents[k] \notin Reads) =>
            /\ hdmi.hdcp \in Protocols => handled.protocol = hdmi.hdcp
            /\ hdmi.hdcp = "unplugged" => handled.protocol = "1X"
       /\ displayEvents = <<>> => handled.resolution \in {hdmi.resolution, ReadResolution}

\* The same of the interface, with the query in place of the read.
InterfaceFollows ==
  /\ registered \/ query # "none" => ~fake
  /\ interfaceEvents # <<>> => registered /\ LastOf(interfaceEvents) = interface
  /\ query # "none" /\ ~missed =>
       query = (IF interface = "wlan0" THEN "WIFI" ELSE "ETHERNET")
  /\ registered /\ interfaceEvents = <<>> /\ query = "none" /\ ~missed
       => (isInterfaceWifi <=> interface = "wlan0")

ExternalsIInv ==
  DisplayTypes /\ InterfaceTypes /\ AskedSays /\ HandlersFollow /\ InterfaceFollows

LEMMA HandlesFirst ==
  ASSUME NEW S, NEW q \in Seq(S), q # <<>>
  PROVE  /\ Head(q) \in S /\ Tail(q) \in Seq(S) /\ Head(q) = q[1]
         /\ Tail(q) # <<>> => LastOf(Tail(q)) = LastOf(q)
         /\ Tail(q) = <<>> => LastOf(q) = Head(q)
         /\ \A k \in 1..Len(q) :
              k = 1 \/ (k - 1 \in 1..Len(Tail(q)) /\ q[k] = Tail(q)[k - 1])
<1>1. Len(q) \in Nat \ {0} /\ Head(q) = q[1]
  BY EmptySeq
<1>2. /\ Head(q) \in S /\ Tail(q) \in Seq(S) /\ Len(Tail(q)) = Len(q) - 1
      /\ \A i \in 1..(Len(q) - 1) : Tail(q)[i] = q[i + 1]
  BY HeadTailProperties
<1>3. Tail(q) # <<>> => Len(q) - 1 \in 1..(Len(q) - 1)
  BY <1>1, <1>2, EmptySeq
<1>4. Tail(q) = <<>> => Len(q) = 1
  BY <1>1, <1>2, EmptySeq
<1>5. \A k \in 1..Len(q) : k = 1 \/ (k - 1 \in 1..(Len(q) - 1) /\ q[k] = Tail(q)[k - 1])
  BY <1>1, <1>2
<1> QED
  BY <1>1, <1>2, <1>3, <1>4, <1>5 DEF LastOf

LEMMA ExternalsInitially == ExternalsInit => ExternalsIInv
<1> SUFFICES ASSUME ExternalsInit PROVE ExternalsIInv
  OBVIOUS
<1> USE DEF ExternalsInit
<1>1. DisplayTypes
  <2>1. displayEvents \in Seq(DisplayEvents)
    BY EmptySeq
  <2>2. handled \in DisplayStatuses
    BY DEF DisplayStatuses, Garbage
  <2> QED
    BY <2>1, <2>2 DEF DisplayTypes
<1>2. InterfaceTypes
  <2>1. interfaceEvents \in Seq({"wlan0", "eth0"})
    BY EmptySeq
  <2> QED
    BY <2>1 DEF InterfaceTypes
<1>3. AskedSays
  BY DEF AskedSays
<1>4. HandlersFollow
  BY DEF HandlersFollow, Garbage
<1>5. InterfaceFollows
  BY DEF InterfaceFollows
<1> QED
  BY <1>1, <1>2, <1>3, <1>4, <1>5 DEF ExternalsIInv

\* What a read of the display leaves.
LEMMA ReadIsTrue ==
  ASSUME hdmi \in Displays \union {Unplugged},
         NEW s, s.protocol \in Protocols, s.resolution \in Resolutions \union {"NA", "unknown"},
         NEW r \in SetHDMIStatus(s)
  PROVE  /\ r \in DisplayStatuses
         /\ r.read # "never"
         /\ r.read = "whole" =>
              /\ hdmi.hdcp \in Protocols => r.protocol = hdmi.hdcp
              /\ hdmi.hdcp = "unplugged" => r.protocol = "1X"
              /\ r.resolution = ReadResolution
<1>1. /\ ReadResolution \in Resolutions \union {"NA", "unknown"}
      /\ \A b \in Protocols : ReadProtocol(b) \in Protocols
  BY DEF ReadResolution, ReadProtocol, Connected, Displays, Unplugged, Protocols
<1>2. hdmi.hdcp \in Protocols => Connected
  BY DEF Connected, Unplugged, Protocols
<1>3. hdmi.hdcp = "unplugged" => ~Connected
  BY DEF Connected, Unplugged, Displays, Protocols
<1> QED
  BY <1>1, <1>2, <1>3 DEF SetHDMIStatus, DisplayStatuses, ReadProtocol, Protocols

LEMMA DisplayKeeps ==
  ASSUME ExternalsIInv, DisplayNext
  PROVE  ExternalsIInv'
<1> USE DEF displayVars, sourceVars, interfaceVars
<1>0. DisplayTypes /\ InterfaceTypes /\ AskedSays /\ HandlersFollow /\ InterfaceFollows
  BY DEF ExternalsIInv
<1>1. CASE GetPlayerExternalsInterfaceInstance
  <2>1. /\ asked = NotMade /\ changed' = FALSE
        /\ UNCHANGED <<fake, hdmi, displayEvents, handled, source, gstElement, interfaceVars>>
    BY <1>1 DEF GetPlayerExternalsInterfaceInstance
  <2>2. asked' \in DisplayStatuses /\ (~fake => SaysOf(asked)')
    <3>1. CASE fake
      BY <1>1, <3>1 DEF GetPlayerExternalsInterfaceInstance, FakeStatus, DisplayStatuses, Protocols
    <3>2. CASE ~fake
      <4>1. PICK s \in Garbage : asked' \in SetHDMIStatus(s)
        BY <1>1, <3>2 DEF GetPlayerExternalsInterfaceInstance
      <4>2. s.protocol \in Protocols /\ s.resolution = "NA"
        BY <4>1 DEF Garbage
      <4> QED
        BY <1>0, <2>1, <4>1, <4>2, ReadIsTrue DEF SaysOf, DisplayTypes, ReadResolution
    <3> QED
      BY <3>1, <3>2
  <2>3. DisplayTypes' /\ InterfaceTypes' /\ InterfaceFollows'
    BY <1>0, <2>1, <2>2 DEF DisplayTypes, InterfaceTypes, InterfaceFollows
  <2>4. AskedSays'
    BY <1>0, <2>1, <2>2 DEF AskedSays, SaysOf, ReadResolution
  <2>5. HandlersFollow'
    BY <1>0, <2>1 DEF HandlersFollow, ReadResolution
  <2> QED
    BY <2>3, <2>4, <2>5 DEF ExternalsIInv
<1>2. CASE DisplayChanges
  <2>1. PICK d, event :
          /\ Changes(d, event)
          /\ d \in Displays \union {Unplugged} /\ event \in DisplayEvents
          /\ event \in Reads \/ (event = d.resolution /\ d.hdcp = hdmi.hdcp)
    <3> USE DEF DisplayEvents, Reads
    <3>1. CASE Changes(Unplugged, "hotplug")
      BY <3>1
    <3>2. ASSUME NEW r \in Resolutions, Changes([hdcp |-> "none", resolution |-> r], "hotplug")
          PROVE  \E d, event : /\ Changes(d, event)
                               /\ d \in Displays \union {Unplugged} /\ event \in DisplayEvents
                               /\ event \in Reads
      <4>1. [hdcp |-> "none", resolution |-> r] \in Displays
        BY DEF Displays
      <4> QED
        BY <3>2, <4>1
    <3>3. ASSUME Connected, NEW p \in {"none"} \union Protocols,
                 Changes([hdmi EXCEPT !.hdcp = p], "hdcp")
          PROVE  \E d, event : /\ Changes(d, event)
                               /\ d \in Displays \union {Unplugged} /\ event \in DisplayEvents
                               /\ event \in Reads
      <4>1. [hdmi EXCEPT !.hdcp = p] \in Displays
        BY <1>0, <3>3 DEF Connected, DisplayTypes, Displays
      <4> QED
        BY <3>3, <4>1
    <3>4. ASSUME Connected, NEW r \in Resolutions, Changes([hdmi EXCEPT !.resolution = r], r)
          PROVE  \E d, event : /\ Changes(d, event)
                               /\ d \in Displays \union {Unplugged} /\ event \in DisplayEvents
                               /\ event = d.resolution /\ d.hdcp = hdmi.hdcp
      <4>1. /\ [hdmi EXCEPT !.resolution = r] \in Displays
            /\ [hdmi EXCEPT !.resolution = r].resolution = r
            /\ [hdmi EXCEPT !.resolution = r].hdcp = hdmi.hdcp
        BY <1>0, <3>4 DEF Connected, DisplayTypes, Displays
      <4> QED
        BY <3>4, <4>1
    <3> QED
      BY <1>2, <3>1, <3>2, <3>3, <3>4 DEF DisplayChanges
  <2>2. /\ hdmi' = d /\ changed' = TRUE
        /\ UNCHANGED <<fake, asked, handled, source, gstElement, interfaceVars>>
        /\ displayEvents' = IF fake \/ asked = NotMade THEN displayEvents
                            ELSE Append(displayEvents, event)
    BY <2>1 DEF Changes
  <2>3. DisplayTypes' /\ InterfaceTypes' /\ InterfaceFollows' /\ AskedSays'
    BY <1>0, <2>1, <2>2 DEF DisplayTypes, InterfaceTypes, InterfaceFollows, AskedSays
  <2>4. CASE fake \/ asked = NotMade
    <3>1. HandlersFollow'
      BY <1>0, <2>2, <2>4 DEF HandlersFollow
    <3> QED
      BY <2>3, <3>1 DEF ExternalsIInv
  <2>5. CASE ~(fake \/ asked = NotMade)
    <3>1. /\ displayEvents' # <<>> /\ LastOf(displayEvents)' = event
          /\ Len(displayEvents') = Len(displayEvents) + 1
          /\ \A k \in 1..Len(displayEvents) :
               k \in 1..Len(displayEvents') /\ displayEvents'[k] = displayEvents[k]
      BY <1>0, <2>2, <2>5 DEF DisplayTypes, LastOf
    <3>2. Len(displayEvents') \in 1..Len(displayEvents')
      BY <1>0, <3>1 DEF DisplayTypes
    <3>3. HandlersFollow'
      BY <1>0, <2>1, <2>2, <2>5, <3>1, <3>2 DEF HandlersFollow, LastOf
    <3> QED
      BY <2>3, <3>3 DEF ExternalsIInv
  <2> QED
    BY <2>4, <2>5
<1>3. CASE HandleDisplayEvent
  <2>1. /\ displayEvents # <<>> /\ displayEvents' = Tail(displayEvents)
        /\ UNCHANGED <<fake, hdmi, asked, changed, source, gstElement, interfaceVars>>
        /\ ~fake /\ asked # NotMade
    BY <1>0, <1>3 DEF HandleDisplayEvent, HandlersFollow
  <2>2. /\ displayEvents' \in Seq(DisplayEvents)
        /\ Head(displayEvents) \in DisplayEvents
        /\ Head(displayEvents) = displayEvents[1]
        /\ displayEvents' # <<>> => LastOf(displayEvents)' = LastOf(displayEvents)
        /\ displayEvents' = <<>> => LastOf(displayEvents) = Head(displayEvents)
        /\ \A k \in 1..Len(displayEvents) :
             k = 1 \/ (k - 1 \in 1..Len(displayEvents') /\ displayEvents[k] = displayEvents'[k - 1])
    BY <1>0, <2>1, HandlesFirst DEF DisplayTypes, LastOf
  <2>3. CASE Head(displayEvents) \in Reads
    <3>1. handled' \in SetHDMIStatus(handled)
      BY <1>3, <2>3 DEF HandleDisplayEvent, Reads
    <3>2. /\ handled' \in DisplayStatuses /\ handled'.read # "never"
          /\ handled'.read = "whole" =>
               /\ hdmi.hdcp \in Protocols => handled'.protocol = hdmi.hdcp
               /\ hdmi.hdcp = "unplugged" => handled'.protocol = "1X"
               /\ handled'.resolution = ReadResolution
      BY <1>0, <3>1, ReadIsTrue DEF DisplayTypes, DisplayStatuses
    <3>3. DisplayTypes' /\ InterfaceTypes' /\ InterfaceFollows' /\ AskedSays'
      BY <1>0, <2>1, <2>2, <3>2 DEF DisplayTypes, InterfaceTypes, InterfaceFollows, AskedSays,
         SaysOf, ReadResolution
    <3>4. HandlersFollow'
      BY <1>0, <2>1, <2>2, <3>2 DEF HandlersFollow, ReadResolution
    <3> QED
      BY <3>3, <3>4 DEF ExternalsIInv
  <2>4. CASE Head(displayEvents) \notin Reads
    <3>1. handled' = [handled EXCEPT !.resolution = Head(displayEvents)]
      BY <1>3, <2>4 DEF HandleDisplayEvent, Reads
    <3>2. /\ handled' \in DisplayStatuses
          /\ handled'.read = handled.read /\ handled'.protocol = handled.protocol
          /\ handled'.resolution = Head(displayEvents)
      BY <1>0, <2>2, <2>4, <3>1 DEF DisplayTypes, DisplayStatuses, DisplayEvents, Reads
    <3>3. DisplayTypes' /\ InterfaceTypes' /\ InterfaceFollows' /\ AskedSays'
      BY <1>0, <2>1, <2>2, <3>2 DEF DisplayTypes, InterfaceTypes, InterfaceFollows, AskedSays,
         SaysOf, ReadResolution
    <3>4. (\A k \in 1..Len(displayEvents') : displayEvents'[k] \notin Reads)
            => \A k \in 1..Len(displayEvents) : displayEvents[k] \notin Reads
      BY <2>2, <2>4
    <3>5. HandlersFollow'
      BY <1>0, <2>1, <2>2, <2>4, <3>2, <3>4 DEF HandlersFollow, ReadResolution
    <3> QED
      BY <3>3, <3>5 DEF ExternalsIInv
  <2> QED
    BY <2>3, <2>4
<1>4. CASE DecoderStarts \/ DecoderStateChanged \/ StopClearsElement
  <2>1. /\ UNCHANGED <<fake, displayVars, interfaceVars>> /\ gstElement' \in BOOLEAN
        /\ gstElement' => source' # "none" /\ asked # NotMade
    <3>1. CASE DecoderStarts
      BY <1>0, <3>1 DEF DecoderStarts, AskedSays, DisplayTypes
    <3>2. CASE DecoderStateChanged
      BY <1>0, <3>2 DEF DecoderStateChanged, AskedSays, DisplayTypes
    <3>3. CASE StopClearsElement
      BY <1>0, <3>3 DEF StopClearsElement, AskedSays, DisplayTypes
    <3> QED
      BY <1>4, <3>1, <3>2, <3>3
  <2>2. DisplayTypes' /\ InterfaceTypes' /\ InterfaceFollows'
    BY <1>0, <2>1 DEF DisplayTypes, InterfaceTypes, InterfaceFollows
  <2>3. AskedSays'
    BY <1>0, <2>1 DEF AskedSays, SaysOf, ReadResolution
  <2>4. HandlersFollow'
    BY <1>0, <2>1 DEF HandlersFollow, ReadResolution
  <2> QED
    BY <2>2, <2>3, <2>4 DEF ExternalsIInv
<1> QED
  BY <1>1, <1>2, <1>3, <1>4 DEF DisplayNext

LEMMA NetworkKeeps ==
  ASSUME ExternalsIInv, NetworkNext
  PROVE  ExternalsIInv'
<1> USE DEF displayVars, sourceVars, interfaceVars
<1>0. DisplayTypes /\ InterfaceTypes /\ AskedSays /\ HandlersFollow /\ InterfaceFollows
  BY DEF ExternalsIInv
<1>1. UNCHANGED <<fake, displayVars, sourceVars>>
  BY DEF NetworkNext, QueryInterface, IsActiveStreamingInterfaceWifi, InterfaceChanges,
     HandleInterfaceEvent
<1>2. DisplayTypes' /\ AskedSays' /\ HandlersFollow'
  BY <1>0, <1>1 DEF DisplayTypes, AskedSays, SaysOf, HandlersFollow, ReadResolution
<1>3. CASE QueryInterface \/ IsActiveStreamingInterfaceWifi
  <2>1. InterfaceTypes' /\ InterfaceFollows'
    <3>1. CASE QueryInterface
      BY <1>0, <3>1 DEF QueryInterface, InterfaceTypes, InterfaceFollows, LastOf
    <3>2. CASE IsActiveStreamingInterfaceWifi
      BY <1>0, <3>2 DEF IsActiveStreamingInterfaceWifi, InterfaceTypes, InterfaceFollows, LastOf
    <3> QED
      BY <1>3, <3>1, <3>2
  <2> QED
    BY <1>2, <2>1 DEF ExternalsIInv
<1>4. CASE InterfaceChanges
  <2>1. InterfaceTypes'
    BY <1>0, <1>4 DEF InterfaceChanges, InterfaceTypes
  <2>2. registered => interfaceEvents' # <<>> /\ LastOf(interfaceEvents)' = interface'
    BY <1>0, <1>4, <2>1 DEF InterfaceChanges, InterfaceTypes, LastOf
  <2>3. interfaceEvents # <<>> => registered
    BY <1>0 DEF InterfaceFollows
  <2>4. InterfaceFollows'
    BY <1>0, <1>4, <2>2, <2>3 DEF InterfaceChanges, InterfaceTypes, InterfaceFollows
  <2> QED
    BY <1>2, <2>1, <2>4 DEF ExternalsIInv
<1>5. CASE HandleInterfaceEvent
  <2>1. /\ interfaceEvents' \in Seq({"wlan0", "eth0"})
        /\ interfaceEvents' # <<>> => LastOf(interfaceEvents)' = LastOf(interfaceEvents)
        /\ interfaceEvents' = <<>> => LastOf(interfaceEvents) = Head(interfaceEvents)
    BY <1>0, <1>5, HandlesFirst DEF HandleInterfaceEvent, InterfaceTypes
  <2>2. InterfaceTypes' /\ InterfaceFollows'
    BY <1>0, <1>5, <2>1 DEF HandleInterfaceEvent, InterfaceTypes, InterfaceFollows
  <2> QED
    BY <1>2, <2>2 DEF ExternalsIInv
<1> QED
  BY <1>3, <1>4, <1>5 DEF NetworkNext

LEMMA ExternalsStep == ExternalsIInv /\ [ExternalsNext]_externalsVars => ExternalsIInv'
<1> SUFFICES ASSUME ExternalsIInv, [ExternalsNext]_externalsVars PROVE ExternalsIInv'
  OBVIOUS
<1>1. CASE UNCHANGED externalsVars
  BY <1>1 DEF externalsVars, displayVars, sourceVars, interfaceVars, ExternalsIInv, DisplayTypes,
     InterfaceTypes, AskedSays, SaysOf, HandlersFollow, ReadResolution, InterfaceFollows
<1> QED
  BY <1>1, DisplayKeeps, NetworkKeeps DEF ExternalsNext

(* However often the display is plugged and protected otherwise, and the    *)
(* interface changes: output protection is decided by the display that the  *)
(* constructor read, the handlers know the display once they ran, and the   *)
(* interface is the active one unless it changed during the query           *)
(* (PlayerExternalsRdkInterface.cpp and OCDMSessionAdapter.cpp).            *)
THEOREM ExternalsAreFollowed == ExternalsSpec => []ExternalsFollow
<1>1. ASSUME ExternalsIInv PROVE ExternalsFollow
  <2>0. DisplayTypes /\ InterfaceTypes /\ AskedSays /\ HandlersFollow /\ InterfaceFollows
    BY <1>1 DEF ExternalsIInv
  <2>1. asked # NotMade /\ ~changed /\ ~fake => SaysOf(asked)
    BY <2>0 DEF AskedSays
  <2>2. (gstElement /\ ~changed /\ ~fake /\ asked.read = "whole" /\ hdmi.hdcp # "none")
          => (VerifyOutputProtection <=> (source = "uhd" => hdmi.hdcp = "2X"))
    <3>1. hdmi.hdcp \in {"none", "unplugged"} \union Protocols
      BY <2>0 DEF DisplayTypes, Displays, Unplugged
    <3> QED
      BY <2>0, <3>1 DEF AskedSays, SaysOf, VerifyOutputProtection, IsSourceUHD,
         isHDCPConnection2_2, Protocols
  <2>3. displayEvents = <<>> /\ handled.read # "never" => SaysOf(handled)
    <3>1. displayEvents = <<>> => \A k \in 1..Len(displayEvents) : displayEvents[k] \notin Reads
      OBVIOUS
    <3> QED
      BY <2>0, <3>1 DEF HandlersFollow, SaysOf
  <2>4. (registered /\ interfaceEvents = <<>> /\ query = "none" /\ ~missed)
          => GetActiveInterface = (interface = "wlan0")
    BY <2>0 DEF InterfaceFollows, InterfaceTypes, DisplayTypes, GetActiveInterface
  <2> QED
    BY <2>0, <2>1, <2>2, <2>3, <2>4 DEF AskedSays, ExternalsFollow
<1> QED
  BY <1>1, ExternalsInitially, ExternalsStep, PTL DEF ExternalsSpec

-----------------------------------------------------------------------------
(* Calls of a Thunder plugin.                                               *)

\* A part of the screen, scaled to the display, is no larger a part of it.
LEMMA ScalingKeepsInside ==
  ASSUME NEW x \in Nat, NEW w \in Nat, NEW d \in Nat, NEW s \in Nat \ {0}, x + w <= s
  PROVE  (x * d) \div s + (w * d) \div s <= d
<1>1. \A p \in Nat : p \div s \in Nat /\ s * (p \div s) <= p
  OBVIOUS
<1> DEFINE a == (x * d) \div s
           b == (w * d) \div s
<1>2. x * d \in Nat /\ w * d \in Nat
  OBVIOUS
<1>3. a \in Nat /\ b \in Nat /\ s * a <= x * d /\ s * b <= w * d
  BY <1>1, <1>2
<1> HIDE DEF a, b
<1>4. s * (a + b) = s * a + s * b /\ x * d + w * d = (x + w) * d
  BY <1>3
<1>5. (x + w) * d <= s * d
  OBVIOUS
<1>6. s * (a + b) <= s * d
  BY <1>2, <1>3, <1>4, <1>5
<1>7. a + b <= d
  <2> SUFFICES ASSUME a + b >= d + 1 PROVE FALSE
    BY <1>3
  <2>1. s * (a + b) >= s * (d + 1)
    BY <1>3
  <2>2. s * (d + 1) = s * d + s
    OBVIOUS
  <2> QED
    BY <1>3, <1>6, <2>1, <2>2
<1> QED
  BY <1>7 DEF a, b

EventsOfShim(c) ==
  CASE c = "videoin" -> {"onInputStatusChanged", "onSignalChanged", "videoStreamInfoUpdate"}
    [] c = "ota" -> {"onPlayerStatus"}
    [] c = "rmf" -> {"onStatusChanged", "onError"}
    [] OTHER -> {}

ThunderTypes ==
  /\ thunder \in BOOLEAN /\ shim \in Shims
  /\ wanted \in BOOLEAN /\ mEventSubscribed \in BOOLEAN /\ stopFailed \in BOOLEAN
  /\ registering \in Seq(callbacks \intersect EventsOfShim(shim))
  /\ mRegisteredEvents \in Seq(Events)
  /\ input \in Ports \union {-1} /\ videoInputPort \in Ports \union {-1}

\* What each shim keeps of its subscriptions covers them.
SubscriptionsKept ==
  /\ subscribed \subseteq callbacks \intersect EventsOfShim(shim)
  /\ ~wanted => subscribed = {} /\ registering = <<>>
  /\ shim = "videoin" => subscribed \subseteq ToSet(mRegisteredEvents)
  /\ shim = "ota" =>
       /\ subscribed # {} => mEventSubscribed
       /\ registering # <<>> => subscribed = {} /\ registering = <<"onPlayerStatus">>

InputCanStop == input >= 0 => videoInputPort >= 0 \/ stopFailed

PictureInside ==
  rectangle # <<>> => \A width \in rectangle[3] : rectangle[1] + rectangle[2] <= width

ThunderIInv == ThunderTypes /\ SubscriptionsKept /\ InputCanStop /\ PictureInside

LEMMA ThunderInitially == ThunderInit => ThunderIInv
<1> SUFFICES ASSUME ThunderInit PROVE ThunderIInv
  OBVIOUS
<1> USE DEF ThunderInit
<1>1. ThunderTypes
  <2>1. registering \in Seq(callbacks \intersect EventsOfShim(shim)) /\ mRegisteredEvents \in Seq(Events)
    BY EmptySeq
  <2> QED
    BY <2>1 DEF ThunderTypes
<1>2. SubscriptionsKept /\ InputCanStop /\ PictureInside
  BY DEF SubscriptionsKept, InputCanStop, PictureInside
<1> QED
  BY <1>1, <1>2 DEF ThunderIInv

\* Calls that leave the subscriptions alone.
LEMMA OthersKeep ==
  ASSUME ThunderIInv, UNCHANGED <<thunder, shim, linkVars>>,
         UNCHANGED inputVars \/ StartHelperVideoin \/ StopHelperVideoin,
         PictureInside'
  PROVE  ThunderIInv'
<1> USE DEF linkVars, inputVars
<1>1. ThunderTypes'
  BY DEF ThunderIInv, ThunderTypes, StartHelperVideoin, StopHelperVideoin, KeepsPort
<1>2. SubscriptionsKept'
  BY DEF ThunderIInv, SubscriptionsKept
<1>3. InputCanStop'
  <2>0. /\ input \in Ports \union {-1} /\ stopFailed \in BOOLEAN /\ Ports \subseteq Nat
        /\ InputCanStop
    BY ThunderAssumption DEF ThunderIInv, ThunderTypes
  <2>1. CASE UNCHANGED inputVars
    BY <2>0, <2>1 DEF InputCanStop
  <2>2. CASE StartHelperVideoin
    <3>1. videoInputPort' \in Ports
      BY <2>2 DEF StartHelperVideoin, KeepsPort
    <3> QED
      BY <2>0, <3>1 DEF InputCanStop
  <2>3. CASE StopHelperVideoin
    <3>1. CASE videoInputPort >= 0
      <4>1. PICK o \in Outcomes : /\ input' = IF o.did THEN -1 ELSE input
                                  /\ stopFailed' = (stopFailed \/ ~o.did)
        BY <2>3, <3>1 DEF StopHelperVideoin
      <4>2. CASE o.did
        BY <4>1, <4>2 DEF InputCanStop
      <4>3. CASE ~o.did
        BY <4>1, <4>3 DEF InputCanStop
      <4> QED
        BY <4>2, <4>3
    <3>2. CASE ~(videoInputPort >= 0)
      BY <2>0, <2>3, <3>2 DEF StopHelperVideoin, InputCanStop
    <3> QED
      BY <3>1, <3>2
  <2> QED
    BY <2>1, <2>2, <2>3
<1> QED
  BY <1>1, <1>2, <1>3 DEF ThunderIInv

LEMMA PictureKeeps ==
  ASSUME ThunderIInv, SetVideoRectangle
  PROVE  ThunderIInv'
<1>1. UNCHANGED <<thunder, shim, linkVars, inputVars>>
  BY DEF SetVideoRectangle, Calls
<1>2. PICK screen \in Widths, tv \in Widths, x \in UNION {0..n : n \in Screens},
          w \in UNION {0..n : n \in Screens}, o \in Outcomes :
        /\ \A width \in screen : x + w <= width
        /\ rectangle' = IF o.did THEN RectangleOf(x, w, screen, tv) ELSE rectangle
  BY DEF SetVideoRectangle
<1>3. x \in Nat /\ w \in Nat
  BY ThunderAssumption
<1>4. \A width \in RectangleOf(x, w, screen, tv)[3] :
        RectangleOf(x, w, screen, tv)[1] + RectangleOf(x, w, screen, tv)[2] <= width
  <2>1. CASE shim = "videoin" /\ tv # {} /\ screen \notin {{}, {0}}
    <3>1. PICK s \in Screens : screen = {s}
      BY <2>1 DEF Widths
    <3>2. PICK d \in Screens : tv = {d}
      BY <2>1 DEF Widths
    <3>3. Max(screen) = s /\ Max(tv) = d
      BY <3>1, <3>2, ThunderAssumption DEF Max
    <3>4. /\ s \in Nat \ {0} /\ d \in Nat /\ x + w <= s
      BY <1>2, <2>1, <3>1, ThunderAssumption
    <3>5. RectangleOf(x, w, screen, tv) = <<(x * d) \div s, (w * d) \div s, {d}>>
      BY <2>1, <3>2, <3>3 DEF RectangleOf
    <3> QED
      BY <1>3, <3>4, <3>5, ScalingKeepsInside
  <2>2. CASE ~(shim = "videoin" /\ tv # {} /\ screen \notin {{}, {0}})
    BY <1>2, <2>2 DEF RectangleOf
  <2> QED
    BY <2>1, <2>2
<1>5. PictureInside'
  BY <1>2, <1>4 DEF PictureInside, ThunderIInv
<1> QED
  BY <1>1, <1>5, OthersKeep

LEMMA RegistersKeeps ==
  ASSUME ThunderIInv, (\E c \in Shims : Registers(c)) \/ RegistersVideoInfo
  PROVE  ThunderIInv'
<1> USE DEF inputVars, pictureVars
<1>0. ThunderTypes /\ SubscriptionsKept /\ InputCanStop /\ PictureInside
  BY DEF ThunderIInv
<1>1. PICK names :
        /\ registering' = names
        /\ callbacks' = callbacks \union ToSet(names)
        /\ names \in Seq(EventsOfShim(shim))
        /\ shim = "ota" => ~wanted /\ names = <<"onPlayerStatus">>
  <2>1. ASSUME NEW c \in Shims, Registers(c)
        PROVE  /\ registering' = EventsOf(shim) /\ callbacks' = callbacks \union ToSet(EventsOf(shim))
               /\ EventsOf(shim) \in Seq(EventsOfShim(shim)) /\ ~wanted
               /\ shim = "ota" => EventsOf(shim) = <<"onPlayerStatus">>
    <3>1. /\ c = shim /\ ~wanted /\ registering' = EventsOf(shim)
          /\ callbacks' = callbacks \union ToSet(EventsOf(shim))
      BY <2>1 DEF Registers, Calls, StoresCallbacks
    <3>2. CASE c = "videoin"
      BY <3>1, <3>2 DEF EventsOf, EventsOfShim
    <3>3. CASE c = "ota"
      BY <3>1, <3>3 DEF EventsOf, EventsOfShim
    <3>4. CASE c = "rmf"
      BY <3>1, <3>4 DEF EventsOf, EventsOfShim
    <3>5. CASE c = "watermark"
      BY <2>1, <3>5 DEF EventsOf, Registers
    <3> QED
      BY <3>2, <3>3, <3>4, <3>5 DEF Shims
  <2>2. ASSUME RegistersVideoInfo
        PROVE  /\ registering' = <<"videoStreamInfoUpdate">> /\ shim = "videoin"
               /\ callbacks' = callbacks \union ToSet(<<"videoStreamInfoUpdate">>)
               /\ <<"videoStreamInfoUpdate">> \in Seq(EventsOfShim(shim))
    BY <2>2 DEF RegistersVideoInfo, Calls, StoresCallbacks, EventsOfShim
  <2> QED
    BY <2>1, <2>2
<1>2. /\ registering = <<>> /\ wanted'
      /\ UNCHANGED <<thunder, shim, mRegisteredEvents, mEventSubscribed, subscribed, input,
                     videoInputPort, stopFailed, rectangle>>
  BY DEF Registers, RegistersVideoInfo, Calls
<1>3. wanted' \in BOOLEAN
  BY <1>0 DEF Registers, RegistersVideoInfo, ThunderTypes
<1>4. names \in Seq(callbacks' \intersect EventsOfShim(shim))
  <2>1. /\ Len(names) \in Nat /\ DOMAIN names = 1..Len(names)
        /\ \A k \in 1..Len(names) : names[k] \in EventsOfShim(shim)
    BY <1>1, LenProperties, ElementOfSeq
  <2>2. \A k \in 1..Len(names) : names[k] \in callbacks'
    BY <1>1, <2>1 DEF ToSet
  <2> QED
    BY <1>1, <2>1, <2>2
<1>5. ThunderTypes'
  BY <1>0, <1>1, <1>2, <1>3, <1>4 DEF ThunderTypes
<1>6. SubscriptionsKept'
  BY <1>0, <1>1, <1>2 DEF SubscriptionsKept
<1>7. InputCanStop' /\ PictureInside'
  BY <1>0, <1>2 DEF InputCanStop, PictureInside
<1> QED
  BY <1>5, <1>6, <1>7 DEF ThunderIInv

LEMMA SubscribeKeeps ==
  ASSUME ThunderIInv, SubscribeEvent
  PROVE  ThunderIInv'
<1> USE DEF inputVars, pictureVars
<1>0. ThunderTypes /\ SubscriptionsKept /\ InputCanStop /\ PictureInside
  BY DEF ThunderIInv
<1> DEFINE S == callbacks \intersect EventsOfShim(shim)
           e == Head(registering)
<1>1. /\ registering # <<>> /\ registering' = Tail(registering)
      /\ UNCHANGED <<thunder, shim, callbacks, wanted, input, videoInputPort, stopFailed, rectangle>>
  BY DEF SubscribeEvent
<1>2. e \in S /\ registering' \in Seq(S) /\ wanted
  BY <1>0, <1>1, HeadTailProperties DEF ThunderTypes, SubscriptionsKept
<1>3. PICK ok \in BOOLEAN :
        /\ Keeps(e, ok)
        /\ subscribed' = IF ok THEN subscribed \union {e} ELSE subscribed
  BY DEF SubscribeEvent
<1>4. shim = "ota" => registering' = <<>>
  BY <1>0, <1>1 DEF SubscriptionsKept
<1>5. /\ mRegisteredEvents' \in Seq(Events)
      /\ ToSet(mRegisteredEvents) \subseteq ToSet(mRegisteredEvents')
      /\ ok /\ shim = "videoin" => e \in ToSet(mRegisteredEvents')
  <2>1. CASE shim = "videoin" /\ ok
    <3>1. mRegisteredEvents' = Append(mRegisteredEvents, e) /\ e \in Events
      BY <1>2, <1>3, <2>1 DEF Keeps, EventsOfShim, Events
    <3>2. /\ mRegisteredEvents' \in Seq(Events)
          /\ Len(mRegisteredEvents') = Len(mRegisteredEvents) + 1 /\ Len(mRegisteredEvents) \in Nat
          /\ \A k \in 1..Len(mRegisteredEvents) : mRegisteredEvents'[k] = mRegisteredEvents[k]
          /\ mRegisteredEvents'[Len(mRegisteredEvents) + 1] = e
          /\ DOMAIN mRegisteredEvents = 1..Len(mRegisteredEvents)
          /\ DOMAIN mRegisteredEvents' = 1..Len(mRegisteredEvents')
      BY <1>0, <3>1 DEF ThunderTypes
    <3> QED
      BY <3>2 DEF ToSet
  <2>2. CASE ~(shim = "videoin" /\ ok)
    BY <1>0, <1>3, <2>2 DEF Keeps, ThunderTypes
  <2> QED
    BY <2>1, <2>2
<1>6. ThunderTypes'
  BY <1>0, <1>1, <1>2, <1>3, <1>5 DEF ThunderTypes, Keeps
<1>7. SubscriptionsKept'
  BY <1>0, <1>1, <1>2, <1>3, <1>4, <1>5 DEF SubscriptionsKept, Keeps
<1>8. InputCanStop' /\ PictureInside'
  BY <1>0, <1>1 DEF InputCanStop, PictureInside
<1> QED
  BY <1>6, <1>7, <1>8 DEF ThunderIInv

LEMMA UnregistersKeeps ==
  ASSUME ThunderIInv, UnRegisterAllEventsVideoin \/ ReleaseOta \/ StopRmf
  PROVE  ThunderIInv'
<1> USE DEF inputVars, pictureVars
<1>0. ThunderTypes /\ SubscriptionsKept /\ InputCanStop /\ PictureInside
  BY DEF ThunderIInv
<1>1. /\ subscribed' = {} /\ registering = <<>> /\ wanted' = FALSE
      /\ mRegisteredEvents' \in {mRegisteredEvents, <<>>} /\ mEventSubscribed' \in BOOLEAN
      /\ UNCHANGED <<thunder, shim, registering, callbacks, input, videoInputPort, stopFailed, rectangle>>
  <2>1. CASE UnRegisterAllEventsVideoin
    BY <1>0, <2>1 DEF UnRegisterAllEventsVideoin, Calls, SubscriptionsKept, ThunderTypes
  <2>2. CASE ReleaseOta
    BY <1>0, <2>2 DEF ReleaseOta, Calls, SubscriptionsKept, ThunderTypes, EventsOfShim
  <2>3. CASE StopRmf
    BY <1>0, <2>3 DEF StopRmf, Calls, SubscriptionsKept, ThunderTypes, EventsOfShim
  <2> QED
    BY <2>1, <2>2, <2>3
<1>2. mRegisteredEvents' \in Seq(Events)
  BY <1>0, <1>1, EmptySeq DEF ThunderTypes
<1>3. ThunderTypes'
  BY <1>0, <1>1, <1>2 DEF ThunderTypes
<1>4. SubscriptionsKept' /\ InputCanStop' /\ PictureInside'
  BY <1>0, <1>1 DEF SubscriptionsKept, InputCanStop, PictureInside
<1> QED
  BY <1>3, <1>4 DEF ThunderIInv

LEMMA ThunderStep == ThunderIInv /\ [ThunderNext]_thunderVars => ThunderIInv'
<1> SUFFICES ASSUME ThunderIInv, [ThunderNext]_thunderVars PROVE ThunderIInv'
  OBVIOUS
<1> USE DEF linkVars, inputVars, otaVars, pictureVars
<1>1. ASSUME UNCHANGED rectangle PROVE PictureInside'
  BY <1>1 DEF PictureInside, ThunderIInv
<1>2. CASE StartHelperVideoin \/ StopHelperVideoin
  BY <1>1, <1>2, OthersKeep DEF StartHelperVideoin, StopHelperVideoin, Calls
<1>3. CASE \/ ConnectPlugin \/ FakeCall \/ StartOta \/ StopOta \/ GetTracksOta \/ SetAudioTrackOta
           \/ ContentRestrictionsOta \/ InitRmf \/ WatermarkCall \/ UNCHANGED thunderVars
  BY <1>1, <1>3, OthersKeep DEF ConnectPlugin, FakeCall, StartOta, StopOta, GetTracksOta,
     SetAudioTrackOta, ContentRestrictionsOta, InitRmf, WatermarkCall, thunderVars, Calls
<1> QED
  BY <1>2, <1>3, PictureKeeps, RegistersKeeps, SubscribeKeeps, UnregistersKeeps DEF ThunderNext

(* Whichever calls time out although they worked: an event that a plugin    *)
(* sends finds its callback, a shim that unregistered is sent none, an input*)
(* that runs can be stopped unless a stop of it failed, and a rectangle     *)
(* inside the screen is inside the display (PlayerThunderAccess.cpp).       *)
THEOREM PluginCallsAreSafe == ThunderSpec => []ClientHearsAndStops
<1>1. ThunderIInv => ClientHearsAndStops
  BY DEF ThunderIInv, SubscriptionsKept, InputCanStop, PictureInside, ClientHearsAndStops
<1> QED
  BY <1>1, ThunderInitially, ThunderStep, PTL DEF ThunderSpec

-----------------------------------------------------------------------------
(* The tasks of the watermark plugin.                                       *)

\* What is yet to be done, in order: by the worker, on the queue, to be scheduled.
Scheduled == Len(worker) + Len(queue)
Pending   == Scheduled + Len(handler)
At(i) ==
  IF i <= Len(worker) THEN worker[i]
  ELSE IF i <= Scheduled THEN queue[i - Len(worker)]
  ELSE handler[i - Scheduled]

\* What a task makes of the graphics, and of what is shown.
Leaves(c, t) ==
  IF t.op = "create" THEN c \union {t.g} ELSE IF t.op = "delete" THEN c \ {t.g} ELSE c
ToKnown(c, t) == t.op \in {"update", "palette", "modify", "delete"} => t.g \in c
Shows(v, t) == IF t.op = "show" THEN t.g ELSE v

\* The tasks lead from the graphics of the plugin to those of the service, and each
\* is about a graphic that there is by then.
GraphicsFollow ==
  \E c \in [1..(Pending + 1) -> SUBSET Graphics] :
    /\ c[1] = created /\ c[Pending + 1] = marks
    /\ \A i \in 1..Pending : c[i + 1] = Leaves(c[i], At(i)) /\ ToKnown(c[i], At(i))

\* Those that are scheduled lead from what is shown to what is to be shown.
ShownFollows ==
  \E v \in [1..(Scheduled + 1) -> BOOLEAN] :
    /\ v[1] = visible /\ v[Scheduled + 1] = display
    /\ \A i \in 1..Scheduled : v[i + 1] = Shows(v[i], At(i))

\* What the destructor leaves behind.
DestructorEmpties ==
  /\ instance \in {"join", "unregister", "none"} => queue = <<>>
  /\ instance \in {"unregister", "none"} => worker = <<>>

WMIInv ==
  /\ WatermarkTypeOK /\ DestructorEmpties
  /\ ~dropped => /\ unknown = {} /\ GraphicsFollow
                 /\ instance = "live" => ShownFollows

LEMMA LengthsAreNat ==
  ASSUME WatermarkTypeOK
  PROVE  Len(worker) \in 0..1 /\ Len(queue) \in Nat /\ Len(handler) \in Nat
         /\ Scheduled \in Nat /\ Pending \in Nat
<1>1. Len(worker) \in Nat /\ Len(queue) \in Nat /\ Len(handler) \in Nat /\ Len(worker) <= 1
  BY LenProperties DEF WatermarkTypeOK
<1>2. Len(worker) \in 0..1
  <2>1. ASSUME NEW n \in Nat, n <= 1 PROVE n \in 0..1
    BY <2>1
  <2> QED
    BY <1>1, <2>1
<1>3. Scheduled \in Nat
  BY <1>1 DEF Scheduled
<1>4. Pending \in Nat
  BY <1>1, <1>3 DEF Pending
<1> QED
  BY <1>1, <1>2, <1>3, <1>4

\* Lists of tasks of the same length with the same tasks do the same.
LEMMA SameTasks ==
  ASSUME Pending' = Pending, Scheduled' = Scheduled, Pending \in Nat, Scheduled \in Nat,
         \A i \in 1..Pending : At(i)' = At(i), Scheduled <= Pending
  PROVE  /\ GraphicsFollow /\ created' = created /\ marks' = marks => GraphicsFollow'
         /\ ShownFollows /\ visible' = visible /\ display' = display => ShownFollows'
<1>1. ASSUME GraphicsFollow, created' = created, marks' = marks PROVE GraphicsFollow'
  <2>1. PICK c \in [1..(Pending + 1) -> SUBSET Graphics] :
          /\ c[1] = created /\ c[Pending + 1] = marks
          /\ \A i \in 1..Pending : c[i + 1] = Leaves(c[i], At(i)) /\ ToKnown(c[i], At(i))
    BY <1>1 DEF GraphicsFollow
  <2>2. /\ c[1] = created' /\ c[Pending' + 1] = marks'
        /\ c \in [1..(Pending' + 1) -> SUBSET Graphics]
        /\ \A i \in 1..Pending' : c[i + 1] = Leaves(c[i], At(i)') /\ ToKnown(c[i], At(i)')
    BY <1>1, <2>1
  <2> QED
    BY <2>2 DEF GraphicsFollow, Leaves, ToKnown
<1>2. ASSUME ShownFollows, visible' = visible, display' = display PROVE ShownFollows'
  <2>1. PICK v \in [1..(Scheduled + 1) -> BOOLEAN] :
          /\ v[1] = visible /\ v[Scheduled + 1] = display
          /\ \A i \in 1..Scheduled : v[i + 1] = Shows(v[i], At(i))
    BY <1>2 DEF ShownFollows
  <2>2. /\ v[1] = visible' /\ v[Scheduled' + 1] = display'
        /\ v \in [1..(Scheduled' + 1) -> BOOLEAN]
        /\ \A i \in 1..Scheduled' : v[i + 1] = Shows(v[i], At(i)')
    BY <1>2, <2>1
  <2> QED
    BY <2>2 DEF ShownFollows, Shows
<1> QED
  BY <1>1, <1>2

\* The first task is done.
LEMMA FirstTaskDone ==
  ASSUME WatermarkTypeOK, worker # <<>>, worker' = <<>>, UNCHANGED <<queue, handler, marks, display>>
  PROVE  /\ At(1) = worker[1]
         /\ GraphicsFollow => ToKnown(created, worker[1])
         /\ GraphicsFollow /\ created' = Leaves(created, worker[1]) => GraphicsFollow'
         /\ ShownFollows /\ visible' = Shows(visible, worker[1]) => ShownFollows'
<1>0. /\ Len(worker) = 1 /\ Len(worker') = 0 /\ Len(queue) \in Nat /\ Len(handler) \in Nat
  BY LengthsAreNat, EmptySeq DEF WatermarkTypeOK
<1>1. /\ Scheduled \in Nat /\ Pending \in Nat /\ Scheduled >= 1 /\ Pending >= Scheduled
      /\ Scheduled' = Scheduled - 1 /\ Pending' = Pending - 1
  BY <1>0 DEF Scheduled, Pending
<1>2. \A i \in 1..(Pending - 1) : At(i)' = At(i + 1)
  BY <1>0, <1>1 DEF At, Scheduled
<1>3. At(1) = worker[1]
  BY <1>0 DEF At
<1>4. ASSUME GraphicsFollow
      PROVE  /\ ToKnown(created, worker[1])
             /\ created' = Leaves(created, worker[1]) => GraphicsFollow'
  <2>1. PICK c \in [1..(Pending + 1) -> SUBSET Graphics] :
          /\ c[1] = created /\ c[Pending + 1] = marks
          /\ \A i \in 1..Pending : c[i + 1] = Leaves(c[i], At(i)) /\ ToKnown(c[i], At(i))
    BY <1>4 DEF GraphicsFollow
  <2>2. c[2] = Leaves(created, worker[1]) /\ ToKnown(created, worker[1])
    BY <1>1, <1>3, <2>1
  <2>3. ASSUME created' = Leaves(created, worker[1]) PROVE GraphicsFollow'
    <3> DEFINE d == [i \in 1..Pending |-> c[i + 1]]
    <3>1. d \in [1..(Pending' + 1) -> SUBSET Graphics] /\ \A i \in 1..Pending : d[i] = c[i + 1]
      BY <1>1, <2>1
    <3> HIDE DEF d
    <3>2. d[1] = created' /\ d[Pending' + 1] = marks'
      BY <1>1, <2>1, <2>2, <2>3, <3>1
    <3>3. \A i \in 1..Pending' : d[i + 1] = Leaves(d[i], At(i)') /\ ToKnown(d[i], At(i)')
      BY <1>1, <1>2, <2>1, <3>1
    <3> QED
      BY <3>1, <3>2, <3>3 DEF GraphicsFollow, Leaves, ToKnown
  <2> QED
    BY <2>2, <2>3
<1>5. ASSUME ShownFollows, visible' = Shows(visible, worker[1]) PROVE ShownFollows'
  <2>1. PICK v \in [1..(Scheduled + 1) -> BOOLEAN] :
          /\ v[1] = visible /\ v[Scheduled + 1] = display
          /\ \A i \in 1..Scheduled : v[i + 1] = Shows(v[i], At(i))
    BY <1>5 DEF ShownFollows
  <2> DEFINE w == [i \in 1..Scheduled |-> v[i + 1]]
  <2>2. w \in [1..(Scheduled' + 1) -> BOOLEAN] /\ \A i \in 1..Scheduled : w[i] = v[i + 1]
    BY <1>1, <2>1
  <2> HIDE DEF w
  <2>3. w[1] = visible' /\ w[Scheduled' + 1] = display'
    BY <1>1, <1>3, <1>5, <2>1, <2>2
  <2>4. \A i \in 1..Scheduled' : w[i + 1] = Shows(w[i], At(i)')
    BY <1>1, <1>2, <2>1, <2>2
  <2> QED
    BY <2>2, <2>3, <2>4 DEF ShownFollows, Shows
<1> QED
  BY <1>3, <1>4, <1>5

\* An event adds tasks that lead to what it made of the graphics of the service.
LEMMA TasksAdded ==
  ASSUME NEW n \in Nat \ {0}, NEW p \in Nat, p = Pending, Pending' = Pending + n,
         created' = created, marks \subseteq Graphics, marks' \subseteq Graphics,
         \A i \in 1..Pending : At(i)' = At(i),
         marks' = Leaves(marks, At(p + 1)'), ToKnown(marks, At(p + 1)'),
         \A i \in (p + 2)..(p + n) :
           marks' = Leaves(marks', At(i)') /\ ToKnown(marks', At(i)')
  PROVE  GraphicsFollow => GraphicsFollow'
<1> SUFFICES ASSUME GraphicsFollow PROVE GraphicsFollow'
  OBVIOUS
<1>1. PICK c \in [1..(Pending + 1) -> SUBSET Graphics] :
        /\ c[1] = created /\ c[Pending + 1] = marks
        /\ \A i \in 1..Pending : c[i + 1] = Leaves(c[i], At(i)) /\ ToKnown(c[i], At(i))
  BY DEF GraphicsFollow
<1>2. PICK m : m = marks'
  OBVIOUS
<1> DEFINE d == [i \in 1..(Pending + n + 1) |-> IF i <= Pending + 1 THEN c[i] ELSE m]
<1>3. /\ d \in [1..(Pending' + 1) -> SUBSET Graphics]
      /\ \A i \in 1..(Pending + n + 1) : d[i] = IF i <= Pending + 1 THEN c[i] ELSE m
  BY <1>1, <1>2
<1> HIDE DEF d
<1>4. d[1] = created' /\ d[Pending' + 1] = marks'
  BY <1>1, <1>2, <1>3
<1>5. ASSUME NEW i \in 1..Pending' PROVE d[i + 1] = Leaves(d[i], At(i)') /\ ToKnown(d[i], At(i)')
  <2>1. CASE i <= Pending
    BY <1>1, <1>3, <2>1
  <2>2. CASE i = Pending + 1
    BY <1>1, <1>2, <1>3, <2>2
  <2>3. CASE i > Pending + 1
    BY <1>1, <1>2, <1>3, <2>3
  <2> QED
    BY <2>1, <2>2, <2>3
<1> QED
  BY <1>3, <1>4, <1>5 DEF GraphicsFollow, Leaves, ToKnown

LEMMA WatermarkInitially == WMInit => WMIInv
<1> SUFFICES ASSUME WMInit PROVE WMIInv
  OBVIOUS
<1>1. WatermarkTypeOK
  <2>1. events \in 0..MaxEvents /\ destroys \in 0..MaxDestroys
    BY WatermarkAssumption DEF WMInit
  <2>2. queue \in Seq(Tasks) /\ handler \in Seq(Tasks) /\ worker \in Seq(Tasks) /\ Len(worker) <= 1
    BY DEF WMInit
  <2> QED
    BY <2>1, <2>2 DEF WMInit, WatermarkTypeOK
<1>2. GraphicsFollow
  <2>1. Pending = 0 /\ created = {} /\ marks = {}
    BY DEF WMInit, Pending, Scheduled
  <2> DEFINE c == [i \in 1..1 |-> {}]
  <2>2. c \in [1..(0 + 1) -> SUBSET Graphics] /\ c[1] = {} /\ c[0 + 1] = {}
    OBVIOUS
  <2> HIDE DEF c
  <2>3. /\ c \in [1..(Pending + 1) -> SUBSET Graphics]
        /\ c[1] = created /\ c[Pending + 1] = marks
        /\ \A i \in 1..Pending : c[i + 1] = Leaves(c[i], At(i)) /\ ToKnown(c[i], At(i))
    BY <2>1, <2>2
  <2> QED
    BY <2>3 DEF GraphicsFollow
<1>3. DestructorEmpties
  BY DEF WMInit, DestructorEmpties
<1> QED
  BY <1>1, <1>2, <1>3 DEF WMIInv, WMInit

LEMMA WatermarkTypes == WatermarkTypeOK /\ [WMNext]_wmVars => WatermarkTypeOK'
<1> SUFFICES ASSUME WatermarkTypeOK, [WMNext]_wmVars PROVE WatermarkTypeOK'
  OBVIOUS
<1> USE WatermarkAssumption DEF WatermarkTypeOK
<1>1. CASE GetInstance \/ DestroyInstance
  <2>1. CASE GetInstance
    BY <2>1 DEF GetInstance, Construct
  <2>2. CASE DestroyInstance
    BY <2>2 DEF DestroyInstance
  <2> QED
    BY <1>1, <2>1, <2>2
<1>2. CASE Dtor
  <2> USE DEF Destructor
  <2>1. CASE HideWatermark
    BY <2>1 DEF HideWatermark
  <2>2. CASE StopScheduler
    BY <2>2 DEF StopScheduler
  <2>3. CASE JoinWorker
    BY <2>3 DEF JoinWorker
  <2>4. CASE UnRegisterAllEvents
    BY <2>4 DEF UnRegisterAllEvents
  <2> QED
    BY <1>2, <2>1, <2>2, <2>3, <2>4 DEF Dtor
<1>3. ASSUME NEW g \in Graphics PROVE \A op \in GraphicOps : Task(op, g) \in Tasks
  BY DEF Task, Tasks
<1>4. ASSUME NEW b \in BOOLEAN PROVE Task("show", b) \in Tasks
  BY DEF Task, Tasks
<1>5. CASE Event
  <2>0. ASSUME Arrives
        PROVE  /\ events' \in 0..MaxEvents
               /\ UNCHANGED <<instance, worker, created, visible, unknown, destroys>>
    BY <2>0 DEF Arrives
  <2>1. ASSUME NEW g \in Graphics, NEW adjust \in BOOLEAN, addWatermarkHandler(g, adjust)
        PROVE  WatermarkTypeOK'
    <3>1. {Task("create", g), Task("update", g), Task("palette", g)} \subseteq Tasks
      BY <1>3 DEF GraphicOps
    <3>2. queue' \in Seq(Tasks)
      BY <2>1, <3>1 DEF addWatermarkHandler
    <3>3. handler' \in Seq(Tasks)
      <4>1. <<Task("update", g)>> \in Seq(Tasks) /\ <<Task("palette", g)>> \in Seq(Tasks)
        BY <3>1
      <4> QED
        BY <2>1, <4>1 DEF addWatermarkHandler
    <3> QED
      BY <2>0, <2>1, <3>2, <3>3 DEF addWatermarkHandler
  <2>2. ASSUME NEW g \in Graphics, updateWatermarkHandler(g) \/ removeWatermarkHandler(g)
        PROVE  WatermarkTypeOK'
    <3>1. Task("modify", g) \in Tasks /\ Task("delete", g) \in Tasks
      BY <1>3 DEF GraphicOps
    <3>2. CASE updateWatermarkHandler(g)
      BY <2>0, <3>1, <3>2 DEF updateWatermarkHandler
    <3>3. CASE removeWatermarkHandler(g)
      BY <2>0, <3>1, <3>3 DEF removeWatermarkHandler
    <3> QED
      BY <2>2, <3>2, <3>3
  <2>3. ASSUME NEW show \in BOOLEAN, showWatermarkHandler(show)
        PROVE  WatermarkTypeOK'
    BY <1>4, <2>0, <2>3 DEF showWatermarkHandler
  <2> QED
    BY <1>5, <2>1, <2>2, <2>3 DEF Event
<1>6. CASE ScheduleNext
  <2>1. Head(handler) \in Tasks /\ Tail(handler) \in Seq(Tasks)
    BY <1>6 DEF ScheduleNext
  <2>2. Head(handler).op = "show" => Head(handler).g \in BOOLEAN
    BY <2>1 DEF Tasks, GraphicOps
  <2>3. /\ handler' \in Seq(Tasks) /\ queue' \in Seq(Tasks)
        /\ UNCHANGED <<worker, created, marks, unknown, events, destroys>>
    BY <1>6, <2>1 DEF ScheduleNext
  <2>4. display' \in BOOLEAN
    BY <1>6, <2>2 DEF ScheduleNext
  <2>5. instance' = "live" /\ visible' \in BOOLEAN /\ dropped' \in BOOLEAN
    BY <1>6 DEF ScheduleNext, Construct
  <2> QED
    BY <2>3, <2>4, <2>5
<1>7. CASE Worker
  <2>1. CASE TakeTask
    BY <2>1 DEF TakeTask
  <2>2. worker # <<>> => /\ worker[1] \in Tasks
                         /\ worker[1].op \in GraphicOps => worker[1].g \in Graphics
                         /\ worker[1].op = "show" => worker[1].g \in BOOLEAN
    BY EmptySeq DEF Tasks, GraphicOps
  <2> USE <2>2 DEF Works, WorkerOnly, ToldAbout, GraphicOps
  <2>3. CASE CreateWatermark
    BY <2>3 DEF CreateWatermark
  <2>4. CASE UpdateWatermark
    BY <2>4 DEF UpdateWatermark
  <2>5. CASE DeleteWatermark
    BY <2>5 DEF DeleteWatermark
  <2>6. CASE GetWaterMarkPalette
    <3>1. worker[1].g \in Graphics
      BY <2>6 DEF GetWaterMarkPalette
    <3>2. Task("clut", worker[1].g) \in Tasks
      BY <1>3, <3>1
    <3>3. UNCHANGED <<instance, queue, handler, marks, display, dropped, events, destroys>>
      BY <2>6 DEF GetWaterMarkPalette
    <3>4. unknown' \subseteq Graphics /\ UNCHANGED <<created, visible>>
      BY <2>6, <3>1 DEF GetWaterMarkPalette
    <3>5. worker' \in Seq(Tasks) /\ Len(worker') <= 1
      <4>1. worker' = <<>> \/ worker' = <<Task("clut", worker[1].g)>>
        BY <2>6 DEF GetWaterMarkPalette
      <4>2. <<Task("clut", worker[1].g)>> \in Seq(Tasks) /\ Len(<<Task("clut", worker[1].g)>>) = 1
        BY <3>2
      <4>3. <<>> \in Seq(Tasks) /\ Len(<<>>) = 0
        BY EmptySeq
      <4>4. CASE worker' = <<>>
        BY <4>3, <4>4
      <4>5. CASE worker' = <<Task("clut", worker[1].g)>>
        <5>1. worker' \in Seq(Tasks) /\ Len(worker') = 1
          BY <4>2, <4>5
        <5> QED
          BY <5>1
      <4> QED
        BY <4>1, <4>4, <4>5
    <3> QED
      BY <3>3, <3>4, <3>5
  <2>7. CASE loadClutWatermark
    BY <2>7 DEF loadClutWatermark
  <2>8. CASE ShowWatermark
    BY <2>8 DEF ShowWatermark
  <2> QED
    BY <1>7, <2>1, <2>3, <2>4, <2>5, <2>6, <2>7, <2>8 DEF Worker
<1>8. CASE UNCHANGED wmVars
  BY <1>8 DEF wmVars
<1> QED
  BY <1>1, <1>2, <1>5, <1>6, <1>7, <1>8 DEF WMNext

\* Where the tasks are is left alone by all that neither adds nor does one.
LEMMA WorkerKeeps ==
  ASSUME WMIInv, Worker
  PROVE  WMIInv'
<1> USE DEF Works, WorkerOnly
<1>0. WatermarkTypeOK /\ DestructorEmpties /\ WatermarkTypeOK'
  BY WatermarkTypes DEF WMIInv, WMNext
<1>1. /\ Scheduled \in Nat /\ Pending \in Nat /\ Scheduled <= Pending
      /\ Len(worker) \in 0..1 /\ Len(queue) \in Nat /\ Len(handler) \in Nat
  BY <1>0, LengthsAreNat DEF Pending
<1>2. UNCHANGED <<instance, handler, marks, display, dropped>>
  BY DEF Worker, TakeTask, CreateWatermark, UpdateWatermark, DeleteWatermark,
         GetWaterMarkPalette, loadClutWatermark, ShowWatermark
<1>3. DestructorEmpties'
  BY <1>0, <1>2 DEF DestructorEmpties, Worker, TakeTask, CreateWatermark, UpdateWatermark,
     DeleteWatermark, GetWaterMarkPalette, loadClutWatermark, ShowWatermark
<1> SUFFICES ASSUME ~dropped
             PROVE  unknown' = {} /\ GraphicsFollow' /\ (instance = "live" => ShownFollows')
  BY <1>0, <1>2, <1>3 DEF WMIInv
<1>4. unknown = {} /\ GraphicsFollow /\ (instance = "live" => ShownFollows)
  BY DEF WMIInv
<1>5. CASE TakeTask
  <2>1. /\ worker = <<>> /\ queue # <<>> /\ worker' = <<Head(queue)>> /\ queue' = Tail(queue)
        /\ UNCHANGED <<created, visible, unknown>>
    BY <1>5 DEF TakeTask
  <2>2. /\ Len(queue) >= 1 /\ Len(worker) = 0 /\ Len(worker') = 1 /\ Len(queue') = Len(queue) - 1
        /\ worker'[1] = queue[1] /\ \A i \in 1..(Len(queue) - 1) : queue'[i] = queue[i + 1]
    BY <1>0, <2>1, EmptySeq, HeadTailProperties DEF WatermarkTypeOK
  <2>3. Pending' = Pending /\ Scheduled' = Scheduled
    BY <1>1, <1>2, <2>2 DEF Pending, Scheduled
  <2>4. ASSUME NEW i \in 1..Pending PROVE At(i)' = At(i)
    <3>1. CASE i = 1
      BY <1>1, <1>2, <2>2, <2>3, <3>1 DEF At, Scheduled
    <3>2. CASE i > 1 /\ i <= Scheduled
      <4>1. At(i) = queue[i]
        BY <1>1, <2>2, <3>2 DEF At, Scheduled
      <4>2. At(i)' = queue'[i - 1]
        BY <1>1, <2>2, <2>3, <3>2 DEF At
      <4>3. i - 1 \in 1..(Len(queue) - 1)
        BY <1>1, <2>2, <3>2 DEF Scheduled
      <4> QED
        BY <2>2, <4>1, <4>2, <4>3
    <3>3. CASE i > Scheduled
      BY <1>1, <1>2, <2>2, <2>3, <3>3 DEF At, Scheduled
    <3> QED
      BY <1>1, <3>1, <3>2, <3>3
  <2> QED
    BY <1>1, <1>2, <1>4, <2>1, <2>3, <2>4, SameTasks
<1>6. CASE GetWaterMarkPalette /\ worker' # <<>>
  <2>1. /\ worker # <<>> /\ worker[1].op = "palette" /\ worker' = <<Task("clut", worker[1].g)>>
        /\ ToldAbout(worker[1].g) /\ UNCHANGED <<queue, created, visible>>
    BY <1>6 DEF GetWaterMarkPalette
  <2>2. Len(worker) = 1 /\ Len(worker') = 1 /\ worker'[1] = Task("clut", worker[1].g)
    BY <1>0, <1>1, <2>1, EmptySeq DEF WatermarkTypeOK
  <2>3. Pending' = Pending /\ Scheduled' = Scheduled /\ Pending >= 1 /\ Scheduled >= 1
    BY <1>1, <1>2, <2>1, <2>2 DEF Pending, Scheduled
  <2>4. /\ At(1) = worker[1] /\ At(1)' = Task("clut", worker[1].g)
        /\ \A i \in 2..Pending : At(i)' = At(i)
    BY <1>1, <1>2, <2>1, <2>2, <2>3 DEF At
  <2>5. /\ At(1)'.op = "clut" /\ At(1).op = "palette"
    BY <2>1, <2>4 DEF Task
  <2>6. GraphicsFollow'
    <3>1. PICK c \in [1..(Pending + 1) -> SUBSET Graphics] :
            /\ c[1] = created /\ c[Pending + 1] = marks
            /\ \A i \in 1..Pending : c[i + 1] = Leaves(c[i], At(i)) /\ ToKnown(c[i], At(i))
      BY <1>4 DEF GraphicsFollow
    <3>2. \A i \in 1..Pending : c[i + 1] = Leaves(c[i], At(i)') /\ ToKnown(c[i], At(i)')
      <4>1. c[2] = Leaves(c[1], At(1)') /\ ToKnown(c[1], At(1)')
        <5>1. c[1 + 1] = Leaves(c[1], At(1))
          BY <1>1, <2>3, <3>1
        <5> QED
          BY <2>5, <5>1 DEF Leaves, ToKnown
      <4>2. ASSUME NEW i \in 2..Pending
            PROVE  c[i + 1] = Leaves(c[i], At(i)') /\ ToKnown(c[i], At(i)')
        BY <1>1, <2>4, <3>1
      <4> QED
        BY <1>1, <4>1, <4>2
    <3>3. /\ c[1] = created' /\ c[Pending' + 1] = marks'
          /\ c \in [1..(Pending' + 1) -> SUBSET Graphics]
          /\ \A i \in 1..Pending' : c[i + 1] = Leaves(c[i], At(i)') /\ ToKnown(c[i], At(i)')
      BY <1>2, <2>1, <2>3, <3>1, <3>2
    <3> QED
      BY <3>3 DEF GraphicsFollow, Leaves, ToKnown
  <2>7. ASSUME ShownFollows PROVE ShownFollows'
    <3>1. PICK v \in [1..(Scheduled + 1) -> BOOLEAN] :
            /\ v[1] = visible /\ v[Scheduled + 1] = display
            /\ \A i \in 1..Scheduled : v[i + 1] = Shows(v[i], At(i))
      BY <2>7 DEF ShownFollows
    <3>2. \A i \in 1..Scheduled : v[i + 1] = Shows(v[i], At(i)')
      <4>1. v[2] = Shows(v[1], At(1)')
        <5>1. v[1 + 1] = Shows(v[1], At(1))
          BY <1>1, <2>3, <3>1
        <5> QED
          BY <2>5, <5>1 DEF Shows
      <4>2. ASSUME NEW i \in 2..Scheduled PROVE v[i + 1] = Shows(v[i], At(i)')
        BY <1>1, <2>4, <3>1
      <4> QED
        BY <1>1, <4>1, <4>2
    <3>3. /\ v[1] = visible' /\ v[Scheduled' + 1] = display'
          /\ v \in [1..(Scheduled' + 1) -> BOOLEAN]
          /\ \A i \in 1..Scheduled' : v[i + 1] = Shows(v[i], At(i)')
      BY <1>2, <2>1, <2>3, <3>1, <3>2
    <3> QED
      BY <3>3 DEF ShownFollows, Shows
  <2>8. unknown' = {}
    <3>1. PICK c \in [1..(Pending + 1) -> SUBSET Graphics] :
            c[1] = created /\ \A i \in 1..Pending : ToKnown(c[i], At(i))
      BY <1>4 DEF GraphicsFollow
    <3>2. worker[1].g \in created
      BY <2>1, <2>3, <2>4, <3>1 DEF ToKnown
    <3> QED
      BY <1>4, <2>1, <3>2 DEF ToldAbout
  <2> QED
    BY <1>4, <2>6, <2>7, <2>8
<1>7. CASE ~TakeTask /\ worker' = <<>>
  <2>0. worker # <<>> /\ UNCHANGED <<queue, handler, marks, display>>
    BY <1>7 DEF Worker, CreateWatermark, UpdateWatermark, DeleteWatermark,
         GetWaterMarkPalette, loadClutWatermark, ShowWatermark
  <2>1. created' = Leaves(created, worker[1]) /\ visible' = Shows(visible, worker[1])
    BY <1>7 DEF Worker, CreateWatermark, UpdateWatermark, DeleteWatermark,
         GetWaterMarkPalette, loadClutWatermark, ShowWatermark, Leaves, Shows
  <2>2. ToKnown(created, worker[1])
    BY <1>0, <1>4, <1>7, <2>0, FirstTaskDone
  <2>3. unknown' = {}
    BY <1>4, <1>7, <2>2 DEF Worker, CreateWatermark, UpdateWatermark, DeleteWatermark,
         GetWaterMarkPalette, loadClutWatermark, ShowWatermark, ToKnown, ToldAbout
  <2> QED
    BY <1>0, <1>4, <1>7, <2>0, <2>1, <2>3, FirstTaskDone
<1> QED
  <2>1. TakeTask \/ worker' = <<>> \/ GetWaterMarkPalette
    BY DEF Worker, CreateWatermark, UpdateWatermark, DeleteWatermark, loadClutWatermark,
           ShowWatermark
  <2> QED
    BY <1>5, <1>6, <1>7, <2>1

LEMMA EventAdds ==
  ASSUME WMIInv, Event
  PROVE  WMIInv'
<1>0. WatermarkTypeOK /\ DestructorEmpties /\ WatermarkTypeOK'
  BY WatermarkTypes DEF WMIInv, WMNext
<1>1. /\ Scheduled \in Nat /\ Pending \in Nat /\ Scheduled <= Pending
      /\ Len(worker) \in 0..1 /\ Len(queue) \in Nat /\ Len(handler) \in Nat
  BY <1>0, LengthsAreNat DEF Pending
<1>2. /\ handler = <<>> /\ UNCHANGED <<instance, worker, created, visible, unknown>>
      /\ UNCHANGED <<display, dropped>>
  BY DEF Event, addWatermarkHandler, updateWatermarkHandler, removeWatermarkHandler,
         showWatermarkHandler, Arrives
<1>3. Len(handler) = 0 /\ Pending = Scheduled
  BY <1>1, <1>2 DEF Pending
<1>p. PICK p \in Nat : p = Pending
  BY <1>1
<1>4. ASSUME NEW g \in Graphics, NEW adjust \in BOOLEAN, addWatermarkHandler(g, adjust)
      PROVE  WMIInv'
  <2>1. /\ instance = "live" /\ g \notin marks /\ marks' = marks \union {g}
        /\ queue' = Append(queue, Task("create", g))
        /\ handler' = <<Task("update", g)>> \o (IF adjust THEN <<Task("palette", g)>> ELSE <<>>)
    BY <1>4 DEF addWatermarkHandler
  <2>2. /\ Len(queue') = Len(queue) + 1 /\ queue'[Len(queue) + 1] = Task("create", g)
        /\ \A i \in 1..Len(queue) : queue'[i] = queue[i]
    BY <1>0, <2>1 DEF WatermarkTypeOK
  <2>3. /\ handler'[1] = Task("update", g)
        /\ Len(handler') \in {1, 2}
        /\ Len(handler') = 2 => handler'[2] = Task("palette", g)
    BY <2>1
  <2>4. Pending' = Pending + (1 + Len(handler')) /\ Scheduled' = Scheduled + 1
    BY <1>1, <1>2, <1>3, <1>p, <2>2, <2>3 DEF Pending, Scheduled
  <2>5. /\ \A i \in 1..Pending : At(i)' = At(i)
        /\ At(p + 1)' = Task("create", g)
        /\ \A i \in (p + 2)..(p + (1 + Len(handler'))) :
             At(i)' \in {Task("update", g), Task("palette", g)}
    <3>1. ASSUME NEW i \in 1..Pending PROVE At(i)' = At(i)
      BY <1>1, <1>2, <1>3, <1>p, <2>2, <2>4 DEF At, Scheduled
    <3>2. At(p + 1)' = Task("create", g)
      <4>1. /\ ~(p + 1 <= Len(worker)) /\ p + 1 <= Scheduled'
            /\ (p + 1) - Len(worker) = Len(queue) + 1
        BY <1>1, <1>3, <1>p, <2>4 DEF Scheduled
      <4>2. At(p + 1)' = queue'[(p + 1) - Len(worker)]
        BY <1>2, <4>1 DEF At
      <4> QED
        BY <2>2, <4>1, <4>2
    <3>3. ASSUME NEW i \in (p + 2)..(p + (1 + Len(handler')))
          PROVE  At(i)' \in {Task("update", g), Task("palette", g)}
      <4>1. At(i)' = handler'[i - Scheduled']
        BY <1>1, <1>2, <1>3, <1>p, <2>4, <3>3 DEF At, Scheduled
      <4>2. i - Scheduled' \in {1, 2} /\ i - Scheduled' <= Len(handler')
        <5>1. /\ i \in Int /\ i >= p + 2 /\ i <= p + (1 + Len(handler'))
              /\ Scheduled' = p + 1 /\ Len(handler') \in {1, 2}
          BY <1>1, <1>3, <1>p, <2>3, <2>4
        <5>2. i - (p + 1) \in Nat /\ i - (p + 1) >= 1 /\ i - (p + 1) <= Len(handler')
          BY <5>1
        <5>3. i - (p + 1) \in {1, 2}
          <6>1. PICK k \in Nat : k = i - (p + 1)
            BY <5>2
          <6>2. PICK h \in {1, 2} : h = Len(handler')
            BY <5>1
          <6>3. k >= 1 /\ k <= h
            BY <5>2, <6>1, <6>2
          <6>4. k \in {1, 2}
            BY <6>3
          <6> QED
            BY <6>1, <6>4
        <5> QED
          BY <5>1, <5>2, <5>3
      <4> QED
        BY <2>3, <4>1, <4>2
    <3> QED
      BY <3>1, <3>2, <3>3
  <2>6. marks \subseteq Graphics /\ marks' \subseteq Graphics
    BY <1>0 DEF WatermarkTypeOK
  <2>7. /\ marks' = Leaves(marks, At(p + 1)') /\ ToKnown(marks, At(p + 1)')
        /\ \A i \in (p + 2)..(p + (1 + Len(handler'))) :
             marks' = Leaves(marks', At(i)') /\ ToKnown(marks', At(i)')
    BY <2>1, <2>5 DEF Leaves, ToKnown, Task
  <2>8. GraphicsFollow => GraphicsFollow'
    BY <1>1, <1>2, <1>p, <2>3, <2>4, <2>5, <2>6, <2>7, TasksAdded
  <2>9. ASSUME ShownFollows PROVE ShownFollows'
    <3>1. PICK v \in [1..(Scheduled + 1) -> BOOLEAN] :
            /\ v[1] = visible /\ v[Scheduled + 1] = display
            /\ \A i \in 1..Scheduled : v[i + 1] = Shows(v[i], At(i))
      BY <2>9 DEF ShownFollows
    <3> DEFINE w == [i \in 1..(Scheduled + 2) |-> IF i <= Scheduled + 1 THEN v[i] ELSE display]
    <3>2. /\ w \in [1..(Scheduled' + 1) -> BOOLEAN]
          /\ \A i \in 1..(Scheduled + 2) : w[i] = IF i <= Scheduled + 1 THEN v[i] ELSE display
      BY <1>0, <1>1, <2>4, <3>1 DEF WatermarkTypeOK
    <3> HIDE DEF w
    <3>3. w[1] = visible' /\ w[Scheduled' + 1] = display'
      BY <1>1, <1>2, <2>4, <3>1, <3>2
    <3>4. ASSUME NEW i \in 1..Scheduled' PROVE w[i + 1] = Shows(w[i], At(i)')
      <4>1. CASE i <= Scheduled
        BY <1>1, <1>3, <1>p, <2>5, <3>1, <3>2, <4>1
      <4>2. CASE i = Scheduled + 1
        <5>1. At(i)' = Task("create", g)
          BY <1>3, <1>p, <2>5, <4>2
        <5>2. Shows(w[i], Task("create", g)) = w[i]
          BY DEF Shows, Task
        <5>3. w[i] = display /\ w[i + 1] = display
          BY <1>1, <3>1, <3>2, <4>2
        <5> QED
          BY <5>1, <5>2, <5>3
      <4> QED
        BY <1>1, <2>4, <4>1, <4>2
    <3> QED
      BY <3>2, <3>3, <3>4 DEF ShownFollows, Shows
  <2>10. DestructorEmpties'
    BY <1>2, <2>1 DEF DestructorEmpties
  <2> QED
    BY <1>0, <1>2, <2>8, <2>9, <2>10 DEF WMIInv
<1>5. ASSUME NEW t, handler' = <<t>>, UNCHANGED queue, marks' = Leaves(marks, t),
             ToKnown(marks, t)
      PROVE  WMIInv'
  <2>1. Pending' = Pending + 1 /\ Scheduled' = Scheduled
    BY <1>1, <1>2, <1>3, <1>p, <1>5 DEF Pending, Scheduled
  <2>a. ASSUME NEW i \in 1..Pending PROVE At(i)' = At(i)
    <3>1. i <= Scheduled /\ i <= Scheduled'
      BY <1>3, <1>p, <2>1
    <3> QED
      BY <1>2, <1>5, <3>1 DEF At
  <2>b. At(p + 1)' = t
    <3>1. /\ ~(p + 1 <= Len(worker)) /\ ~(p + 1 <= Scheduled')
          /\ (p + 1) - Scheduled' = 1
      BY <1>1, <1>3, <1>p, <2>1 DEF Scheduled
    <3>2. At(p + 1)' = handler'[(p + 1) - Scheduled']
      BY <1>2, <3>1 DEF At
    <3> QED
      BY <1>5, <3>1, <3>2
  <2>2. (\A i \in 1..Pending : At(i)' = At(i)) /\ At(p + 1)' = t
    BY <2>a, <2>b
  <2>3. marks \subseteq Graphics /\ marks' \subseteq Graphics
    BY <1>0 DEF WatermarkTypeOK
  <2>4. GraphicsFollow => GraphicsFollow'
    <3>1. marks' = Leaves(marks, At(p + 1)') /\ ToKnown(marks, At(p + 1)')
      BY <1>5, <2>2
    <3>2. \A i \in (p + 2)..(p + 1) :
            marks' = Leaves(marks', At(i)') /\ ToKnown(marks', At(i)')
      BY <1>1
    <3> QED
      BY <1>1, <1>2, <1>p, <2>1, <2>2, <2>3, <3>1, <3>2, TasksAdded
  <2>5. ASSUME ShownFollows PROVE ShownFollows'
    <3>1. PICK v \in [1..(Scheduled + 1) -> BOOLEAN] :
            /\ v[1] = visible /\ v[Scheduled + 1] = display
            /\ \A i \in 1..Scheduled : v[i + 1] = Shows(v[i], At(i))
      BY <2>5 DEF ShownFollows
    <3>2. /\ v[1] = visible' /\ v[Scheduled' + 1] = display'
          /\ v \in [1..(Scheduled' + 1) -> BOOLEAN]
          /\ \A i \in 1..Scheduled' : v[i + 1] = Shows(v[i], At(i)')
      BY <1>2, <1>3, <1>p, <2>1, <2>2, <3>1
    <3> QED
      BY <3>2 DEF ShownFollows, Shows
  <2>6. DestructorEmpties'
    BY <1>0, <1>2, <1>5 DEF DestructorEmpties
  <2> QED
    BY <1>0, <1>2, <2>4, <2>5, <2>6 DEF WMIInv
<1>6. ASSUME NEW g \in Graphics, updateWatermarkHandler(g) PROVE WMIInv'
  <2>1. handler' = <<Task("modify", g)>> /\ UNCHANGED <<queue, marks>> /\ g \in marks
    BY <1>6 DEF updateWatermarkHandler
  <2> QED
    BY <1>5, <2>1 DEF Leaves, ToKnown, Task
<1>7. ASSUME NEW g \in Graphics, removeWatermarkHandler(g) PROVE WMIInv'
  <2>1. /\ handler' = <<Task("delete", g)>> /\ UNCHANGED queue /\ marks' = marks \ {g}
        /\ g \in marks
    BY <1>7 DEF removeWatermarkHandler
  <2> QED
    BY <1>5, <2>1 DEF Leaves, ToKnown, Task
<1>8. ASSUME NEW show \in BOOLEAN, showWatermarkHandler(show) PROVE WMIInv'
  <2>1. handler' = <<Task("show", show)>> /\ UNCHANGED <<queue, marks>>
    BY <1>8 DEF showWatermarkHandler
  <2> QED
    BY <1>5, <2>1 DEF Leaves, ToKnown, Task
<1> QED
  BY <1>4, <1>6, <1>7, <1>8 DEF Event

LEMMA NextIsScheduled ==
  ASSUME WMIInv, ScheduleNext
  PROVE  WMIInv'
<1>0. WatermarkTypeOK /\ DestructorEmpties /\ WatermarkTypeOK'
  BY WatermarkTypes DEF WMIInv, WMNext
<1>1. /\ Scheduled \in Nat /\ Pending \in Nat /\ Scheduled <= Pending
      /\ Len(worker) \in 0..1 /\ Len(queue) \in Nat /\ Len(handler) \in Nat
  BY <1>0, LengthsAreNat DEF Pending
<1>2. instance' = "live"
  BY DEF ScheduleNext, Construct
<1> SUFFICES ASSUME ~dropped' PROVE unknown' = {} /\ GraphicsFollow' /\ ShownFollows'
  BY <1>0, <1>2 DEF WMIInv, DestructorEmpties
<1>3. /\ instance = "live" /\ handler # <<>> /\ ~dropped
      /\ queue' = Append(queue, Head(handler)) /\ handler' = Tail(handler)
      /\ display' = Shows(display, Head(handler))
      /\ UNCHANGED <<worker, created, visible, marks, unknown>>
  <2>1. instance = "live" /\ UNCHANGED <<visible, dropped>>
    BY DEF ScheduleNext
  <2>2. display' = IF Head(handler).op = "show" THEN Head(handler).g ELSE display
    BY <2>1 DEF ScheduleNext
  <2> QED
    BY <2>1, <2>2 DEF ScheduleNext, Shows
<1>4. unknown = {} /\ GraphicsFollow /\ ShownFollows
  BY <1>3 DEF WMIInv
<1>5. /\ Len(handler) >= 1 /\ Len(handler') = Len(handler) - 1 /\ Head(handler) = handler[1]
      /\ \A i \in 1..(Len(handler) - 1) : handler'[i] = handler[i + 1]
      /\ Len(queue') = Len(queue) + 1 /\ queue'[Len(queue) + 1] = handler[1]
      /\ \A i \in 1..Len(queue) : queue'[i] = queue[i]
  BY <1>0, <1>3, EmptySeq, HeadTailProperties DEF WatermarkTypeOK
<1>6. Pending' = Pending /\ Scheduled' = Scheduled + 1 /\ Scheduled + 1 <= Pending
  BY <1>1, <1>3, <1>5 DEF Pending, Scheduled
<1>7. ASSUME NEW i \in 1..Pending PROVE At(i)' = At(i)
  <2>1. CASE i <= Scheduled
    BY <1>1, <1>3, <1>5, <1>6, <2>1 DEF At, Scheduled
  <2>2. CASE i = Scheduled + 1
    BY <1>1, <1>3, <1>5, <1>6, <2>2 DEF At, Scheduled
  <2>3. CASE i > Scheduled + 1
    <3>0. ~(i <= Len(worker)) /\ ~(i <= Scheduled) /\ ~(i <= Scheduled')
      BY <1>1, <1>6, <2>3 DEF Scheduled
    <3>1. At(i) = handler[i - Scheduled] /\ At(i)' = handler'[i - Scheduled']
      BY <1>3, <3>0 DEF At
    <3>2. i - Scheduled' \in 1..(Len(handler) - 1) /\ (i - Scheduled') + 1 = i - Scheduled
      BY <1>1, <1>6, <2>3 DEF Pending
    <3> QED
      BY <1>5, <3>1, <3>2
  <2> QED
    BY <1>1, <2>1, <2>2, <2>3
<1>8. At(Scheduled + 1) = Head(handler)
  BY <1>1, <1>5, <1>6 DEF At, Scheduled
<1>9. GraphicsFollow'
  <2>1. PICK c \in [1..(Pending + 1) -> SUBSET Graphics] :
          /\ c[1] = created /\ c[Pending + 1] = marks
          /\ \A i \in 1..Pending : c[i + 1] = Leaves(c[i], At(i)) /\ ToKnown(c[i], At(i))
    BY <1>4 DEF GraphicsFollow
  <2>2. /\ c[1] = created' /\ c[Pending' + 1] = marks'
        /\ c \in [1..(Pending' + 1) -> SUBSET Graphics]
        /\ \A i \in 1..Pending' : c[i + 1] = Leaves(c[i], At(i)') /\ ToKnown(c[i], At(i)')
    BY <1>3, <1>6, <1>7, <2>1
  <2> QED
    BY <2>2 DEF GraphicsFollow, Leaves, ToKnown
<1>10. ShownFollows'
  <2>1. PICK v \in [1..(Scheduled + 1) -> BOOLEAN] :
          /\ v[1] = visible /\ v[Scheduled + 1] = display
          /\ \A i \in 1..Scheduled : v[i + 1] = Shows(v[i], At(i))
    BY <1>4 DEF ShownFollows
  <2>2. PICK x : x = display'
    OBVIOUS
  <2> DEFINE w == [i \in 1..(Scheduled + 2) |-> IF i <= Scheduled + 1 THEN v[i] ELSE x]
  <2>3. /\ w \in [1..(Scheduled' + 1) -> BOOLEAN]
        /\ \A i \in 1..(Scheduled + 2) : w[i] = IF i <= Scheduled + 1 THEN v[i] ELSE x
    BY <1>0, <1>1, <1>6, <2>1, <2>2 DEF WatermarkTypeOK
  <2> HIDE DEF w
  <2>4. w[1] = visible' /\ w[Scheduled' + 1] = display'
    BY <1>1, <1>3, <1>6, <2>1, <2>2, <2>3
  <2>5. ASSUME NEW i \in 1..Scheduled' PROVE w[i + 1] = Shows(w[i], At(i)')
    <3>1. CASE i <= Scheduled
      BY <1>1, <1>6, <1>7, <2>1, <2>3, <3>1
    <3>2. CASE i = Scheduled + 1
      BY <1>1, <1>3, <1>6, <1>7, <1>8, <2>1, <2>2, <2>3, <3>2
    <3> QED
      BY <1>1, <1>6, <3>1, <3>2
  <2> QED
    BY <2>3, <2>4, <2>5 DEF ShownFollows, Shows
<1> QED
  BY <1>3, <1>4, <1>9, <1>10

\* The instance comes and goes.
LEMMA InstanceChanges ==
  ASSUME WMIInv, GetInstance \/ DestroyInstance \/ Dtor \/ UNCHANGED wmVars
  PROVE  WMIInv'
<1> USE DEF Destructor
<1>0. WatermarkTypeOK /\ DestructorEmpties /\ WatermarkTypeOK'
  BY WatermarkTypes DEF WMIInv, WMNext
<1>1. /\ Scheduled \in Nat /\ Pending \in Nat /\ Scheduled <= Pending
  BY <1>0, LengthsAreNat DEF Pending
<1>2. UNCHANGED <<worker, handler, created, marks, unknown>>
  BY DEF GetInstance, DestroyInstance, Dtor, HideWatermark, StopScheduler, JoinWorker,
         UnRegisterAllEvents, wmVars
<1>3. DestructorEmpties'
  BY <1>0 DEF DestructorEmpties, GetInstance, Construct, DestroyInstance, Dtor, HideWatermark,
     StopScheduler, JoinWorker, UnRegisterAllEvents, wmVars
<1> SUFFICES ASSUME ~dropped'
             PROVE  unknown' = {} /\ GraphicsFollow' /\ (instance' = "live" => ShownFollows')
  BY <1>0, <1>3 DEF WMIInv
<1>4. ~dropped /\ UNCHANGED queue
  <2>1. CASE StopScheduler
    <3>1. ~(dropped \/ queue # <<>>) /\ queue' = <<>>
      BY <2>1 DEF StopScheduler
    <3> QED
      BY <3>1
  <2>2. CASE ~StopScheduler
    BY <2>2 DEF GetInstance, DestroyInstance, Dtor, HideWatermark, JoinWorker,
       UnRegisterAllEvents, wmVars
  <2> QED
    BY <2>1, <2>2
<1>5. unknown = {} /\ GraphicsFollow /\ (instance = "live" => ShownFollows)
  BY <1>4 DEF WMIInv
<1>6. /\ Pending' = Pending /\ Scheduled' = Scheduled /\ \A i \in 1..Pending : At(i)' = At(i)
  BY <1>2, <1>4 DEF Pending, Scheduled, At
<1>7. GraphicsFollow'
  BY <1>1, <1>2, <1>5, <1>6, SameTasks
<1>8. ASSUME instance' = "live" PROVE ShownFollows'
  <2>1. CASE UNCHANGED wmVars
    BY <1>1, <1>5, <1>6, <1>8, <2>1, SameTasks DEF wmVars
  <2>2. CASE GetInstance
    <3>1. instance = "none" /\ visible' = FALSE /\ display' = FALSE
      BY <2>2 DEF GetInstance, Construct
    <3>2. Scheduled = 0
      BY <1>0, <3>1 DEF DestructorEmpties, Scheduled
    <3> DEFINE v == [i \in 1..1 |-> FALSE]
    <3>3. v \in [1..(0 + 1) -> BOOLEAN] /\ v[1] = FALSE /\ v[0 + 1] = FALSE
      OBVIOUS
    <3> HIDE DEF v
    <3>4. /\ v \in [1..(Scheduled' + 1) -> BOOLEAN]
          /\ v[1] = visible' /\ v[Scheduled' + 1] = display'
          /\ \A i \in 1..Scheduled' : v[i + 1] = Shows(v[i], At(i)')
      <4>1. Scheduled' = 0 /\ 1..Scheduled' = {}
        BY <1>6, <3>2
      <4> QED
        BY <3>1, <3>3, <4>1
    <3> QED
      BY <3>4 DEF ShownFollows, Shows
  <2> QED
    BY <1>8, <2>1, <2>2 DEF DestroyInstance, Dtor, HideWatermark, StopScheduler, JoinWorker,
       UnRegisterAllEvents
<1> QED
  BY <1>2, <1>5, <1>7, <1>8

(* While no task was dropped with an instance: whatever events come in which *)
(* order, the plugin is told about graphics only that it was asked to create *)
(* and not to delete, and once the tasks are done it has the graphics of the *)
(* service and is shown as the last event said (SecManagerThunder.cpp:       *)
(* 583-907).                                                                *)
THEOREM PluginFollows == WMSpec => []PluginFollowsEvents
<1>1. WMIInv /\ [WMNext]_wmVars => WMIInv'
  BY InstanceChanges, EventAdds, NextIsScheduled, WorkerKeeps DEF WMNext
<1>2. WMIInv => PluginFollowsEvents
  <2> SUFFICES ASSUME WMIInv, ~dropped, instance = "live", queue \o worker \o handler = <<>>
               PROVE  created = marks /\ visible = display
    BY DEF WMIInv, PluginFollowsEvents
  <2>1. WatermarkTypeOK /\ GraphicsFollow /\ ShownFollows
    BY DEF WMIInv
  <2>2. queue = <<>> /\ worker = <<>> /\ handler = <<>>
    <3>1. queue \o worker \in Seq(Tasks)
      BY <2>1, ConcatProperties DEF WatermarkTypeOK
    <3>2. queue \o worker = <<>> /\ handler = <<>>
      BY <2>1, <3>1, ConcatEqualIffEmpty DEF WatermarkTypeOK
    <3> QED
      BY <2>1, <3>2, ConcatEqualIffEmpty DEF WatermarkTypeOK
  <2>3. Pending = 0 /\ Scheduled = 0
    BY <2>2 DEF Pending, Scheduled
  <2>4. created = marks
    BY <2>1, <2>3 DEF GraphicsFollow
  <2>5. visible = display
    BY <2>1, <2>3 DEF ShownFollows
  <2> QED
    BY <2>4, <2>5
<1> QED
  BY <1>1, <1>2, WatermarkInitially, PTL DEF WMSpec
=============================================================================
