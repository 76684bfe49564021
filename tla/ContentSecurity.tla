---------------------------- MODULE ContentSecurity ----------------------------
(***************************************************************************)
(* ContentSecurityManager, its two implementations SecManagerThunder and    *)
(* ContentProtectionFirebolt, the reference-counted                         *)
(* ContentSecurityManagerSession and what DrmSessionManager does with it: a *)
(* playback session is opened at a service when a licence is acquired, is   *)
(* referenced by DrmSessionManager and by the DRM sessions in its slots, is *)
(* switched and told the speed by the application's thread, and is closed   *)
(* when the last reference to it goes.                                      *)
(*                                                                         *)
(* Two threads: "client", the application's, which calls setVideoMute,      *)
(* setPlaybackSpeedState, hideWatermarkOnDetach, setVideoWindowSize,        *)
(* notifyCleanup and clears slots; and "licence", a decryptor's, inside     *)
(* createDrmSession.  Every call to the service holds mSecMutex             *)
(* (mContentProtectionMutex); a licence request keeps it over its retries.  *)
(*                                                                         *)
(* The service is external: it opens a session with a licence, shows a      *)
(* watermark once an active session has been told a speed, and refuses a    *)
(* call about a session that is not open.  Other calls do not fail.         *)
(***************************************************************************)
EXTENDS Naturals, FiniteSets

CONSTANTS
  Backend,       \* "thunder" or "firebolt"
  Slots,         \* of drmSessionContexts
  MaxSessions,   \* bound: sessions the service opens
  Inputs,        \* what getInputSummaryHash tells apart
  MaxAttempts,   \* MAX_LICENSE_REQUEST_ATTEMPTS
  Speeds,        \* playback rates, besides 0
  MaxCalls,      \* bound: operations of the client
  MaxLicences,   \* bound: calls of createDrmSession
  None

ASSUME ContentSecurityAssumption ==
  /\ Backend \in {"thunder", "firebolt"}
  /\ {MaxSessions, MaxAttempts, MaxCalls, MaxLicences} \subseteq Nat
  /\ Speeds \subseteq Nat \ {0}
  /\ None \notin Nat \union Slots \union Inputs
  /\ Slots \intersect {"manager", "outer", "inner", "local", "new"} = {}

Sessions == 1..MaxSessions

\* The ContentSecurityManagerSession objects: DrmSessionManager's own, those of
\* the slots' DRM sessions, the local copies of the client's nested calls, and
\* the licence thread's copy and newSession.
Holders == {"manager", "outer", "inner", "local", "new"} \union Slots

VARIABLES
  service,       \* of each session, at the service
  shown,         \* the speed with which the service shows its watermark
  holds,         \* the session each object references
  hash,          \* mInputSummaryHash of the session's SessionManager
  closing,       \* the session whose ~SessionManager a thread is in
  secMutex,      \* the thread that holds it
  mute,          \* mIsVideoOnMute
  speed,         \* mCurrentSpeed
  firstFrame,    \* mFirstFrameSeen
  client,        \* where the client is
  call,          \* the operation it is in
  licence,       \* where the licence thread is
  request,       \* its slot, input, mute state, api and session id
  answer,        \* of the service: licence got, worth a retry
  attempt,       \* retryCount
  early,         \* history: a SessionManager was made for one being closed
  calls, licences

sessionVars == <<service, shown, holds, hash, closing, early>>
clientVars  == <<mute, speed, firstFrame, client, call, calls>>
licenceVars == <<licence, request, answer, attempt, licences>>
csVars == <<sessionVars, clientVars, licenceVars, secMutex>>

Open == {s \in Sessions : service[s] \in {"active", "inactive"}}
Referenced == {holds[h] : h \in Holders} \ {None}

SessionsTypeOK ==
  /\ service \in [Sessions -> {"unused", "active", "inactive", "closed"}]
  /\ shown \in [Sessions -> Speeds \union {0, None}]
  /\ holds \in [Holders -> Sessions \union {None}]
  /\ hash \in [Sessions -> Inputs \union {None}]
  /\ closing \in [{"client", "licence"} -> Sessions \union {None}]
  /\ secMutex \in {"licence", None}
  /\ mute \in BOOLEAN /\ firstFrame \in BOOLEAN /\ speed \in Speeds \union {0}
  /\ client \in {"idle", "state", "window", "unmuted", "position", "drop", "close"}
  /\ call \in {"mute", "detach", "window", "cleanup", "speed", "clear", None}
  /\ licence \in {"idle", "reuse", "hash", "state", "choose", "id", "lock", "rpc",
                  "save", "answer", "store", "slot", "close", "selfLock"}
  /\ request \in [slot : Slots \union {None}, input : Inputs \union {None},
                  muted : BOOLEAN, api : {"open", "update"},
                  id : Sessions \union {None}]
  /\ answer \in [got : BOOLEAN, again : BOOLEAN]
  /\ attempt \in 0..MaxAttempts
  /\ early \subseteq Sessions
  /\ calls \in 0..MaxCalls /\ licences \in 0..MaxLicences

NoRequest == [slot |-> None, input |-> None, muted |-> FALSE, api |-> "open", id |-> None]

CSInit ==
  /\ service = [s \in Sessions |-> "unused"]
  /\ shown = [s \in Sessions |-> None]
  /\ holds = [h \in Holders |-> None]
  /\ hash = [s \in Sessions |-> None]
  /\ closing = [t \in {"client", "licence"} |-> None]
  /\ secMutex = None
  /\ mute = FALSE /\ speed = 0 /\ firstFrame = FALSE
  /\ client = "idle" /\ call = None
  /\ licence = "idle" /\ request = NoRequest
  /\ answer = [got |-> FALSE, again |-> FALSE]
  /\ attempt = 0
  /\ early = {}
  /\ calls = 0 /\ licences = 0

-----------------------------------------------------------------------------
(* The service, as SecManagerThunder and ContentProtectionFirebolt call it. *)

\* setPlaybackSessionState, setDrmSessionState: an inactive session shows
\* nothing, an active one waits for a speed ("secmanager waits for speed update
\* to show wm once session is active").
SetDrmSessionState(s, active) ==
  IF s \in Open
  THEN /\ service' = [service EXCEPT ![s] = IF active THEN "active" ELSE "inactive"]
       /\ shown' = IF active THEN shown ELSE [shown EXCEPT ![s] = None]
  ELSE UNCHANGED <<service, shown>>

\* setPlaybackSpeedState, setPlaybackPosition.
SetPlaybackPosition(s, v) ==
  /\ shown' = IF s \in Open /\ service[s] = "active"
              THEN [shown EXCEPT ![s] = v] ELSE shown
  /\ UNCHANGED service

\* closePlaybackSession, closeDrmSession.
CloseDrmSession(s) ==
  IF s \in Open
  THEN /\ service' = [service EXCEPT ![s] = "closed"]
       /\ shown' = [shown EXCEPT ![s] = None]
  ELSE UNCHANGED <<service, shown>>

-----------------------------------------------------------------------------
(* References.  A session's SessionManager exists while an object references *)
(* it; the thread that drops the last one runs ~SessionManager.              *)

\* No object references s under f.
LastReference(s, f) == s # None /\ \A h \in Holders : f[h] # s

\* Thread t leaves the references as f, having dropped its one to s; it goes on
\* at "close" if that was the last one.
Release(t, s, f) ==
  /\ holds' = f
  /\ closing' = IF LastReference(s, f) THEN [closing EXCEPT ![t] = s] ELSE closing

\* SessionManager::getInstance(s, input) for newSession: the existing object, its
\* hash brought up to date, or a new one; in the latter case the one before may
\* not have closed the session yet ("session ID reused or session closed too
\* early").
getSessionManager(s, input) ==
  /\ holds' = [holds EXCEPT !["new"] = s]
  /\ hash' = IF s = None THEN hash ELSE [hash EXCEPT ![s] = input]
  /\ early' = IF s # None /\ s \notin Referenced /\ s \in {closing[t] : t \in DOMAIN closing}
              THEN early \union {s} ELSE early

-----------------------------------------------------------------------------
(* The client: the operations of DrmSessionManager that concern watermarks. *)

ClientGoes(from, to) == client = from /\ client' = to

Begins(op) ==
  /\ client = "idle" /\ calls < MaxCalls
  /\ calls' = calls + 1
  /\ call' = op

\* `auto localSession = mContentSecurityManagerSession`, and if it is valid the
\* call named by `at` comes next.
CopyThen(h, at) ==
  /\ holds' = [holds EXCEPT ![h] = holds["manager"]]
  /\ client' = IF holds["manager"] = None THEN "idle" ELSE at
  /\ UNCHANGED closing

setVideoMute(b) ==
  /\ Begins("mute")
  /\ mute' = b
  /\ CopyThen("outer", "state")
  /\ UNCHANGED <<service, shown, hash, early, speed, firstFrame, licenceVars, secMutex>>

\* The flag is cleared after the call if there is one.
hideWatermarkOnDetach ==
  /\ Begins("detach")
  /\ CopyThen("outer", "state")
  /\ firstFrame' = IF holds["manager"] = None THEN FALSE ELSE firstFrame
  /\ UNCHANGED <<service, shown, hash, early, mute, speed, licenceVars, secMutex>>

setVideoWindowSize ==
  /\ Begins("window")
  /\ CopyThen("outer", "window")
  /\ UNCHANGED <<service, shown, hash, early, mute, speed, firstFrame, licenceVars, secMutex>>

notifyCleanup ==
  /\ Begins("cleanup")
  /\ CopyThen("outer", "state")
  /\ UNCHANGED <<service, shown, hash, early, mute, speed, firstFrame, licenceVars, secMutex>>

\* Faulty variants of the test of lines 259-262: mute is not looked at; only the
\* first frame is reported.
MaySend_Muted(seen) == holds["manager"] # None /\ seen
MaySend(seen) == holds["manager"] # None /\ ~mute /\ seen

\* setPlaybackSpeedState(v, first): the local copy lives to its end.
PlaybackSpeed(v, first, otherwise) ==
  LET seen == first \/ firstFrame IN
  /\ speed' = v
  /\ firstFrame' = seen
  /\ holds' = [holds EXCEPT !["inner"] = holds["manager"]]
  /\ client' = IF MaySend(seen) THEN "position"
               ELSE IF holds["manager"] # None THEN "drop" ELSE otherwise
  /\ UNCHANGED closing

setPlaybackSpeedState(v, first) ==
  /\ Begins("speed")
  /\ PlaybackSpeed(v, first, "idle")
  /\ UNCHANGED <<service, shown, hash, early, mute, licenceVars, secMutex>>

\* clearSessionData and the other operations that delete the DRM session of a
\* slot; here, of a slot createDrmSession is not at work on.
ClearSlot(i) ==
  /\ Begins("clear")
  /\ holds[i] # None /\ request.slot # i
  /\ Release("client", holds[i], [holds EXCEPT ![i] = None])
  /\ client' = IF closing'["client"] = None THEN "idle" ELSE "close"
  /\ UNCHANGED <<service, shown, hash, early, mute, speed, firstFrame, licenceVars, secMutex>>

\* UpdateSessionState and what the operation does after it: notifyCleanup resets
\* the session (its local copy still references it), speed and flag,
\* hideWatermarkOnDetach the flag.
UpdateSessionState ==
  /\ ClientGoes("state", IF call = "mute" /\ ~mute THEN "unmuted" ELSE "drop")
  /\ secMutex = None
  /\ SetDrmSessionState(holds["outer"], call = "mute" /\ ~mute)
  /\ holds' = IF call = "cleanup" THEN [holds EXCEPT !["manager"] = None] ELSE holds
  /\ speed' = IF call = "cleanup" THEN 0 ELSE speed
  /\ firstFrame' = (firstFrame /\ call = "mute")
  /\ UNCHANGED <<hash, closing, early, mute, call, calls, licenceVars, secMutex>>

\* setVideoMute calls setPlaybackSpeedState with mCurrentSpeed.
SpeedAfterUnmute ==
  /\ client = "unmuted"
  /\ PlaybackSpeed(speed, FALSE, "drop")
  /\ UNCHANGED <<service, shown, hash, early, mute, call, calls, licenceVars, secMutex>>

SendPosition ==
  /\ ClientGoes("position", "drop")
  /\ secMutex = None
  /\ SetPlaybackPosition(holds["inner"], speed)
  /\ UNCHANGED <<holds, hash, closing, early, mute, speed, firstFrame, call, calls,
                 licenceVars, secMutex>>

\* setVideoWindowSize of the service: waits its turn, changes nothing here.
SendWindowSize ==
  /\ ClientGoes("window", "drop")
  /\ secMutex = None
  /\ UNCHANGED <<sessionVars, mute, speed, firstFrame, call, calls, licenceVars, secMutex>>

\* The local copies end with their scopes, the inner one first.
DropCopy ==
  /\ client = "drop"
  /\ \E h \in {"outer", "inner"} :
       /\ holds[h] # None
       /\ h = "outer" => holds["inner"] = None
       /\ Release("client", holds[h], [holds EXCEPT ![h] = None])
       /\ client' = IF closing'["client"] # None THEN "close"
                    ELSE IF h = "inner" /\ holds["outer"] # None THEN "drop" ELSE "idle"
  /\ UNCHANGED <<service, shown, hash, early, mute, speed, firstFrame, call, calls,
                 licenceVars, secMutex>>

\* ~SessionManager: ReleaseSession.
ClientReleaseSession ==
  /\ client = "close" /\ secMutex = None
  /\ CloseDrmSession(closing["client"])
  /\ closing' = [closing EXCEPT !["client"] = None]
  /\ client' = IF holds["outer"] # None THEN "drop" ELSE "idle"
  /\ UNCHANGED <<holds, hash, early, mute, speed, firstFrame, call, calls,
                 licenceVars, secMutex>>

ClientOperation ==
  \/ \E b \in BOOLEAN : setVideoMute(b)
  \/ \E v \in Speeds, first \in BOOLEAN : setPlaybackSpeedState(v, first)
  \/ hideWatermarkOnDetach \/ setVideoWindowSize \/ notifyCleanup
  \/ \E i \in Slots : ClearSlot(i)

ClientStep ==
  \/ UpdateSessionState \/ SpeedAfterUnmute \/ SendPosition \/ SendWindowSize
  \/ DropCopy \/ ClientReleaseSession

-----------------------------------------------------------------------------
(* The licence thread: createDrmSession.                                    *)

LicenceGoes(from, to) == licence = from /\ licence' = to

\* A slot's session is ready for the key: it is reused, and its playback session
\* becomes the current one if there is none (lines 649-656).
ReuseSession(i) ==
  /\ LicenceGoes("idle", "reuse") /\ licences < MaxLicences
  /\ holds[i] # None /\ holds["manager"] = None
  /\ holds' = [holds EXCEPT !["manager"] = holds[i], !["local"] = holds[i]]
  /\ licences' = licences + 1
  /\ UNCHANGED <<service, shown, hash, closing, early, clientVars, request, answer,
                 attempt, secMutex>>

\* It is activated, whether the video is muted or not; then the local copy ends.
ActivateReused ==
  /\ licence = "reuse" /\ secMutex = None
  /\ SetDrmSessionState(holds["local"], TRUE)
  /\ Release("licence", holds["local"], [holds EXCEPT !["local"] = None])
  /\ licence' = IF closing'["licence"] = None THEN "idle" ELSE "close"
  /\ UNCHANGED <<hash, early, clientVars, request, answer, attempt, licences, secMutex>>

\* AcquireLicense for a slot, with the application's account of the mute state.
AcquireLicense(i, input) ==
  /\ licence = "idle" /\ licences < MaxLicences
  /\ licence' = IF holds["manager"] = None THEN "choose" ELSE "hash"
  /\ request' = [NoRequest EXCEPT !.slot = i, !.input = input, !.muted = mute]
  /\ attempt' = 0
  /\ licences' = licences + 1
  /\ UNCHANGED <<sessionVars, clientVars, answer, secMutex>>

\* The same input: the session only has to be made active.
CompareHash ==
  /\ licence = "hash"
  /\ LET s == holds["manager"] IN
     IF s # None /\ hash[s] = request.input
     THEN licence' = "state" /\ request' = [request EXCEPT !.id = s]
     ELSE licence' = "choose" /\ UNCHANGED request
  /\ UNCHANGED <<sessionVars, clientVars, answer, attempt, licences, secMutex>>

ActivateSame ==
  /\ LicenceGoes("state", IF request.id \in Open THEN "store" ELSE "choose")
  /\ secMutex = None
  /\ SetDrmSessionState(request.id, TRUE)
  /\ UNCHANGED <<holds, hash, closing, early, clientVars, request, answer, attempt,
                 licences, secMutex>>

\* AcquireLicenseOpenOrUpdate: update if there is a session, whose id is then
\* read on its own.
ChooseApi ==
  /\ licence = "choose"
  /\ IF holds["manager"] = None
     THEN licence' = "lock" /\ request' = [request EXCEPT !.api = "open", !.id = None]
     ELSE licence' = "id" /\ request' = [request EXCEPT !.api = "update"]
  /\ UNCHANGED <<sessionVars, clientVars, answer, attempt, licences, secMutex>>

ReadSessionID ==
  /\ LicenceGoes("id", "lock")
  /\ request' = [request EXCEPT !.id = holds["manager"]]
  /\ UNCHANGED <<sessionVars, clientVars, answer, attempt, licences, secMutex>>

LockSecMutex ==
  /\ LicenceGoes("lock", "rpc")
  /\ secMutex = None /\ secMutex' = "licence"
  /\ UNCHANGED <<sessionVars, clientVars, request, answer, attempt, licences>>

\* The id newSession is made with.  ContentProtectionFirebolt::OpenDrmSession
\* takes its sessionId by value, so that the caller's is never set when a session
\* was opened: any value.
NewSessionId(s) ==
  IF Backend = "firebolt" /\ request.api = "open" THEN Sessions \union {None} ELSE {s}

\* The session a request is granted in: a new one, or the one named.
GrantedIn ==
  IF request.api = "update" THEN {request.id} \intersect Open
  ELSE LET unused == {s \in Sessions : service[s] = "unused"} IN
       {s \in unused : \A u \in unused : s <= u}

\* The service grants the request, with a licence or without one, and newSession
\* is made.
RequestGranted ==
  /\ LicenceGoes("rpc", "save")
  /\ \E s \in GrantedIn :
       /\ service' = [service EXCEPT ![s] = IF request.muted THEN "inactive" ELSE "active"]
       /\ shown' = IF request.muted THEN [shown EXCEPT ![s] = None] ELSE shown
       /\ \E id \in NewSessionId(s) : getSessionManager(id, request.input)
  /\ answer' \in [got : BOOLEAN, again : BOOLEAN]
  /\ UNCHANGED <<closing, clientVars, request, attempt, licences, secMutex>>

RequestRefused ==
  /\ LicenceGoes("rpc", "answer")
  /\ answer' \in [got : {FALSE}, again : BOOLEAN]
  /\ UNCHANGED <<sessionVars, clientVars, request, attempt, licences, secMutex>>

\* Faulty variant: the session is kept only if there was a licence in the answer.
SaveSession_OnlyWithLicence ==
  /\ licence = "save"
  /\ LET s    == holds["new"]
         kept == IF holds["manager"] = None /\ answer.got THEN s ELSE holds["manager"]
     IN holds' = [holds EXCEPT !["new"] = None, !["manager"] = kept]
  /\ licence' = "answer"
  /\ UNCHANGED <<service, shown, hash, closing, early, clientVars, request, answer,
                 attempt, licences, secMutex>>

\* `session = newSession` unless there is a session; newSession ends.  If it was
\* the last reference, ~SessionManager locks the mutex its own thread holds.
SaveSession ==
  /\ licence = "save"
  /\ LET s    == holds["new"]
         kept == IF holds["manager"] = None THEN s ELSE holds["manager"]
     IN Release("licence", s, [holds EXCEPT !["new"] = None, !["manager"] = kept])
  /\ licence' = IF closing'["licence"] = None THEN "answer" ELSE "selfLock"
  /\ UNCHANGED <<service, shown, hash, early, clientVars, request, answer, attempt,
                 licences, secMutex>>

\* Retried, with the same api and id, while the failure is of a kind that may
\* pass; mSecMutex stays locked.
Retry ==
  /\ LicenceGoes("answer", "rpc")
  /\ ~answer.got /\ answer.again /\ attempt + 1 < MaxAttempts
  /\ attempt' = attempt + 1
  /\ UNCHANGED <<sessionVars, clientVars, request, answer, licences, secMutex>>

AcquireReturns ==
  /\ LicenceGoes("answer", IF answer.got THEN "store" ELSE "idle")
  /\ answer.got \/ ~answer.again \/ attempt + 1 >= MaxAttempts
  /\ secMutex' = None
  /\ request' = IF answer.got THEN request ELSE NoRequest
  /\ UNCHANGED <<sessionVars, clientVars, answer, attempt, licences>>

\* createDrmSession, lines 505-509: the slot's session gets a reference.
CopyToSlot ==
  /\ licence = "store"
  /\ holds' = [holds EXCEPT !["local"] = holds["manager"]]
  /\ licence' = IF holds["manager"] = None THEN "idle" ELSE "slot"
  /\ request' = IF holds["manager"] = None THEN NoRequest ELSE request
  /\ UNCHANGED <<service, shown, hash, closing, early, clientVars, answer, attempt,
                 licences, secMutex>>

\* Faulty variant: the session that was in the slot is not released.
setSecManagerSession_NoRelease ==
  /\ LicenceGoes("slot", "idle")
  /\ holds' = [holds EXCEPT ![request.slot] = holds["local"], !["local"] = None]
  /\ request' = NoRequest
  /\ UNCHANGED <<service, shown, hash, closing, early, clientVars, answer, attempt,
                 licences, secMutex>>

setSecManagerSession ==
  /\ licence = "slot"
  /\ Release("licence", holds[request.slot],
             [holds EXCEPT ![request.slot] = holds["local"], !["local"] = None])
  /\ licence' = IF closing'["licence"] = None THEN "idle" ELSE "close"
  /\ request' = NoRequest
  /\ UNCHANGED <<service, shown, hash, early, clientVars, answer, attempt,
                 licences, secMutex>>

LicenceReleaseSession ==
  /\ LicenceGoes("close", "idle")
  /\ secMutex = None
  /\ CloseDrmSession(closing["licence"])
  /\ closing' = [closing EXCEPT !["licence"] = None]
  /\ UNCHANGED <<holds, hash, early, clientVars, request, answer, attempt, licences,
                 secMutex>>

LicenceStep ==
  \/ \E i \in Slots : ReuseSession(i) \/ \E input \in Inputs : AcquireLicense(i, input)
  \/ ActivateReused \/ CompareHash \/ ActivateSame \/ ChooseApi \/ ReadSessionID
  \/ LockSecMutex \/ RequestGranted \/ RequestRefused \/ SaveSession \/ Retry
  \/ AcquireReturns \/ CopyToSlot \/ setSecManagerSession \/ LicenceReleaseSession

CSNext == ClientOperation \/ ClientStep \/ LicenceStep

CSSpec == CSInit /\ [][CSNext]_csVars

-----------------------------------------------------------------------------
\* No session is forgotten: one that is open at the service is referenced, or its
\* ~SessionManager is about to close it.
OpenIsReferenced ==
  \A s \in Open : s \in Referenced \/ \E t \in DOMAIN closing : closing[t] = s

\* "the secManager session will only be closed when all copies have gone out of
\* scope" (ContentSecurityManagerSession.h:102), except for the session of an
\* update that was granted while its last reference was being dropped.
ReferencedIsOpen == \A s \in Referenced \ early : s \in Open

\* Every session that is open has a reference, and the other way round.
OpenIffReferenced == OpenIsReferenced /\ ReferencedIsOpen

AtRest == client = "idle"

\* A watermark is shown with the current speed, and none while the video is
\* muted or, after hideWatermarkOnDetach and notifyCleanup, until a first frame
\* is reported ("prevent it from being re-enabled until we get a new first video
\* frame", line 227), whatever the licence thread activates meanwhile.
ShownAsAsked ==
  AtRest => \A s \in Sessions :
              shown[s] \in {None} \union (IF mute \/ ~firstFrame THEN {} ELSE {speed})
=============================================================================
