---------------------------- MODULE ClosedCaptions ----------------------------
(***************************************************************************)
(* closedcaptions: PlayerCCManagerBase and PlayerSubtecCCManager, which the *)
(* application's thread calls, and CCDataController, on whose channel the   *)
(* decoder's thread sends caption data.  The manager has no lock.           *)
(***************************************************************************)
EXTENDS PacketSender

CONSTANTS
  manager,      \* the client that is the application's thread
  decoder,      \* the client that is the decoder's thread
  Handles,      \* decoder handles
  MaxCommands   \* bound: calls of the manager, and data callbacks

ASSUME CaptionsAssumption == {manager, decoder} \subseteq Clients /\ MaxCommands \in Nat

NoHandle == "NULL"

VARIABLES
  mEnabled, mTrickplayStarted, mParentalCtrlLocked,
  mCCHandle, mHALInitialized, mHandleUpdated, mRendererInitialized,
  mOptions,     \* a style was set
  users,        \* size of mIdSet
  halHandle,    \* the handle that the HAL was started with, or NoHandle
  commands,     \* calls made
  wanted,       \* history: what SetStatus was last called with
  exempt        \* history: rendering was started in trick play or while locked,
                \* or Release ended that

statusVars == <<mEnabled, mTrickplayStarted, mParentalCtrlLocked>>
halVars == <<mCCHandle, mHALInitialized, mHandleUpdated, halHandle>>
captionVars == <<statusVars, halVars, mRendererInitialized, mOptions, users, commands,
                 wanted, exempt>>

CaptionsTypeOK ==
  /\ {mEnabled, mTrickplayStarted, mParentalCtrlLocked, mHALInitialized, mHandleUpdated,
      mRendererInitialized, mOptions, wanted, exempt} \subseteq BOOLEAN
  /\ {mCCHandle, halHandle} \subseteq Handles \union {NoHandle}
  /\ users \in Nat /\ commands \in 0..MaxCommands

StopRendering == <<"ensureInit", "mute">>
StartRendering == <<"ensureInit", "unmute">>
\* SetStyle sends the attributes for digital and for analog captions, if captions
\* are enabled; a style that is given while they are not is not even kept.
StyleScript(set) ==
  <<"ensureInit">> \o IF mEnabled /\ set THEN <<"attributes", "attributes">> ELSE <<>>

\* The constructor selects track CC1, and so stops rendering.
CaptionsScript == <<"ensureInit", "select">> \o StopRendering \o StyleScript(FALSE)

CaptionsInit ==
  /\ mEnabled = FALSE /\ mTrickplayStarted = FALSE /\ mParentalCtrlLocked = FALSE
  /\ mCCHandle = NoHandle /\ mHALInitialized = FALSE /\ mHandleUpdated = FALSE
  /\ halHandle = NoHandle
  /\ mRendererInitialized = FALSE /\ mOptions = FALSE /\ users = 1 /\ commands = 0
  /\ wanted = FALSE /\ exempt = FALSE

Hidden == mTrickplayStarted \/ mParentalCtrlLocked

Command == commands < MaxCommands /\ commands' = commands + 1

\* EnsureHALInitialized of Start; it tries again if it failed.
EnsureHALInitialized(ok) ==
  IF (~mHALInitialized \/ mHandleUpdated) /\ ok
  THEN mHALInitialized' = TRUE /\ mHandleUpdated' = FALSE /\ halHandle' = mCCHandle
  ELSE UNCHANGED <<mHALInitialized, mHandleUpdated, halHandle>>

\* Start or Stop, after the packets of s and before those of t.
Renders_(on, ok, s, t) ==
  IF on THEN /\ EnsureHALInitialized(ok)
             /\ Runs(manager, s \o StartRendering \o t)
             /\ exempt' = (exempt \/ Hidden)
  ELSE /\ Runs(manager, s \o StopRendering \o t)
       /\ UNCHANGED <<mHALInitialized, mHandleUpdated, halHandle, exempt>>

SendsNothing == UNCHANGED <<script, mHALInitialized, mHandleUpdated, halHandle, exempt>>

\* Faulty variant: the state is not saved while captions are hidden.
SetStatus_Lost(enable, ok) ==
  /\ Command
  /\ IF Hidden THEN SendsNothing /\ UNCHANGED mEnabled
     ELSE mEnabled' = enable /\ Renders_(enable, ok, <<>>, <<>>)
  /\ UNCHANGED <<mTrickplayStarted, mParentalCtrlLocked, mCCHandle>>
  /\ UNCHANGED <<mRendererInitialized, mOptions, users>>

\* CheckCCHandle is not overridden: it returns true.
SetStatus(enable, ok) ==
  /\ Command
  /\ mEnabled' = enable
  /\ IF Hidden THEN SendsNothing ELSE Renders_(enable, ok, <<>>, <<>>)
  /\ UNCHANGED <<mTrickplayStarted, mParentalCtrlLocked, mCCHandle>>
  /\ UNCHANGED <<mRendererInitialized, mOptions, users>>

SetTrickplayStatus(on, ok) ==
  /\ Command
  /\ mTrickplayStarted' = on
  /\ IF on THEN Renders_(FALSE, ok, <<>>, <<>>)
     ELSE IF ~mEnabled THEN SendsNothing
     ELSE /\ EnsureHALInitialized(ok) /\ Runs(manager, StartRendering)
          /\ exempt' = (exempt \/ mParentalCtrlLocked)
  /\ UNCHANGED <<mEnabled, mParentalCtrlLocked, mCCHandle>>
  /\ UNCHANGED <<mRendererInitialized, mOptions, users>>

SetParentalControlStatus(locked, ok) ==
  /\ Command
  /\ mParentalCtrlLocked' = locked
  /\ IF locked THEN Renders_(FALSE, ok, <<>>, <<>>)
     ELSE IF ~mEnabled THEN SendsNothing
     ELSE /\ EnsureHALInitialized(ok) /\ Runs(manager, StartRendering)
          /\ exempt' = (exempt \/ mTrickplayStarted)
  /\ UNCHANGED <<mEnabled, mTrickplayStarted, mCCHandle>>
  /\ UNCHANGED <<mRendererInitialized, mOptions, users>>

\* A track that is valid is selected; EnsureRendererStateConsistency then starts
\* or stops rendering and sends the style.
SetTrack(valid, ok) ==
  /\ Command
  /\ IF valid THEN Renders_(mEnabled, ok, <<"ensureInit", "select">>, StyleScript(mOptions))
     ELSE /\ Runs(manager, <<"ensureInit">>)
          /\ UNCHANGED <<mHALInitialized, mHandleUpdated, halHandle, exempt>>
  /\ UNCHANGED <<statusVars, mCCHandle>>
  /\ UNCHANGED <<mRendererInitialized, mOptions, users>>

SetStyle ==
  /\ Command
  /\ mOptions' = (mOptions \/ mEnabled)
  /\ Runs(manager, StyleScript(TRUE))
  /\ UNCHANGED <<statusVars, halVars, mRendererInitialized, users, exempt>>

\* Init(handle): it starts or stops rendering whether captions are hidden or not.
InitHandle(handle, ok) ==
  LET updated == mHandleUpdated \/ mCCHandle # handle IN
  /\ Command
  /\ mCCHandle' = handle
  /\ IF mEnabled
     THEN /\ Runs(manager, StartRendering)
          /\ IF (~mHALInitialized \/ updated) /\ ok
             THEN mHALInitialized' = TRUE /\ mHandleUpdated' = FALSE /\ halHandle' = handle
             ELSE mHandleUpdated' = updated /\ UNCHANGED <<mHALInitialized, halHandle>>
          /\ exempt' = (exempt \/ Hidden)
     ELSE /\ Runs(manager, StopRendering)
          /\ mHandleUpdated' = updated
          /\ UNCHANGED <<mHALInitialized, halHandle, exempt>>
  /\ UNCHANGED <<statusVars, mRendererInitialized, mOptions, users>>

GetId ==
  /\ Command
  /\ users' = users + 1
  /\ UNCHANGED <<script, statusVars, halVars, mRendererInitialized, mOptions, exempt>>

\* Release of an id that is in use.  The last user resets the channel and closes
\* the HAL, and captions are not hidden any more.
Release ==
  /\ Command
  /\ users > 0 /\ users' = users - 1
  /\ IF users' # 0
     THEN UNCHANGED <<script, statusVars, halVars, exempt>>
     ELSE /\ Runs(manager, <<"resetChannel">>)
          /\ mTrickplayStarted' = FALSE /\ mParentalCtrlLocked' = FALSE
          /\ exempt' = (exempt \/ Hidden)
          /\ mHALInitialized' = FALSE
          /\ IF mHALInitialized THEN mCCHandle' = NoHandle /\ halHandle' = NoHandle
             ELSE UNCHANGED <<mCCHandle, halHandle>>
          /\ UNCHANGED <<mEnabled, mHandleUpdated>>
  /\ UNCHANGED <<mRendererInitialized, mOptions>>

ManagerCalls ==
  /\ script[manager] = <<>> /\ closing = "no" /\ ~terminated
  /\ \/ \E b, ok \in BOOLEAN : SetStatus(b, ok) /\ wanted' = b
     \/ /\ \/ \E b, ok \in BOOLEAN : SetTrickplayStatus(b, ok)
                                   \/ SetParentalControlStatus(b, ok) \/ SetTrack(b, ok)
           \/ \E h \in Handles, ok \in BOOLEAN : InitHandle(h, ok)
           \/ SetStyle \/ GetId \/ Release
        /\ UNCHANGED wanted
  /\ UNCHANGED <<threadVars, queue, socketVars, phase, packet, channelVars, rendererVars,
                 faultVars>>

\* EnsureRendererCommsInitialized.
EnsureRendererCommsInitialized ==
  /\ Does(manager, "ensureInit") /\ Done(manager)
  /\ IF mRendererInitialized THEN UNCHANGED <<threadVars, socketVars, mRendererInitialized>>
     ELSE \E ok \in BOOLEAN : InitComms(ok) /\ mRendererInitialized' = ok
  /\ UNCHANGED <<queue, phase, packet, channelVars, rendererVars, faultVars>>
  /\ UNCHANGED <<statusVars, halVars, mOptions, users, commands, wanted, exempt>>

\* The HAL calls back while it is started.
closedCaptionDataCb ==
  /\ Command
  /\ mHALInitialized
  /\ Runs(decoder, <<"data">>)
  /\ UNCHANGED <<threadVars, queue, socketVars, phase, packet, channelVars, rendererVars,
                 faultVars>>
  /\ UNCHANGED <<statusVars, halVars, mRendererInitialized, mOptions, users, wanted, exempt>>

CaptionsNext ==
  \/ ManagerCalls \/ EnsureRendererCommsInitialized \/ closedCaptionDataCb
  \/ SenderNext /\ UNCHANGED captionVars

CaptionsSpec ==
  /\ SenderInit /\ CaptionsInit
  /\ script = [c \in Clients |-> IF c = manager THEN CaptionsScript ELSE <<>>]
  /\ [][CaptionsNext]_<<senderVars, captionVars>>

-----------------------------------------------------------------------------
CaptionChannel == ChannelOf[manager]

(* Lines 595-632, 772-798 and EnsureRendererStateConsistency: when all that *)
(* was sent has been rendered and captions are not to be hidden, they are   *)
(* shown exactly if they are enabled, whatever was called in which order    *)
(* while they were hidden.  The exception are calls that started rendering  *)
(* while it was to be hidden, and Release that ended this.  The HAL was     *)
(* started with the handle in use, unless a newer one is recorded.          *)
CaptionsFollow ==
  /\ Quiet /\ mRendererInitialized /\ ~Hidden /\ ~exempt =>
       muted[CaptionChannel] = ~wanted
  /\ mHALInitialized /\ ~mHandleUpdated => halHandle = mCCHandle
=============================================================================
