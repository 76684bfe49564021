---------------------------- MODULE CdmiDecryptor ----------------------------
(***************************************************************************)
(* gst-plugins/drm/gst/gstcdmidecryptor.cpp: the decryptor elements of the  *)
(* streams, which share one DrmSessionManager.  A protection event makes a  *)
(* decryptor call createDrmSession, with its own mutex held until the       *)
(* answer; it keeps the pointer it gets and decrypts with it until the next *)
(* event.  Buffers and protection events are serialised, so an event does   *)
(* not arrive while a buffer waits for the key.                             *)
(*                                                                         *)
(* The application clears sessions and the manager's memory of failed keys  *)
(* between tunes, when no decryptor has a session.                          *)
(***************************************************************************)
EXTENDS DrmSessionManager

VARIABLES
  element,         \* the state of the element: "ready" (also for NULL), "paused"
                   \* (also for PLAYING)
  canWait,
  streamReceived,
  drmSession,      \* the session it decrypts with
  streaming,       \* the thread in transform_ip: "out", "waiting", "woken"
  answered         \* history: an event was answered since the element paused

decVars == <<element, canWait, streamReceived, drmSession, streaming, answered>>
vars == <<drmVars, decVars>>

TypeOK ==
  /\ DrmTypeOK
  /\ element \in [Streams -> {"ready", "paused"}]
  /\ canWait \in [Streams -> BOOLEAN]
  /\ streamReceived \in [Streams -> BOOLEAN]
  /\ drmSession \in [Streams -> 0..created]
  /\ streaming \in [Streams -> {"out", "waiting", "woken"}]
  /\ answered \in [Streams -> BOOLEAN]

Init ==
  /\ DrmInit
  /\ element = [s \in Streams |-> "ready"]
  /\ canWait = [s \in Streams |-> FALSE]
  /\ streamReceived = [s \in Streams |-> FALSE]
  /\ drmSession = [s \in Streams |-> NULL]
  /\ streaming = [s \in Streams |-> "out"]
  /\ answered = [s \in Streams |-> FALSE]

\* The mutex of the element is free.
Unlocked(s) == pc[s] = "idle"

\* g_cond_signal on the element's condition.
Signal(s) ==
  streaming' = [streaming EXCEPT ![s] = IF @ = "waiting" THEN "woken" ELSE @]

Becomes(s, from, to) == element[s] = from /\ element' = [element EXCEPT ![s] = to]

-----------------------------------------------------------------------------
ReadyToPaused(s) ==
  /\ Unlocked(s)
  /\ Becomes(s, "ready", "paused")
  /\ canWait' = [canWait EXCEPT ![s] = TRUE]
  /\ UNCHANGED <<drmVars, streamReceived, drmSession, streaming, answered>>

PausedToReady(s) ==
  /\ Unlocked(s)
  /\ Becomes(s, "paused", "ready")
  /\ canWait' = [canWait EXCEPT ![s] = FALSE]
  /\ Signal(s)
  /\ answered' = [answered EXCEPT ![s] = FALSE]
  /\ UNCHANGED <<drmVars, streamReceived, drmSession>>

\* The element is destroyed, and gst_cdmidecryptor_init makes another one.
Replace(s) ==
  /\ Unlocked(s) /\ streaming[s] = "out" /\ element[s] = "ready"
  /\ streamReceived' = [streamReceived EXCEPT ![s] = FALSE]
  /\ drmSession' = [drmSession EXCEPT ![s] = NULL]
  /\ UNCHANGED <<drmVars, element, canWait, streaming, answered>>

\* gst_cdmidecryptor_sink_event, up to the call of createDrmSession.
ProtectionEvent(s, k) ==
  /\ element[s] = "paused" /\ streaming[s] = "out"
  /\ Call(s, k)
  /\ UNCHANGED decVars

\* Faulty variant: a failure leaves canWait alone.
Answer_KeepsCanWait(s) ==
  /\ Return(s)
  /\ drmSession' = [drmSession EXCEPT ![s] = result[s]]
  /\ streamReceived' = [streamReceived EXCEPT ![s] = @ \/ result[s] # NULL]
  /\ answered' = [answered EXCEPT ![s] = TRUE]
  /\ Signal(s)
  /\ UNCHANGED <<element, canWait>>

\* Lines 869-914, with the answer of createDrmSession.  A failure does not
\* reset streamReceived.
Answer(s) ==
  /\ Return(s)
  /\ drmSession' = [drmSession EXCEPT ![s] = result[s]]
  /\ streamReceived' = [streamReceived EXCEPT ![s] = @ \/ result[s] # NULL]
  /\ canWait' = [canWait EXCEPT ![s] = @ /\ result[s] # NULL]
  /\ answered' = [answered EXCEPT ![s] = TRUE]
  /\ Signal(s)
  /\ UNCHANGED element

\* gst_cdmidecryptor_transform_ip with an encrypted buffer that has to wait for
\* the key.  Every other buffer is decrypted or refused at once and changes
\* nothing here.
Buffer(s) ==
  /\ element[s] = "paused" /\ Unlocked(s)
  /\ canWait[s] /\ ~streamReceived[s]
  /\ streaming[s] = "out"
  /\ streaming' = [streaming EXCEPT ![s] = "waiting"]
  /\ UNCHANGED <<drmVars, element, canWait, streamReceived, drmSession, answered>>

SpuriousWake(s) ==
  /\ Signal(s)
  /\ streaming[s] = "waiting"
  /\ UNCHANGED <<drmVars, element, canWait, streamReceived, drmSession, answered>>

\* g_cond_wait returns, once: there is no loop around it.
WaitEnds(s) ==
  /\ streaming[s] = "woken" /\ Unlocked(s)
  /\ streaming' = [streaming EXCEPT ![s] = "out"]
  /\ UNCHANGED <<drmVars, element, canWait, streamReceived, drmSession, answered>>

Decryptor(s) ==
  \/ ReadyToPaused(s) \/ PausedToReady(s) \/ Replace(s)
  \/ \E k \in Keys : ProtectionEvent(s, k)
  \/ Answer(s) \/ Buffer(s) \/ SpuriousWake(s) \/ WaitEnds(s)

Manager ==
  /\ \/ \E s \in Streams : Proceeds(s)
     \/ \E i \in Slots : GenerateKeyRequest(i) \/ ProcessDRMKey(i)
     \/ Clears /\ \A s \in Streams : element[s] = "ready" /\ drmSession[s] = NULL
  /\ UNCHANGED decVars

Next == Manager \/ \E s \in Streams : Decryptor(s)

Spec == Init /\ [][Next]_vars

-----------------------------------------------------------------------------
\* After createDrmSession has answered, with a session or without, no buffer
\* waits for the key (lines 888-890: "to avoid deadlock scenario on drm session
\* failure"), and one waits only while the element can still get it: leaving
\* PAUSED wakes the thread, else the streaming thread could not be joined.
NoVainWait ==
  \A s \in Streams :
    /\ streaming[s] # "out" => ~answered[s]
    /\ streaming[s] = "waiting" => element[s] = "paused"

\* The session a playing decryptor would use for its next buffer exists: the
\* slot of the current playback is not taken over (DrmSessionManager.cpp, lines
\* 569-572: "Oldest slot may be used by current playback which is marked
\* primary. Avoid selecting that slot").
SessionInUseExists ==
  \A s \in Streams :
    element[s] = "paused" /\ Unlocked(s) /\ streamReceived[s] /\ drmSession[s] # NULL
      => \E i \in Slots : drmSessionContexts[i].session = drmSession[s]
=============================================================================
