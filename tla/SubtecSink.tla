------------------------------ MODULE SubtecSink ------------------------------
(***************************************************************************)
(* gst_subtec/gstsubtecsink.cpp: the sink of text subtitles.  The           *)
(* application's thread sets properties and changes the state, the          *)
(* streaming thread delivers caps, events and buffers; both send packets on *)
(* the channel of the sink and share its fields without a lock.             *)
(*                                                                         *)
(* A call is a script: "setMute", "stamp", "clockSync", "askStamp",         *)
(* "clearStamp", "init" and "goPlaying" are the places where a call reads   *)
(* or writes a field between the packets it sends.                         *)
(***************************************************************************)
EXTENDS PacketSender

CONSTANTS
  application,  \* the client that is the application's thread
  streaming,    \* the client that is the streaming thread
  MaxCalls      \* bound: calls of the sink

\* Two threads, and the one channel of the sink (m_channel).
ASSUME SinkAssumption ==
  /\ {application, streaming} \subseteq Clients /\ application # streaming
  /\ ChannelOf[application] = ChannelOf[streaming]
  /\ MaxCalls \in Nat

VARIABLES
  m_mute, m_pts_offset, m_send_timestamp,
  hasChannel,   \* m_channel is set
  state,        \* of the element
  calls,
  raced         \* history: the application set mute or the offset while the
                \* streaming thread was between reading and sending it

sinkVars == <<m_mute, m_pts_offset, m_send_timestamp, hasChannel, state, calls, raced>>

Offsets == Values \ {0}

SubtecTypeOK ==
  /\ {m_mute, m_send_timestamp, hasChannel, raced} \subseteq BOOLEAN
  /\ m_pts_offset \in Values
  /\ state \in {"NULL", "PAUSED", "PLAYING"}
  /\ calls \in 0..MaxCalls
  /\ hasChannel \/ phase[streaming] = "idle"

SinkInit ==
  /\ m_mute = FALSE /\ m_pts_offset = 0 /\ m_send_timestamp = FALSE
  /\ hasChannel = FALSE /\ state = "NULL" /\ calls = 0 /\ raced = FALSE

Call(c, s) ==
  /\ calls < MaxCalls /\ calls' = calls + 1
  /\ Runs(c, s)
  /\ UNCHANGED <<threadVars, queue, socketVars, phase, packet, channelVars, rendererVars,
                 faultVars>>
IfChannel(s) == IF hasChannel THEN s ELSE <<>>

\* The streaming thread has read mute or the offset and not yet acted on it.
ReadBefore ==
  \/ phase[streaming] # "idle"
  \/ script[streaming] # <<>> /\ Head(script[streaming]) = "clearStamp"

-----------------------------------------------------------------------------
(* The application's thread.                                               *)

SetMute(b) ==
  /\ Call(application, <<"setMute">>)
  /\ m_mute' = b
  /\ raced' = (raced \/ ReadBefore)
  /\ UNCHANGED <<m_pts_offset, m_send_timestamp, hasChannel, state>>

\* Faulty variant: no timestamp is asked for.
SetPtsOffset_NoStamp(v) ==
  /\ Call(application, <<>>)
  /\ m_pts_offset' = v
  /\ UNCHANGED <<m_mute, m_send_timestamp, hasChannel, state, raced>>

\* The flag that asks for a timestamp is set after the offset.
SetPtsOffset(v) ==
  /\ Call(application, <<"askStamp">>)
  /\ m_pts_offset' = v
  /\ UNCHANGED <<m_mute, m_send_timestamp, hasChannel, state, raced>>

SetAttributeValues ==
  /\ Call(application, IfChannel(<<"attributes">>))
  /\ UNCHANGED <<m_mute, m_pts_offset, m_send_timestamp, hasChannel, state, raced>>

Start ==
  /\ state = "NULL"
  /\ Call(application, <<"init">>)
  /\ UNCHANGED <<m_mute, m_pts_offset, m_send_timestamp, hasChannel, state, raced>>

Play ==
  /\ state = "PAUSED"
  /\ Call(application, IF hasChannel THEN <<"resume", "setMute", "attributes", "goPlaying">>
                       ELSE <<"goPlaying">>)
  /\ UNCHANGED <<m_mute, m_pts_offset, m_send_timestamp, hasChannel, state, raced>>

PauseSink ==
  /\ state = "PLAYING" /\ state' = "PAUSED"
  /\ Call(application, IfChannel(<<"mute", "pause">>))
  /\ UNCHANGED <<m_mute, m_pts_offset, m_send_timestamp, hasChannel, raced>>

\* The pads are inactive: no call of the streaming thread is at work.
StopSink ==
  /\ state = "PAUSED" /\ state' = "NULL"
  /\ script[streaming] = <<>>
  /\ Call(application, IfChannel(<<"resetChannel", "resetAll">>))
  /\ UNCHANGED <<m_mute, m_pts_offset, m_send_timestamp, hasChannel, raced>>

\* dispose; another sink takes its place.
Dispose ==
  /\ state = "NULL"
  /\ Call(application, IfChannel(<<"resetAll">>))
  /\ m_mute' = FALSE /\ m_pts_offset' = 0 /\ m_send_timestamp' = FALSE
  /\ hasChannel' = FALSE
  /\ UNCHANGED <<state, raced>>

(* The streaming thread.                                                   *)

\* A new channel, which counts on where the one before stopped; the application
\* is not on that one.
SetCaps ==
  /\ state # "NULL" /\ phase[application] = "idle"
  /\ Call(streaming, <<"resetAll", "select", "setMute", "attributes">>)
  /\ hasChannel' = TRUE
  /\ UNCHANGED <<m_mute, m_pts_offset, m_send_timestamp, state, raced>>

Streams(s) ==
  /\ state # "NULL" /\ hasChannel
  /\ Call(streaming, s)
  /\ UNCHANGED <<m_mute, m_pts_offset, m_send_timestamp, hasChannel, state, raced>>

FlushStart == Streams(<<"resetChannel">>)

FlushStop == Streams(<<"select", "askStamp", "setMute", "attributes">>)

\* The timestamp of a clock synchronisation is sent whether asked for or not.
ClockSync == Streams(<<"clockSync", "clearStamp">>)

Render == state = "PLAYING" /\ Streams(<<"stamp", "clearStamp", "data">>)

-----------------------------------------------------------------------------
(* The elements of a script.                                               *)

Sinks == {application, streaming}
NoPacketMoves ==
  UNCHANGED <<queue, phase, packet, channelVars, rendererVars, faultVars>>

ResolvesMute(c) ==
  /\ Does(c, "setMute")
  /\ IF hasChannel THEN Composes(c, "setMute", IF m_mute THEN "mute" ELSE "unmute", 0)
     ELSE Done(c) /\ UNCHANGED <<threadVars, socketVars>> /\ NoPacketMoves
  /\ UNCHANGED sinkVars

\* Without a need for a timestamp "clearStamp" is passed over too.
Stamps(c) ==
  /\ Does(c, "stamp")
  /\ IF m_send_timestamp THEN Composes(c, "stamp", "timestamp", m_pts_offset)
     ELSE /\ script' = [script EXCEPT ![c] = Tail(Tail(@))]
          /\ UNCHANGED <<threadVars, socketVars>> /\ NoPacketMoves
  /\ UNCHANGED sinkVars

Syncs(c) == Composes(c, "clockSync", "timestamp", m_pts_offset) /\ UNCHANGED sinkVars

AsksStamp(c, b) ==
  /\ Does(c, IF b THEN "askStamp" ELSE "clearStamp") /\ Done(c)
  /\ m_send_timestamp' = b
  /\ raced' = (raced \/ (b /\ c = application /\ ReadBefore))
  /\ UNCHANGED <<threadVars, socketVars, m_mute, m_pts_offset, hasChannel, state, calls>>
  /\ NoPacketMoves

\* A start that fails leaves the element where it was.
Starts(c) ==
  /\ Does(c, "init") /\ Done(c)
  /\ \E ok \in BOOLEAN : InitComms(ok) /\ state' = IF ok THEN "PAUSED" ELSE "NULL"
  /\ m_send_timestamp' = TRUE
  /\ UNCHANGED <<m_mute, m_pts_offset, hasChannel, calls, raced>>
  /\ NoPacketMoves

GoesPlaying(c) ==
  /\ Does(c, "goPlaying") /\ Done(c)
  /\ state' = "PLAYING"
  /\ UNCHANGED <<threadVars, socketVars, m_mute, m_pts_offset, m_send_timestamp, hasChannel,
                 calls, raced>>
  /\ NoPacketMoves

SinkActs(c) ==
  ResolvesMute(c) \/ Stamps(c) \/ Syncs(c) \/ AsksStamp(c, TRUE) \/ AsksStamp(c, FALSE)
  \/ Starts(c) \/ GoesPlaying(c)

SinkNext ==
  \/ \E b \in BOOLEAN : SetMute(b)
  \/ \E v \in Offsets : SetPtsOffset(v)
  \/ SetAttributeValues \/ Start \/ Play \/ PauseSink \/ StopSink \/ Dispose
  \/ SetCaps \/ FlushStart \/ FlushStop \/ ClockSync \/ Render
  \/ \E c \in Sinks : SinkActs(c)
  \/ SenderNext /\ UNCHANGED sinkVars

SubtecSpec ==
  /\ SenderInit /\ SinkInit
  /\ script = [c \in Clients |-> <<>>]
  /\ [][SinkNext]_<<senderVars, sinkVars>>

-----------------------------------------------------------------------------
(* Lines 190-217, 248-255, 281-309 and 603-617: when everything that was    *)
(* sent has been rendered, the renderer of a playing sink is muted exactly  *)
(* if the property says so, through pauses, flushes and new channels, and   *)
(* when no timestamp is asked for any more its clock has the offset in      *)
(* force.  The exception is a change while the streaming thread was sending *)
(* the value before it.                                                     *)
SubtecFollows ==
  Quiet /\ hasChannel /\ ~raced =>
    /\ state = "PLAYING" => muted[ChannelOf[streaming]] = m_mute
    /\ state # "NULL" /\ ~m_send_timestamp => clock[ChannelOf[streaming]] = m_pts_offset
=============================================================================
