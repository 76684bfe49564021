---------------------------- MODULE PacketSender ----------------------------
(***************************************************************************)
(* subtec/libsubtec: packets go from the threads that render captions or    *)
(* subtitles through their channel (SubtecChannel), which numbers them, to  *)
(* the queue of the one PacketSender, whose thread writes them to a socket  *)
(* of the renderer process.                                                *)
(*                                                                         *)
(* What a thread has yet to do is its script, a sequence of packet kinds    *)
(* and of other elements that the modules which extend this one define.     *)
(* mPktMutex is held by the sender thread in the states SenderHolds, and by *)
(* the others only in one step.  The renderer is external: it is down or    *)
(* up, and keeps what the packets told it.                                 *)
(***************************************************************************)
EXTENDS Naturals, Sequences

CONSTANTS
  Clients,      \* threads that send
  Channels,
  ChannelOf,    \* the channel a client uses
  MaxFailures,  \* writes that fail before the socket is connected again: 5
  MaxRestarts   \* bound: restarts of the renderer

ASSUME SenderAssumption ==
  /\ ChannelOf \in [Clients -> Channels] /\ "none" \notin Clients
  /\ MaxFailures \in Nat /\ MaxRestarts \in Nat

VARIABLES
  running,
  sender,       \* where the sender thread is; "none" before it is created
  queue,        \* mPacketQueue
  connected,    \* mSubtecSocketHandle
  mPktWriteFailCtr,
  terminated,   \* std::terminate was called
  closing,      \* where Close is
  script, phase, packet,   \* of each client
  counter, channelLock,    \* m_counter and mChannelMtx of each channel
  up, restarts,            \* the renderer listens; its restarts
  muted, lastCounter, clock,   \* what the renderer knows of each channel; the
                \* last counter plus 1, and 0 after a reset
  woke,         \* history: the sender thread was woken
  lost          \* history: some packet was lost, or what the renderer knew

threadVars == <<running, sender, terminated, closing>>
socketVars == <<connected, mPktWriteFailCtr>>
clientVars == <<script, phase, packet>>
channelVars == <<counter, channelLock>>
rendererVars == <<muted, lastCounter, clock>>
faultVars == <<up, restarts, lost, woke>>
senderVars == <<threadVars, queue, socketVars, clientVars, channelVars, rendererVars,
                faultVars>>

Kinds == {"mute", "unmute", "select", "attributes", "data", "timestamp", "pause",
          "resume", "resetChannel", "resetAll"}
Values == 0..2           \* of a timestamp; 0 for other packets
Packets == [kind : Kinds, channel : Channels, counter : Nat, value : Values]
NoPacket == [kind |-> "none"]
Elements == Kinds \union {"init", "ensureInit", "setMute", "stamp", "clockSync", "askStamp",
                       "clearStamp", "goPlaying"}

SenderTypeOK ==
  /\ {running, connected, terminated, up, lost, woke} \subseteq BOOLEAN
  /\ sender \in {"none", "start", "top", "toWait", "waiting", "woken", "drain", "check",
                 "done"}
  /\ closing \in {"no", "notify", "join", "closed"}
  /\ \A i \in DOMAIN queue : queue[i] \in Packets
  /\ mPktWriteFailCtr \in 0..MaxFailures
  /\ \A c \in Clients : \A i \in DOMAIN script[c] : script[c][i] \in Elements
  /\ phase \in [Clients -> {"idle", "lock", "push"}]
  /\ \A c \in Clients : (phase[c] = "idle" /\ packet[c] = NoPacket) \/ packet[c] \in Packets
  /\ counter \in [Channels -> Nat]
  /\ channelLock \in [Channels -> Clients \union {"none"}]
  /\ restarts \in 0..MaxRestarts
  /\ muted \in [Channels -> BOOLEAN] /\ lastCounter \in [Channels -> Nat]
  /\ clock \in [Channels -> Values]

SenderInit ==
  /\ running = FALSE /\ sender = "none" /\ queue = <<>>
  /\ connected = FALSE /\ mPktWriteFailCtr = 0
  /\ terminated = FALSE /\ closing = "no"
  /\ phase = [c \in Clients |-> "idle"] /\ packet = [c \in Clients |-> NoPacket]
  /\ counter = [ch \in Channels |-> 0] /\ channelLock = [ch \in Channels |-> "none"]
  /\ up \in BOOLEAN /\ restarts = 0
  /\ muted = [ch \in Channels |-> FALSE] /\ lastCounter = [ch \in Channels |-> 0]
  /\ clock = [ch \in Channels |-> 0]
  /\ lost = FALSE /\ woke = FALSE

SenderHolds == sender \in {"top", "toWait", "drain", "check"}

-----------------------------------------------------------------------------
(* The clients.                                                            *)

\* The next element of the script of c, and the rest after it.
Does(c, e) == script[c] # <<>> /\ Head(script[c]) = e /\ phase[c] = "idle" /\ ~terminated
Done(c) == script' = [script EXCEPT ![c] = Tail(@)]

\* A script of its own may be given to a client that has none.
Runs(c, s) == script[c] = <<>> /\ ~terminated /\ closing = "no"
              /\ script' = [script EXCEPT ![c] = s]

\* PacketSender::Init.  It does not know of a thread that has not started yet:
\* the assignment to mSendThread terminates the program then.  Without a
\* renderer it fails, and ok tells the caller.
InitComms(ok) ==
  \/ /\ IF running THEN ok ELSE ~up /\ ~ok
     /\ UNCHANGED <<threadVars, socketVars>>
  \/ /\ ~running /\ up /\ ok
     /\ connected' = TRUE
     /\ sender' = "start"
     /\ terminated' = (sender # "none")
     /\ UNCHANGED <<running, closing, mPktWriteFailCtr>>

\* The packet to send is determined; v is its value.
Composes(c, e, kind, v) ==
  /\ Does(c, e)
  /\ phase' = [phase EXCEPT ![c] = "lock"]
  /\ packet' = [packet EXCEPT ![c] =
       [kind |-> kind, channel |-> ChannelOf[c], counter |-> 0, value |-> v]]
  /\ UNCHANGED <<threadVars, queue, socketVars, script, channelVars, rendererVars, faultVars>>

Compose(c) == \E kind \in Kinds : Composes(c, kind, kind, 0)

Numbered(c, ch) ==
  /\ counter' = [counter EXCEPT ![ch] = IF packet[c].kind = "resetAll" THEN 1 ELSE @ + 1]
  /\ packet' = [packet EXCEPT ![c].counter =
                  IF packet[c].kind = "resetAll" THEN 0 ELSE counter[ch]]

\* Faulty variant: without mChannelMtx.
TakeChannel_Unlocked(c) ==
  LET ch == ChannelOf[c] IN
  /\ phase[c] = "lock" /\ ~terminated
  /\ phase' = [phase EXCEPT ![c] = "push"]
  /\ Numbered(c, ch)
  /\ UNCHANGED <<threadVars, queue, socketVars, script, channelLock, rendererVars,
                 faultVars>>

\* sendPacket of the channel locks it and numbers the packet.
TakeChannel(c) ==
  LET ch == ChannelOf[c] IN
  /\ phase[c] = "lock" /\ ~terminated
  /\ channelLock[ch] = "none"
  /\ channelLock' = [channelLock EXCEPT ![ch] = c]
  /\ phase' = [phase EXCEPT ![c] = "push"]
  /\ Numbered(c, ch)
  /\ UNCHANGED <<threadVars, queue, socketVars, script, rendererVars, faultVars>>

\* notify_all wakes the sender only if it waits.
Notified == IF sender = "waiting" THEN "woken" ELSE sender

SendPacket(c) ==
  /\ phase[c] = "push" /\ ~SenderHolds /\ ~terminated
  /\ queue' = Append(queue, packet[c])
  /\ sender' = Notified
  /\ phase' = [phase EXCEPT ![c] = "idle"]
  /\ packet' = [packet EXCEPT ![c] = NoPacket]
  /\ Done(c)
  /\ channelLock' = [channelLock EXCEPT ![ChannelOf[c]] = "none"]
  /\ UNCHANGED <<running, terminated, closing, socketVars, counter, rendererVars, faultVars>>

Sends(c) == Compose(c) \/ TakeChannel(c) \/ SendPacket(c)

-----------------------------------------------------------------------------
(* The sender thread.                                                      *)

Steps(from, to) == sender = from /\ sender' = to /\ ~terminated

\* senderTask locks mPktMutex; and the begin of its loop.
SenderLocks ==
  /\ Steps("start", "top")
  /\ UNCHANGED <<running, terminated, closing, queue, socketVars, clientVars, channelVars,
                 rendererVars, faultVars>>
SenderRuns ==
  /\ Steps("top", "toWait")
  /\ running' = TRUE
  /\ UNCHANGED <<terminated, closing, queue, socketVars, clientVars, channelVars,
                 rendererVars, faultVars>>
SenderWaits ==
  /\ Steps("toWait", "waiting")
  /\ UNCHANGED <<running, terminated, closing, queue, socketVars, clientVars, channelVars,
                 rendererVars, faultVars>>
SenderWakes ==
  /\ Steps("woken", "drain")
  /\ woke' = TRUE
  /\ UNCHANGED <<running, terminated, closing, queue, socketVars, clientVars, channelVars,
                 rendererVars, up, restarts, lost>>

\* What the renderer makes of packet p.
Renders(p) ==
  LET ch == p.channel IN
  /\ lastCounter' = [lastCounter EXCEPT ![ch] =
                      IF p.kind = "resetAll" THEN 0 ELSE p.counter + 1]
  /\ muted' = [muted EXCEPT ![ch] = CASE p.kind = "mute" -> TRUE
                                      [] p.kind = "unmute" -> FALSE
                                      [] OTHER -> @]
  /\ clock' = [clock EXCEPT ![ch] = IF p.kind = "timestamp" THEN p.value ELSE @]

\* Lines 158-182: the packet is lost; after too many in a row the socket is
\* connected again, which succeeds if the renderer is there.
WriteFails ==
  /\ ~(connected /\ up)
  /\ LET n == mPktWriteFailCtr + 1
     IN IF n <= MaxFailures THEN mPktWriteFailCtr' = n /\ UNCHANGED connected
        ELSE mPktWriteFailCtr' = 0 /\ connected' = up
  /\ lost' = TRUE
  /\ UNCHANGED <<rendererVars, up, restarts, woke>>

WriteSucceeds ==
  /\ connected /\ up
  /\ mPktWriteFailCtr' = 0
  /\ Renders(Head(queue))
  /\ UNCHANGED <<connected, up, restarts, lost, woke>>

\* Faulty variant: one packet is written for each notification.
SenderWrites_Once ==
  /\ queue # <<>> /\ Steps("drain", "check")
  /\ queue' = Tail(queue)
  /\ WriteFails \/ WriteSucceeds
  /\ UNCHANGED <<running, terminated, closing, clientVars, channelVars>>

SenderWrites ==
  /\ queue # <<>> /\ Steps("drain", "drain")
  /\ queue' = Tail(queue)
  /\ WriteFails \/ WriteSucceeds
  /\ UNCHANGED <<running, terminated, closing, clientVars, channelVars>>

SenderChecks ==
  /\ \/ queue = <<>> /\ Steps("drain", IF running THEN "top" ELSE "done")
     \/ Steps("check", IF running THEN "top" ELSE "done")
  /\ UNCHANGED <<running, terminated, closing, queue, socketVars, clientVars, channelVars,
                 rendererVars, faultVars>>

senderTask ==
  SenderLocks \/ SenderRuns \/ SenderWaits \/ SenderWakes \/ SenderWrites \/ SenderChecks

-----------------------------------------------------------------------------
(* Close, at the end of the program, and the renderer.                      *)

\* Without a running thread nothing is joined: a thread that has yet to start
\* terminates the program when mSendThread is destroyed.
CloseBegins ==
  /\ closing = "no" /\ ~terminated
  /\ \A c \in Clients : script[c] = <<>>
  /\ IF running THEN running' = FALSE /\ closing' = "notify" /\ UNCHANGED terminated
     ELSE /\ closing' = "closed"
          /\ terminated' = (sender # "none")
          /\ UNCHANGED running
  /\ UNCHANGED <<sender, queue, socketVars, clientVars, channelVars, rendererVars, faultVars>>

\* notify_all does not take mPktMutex.
CloseNotifies ==
  /\ closing = "notify" /\ closing' = "join"
  /\ sender' = Notified
  /\ UNCHANGED <<running, terminated, queue, socketVars, clientVars, channelVars,
                 rendererVars, faultVars>>

CloseJoins ==
  /\ closing = "join" /\ sender = "done"
  /\ closing' = "closed"
  /\ connected' = FALSE
  /\ UNCHANGED <<running, sender, terminated, queue, mPktWriteFailCtr, clientVars,
                 channelVars, rendererVars, faultVars>>

\* The renderer ends, and with it what it knew; the next one is not the process
\* that the socket is connected to.
RendererStops ==
  /\ up /\ restarts < MaxRestarts /\ ~terminated
  /\ up' = FALSE /\ restarts' = restarts + 1 /\ connected' = FALSE
  /\ lost' = TRUE
  /\ muted' = [ch \in Channels |-> FALSE]
  /\ lastCounter' = [ch \in Channels |-> 0]
  /\ clock' = [ch \in Channels |-> 0]
  /\ UNCHANGED <<threadVars, queue, mPktWriteFailCtr, clientVars, channelVars, woke>>
RendererStarts ==
  /\ ~up /\ up' = TRUE /\ ~terminated
  /\ UNCHANGED <<threadVars, queue, socketVars, clientVars, channelVars, rendererVars,
                 restarts, lost, woke>>

SenderNext ==
  \/ senderTask \/ CloseBegins \/ CloseNotifies \/ CloseJoins
  \/ RendererStops \/ RendererStarts
  \/ \E c \in Clients : Sends(c)

-----------------------------------------------------------------------------
(* SubtecChannel.cpp:70-75 and 78-110: the renderer gets the packets of a   *)
(* channel in the order of their counters, whichever threads send on it,    *)
(* and however many are lost; the counter starts again after ResetAll.      *)
(* PacketSender.cpp:91-116: no packet is left in the queue while the sender *)
(* waits, but those sent before its first wait, whose notification it       *)
(* missed.                                                                  *)
SendsAllInOrder ==
  [][/\ \A ch \in Channels :
          lastCounter'[ch] # lastCounter[ch] =>
            lastCounter'[ch] > lastCounter[ch] \/ lastCounter'[ch] = 0
     /\ (sender' = "waiting" /\ woke') => queue' = <<>>]_senderVars

\* Everything that was sent has been rendered.
Quiet ==
  /\ \A c \in Clients : script[c] = <<>>
  /\ queue = <<>> /\ sender = "waiting" /\ ~lost /\ ~terminated /\ closing = "no"
=============================================================================
