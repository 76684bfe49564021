-------------------------- MODULE Rendering_proofs --------------------------
(***************************************************************************)
(* Captions and subtitles on the way to the renderer, for any clients and   *)
(* channels: their packets arrive in order, captions are shown as wanted,   *)
(* and the subtitles of a playing sink are muted and timed as it was told.  *)
(***************************************************************************)
EXTENDS ClosedCaptions, SubtecSink, SequenceTheorems, TLAPS

-----------------------------------------------------------------------------
(* The packets that are sent.                                               *)

SendTypes ==
  /\ sender \in {"none", "start", "top", "toWait", "waiting", "woken", "drain", "done"}
  /\ running \in BOOLEAN /\ connected \in BOOLEAN /\ terminated \in BOOLEAN
  /\ up \in BOOLEAN /\ woke \in BOOLEAN
  /\ queue \in Seq(Packets)
  /\ phase \in [Clients -> {"idle", "lock", "push"}]
  /\ packet \in [Clients -> Packets \union {NoPacket}]
  /\ \A c \in Clients : phase[c] # "idle" =>
       packet[c] \in Packets /\ packet[c].channel = ChannelOf[c]
  /\ counter \in [Channels -> Nat] /\ lastCounter \in [Channels -> Nat]
  /\ channelLock \in [Channels -> Clients \union {"none"}]

ResetAt(ch, k) == queue[k].channel = ch /\ queue[k].kind = "resetAll"
NumberAt(ch, k) == queue[k].channel = ch /\ queue[k].kind # "resetAll"
NoResetFrom(ch, i, j) == \A k \in 1..Len(queue) : i <= k /\ k <= j => ~ResetAt(ch, k)
Pushing(c, ch) == phase[c] = "push" /\ ChannelOf[c] = ch

\* n is no more than the counter of the next packet on the queue, if that is numbered.
BeforeNext(ch, n) ==
  /\ (\A c \in Clients : ~Pushing(c, ch)) => n <= counter[ch]
  /\ \A c \in Clients :
       Pushing(c, ch) /\ packet[c].kind # "resetAll" => n <= packet[c].counter

\* One client at a time numbers and sends on a channel.
ChannelHeld ==
  \A c \in Clients : phase[c] = "push" =>
    /\ channelLock[ChannelOf[c]] = c
    /\ packet[c].kind # "resetAll" => packet[c].counter + 1 <= counter[ChannelOf[c]]

\* Between resets the counters grow: from the renderer's last along the queue to the
\* next packet.
QueueGrows ==
  \A ch \in Channels : \A i, j \in 1..Len(queue) :
    i < j /\ NumberAt(ch, i) /\ NumberAt(ch, j) /\ NoResetFrom(ch, i, j) =>
      queue[i].counter < queue[j].counter
HeadGrows ==
  \A ch \in Channels : \A j \in 1..Len(queue) :
    NumberAt(ch, j) /\ NoResetFrom(ch, 1, j) => lastCounter[ch] <= queue[j].counter
EndGrows ==
  \A ch \in Channels :
    /\ \A i \in 1..Len(queue) :
         NumberAt(ch, i) /\ NoResetFrom(ch, i, Len(queue)) =>
           BeforeNext(ch, queue[i].counter + 1)
    /\ NoResetFrom(ch, 1, Len(queue)) => BeforeNext(ch, lastCounter[ch])

\* A renderer that is not connected knows nothing, unless nothing is sent any more.
LossForgets ==
  (connected /\ up) \/ terminated \/ sender = "done" \/ \A ch \in Channels : lastCounter[ch] = 0

\* After its first wait the sender thread waits with an empty queue only, and no other
\* sender thread starts.
WaitsEmpty ==
  /\ woke /\ sender \in {"top", "toWait", "waiting"} => queue = <<>>
  /\ sender \in {"none", "start"} /\ ~terminated => ~woke

SendIInv ==
  /\ SendTypes /\ ChannelHeld
  /\ QueueGrows /\ HeadGrows /\ EndGrows
  /\ LossForgets /\ WaitsEmpty

LEMMA SenderInitially == SenderInit => SendIInv
<1> SUFFICES ASSUME SenderInit PROVE SendIInv
  OBVIOUS
<1> USE DEF SenderInit
<1>1. queue \in Seq(Packets) /\ Len(queue) = 0
  BY EmptySeq
<1>2. SendTypes
  BY <1>1 DEF SendTypes
<1>3. ChannelHeld
  BY DEF ChannelHeld
<1>4. QueueGrows /\ HeadGrows
  BY <1>1 DEF QueueGrows, HeadGrows
<1>5. EndGrows
  BY <1>1 DEF EndGrows, BeforeNext, Pushing
<1>6. LossForgets /\ WaitsEmpty
  BY DEF LossForgets, WaitsEmpty
<1> QED
  BY <1>2, <1>3, <1>4, <1>5, <1>6 DEF SendIInv

\* What is on the queue and what is about to be.
LEMMA PacketsTyped ==
  ASSUME SendTypes
  PROVE  /\ Len(queue) \in Nat
         /\ \A i \in 1..Len(queue) : queue[i] \in Packets /\ queue[i].counter \in Nat
         /\ \A c \in Clients : phase[c] # "idle" =>
              packet[c].counter \in Nat /\ packet[c].channel \in Channels
<1>1. Len(queue) \in Nat /\ \A i \in 1..Len(queue) : queue[i] \in Packets
  BY ElementOfSeq, LenProperties DEF SendTypes
<1>2. \A p \in Packets : p.counter \in Nat /\ p.channel \in Channels
  BY DEF Packets
<1>3. \A c \in Clients : phase[c] # "idle" => packet[c] \in Packets
  BY DEF SendTypes
<1> QED
  BY <1>1, <1>2, <1>3

\* Steps that leave the packets alone.
LEMMA PacketsStay ==
  ASSUME SendIInv, UNCHANGED <<queue, phase, packet, channelVars>>,
         \/ UNCHANGED lastCounter
         \/ lastCounter' = [ch \in Channels |-> 0]
  PROVE  ChannelHeld' /\ QueueGrows' /\ HeadGrows' /\ EndGrows'
<1> USE DEF channelVars
<1>0. SendTypes /\ ChannelHeld /\ QueueGrows /\ HeadGrows /\ EndGrows
  BY DEF SendIInv
<1>1. ChannelHeld'
  BY <1>0 DEF ChannelHeld
<1>2. QueueGrows'
  BY <1>0 DEF QueueGrows, NumberAt, ResetAt, NoResetFrom
<1>3. \A ch \in Channels :
        lastCounter[ch] \in Nat /\ lastCounter'[ch] \in Nat /\ lastCounter'[ch] <= lastCounter[ch]
  BY <1>0 DEF SendTypes
<1>4. HeadGrows'
  <2> SUFFICES ASSUME NEW ch \in Channels, NEW j \in 1..Len(queue),
                      NumberAt(ch, j), NoResetFrom(ch, 1, j)
               PROVE  lastCounter'[ch] <= queue[j].counter
    BY DEF HeadGrows, NumberAt, ResetAt, NoResetFrom
  <2>1. lastCounter[ch] <= queue[j].counter
    BY <1>0 DEF HeadGrows
  <2>2. queue[j].counter \in Nat
    BY <1>0, PacketsTyped
  <2> QED
    BY <1>3, <2>1, <2>2
<1>5. \A ch \in Channels, n, k \in Nat : k <= n /\ BeforeNext(ch, n) => BeforeNext(ch, k)'
  <2> SUFFICES ASSUME NEW ch \in Channels, NEW n \in Nat, NEW k \in Nat,
                      k <= n, BeforeNext(ch, n)
               PROVE  BeforeNext(ch, k)'
    OBVIOUS
  <2>1. counter[ch] \in Nat
    BY <1>0 DEF SendTypes
  <2>2. \A c \in Clients : phase[c] = "push" => packet[c].counter \in Nat
    BY <1>0, PacketsTyped
  <2> QED
    BY <2>1, <2>2 DEF BeforeNext, Pushing
<1>6. EndGrows'
  <2> SUFFICES ASSUME NEW ch \in Channels
               PROVE  /\ \A i \in 1..Len(queue) :
                           NumberAt(ch, i) /\ NoResetFrom(ch, i, Len(queue)) =>
                             BeforeNext(ch, queue[i].counter + 1)'
                      /\ NoResetFrom(ch, 1, Len(queue)) => BeforeNext(ch, lastCounter[ch])'
    BY DEF EndGrows, NumberAt, ResetAt, NoResetFrom
  <2>1. \A i \in 1..Len(queue) : queue[i].counter + 1 \in Nat
    BY <1>0, PacketsTyped
  <2> QED
    BY <1>0, <1>3, <1>5, <2>1 DEF EndGrows
<1> QED
  BY <1>1, <1>2, <1>4, <1>6

LEMMA BeforeLess ==
  ASSUME SendTypes, NEW ch \in Channels, NEW n \in Nat, NEW k \in Nat,
         k <= n, BeforeNext(ch, n)
  PROVE  BeforeNext(ch, k)
<1>1. counter[ch] \in Nat
  BY DEF SendTypes
<1>2. \A c \in Clients : phase[c] = "push" => packet[c].counter \in Nat
  BY PacketsTyped
<1> QED
  BY <1>1, <1>2 DEF BeforeNext, Pushing

\* The sender thread takes the first packet, and writes it or finds that it cannot.
LEMMA FirstPacketGoes ==
  ASSUME SendIInv, queue # <<>>, queue' = Tail(queue), UNCHANGED <<phase, packet, channelVars>>,
         \/ UNCHANGED lastCounter /\ \A ch \in Channels : lastCounter[ch] = 0
         \/ lastCounter' = [lastCounter EXCEPT ![queue[1].channel] =
                              IF queue[1].kind = "resetAll" THEN 0 ELSE queue[1].counter + 1]
  PROVE  ChannelHeld' /\ QueueGrows' /\ HeadGrows' /\ EndGrows'
<1> USE DEF channelVars
<1>0. SendTypes /\ ChannelHeld /\ QueueGrows /\ HeadGrows /\ EndGrows
  BY DEF SendIInv
<1> DEFINE N == Len(queue)
<1>a. queue \in Seq(Packets) /\ Tail(queue) \in Seq(Packets) /\ Len(Tail(queue)) = N - 1
      /\ \A k \in 1..Len(Tail(queue)) : Tail(queue)[k] = queue[k + 1]
  BY <1>0, HeadTailProperties DEF SendTypes
<1>b. N \in Nat /\ N - 1 \in Nat /\ Len(queue') = N - 1
  BY <1>a, LenProperties
<1>1. PICK M \in Nat :
        /\ N \in Nat /\ M = N - 1 /\ M = Len(queue')
        /\ \A k \in 1..M : k + 1 \in 1..N /\ queue'[k] = queue[k + 1]
  <2>1. \A k \in 1..(N - 1) : k + 1 \in 1..N
    BY <1>b
  <2>2. \A k \in 1..(N - 1) : queue'[k] = queue[k + 1]
    BY <1>a
  <2> HIDE DEF N
  <2> QED
    BY <1>b, <2>1, <2>2
<1>2. \A ch \in Channels, k \in 1..M :
        /\ NumberAt(ch, k)' <=> NumberAt(ch, k + 1)
        /\ ResetAt(ch, k)' <=> ResetAt(ch, k + 1)
  BY <1>1 DEF NumberAt, ResetAt
<1>3. \A ch \in Channels, i \in 1..M, j \in 1..M : NoResetFrom(ch, i, j)' => NoResetFrom(ch, i + 1, j + 1)
  <2> SUFFICES ASSUME NEW ch \in Channels, NEW i \in 1..M, NEW j \in 1..M,
                      NoResetFrom(ch, i, j)', NEW k \in 1..N, i + 1 <= k, k <= j + 1
               PROVE  ~ResetAt(ch, k)
    BY DEF NoResetFrom
  <2>1. k - 1 \in 1..M /\ i <= k - 1 /\ k - 1 <= j /\ k = (k - 1) + 1
    BY <1>1
  <2>2. ~ResetAt(ch, k - 1)'
    BY <1>1, <2>1 DEF NoResetFrom
  <2> QED
    BY <1>2, <2>1, <2>2
<1>4. \A ch \in Channels : NoResetFrom(ch, 1, M)' /\ ~ResetAt(ch, 1) => NoResetFrom(ch, 1, N)
  <2> SUFFICES ASSUME NEW ch \in Channels, NoResetFrom(ch, 1, M)', ~ResetAt(ch, 1),
                      NEW k \in 1..N
               PROVE  ~ResetAt(ch, k)
    BY DEF NoResetFrom
  <2>1. CASE k = 1
    BY <2>1
  <2>2. CASE k # 1
    <3>1. k - 1 \in 1..M /\ k = (k - 1) + 1
      BY <1>1, <2>2
    <3>2. ~ResetAt(ch, k - 1)'
      BY <1>1, <3>1 DEF NoResetFrom
    <3> QED
      BY <1>2, <3>1, <3>2
  <2> QED
    BY <2>1, <2>2
<1>5. \A ch \in Channels, j \in 1..M : NoResetFrom(ch, 1, j)' /\ ~ResetAt(ch, 1) => NoResetFrom(ch, 1, j + 1)
  <2> SUFFICES ASSUME NEW ch \in Channels, NEW j \in 1..M, NoResetFrom(ch, 1, j)',
                      ~ResetAt(ch, 1), NEW k \in 1..N, k <= j + 1
               PROVE  ~ResetAt(ch, k)
    BY DEF NoResetFrom
  <2>1. CASE k = 1
    BY <2>1
  <2>2. CASE k # 1
    <3>1. k - 1 \in 1..M /\ k = (k - 1) + 1 /\ k - 1 <= j
      BY <1>1, <2>2
    <3>2. ~ResetAt(ch, k - 1)'
      BY <1>1, <3>1 DEF NoResetFrom
    <3> QED
      BY <1>2, <3>1, <3>2
  <2> QED
    BY <2>1, <2>2
<1>6. \A i \in 1..N : queue[i].counter \in Nat
  BY <1>0, PacketsTyped
<1>7. \A n : \A ch \in Channels : BeforeNext(ch, n)' <=> BeforeNext(ch, n)
  BY DEF BeforeNext, Pushing
<1>8. ChannelHeld'
  BY <1>0 DEF ChannelHeld
<1>9. QueueGrows'
  <2> SUFFICES ASSUME NEW ch \in Channels, NEW i \in 1..M, NEW j \in 1..M, i < j,
                      NumberAt(ch, i)', NumberAt(ch, j)', NoResetFrom(ch, i, j)'
               PROVE  queue'[i].counter < queue'[j].counter
    BY <1>1 DEF QueueGrows
  <2>1. i + 1 \in 1..N /\ j + 1 \in 1..N /\ i + 1 < j + 1
    BY <1>1
  <2>2. NumberAt(ch, i + 1) /\ NumberAt(ch, j + 1) /\ NoResetFrom(ch, i + 1, j + 1)
    BY <1>2, <1>3
  <2>3. queue[i + 1].counter < queue[j + 1].counter
    BY <1>0, <2>1, <2>2 DEF QueueGrows
  <2> QED
    BY <1>1, <2>3
\* What the renderer knows of a channel then.
<1>10. \A ch \in Channels :
         \/ lastCounter'[ch] = 0
         \/ lastCounter'[ch] = lastCounter[ch] /\ lastCounter[ch] \in Nat /\ ~ResetAt(ch, 1)
         \/ NumberAt(ch, 1) /\ lastCounter'[ch] = queue[1].counter + 1
  BY <1>0, <1>1 DEF SendTypes, ResetAt, NumberAt
<1>11. HeadGrows'
  <2> SUFFICES ASSUME NEW ch \in Channels, NEW j \in 1..M,
                      NumberAt(ch, j)', NoResetFrom(ch, 1, j)'
               PROVE  lastCounter'[ch] <= queue'[j].counter
    BY <1>1 DEF HeadGrows
  <2>1. j + 1 \in 1..N /\ 1 \in 1..N /\ 1 < j + 1 /\ queue'[j] = queue[j + 1] /\ NumberAt(ch, j + 1)
    BY <1>1, <1>2
  <2>2. queue[j + 1].counter \in Nat /\ queue[1].counter \in Nat
    BY <1>6, <2>1
  <2>3. CASE lastCounter'[ch] = 0
    BY <2>1, <2>2, <2>3
  <2>4. CASE lastCounter'[ch] = lastCounter[ch] /\ lastCounter[ch] \in Nat /\ ~ResetAt(ch, 1)
    <3>1. NoResetFrom(ch, 1, j + 1)
      BY <1>5, <2>4
    <3>2. lastCounter[ch] <= queue[j + 1].counter
      BY <1>0, <2>1, <3>1 DEF HeadGrows
    <3> QED
      BY <2>1, <2>4, <3>2
  <2>5. CASE NumberAt(ch, 1) /\ lastCounter'[ch] = queue[1].counter + 1
    <3>1. NoResetFrom(ch, 1, j + 1)
      BY <1>5, <2>5 DEF NumberAt, ResetAt
    <3>2. queue[1].counter < queue[j + 1].counter
      BY <1>0, <2>1, <2>5, <3>1 DEF QueueGrows
    <3> QED
      BY <2>1, <2>2, <2>5, <3>2
  <2> QED
    BY <1>10, <2>3, <2>4, <2>5
<1>12. EndGrows'
  <2> SUFFICES ASSUME NEW ch \in Channels
               PROVE  /\ \A i \in 1..M : NumberAt(ch, i)' /\ NoResetFrom(ch, i, M)' =>
                           BeforeNext(ch, queue'[i].counter + 1)
                      /\ NoResetFrom(ch, 1, M)' => BeforeNext(ch, lastCounter'[ch])
    BY <1>1, <1>7 DEF EndGrows
  <2>1. ASSUME NEW i \in 1..M, NumberAt(ch, i)', NoResetFrom(ch, i, M)'
        PROVE  BeforeNext(ch, queue'[i].counter + 1)
    <3>1. M \in 1..M /\ M + 1 = N
      BY <1>1
    <3>2. NumberAt(ch, i + 1) /\ NoResetFrom(ch, i + 1, N)
      BY <1>2, <1>3, <2>1, <3>1
    <3> QED
      BY <1>0, <1>1, <3>2 DEF EndGrows
  <2>2. ASSUME NoResetFrom(ch, 1, M)'
        PROVE  BeforeNext(ch, lastCounter'[ch])
    <3>1. CASE lastCounter'[ch] = lastCounter[ch] /\ lastCounter[ch] \in Nat /\ ~ResetAt(ch, 1)
      BY <1>0, <1>4, <2>2, <3>1 DEF EndGrows
    <3>2. CASE NumberAt(ch, 1) /\ lastCounter'[ch] = queue[1].counter + 1
      <4>1. NoResetFrom(ch, 1, N) /\ 1 \in 1..N
        BY <1>1, <1>4, <2>2, <3>2 DEF NumberAt, ResetAt
      <4> QED
        BY <1>0, <3>2, <4>1 DEF EndGrows
    <3>3. CASE lastCounter'[ch] = 0
      <4>1. counter[ch] \in Nat
        BY <1>0 DEF SendTypes
      <4>2. \A c \in Clients : phase[c] = "push" => packet[c].counter \in Nat
        BY <1>0, PacketsTyped
      <4> QED
        BY <3>3, <4>1, <4>2 DEF BeforeNext, Pushing
    <3> QED
      BY <1>10, <3>1, <3>2, <3>3
  <2> QED
    BY <2>1, <2>2
<1> QED
  BY <1>8, <1>9, <1>11, <1>12

\* A packet joins the queue; its client then lets the channel go.
LEMMA PacketJoins ==
  ASSUME SendIInv, NEW c \in Clients, SendPacket(c)
  PROVE  ChannelHeld' /\ QueueGrows' /\ HeadGrows' /\ EndGrows'
<1> DEFINE p == packet[c]
           mine == ChannelOf[c]
           After(ch, n) ==
             /\ (\A d \in Clients : ~Pushing(d, ch)') => n <= counter'[ch]
             /\ \A d \in Clients :
                  Pushing(d, ch)' /\ packet'[d].kind # "resetAll" => n <= packet'[d].counter
<1>0. SendTypes /\ ChannelHeld /\ QueueGrows /\ HeadGrows /\ EndGrows
  BY DEF SendIInv
<1>1. /\ phase[c] = "push" /\ queue' = Append(queue, packet[c])
      /\ phase' = [phase EXCEPT ![c] = "idle"] /\ packet' = [packet EXCEPT ![c] = NoPacket]
      /\ channelLock' = [channelLock EXCEPT ![mine] = "none"]
      /\ UNCHANGED <<counter, lastCounter>>
  BY DEF SendPacket, rendererVars
<1>2. /\ p \in Packets /\ p.channel = mine /\ mine \in Channels /\ p.counter \in Nat
      /\ channelLock[mine] = c
      /\ p.kind # "resetAll" => p.counter + 1 <= counter[mine]
  <2>1. p \in Packets /\ p.channel = mine
    BY <1>0, <1>1 DEF SendTypes
  <2>2. p.counter \in Nat /\ p.channel \in Channels
    BY <1>0, <1>1, PacketsTyped
  <2> QED
    BY <1>0, <1>1, <2>1, <2>2 DEF ChannelHeld
<1> HIDE DEF p, mine, After
<1>a. PICK N \in Nat : N = Len(queue)
  BY <1>0, PacketsTyped
<1>3. /\ Len(queue') = N + 1 /\ queue'[N + 1] = p
      /\ \A k \in 1..N : queue'[k] = queue[k]
  BY <1>0, <1>1, <1>2, <1>a, AppendProperties DEF SendTypes, p
<1>4. \A ch \in Channels, k \in 1..N :
        /\ NumberAt(ch, k)' <=> NumberAt(ch, k)
        /\ ResetAt(ch, k)' <=> ResetAt(ch, k)
  BY <1>3 DEF NumberAt, ResetAt
<1>5. \A ch \in Channels :
        /\ NumberAt(ch, N + 1)' <=> ch = mine /\ p.kind # "resetAll"
        /\ ResetAt(ch, N + 1)' <=> ch = mine /\ p.kind = "resetAll"
  BY <1>2, <1>3 DEF NumberAt, ResetAt
<1>6. \A ch \in Channels, i \in 1..(N + 1), j \in 1..N : NoResetFrom(ch, i, j)' => NoResetFrom(ch, i, j)
  BY <1>a, <1>3, <1>4 DEF NoResetFrom
<1>7. \A ch \in Channels, i \in 1..(N + 1) :
        NoResetFrom(ch, i, N + 1)' => NoResetFrom(ch, i, N) /\ ~ResetAt(ch, N + 1)'
  BY <1>a, <1>3, <1>4 DEF NoResetFrom
\* No other client numbers or sends on the channel.
<1>8. \A d \in Clients : phase'[d] = "push" <=> phase[d] = "push" /\ d # c
  BY <1>0, <1>1 DEF SendTypes
<1>9. \A d \in Clients : d # c /\ phase[d] = "push" =>
        ChannelOf[d] # mine /\ packet'[d] = packet[d]
  BY <1>0, <1>1, <1>2 DEF ChannelHeld, SendTypes
<1>10. ChannelHeld'
  <2> SUFFICES ASSUME NEW d \in Clients, phase'[d] = "push"
               PROVE  /\ channelLock'[ChannelOf[d]] = d
                      /\ packet'[d].kind # "resetAll" =>
                           packet'[d].counter + 1 <= counter'[ChannelOf[d]]
    BY DEF ChannelHeld
  <2>1. d # c /\ phase[d] = "push" /\ ChannelOf[d] # mine /\ packet'[d] = packet[d]
    BY <1>8, <1>9
  <2>2. channelLock'[ChannelOf[d]] = channelLock[ChannelOf[d]]
    <3>1. channelLock \in [Channels -> Clients \union {"none"}]
      BY <1>0 DEF SendTypes
    <3>2. ChannelOf[d] = packet[d].channel /\ packet[d].channel \in Channels
      BY <1>0, <2>1, PacketsTyped DEF SendTypes
    <3> QED
      BY <1>1, <2>1, <3>1, <3>2
  <2> QED
    BY <1>0, <1>1, <2>1, <2>2 DEF ChannelHeld
<1>11. QueueGrows'
  <2> SUFFICES ASSUME NEW ch \in Channels, NEW i \in 1..(N + 1), NEW j \in 1..(N + 1), i < j,
                      NumberAt(ch, i)', NumberAt(ch, j)', NoResetFrom(ch, i, j)'
               PROVE  queue'[i].counter < queue'[j].counter
    BY <1>3 DEF QueueGrows
  <2>1. i \in 1..N
    BY <1>a
  <2>2. CASE j \in 1..N
    <3>1. NumberAt(ch, i) /\ NumberAt(ch, j) /\ NoResetFrom(ch, i, j)
      BY <1>4, <1>6, <2>1, <2>2
    <3> QED
      BY <1>0, <1>a, <1>3, <2>1, <2>2, <3>1 DEF QueueGrows
  <2>3. CASE j = N + 1
    <3>1. ch = mine /\ p.kind # "resetAll" /\ queue'[j] = p
      BY <1>3, <1>5, <2>3
    <3>2. NumberAt(ch, i) /\ NoResetFrom(ch, i, N)
      BY <1>4, <1>7, <2>1, <2>3
    <3>3. BeforeNext(ch, queue[i].counter + 1)
      BY <1>0, <1>a, <2>1, <3>2 DEF EndGrows
    <3>4. queue[i].counter + 1 <= p.counter
      BY <1>1, <3>1, <3>3 DEF BeforeNext, Pushing, mine, p
    <3>5. queue[i].counter \in Nat
      BY <1>0, <1>a, <2>1, PacketsTyped
    <3> QED
      BY <1>2, <1>3, <2>1, <3>1, <3>4, <3>5
  <2> QED
    BY <1>a, <2>2, <2>3
<1>12. HeadGrows'
  <2> SUFFICES ASSUME NEW ch \in Channels, NEW j \in 1..(N + 1),
                      NumberAt(ch, j)', NoResetFrom(ch, 1, j)'
               PROVE  lastCounter[ch] <= queue'[j].counter
    BY <1>1, <1>3 DEF HeadGrows
  <2>1. CASE j \in 1..N
    <3>1. NumberAt(ch, j) /\ NoResetFrom(ch, 1, j)
      BY <1>a, <1>4, <1>6, <2>1
    <3> QED
      BY <1>0, <1>a, <1>3, <2>1, <3>1 DEF HeadGrows
  <2>2. CASE j = N + 1
    <3>1. ch = mine /\ p.kind # "resetAll" /\ queue'[j] = p
      BY <1>3, <1>5, <2>2
    <3>2. NoResetFrom(ch, 1, N)
      BY <1>a, <1>7, <2>2
    <3>3. BeforeNext(ch, lastCounter[ch])
      BY <1>0, <1>a, <3>2 DEF EndGrows
    <3> QED
      BY <1>1, <3>1, <3>3 DEF BeforeNext, Pushing, mine, p
  <2> QED
    BY <1>a, <2>1, <2>2
\* What comes before the packet comes before the next one of its channel.
<1>13. ASSUME NEW ch \in Channels, NEW n \in Nat, BeforeNext(ch, n), ~ResetAt(ch, N + 1)'
       PROVE  After(ch, n)
  <2>1. CASE ch = mine
    <3>1. p.kind # "resetAll"
      BY <1>5, <1>13, <2>1
    <3>2. n <= p.counter /\ p.counter + 1 <= counter[mine] /\ counter[mine] \in Nat
      BY <1>0, <1>1, <1>2, <1>13, <2>1, <3>1 DEF BeforeNext, Pushing, mine, p, SendTypes
    <3>3. n <= counter'[ch]
      BY <1>1, <1>2, <2>1, <3>2
    <3>4. \A d \in Clients : ~Pushing(d, ch)'
      BY <1>8, <1>9, <2>1 DEF Pushing
    <3> QED
      BY <3>3, <3>4 DEF After
  <2>2. CASE ch # mine
    <3>1. \A d \in Clients : /\ Pushing(d, ch)' <=> Pushing(d, ch)
                             /\ Pushing(d, ch) => packet'[d] = packet[d]
      BY <1>8, <1>9, <2>2 DEF Pushing, mine
    <3> QED
      BY <1>1, <1>13, <3>1 DEF BeforeNext, After
  <2> QED
    BY <2>1, <2>2
<1>14. ASSUME NEW ch \in Channels, NEW i \in 1..(N + 1), NumberAt(ch, i)', NoResetFrom(ch, i, N + 1)'
       PROVE  After(ch, queue'[i].counter + 1)
  <2>1. CASE i \in 1..N
    <3>1. NumberAt(ch, i) /\ NoResetFrom(ch, i, N) /\ ~ResetAt(ch, N + 1)'
      BY <1>4, <1>7, <1>14, <2>1
    <3>2. BeforeNext(ch, queue[i].counter + 1)
      BY <1>0, <1>a, <2>1, <3>1 DEF EndGrows
    <3>3. queue[i].counter + 1 \in Nat
      BY <1>0, <1>a, <2>1, PacketsTyped
    <3> QED
      BY <1>3, <1>13, <2>1, <3>1, <3>2, <3>3
  <2>2. CASE i = N + 1
    <3>1. ch = mine /\ p.kind # "resetAll" /\ queue'[i] = p
      BY <1>3, <1>5, <1>14, <2>2
    <3>2. \A d \in Clients : ~Pushing(d, ch)'
      BY <1>8, <1>9, <3>1 DEF Pushing
    <3> QED
      BY <1>1, <1>2, <3>1, <3>2 DEF After
  <2> QED
    BY <1>a, <2>1, <2>2
<1>15. ASSUME NEW ch \in Channels, NoResetFrom(ch, 1, N + 1)'
       PROVE  After(ch, lastCounter[ch])
  <2>1. NoResetFrom(ch, 1, N) /\ ~ResetAt(ch, N + 1)'
    BY <1>a, <1>7, <1>15
  <2>2. BeforeNext(ch, lastCounter[ch]) /\ lastCounter[ch] \in Nat
    BY <1>0, <1>a, <2>1 DEF EndGrows, SendTypes
  <2> QED
    BY <1>13, <2>1, <2>2
<1>16. EndGrows'
  BY <1>1, <1>3, <1>14, <1>15 DEF EndGrows, BeforeNext, After
<1> QED
  BY <1>10, <1>11, <1>12, <1>16

\* Steps that leave the queue, the counters and the client that sends on each channel alone.
LEMMA SendersStay ==
  ASSUME SendIInv, UNCHANGED <<queue, channelVars, lastCounter>>,
         \A d \in Clients : /\ phase'[d] = "push" <=> phase[d] = "push"
                            /\ phase[d] = "push" => packet'[d] = packet[d]
  PROVE  ChannelHeld' /\ QueueGrows' /\ HeadGrows' /\ EndGrows'
<1> USE DEF channelVars
<1>0. SendTypes /\ ChannelHeld /\ QueueGrows /\ HeadGrows /\ EndGrows
  BY DEF SendIInv
<1>1. ChannelHeld'
  BY <1>0 DEF ChannelHeld
<1>2. QueueGrows' /\ HeadGrows'
  BY <1>0 DEF QueueGrows, HeadGrows, NumberAt, ResetAt, NoResetFrom
<1>3. \A n : \A ch \in Channels : BeforeNext(ch, n)' <=> BeforeNext(ch, n)
  BY DEF BeforeNext, Pushing
<1>4. EndGrows'
  BY <1>0, <1>3 DEF EndGrows, NumberAt, ResetAt, NoResetFrom
<1> QED
  BY <1>1, <1>2, <1>4

\* A client takes its channel and numbers its packet.
LEMMA ChannelTaken ==
  ASSUME SendIInv, NEW c \in Clients, TakeChannel(c)
  PROVE  ChannelHeld' /\ QueueGrows' /\ HeadGrows' /\ EndGrows'
<1> DEFINE mine == ChannelOf[c]
<1>0. SendTypes /\ ChannelHeld /\ QueueGrows /\ HeadGrows /\ EndGrows
  BY DEF SendIInv
<1>1. /\ phase[c] = "lock" /\ channelLock[mine] = "none" /\ mine \in Channels
      /\ channelLock' = [channelLock EXCEPT ![mine] = c]
      /\ phase' = [phase EXCEPT ![c] = "push"]
      /\ counter' = [counter EXCEPT ![mine] = IF packet[c].kind = "resetAll" THEN 1 ELSE @ + 1]
      /\ packet' = [packet EXCEPT ![c].counter =
                      IF packet[c].kind = "resetAll" THEN 0 ELSE counter[mine]]
      /\ UNCHANGED <<queue, lastCounter>>
  BY SenderAssumption DEF TakeChannel, Numbered, rendererVars
<1>2. \A d \in Clients : phase[d] = "push" => ChannelOf[d] # mine /\ d # c
  BY <1>0, <1>1, SenderAssumption DEF ChannelHeld
<1>3. \A d \in Clients : /\ phase'[d] = "push" <=> phase[d] = "push" \/ d = c
                         /\ d # c => packet'[d] = packet[d]
  BY <1>0, <1>1 DEF SendTypes
<1>4. packet[c] \in Packets
  BY <1>0, <1>1 DEF SendTypes
<1>5. /\ packet'[c].kind = packet[c].kind
      /\ packet[c].kind # "resetAll" => packet'[c].counter = counter[mine]
  <2>1. packet'[c] = [packet[c] EXCEPT !.counter =
                        IF packet[c].kind = "resetAll" THEN 0 ELSE counter[mine]]
    BY <1>0, <1>1 DEF SendTypes
  <2> QED
    BY <1>4, <2>1 DEF Packets
<1>6. /\ packet[c].kind # "resetAll" => counter'[mine] = counter[mine] + 1
      /\ \A ch \in Channels : ch # mine => counter'[ch] = counter[ch]
      /\ counter[mine] \in Nat
  BY <1>0, <1>1 DEF SendTypes
<1> HIDE DEF mine
<1>7. ChannelHeld'
  <2> SUFFICES ASSUME NEW d \in Clients, phase'[d] = "push"
               PROVE  /\ channelLock'[ChannelOf[d]] = d
                      /\ packet'[d].kind # "resetAll" =>
                           packet'[d].counter + 1 <= counter'[ChannelOf[d]]
    BY DEF ChannelHeld
  <2>0. ChannelOf[d] \in Channels
    BY SenderAssumption
  <2>1. CASE d = c
    <3>1. channelLock'[mine] = c
      BY <1>0, <1>1 DEF SendTypes
    <3> QED
      BY <1>5, <1>6, <2>1, <3>1 DEF mine
  <2>2. CASE d # c
    <3>1. phase[d] = "push" /\ ChannelOf[d] # mine /\ packet'[d] = packet[d]
      BY <1>2, <1>3, <2>2
    <3>2. channelLock'[ChannelOf[d]] = channelLock[ChannelOf[d]]
      BY <1>0, <1>1, <2>0, <3>1 DEF SendTypes
    <3> QED
      BY <1>0, <1>6, <2>0, <3>1, <3>2 DEF ChannelHeld
  <2> QED
    BY <2>1, <2>2
<1>8. QueueGrows' /\ HeadGrows'
  BY <1>0, <1>1 DEF QueueGrows, HeadGrows, NumberAt, ResetAt, NoResetFrom
<1>9. ASSUME NEW ch \in Channels, NEW n, BeforeNext(ch, n)
      PROVE  BeforeNext(ch, n)'
  <2>1. CASE ch = mine
    <3>1. n <= counter[mine]
      BY <1>2, <1>9, <2>1 DEF BeforeNext, Pushing
    <3>2. \A d \in Clients : Pushing(d, ch)' => d = c
      BY <1>2, <1>3, <2>1 DEF Pushing
    <3>3. Pushing(c, ch)'
      BY <1>3, <2>1 DEF Pushing, mine
    <3> QED
      BY <1>5, <3>1, <3>2, <3>3 DEF BeforeNext
  <2>2. CASE ch # mine
    <3>1. \A d \in Clients : /\ Pushing(d, ch)' <=> Pushing(d, ch)
                             /\ Pushing(d, ch) => packet'[d] = packet[d]
      BY <1>2, <1>3, <2>2 DEF Pushing, mine
    <3> QED
      BY <1>6, <1>9, <2>2, <3>1 DEF BeforeNext
  <2> QED
    BY <2>1, <2>2
<1>10. EndGrows'
  <2> SUFFICES ASSUME NEW ch \in Channels
               PROVE  /\ \A i \in 1..Len(queue) :
                           NumberAt(ch, i) /\ NoResetFrom(ch, i, Len(queue)) =>
                             BeforeNext(ch, queue[i].counter + 1)'
                      /\ NoResetFrom(ch, 1, Len(queue)) => BeforeNext(ch, lastCounter[ch])'
    BY <1>1 DEF EndGrows, NumberAt, ResetAt, NoResetFrom
  <2> QED
    BY <1>0, <1>1, <1>9 DEF EndGrows
<1> QED
  BY <1>7, <1>8, <1>10

\* Steps of the sender thread that write nothing, and of Close.
LEMMA SenderMoves ==
  ASSUME SendIInv,
         \/ SenderLocks \/ SenderRuns \/ SenderWaits \/ SenderWakes \/ SenderChecks
         \/ CloseBegins \/ CloseNotifies \/ CloseJoins
  PROVE  SendIInv'
<1>0. SendTypes /\ LossForgets /\ WaitsEmpty
  BY DEF SendIInv
<1> USE DEF SenderLocks, SenderRuns, SenderWaits, SenderWakes, SenderChecks, CloseBegins,
            CloseNotifies, CloseJoins, Steps, Notified, socketVars, clientVars, channelVars,
            rendererVars, faultVars
<1>1. UNCHANGED <<queue, phase, packet, channelVars, lastCounter, counter, channelLock>>
  OBVIOUS
<1>2. ChannelHeld' /\ QueueGrows' /\ HeadGrows' /\ EndGrows'
  BY <1>1, PacketsStay
<1>3. UNCHANGED up /\ (connected' = connected \/ sender' = "done")
  OBVIOUS
<1>4. /\ sender' \in {"none", "start", "top", "toWait", "waiting", "woken", "drain", "done"}
      /\ running' \in BOOLEAN /\ connected' \in BOOLEAN /\ terminated' \in BOOLEAN
      /\ woke' \in BOOLEAN
  BY <1>0 DEF SendTypes
<1>5. SendTypes'
  BY <1>0, <1>1, <1>3, <1>4 DEF SendTypes
<1>6. LossForgets'
  <2>1. terminated => terminated'
    OBVIOUS
  <2>2. sender = "done" => sender' = "done"
    BY <1>0 DEF SendTypes
  <2> QED
    BY <1>0, <1>1, <1>3, <2>1, <2>2 DEF LossForgets
<1>7. WaitsEmpty'
  BY <1>0, <1>1 DEF WaitsEmpty, SendTypes
<1> QED
  BY <1>2, <1>5, <1>6, <1>7 DEF SendIInv

LEMMA SenderWritesOn ==
  ASSUME SendIInv, SenderWrites
  PROVE  SendIInv'
<1>0. SendTypes /\ LossForgets /\ WaitsEmpty
  BY DEF SendIInv
<1>1. /\ queue # <<>> /\ queue' = Tail(queue) /\ sender = "drain" /\ sender' = "drain"
      /\ ~terminated /\ up' = up /\ woke' = woke
      /\ UNCHANGED <<running, terminated, phase, packet, channelVars, counter, channelLock>>
  BY DEF SenderWrites, WriteFails, WriteSucceeds, Steps, clientVars, channelVars
<1>2. queue \in Seq(Packets) /\ queue' \in Seq(Packets) /\ Head(queue) = queue[1] /\ queue[1] \in Packets
  BY <1>0, <1>1, HeadTailProperties, EmptySeq DEF SendTypes
<1>3. \/ /\ ~(connected /\ up) /\ UNCHANGED lastCounter /\ connected' \in BOOLEAN
      \/ /\ connected /\ up /\ connected' = connected
         /\ lastCounter' = [lastCounter EXCEPT ![queue[1].channel] =
                              IF queue[1].kind = "resetAll" THEN 0 ELSE queue[1].counter + 1]
  BY <1>0, <1>1, <1>2 DEF SenderWrites, WriteFails, WriteSucceeds, Renders, rendererVars, SendTypes
<1>4. ~(connected /\ up) => \A ch \in Channels : lastCounter[ch] = 0
  BY <1>0, <1>1 DEF LossForgets
<1>5. ChannelHeld' /\ QueueGrows' /\ HeadGrows' /\ EndGrows'
  BY <1>1, <1>3, <1>4, FirstPacketGoes
<1>6. queue[1].counter \in Nat /\ queue[1].channel \in Channels
  BY <1>2 DEF Packets
<1>7. lastCounter' \in [Channels -> Nat]
  BY <1>0, <1>3, <1>6 DEF SendTypes
<1>8. SendTypes'
  BY <1>0, <1>1, <1>2, <1>3, <1>7 DEF SendTypes
<1>9. LossForgets'
  BY <1>1, <1>3, <1>4 DEF LossForgets
<1>10. WaitsEmpty'
  BY <1>1 DEF WaitsEmpty
<1> QED
  BY <1>5, <1>8, <1>9, <1>10 DEF SendIInv

LEMMA RendererMoves ==
  ASSUME SendIInv, RendererStops \/ RendererStarts
  PROVE  SendIInv'
<1>0. SendTypes /\ LossForgets /\ WaitsEmpty
  BY DEF SendIInv
<1> USE DEF RendererStops, RendererStarts, threadVars, socketVars, clientVars, channelVars,
            rendererVars
<1>1. /\ UNCHANGED <<queue, phase, packet, channelVars, counter, channelLock, running, sender,
                     terminated, woke>>
      /\ \/ UNCHANGED <<lastCounter, connected>> /\ ~up /\ up' = TRUE
         \/ lastCounter' = [ch \in Channels |-> 0] /\ up' = FALSE /\ connected' = FALSE
  OBVIOUS
<1>2. ChannelHeld' /\ QueueGrows' /\ HeadGrows' /\ EndGrows'
  BY <1>1, PacketsStay
<1>a. lastCounter' \in [Channels -> Nat] /\ up' \in BOOLEAN /\ connected' \in BOOLEAN
  <2>1. CASE UNCHANGED <<lastCounter, connected>> /\ up' = TRUE
    BY <1>0, <2>1 DEF SendTypes
  <2>2. CASE lastCounter' = [ch \in Channels |-> 0] /\ up' = FALSE /\ connected' = FALSE
    BY <2>2
  <2> QED
    BY <1>1, <2>1, <2>2
<1>3. SendTypes'
  BY <1>0, <1>1, <1>a DEF SendTypes
<1>4. LossForgets' /\ WaitsEmpty'
  BY <1>0, <1>1 DEF LossForgets, WaitsEmpty
<1> QED
  BY <1>2, <1>3, <1>4 DEF SendIInv

LEMMA PacketComposed ==
  ASSUME SendIInv, NEW c \in Clients, NEW e, NEW kind \in Kinds,
         NEW v \in Values, Composes(c, e, kind, v)
  PROVE  SendIInv'
<1>0. SendTypes /\ LossForgets /\ WaitsEmpty
  BY DEF SendIInv
<1> USE DEF threadVars, socketVars, channelVars, rendererVars, faultVars
<1>1. /\ phase[c] = "idle" /\ phase' = [phase EXCEPT ![c] = "lock"]
      /\ packet' = [packet EXCEPT ![c] =
                      [kind |-> kind, channel |-> ChannelOf[c], counter |-> 0, value |-> v]]
      /\ UNCHANGED <<queue, channelVars, lastCounter, counter, channelLock, running, sender,
                     terminated, connected, up, woke>>
  BY DEF Composes, Does
<1>2. [kind |-> kind, channel |-> ChannelOf[c], counter |-> 0, value |-> v] \in Packets
  BY SenderAssumption DEF Packets
<1>3. \A d \in Clients : /\ phase'[d] = "push" <=> phase[d] = "push"
                         /\ phase[d] = "push" => packet'[d] = packet[d]
  BY <1>0, <1>1 DEF SendTypes
<1>4. ChannelHeld' /\ QueueGrows' /\ HeadGrows' /\ EndGrows'
  BY <1>1, <1>3, SendersStay
<1>5. phase' \in [Clients -> {"idle", "lock", "push"}]
      /\ packet' \in [Clients -> Packets \union {NoPacket}]
  BY <1>0, <1>1, <1>2 DEF SendTypes
<1>6. \A d \in Clients : phase'[d] # "idle" => packet'[d] \in Packets /\ packet'[d].channel = ChannelOf[d]
  <2> SUFFICES ASSUME NEW d \in Clients, phase'[d] # "idle"
               PROVE  packet'[d] \in Packets /\ packet'[d].channel = ChannelOf[d]
    OBVIOUS
  <2>1. CASE d = c
    BY <1>0, <1>1, <1>2, <2>1 DEF SendTypes
  <2>2. CASE d # c
    BY <1>0, <1>1, <2>2 DEF SendTypes
  <2> QED
    BY <2>1, <2>2
<1>7. SendTypes'
  BY <1>0, <1>1, <1>5, <1>6 DEF SendTypes
<1>8. LossForgets' /\ WaitsEmpty'
  BY <1>0, <1>1 DEF LossForgets, WaitsEmpty
<1> QED
  BY <1>4, <1>7, <1>8 DEF SendIInv

LEMMA PacketSent ==
  ASSUME SendIInv, NEW c \in Clients, TakeChannel(c) \/ SendPacket(c)
  PROVE  SendIInv'
<1>0. SendTypes /\ LossForgets /\ WaitsEmpty
  BY DEF SendIInv
<1> USE DEF threadVars, socketVars, channelVars, rendererVars, faultVars
<1>1. ChannelHeld' /\ QueueGrows' /\ HeadGrows' /\ EndGrows'
  BY ChannelTaken, PacketJoins
<1>2. UNCHANGED <<running, terminated, connected, lastCounter, up, woke>>
  BY DEF TakeChannel, SendPacket
<1>3. ChannelOf[c] \in Channels /\ phase[c] # "idle" /\ packet[c] \in Packets
      /\ packet[c].channel = ChannelOf[c]
  BY <1>0, SenderAssumption DEF TakeChannel, SendPacket, SendTypes
<1>4. CASE TakeChannel(c)
  <2> DEFINE n == IF packet[c].kind = "resetAll" THEN 0 ELSE counter[ChannelOf[c]]
  <2>1. /\ phase' = [phase EXCEPT ![c] = "push"] /\ packet' = [packet EXCEPT ![c].counter = n]
        /\ counter' = [counter EXCEPT ![ChannelOf[c]] = IF packet[c].kind = "resetAll" THEN 1 ELSE @ + 1]
        /\ channelLock' = [channelLock EXCEPT ![ChannelOf[c]] = c]
        /\ UNCHANGED <<queue, sender>>
    BY <1>4 DEF TakeChannel, Numbered
  <2>2. n \in Nat
    BY <1>0, <1>3 DEF SendTypes
  <2> HIDE DEF n
  <2>3. [packet[c] EXCEPT !.counter = n] \in Packets
        /\ [packet[c] EXCEPT !.counter = n].channel = ChannelOf[c]
    BY <1>3, <2>2 DEF Packets
  <2>4. packet'[c] = [packet[c] EXCEPT !.counter = n] /\ \A d \in Clients : d # c => packet'[d] = packet[d]
    BY <1>0, <2>1 DEF SendTypes
  <2>5. packet' \in [Clients -> Packets \union {NoPacket}]
    BY <1>0, <2>1, <2>3, <2>4 DEF SendTypes
  <2>6. phase' \in [Clients -> {"idle", "lock", "push"}]
        /\ counter' \in [Channels -> Nat] /\ channelLock' \in [Channels -> Clients \union {"none"}]
    BY <1>0, <1>3, <2>1 DEF SendTypes
  <2>7. \A d \in Clients : phase'[d] # "idle" => packet'[d] \in Packets /\ packet'[d].channel = ChannelOf[d]
    BY <1>0, <2>1, <2>3, <2>4 DEF SendTypes
  <2>8. SendTypes'
    BY <1>0, <1>2, <2>1, <2>5, <2>6, <2>7 DEF SendTypes
  <2>9. LossForgets' /\ WaitsEmpty'
    BY <1>0, <1>2, <2>1 DEF LossForgets, WaitsEmpty
  <2> QED
    BY <1>1, <2>8, <2>9 DEF SendIInv
<1>5. CASE SendPacket(c)
  <2>1. /\ phase' = [phase EXCEPT ![c] = "idle"] /\ packet' = [packet EXCEPT ![c] = NoPacket]
        /\ queue' = Append(queue, packet[c])
        /\ channelLock' = [channelLock EXCEPT ![ChannelOf[c]] = "none"]
        /\ UNCHANGED counter
        /\ sender' = IF sender = "waiting" THEN "woken" ELSE sender
        /\ ~SenderHolds
    BY <1>5 DEF SendPacket, Notified
  <2>2. queue' \in Seq(Packets) /\ counter' \in [Channels -> Nat]
    BY <1>0, <1>3, <2>1, AppendProperties DEF SendTypes
  <2>3. /\ phase' \in [Clients -> {"idle", "lock", "push"}]
        /\ packet' \in [Clients -> Packets \union {NoPacket}]
        /\ channelLock' \in [Channels -> Clients \union {"none"}]
        /\ sender' \in {"none", "start", "top", "toWait", "waiting", "woken", "drain", "done"}
    BY <1>0, <1>3, <2>1 DEF SendTypes
  <2>4. \A d \in Clients : phase'[d] # "idle" => packet'[d] \in Packets /\ packet'[d].channel = ChannelOf[d]
    BY <1>0, <2>1 DEF SendTypes
  <2>a. /\ running' \in BOOLEAN /\ connected' \in BOOLEAN /\ terminated' \in BOOLEAN
        /\ up' \in BOOLEAN /\ woke' \in BOOLEAN /\ lastCounter' \in [Channels -> Nat]
    BY <1>0, <1>2 DEF SendTypes
  <2>5. SendTypes'
    BY <2>2, <2>3, <2>4, <2>a DEF SendTypes
  <2>6. LossForgets'
    BY <1>0, <1>2, <2>1 DEF LossForgets
  <2>7. WaitsEmpty'
    BY <1>0, <1>2, <2>1 DEF WaitsEmpty, SenderHolds, SendTypes
  <2> QED
    BY <1>1, <2>5, <2>6, <2>7 DEF SendIInv
<1> QED
  BY <1>4, <1>5

LEMMA SenderStep ==
  ASSUME SendIInv, SenderNext
  PROVE  SendIInv'
<1>1. CASE SenderLocks \/ SenderRuns \/ SenderWaits \/ SenderWakes \/ SenderChecks
           \/ CloseBegins \/ CloseNotifies \/ CloseJoins
  BY <1>1, SenderMoves
<1>2. CASE SenderWrites
  BY <1>2, SenderWritesOn
<1>3. CASE RendererStops \/ RendererStarts
  BY <1>3, RendererMoves
<1>4. CASE \E c \in Clients : Sends(c)
  <2>1. PICK c \in Clients : Sends(c)
    BY <1>4
  <2>2. CASE Compose(c)
    BY <2>2, PacketComposed DEF Compose, Values
  <2>3. CASE TakeChannel(c) \/ SendPacket(c)
    BY <2>3, PacketSent
  <2> QED
    BY <2>1, <2>2, <2>3 DEF Sends
<1> QED
  BY <1>1, <1>2, <1>3, <1>4 DEF SenderNext, senderTask

\* Steps that send nothing; the sender thread may be created.
LEMMA NothingSent ==
  ASSUME SendIInv, UNCHANGED <<queue, phase, packet, channelVars, rendererVars, faultVars>>,
         \/ UNCHANGED <<threadVars, socketVars>>
         \/ ~terminated /\ \E ok \in BOOLEAN : InitComms(ok)
  PROVE  SendIInv'
<1>0. SendTypes /\ LossForgets /\ WaitsEmpty
  BY DEF SendIInv
<1> USE DEF threadVars, socketVars, channelVars, rendererVars, faultVars
<1>1. UNCHANGED <<queue, phase, packet, counter, channelLock, lastCounter, up, woke>>
  OBVIOUS
<1>2. ChannelHeld' /\ QueueGrows' /\ HeadGrows' /\ EndGrows'
  BY PacketsStay
<1>3. CASE UNCHANGED <<threadVars, socketVars>>
  <2>1. SendTypes'
    BY <1>0, <1>1, <1>3 DEF SendTypes
  <2>2. LossForgets' /\ WaitsEmpty'
    BY <1>0, <1>1, <1>3 DEF LossForgets, WaitsEmpty
  <2> QED
    BY <1>2, <2>1, <2>2 DEF SendIInv
<1>4. CASE /\ ~terminated /\ up /\ connected' = TRUE /\ sender' = "start"
           /\ terminated' = (sender # "none") /\ UNCHANGED running
  <2>1. SendTypes'
    BY <1>0, <1>1, <1>4 DEF SendTypes
  <2>2. LossForgets'
    BY <1>1, <1>4 DEF LossForgets
  <2>3. ~terminated' => ~woke
    BY <1>0, <1>4 DEF WaitsEmpty
  <2>4. WaitsEmpty'
    BY <1>1, <1>4, <2>3 DEF WaitsEmpty
  <2> QED
    BY <1>2, <2>1, <2>2, <2>4 DEF SendIInv
<1> QED
  BY <1>3, <1>4 DEF InitComms

LEMMA CountersGrow ==
  ASSUME SendIInv,
         \/ SenderNext
         \/ UNCHANGED rendererVars
  PROVE  \A ch \in Channels : lastCounter'[ch] # lastCounter[ch] =>
           lastCounter'[ch] > lastCounter[ch] \/ lastCounter'[ch] = 0
<1>0. SendTypes /\ HeadGrows
  BY DEF SendIInv
<1>1. CASE UNCHANGED rendererVars
  BY <1>1 DEF rendererVars
<1>2. CASE RendererStops
  BY <1>2 DEF RendererStops
<1>3. CASE SenderWrites
  <2>1. queue # <<>> /\ (UNCHANGED lastCounter \/ Renders(Head(queue)))
    BY <1>3 DEF SenderWrites, WriteFails, WriteSucceeds, rendererVars
  <2>2. Head(queue) = queue[1] /\ 1 \in 1..Len(queue) /\ queue[1].counter \in Nat
    <3>1. Head(queue) = queue[1] /\ 1 \in 1..Len(queue)
      BY <1>0, <2>1, EmptySeq, LenProperties, HeadTailProperties DEF SendTypes
    <3> QED
      BY <1>0, <3>1, PacketsTyped
  <2>3. CASE Renders(Head(queue))
    <3> SUFFICES ASSUME NEW ch \in Channels, lastCounter'[ch] # lastCounter[ch]
                 PROVE  lastCounter'[ch] > lastCounter[ch] \/ lastCounter'[ch] = 0
      OBVIOUS
    <3>1. lastCounter' = [lastCounter EXCEPT ![queue[1].channel] =
                            IF queue[1].kind = "resetAll" THEN 0 ELSE queue[1].counter + 1]
      BY <2>2, <2>3 DEF Renders
    <3>2. queue[1].channel = ch
      BY <1>0, <3>1 DEF SendTypes
    <3>3. CASE queue[1].kind = "resetAll"
      BY <1>0, <3>1, <3>2, <3>3 DEF SendTypes
    <3>4. CASE queue[1].kind # "resetAll"
      <4>1. NumberAt(ch, 1) /\ NoResetFrom(ch, 1, 1)
        BY <3>2, <3>4 DEF NumberAt, ResetAt, NoResetFrom
      <4>2. lastCounter[ch] <= queue[1].counter
        BY <1>0, <2>2, <4>1 DEF HeadGrows
      <4>3. lastCounter'[ch] = queue[1].counter + 1 /\ lastCounter[ch] \in Nat
        BY <1>0, <3>1, <3>2, <3>4 DEF SendTypes
      <4> QED
        BY <2>2, <4>2, <4>3
    <3> QED
      BY <3>3, <3>4
  <2> QED
    BY <2>1, <2>3
<1>4. CASE SenderNext
  <2>1. \A c \in Clients : Sends(c) => UNCHANGED rendererVars
    BY DEF Sends, Compose, Composes, TakeChannel, SendPacket
  <2>2. \/ SenderWrites \/ RendererStops \/ UNCHANGED rendererVars
    BY <1>4, <2>1 DEF SenderNext, senderTask, SenderLocks, SenderRuns, SenderWaits, SenderWakes,
        SenderChecks, CloseBegins, CloseNotifies, CloseJoins, RendererStarts
  <2> QED
    BY <1>1, <1>2, <1>3, <2>2
<1> QED
  BY <1>1, <1>4

LEMMA CaptionsSend ==
  ASSUME SendIInv, [CaptionsNext]_<<senderVars, captionVars>>
  PROVE  SendIInv'
<1>1. CASE ManagerCalls \/ closedCaptionDataCb \/ UNCHANGED <<senderVars, captionVars>>
  BY <1>1, NothingSent DEF ManagerCalls, closedCaptionDataCb, senderVars, clientVars
<1>2. CASE EnsureRendererCommsInitialized
  BY <1>2, NothingSent DEF EnsureRendererCommsInitialized, Does
<1> QED
  BY <1>1, <1>2, SenderStep DEF CaptionsNext

\* SubtecChannel.cpp:70-75, 78-110 and PacketSender.cpp:91-116 for captions: the renderer
\* gets the packets of a channel in the order of their counters, however many are lost or
\* it is restarted, and after its first wait the sender waits only on an empty queue.
THEOREM CaptionsInOrder ==
  CaptionsSpec => SendsAllInOrder
<1>1. SenderInit => SendIInv
  BY SenderInitially
<1>2. SendIInv /\ [CaptionsNext]_<<senderVars, captionVars>> => SendIInv'
  BY CaptionsSend
<1>3. SendIInv /\ SendIInv' /\ [CaptionsNext]_<<senderVars, captionVars>> =>
        [/\ \A ch \in Channels :
              lastCounter'[ch] # lastCounter[ch] =>
                lastCounter'[ch] > lastCounter[ch] \/ lastCounter'[ch] = 0
         /\ (sender' = "waiting" /\ woke') => queue' = <<>>]_senderVars
  <2> SUFFICES ASSUME SendIInv, SendIInv', CaptionsNext
               PROVE  /\ \A ch \in Channels :
                           lastCounter'[ch] # lastCounter[ch] =>
                             lastCounter'[ch] > lastCounter[ch] \/ lastCounter'[ch] = 0
                      /\ (sender' = "waiting" /\ woke') => queue' = <<>>
    BY DEF senderVars
  <2>1. SenderNext \/ UNCHANGED rendererVars
    BY DEF CaptionsNext, ManagerCalls, EnsureRendererCommsInitialized, closedCaptionDataCb
  <2>2. WaitsEmpty'
    BY DEF SendIInv
  <2> QED
    BY <2>1, <2>2, CountersGrow DEF WaitsEmpty
<1> QED
  BY <1>1, <1>2, <1>3, PTL DEF CaptionsSpec, SendsAllInOrder

LEMMA SinkStep ==
  ASSUME SendIInv, m_pts_offset \in Values, SinkNext
  PROVE  SendIInv' /\ m_pts_offset' \in Values /\ (SenderNext \/ UNCHANGED rendererVars)
<1>1. CASE \/ \E b \in BOOLEAN : SetMute(b)
           \/ \E v \in Offsets : SetPtsOffset(v)
           \/ SetAttributeValues \/ Start \/ Play \/ PauseSink \/ StopSink \/ Dispose
           \/ SetCaps \/ FlushStart \/ FlushStop \/ ClockSync \/ Render
  <2>1. UNCHANGED <<threadVars, queue, socketVars, phase, packet, channelVars, rendererVars,
                    faultVars>>
    BY <1>1 DEF SetMute, SetPtsOffset, SetAttributeValues, Start, Play, PauseSink, StopSink,
       Dispose, SetCaps, FlushStart, FlushStop, ClockSync, Render, Streams, Call
  <2>2. m_pts_offset' \in Values
    BY <1>1 DEF SetMute, SetPtsOffset, SetAttributeValues, Start, Play, PauseSink, StopSink,
       Dispose, SetCaps, FlushStart, FlushStop, ClockSync, Render, Streams, Offsets, Values
  <2> QED
    BY <2>1, <2>2, NothingSent
<1>2. CASE \E c \in Sinks : SinkActs(c)
  <2>1. PICK c \in Clients : SinkActs(c)
    BY <1>2, SinkAssumption DEF Sinks
  <2>2. m_pts_offset' = m_pts_offset
    BY <2>1 DEF SinkActs, ResolvesMute, Stamps, Syncs, AsksStamp, Starts, GoesPlaying, sinkVars
  <2>3. CASE ResolvesMute(c)
    <3>1. CASE hasChannel
      <4>1. \E kind \in Kinds : Composes(c, "setMute", kind, 0)
        BY <2>3, <3>1 DEF ResolvesMute, Kinds
      <4>2. UNCHANGED rendererVars
        BY <4>1 DEF Composes
      <4> QED
        BY <2>2, <4>1, <4>2, PacketComposed DEF Values
    <3>2. CASE ~hasChannel
      BY <2>2, <2>3, <3>2, NothingSent DEF ResolvesMute, NoPacketMoves
    <3> QED
      BY <3>1, <3>2
  <2>4. CASE Stamps(c) \/ Syncs(c)
    <3>1. CASE \E e \in Elements : Composes(c, e, "timestamp", m_pts_offset)
      <4>1. UNCHANGED rendererVars
        BY <3>1 DEF Composes
      <4> QED
        BY <2>2, <3>1, <4>1, PacketComposed DEF Kinds
    <3>2. CASE UNCHANGED <<threadVars, socketVars>> /\ NoPacketMoves
      BY <2>2, <3>2, NothingSent DEF NoPacketMoves
    <3> QED
      BY <2>4, <3>1, <3>2 DEF Stamps, Syncs, Elements
  <2>5. CASE AsksStamp(c, TRUE) \/ AsksStamp(c, FALSE) \/ GoesPlaying(c)
    BY <2>2, <2>5, NothingSent DEF AsksStamp, GoesPlaying, NoPacketMoves
  <2>6. CASE Starts(c)
    BY <2>2, <2>6, NothingSent DEF Starts, NoPacketMoves, Does
  <2> QED
    BY <2>1, <2>3, <2>4, <2>5, <2>6 DEF SinkActs
<1>3. CASE SenderNext /\ UNCHANGED sinkVars
  BY <1>3, SenderStep DEF sinkVars
<1> QED
  BY <1>1, <1>2, <1>3 DEF SinkNext

\* The same for the subtitle sink, whose application and streaming threads send on one
\* channel (gstsubtecsink.cpp).
THEOREM SubtitlesInOrder ==
  SubtecSpec => SendsAllInOrder
<1> DEFINE IInv == SendIInv /\ m_pts_offset \in Values
<1>1. SenderInit /\ SinkInit => IInv
  BY SenderInitially DEF SinkInit, Values
<1>2. IInv /\ [SinkNext]_<<senderVars, sinkVars>> => IInv'
  <2>1. ASSUME IInv, UNCHANGED <<senderVars, sinkVars>> PROVE IInv'
    BY <2>1, NothingSent DEF senderVars, sinkVars, clientVars
  <2> QED
    BY <2>1, SinkStep
<1>3. IInv /\ IInv' /\ [SinkNext]_<<senderVars, sinkVars>> =>
        [/\ \A ch \in Channels :
              lastCounter'[ch] # lastCounter[ch] =>
                lastCounter'[ch] > lastCounter[ch] \/ lastCounter'[ch] = 0
         /\ (sender' = "waiting" /\ woke') => queue' = <<>>]_senderVars
  <2> SUFFICES ASSUME IInv, IInv', SinkNext
               PROVE  /\ \A ch \in Channels :
                           lastCounter'[ch] # lastCounter[ch] =>
                             lastCounter'[ch] > lastCounter[ch] \/ lastCounter'[ch] = 0
                      /\ (sender' = "waiting" /\ woke') => queue' = <<>>
    BY DEF senderVars
  <2>1. SenderNext \/ UNCHANGED rendererVars
    BY SinkStep
  <2>2. WaitsEmpty'
    BY DEF SendIInv
  <2> QED
    BY <2>1, <2>2, CountersGrow DEF WaitsEmpty
<1> QED
  BY <1>1, <1>2, <1>3, PTL DEF SubtecSpec, SendsAllInOrder

-----------------------------------------------------------------------------
(* The captions that are shown.                                             *)

MuteKinds == {"mute", "unmute"}
Mutes(s) == \E k \in 1..Len(s) : s[k] \in MuteKinds
MutesOnlyAs(s, x) == \A k \in 1..Len(s) : s[k] \in MuteKinds => s[k] = x

\* What the state of the manager asks for.
RightKind == IF Hidden \/ ~mEnabled THEN "mute" ELSE "unmute"

CaptionsTypes ==
  /\ {mEnabled, mTrickplayStarted, mParentalCtrlLocked, mHALInitialized, exempt, lost}
       \subseteq BOOLEAN
  /\ script \in [Clients -> Seq(Elements)]
  /\ muted \in [Channels -> BOOLEAN]

\* Only the manager mutes; the packet that a client sends is the one its script says.
ScriptsSend ==
  /\ \A c \in Clients : c # manager => ~Mutes(script[c])
  /\ \A c \in Clients : phase[c] # "idle" =>
       script[c] # <<>> /\ packet[c].kind = Head(script[c])
  /\ \A i \in 1..Len(queue) : queue[i].kind \in MuteKinds => queue[i].channel = CaptionChannel

\* What the renderer is told last is what the state of the manager asks for: by the
\* script, or else by the queue, or else by what it was told before.
LastMute(i) ==
  queue[i].kind \in MuteKinds /\ \A j \in 1..Len(queue) : j > i => queue[j].kind \notin MuteKinds
QueueMutes == \E i \in 1..Len(queue) : queue[i].kind \in MuteKinds
QueueSays(x) == \A i \in 1..Len(queue) : LastMute(i) => queue[i].kind = x
RendererSays(x) == muted[CaptionChannel] <=> x = "mute"
MutesFollow ==
  ~lost /\ ~exempt =>
    /\ MutesOnlyAs(script[manager], RightKind)
    /\ ~Mutes(script[manager]) => QueueSays(RightKind)
    /\ ~Mutes(script[manager]) /\ ~QueueMutes => RendererSays(RightKind)

HandleKnown == mHALInitialized /\ ~mHandleUpdated => halHandle = mCCHandle

CaptionsIInv ==
  /\ SendIInv /\ CaptionsTypes /\ ScriptsSend /\ MutesFollow
  /\ wanted = mEnabled /\ HandleKnown

LEMMA ConcatMutes ==
  ASSUME NEW s \in Seq(Elements), NEW t \in Seq(Elements)
  PROVE  /\ s \o t \in Seq(Elements)
         /\ Mutes(s \o t) <=> Mutes(s) \/ Mutes(t)
         /\ \A x : MutesOnlyAs(s \o t, x) <=> MutesOnlyAs(s, x) /\ MutesOnlyAs(t, x)
<1> DEFINE u == s \o t
<1>1. /\ u \in Seq(Elements) /\ Len(s) \in Nat /\ Len(t) \in Nat /\ Len(u) = Len(s) + Len(t)
      /\ \A k \in 1..Len(s) : u[k] = s[k]
      /\ \A k \in 1..Len(t) : u[Len(s) + k] = t[k]
  BY ConcatProperties, LenProperties
<1> HIDE DEF u
<1>2. \A k \in 1..Len(u) : k \in 1..Len(s) \/ (k - Len(s) \in 1..Len(t) /\ k = Len(s) + (k - Len(s)))
  BY <1>1
<1>3. \A k \in 1..Len(s) : k \in 1..Len(u)
  BY <1>1
<1>4. \A k \in 1..Len(t) : Len(s) + k \in 1..Len(u)
  BY <1>1
<1>5. Mutes(u) => Mutes(s) \/ Mutes(t)
  BY <1>1, <1>2 DEF Mutes
<1>6. Mutes(s) \/ Mutes(t) => Mutes(u)
  <2>1. Mutes(s) => Mutes(u)
    BY <1>1, <1>3 DEF Mutes
  <2>2. ASSUME NEW k \in 1..Len(t), t[k] \in MuteKinds PROVE Mutes(u)
    BY <1>1, <1>4, <2>2 DEF Mutes
  <2> QED
    BY <2>1, <2>2 DEF Mutes
<1>7. ASSUME NEW x, MutesOnlyAs(u, x) PROVE MutesOnlyAs(s, x) /\ MutesOnlyAs(t, x)
  <2>1. MutesOnlyAs(s, x)
    BY <1>1, <1>3, <1>7 DEF MutesOnlyAs
  <2>2. ASSUME NEW k \in 1..Len(t), t[k] \in MuteKinds PROVE t[k] = x
    BY <1>1, <1>4, <1>7, <2>2 DEF MutesOnlyAs
  <2> QED
    BY <2>1, <2>2 DEF MutesOnlyAs
<1>8. ASSUME NEW x, MutesOnlyAs(s, x), MutesOnlyAs(t, x) PROVE MutesOnlyAs(u, x)
  BY <1>1, <1>2, <1>8 DEF MutesOnlyAs
<1> QED
  BY <1>1, <1>5, <1>6, <1>7, <1>8 DEF u

LEMMA TailMutes ==
  ASSUME NEW s \in Seq(Elements), s # <<>>
  PROVE  /\ Tail(s) \in Seq(Elements)
         /\ Mutes(s) <=> Head(s) \in MuteKinds \/ Mutes(Tail(s))
         /\ \A x : MutesOnlyAs(s, x) <=>
                     (Head(s) \in MuteKinds => Head(s) = x) /\ MutesOnlyAs(Tail(s), x)
<1> DEFINE t == Tail(s)
<1>1. /\ t \in Seq(Elements) /\ Len(s) \in Nat /\ Len(s) # 0 /\ Len(t) = Len(s) - 1
      /\ Head(s) = s[1] /\ \A k \in 1..Len(t) : t[k] = s[k + 1]
  BY HeadTailProperties, LenProperties, EmptySeq
<1> HIDE DEF t
<1>2. \A k \in 1..Len(s) : k = 1 \/ (k - 1 \in 1..Len(t) /\ k = (k - 1) + 1)
  BY <1>1
<1>3. 1 \in 1..Len(s) /\ \A k \in 1..Len(t) : k + 1 \in 1..Len(s)
  BY <1>1
<1>4. Mutes(s) => s[1] \in MuteKinds \/ Mutes(t)
  BY <1>1, <1>2 DEF Mutes
<1>5. s[1] \in MuteKinds \/ Mutes(t) => Mutes(s)
  BY <1>1, <1>3 DEF Mutes
<1>6. ASSUME NEW x, MutesOnlyAs(s, x)
      PROVE  (s[1] \in MuteKinds => s[1] = x) /\ MutesOnlyAs(t, x)
  BY <1>1, <1>3, <1>6 DEF MutesOnlyAs
<1>7. ASSUME NEW x, s[1] \in MuteKinds => s[1] = x, MutesOnlyAs(t, x) PROVE MutesOnlyAs(s, x)
  BY <1>1, <1>2, <1>7 DEF MutesOnlyAs
<1> QED
  BY <1>1, <1>4, <1>5, <1>6, <1>7 DEF t

\* The scripts of the manager's calls.
LEMMA ManagersScripts ==
  /\ StartRendering \in Seq(Elements) /\ Mutes(StartRendering) /\ MutesOnlyAs(StartRendering, "unmute")
  /\ StopRendering \in Seq(Elements) /\ Mutes(StopRendering) /\ MutesOnlyAs(StopRendering, "mute")
  /\ \A s \in {<<>>, <<"ensureInit">>, <<"ensureInit", "select">>, <<"attributes", "attributes">>,
               <<"resetChannel">>, <<"data">>} : s \in Seq(Elements) /\ ~Mutes(s)
  /\ \A set \in BOOLEAN : StyleScript(set) \in Seq(Elements) /\ ~Mutes(StyleScript(set))
<1> USE DEF Elements, Kinds, MuteKinds
<1>1. StartRendering \in Seq(Elements) /\ Mutes(StartRendering) /\ MutesOnlyAs(StartRendering, "unmute")
  BY DEF StartRendering, Mutes, MutesOnlyAs
<1>2. StopRendering \in Seq(Elements) /\ Mutes(StopRendering) /\ MutesOnlyAs(StopRendering, "mute")
  BY DEF StopRendering, Mutes, MutesOnlyAs
<1>3. <<>> \in Seq(Elements) /\ ~Mutes(<<>>)
  BY EmptySeq DEF Mutes
<1>4. <<"ensureInit">> \in Seq(Elements) /\ ~Mutes(<<"ensureInit">>)
  BY DEF Mutes
<1>5. <<"ensureInit", "select">> \in Seq(Elements) /\ ~Mutes(<<"ensureInit", "select">>)
  BY DEF Mutes
<1>6. <<"attributes", "attributes">> \in Seq(Elements) /\ ~Mutes(<<"attributes", "attributes">>)
  BY DEF Mutes
<1>7. /\ <<"resetChannel">> \in Seq(Elements) /\ ~Mutes(<<"resetChannel">>)
      /\ <<"data">> \in Seq(Elements) /\ ~Mutes(<<"data">>)
  BY DEF Mutes
<1>8. ASSUME NEW set \in BOOLEAN
      PROVE  StyleScript(set) \in Seq(Elements) /\ ~Mutes(StyleScript(set))
  <2>1. CASE mEnabled /\ set
    <3>1. StyleScript(set) = <<"ensureInit">> \o <<"attributes", "attributes">>
      BY <2>1 DEF StyleScript
    <3>2. <<"ensureInit">> \o <<"attributes", "attributes">> \in Seq(Elements)
      BY <1>4, <1>6, ConcatMutes
    <3>3. ~Mutes(<<"ensureInit">> \o <<"attributes", "attributes">>)
      BY <1>4, <1>6, ConcatMutes
    <3> QED
      BY <3>1, <3>2, <3>3
  <2>2. CASE ~(mEnabled /\ set)
    <3>1. StyleScript(set) = <<"ensureInit">> \o <<>>
      BY <2>2 DEF StyleScript
    <3>2. <<"ensureInit">> \o <<>> \in Seq(Elements)
      BY <1>3, <1>4, ConcatMutes
    <3>3. ~Mutes(<<"ensureInit">> \o <<>>)
      BY <1>3, <1>4, ConcatMutes
    <3> QED
      BY <3>1, <3>2, <3>3
  <2> QED
    BY <2>1, <2>2
<1> QED
  BY <1>1, <1>2, <1>3, <1>4, <1>5, <1>6, <1>7, <1>8

\* What a call of the manager leaves to be sent: nothing, if the same is asked for as
\* before, or a script that says what is asked for.
Says(s) ==
  /\ s \in Seq(Elements) /\ script' = [script EXCEPT ![manager] = s]
  /\ \/ exempt'
     \/ Mutes(s) /\ MutesOnlyAs(s, RightKind')
     \/ ~Mutes(s) /\ RightKind' = RightKind
SaysIt ==
  /\ \/ UNCHANGED script /\ (exempt' \/ RightKind' = RightKind)
     \/ \E s \in Seq(Elements) : Says(s)
  /\ exempt => exempt'
  /\ HandleKnown'
  /\ {mHALInitialized', exempt'} \subseteq BOOLEAN

\* Start and Stop; ask is the kind of packet they send.
LEMMA RendersSay ==
  ASSUME CaptionsIInv, NEW on \in BOOLEAN, NEW ok \in BOOLEAN,
         NEW s \in Seq(Elements), NEW t \in Seq(Elements), ~Mutes(s), ~Mutes(t),
         Renders_(on, ok, s, t), mCCHandle' = mCCHandle,
         on => (~Hidden' /\ mEnabled') \/ Hidden,
         ~on => Hidden' \/ ~mEnabled'
  PROVE  SaysIt
<1>0. {mHALInitialized, exempt} \subseteq BOOLEAN /\ HandleKnown
      /\ {mTrickplayStarted, mParentalCtrlLocked} \subseteq BOOLEAN
  BY DEF CaptionsIInv, CaptionsTypes
<1> DEFINE u == s \o StartRendering \o t
           d == s \o StopRendering \o t
<1>1. \A x : /\ u \in Seq(Elements) /\ Mutes(u)
             /\ d \in Seq(Elements) /\ Mutes(d)
             /\ MutesOnlyAs(s, x) /\ MutesOnlyAs(t, x)
  <2>1. \A x : MutesOnlyAs(s, x) /\ MutesOnlyAs(t, x)
    BY DEF MutesOnlyAs, Mutes
  <2>2. s \o StartRendering \in Seq(Elements) /\ Mutes(s \o StartRendering)
    BY ManagersScripts, ConcatMutes
  <2>3. s \o StopRendering \in Seq(Elements) /\ Mutes(s \o StopRendering)
    BY ManagersScripts, ConcatMutes
  <2> QED
    BY <2>1, <2>2, <2>3, ConcatMutes
<1>2. MutesOnlyAs(u, "unmute")
  <2>1. s \o StartRendering \in Seq(Elements) /\ MutesOnlyAs(s \o StartRendering, "unmute")
    BY <1>1, ManagersScripts, ConcatMutes
  <2> QED
    BY <1>1, <2>1, ConcatMutes
<1>3. MutesOnlyAs(d, "mute")
  <2>1. s \o StopRendering \in Seq(Elements) /\ MutesOnlyAs(s \o StopRendering, "mute")
    BY <1>1, ManagersScripts, ConcatMutes
  <2> QED
    BY <1>1, <2>1, ConcatMutes
<1>4. CASE on
  <2>1. script' = [script EXCEPT ![manager] = u] /\ exempt' = (exempt \/ Hidden)
    BY <1>4 DEF Renders_, Runs
  <2>2. exempt' \/ RightKind' = "unmute"
    BY <1>0, <1>4, <2>1 DEF RightKind
  <2>3. Says(u)
    BY <1>1, <1>2, <2>1, <2>2 DEF Says
  <2>4. HandleKnown' /\ mHALInitialized' \in BOOLEAN
    BY <1>0, <1>4 DEF Renders_, EnsureHALInitialized, HandleKnown
  <2>5. exempt' \in BOOLEAN /\ (exempt => exempt')
    BY <1>0, <2>1 DEF Hidden
  <2> QED
    BY <1>1, <2>3, <2>4, <2>5 DEF SaysIt
<1>5. CASE ~on
  <2>1. script' = [script EXCEPT ![manager] = d]
        /\ UNCHANGED <<mHALInitialized, mHandleUpdated, halHandle, exempt>>
    BY <1>5 DEF Renders_, Runs
  <2>2. RightKind' = "mute"
    BY <1>5 DEF RightKind
  <2>3. Says(d)
    BY <1>1, <1>3, <2>1, <2>2 DEF Says
  <2> QED
    BY <1>0, <1>1, <2>1, <2>3 DEF SaysIt, HandleKnown
<1> QED
  BY <1>4, <1>5

\* A script that shows and hides nothing.
LEMMA OthersSay ==
  ASSUME CaptionsIInv, NEW s \in Seq(Elements), ~Mutes(s),
         script' = [script EXCEPT ![manager] = s] \/ UNCHANGED script,
         exempt' \in BOOLEAN, exempt => exempt', mHALInitialized' \in BOOLEAN, HandleKnown',
         exempt' \/ RightKind' = RightKind
  PROVE  SaysIt
<1>1. script' = [script EXCEPT ![manager] = s] => Says(s)
  BY DEF Says
<1> QED
  BY <1>1 DEF SaysIt

LEMMA ManagerSays ==
  ASSUME CaptionsIInv, ManagerCalls
  PROVE  SaysIt /\ wanted' = mEnabled'
         /\ {mEnabled', mTrickplayStarted', mParentalCtrlLocked'} \subseteq BOOLEAN
<1>0. /\ {mEnabled, mTrickplayStarted, mParentalCtrlLocked, mHALInitialized, exempt} \subseteq BOOLEAN
      /\ HandleKnown /\ wanted = mEnabled
  BY DEF CaptionsIInv, CaptionsTypes
<1>1. /\ <<>> \in Seq(Elements) /\ ~Mutes(<<>>)
      /\ <<"ensureInit">> \in Seq(Elements) /\ ~Mutes(<<"ensureInit">>)
      /\ <<"ensureInit", "select">> \in Seq(Elements) /\ ~Mutes(<<"ensureInit", "select">>)
      /\ <<"resetChannel">> \in Seq(Elements) /\ ~Mutes(<<"resetChannel">>)
  BY ManagersScripts
<1>2. ASSUME NEW b \in BOOLEAN, NEW ok \in BOOLEAN, SetStatus(b, ok), wanted' = b
      PROVE  SaysIt /\ wanted' = mEnabled' /\ {mEnabled', mTrickplayStarted', mParentalCtrlLocked'} \subseteq BOOLEAN
  <2>1. /\ mEnabled' = b
        /\ UNCHANGED <<mTrickplayStarted, mParentalCtrlLocked, mCCHandle>>
    BY <1>2 DEF SetStatus
  <2>2. CASE Hidden
    <3>1. UNCHANGED <<script, mHALInitialized, mHandleUpdated, halHandle, exempt>>
      BY <1>2, <2>2 DEF SetStatus, SendsNothing
    <3>2. RightKind' = RightKind
      BY <2>1, <2>2 DEF RightKind, Hidden
    <3>3. SaysIt
      BY <1>0, <2>1, <3>1, <3>2 DEF SaysIt, HandleKnown
    <3> QED
      BY <1>0, <1>2, <2>1, <3>3
  <2>3. CASE ~Hidden
    <3>1. Renders_(b, ok, <<>>, <<>>)
      BY <1>2, <2>3 DEF SetStatus
    <3>2. ~Hidden'
      BY <2>1, <2>3 DEF Hidden
    <3>3. SaysIt
      BY <1>1, <2>1, <3>1, <3>2, RendersSay
    <3> QED
      BY <1>0, <1>2, <2>1, <3>3
  <2> QED
    BY <2>2, <2>3
<1>3. ASSUME NEW b \in BOOLEAN, NEW ok \in BOOLEAN,
             SetTrickplayStatus(b, ok) \/ SetParentalControlStatus(b, ok)
      PROVE  SaysIt /\ mEnabled' = mEnabled /\ {mTrickplayStarted', mParentalCtrlLocked'} \subseteq BOOLEAN
  <2>1. /\ UNCHANGED <<mEnabled, mCCHandle>>
        /\ \/ mTrickplayStarted' = b /\ UNCHANGED mParentalCtrlLocked
           \/ mParentalCtrlLocked' = b /\ UNCHANGED mTrickplayStarted
    BY <1>3 DEF SetTrickplayStatus, SetParentalControlStatus
  <2>2. CASE b
    <3>1. Renders_(FALSE, ok, <<>>, <<>>) /\ Hidden'
      BY <1>3, <2>2 DEF SetTrickplayStatus, SetParentalControlStatus, Hidden
    <3>2. SaysIt
      BY <1>1, <2>1, <3>1, RendersSay
    <3> QED
      BY <1>0, <2>1, <3>2
  <2>3. CASE ~b /\ ~mEnabled
    <3>1. UNCHANGED <<script, mHALInitialized, mHandleUpdated, halHandle, exempt>>
      BY <1>3, <2>3 DEF SetTrickplayStatus, SetParentalControlStatus, SendsNothing
    <3>2. RightKind' = RightKind
      BY <2>1, <2>3 DEF RightKind
    <3>3. SaysIt
      BY <1>0, <2>1, <3>1, <3>2 DEF SaysIt, HandleKnown
    <3> QED
      BY <1>0, <2>1, <3>3
  <2>4. CASE ~b /\ mEnabled
    <3>1. /\ EnsureHALInitialized(ok) /\ script' = [script EXCEPT ![manager] = StartRendering]
          /\ \/ ~mTrickplayStarted' /\ exempt' = (exempt \/ mParentalCtrlLocked)
                /\ UNCHANGED mParentalCtrlLocked
             \/ ~mParentalCtrlLocked' /\ exempt' = (exempt \/ mTrickplayStarted)
                /\ UNCHANGED mTrickplayStarted
      <4>1. CASE SetTrickplayStatus(b, ok)
        BY <2>4, <4>1 DEF SetTrickplayStatus, Runs
      <4>2. CASE SetParentalControlStatus(b, ok)
        BY <2>4, <4>2 DEF SetParentalControlStatus, Runs
      <4> QED
        BY <1>3, <4>1, <4>2
    <3>2. HandleKnown' /\ mHALInitialized' \in BOOLEAN
      BY <1>0, <2>1, <3>1 DEF EnsureHALInitialized, HandleKnown
    <3>3. exempt' \in BOOLEAN /\ (exempt => exempt')
      BY <1>0, <3>1
    <3>4. exempt' \/ RightKind' = "unmute"
      BY <1>0, <2>1, <2>4, <3>1 DEF RightKind, Hidden
    <3>5. Says(StartRendering)
      BY <3>1, <3>4, ManagersScripts DEF Says
    <3>6. SaysIt
      BY <3>2, <3>3, <3>5, ManagersScripts DEF SaysIt
    <3> QED
      BY <1>0, <2>1, <3>6
  <2> QED
    BY <2>2, <2>3, <2>4
<1>4. ASSUME NEW b \in BOOLEAN, NEW ok \in BOOLEAN, SetTrack(b, ok)
      PROVE  SaysIt /\ UNCHANGED <<mEnabled, mTrickplayStarted, mParentalCtrlLocked>>
  <2>1. UNCHANGED <<mEnabled, mTrickplayStarted, mParentalCtrlLocked, mCCHandle, mOptions>>
    BY <1>4 DEF SetTrack, statusVars
  <2>2. CASE b
    <3>1. Renders_(mEnabled, ok, <<"ensureInit", "select">>, StyleScript(mOptions))
      BY <1>4, <2>2 DEF SetTrack
    <3>2. StyleScript(mOptions) \in Seq(Elements) /\ ~Mutes(StyleScript(mOptions))
      <4>1. StyleScript(mOptions) = StyleScript(TRUE) \/ StyleScript(mOptions) = StyleScript(FALSE)
        BY DEF StyleScript
      <4> QED
        BY <4>1, ManagersScripts
    <3>3. (mEnabled => (~Hidden' /\ mEnabled') \/ Hidden) /\ (~mEnabled => Hidden' \/ ~mEnabled')
      BY <2>1 DEF Hidden
    <3> QED
      BY <1>0, <1>1, <2>1, <3>1, <3>2, <3>3, RendersSay
  <2>3. CASE ~b
    <3>1. script' = [script EXCEPT ![manager] = <<"ensureInit">>]
          /\ UNCHANGED <<mHALInitialized, mHandleUpdated, halHandle, exempt>>
      BY <1>4, <2>3 DEF SetTrack, Runs
    <3>2. RightKind' = RightKind /\ HandleKnown'
      BY <1>0, <2>1, <3>1 DEF RightKind, Hidden, HandleKnown
    <3> QED
      BY <1>0, <1>1, <2>1, <3>1, <3>2, OthersSay
  <2> QED
    BY <2>2, <2>3
<1>5. ASSUME NEW h \in Handles, NEW ok \in BOOLEAN, InitHandle(h, ok)
      PROVE  SaysIt /\ UNCHANGED <<mEnabled, mTrickplayStarted, mParentalCtrlLocked>>
  <2>1. UNCHANGED <<mEnabled, mTrickplayStarted, mParentalCtrlLocked>> /\ mCCHandle' = h
    BY <1>5 DEF InitHandle, statusVars
  <2>2. HandleKnown' /\ mHALInitialized' \in BOOLEAN
    BY <1>0, <1>5, <2>1 DEF InitHandle, HandleKnown
  <2>3. CASE mEnabled
    <3>1. script' = [script EXCEPT ![manager] = StartRendering] /\ exempt' = (exempt \/ Hidden)
      BY <1>5, <2>3 DEF InitHandle, Runs
    <3>2. exempt' \/ RightKind' = "unmute"
      BY <1>0, <2>1, <2>3, <3>1 DEF RightKind, Hidden
    <3>3. Says(StartRendering)
      BY <3>1, <3>2, ManagersScripts DEF Says
    <3>4. exempt' \in BOOLEAN /\ (exempt => exempt')
      BY <1>0, <3>1 DEF Hidden
    <3> QED
      BY <2>1, <2>2, <3>3, <3>4, ManagersScripts DEF SaysIt
  <2>4. CASE ~mEnabled
    <3>1. script' = [script EXCEPT ![manager] = StopRendering] /\ exempt' = exempt
      BY <1>5, <2>4 DEF InitHandle, Runs
    <3>2. RightKind' = "mute"
      BY <2>1, <2>4 DEF RightKind
    <3>3. Says(StopRendering)
      BY <3>1, <3>2, ManagersScripts DEF Says
    <3> QED
      BY <1>0, <2>1, <2>2, <3>1, <3>3, ManagersScripts DEF SaysIt
  <2> QED
    BY <2>3, <2>4
<1>6. ASSUME SetStyle \/ GetId
      PROVE  SaysIt /\ UNCHANGED <<mEnabled, mTrickplayStarted, mParentalCtrlLocked>>
  <2>1. /\ UNCHANGED <<mEnabled, mTrickplayStarted, mParentalCtrlLocked, mCCHandle,
                       mHALInitialized, mHandleUpdated, halHandle, exempt>>
        /\ UNCHANGED script \/ script' = [script EXCEPT ![manager] = StyleScript(TRUE)]
    BY <1>6 DEF SetStyle, GetId, Runs, statusVars, halVars
  <2>2. RightKind' = RightKind /\ HandleKnown'
    BY <1>0, <2>1 DEF RightKind, Hidden, HandleKnown
  <2> QED
    BY <1>0, <2>1, <2>2, ManagersScripts, OthersSay
<1>7. ASSUME Release
      PROVE  SaysIt /\ mEnabled' = mEnabled /\ {mTrickplayStarted', mParentalCtrlLocked'} \subseteq BOOLEAN
  <2>1. CASE UNCHANGED <<script, statusVars, halVars, exempt>>
    <3>1. RightKind' = RightKind /\ HandleKnown' /\ mHALInitialized' = mHALInitialized
      BY <1>0, <2>1 DEF RightKind, Hidden, HandleKnown, statusVars, halVars
    <3>2. SaysIt
      BY <1>0, <2>1, <3>1 DEF SaysIt
    <3> QED
      BY <1>0, <2>1, <3>2 DEF statusVars
  <2>2. CASE users' = 0
    <3>1. /\ script' = [script EXCEPT ![manager] = <<"resetChannel">>]
          /\ mTrickplayStarted' = FALSE /\ mParentalCtrlLocked' = FALSE
          /\ exempt' = (exempt \/ Hidden) /\ mHALInitialized' = FALSE /\ mEnabled' = mEnabled
      BY <1>7, <2>2 DEF Release, Runs
    <3>2. exempt' \/ RightKind' = RightKind
      BY <1>0, <3>1 DEF RightKind, Hidden
    <3>3. HandleKnown' /\ exempt' \in BOOLEAN /\ (exempt => exempt')
      BY <1>0, <3>1 DEF HandleKnown, Hidden
    <3>4. SaysIt
      BY <1>1, <3>1, <3>2, <3>3, OthersSay
    <3> QED
      BY <3>1, <3>4
  <2> QED
    BY <1>7, <2>1, <2>2 DEF Release
<1> QED
  <2>1. CASE \E b, ok \in BOOLEAN : SetStatus(b, ok) /\ wanted' = b
    BY <1>2, <2>1
  <2>2. CASE /\ \/ \E b, ok \in BOOLEAN : \/ SetTrickplayStatus(b, ok)
                                             \/ SetParentalControlStatus(b, ok)
                \/ Release
             /\ UNCHANGED wanted
    BY <1>0, <1>3, <1>7, <2>2
  <2>3. CASE /\ \/ \E b, ok \in BOOLEAN : SetTrack(b, ok)
                \/ \E h \in Handles, ok \in BOOLEAN : InitHandle(h, ok)
                \/ SetStyle \/ GetId
             /\ UNCHANGED wanted
    <3>1. SaysIt /\ UNCHANGED <<mEnabled, mTrickplayStarted, mParentalCtrlLocked>>
      BY <1>4, <1>5, <1>6, <2>3
    <3> QED
      BY <1>0, <2>3, <3>1
  <2> QED
    BY <2>1, <2>2, <2>3 DEF ManagerCalls

LEMMA CaptionsInitially ==
  ASSUME SenderInit, CaptionsInit,
         script = [c \in Clients |-> IF c = manager THEN CaptionsScript ELSE <<>>]
  PROVE  CaptionsIInv
<1> USE DEF SenderInit, CaptionsInit
<1> DEFINE first == <<"ensureInit", "select">> \o StopRendering
<1>1. /\ <<"ensureInit", "select">> \in Seq(Elements) /\ ~Mutes(<<"ensureInit", "select">>)
      /\ <<>> \in Seq(Elements) /\ ~Mutes(<<>>)
      /\ StopRendering \in Seq(Elements) /\ Mutes(StopRendering) /\ MutesOnlyAs(StopRendering, "mute")
      /\ StyleScript(FALSE) \in Seq(Elements) /\ ~Mutes(StyleScript(FALSE))
  BY ManagersScripts
<1>2. \A s \in Seq(Elements) : ~Mutes(s) => MutesOnlyAs(s, "mute")
  BY DEF Mutes, MutesOnlyAs
<1>3. first \in Seq(Elements) /\ Mutes(first) /\ MutesOnlyAs(first, "mute")
  BY <1>1, <1>2, ConcatMutes
<1>4. CaptionsScript = first \o StyleScript(FALSE)
  BY DEF CaptionsScript
<1> HIDE DEF first
<1>5. CaptionsScript \in Seq(Elements) /\ Mutes(CaptionsScript) /\ MutesOnlyAs(CaptionsScript, "mute")
  <2>1. MutesOnlyAs(StyleScript(FALSE), "mute")
    BY <1>1, <1>2
  <2>2. CaptionsScript \in Seq(Elements) /\ Mutes(CaptionsScript)
    BY <1>1, <1>3, <1>4, ConcatMutes
  <2>3. MutesOnlyAs(CaptionsScript, "mute")
    <3>1. MutesOnlyAs(first \o StyleScript(FALSE), "mute")
            <=> MutesOnlyAs(first, "mute") /\ MutesOnlyAs(StyleScript(FALSE), "mute")
      BY <1>1, <1>3, ConcatMutes
    <3> QED
      BY <1>3, <1>4, <2>1, <3>1
  <2> QED
    BY <2>2, <2>3
<1>6. manager \in Clients
  BY CaptionsAssumption
<1>7. CaptionsTypes
  BY <1>1, <1>5 DEF CaptionsTypes
<1>8. ScriptsSend
  BY <1>1, EmptySeq DEF ScriptsSend
<1>9. RightKind = "mute" /\ script[manager] = CaptionsScript
  BY <1>6 DEF RightKind
<1>10. MutesFollow
  BY <1>5, <1>9 DEF MutesFollow
<1> QED
  BY <1>7, <1>8, <1>10, SenderInitially DEF CaptionsIInv, HandleKnown

\* Calls of the manager.
LEMMA ManagerStep ==
  ASSUME CaptionsIInv, ManagerCalls
  PROVE  CaptionsIInv'
<1>0. CaptionsTypes /\ ScriptsSend /\ MutesFollow /\ manager \in Clients
  BY CaptionsAssumption DEF CaptionsIInv
<1>1. /\ script[manager] = <<>> /\ ~Mutes(<<>>)
      /\ UNCHANGED <<queue, phase, packet, muted, lost>>
  BY ManagersScripts DEF ManagerCalls, rendererVars, faultVars
<1>2. SaysIt /\ wanted' = mEnabled'
      /\ {mEnabled', mTrickplayStarted', mParentalCtrlLocked'} \subseteq BOOLEAN
  BY ManagerSays
<1>3. SendIInv'
  BY CaptionsSend DEF CaptionsIInv, CaptionsNext
<1>4. PICK s \in Seq(Elements) :
        /\ \/ UNCHANGED script /\ s = <<>>
           \/ script' = [script EXCEPT ![manager] = s]
        /\ exempt' \/ (Mutes(s) /\ MutesOnlyAs(s, RightKind')) \/ (~Mutes(s) /\ RightKind' = RightKind)
  BY <1>1, <1>2, ManagersScripts DEF SaysIt, Says
<1>5. /\ script' \in [Clients -> Seq(Elements)] /\ script'[manager] = s
      /\ \A c \in Clients : c # manager => script'[c] = script[c]
  BY <1>0, <1>1, <1>4 DEF CaptionsTypes
<1>6. CaptionsTypes'
  <2>1. {mHALInitialized', exempt', lost'} \subseteq BOOLEAN /\ muted' \in [Channels -> BOOLEAN]
    BY <1>0, <1>1, <1>2 DEF CaptionsTypes, SaysIt
  <2>2. {mEnabled', mTrickplayStarted', mParentalCtrlLocked'} \subseteq BOOLEAN
    BY <1>2
  <2> QED
    BY <1>5, <2>1, <2>2 DEF CaptionsTypes
<1>7. ScriptsSend'
  BY <1>0, <1>1, <1>5 DEF ScriptsSend
<1>8. MutesFollow'
  <2> SUFFICES ASSUME ~lost, ~exempt'
               PROVE  /\ MutesOnlyAs(s, RightKind')
                      /\ ~Mutes(s) => QueueSays(RightKind')
                      /\ ~Mutes(s) /\ ~QueueMutes => RendererSays(RightKind')
    BY <1>1, <1>5 DEF MutesFollow, QueueSays, QueueMutes, LastMute, RendererSays
  <2>1. ~exempt
    BY <1>2 DEF SaysIt
  <2>2. QueueSays(RightKind) /\ (~QueueMutes => RendererSays(RightKind))
    BY <1>0, <1>1, <2>1 DEF MutesFollow
  <2>3. ~Mutes(s) => \A x : MutesOnlyAs(s, x)
    BY DEF Mutes, MutesOnlyAs
  <2> QED
    BY <1>4, <2>2, <2>3
<1> QED
  BY <1>2, <1>3, <1>6, <1>7, <1>8 DEF CaptionsIInv, SaysIt

\* The first element of a script is done without a packet, or data is to be sent.
LEMMA ScriptStep ==
  ASSUME CaptionsIInv, EnsureRendererCommsInitialized \/ closedCaptionDataCb
  PROVE  CaptionsIInv'
<1>0. CaptionsTypes /\ ScriptsSend /\ MutesFollow /\ manager \in Clients /\ decoder \in Clients
  BY CaptionsAssumption DEF CaptionsIInv
<1>1. /\ UNCHANGED <<queue, phase, packet, muted, lost, exempt, mEnabled, mTrickplayStarted,
                     mParentalCtrlLocked, mHALInitialized>>
      /\ UNCHANGED <<wanted, mCCHandle, mHandleUpdated, halHandle>>
  BY DEF EnsureRendererCommsInitialized, closedCaptionDataCb, rendererVars, faultVars, statusVars,
     halVars
<1>2. SendIInv'
  BY CaptionsSend DEF CaptionsIInv, CaptionsNext
<1>3. PICK c \in Clients, s \in Seq(Elements) :
        /\ script' = [script EXCEPT ![c] = s] /\ phase[c] = "idle"
        /\ Mutes(s) <=> Mutes(script[c])
        /\ \A x : MutesOnlyAs(script[c], x) => MutesOnlyAs(s, x)
  <2>1. CASE EnsureRendererCommsInitialized
    <3>1. /\ script[manager] # <<>> /\ Head(script[manager]) = "ensureInit"
          /\ phase[manager] = "idle" /\ script' = [script EXCEPT ![manager] = Tail(@)]
      BY <2>1 DEF EnsureRendererCommsInitialized, Does, Done
    <3>2. script[manager] \in Seq(Elements)
      BY <1>0 DEF CaptionsTypes
    <3> DEFINE s == Tail(script[manager])
    <3>3. /\ s \in Seq(Elements) /\ (Mutes(s) <=> Mutes(script[manager]))
          /\ \A x : MutesOnlyAs(script[manager], x) => MutesOnlyAs(s, x)
      BY <3>1, <3>2, TailMutes DEF MuteKinds
    <3>4. script' = [script EXCEPT ![manager] = s]
      BY <3>1
    <3> HIDE DEF s
    <3> QED
      BY <1>0, <3>1, <3>3, <3>4
  <2>2. CASE closedCaptionDataCb
    <3>1. script[decoder] = <<>> /\ script' = [script EXCEPT ![decoder] = <<"data">>]
      BY <2>2 DEF closedCaptionDataCb, Runs
    <3>2. phase[decoder] = "idle"
      BY <1>0, <3>1 DEF ScriptsSend
    <3>3. <<"data">> \in Seq(Elements) /\ ~Mutes(<<"data">>) /\ ~Mutes(<<>>)
      BY ManagersScripts
    <3>4. \A x : MutesOnlyAs(<<"data">>, x)
      BY <3>3 DEF Mutes, MutesOnlyAs
    <3> QED
      BY <1>0, <3>1, <3>2, <3>3, <3>4
  <2> QED
    BY <2>1, <2>2
<1>4. /\ script' \in [Clients -> Seq(Elements)] /\ script'[c] = s
      /\ \A d \in Clients : d # c => script'[d] = script[d]
  BY <1>0, <1>3 DEF CaptionsTypes
<1>5. CaptionsTypes'
  BY <1>0, <1>1, <1>4 DEF CaptionsTypes
<1>6. ScriptsSend'
  BY <1>0, <1>1, <1>3, <1>4 DEF ScriptsSend
<1>7. RightKind' = RightKind
  BY <1>1 DEF RightKind, Hidden
<1>8. (Mutes(script[manager]))' <=> Mutes(script[manager])
  BY <1>0, <1>3, <1>4
<1>9. \A x : MutesOnlyAs(script[manager], x) => MutesOnlyAs(script'[manager], x)
  BY <1>0, <1>3, <1>4
<1>10. MutesFollow'
  <2> SUFFICES ASSUME ~lost, ~exempt
               PROVE  /\ MutesOnlyAs(script'[manager], RightKind)
                      /\ ~Mutes(script'[manager]) => QueueSays(RightKind)
                      /\ ~Mutes(script'[manager]) /\ ~QueueMutes => RendererSays(RightKind)
    BY <1>1, <1>7 DEF MutesFollow, QueueSays, QueueMutes, LastMute, RendererSays
  <2> QED
    BY <1>0, <1>8, <1>9 DEF MutesFollow
<1>11. HandleKnown' /\ wanted' = mEnabled'
  BY <1>1 DEF CaptionsIInv, HandleKnown
<1> QED
  BY <1>2, <1>5, <1>6, <1>10, <1>11 DEF CaptionsIInv

\* Steps of the sender that neither begin to send a packet nor write one, and of the renderer.
LEMMA OtherStep ==
  ASSUME CaptionsIInv, SendIInv', UNCHANGED captionVars, UNCHANGED <<queue, script>>,
         \/ UNCHANGED <<phase, packet, muted, lost>>
         \/ UNCHANGED <<phase, packet>> /\ lost' = TRUE /\ muted' = [ch \in Channels |-> FALSE]
         \/ UNCHANGED <<muted, lost>> /\ \E c \in Clients :
              /\ \A d \in Clients : d # c => phase'[d] = phase[d] /\ packet'[d] = packet[d]
              /\ script[c] # <<>> /\ packet'[c].kind = Head(script[c])
  PROVE  CaptionsIInv'
<1>0. CaptionsTypes /\ ScriptsSend /\ MutesFollow /\ HandleKnown /\ wanted = mEnabled
  BY DEF CaptionsIInv
<1> USE DEF captionVars, statusVars, halVars
<1>1. CaptionsTypes'
  <2>1. muted' \in [Channels -> BOOLEAN] /\ lost' \in BOOLEAN
    <3>1. muted' \in [Channels -> BOOLEAN]
      BY <1>0 DEF CaptionsTypes
    <3> QED
      BY <1>0, <3>1 DEF CaptionsTypes
  <2> QED
    BY <1>0, <2>1 DEF CaptionsTypes
<1>2. ScriptsSend'
  BY <1>0 DEF ScriptsSend
<1>3. RightKind' = RightKind
  BY DEF RightKind, Hidden
<1>4. MutesFollow'
  <2> SUFFICES ASSUME ~lost', ~exempt PROVE MutesFollow'
    BY DEF MutesFollow
  <2>1. UNCHANGED <<muted, lost>>
    OBVIOUS
  <2> QED
    BY <1>0, <1>3, <2>1 DEF MutesFollow, QueueSays, QueueMutes, LastMute, RendererSays
<1>5. HandleKnown' /\ wanted' = mEnabled'
  BY <1>0 DEF HandleKnown
<1> QED
  BY <1>1, <1>2, <1>4, <1>5 DEF CaptionsIInv

LEMMA SentStep ==
  ASSUME CaptionsIInv, SendIInv', UNCHANGED captionVars, NEW c \in Clients, SendPacket(c)
  PROVE  CaptionsIInv'
<1>0. CaptionsTypes /\ ScriptsSend /\ MutesFollow /\ HandleKnown /\ wanted = mEnabled /\ SendTypes
      /\ manager \in Clients
  BY CaptionsAssumption DEF CaptionsIInv, SendIInv
<1> DEFINE p == packet[c]
<1>1. /\ phase[c] = "push" /\ queue' = Append(queue, p)
      /\ phase' = [phase EXCEPT ![c] = "idle"] /\ packet' = [packet EXCEPT ![c] = NoPacket]
      /\ script' = [script EXCEPT ![c] = Tail(script[c])] /\ UNCHANGED <<muted, lost>>
  BY DEF SendPacket, Done, rendererVars, faultVars
<1>2. p \in Packets /\ p.channel = ChannelOf[c] /\ script[c] # <<>> /\ p.kind = Head(script[c])
  BY <1>0, <1>1 DEF SendTypes, ScriptsSend
<1> HIDE DEF p
<1>3. PICK N \in Nat : /\ N = Len(queue) /\ Len(queue') = N + 1 /\ queue'[N + 1] = p
                       /\ \A k \in 1..N : queue'[k] = queue[k]
  <2>1. Len(queue) \in Nat /\ Len(queue') = Len(queue) + 1 /\ queue'[Len(queue) + 1] = p
        /\ \A k \in 1..Len(queue) : queue'[k] = queue[k]
    BY <1>0, <1>1, <1>2, AppendProperties, LenProperties DEF SendTypes
  <2> QED
    BY <2>1
<1>4. /\ Tail(script[c]) \in Seq(Elements)
      /\ Mutes(script[c]) <=> p.kind \in MuteKinds \/ Mutes(Tail(script[c]))
      /\ \A x : MutesOnlyAs(script[c], x) <=>
                  (p.kind \in MuteKinds => p.kind = x) /\ MutesOnlyAs(Tail(script[c]), x)
  BY <1>0, <1>2, TailMutes DEF CaptionsTypes
<1>5. /\ script' \in [Clients -> Seq(Elements)] /\ script'[c] = Tail(script[c])
      /\ \A d \in Clients : d # c => script'[d] = script[d]
  BY <1>0, <1>1, <1>4 DEF CaptionsTypes
<1>6. CaptionsTypes'
  BY <1>0, <1>1, <1>5 DEF CaptionsTypes, captionVars, statusVars, halVars
<1>7. p.kind \in MuteKinds => c = manager
  BY <1>0, <1>4 DEF ScriptsSend
<1>8. ScriptsSend'
  <2>1. \A d \in Clients : d # manager => ~Mutes(script'[d])
    BY <1>0, <1>4, <1>5 DEF ScriptsSend
  <2>2. \A d \in Clients : phase'[d] # "idle" => d # c /\ phase[d] # "idle" /\ packet'[d] = packet[d]
    BY <1>0, <1>1 DEF SendTypes
  <2>3. \A d \in Clients : phase'[d] # "idle" => script'[d] # <<>> /\ packet'[d].kind = Head(script'[d])
    BY <1>0, <1>5, <2>2 DEF ScriptsSend
  <2>4. ASSUME NEW i \in 1..(N + 1), queue'[i].kind \in MuteKinds
        PROVE  queue'[i].channel = CaptionChannel
    <3>1. CASE i = N + 1
      BY <1>2, <1>3, <1>7, <2>4, <3>1 DEF CaptionChannel
    <3>2. CASE i \in 1..N
      BY <1>0, <1>3, <2>4, <3>2 DEF ScriptsSend
    <3> QED
      BY <1>3, <3>1, <3>2
  <2> QED
    BY <1>3, <2>1, <2>3, <2>4 DEF ScriptsSend, CaptionChannel
<1>9. RightKind' = RightKind /\ exempt' = exempt /\ HandleKnown' /\ wanted' = mEnabled'
  BY <1>0 DEF RightKind, Hidden, HandleKnown, captionVars, statusVars, halVars
<1>10. MutesFollow'
  <2> SUFFICES ASSUME ~lost, ~exempt
               PROVE  /\ MutesOnlyAs(script'[manager], RightKind)
                      /\ ~Mutes(script'[manager]) => QueueSays(RightKind)'
                      /\ ~Mutes(script'[manager]) /\ ~QueueMutes' => RendererSays(RightKind)
    BY <1>1, <1>9 DEF MutesFollow, RendererSays
  <2>1. /\ MutesOnlyAs(script[manager], RightKind)
        /\ ~Mutes(script[manager]) => QueueSays(RightKind)
        /\ ~Mutes(script[manager]) /\ ~QueueMutes => RendererSays(RightKind)
    BY <1>0 DEF MutesFollow
  <2>2. MutesOnlyAs(script'[manager], RightKind)
    BY <1>0, <1>4, <1>5, <2>1
  <2>3. CASE p.kind \in MuteKinds
    <3>1. p.kind = RightKind
      BY <1>4, <1>7, <2>1, <2>3
    <3>2. QueueMutes'
      BY <1>3, <2>3 DEF QueueMutes
    <3>3. ASSUME NEW i \in 1..(N + 1), LastMute(i)' PROVE queue'[i].kind = RightKind
      <4>1. N + 1 \in 1..Len(queue') /\ queue'[N + 1].kind \in MuteKinds
        BY <1>3, <2>3
      <4>2. ~(N + 1 > i)
        BY <3>3, <4>1 DEF LastMute
      <4>3. i = N + 1
        BY <1>3, <4>2
      <4> QED
        BY <1>3, <3>1, <4>3
    <3>4. QueueSays(RightKind)'
      BY <1>3, <1>9, <3>3 DEF QueueSays
    <3> QED
      BY <2>2, <3>2, <3>4
  <2>4. CASE p.kind \notin MuteKinds
    <3>1. Mutes(script'[manager]) <=> Mutes(script[manager])
      BY <1>0, <1>4, <1>5, <2>4
    <3>2. QueueMutes => QueueMutes'
      <4> SUFFICES ASSUME NEW i \in 1..N, queue[i].kind \in MuteKinds PROVE QueueMutes'
        BY <1>3 DEF QueueMutes
      <4>1. i \in 1..(N + 1) /\ queue'[i].kind \in MuteKinds
        BY <1>3
      <4> QED
        BY <1>3, <4>1 DEF QueueMutes
    <3>3. ASSUME NEW i \in 1..(N + 1), LastMute(i)', QueueSays(RightKind)
          PROVE  queue'[i].kind = RightKind
      <4>1. i \in 1..N
        BY <1>3, <2>4, <3>3 DEF LastMute
      <4>2. ASSUME NEW j \in 1..N, j > i PROVE queue[j].kind \notin MuteKinds
        <5>1. j \in 1..Len(queue') /\ queue'[j] = queue[j]
          BY <1>3
        <5> QED
          BY <3>3, <4>2, <5>1 DEF LastMute
      <4>3. LastMute(i)
        BY <1>3, <3>3, <4>1, <4>2 DEF LastMute
      <4> QED
        BY <1>3, <3>3, <4>1, <4>3 DEF QueueSays
    <3>4. QueueSays(RightKind) => QueueSays(RightKind)'
      BY <1>3, <1>9, <3>3 DEF QueueSays
    <3> QED
      BY <2>1, <2>2, <3>1, <3>2, <3>4
  <2> QED
    BY <2>3, <2>4
<1> QED
  BY <1>6, <1>8, <1>9, <1>10 DEF CaptionsIInv

LEMMA WrittenStep ==
  ASSUME CaptionsIInv, SendIInv', UNCHANGED captionVars, SenderWrites
  PROVE  CaptionsIInv'
<1>0. CaptionsTypes /\ ScriptsSend /\ MutesFollow /\ HandleKnown /\ wanted = mEnabled /\ SendTypes
      /\ CaptionChannel \in Channels
  BY CaptionsAssumption, SenderAssumption DEF CaptionsIInv, SendIInv, CaptionChannel
<1>1. queue # <<>> /\ queue' = Tail(queue) /\ UNCHANGED <<phase, packet, script>>
  BY DEF SenderWrites, clientVars
<1>a. queue \in Seq(Packets) /\ Tail(queue) \in Seq(Packets) /\ Len(Tail(queue)) = Len(queue) - 1
      /\ Head(queue) = queue[1] /\ \A k \in 1..Len(Tail(queue)) : Tail(queue)[k] = queue[k + 1]
  BY <1>0, <1>1, HeadTailProperties DEF SendTypes
<1>b. Len(queue) \in Nat /\ Len(queue) # 0
  BY <1>1, <1>a, LenProperties, EmptySeq
<1>2. PICK M \in Nat : M = Len(queue')
  <2>1. Len(queue') \in Nat
    BY <1>1, <1>a, LenProperties
  <2> QED
    BY <2>1
<1>3. /\ Len(queue) = M + 1
      /\ \A k \in 1..M : k + 1 \in 1..(M + 1) /\ queue'[k] = queue[k + 1]
  BY <1>1, <1>2, <1>a, <1>b
<1>4. \/ UNCHANGED muted /\ lost' = TRUE
      \/ /\ UNCHANGED lost
         /\ muted' = [muted EXCEPT ![queue[1].channel] =
                        CASE queue[1].kind = "mute" -> TRUE
                          [] queue[1].kind = "unmute" -> FALSE
                          [] OTHER -> @]
  BY <1>a DEF SenderWrites, WriteFails, WriteSucceeds, Renders, rendererVars
<1>5. muted' \in [Channels -> BOOLEAN] /\ lost' \in BOOLEAN
  <2>1. \A f \in [Channels -> BOOLEAN] : f[queue[1].channel] \in BOOLEAN \/ queue[1].channel \notin Channels
    OBVIOUS
  <2> QED
    BY <1>0, <1>4, <2>1 DEF CaptionsTypes
<1>6. CaptionsTypes'
  BY <1>0, <1>1, <1>5 DEF CaptionsTypes, captionVars, statusVars, halVars
<1>7. ScriptsSend'
  <2>1. \A i \in 1..M : queue'[i].kind \in MuteKinds => queue'[i].channel = CaptionChannel
    BY <1>0, <1>3 DEF ScriptsSend
  <2> QED
    BY <1>0, <1>1, <1>2, <2>1 DEF ScriptsSend, CaptionChannel
<1>8. RightKind' = RightKind /\ exempt' = exempt /\ HandleKnown' /\ wanted' = mEnabled'
  BY <1>0 DEF RightKind, Hidden, HandleKnown, captionVars, statusVars, halVars
<1>9. MutesFollow'
  <2> SUFFICES ASSUME ~lost', ~exempt, ~Mutes(script[manager])
               PROVE  QueueSays(RightKind)' /\ (~QueueMutes' => RendererSays(RightKind)')
    BY <1>0, <1>1, <1>4, <1>8 DEF MutesFollow
  <2>1. QueueSays(RightKind) /\ (~QueueMutes => RendererSays(RightKind))
    BY <1>0, <1>4 DEF MutesFollow
  <2>2. ASSUME NEW i \in 1..M, LastMute(i)' PROVE queue'[i].kind = RightKind
    <3>1. ASSUME NEW j \in 1..(M + 1), j > i + 1 PROVE queue[j].kind \notin MuteKinds
      <4>1. j - 1 \in 1..M /\ j - 1 > i /\ j = (j - 1) + 1
        BY <1>3, <3>1
      <4> QED
        BY <1>2, <1>3, <2>2, <4>1 DEF LastMute
    <3>2. LastMute(i + 1) /\ i + 1 \in 1..Len(queue)
      BY <1>3, <2>2, <3>1 DEF LastMute
    <3> QED
      BY <1>3, <2>1, <3>2 DEF QueueSays
  <2>3. QueueSays(RightKind)'
    BY <1>2, <1>8, <2>2 DEF QueueSays
  <2>4. ASSUME ~QueueMutes' PROVE RendererSays(RightKind)'
    <3>1. \A j \in 1..(M + 1) : j > 1 => queue[j].kind \notin MuteKinds
      <4> SUFFICES ASSUME NEW j \in 1..(M + 1), j > 1 PROVE queue[j].kind \notin MuteKinds
        OBVIOUS
      <4>1. j - 1 \in 1..M /\ j = (j - 1) + 1
        BY <1>3
      <4> QED
        BY <1>2, <1>3, <2>4, <4>1 DEF QueueMutes
    <3>2. muted' = [muted EXCEPT ![queue[1].channel] =
                      CASE queue[1].kind = "mute" -> TRUE
                        [] queue[1].kind = "unmute" -> FALSE
                        [] OTHER -> @]
      BY <1>4
    <3>3. CASE queue[1].kind \in MuteKinds
      <4>1. 1 \in 1..Len(queue) /\ LastMute(1)
        BY <1>3, <3>1, <3>3 DEF LastMute
      <4>2. queue[1].kind = RightKind /\ queue[1].channel = CaptionChannel
        BY <1>0, <2>1, <3>3, <4>1 DEF QueueSays, ScriptsSend
      <4>3. muted'[CaptionChannel] <=> queue[1].kind = "mute"
        BY <1>0, <3>2, <3>3, <4>2 DEF CaptionsTypes, MuteKinds
      <4> QED
        BY <1>8, <4>2, <4>3 DEF RendererSays, CaptionChannel
    <3>4. CASE queue[1].kind \notin MuteKinds
      <4>1. ~QueueMutes
        BY <1>3, <3>1, <3>4 DEF QueueMutes
      <4>2. muted'[CaptionChannel] = muted[CaptionChannel]
        BY <1>0, <3>2, <3>4 DEF CaptionsTypes, MuteKinds
      <4> QED
        BY <1>8, <2>1, <4>1, <4>2 DEF RendererSays, CaptionChannel
    <3> QED
      BY <3>3, <3>4
  <2> QED
    BY <2>3, <2>4
<1> QED
  BY <1>6, <1>7, <1>8, <1>9 DEF CaptionsIInv

LEMMA CaptionsStep ==
  ASSUME CaptionsIInv, [CaptionsNext]_<<senderVars, captionVars>>
  PROVE  CaptionsIInv'
<1>0. SendIInv' /\ SendTypes /\ CaptionsTypes
  BY CaptionsSend DEF CaptionsIInv, SendIInv
<1>1. CASE ManagerCalls \/ EnsureRendererCommsInitialized \/ closedCaptionDataCb
  BY <1>1, ManagerStep, ScriptStep
<1>2. CASE UNCHANGED <<senderVars, captionVars>>
  BY <1>0, <1>2, OtherStep DEF senderVars, clientVars, rendererVars, faultVars
<1>3. CASE SenderNext /\ UNCHANGED captionVars
  <2>1. CASE \E c \in Clients : SendPacket(c)
    BY <1>0, <1>3, <2>1, SentStep
  <2>2. CASE SenderWrites
    BY <1>0, <1>3, <2>2, WrittenStep
  <2>3. CASE \E c \in Clients : Compose(c) \/ TakeChannel(c)
    <3>1. PICK c \in Clients : Compose(c) \/ TakeChannel(c)
      BY <2>3
    <3>2. UNCHANGED <<queue, script, muted, lost>>
      BY <3>1 DEF Compose, Composes, TakeChannel, rendererVars, faultVars
    <3>3. \A d \in Clients : d # c => phase'[d] = phase[d] /\ packet'[d] = packet[d]
      BY <1>0, <3>1 DEF Compose, Composes, TakeChannel, Numbered, SendTypes
    <3>4. CASE Compose(c)
      <4>1. script[c] # <<>> /\ packet'[c].kind = Head(script[c])
        BY <1>0, <3>4 DEF Compose, Composes, Does, SendTypes
      <4> QED
        BY <1>0, <1>3, <3>2, <3>3, <4>1, OtherStep
    <3>5. CASE TakeChannel(c)
      <4>1. packet[c] \in Packets /\ script[c] # <<>> /\ packet[c].kind = Head(script[c])
        BY <1>0, <3>5 DEF TakeChannel, SendTypes, CaptionsIInv, ScriptsSend
      <4>2. PICK n : packet' = [packet EXCEPT ![c].counter = n]
        BY <3>5 DEF TakeChannel, Numbered
      <4>3. packet'[c].kind = packet[c].kind
        BY <1>0, <4>1, <4>2 DEF SendTypes, Packets
      <4> QED
        BY <1>0, <1>3, <3>2, <3>3, <4>1, <4>3, OtherStep
    <3> QED
      BY <3>1, <3>4, <3>5
  <2>4. CASE RendererStops
    BY <1>0, <1>3, <2>4, OtherStep DEF RendererStops, clientVars
  <2>5. CASE RendererStarts \/ SenderLocks \/ SenderRuns \/ SenderWaits \/ SenderWakes \/ SenderChecks
             \/ CloseBegins \/ CloseNotifies \/ CloseJoins
    <3>1. UNCHANGED <<queue, script, phase, packet, muted, lost>>
      BY <2>5 DEF RendererStarts, SenderLocks, SenderRuns, SenderWaits, SenderWakes, SenderChecks,
         CloseBegins, CloseNotifies, CloseJoins, clientVars, rendererVars, faultVars
    <3> QED
      BY <1>0, <1>3, <3>1, OtherStep
  <2> QED
    BY <1>3, <2>1, <2>2, <2>3, <2>4, <2>5 DEF SenderNext, senderTask, Sends
<1> QED
  BY <1>1, <1>2, <1>3 DEF CaptionsNext

\* PlayerCCManager.cpp:595-632, 772-798: when all that was sent has been rendered, captions
\* are shown exactly if they are enabled, whatever was called in which order while they were
\* hidden by trick play or a parental lock; and the HAL runs with the handle in use.
THEOREM CaptionsShownAsWanted ==
  CaptionsSpec => []CaptionsFollow
<1>1. CaptionsIInv => CaptionsFollow
  <2> SUFFICES ASSUME CaptionsIInv, Quiet, ~Hidden, ~exempt
               PROVE  muted[CaptionChannel] = ~wanted
    BY DEF CaptionsFollow, CaptionsIInv, HandleKnown
  <2>0. manager \in Clients /\ CaptionChannel \in Channels
    BY CaptionsAssumption, SenderAssumption DEF CaptionChannel
  <2>1. ~lost /\ script[manager] = <<>> /\ queue = <<>>
    BY <2>0 DEF Quiet
  <2>2. ~Mutes(script[manager]) /\ ~QueueMutes
    BY <2>1, EmptySeq, ManagersScripts DEF QueueMutes
  <2>3. RendererSays(RightKind)
    BY <2>1, <2>2 DEF CaptionsIInv, MutesFollow
  <2>4. muted[CaptionChannel] \in BOOLEAN /\ mEnabled \in BOOLEAN /\ wanted = mEnabled
    BY <2>0 DEF CaptionsIInv, CaptionsTypes
  <2> QED
    BY <2>3, <2>4 DEF RendererSays, RightKind
<1> QED
  BY <1>1, CaptionsInitially, CaptionsStep, PTL DEF CaptionsSpec

-----------------------------------------------------------------------------
(* The subtitles that are shown.                                            *)

SinkChannel == ChannelOf[streaming]
RightMute == IF m_mute THEN "mute" ELSE "unmute"
Holds(s, e) == \E k \in 1..Len(s) : s[k] = e
Awaits(e) == Holds(script[application], e) \/ Holds(script[streaming], e)
Begins(s, e) == s # <<>> /\ Head(s) = e

\* A timestamp that may be asked for is cleared right after it is sent.
ClearsAfterStamp(s) ==
  /\ \A k \in 1..Len(s) : s[k] = "stamp" => k + 1 \in 1..Len(s) /\ s[k + 1] = "clearStamp"
  /\ \A k \in 1..Len(s) : k > 1 /\ s[k] = "clearStamp" => s[k - 1] \in {"stamp", "clockSync"}

SinkTypes ==
  /\ {m_mute, m_send_timestamp, hasChannel, raced, lost} \subseteq BOOLEAN
  /\ m_pts_offset \in Values
  /\ script \in [Clients -> Seq(Elements)]
  /\ muted \in [Channels -> BOOLEAN] /\ clock \in [Channels -> Values]

\* The element plays or is about to.
Playing == state = "PLAYING" \/ Holds(script[application], "goPlaying")

\* What the two threads send and do; other clients do not send.
ScriptsServe ==
  /\ \A c \in Clients \ Sinks : script[c] = <<>> /\ phase[c] = "idle"
  /\ \A e \in {"unmute", "timestamp", "stamp", "clockSync", "clearStamp"} :
       ~Holds(script[application], e)
  /\ \A e \in {"mute", "unmute", "timestamp", "init", "goPlaying"} : ~Holds(script[streaming], e)
  /\ ClearsAfterStamp(script[streaming])
  /\ Playing => ~Holds(script[application], "mute")
  /\ Holds(script[application], "init") => state = "NULL" /\ script[application] = <<"init">>
  /\ Holds(script[application], "goPlaying") => state # "NULL"
  /\ state = "NULL" \/ ~hasChannel => script[streaming] = <<>>
  /\ state # "NULL" /\ ~hasChannel => m_send_timestamp

\* A packet is what its script says, with mute and offset as they are, or as they were
\* until the application asked for a timestamp, which it will do, or raced.
PacketsSay ==
  /\ \A i \in 1..Len(queue) : queue[i].channel = SinkChannel
  /\ \A c \in Sinks : phase[c] # "idle" =>
       /\ script[c] # <<>>
       /\ Head(script[c]) \in Kinds \union {"setMute", "stamp", "clockSync"}
       /\ Head(script[c]) \in Kinds => packet[c].kind = Head(script[c])
       /\ Head(script[c]) = "setMute" =>
            packet[c].kind \in MuteKinds /\ (~raced => packet[c].kind = RightMute)
       /\ Head(script[c]) \in {"stamp", "clockSync"} =>
            /\ packet[c].kind = "timestamp"
            /\ ~raced /\ ~Holds(script[application], "askStamp") => packet[c].value = m_pts_offset

\* What the renderer of the sink is told last: by the queue, or else before.
LastOf(K, i) ==
  queue[i].kind \in K /\ \A j \in 1..Len(queue) : j > i => queue[j].kind \notin K
NoneOf(K) == \A i \in 1..Len(queue) : queue[i].kind \notin K
MuteTold(x) ==
  /\ \A i \in 1..Len(queue) : LastOf(MuteKinds, i) => queue[i].kind = x
  /\ NoneOf(MuteKinds) => (muted[SinkChannel] <=> x = "mute")
ClockTold(v) ==
  /\ \A i \in 1..Len(queue) : LastOf({"timestamp"}, i) => queue[i].value = v
  /\ NoneOf({"timestamp"}) => clock[SinkChannel] = v

\* A sink that plays has said whether it is muted, unless a thread is yet to.
MuteFollows ==
  hasChannel /\ ~raced /\ ~lost /\ Playing /\ ~Awaits("setMute") => MuteTold(RightMute)

\* When no timestamp is asked for, or the one asked for was sent and the flag is yet to be
\* cleared, the offset in force has been said, unless a thread is yet to ask for one.
ClockFollows ==
  /\ hasChannel /\ ~raced /\ ~lost /\ state # "NULL" /\ ~Awaits("askStamp")
  /\ ~m_send_timestamp \/ Begins(script[streaming], "clearStamp")
  => ClockTold(m_pts_offset)

SinkIInv ==
  SendIInv /\ SinkTypes /\ ScriptsServe /\ PacketsSay /\ MuteFollows /\ ClockFollows

LEMMA TailHolds ==
  ASSUME NEW s \in Seq(Elements), s # <<>>
  PROVE  /\ Tail(s) \in Seq(Elements)
         /\ \A e : Holds(s, e) <=> Head(s) = e \/ Holds(Tail(s), e)
         /\ ClearsAfterStamp(s) =>
              /\ ClearsAfterStamp(Tail(s))
              /\ Begins(Tail(s), "clearStamp") => Head(s) \in {"stamp", "clockSync"}
              /\ Head(s) = "stamp" => Begins(Tail(s), "clearStamp")
<1> DEFINE t == Tail(s)
<1>a. /\ t \in Seq(Elements) /\ Len(s) \in Nat /\ Len(s) # 0 /\ Len(t) = Len(s) - 1
      /\ Head(s) = s[1] /\ \A k \in 1..Len(t) : t[k] = s[k + 1]
  BY HeadTailProperties, LenProperties, EmptySeq
<1> HIDE DEF t
<1>1. /\ t \in Seq(Elements) /\ Len(s) \in Nat /\ Len(s) # 0 /\ Len(t) = Len(s) - 1
      /\ Head(s) = s[1] /\ \A k \in 1..Len(t) : t[k] = s[k + 1]
      /\ t # <<>> <=> Len(t) # 0
      /\ t # <<>> => Head(t) = t[1]
  BY <1>a, HeadTailProperties, EmptySeq
<1>2. \A k \in 1..Len(s) : k = 1 \/ (k - 1 \in 1..Len(t) /\ k = (k - 1) + 1)
  BY <1>1
<1>3. 1 \in 1..Len(s) /\ \A k \in 1..Len(t) : k + 1 \in 1..Len(s)
  BY <1>1
<1>4. ASSUME NEW e PROVE Holds(s, e) <=> s[1] = e \/ Holds(t, e)
  <2>1. Holds(s, e) => s[1] = e \/ Holds(t, e)
    BY <1>1, <1>2 DEF Holds
  <2>2. s[1] = e \/ Holds(t, e) => Holds(s, e)
    BY <1>1, <1>3 DEF Holds
  <2> QED
    BY <2>1, <2>2
<1>5. ASSUME ClearsAfterStamp(s)
      PROVE  /\ ClearsAfterStamp(t)
             /\ Begins(t, "clearStamp") => s[1] \in {"stamp", "clockSync"}
             /\ s[1] = "stamp" => Begins(t, "clearStamp")
  <2>1. ASSUME NEW k \in 1..Len(t), t[k] = "stamp"
        PROVE  k + 1 \in 1..Len(t) /\ t[k + 1] = "clearStamp"
    <3>1. s[k + 1] = "stamp" /\ k + 1 \in 1..Len(s)
      BY <1>1, <1>3, <2>1
    <3>2. (k + 1) + 1 \in 1..Len(s) /\ s[(k + 1) + 1] = "clearStamp"
      BY <1>5, <3>1 DEF ClearsAfterStamp
    <3>3. k + 1 \in 1..Len(t)
      BY <1>1, <3>2
    <3> QED
      BY <1>1, <3>2, <3>3
  <2>2. ASSUME NEW k \in 1..Len(t), k > 1, t[k] = "clearStamp"
        PROVE  t[k - 1] \in {"stamp", "clockSync"}
    <3>1. s[k + 1] = "clearStamp" /\ k + 1 \in 1..Len(s) /\ k + 1 > 1
      BY <1>1, <1>3, <2>2
    <3>2. s[(k + 1) - 1] \in {"stamp", "clockSync"}
      BY <1>5, <3>1 DEF ClearsAfterStamp
    <3>3. k - 1 \in 1..Len(t) /\ (k + 1) - 1 = (k - 1) + 1
      BY <1>1, <2>2
    <3> QED
      BY <1>1, <3>2, <3>3
  <2>3. ASSUME Begins(t, "clearStamp") PROVE s[1] \in {"stamp", "clockSync"}
    <3>1. 1 \in 1..Len(t) /\ s[1 + 1] = "clearStamp" /\ 1 + 1 \in 1..Len(s) /\ 1 + 1 > 1
      BY <1>1, <2>3 DEF Begins
    <3>2. s[(1 + 1) - 1] \in {"stamp", "clockSync"}
      BY <1>5, <3>1 DEF ClearsAfterStamp
    <3> QED
      BY <3>2
  <2>4. ASSUME s[1] = "stamp" PROVE Begins(t, "clearStamp")
    <3>1. 1 + 1 \in 1..Len(s) /\ s[1 + 1] = "clearStamp"
      BY <1>3, <1>5, <2>4 DEF ClearsAfterStamp
    <3>2. 1 \in 1..Len(t) /\ Len(t) # 0
      BY <1>1, <3>1
    <3> QED
      BY <1>1, <3>1, <3>2 DEF Begins
  <2> QED
    BY <2>1, <2>2, <2>3, <2>4 DEF ClearsAfterStamp
<1> QED
  BY <1>1, <1>4, <1>5 DEF t

LEMMA ShortScripts ==
  /\ \A e : ~Holds(<<>>, e)
  /\ \A a, e : Holds(<<a>>, e) <=> e = a
  /\ \A a, b, e : Holds(<<a, b>>, e) <=> e \in {a, b}
  /\ \A a, b, c, e : Holds(<<a, b, c>>, e) <=> e \in {a, b, c}
  /\ \A a, b, c, d, e : Holds(<<a, b, c, d>>, e) <=> e \in {a, b, c, d}
<1>1. \A e : ~Holds(<<>>, e)
  BY EmptySeq DEF Holds
<1>2. ASSUME NEW a, NEW e PROVE Holds(<<a>>, e) <=> e = a
  <2>1. Len(<<a>>) = 1 /\ 1..1 = {1} /\ <<a>>[1] = a
    OBVIOUS
  <2> QED
    BY <2>1 DEF Holds
<1>3. ASSUME NEW a, NEW b, NEW e PROVE Holds(<<a, b>>, e) <=> e \in {a, b}
  <2>1. Len(<<a, b>>) = 2 /\ 1..2 = {1, 2} /\ <<a, b>>[1] = a /\ <<a, b>>[2] = b
    OBVIOUS
  <2> QED
    BY <2>1 DEF Holds
<1>4. ASSUME NEW a, NEW b, NEW c, NEW e PROVE Holds(<<a, b, c>>, e) <=> e \in {a, b, c}
  <2>1. /\ Len(<<a, b, c>>) = 3 /\ 1..3 = {1, 2, 3}
        /\ <<a, b, c>>[1] = a /\ <<a, b, c>>[2] = b /\ <<a, b, c>>[3] = c
    OBVIOUS
  <2> QED
    BY <2>1 DEF Holds
<1>5. ASSUME NEW a, NEW b, NEW c, NEW d, NEW e
      PROVE  Holds(<<a, b, c, d>>, e) <=> e \in {a, b, c, d}
  <2>1. /\ Len(<<a, b, c, d>>) = 4 /\ 1..4 = {1, 2, 3, 4}
        /\ <<a, b, c, d>>[1] = a /\ <<a, b, c, d>>[2] = b /\ <<a, b, c, d>>[3] = c
        /\ <<a, b, c, d>>[4] = d
    OBVIOUS
  <2> QED
    BY <2>1 DEF Holds
<1> QED
  BY <1>1, <1>2, <1>3, <1>4, <1>5

\* What the packet that joins the queue changes of what is told last.
LEMMA LastAppended ==
  ASSUME SendTypes, NEW p \in Packets, queue' = Append(queue, p), UNCHANGED <<muted, clock>>
  PROVE  /\ \A x : IF p.kind \in MuteKinds THEN p.kind = x => MuteTold(x)'
                  ELSE MuteTold(x) => MuteTold(x)'
         /\ \A v : IF p.kind = "timestamp" THEN p.value = v => ClockTold(v)'
                  ELSE ClockTold(v) => ClockTold(v)'
         /\ (\A i \in 1..Len(queue) : queue[i].channel = SinkChannel) /\ p.channel = SinkChannel
              => \A i \in 1..Len(queue') : queue'[i].channel = SinkChannel
<1>1. PICK N \in Nat : /\ N = Len(queue) /\ Len(queue') = N + 1 /\ queue'[N + 1] = p
                       /\ \A k \in 1..N : queue'[k] = queue[k]
  <2>1. Len(queue) \in Nat /\ Len(queue') = Len(queue) + 1 /\ queue'[Len(queue) + 1] = p
        /\ \A k \in 1..Len(queue) : queue'[k] = queue[k]
    BY AppendProperties, LenProperties DEF SendTypes
  <2> QED
    BY <2>1
<1>2. ASSUME NEW K, p.kind \in K
      PROVE  (\A i \in 1..Len(queue') : LastOf(K, i)' => queue'[i] = p) /\ ~NoneOf(K)'
  <2>1. N + 1 \in 1..Len(queue') /\ queue'[N + 1].kind \in K
    BY <1>1, <1>2
  <2>2. ASSUME NEW i \in 1..Len(queue'), LastOf(K, i)' PROVE queue'[i] = p
    <3>1. ~(N + 1 > i)
      BY <2>1, <2>2 DEF LastOf
    <3>2. i = N + 1
      BY <1>1, <3>1
    <3> QED
      BY <1>1, <3>2
  <2> QED
    BY <2>1, <2>2 DEF NoneOf
<1>3. ASSUME NEW K, p.kind \notin K
      PROVE  /\ \A i \in 1..Len(queue') : LastOf(K, i)' =>
                  i \in 1..Len(queue) /\ LastOf(K, i) /\ queue'[i] = queue[i]
             /\ NoneOf(K)' => NoneOf(K)
  <2>1. ASSUME NEW i \in 1..Len(queue'), LastOf(K, i)'
        PROVE  i \in 1..Len(queue) /\ LastOf(K, i) /\ queue'[i] = queue[i]
    <3>1. i \in 1..N /\ queue'[i] = queue[i]
      BY <1>1, <1>3, <2>1 DEF LastOf
    <3>2. ASSUME NEW j \in 1..N, j > i PROVE queue[j].kind \notin K
      <4>1. j \in 1..Len(queue') /\ queue'[j] = queue[j]
        BY <1>1
      <4> QED
        BY <2>1, <3>2, <4>1 DEF LastOf
    <3> QED
      BY <1>1, <2>1, <3>1, <3>2 DEF LastOf
  <2>2. ASSUME NoneOf(K)', NEW i \in 1..N PROVE queue[i].kind \notin K
    <3>1. i \in 1..Len(queue') /\ queue'[i] = queue[i]
      BY <1>1
    <3> QED
      BY <2>2, <3>1 DEF NoneOf
  <2> QED
    BY <1>1, <2>1, <2>2 DEF NoneOf
<1>4. ASSUME NEW x
      PROVE  IF p.kind \in MuteKinds THEN p.kind = x => MuteTold(x)' ELSE MuteTold(x) => MuteTold(x)'
  <2>1. CASE p.kind \in MuteKinds
    BY <1>2, <2>1 DEF MuteTold
  <2>2. CASE p.kind \notin MuteKinds
    BY <1>3, <2>2 DEF MuteTold, SinkChannel
  <2> QED
    BY <2>1, <2>2
<1>5. ASSUME NEW v
      PROVE  IF p.kind = "timestamp" THEN p.value = v => ClockTold(v)' ELSE ClockTold(v) => ClockTold(v)'
  <2>1. CASE p.kind = "timestamp"
    <3>1. p.kind \in {"timestamp"}
      BY <2>1
    <3> QED
      BY <1>2, <2>1, <3>1 DEF ClockTold
  <2>2. CASE p.kind # "timestamp"
    <3>1. p.kind \notin {"timestamp"}
      BY <2>2
    <3> QED
      BY <1>3, <2>2, <3>1 DEF ClockTold, SinkChannel
  <2> QED
    BY <2>1, <2>2
<1>6. ASSUME \A i \in 1..Len(queue) : queue[i].channel = SinkChannel, p.channel = SinkChannel,
             NEW i \in 1..Len(queue')
      PROVE  queue'[i].channel = SinkChannel
  <2>1. i = N + 1 \/ i \in 1..N
    BY <1>1
  <2> QED
    BY <1>1, <1>6, <2>1
<1> QED
  BY <1>4, <1>5, <1>6

\* A packet that the renderer gets is told, if it was the last.
LEMMA LastRendered ==
  ASSUME SendTypes, SinkTypes, queue # <<>>, queue' = Tail(queue), Renders(Head(queue)),
         \A i \in 1..Len(queue) : queue[i].channel = SinkChannel
  PROVE  /\ muted' \in [Channels -> BOOLEAN] /\ clock' \in [Channels -> Values]
         /\ \A x : MuteTold(x) => MuteTold(x)'
         /\ \A v : ClockTold(v) => ClockTold(v)'
<1>1. queue \in Seq(Packets) /\ Tail(queue) \in Seq(Packets) /\ Len(Tail(queue)) = Len(queue) - 1
      /\ Head(queue) = queue[1] /\ \A k \in 1..Len(Tail(queue)) : Tail(queue)[k] = queue[k + 1]
  BY HeadTailProperties DEF SendTypes
<1>2. PICK M \in Nat : M = Len(queue')
  <2>1. Len(queue') \in Nat
    BY <1>1, LenProperties
  <2> QED
    BY <2>1
<1>3. Len(queue) \in Nat /\ Len(queue) # 0
  BY <1>1, LenProperties, EmptySeq
<1>4. /\ Len(queue) = M + 1
      /\ \A k \in 1..M : k + 1 \in 1..(M + 1) /\ queue'[k] = queue[k + 1]
  BY <1>1, <1>2, <1>3
<1>5. PICK p \in Packets : p = queue[1]
  <2>1. queue[1] \in Packets
    BY <1>1, <1>3, ElementOfSeq
  <2> QED
    BY <2>1
<1>6. p.channel = SinkChannel /\ SinkChannel \in Channels /\ p.value \in Values
  <2>1. 1 \in 1..Len(queue)
    BY <1>3
  <2>2. p.channel \in Channels /\ p.value \in Values
    BY DEF Packets
  <2> QED
    BY <1>5, <2>1, <2>2
<1>7. /\ muted' = [muted EXCEPT ![p.channel] = CASE p.kind = "mute" -> TRUE
                                                 [] p.kind = "unmute" -> FALSE
                                                 [] OTHER -> @]
      /\ clock' = [clock EXCEPT ![p.channel] = IF p.kind = "timestamp" THEN p.value ELSE @]
  BY <1>1, <1>5 DEF Renders
<1>8. /\ muted' \in [Channels -> BOOLEAN] /\ clock' \in [Channels -> Values]
      /\ muted'[SinkChannel] = (IF p.kind \in MuteKinds THEN p.kind = "mute" ELSE muted[SinkChannel])
      /\ clock'[SinkChannel] = IF p.kind = "timestamp" THEN p.value ELSE clock[SinkChannel]
  <2>1. muted \in [Channels -> BOOLEAN] /\ clock \in [Channels -> Values]
    BY DEF SinkTypes
  <2>2. clock' \in [Channels -> Values]
        /\ clock'[SinkChannel] = IF p.kind = "timestamp" THEN p.value ELSE clock[SinkChannel]
    BY <1>6, <1>7, <2>1
  <2>3. CASE p.kind = "mute"
    BY <1>6, <1>7, <2>1, <2>2, <2>3 DEF MuteKinds
  <2>4. CASE p.kind = "unmute"
    BY <1>6, <1>7, <2>1, <2>2, <2>4 DEF MuteKinds
  <2>5. CASE p.kind \notin MuteKinds
    BY <1>6, <1>7, <2>1, <2>2, <2>5 DEF MuteKinds
  <2> QED
    BY <2>3, <2>4, <2>5 DEF MuteKinds
<1>9. ASSUME NEW K
      PROVE  /\ \A i \in 1..Len(queue') : LastOf(K, i)' =>
                  i + 1 \in 1..Len(queue) /\ LastOf(K, i + 1) /\ queue'[i] = queue[i + 1]
             /\ NoneOf(K)' => IF p.kind \in K THEN 1 \in 1..Len(queue) /\ LastOf(K, 1) ELSE NoneOf(K)
  <2>1. ASSUME NEW i \in 1..M, LastOf(K, i)'
        PROVE  i + 1 \in 1..Len(queue) /\ LastOf(K, i + 1) /\ queue'[i] = queue[i + 1]
    <3>1. ASSUME NEW j \in 1..(M + 1), j > i + 1 PROVE queue[j].kind \notin K
      <4>1. j - 1 \in 1..M /\ j - 1 > i /\ j = (j - 1) + 1
        BY <3>1
      <4> QED
        BY <1>2, <1>4, <2>1, <4>1 DEF LastOf
    <3> QED
      BY <1>4, <2>1, <3>1 DEF LastOf
  <2>2. ASSUME NoneOf(K)', NEW j \in 1..(M + 1), j > 1 PROVE queue[j].kind \notin K
    <3>1. j - 1 \in 1..M /\ j = (j - 1) + 1
      BY <2>2
    <3> QED
      BY <1>2, <1>4, <2>2, <3>1 DEF NoneOf
  <2>3. 1 \in 1..Len(queue) /\ \A j \in 1..(M + 1) : j = 1 \/ j > 1
    BY <1>4
  <2>4. ASSUME NoneOf(K)', p.kind \in K PROVE LastOf(K, 1)
    BY <1>4, <1>5, <2>2, <2>4 DEF LastOf
  <2>5. ASSUME NoneOf(K)', p.kind \notin K PROVE NoneOf(K)
    BY <1>4, <1>5, <2>2, <2>3, <2>5 DEF NoneOf
  <2> QED
    BY <1>2, <2>1, <2>3, <2>4, <2>5
<1>10. ASSUME NEW x, MuteTold(x) PROVE MuteTold(x)'
  <2>1. \A i \in 1..Len(queue') : LastOf(MuteKinds, i)' => queue'[i].kind = x
    BY <1>9, <1>10 DEF MuteTold
  <2>2. ASSUME NoneOf(MuteKinds)' PROVE muted'[SinkChannel] <=> x = "mute"
    <3>1. CASE p.kind \in MuteKinds
      <4>1. p.kind = x
        BY <1>5, <1>9, <1>10, <2>2, <3>1 DEF MuteTold
      <4> QED
        BY <1>8, <3>1, <4>1
    <3>2. CASE p.kind \notin MuteKinds
      BY <1>8, <1>9, <1>10, <2>2, <3>2 DEF MuteTold
    <3> QED
      BY <3>1, <3>2
  <2> QED
    BY <2>1, <2>2 DEF MuteTold, SinkChannel
<1>11. ASSUME NEW v, ClockTold(v) PROVE ClockTold(v)'
  <2>1. \A i \in 1..Len(queue') : LastOf({"timestamp"}, i)' => queue'[i].value = v
    BY <1>9, <1>11 DEF ClockTold
  <2>2. ASSUME NoneOf({"timestamp"})' PROVE clock'[SinkChannel] = v
    <3>1. CASE p.kind = "timestamp"
      <4>1. p.value = v
        BY <1>5, <1>9, <1>11, <2>2, <3>1 DEF ClockTold
      <4> QED
        BY <1>8, <3>1, <4>1
    <3>2. CASE p.kind # "timestamp"
      BY <1>8, <1>9, <1>11, <2>2, <3>2 DEF ClockTold
    <3> QED
      BY <3>1, <3>2
  <2> QED
    BY <2>1, <2>2 DEF ClockTold, SinkChannel
<1> QED
  BY <1>8, <1>10, <1>11

\* A call of the application, whose script is s.
LEMMA ApplicationCall ==
  ASSUME SinkIInv, SendIInv', NEW s \in Seq(Elements), Call(application, s),
         {m_mute', m_send_timestamp', hasChannel', raced'} \subseteq BOOLEAN, m_pts_offset' \in Values,
         \A e \in {"unmute", "timestamp", "stamp", "clockSync", "clearStamp"} : ~Holds(s, e),
         state' = "PLAYING" \/ Holds(s, "goPlaying") => ~Holds(s, "mute"),
         Holds(s, "init") => state' = "NULL" /\ s = <<"init">>,
         Holds(s, "goPlaying") => state' # "NULL",
         state' = "NULL" \/ ~hasChannel' => script[streaming] = <<>>,
         state' # "NULL" /\ ~hasChannel' => m_send_timestamp',
         raced => raced',
         raced' \/ phase[streaming] = "idle" \/ UNCHANGED m_mute,
         raced' \/ phase[streaming] = "idle" \/ UNCHANGED m_pts_offset \/ Holds(s, "askStamp"),
         \/ ~hasChannel' \/ Holds(s, "setMute")
         \/ state' # "PLAYING" /\ ~Holds(s, "goPlaying")
         \/ hasChannel /\ Playing /\ UNCHANGED m_mute,
         \/ ~hasChannel' \/ Holds(s, "askStamp") \/ state' = "NULL"
         \/ hasChannel /\ state # "NULL" /\ UNCHANGED <<m_send_timestamp, m_pts_offset>>
  PROVE  SinkIInv'
<1>0. /\ SinkTypes /\ ScriptsServe /\ PacketsSay /\ MuteFollows /\ ClockFollows /\ SendTypes
      /\ application \in Clients /\ streaming \in Clients /\ application # streaming
  BY SinkAssumption DEF SinkIInv, SendIInv
<1>1. /\ script[application] = <<>> /\ script' = [script EXCEPT ![application] = s]
      /\ UNCHANGED <<queue, phase, packet, muted, clock, lost>>
  BY DEF Call, Runs, rendererVars, faultVars
<1>2. /\ script' \in [Clients -> Seq(Elements)] /\ script'[application] = s
      /\ \A c \in Clients : c # application => script'[c] = script[c]
      /\ phase[application] = "idle"
      /\ \A e : ~Holds(script[application], e)
  BY <1>0, <1>1, ShortScripts DEF SinkTypes, PacketsSay, Sinks
<1>3. SinkTypes'
  BY <1>0, <1>1, <1>2 DEF SinkTypes
<1>4. ScriptsServe'
  BY <1>0, <1>1, <1>2 DEF ScriptsServe, Sinks, Playing
<1>5. PacketsSay'
  <2>1. phase[streaming] # "idle" /\ ~raced' => ~raced /\ RightMute' = RightMute
    BY <1>0 DEF RightMute, SinkTypes
  <2>2. ASSUME phase[streaming] # "idle", ~raced', ~Holds(s, "askStamp")
        PROVE  UNCHANGED m_pts_offset /\ ~raced /\ ~Holds(script[application], "askStamp")
    BY <1>0, <1>2, <2>2 DEF SinkTypes
  <2> QED
    BY <1>0, <1>1, <1>2, <2>1, <2>2 DEF PacketsSay, Sinks, SinkChannel
<1>6. MuteFollows'
  <2> SUFFICES ASSUME hasChannel', ~raced', ~lost, Playing', ~Awaits("setMute")'
               PROVE  MuteTold(RightMute)'
    BY <1>1 DEF MuteFollows
  <2>1. ~Holds(s, "setMute") /\ ~Holds(script[streaming], "setMute")
        /\ (state' = "PLAYING" \/ Holds(s, "goPlaying"))
    BY <1>0, <1>2 DEF Awaits, Playing
  <2>2. hasChannel /\ Playing /\ UNCHANGED m_mute /\ ~raced
    BY <1>0, <2>1 DEF SinkTypes
  <2>3. MuteTold(RightMute)
    BY <1>0, <1>2, <2>1, <2>2 DEF MuteFollows, Awaits
  <2> QED
    BY <1>1, <2>2, <2>3 DEF MuteTold, LastOf, NoneOf, RightMute, SinkChannel
<1>7. ClockFollows'
  <2> SUFFICES ASSUME hasChannel', ~raced', ~lost, state' # "NULL", ~Awaits("askStamp")',
                      ~m_send_timestamp' \/ Begins(script[streaming], "clearStamp")
               PROVE  ClockTold(m_pts_offset)'
    BY <1>0, <1>1, <1>2 DEF ClockFollows
  <2>1. ~Holds(s, "askStamp") /\ ~Holds(script[streaming], "askStamp")
    BY <1>0, <1>2 DEF Awaits
  <2>2. hasChannel /\ state # "NULL" /\ UNCHANGED <<m_send_timestamp, m_pts_offset>> /\ ~raced
    BY <1>0, <2>1 DEF SinkTypes
  <2>3. ClockTold(m_pts_offset)
    BY <1>0, <1>2, <2>1, <2>2 DEF ClockFollows, Awaits
  <2> QED
    BY <1>1, <2>2, <2>3 DEF ClockTold, LastOf, NoneOf, SinkChannel
<1> QED
  BY <1>3, <1>4, <1>5, <1>6, <1>7 DEF SinkIInv

\* A call of the streaming thread.
LEMMA StreamingCall ==
  ASSUME SinkIInv, SendIInv', NEW s \in Seq(Elements), Call(streaming, s),
         UNCHANGED <<m_mute, m_pts_offset, m_send_timestamp, state, raced>>,
         state # "NULL", hasChannel', hasChannel \/ Holds(s, "setMute"),
         \A e \in {"mute", "unmute", "timestamp", "init", "goPlaying"} : ~Holds(s, e),
         ClearsAfterStamp(s), ~Begins(s, "clearStamp"), hasChannel' \in BOOLEAN
  PROVE  SinkIInv'
<1>0. /\ SinkTypes /\ ScriptsServe /\ PacketsSay /\ MuteFollows /\ ClockFollows /\ SendTypes
      /\ application \in Clients /\ streaming \in Clients /\ application # streaming
  BY SinkAssumption DEF SinkIInv, SendIInv
<1>1. /\ script[streaming] = <<>> /\ script' = [script EXCEPT ![streaming] = s]
      /\ UNCHANGED <<queue, phase, packet, muted, clock, lost>>
  BY DEF Call, Runs, rendererVars, faultVars
<1>2. /\ script' \in [Clients -> Seq(Elements)] /\ script'[streaming] = s
      /\ \A c \in Clients : c # streaming => script'[c] = script[c]
      /\ phase[streaming] = "idle"
      /\ \A e : ~Holds(script[streaming], e)
  BY <1>0, <1>1, ShortScripts DEF SinkTypes, PacketsSay, Sinks
<1>3. SinkTypes'
  BY <1>0, <1>1, <1>2 DEF SinkTypes
<1>4. ScriptsServe'
  BY <1>0, <1>1, <1>2 DEF ScriptsServe, Sinks, Playing
<1>5. PacketsSay'
  BY <1>0, <1>1, <1>2 DEF PacketsSay, Sinks, SinkChannel, RightMute
<1>6. MuteFollows'
  <2> SUFFICES ASSUME ~raced, ~lost, Playing', ~Awaits("setMute")'
               PROVE  MuteTold(RightMute)'
    BY <1>1 DEF MuteFollows
  <2>1. ~Holds(s, "setMute") /\ ~Holds(script[application], "setMute") /\ Playing
    BY <1>0, <1>2 DEF Awaits, Playing
  <2>2. MuteTold(RightMute)
    BY <1>0, <1>2, <2>1 DEF MuteFollows, Awaits
  <2> QED
    BY <1>1, <2>2 DEF MuteTold, LastOf, NoneOf, RightMute, SinkChannel
<1>7. ClockFollows'
  <2> SUFFICES ASSUME ~raced, ~lost, ~Awaits("askStamp")', ~m_send_timestamp
               PROVE  ClockTold(m_pts_offset)'
    BY <1>0, <1>1, <1>2 DEF ClockFollows
  <2>1. ~Holds(script[application], "askStamp") /\ hasChannel
    BY <1>0, <1>2 DEF Awaits, ScriptsServe
  <2>2. ClockTold(m_pts_offset)
    BY <1>0, <1>2, <2>1 DEF ClockFollows, Awaits
  <2> QED
    BY <1>1, <2>2 DEF ClockTold, LastOf, NoneOf, SinkChannel
<1> QED
  BY <1>3, <1>4, <1>5, <1>6, <1>7 DEF SinkIInv

LEMMA ChannelsScript ==
  ASSUME NEW s \in Seq(Elements)
  PROVE  IfChannel(s) \in Seq(Elements) /\ \A e : Holds(IfChannel(s), e) => Holds(s, e)
<1>1. CASE hasChannel
  BY <1>1 DEF IfChannel
<1>2. CASE ~hasChannel
  BY <1>2, ShortScripts, EmptySeq DEF IfChannel
<1> QED
  BY <1>1, <1>2

LEMMA SinkCalled ==
  ASSUME SinkIInv, SendIInv',
         \/ \E b \in BOOLEAN : SetMute(b)
         \/ \E v \in Offsets : SetPtsOffset(v)
         \/ SetAttributeValues \/ Start \/ Play \/ PauseSink \/ StopSink \/ Dispose
         \/ SetCaps \/ FlushStart \/ FlushStop \/ ClockSync \/ Render
  PROVE  SinkIInv'
<1>0. /\ SinkTypes /\ ScriptsServe /\ application \in Clients /\ streaming \in Clients
      /\ 0 \in Values
  BY SinkAssumption DEF SinkIInv, Values
<1> USE DEF Elements, Kinds
<1>1. ASSUME NEW b \in BOOLEAN, SetMute(b) PROVE SinkIInv'
  <2>1. /\ Call(application, <<"setMute">>) /\ m_mute' = b
        /\ raced' = (raced \/ ReadBefore)
        /\ UNCHANGED <<m_pts_offset, m_send_timestamp, hasChannel, state>>
    BY <1>1 DEF SetMute
  <2>2. <<"setMute">> \in Seq(Elements) /\ \A e : Holds(<<"setMute">>, e) <=> e = "setMute"
    BY ShortScripts
  <2>3. raced' \in BOOLEAN /\ (raced => raced') /\ (raced' \/ phase[streaming] = "idle")
    BY <1>0, <2>1 DEF SinkTypes, ReadBefore
  <2>4. {m_mute', m_send_timestamp', hasChannel', raced'} \subseteq BOOLEAN /\ m_pts_offset' \in Values
    BY <1>0, <2>1, <2>3 DEF SinkTypes
  <2>5. /\ \A e \in {"unmute", "timestamp", "stamp", "clockSync", "clearStamp", "mute", "init", "goPlaying"} :
             ~Holds(<<"setMute">>, e)
        /\ Holds(<<"setMute">>, "setMute")
    BY <2>2
  <2>6. /\ state = "NULL" \/ ~hasChannel => script[streaming] = <<>>
        /\ state # "NULL" /\ ~hasChannel => m_send_timestamp
    BY <1>0 DEF ScriptsServe
  <2>7. \/ ~hasChannel' \/ Holds(<<"setMute">>, "askStamp") \/ state' = "NULL"
        \/ hasChannel /\ state # "NULL" /\ UNCHANGED <<m_send_timestamp, m_pts_offset>>
    BY <2>1
  <2> QED
    BY <2>1, <2>2, <2>3, <2>4, <2>5, <2>6, <2>7, ApplicationCall
<1>2. ASSUME NEW v \in Offsets, SetPtsOffset(v) PROVE SinkIInv'
  <2>1. /\ Call(application, <<"askStamp">>) /\ m_pts_offset' \in Values
        /\ UNCHANGED <<m_mute, m_send_timestamp, hasChannel, state, raced>>
    BY <1>2 DEF SetPtsOffset, Offsets
  <2>2. <<"askStamp">> \in Seq(Elements) /\ \A e : Holds(<<"askStamp">>, e) <=> e = "askStamp"
    BY ShortScripts
  <2>3. script[application] = <<>> /\ ~Holds(script[application], "goPlaying")
    BY <2>1, ShortScripts DEF Call, Runs
  <2>4. {m_mute', m_send_timestamp', hasChannel', raced'} \subseteq BOOLEAN /\ m_pts_offset' \in Values
    BY <1>0, <2>1 DEF SinkTypes
  <2>5. /\ \A e \in {"unmute", "timestamp", "stamp", "clockSync", "clearStamp", "mute", "init", "goPlaying"} :
             ~Holds(<<"askStamp">>, e)
        /\ Holds(<<"askStamp">>, "askStamp")
    BY <2>2
  <2>6. /\ state = "NULL" \/ ~hasChannel => script[streaming] = <<>>
        /\ state # "NULL" /\ ~hasChannel => m_send_timestamp
        /\ state = "PLAYING" => Playing
    BY <1>0 DEF ScriptsServe, Playing
  <2> QED
    BY <2>1, <2>2, <2>4, <2>5, <2>6, ApplicationCall
<1>3. CASE SetAttributeValues
  <2> DEFINE s == IfChannel(<<"attributes">>)
  <2>1. Call(application, s) /\ UNCHANGED <<m_mute, m_pts_offset, m_send_timestamp, hasChannel, state, raced>>
    BY <1>3 DEF SetAttributeValues
  <2>2. s \in Seq(Elements) /\ \A e : Holds(s, e) => e = "attributes"
    <3>1. <<"attributes">> \in Seq(Elements) /\ \A e : Holds(<<"attributes">>, e) => e = "attributes"
      BY ShortScripts
    <3> QED
      BY <3>1, ChannelsScript
  <2>3. ~Holds(script[application], "goPlaying")
    BY <2>1, ShortScripts DEF Call, Runs
  <2> HIDE DEF s
  <2> QED
    BY <1>0, <2>1, <2>2, <2>3, ApplicationCall DEF SinkTypes, ScriptsServe, Playing
<1>4. CASE Start
  <2>1. /\ Call(application, <<"init">>) /\ state = "NULL"
        /\ UNCHANGED <<m_mute, m_pts_offset, m_send_timestamp, hasChannel, state, raced>>
    BY <1>4 DEF Start
  <2>2. <<"init">> \in Seq(Elements) /\ \A e : Holds(<<"init">>, e) <=> e = "init"
    BY ShortScripts
  <2> QED
    BY <1>0, <2>1, <2>2, ApplicationCall DEF SinkTypes, ScriptsServe
<1>5. CASE Play
  <2> DEFINE s == IF hasChannel THEN <<"resume", "setMute", "attributes", "goPlaying">>
                  ELSE <<"goPlaying">>
  <2>1. /\ Call(application, s) /\ state = "PAUSED"
        /\ UNCHANGED <<m_mute, m_pts_offset, m_send_timestamp, hasChannel, state, raced>>
    BY <1>5 DEF Play
  <2>2. /\ s \in Seq(Elements) /\ (hasChannel => Holds(s, "setMute"))
        /\ \A e : Holds(s, e) => e \in {"resume", "setMute", "attributes", "goPlaying"}
    <3>1. CASE hasChannel
      <4>1. s = <<"resume", "setMute", "attributes", "goPlaying">> /\ s \in Seq(Elements)
        BY <3>1
      <4> QED
        BY <4>1, ShortScripts
    <3>2. CASE ~hasChannel
      <4>1. s = <<"goPlaying">> /\ s \in Seq(Elements)
        BY <3>2
      <4> QED
        BY <3>2, <4>1, ShortScripts
    <3> QED
      BY <3>1, <3>2
  <2> HIDE DEF s
  <2>3. {m_mute', m_send_timestamp', hasChannel', raced'} \subseteq BOOLEAN /\ m_pts_offset' \in Values
    BY <1>0, <2>1 DEF SinkTypes
  <2>4. /\ \A e \in {"unmute", "timestamp", "stamp", "clockSync", "clearStamp", "mute", "init"} : ~Holds(s, e)
        /\ state' = "PAUSED" /\ state # "NULL"
    BY <2>1, <2>2
  <2>5. /\ ~hasChannel' => script[streaming] = <<>> /\ m_send_timestamp'
        /\ ~hasChannel' \/ Holds(s, "setMute")
    BY <1>0, <2>1, <2>2 DEF ScriptsServe
  <2> QED
    BY <2>1, <2>2, <2>3, <2>4, <2>5, ApplicationCall
<1>6. CASE PauseSink
  <2> DEFINE s == IfChannel(<<"mute", "pause">>)
  <2>1. /\ Call(application, s) /\ state = "PLAYING" /\ state' = "PAUSED"
        /\ UNCHANGED <<m_mute, m_pts_offset, m_send_timestamp, hasChannel, raced>>
    BY <1>6 DEF PauseSink
  <2>2. s \in Seq(Elements) /\ \A e : Holds(s, e) => e \in {"mute", "pause"}
    <3>1. <<"mute", "pause">> \in Seq(Elements) /\ \A e : Holds(<<"mute", "pause">>, e) => e \in {"mute", "pause"}
      BY ShortScripts
    <3> QED
      BY <3>1, ChannelsScript
  <2> HIDE DEF s
  <2>3. {m_mute', m_send_timestamp', hasChannel', raced'} \subseteq BOOLEAN /\ m_pts_offset' \in Values
    BY <1>0, <2>1 DEF SinkTypes
  <2>4. /\ \A e \in {"unmute", "timestamp", "stamp", "clockSync", "clearStamp", "goPlaying", "init"} : ~Holds(s, e)
        /\ state' = "PAUSED" /\ state # "NULL"
    BY <2>1, <2>2
  <2>5. /\ ~hasChannel' => script[streaming] = <<>> /\ m_send_timestamp'
        /\ hasChannel' = hasChannel
    BY <1>0, <2>1, <2>2 DEF ScriptsServe
  <2> QED
    BY <2>1, <2>2, <2>3, <2>4, <2>5, ApplicationCall
<1>7. CASE StopSink
  <2> DEFINE s == IfChannel(<<"resetChannel", "resetAll">>)
  <2>1. /\ Call(application, s) /\ state' = "NULL" /\ script[streaming] = <<>>
        /\ UNCHANGED <<m_mute, m_pts_offset, m_send_timestamp, hasChannel, raced>>
    BY <1>7 DEF StopSink
  <2>2. s \in Seq(Elements) /\ \A e : Holds(s, e) => e \in {"resetChannel", "resetAll"}
    <3>1. <<"resetChannel", "resetAll">> \in Seq(Elements) /\ \A e : Holds(<<"resetChannel", "resetAll">>, e) => e \in {"resetChannel", "resetAll"}
      BY ShortScripts
    <3> QED
      BY <3>1, ChannelsScript
  <2> HIDE DEF s
  <2>3. {m_mute', m_send_timestamp', hasChannel', raced'} \subseteq BOOLEAN /\ m_pts_offset' \in Values
    BY <1>0, <2>1 DEF SinkTypes
  <2>4. /\ \A e \in {"unmute", "timestamp", "stamp", "clockSync", "clearStamp", "goPlaying", "init", "mute"} :
             ~Holds(s, e)
        /\ state' = "NULL" /\ state' # "PLAYING"
    BY <2>1, <2>2
  <2> QED
    BY <2>1, <2>2, <2>3, <2>4, ApplicationCall
<1>8. CASE Dispose
  <2> DEFINE s == IfChannel(<<"resetAll">>)
  <2>1. /\ Call(application, s) /\ state = "NULL" /\ m_mute' = FALSE /\ m_pts_offset' = 0
        /\ m_send_timestamp' = FALSE /\ hasChannel' = FALSE /\ UNCHANGED <<state, raced>>
    BY <1>8 DEF Dispose
  <2>2. s \in Seq(Elements) /\ \A e : Holds(s, e) => e = "resetAll"
    <3>1. <<"resetAll">> \in Seq(Elements) /\ \A e : Holds(<<"resetAll">>, e) => e = "resetAll"
      BY ShortScripts
    <3> QED
      BY <3>1, ChannelsScript
  <2>3. script[streaming] = <<>> /\ phase[streaming] = "idle"
    BY <1>0, <2>1 DEF ScriptsServe, SinkIInv, SendIInv, PacketsSay, Sinks
  <2> HIDE DEF s
  <2> QED
    BY <1>0, <2>1, <2>2, <2>3, ApplicationCall DEF SinkTypes
<1>9. CASE SetCaps
  <2> DEFINE s == <<"resetAll", "select", "setMute", "attributes">>
  <2>1. /\ Call(streaming, s) /\ state # "NULL" /\ hasChannel' = TRUE
        /\ UNCHANGED <<m_mute, m_pts_offset, m_send_timestamp, state, raced>>
    BY <1>9 DEF SetCaps
  <2>2. /\ s \in Seq(Elements) /\ ~Begins(s, "clearStamp") /\ ClearsAfterStamp(s)
        /\ \A e : Holds(s, e) <=> e \in {"resetAll", "select", "setMute", "attributes"}
    <3>1. s \in Seq(Elements) /\ Head(s) = "resetAll"
      OBVIOUS
    <3>2. /\ Len(s) = 4 /\ 1..4 = {1, 2, 3, 4} /\ s[1] = "resetAll" /\ s[2] = "select"
          /\ s[3] = "setMute" /\ s[4] = "attributes"
      OBVIOUS
    <3>3. ClearsAfterStamp(s)
      <4> HIDE DEF s
      <4> QED
        BY <3>2 DEF ClearsAfterStamp
    <3> QED
      BY <3>1, <3>3, ShortScripts DEF Begins
  <2> HIDE DEF s
  <2> QED
    BY <2>1, <2>2, StreamingCall
<1>10. ASSUME NEW s \in Seq(Elements), Streams(s), ClearsAfterStamp(s), ~Begins(s, "clearStamp"),
              \A e \in {"mute", "unmute", "timestamp", "init", "goPlaying"} : ~Holds(s, e)
       PROVE  SinkIInv'
  BY <1>0, <1>10, StreamingCall DEF Streams, SinkTypes
<1>11. CASE FlushStart
  <2> DEFINE s == <<"resetChannel">>
  <2>1. s \in Seq(Elements) /\ Head(s) = "resetChannel" /\ Len(s) = 1 /\ 1..1 = {1} /\ s[1] = "resetChannel"
    OBVIOUS
  <2>2. ClearsAfterStamp(s)
    <3> HIDE DEF s
    <3> QED
      BY <2>1 DEF ClearsAfterStamp
  <2>3. \A e : Holds(s, e) <=> e = "resetChannel"
    BY ShortScripts
  <2>4. Streams(s)
    BY <1>11 DEF FlushStart
  <2> HIDE DEF s
  <2> QED
    BY <1>10, <2>1, <2>2, <2>3, <2>4 DEF Begins
<1>12. CASE FlushStop
  <2> DEFINE s == <<"select", "askStamp", "setMute", "attributes">>
  <2>1. /\ s \in Seq(Elements) /\ Head(s) = "select" /\ Len(s) = 4 /\ 1..4 = {1, 2, 3, 4}
        /\ s[1] = "select" /\ s[2] = "askStamp" /\ s[3] = "setMute" /\ s[4] = "attributes"
    OBVIOUS
  <2>2. ClearsAfterStamp(s)
    <3> HIDE DEF s
    <3> QED
      BY <2>1 DEF ClearsAfterStamp
  <2>3. \A e : Holds(s, e) <=> e \in {"select", "askStamp", "setMute", "attributes"}
    BY ShortScripts
  <2>4. Streams(s)
    BY <1>12 DEF FlushStop
  <2> HIDE DEF s
  <2> QED
    BY <1>10, <2>1, <2>2, <2>3, <2>4 DEF Begins
<1>13. CASE ClockSync
  <2> DEFINE s == <<"clockSync", "clearStamp">>
  <2>1. /\ s \in Seq(Elements) /\ Head(s) = "clockSync" /\ Len(s) = 2 /\ 1..2 = {1, 2}
        /\ s[1] = "clockSync" /\ s[2] = "clearStamp" /\ 2 - 1 = 1
    OBVIOUS
  <2>2. ClearsAfterStamp(s)
    <3> HIDE DEF s
    <3> QED
      BY <2>1 DEF ClearsAfterStamp
  <2>3. \A e : Holds(s, e) <=> e \in {"clockSync", "clearStamp"}
    BY ShortScripts
  <2>4. Streams(s)
    BY <1>13 DEF ClockSync
  <2> HIDE DEF s
  <2> QED
    BY <1>10, <2>1, <2>2, <2>3, <2>4 DEF Begins
<1>14. CASE Render
  <2> DEFINE s == <<"stamp", "clearStamp", "data">>
  <2>1. /\ s \in Seq(Elements) /\ Head(s) = "stamp" /\ Len(s) = 3 /\ 1..3 = {1, 2, 3}
        /\ s[1] = "stamp" /\ s[2] = "clearStamp" /\ s[3] = "data" /\ 2 - 1 = 1 /\ 1 + 1 = 2
    OBVIOUS
  <2>2. ClearsAfterStamp(s)
    <3> HIDE DEF s
    <3> QED
      BY <2>1 DEF ClearsAfterStamp
  <2>3. \A e : Holds(s, e) <=> e \in {"stamp", "clearStamp", "data"}
    BY ShortScripts
  <2>4. Streams(s)
    BY <1>14 DEF Render
  <2> HIDE DEF s
  <2> QED
    BY <1>10, <2>1, <2>2, <2>3, <2>4 DEF Begins
<1> QED
  BY <1>1, <1>2, <1>3, <1>4, <1>5, <1>6, <1>7, <1>8, <1>9, <1>11, <1>12, <1>13, <1>14

\* A packet is composed or numbered.
LEMMA SinkComposes ==
  ASSUME SinkIInv, SendIInv', UNCHANGED sinkVars, UNCHANGED <<queue, script, muted, clock, lost>>,
         NEW c \in Sinks,
         \A d \in Clients : d # c => phase'[d] = phase[d] /\ packet'[d] = packet[d],
         script[c] # <<>>, Head(script[c]) \in Kinds \union {"setMute", "stamp", "clockSync"},
         Head(script[c]) \in Kinds => packet'[c].kind = Head(script[c]),
         Head(script[c]) = "setMute" =>
           packet'[c].kind \in MuteKinds /\ (~raced => packet'[c].kind = RightMute),
         Head(script[c]) \in {"stamp", "clockSync"} =>
           /\ packet'[c].kind = "timestamp"
           /\ ~raced /\ ~Holds(script[application], "askStamp") => packet'[c].value = m_pts_offset
  PROVE  SinkIInv'
<1>0. SinkTypes /\ ScriptsServe /\ PacketsSay /\ MuteFollows /\ ClockFollows /\ Sinks \subseteq Clients
  BY SinkAssumption DEF SinkIInv, Sinks
<1> USE DEF sinkVars
<1>1. SinkTypes' /\ ScriptsServe'
  BY <1>0 DEF SinkTypes, ScriptsServe, Playing
<1>2. PacketsSay'
  BY <1>0 DEF PacketsSay, SinkChannel, RightMute
<1>3. MuteFollows'
  BY <1>0 DEF MuteFollows, Playing, Awaits, MuteTold, LastOf, NoneOf, RightMute, SinkChannel
<1>4. ClockFollows'
  BY <1>0 DEF ClockFollows, Awaits, ClockTold, LastOf, NoneOf, SinkChannel
<1> QED
  BY <1>1, <1>2, <1>3, <1>4 DEF SinkIInv

\* Something is done that sends nothing; s is what remains of the script.
LEMMA SinkDoes ==
  ASSUME SinkIInv, SendIInv', NEW c \in Sinks, NEW s \in Seq(Elements), script[c] # <<>>,
         phase[c] = "idle", script' = [script EXCEPT ![c] = s],
         UNCHANGED <<queue, phase, packet, muted, clock, lost, m_mute, m_pts_offset, hasChannel>>,
         {m_send_timestamp', raced'} \subseteq BOOLEAN, raced => raced',
         \A e : Holds(s, e) => Holds(script[c], e),
         c = streaming => ClearsAfterStamp(s),
         state' = "PLAYING" => Playing,
         Holds(script'[application], "init") => state' = "NULL" /\ script'[application] = <<"init">>,
         Holds(script'[application], "goPlaying") => state' # "NULL",
         state' = "NULL" => script'[streaming] = <<>>,
         state' # "NULL" /\ ~hasChannel => m_send_timestamp',
         raced' \/ phase[streaming] = "idle" \/ c = streaming
           \/ (Holds(script[c], "askStamp") => Holds(s, "askStamp")),
         ~hasChannel \/ (Holds(script[c], "setMute") => Holds(s, "setMute")),
         \/ raced' \/ ~hasChannel \/ state' = "NULL"
         \/ m_send_timestamp' /\ ~Begins(script'[streaming], "clearStamp")
         \/ /\ ~m_send_timestamp' \/ Begins(script'[streaming], "clearStamp")
                => ~m_send_timestamp \/ Begins(script[streaming], "clearStamp")
            /\ state # "NULL" /\ (Holds(script[c], "askStamp") => Holds(s, "askStamp"))
  PROVE  SinkIInv'
<1>0. /\ SinkTypes /\ ScriptsServe /\ PacketsSay /\ MuteFollows /\ ClockFollows
      /\ application \in Clients /\ streaming \in Clients /\ application # streaming
      /\ c = application \/ c = streaming
  BY SinkAssumption DEF SinkIInv, Sinks
<1>1. /\ script' \in [Clients -> Seq(Elements)] /\ script'[c] = s
      /\ \A d \in Clients : d # c => script'[d] = script[d]
      /\ \A d \in Clients : \A e : Holds(script'[d], e) => Holds(script[d], e)
  <2>1. script' \in [Clients -> Seq(Elements)] /\ script'[c] = s
        /\ \A d \in Clients : d # c => script'[d] = script[d]
    BY <1>0 DEF SinkTypes
  <2> QED
    BY <2>1
<1>2. SinkTypes'
  BY <1>0, <1>1 DEF SinkTypes
<1>3. Playing' => Playing
  BY <1>0, <1>1 DEF Playing
<1>4. ScriptsServe'
  <2>1. \A d \in Clients \ Sinks : script'[d] = <<>> /\ phase'[d] = "idle"
    BY <1>0, <1>1 DEF ScriptsServe
  <2>2. /\ \A e \in {"unmute", "timestamp", "stamp", "clockSync", "clearStamp"} :
             ~Holds(script'[application], e)
        /\ \A e \in {"mute", "unmute", "timestamp", "init", "goPlaying"} :
             ~Holds(script'[streaming], e)
        /\ ClearsAfterStamp(script'[streaming])
    BY <1>0, <1>1 DEF ScriptsServe
  <2>3. Playing' => ~Holds(script'[application], "mute")
    BY <1>0, <1>1, <1>3 DEF ScriptsServe
  <2>4. ~hasChannel => script'[streaming] = <<>>
    BY <1>0, <1>1 DEF ScriptsServe
  <2> QED
    BY <2>1, <2>2, <2>3, <2>4 DEF ScriptsServe, Sinks
<1>5. PacketsSay'
  <2>1. \A i \in 1..Len(queue) : queue[i].channel = SinkChannel
    BY <1>0 DEF PacketsSay
  <2>2. ASSUME NEW d \in Sinks, phase[d] # "idle"
        PROVE  /\ d # c /\ script'[d] = script[d] /\ script[d] # <<>>
               /\ Head(script[d]) \in Kinds \union {"setMute", "stamp", "clockSync"}
               /\ Head(script[d]) \in Kinds => packet[d].kind = Head(script[d])
               /\ Head(script[d]) = "setMute" =>
                    packet[d].kind \in MuteKinds /\ (~raced => packet[d].kind = RightMute)
               /\ Head(script[d]) \in {"stamp", "clockSync"} =>
                    /\ packet[d].kind = "timestamp"
                    /\ ~raced /\ ~Holds(script[application], "askStamp") =>
                         packet[d].value = m_pts_offset
    BY <1>0, <1>1, <2>2 DEF PacketsSay, Sinks
  <2>3. ASSUME NEW d \in Sinks, phase[d] # "idle", Head(script[d]) \in {"stamp", "clockSync"},
               ~raced', ~Holds(script'[application], "askStamp")
        PROVE  packet[d].value = m_pts_offset
    <3>1. Holds(script[d], "stamp") \/ Holds(script[d], "clockSync")
      BY <1>0, <2>2, <2>3, TailHolds DEF SinkTypes, Sinks
    <3>2. d = streaming /\ c = application
      BY <1>0, <2>2, <2>3, <3>1 DEF ScriptsServe, Sinks
    <3>3. ~Holds(script[application], "askStamp") /\ ~raced
      BY <1>0, <1>1, <2>3, <3>2 DEF SinkTypes
    <3> QED
      BY <2>2, <2>3, <3>3
  <2>4. ~raced' => ~raced
    BY <1>0 DEF SinkTypes
  <2> QED
    BY <2>1, <2>2, <2>3, <2>4 DEF PacketsSay, SinkChannel, RightMute
<1>6. MuteFollows'
  <2> SUFFICES ASSUME hasChannel, ~raced', ~lost, Playing', ~Awaits("setMute")'
               PROVE  MuteTold(RightMute)'
    BY DEF MuteFollows
  <2>1. ~Awaits("setMute") /\ ~raced
    BY <1>0, <1>1 DEF Awaits, SinkTypes
  <2>2. MuteTold(RightMute)
    BY <1>0, <1>3, <2>1 DEF MuteFollows
  <2> QED
    BY <2>2 DEF MuteTold, LastOf, NoneOf, RightMute, SinkChannel
<1>7. ClockFollows'
  <2> SUFFICES ASSUME hasChannel, ~raced', ~lost, state' # "NULL", ~Awaits("askStamp")',
                      ~m_send_timestamp' \/ Begins(script'[streaming], "clearStamp")
               PROVE  ClockTold(m_pts_offset)'
    BY DEF ClockFollows
  <2>1. /\ ~m_send_timestamp \/ Begins(script[streaming], "clearStamp")
        /\ state # "NULL" /\ (Holds(script[c], "askStamp") => Holds(s, "askStamp"))
    OBVIOUS
  <2>2. ~Awaits("askStamp") /\ ~raced
    BY <1>0, <1>1, <2>1 DEF Awaits, SinkTypes
  <2>3. ClockTold(m_pts_offset)
    BY <1>0, <2>1, <2>2 DEF ClockFollows
  <2> QED
    BY <2>3 DEF ClockTold, LastOf, NoneOf, SinkChannel
<1> QED
  BY <1>2, <1>4, <1>5, <1>6, <1>7 DEF SinkIInv

\* A client whose script begins with e.
LEMMA ScriptBegins ==
  ASSUME SinkIInv, NEW c \in Sinks, NEW e, Does(c, e)
  PROVE  /\ script[c] # <<>> /\ Head(script[c]) = e /\ phase[c] = "idle" /\ Holds(script[c], e)
         /\ script[c] \in Seq(Elements) /\ Tail(script[c]) \in Seq(Elements)
         /\ \A x : Holds(script[c], x) <=> x = e \/ Holds(Tail(script[c]), x)
         /\ c = streaming =>
              /\ ClearsAfterStamp(Tail(script[c])) /\ hasChannel /\ state # "NULL"
              /\ Begins(Tail(script[c]), "clearStamp") => e \in {"stamp", "clockSync"}
              /\ e = "stamp" => Begins(Tail(script[c]), "clearStamp")
<1>1. script[c] # <<>> /\ Head(script[c]) = e /\ phase[c] = "idle" /\ script[c] \in Seq(Elements)
  BY SinkAssumption DEF Does, SinkIInv, SinkTypes, Sinks
<1>2. c = streaming => ClearsAfterStamp(script[c]) /\ hasChannel /\ state # "NULL"
  BY <1>1 DEF SinkIInv, ScriptsServe, SinkTypes
<1> QED
  BY <1>1, <1>2, TailHolds

LEMMA SinkSends ==
  ASSUME SinkIInv, SendIInv', UNCHANGED sinkVars, NEW c \in Sinks, NEW e, NEW kind, NEW v,
         Composes(c, e, kind, v), e \in Kinds \union {"setMute", "stamp", "clockSync"},
         e \in Kinds => kind = e,
         e = "setMute" => kind = RightMute,
         e \in {"stamp", "clockSync"} => kind = "timestamp" /\ v = m_pts_offset
  PROVE  SinkIInv'
<1>1. /\ Does(c, e)
      /\ phase' = [phase EXCEPT ![c] = "lock"]
      /\ packet' = [packet EXCEPT ![c] =
           [kind |-> kind, channel |-> ChannelOf[c], counter |-> 0, value |-> v]]
      /\ UNCHANGED <<queue, script, muted, clock, lost>>
  BY DEF Composes, rendererVars, faultVars
<1>2. /\ \A d \in Clients : d # c => phase'[d] = phase[d] /\ packet'[d] = packet[d]
      /\ packet'[c].kind = kind /\ packet'[c].value = v
  BY <1>1, SinkAssumption DEF SinkIInv, SendIInv, SendTypes, Sinks
<1>3. script[c] # <<>> /\ Head(script[c]) = e
  BY <1>1 DEF Does
<1>4. RightMute \in MuteKinds
  BY DEF RightMute, MuteKinds
<1> QED
  BY <1>1, <1>2, <1>3, <1>4, SinkComposes

LEMMA SinkActed ==
  ASSUME SinkIInv, SendIInv', NEW c \in Sinks, SinkActs(c)
  PROVE  SinkIInv'
<1>0. /\ SinkTypes /\ ScriptsServe /\ PacketsSay /\ c \in Clients /\ (c = application \/ c = streaming)
      /\ application # streaming /\ application \in Clients /\ streaming \in Clients
  BY SinkAssumption DEF SinkIInv, Sinks
<1> DEFINE t == Tail(script[c])
<1>1. ASSUME Done(c)
      PROVE  /\ script' = [script EXCEPT ![c] = t] /\ script'[c] = t
             /\ \A d \in Clients : d # c => script'[d] = script[d]
  BY <1>0, <1>1 DEF Done, SinkTypes
<1>2. CASE ResolvesMute(c)
  <2>1. CASE hasChannel
    <3>1. Composes(c, "setMute", RightMute, 0) /\ UNCHANGED sinkVars
      BY <1>2, <2>1 DEF ResolvesMute, RightMute
    <3> QED
      BY <3>1, SinkSends DEF Kinds
  <2>2. CASE ~hasChannel
    <3>1. /\ Does(c, "setMute") /\ Done(c) /\ UNCHANGED sinkVars
          /\ UNCHANGED <<queue, phase, packet, muted, clock, lost>>
      BY <1>2, <2>2 DEF ResolvesMute, NoPacketMoves, rendererVars, faultVars
    <3>2. c = application
      BY <1>0, <2>2, <3>1, ScriptBegins
    <3>3. /\ t \in Seq(Elements) /\ script[c] # <<>> /\ phase[c] = "idle"
          /\ \A x : Holds(script[c], x) <=> x = "setMute" \/ Holds(t, x)
      BY <3>1, ScriptBegins
    <3>4. ~Holds(script[c], "init")
      BY <1>0, <3>1, <3>2, <3>3 DEF ScriptsServe, Does
    <3>5. /\ {m_send_timestamp', raced'} \subseteq BOOLEAN /\ (raced => raced')
          /\ state' = "PLAYING" => Playing
          /\ Holds(script'[application], "goPlaying") => state' # "NULL"
          /\ state' = "NULL" => script'[streaming] = <<>>
          /\ state' # "NULL" /\ ~hasChannel => m_send_timestamp'
      BY <1>0, <1>1, <3>1, <3>2, <3>3 DEF SinkTypes, ScriptsServe, Playing, sinkVars
    <3> QED
      BY <1>0, <1>1, <2>2, <3>1, <3>2, <3>3, <3>4, <3>5, SinkDoes DEF sinkVars
  <2> QED
    BY <2>1, <2>2
<1>3. CASE Stamps(c)
  <2>1. CASE m_send_timestamp
    <3>1. Composes(c, "stamp", "timestamp", m_pts_offset) /\ UNCHANGED sinkVars
      BY <1>3, <2>1 DEF Stamps
    <3> QED
      BY <3>1, SinkSends DEF Kinds
  <2>2. CASE ~m_send_timestamp
    <3>1. /\ Does(c, "stamp") /\ script' = [script EXCEPT ![c] = Tail(t)] /\ UNCHANGED sinkVars
          /\ UNCHANGED <<queue, phase, packet, muted, clock, lost>>
      BY <1>3, <2>2 DEF Stamps, NoPacketMoves, rendererVars, faultVars
    <3>2. c = streaming
      BY <1>0, <3>1, ScriptBegins DEF ScriptsServe
    <3>3. /\ t \in Seq(Elements) /\ script[c] # <<>> /\ phase[c] = "idle" /\ hasChannel /\ state # "NULL"
          /\ \A x : Holds(script[c], x) <=> x = "stamp" \/ Holds(t, x)
          /\ ClearsAfterStamp(t) /\ t # <<>> /\ Head(t) = "clearStamp"
      BY <3>1, <3>2, ScriptBegins DEF Begins
    <3>4. /\ Tail(t) \in Seq(Elements) /\ ClearsAfterStamp(Tail(t))
          /\ \A x : Holds(t, x) <=> x = "clearStamp" \/ Holds(Tail(t), x)
      <4> HIDE DEF t
      <4> QED
        BY <3>3, TailHolds
    <3>5. script'[application] = script[application]
      BY <1>0, <3>1, <3>2 DEF SinkTypes
    <3>6. /\ {m_send_timestamp', raced'} \subseteq BOOLEAN /\ (raced => raced')
          /\ state' = "PLAYING" => Playing
          /\ Holds(script'[application], "init") => state' = "NULL" /\ script'[application] = <<"init">>
          /\ Holds(script'[application], "goPlaying") => state' # "NULL"
      BY <1>0, <3>1, <3>5 DEF SinkTypes, ScriptsServe, Playing, sinkVars
    <3>7. \A x : (Holds(Tail(t), x) => Holds(script[c], x))
                /\ (Holds(script[c], x) /\ x \notin {"stamp", "clearStamp"} => Holds(Tail(t), x))
      BY <3>3, <3>4
    <3> HIDE DEF t
    <3> QED
      BY <1>0, <2>2, <3>1, <3>2, <3>3, <3>4, <3>6, <3>7, SinkDoes DEF sinkVars
  <2> QED
    BY <2>1, <2>2
<1>4. CASE Syncs(c)
  BY <1>4, SinkSends DEF Syncs, Kinds
<1>5. CASE AsksStamp(c, TRUE)
  <2>1. /\ Does(c, "askStamp") /\ Done(c) /\ m_send_timestamp' = TRUE
        /\ raced' = (raced \/ (c = application /\ ReadBefore))
        /\ UNCHANGED <<m_mute, m_pts_offset, hasChannel, state>>
        /\ UNCHANGED <<queue, phase, packet, muted, clock, lost>>
    BY <1>5 DEF AsksStamp, NoPacketMoves, rendererVars, faultVars
  <2>2. /\ t \in Seq(Elements) /\ script[c] # <<>> /\ phase[c] = "idle"
        /\ \A x : Holds(script[c], x) <=> x = "askStamp" \/ Holds(t, x)
        /\ c = streaming => ClearsAfterStamp(t) /\ ~Begins(t, "clearStamp")
    BY <2>1, ScriptBegins
  <2>3. {m_send_timestamp', raced'} \subseteq BOOLEAN /\ (raced => raced')
    BY <1>0, <2>1 DEF SinkTypes, ReadBefore
  <2>4. raced' \/ phase[streaming] = "idle" \/ c = streaming
    BY <1>0, <2>1, <2>3 DEF ReadBefore, SinkTypes
  <2>5. raced' \/ ~Begins(script'[streaming], "clearStamp")
    <3>1. CASE c = streaming
      BY <1>1, <2>1, <2>2, <3>1
    <3>2. CASE c = application
      BY <1>0, <1>1, <2>1, <2>3, <3>2 DEF ReadBefore, Begins, SinkTypes
    <3> QED
      BY <1>0, <3>1, <3>2
  <2>6. \A d \in Clients : \A x : Holds(script'[d], x) => Holds(script[d], x)
    BY <1>0, <1>1, <2>1, <2>2
  <2>7. Holds(script'[application], "init") => state' = "NULL" /\ script'[application] = <<"init">>
    <3>1. c = application => ~Holds(script[c], "init")
      BY <1>0, <2>1, <2>2 DEF ScriptsServe, Does
    <3> QED
      BY <1>0, <1>1, <2>1, <2>2, <3>1 DEF ScriptsServe
  <2>8. /\ state' = "PLAYING" => Playing
        /\ Holds(script'[application], "goPlaying") => state' # "NULL"
        /\ state' = "NULL" => script'[streaming] = <<>>
    BY <1>0, <1>1, <2>1, <2>2, <2>6 DEF ScriptsServe, Playing
  <2> HIDE DEF t
  <2> QED
    BY <1>0, <1>1, <2>1, <2>2, <2>3, <2>4, <2>5, <2>7, <2>8, SinkDoes
<1>6. CASE AsksStamp(c, FALSE)
  <2>1. /\ Does(c, "clearStamp") /\ Done(c) /\ m_send_timestamp' = FALSE
        /\ raced' = (raced \/ FALSE)
        /\ UNCHANGED <<m_mute, m_pts_offset, hasChannel, state>>
        /\ UNCHANGED <<queue, phase, packet, muted, clock, lost>>
    BY <1>6 DEF AsksStamp, NoPacketMoves, rendererVars, faultVars
  <2>2. c = streaming
    BY <1>0, <2>1, ScriptBegins DEF ScriptsServe
  <2>3. /\ t \in Seq(Elements) /\ script[c] # <<>> /\ phase[c] = "idle" /\ hasChannel /\ state # "NULL"
        /\ \A x : Holds(script[c], x) <=> x = "clearStamp" \/ Holds(t, x)
        /\ ClearsAfterStamp(t) /\ Begins(script[c], "clearStamp")
    BY <2>1, <2>2, ScriptBegins DEF Begins
  <2>4. {m_send_timestamp', raced'} \subseteq BOOLEAN /\ (raced => raced')
    BY <1>0, <2>1 DEF SinkTypes
  <2>5. /\ script'[application] = script[application]
        /\ state' = "PLAYING" => Playing
        /\ Holds(script'[application], "init") => state' = "NULL" /\ script'[application] = <<"init">>
        /\ Holds(script'[application], "goPlaying") => state' # "NULL"
    BY <1>0, <1>1, <2>1, <2>2 DEF ScriptsServe, Playing
  <2> HIDE DEF t
  <2> QED
    BY <1>0, <1>1, <2>1, <2>2, <2>3, <2>4, <2>5, SinkDoes
<1>7. CASE Starts(c)
  <2>1. /\ Does(c, "init") /\ Done(c) /\ m_send_timestamp' = TRUE
        /\ state' \in {"PAUSED", "NULL"}
        /\ UNCHANGED <<m_mute, m_pts_offset, hasChannel, raced>>
        /\ UNCHANGED <<queue, phase, packet, muted, clock, lost>>
    BY <1>7 DEF Starts, NoPacketMoves, rendererVars, faultVars
  <2>2. /\ t \in Seq(Elements) /\ script[c] # <<>> /\ phase[c] = "idle" /\ Holds(script[c], "init")
        /\ \A x : Holds(script[c], x) <=> x = "init" \/ Holds(t, x)
    BY <2>1, ScriptBegins
  <2>3. c = application /\ state = "NULL" /\ script[c] = <<"init">> /\ script[streaming] = <<>>
    BY <1>0, <2>2 DEF ScriptsServe
  <2>4. t = <<>> /\ \A x : ~Holds(t, x)
    BY <2>3, ShortScripts
  <2>5. {m_send_timestamp', raced'} \subseteq BOOLEAN /\ (raced => raced')
    BY <1>0, <2>1 DEF SinkTypes
  <2>6. script'[streaming] = <<>> /\ script'[application] = t /\ phase[streaming] = "idle"
        /\ ~Holds(script[c], "setMute")
    BY <1>0, <1>1, <2>1, <2>2, <2>3, <2>4 DEF PacketsSay, Sinks
  <2>7. ~Begins(script'[streaming], "clearStamp")
    BY <2>6 DEF Begins
  <2> HIDE DEF t
  <2> QED
    BY <1>0, <1>1, <2>1, <2>2, <2>3, <2>4, <2>5, <2>6, <2>7, SinkDoes
<1>8. CASE GoesPlaying(c)
  <2>1. /\ Does(c, "goPlaying") /\ Done(c) /\ state' = "PLAYING"
        /\ UNCHANGED <<m_mute, m_pts_offset, m_send_timestamp, hasChannel, raced>>
        /\ UNCHANGED <<queue, phase, packet, muted, clock, lost>>
    BY <1>8 DEF GoesPlaying, NoPacketMoves, rendererVars, faultVars
  <2>2. /\ t \in Seq(Elements) /\ script[c] # <<>> /\ phase[c] = "idle" /\ Holds(script[c], "goPlaying")
        /\ \A x : Holds(script[c], x) <=> x = "goPlaying" \/ Holds(t, x)
    BY <2>1, ScriptBegins
  <2>3. c = application /\ state # "NULL" /\ Playing
    BY <1>0, <2>2 DEF ScriptsServe, Playing
  <2>4. {m_send_timestamp', raced'} \subseteq BOOLEAN /\ (raced => raced')
    BY <1>0, <2>1 DEF SinkTypes
  <2>5. ~Holds(script'[application], "init")
    BY <1>0, <1>1, <2>1, <2>2, <2>3 DEF ScriptsServe
  <2>6. (~hasChannel => m_send_timestamp') /\ script'[streaming] = script[streaming]
    BY <1>0, <1>1, <2>1, <2>3 DEF ScriptsServe
  <2> HIDE DEF t
  <2> QED
    BY <1>0, <1>1, <2>1, <2>2, <2>3, <2>4, <2>5, <2>6, SinkDoes
<1> QED
  BY <1>2, <1>3, <1>4, <1>5, <1>6, <1>7, <1>8 DEF SinkActs

LEMMA SinkSent ==
  ASSUME SinkIInv, SendIInv', UNCHANGED sinkVars, NEW c \in Clients, SendPacket(c)
  PROVE  SinkIInv'
<1>0. /\ SinkTypes /\ ScriptsServe /\ PacketsSay /\ MuteFollows /\ ClockFollows /\ SendTypes
      /\ application \in Clients /\ streaming \in Clients /\ application # streaming
      /\ ChannelOf[application] = SinkChannel /\ ChannelOf[streaming] = SinkChannel
  BY SinkAssumption DEF SinkIInv, SendIInv, SinkChannel
<1> DEFINE p == packet[c]
<1> DEFINE t == Tail(script[c])
<1>1. /\ phase[c] = "push" /\ queue' = Append(queue, p)
      /\ phase' = [phase EXCEPT ![c] = "idle"] /\ packet' = [packet EXCEPT ![c] = NoPacket]
      /\ script' = [script EXCEPT ![c] = t] /\ UNCHANGED <<muted, clock, lost>>
      /\ UNCHANGED <<m_mute, m_pts_offset, m_send_timestamp, hasChannel, state, raced>>
  BY DEF SendPacket, Done, rendererVars, faultVars, sinkVars
<1>2. c \in Sinks /\ (c = application \/ c = streaming)
  BY <1>0, <1>1 DEF ScriptsServe, Sinks
<1>3. p \in Packets /\ p.channel = SinkChannel
  BY <1>0, <1>1, <1>2 DEF SendTypes
<1>4. /\ script[c] # <<>> /\ script[c] \in Seq(Elements)
      /\ Head(script[c]) \in Kinds \union {"setMute", "stamp", "clockSync"}
      /\ Head(script[c]) \in Kinds => p.kind = Head(script[c])
      /\ Head(script[c]) = "setMute" =>
           p.kind \in MuteKinds /\ (~raced => p.kind = RightMute)
      /\ Head(script[c]) \in {"stamp", "clockSync"} =>
           /\ p.kind = "timestamp"
           /\ ~raced /\ ~Holds(script[application], "askStamp") => p.value = m_pts_offset
  BY <1>0, <1>1, <1>2 DEF PacketsSay, SinkTypes
<1>5. /\ t \in Seq(Elements)
      /\ \A e : Holds(script[c], e) <=> Head(script[c]) = e \/ Holds(t, e)
      /\ ClearsAfterStamp(script[c]) =>
           /\ ClearsAfterStamp(t)
           /\ Begins(t, "clearStamp") => Head(script[c]) \in {"stamp", "clockSync"}
  BY <1>4, TailHolds
<1> HIDE DEF p, t
<1>6. /\ script' \in [Clients -> Seq(Elements)] /\ script'[c] = t
      /\ \A d \in Clients : d # c => script'[d] = script[d]
      /\ \A d \in Clients : \A e : Holds(script'[d], e) => Holds(script[d], e)
  <2>1. script' \in [Clients -> Seq(Elements)] /\ script'[c] = t
        /\ \A d \in Clients : d # c => script'[d] = script[d]
    BY <1>0, <1>1, <1>5 DEF SinkTypes
  <2> QED
    BY <1>5, <2>1
<1>7. \A d \in Clients : phase'[d] # "idle" => d # c /\ phase[d] # "idle" /\ packet'[d] = packet[d]
  BY <1>0, <1>1 DEF SendTypes
<1>8. Head(script[c]) \notin {"init", "askStamp"}
      /\ (Holds(script[c], "askStamp") => Holds(t, "askStamp"))
  BY <1>4, <1>5 DEF Kinds
<1>9. SinkTypes'
  BY <1>0, <1>1, <1>6 DEF SinkTypes
<1>10. Playing' => Playing
  BY <1>1, <1>0, <1>6 DEF Playing
<1>11. ScriptsServe'
  <2>1. \A d \in Clients \ Sinks : script'[d] = <<>> /\ phase'[d] = "idle"
    BY <1>0, <1>1, <1>2, <1>6, <1>7 DEF ScriptsServe
  <2>2. /\ \A e \in {"unmute", "timestamp", "stamp", "clockSync", "clearStamp"} :
             ~Holds(script'[application], e)
        /\ \A e \in {"mute", "unmute", "timestamp", "init", "goPlaying"} :
             ~Holds(script'[streaming], e)
    BY <1>0, <1>6 DEF ScriptsServe
  <2>3. ClearsAfterStamp(script'[streaming])
    <3>1. CASE c = streaming
      BY <1>0, <1>5, <1>6, <3>1 DEF ScriptsServe
    <3>2. CASE c # streaming
      BY <1>0, <1>6, <3>2 DEF ScriptsServe
    <3> QED
      BY <3>1, <3>2
  <2>4. Playing' => ~Holds(script'[application], "mute")
    BY <1>0, <1>6, <1>10 DEF ScriptsServe
  <2>5. Holds(script'[application], "init") => state = "NULL" /\ script'[application] = <<"init">>
    <3>1. c = application => ~Holds(script[application], "init")
      BY <1>0, <1>8 DEF ScriptsServe
    <3> QED
      BY <1>0, <1>6, <3>1 DEF ScriptsServe
  <2>6. Holds(script'[application], "goPlaying") => state # "NULL"
    BY <1>0, <1>6 DEF ScriptsServe
  <2>7. state = "NULL" \/ ~hasChannel => script'[streaming] = <<>>
    BY <1>0, <1>2, <1>4, <1>6 DEF ScriptsServe
  <2> QED
    BY <1>0, <1>1, <2>1, <2>2, <2>3, <2>4, <2>5, <2>6, <2>7 DEF ScriptsServe, Sinks
<1>12. /\ \A x : IF p.kind \in MuteKinds THEN p.kind = x => MuteTold(x)'
                 ELSE MuteTold(x) => MuteTold(x)'
       /\ \A v : IF p.kind = "timestamp" THEN p.value = v => ClockTold(v)'
                 ELSE ClockTold(v) => ClockTold(v)'
       /\ \A i \in 1..Len(queue') : queue'[i].channel = SinkChannel
  <2>1. \A i \in 1..Len(queue) : queue[i].channel = SinkChannel
    BY <1>0 DEF PacketsSay
  <2> QED
    BY <1>0, <1>1, <1>3, <2>1, LastAppended
<1>13. PacketsSay'
  <2>1. ASSUME NEW d \in Sinks, phase'[d] # "idle"
        PROVE  /\ script'[d] # <<>>
               /\ Head(script'[d]) \in Kinds \union {"setMute", "stamp", "clockSync"}
               /\ Head(script'[d]) \in Kinds => packet'[d].kind = Head(script'[d])
               /\ Head(script'[d]) = "setMute" =>
                    packet'[d].kind \in MuteKinds /\ (~raced => packet'[d].kind = RightMute)
               /\ Head(script'[d]) \in {"stamp", "clockSync"} =>
                    /\ packet'[d].kind = "timestamp"
                    /\ ~raced /\ ~Holds(script'[application], "askStamp") =>
                         packet'[d].value = m_pts_offset
    <3>1. d # c /\ phase[d] # "idle" /\ packet'[d] = packet[d] /\ script'[d] = script[d]
      BY <1>0, <1>6, <1>7, <2>1 DEF Sinks
    <3>2. ~Holds(script'[application], "askStamp") => ~Holds(script[application], "askStamp")
      BY <1>0, <1>6, <1>8
    <3> QED
      BY <1>0, <2>1, <3>1, <3>2 DEF PacketsSay
  <2> QED
    BY <1>1, <1>12, <2>1 DEF PacketsSay, SinkChannel, RightMute
<1>14. MuteFollows'
  <2> SUFFICES ASSUME hasChannel, ~raced, ~lost, Playing', ~Awaits("setMute")'
               PROVE  MuteTold(RightMute)'
    BY <1>1 DEF MuteFollows
  <2>1. ~Holds(script'[application], "setMute") /\ ~Holds(script'[streaming], "setMute")
    BY DEF Awaits
  <2>2. PICK x : x = RightMute
    OBVIOUS
  <2>3. MuteTold(x)'
    <3>1. CASE Head(script[c]) = "setMute"
      BY <1>4, <1>12, <2>2, <3>1
    <3>2. CASE Head(script[c]) # "setMute"
      <4>1. ~Awaits("setMute")
        BY <1>0, <1>2, <1>5, <1>6, <2>1, <3>2 DEF Awaits
      <4>2. MuteTold(x)
        BY <1>0, <1>10, <2>2, <4>1 DEF MuteFollows
      <4>3. Head(script[c]) \notin MuteKinds
        BY <1>0, <1>2, <1>5, <1>10 DEF ScriptsServe, MuteKinds
      <4>4. p.kind \notin MuteKinds
        BY <1>4, <3>2, <4>3 DEF MuteKinds
      <4> QED
        BY <1>12, <4>2, <4>4
    <3> QED
      BY <3>1, <3>2
  <2>4. RightMute' = x
    BY <1>1, <2>2 DEF RightMute
  <2> QED
    BY <2>3, <2>4 DEF MuteTold, LastOf, NoneOf, SinkChannel
<1>15. ClockFollows'
  <2> SUFFICES ASSUME hasChannel, ~raced, ~lost, state # "NULL", ~Awaits("askStamp")',
                      ~m_send_timestamp \/ Begins(script'[streaming], "clearStamp")
               PROVE  ClockTold(m_pts_offset)'
    BY <1>1 DEF ClockFollows
  <2>1. ~Awaits("askStamp") /\ ~Holds(script[application], "askStamp")
    <3>1. ~Holds(script'[application], "askStamp") /\ ~Holds(script'[streaming], "askStamp")
      BY DEF Awaits
    <3> QED
      BY <1>0, <1>2, <1>6, <1>8, <3>1 DEF Awaits
  <2>2. PICK v : v = m_pts_offset
    OBVIOUS
  <2>3. ClockTold(v)'
    <3>1. CASE Head(script[c]) \in {"stamp", "clockSync"}
      BY <1>4, <1>12, <2>1, <2>2, <3>1
    <3>2. CASE Head(script[c]) \notin {"stamp", "clockSync"}
      <4>1. Begins(script'[streaming], "clearStamp") => Begins(script[streaming], "clearStamp")
        <5>1. CASE c = streaming
          BY <1>0, <1>5, <1>6, <3>2, <5>1 DEF ScriptsServe
        <5>2. CASE c # streaming
          BY <1>0, <1>6, <5>2
        <5> QED
          BY <5>1, <5>2
      <4>2. ClockTold(v)
        BY <1>0, <2>1, <2>2, <4>1 DEF ClockFollows
      <4>3. Head(script[c]) # "timestamp"
        BY <1>0, <1>2, <1>5 DEF ScriptsServe
      <4>4. p.kind # "timestamp"
        BY <1>4, <3>2, <4>3 DEF MuteKinds
      <4> QED
        BY <1>12, <4>2, <4>4
    <3> QED
      BY <3>1, <3>2
  <2>4. m_pts_offset' = v
    BY <1>1, <2>2
  <2> QED
    BY <2>3, <2>4 DEF ClockTold, LastOf, NoneOf, SinkChannel
<1> QED
  BY <1>9, <1>11, <1>13, <1>14, <1>15 DEF SinkIInv

\* Once something is lost, only the types of what the renderer knows and the channel of
\* the packets matter.
LEMMA SinkLoses ==
  ASSUME SinkIInv, SendIInv', UNCHANGED sinkVars, UNCHANGED <<script, phase, packet>>, lost' = TRUE,
         muted' \in [Channels -> BOOLEAN], clock' \in [Channels -> Values],
         \A i \in 1..Len(queue') : queue'[i].channel = SinkChannel
  PROVE  SinkIInv'
<1>1. SinkTypes' /\ ScriptsServe'
  BY DEF SinkIInv, SinkTypes, ScriptsServe, Playing, sinkVars
<1>2. PacketsSay'
  BY DEF SinkIInv, PacketsSay, SinkChannel, RightMute, sinkVars
<1> QED
  BY <1>1, <1>2 DEF SinkIInv, MuteFollows, ClockFollows

LEMMA SinkWritten ==
  ASSUME SinkIInv, SendIInv', UNCHANGED sinkVars, SenderWrites
  PROVE  SinkIInv'
<1>0. /\ SinkTypes /\ ScriptsServe /\ PacketsSay /\ MuteFollows /\ ClockFollows /\ SendTypes
      /\ \A i \in 1..Len(queue) : queue[i].channel = SinkChannel
  BY DEF SinkIInv, SendIInv, PacketsSay
<1>1. /\ queue # <<>> /\ queue' = Tail(queue) /\ UNCHANGED <<script, phase, packet>>
      /\ \/ UNCHANGED <<muted, clock>> /\ lost' = TRUE
         \/ Renders(Head(queue)) /\ UNCHANGED lost
  BY DEF SenderWrites, WriteFails, WriteSucceeds, clientVars, rendererVars
<1>2. \A i \in 1..Len(queue') : queue'[i].channel = SinkChannel
  <2>1. /\ queue \in Seq(Packets) /\ Len(queue) \in Nat /\ Len(queue') = Len(queue) - 1
        /\ \A k \in 1..Len(queue') : queue'[k] = queue[k + 1]
    BY <1>0, <1>1, HeadTailProperties, LenProperties DEF SendTypes
  <2>2. \A k \in 1..Len(queue') : k + 1 \in 1..Len(queue)
    BY <2>1
  <2> QED
    BY <1>0, <2>1, <2>2
<1>3. CASE UNCHANGED <<muted, clock>> /\ lost' = TRUE
  BY <1>0, <1>1, <1>2, <1>3, SinkLoses DEF SinkTypes
<1>4. CASE Renders(Head(queue)) /\ UNCHANGED lost
  <2>1. /\ muted' \in [Channels -> BOOLEAN] /\ clock' \in [Channels -> Values]
        /\ \A x : MuteTold(x) => MuteTold(x)'
        /\ \A v : ClockTold(v) => ClockTold(v)'
    BY <1>0, <1>1, <1>4, LastRendered
  <2>2. SinkTypes' /\ ScriptsServe'
    BY <1>0, <1>1, <1>4, <2>1 DEF SinkTypes, ScriptsServe, Playing, sinkVars
  <2>3. PacketsSay'
    BY <1>0, <1>1, <1>2 DEF PacketsSay, SinkChannel, RightMute, sinkVars
  <2>4. MuteFollows'
    <3> SUFFICES ASSUME hasChannel, ~raced, ~lost, Playing, ~Awaits("setMute")
                 PROVE  MuteTold(RightMute)'
      BY <1>1, <1>4 DEF MuteFollows, Playing, Awaits, sinkVars
    <3>1. PICK x : x = RightMute
      OBVIOUS
    <3>2. MuteTold(x)'
      BY <1>0, <2>1, <3>1 DEF MuteFollows
    <3>3. RightMute' = x
      BY <3>1 DEF RightMute, sinkVars
    <3> QED
      BY <3>2, <3>3 DEF MuteTold, LastOf, NoneOf, SinkChannel
  <2>5. ClockFollows'
    <3> SUFFICES ASSUME hasChannel, ~raced, ~lost, state # "NULL", ~Awaits("askStamp"),
                        ~m_send_timestamp \/ Begins(script[streaming], "clearStamp")
                 PROVE  ClockTold(m_pts_offset)'
      BY <1>1, <1>4 DEF ClockFollows, Awaits, sinkVars
    <3>1. PICK v : v = m_pts_offset
      OBVIOUS
    <3>2. ClockTold(v)'
      BY <1>0, <2>1, <3>1 DEF ClockFollows
    <3>3. m_pts_offset' = v
      BY <3>1 DEF sinkVars
    <3> QED
      BY <3>2, <3>3 DEF ClockTold, LastOf, NoneOf, SinkChannel
  <2> QED
    BY <2>2, <2>3, <2>4, <2>5 DEF SinkIInv
<1> QED
  BY <1>1, <1>3, <1>4

LEMMA SinkStays ==
  ASSUME SinkIInv, SendIInv', UNCHANGED sinkVars,
         UNCHANGED <<queue, script, phase, packet, muted, clock, lost>>
  PROVE  SinkIInv'
<1>1. SinkTypes' /\ ScriptsServe'
  BY DEF SinkIInv, SinkTypes, ScriptsServe, Playing, sinkVars
<1>2. PacketsSay'
  BY DEF SinkIInv, PacketsSay, SinkChannel, RightMute, sinkVars
<1>3. MuteFollows'
  BY DEF SinkIInv, MuteFollows, Playing, Awaits, MuteTold, LastOf, NoneOf, RightMute, SinkChannel,
     sinkVars
<1>4. ClockFollows'
  BY DEF SinkIInv, ClockFollows, Awaits, ClockTold, LastOf, NoneOf, SinkChannel, sinkVars
<1> QED
  BY <1>1, <1>2, <1>3, <1>4 DEF SinkIInv

LEMMA SinkInitially ==
  SenderInit /\ SinkInit /\ script = [c \in Clients |-> <<>>] => SinkIInv
<1> SUFFICES ASSUME SenderInit, SinkInit, script = [c \in Clients |-> <<>>] PROVE SinkIInv
  OBVIOUS
<1>0. application \in Clients /\ streaming \in Clients /\ SinkChannel \in Channels
  BY SinkAssumption, SenderAssumption DEF SinkChannel
<1>1. script[application] = <<>> /\ script[streaming] = <<>> /\ \A c \in Clients : script[c] = <<>>
  BY <1>0
<1>2. SinkTypes
  <2>1. muted \in [Channels -> BOOLEAN] /\ clock \in [Channels -> Values]
    BY DEF SenderInit, Values
  <2>2. script \in [Clients -> Seq(Elements)]
    OBVIOUS
  <2>3. {m_mute, m_send_timestamp, hasChannel, raced, lost} \subseteq BOOLEAN
    BY DEF SinkInit, SenderInit
  <2>4. m_pts_offset \in Values
    BY DEF SinkInit, Values
  <2> QED
    BY <2>1, <2>2, <2>3, <2>4 DEF SinkTypes
<1>3. ScriptsServe
  <2>1. ClearsAfterStamp(<<>>)
    BY EmptySeq DEF ClearsAfterStamp
  <2> QED
    BY <1>0, <1>1, <2>1, ShortScripts DEF ScriptsServe, Playing, SinkInit, SenderInit
<1>4. PacketsSay
  BY <1>0, SinkAssumption, EmptySeq DEF PacketsSay, SenderInit, Sinks
<1> QED
  BY <1>2, <1>3, <1>4, SenderInitially DEF SinkIInv, MuteFollows, ClockFollows, SinkInit

LEMMA SinkInvariantStep ==
  ASSUME SinkIInv, [SinkNext]_<<senderVars, sinkVars>>
  PROVE  SinkIInv'
<1>0. SinkTypes /\ ScriptsServe /\ PacketsSay /\ SendTypes /\ SendIInv
  BY DEF SinkIInv, SendIInv
<1>1. SendIInv'
  <2>1. CASE UNCHANGED <<senderVars, sinkVars>>
    BY <1>0, <2>1, NothingSent DEF senderVars, sinkVars, clientVars
  <2>2. CASE SinkNext
    BY <1>0, <2>2, SinkStep DEF SinkTypes
  <2> QED
    BY <2>1, <2>2
<1>2. CASE \/ \E b \in BOOLEAN : SetMute(b)
           \/ \E v \in Offsets : SetPtsOffset(v)
           \/ SetAttributeValues \/ Start \/ Play \/ PauseSink \/ StopSink \/ Dispose
           \/ SetCaps \/ FlushStart \/ FlushStop \/ ClockSync \/ Render
  BY <1>1, <1>2, SinkCalled
<1>3. CASE \E c \in Sinks : SinkActs(c)
  BY <1>1, <1>3, SinkActed
<1>4. CASE UNCHANGED <<senderVars, sinkVars>>
  BY <1>1, <1>4, SinkStays DEF senderVars, clientVars, rendererVars, faultVars
<1>5. CASE SenderNext /\ UNCHANGED sinkVars
  <2>1. CASE \E c \in Clients : SendPacket(c)
    BY <1>1, <1>5, <2>1, SinkSent
  <2>2. CASE SenderWrites
    BY <1>1, <1>5, <2>2, SinkWritten
  <2>3. CASE \E c \in Clients : Compose(c) \/ TakeChannel(c)
    <3>1. PICK c \in Clients : Compose(c) \/ TakeChannel(c)
      BY <2>3
    <3>2. CASE Compose(c)
      <4>1. PICK kind \in Kinds : Composes(c, kind, kind, 0)
        BY <3>2 DEF Compose
      <4>2. c \in Sinks
        BY <1>0, <4>1 DEF ScriptsServe, Composes, Does
      <4> QED
        BY <1>1, <1>5, <4>1, <4>2, SinkSends DEF Kinds
    <3>3. CASE TakeChannel(c)
      <4>1. /\ phase[c] = "lock" /\ phase' = [phase EXCEPT ![c] = "push"]
            /\ UNCHANGED <<queue, script, muted, clock, lost>>
        BY <3>3 DEF TakeChannel, rendererVars, faultVars
      <4>2. PICK n : packet' = [packet EXCEPT ![c].counter = n]
        BY <3>3 DEF TakeChannel, Numbered
      <4>3. c \in Sinks /\ packet[c] \in Packets
        BY <1>0, <4>1 DEF ScriptsServe, SendTypes
      <4>4. packet'[c].kind = packet[c].kind /\ packet'[c].value = packet[c].value
        BY <1>0, <4>2, <4>3 DEF SendTypes, Packets
      <4>5. \A d \in Clients : d # c => phase'[d] = phase[d] /\ packet'[d] = packet[d]
        BY <1>0, <4>1, <4>2 DEF SendTypes
      <4>6. /\ script[c] # <<>>
            /\ Head(script[c]) \in Kinds \union {"setMute", "stamp", "clockSync"}
            /\ Head(script[c]) \in Kinds => packet'[c].kind = Head(script[c])
            /\ Head(script[c]) = "setMute" =>
                 packet'[c].kind \in MuteKinds /\ (~raced => packet'[c].kind = RightMute)
            /\ Head(script[c]) \in {"stamp", "clockSync"} =>
                 /\ packet'[c].kind = "timestamp"
                 /\ ~raced /\ ~Holds(script[application], "askStamp") =>
                      packet'[c].value = m_pts_offset
        BY <1>0, <4>1, <4>3, <4>4 DEF PacketsSay
      <4> QED
        BY <1>1, <1>5, <4>1, <4>3, <4>5, <4>6, SinkComposes
    <3> QED
      BY <3>1, <3>2, <3>3
  <2>4. CASE RendererStops
    <3>1. /\ UNCHANGED <<queue, script, phase, packet>> /\ lost' = TRUE
          /\ muted' \in [Channels -> BOOLEAN] /\ clock' \in [Channels -> Values]
      BY <2>4 DEF RendererStops, clientVars, Values
    <3>2. \A i \in 1..Len(queue') : queue'[i].channel = SinkChannel
      BY <1>0, <3>1 DEF PacketsSay
    <3> QED
      BY <1>1, <1>5, <3>1, <3>2, SinkLoses
  <2>5. CASE RendererStarts \/ SenderLocks \/ SenderRuns \/ SenderWaits \/ SenderWakes \/ SenderChecks
             \/ CloseBegins \/ CloseNotifies \/ CloseJoins
    <3>1. UNCHANGED <<queue, script, phase, packet, muted, clock, lost>>
      BY <2>5 DEF RendererStarts, SenderLocks, SenderRuns, SenderWaits, SenderWakes, SenderChecks,
         CloseBegins, CloseNotifies, CloseJoins, clientVars, rendererVars, faultVars
    <3> QED
      BY <1>1, <1>5, <3>1, SinkStays
  <2> QED
    BY <1>5, <2>1, <2>2, <2>3, <2>4, <2>5 DEF SenderNext, senderTask, Sends
<1> QED
  BY <1>2, <1>3, <1>4, <1>5 DEF SinkNext

\* gstsubtecsink.cpp:190-217, 248-255, 281-309, 603-617: when all that was sent has been
\* rendered, the renderer of a playing sink is muted exactly if the property says so, and
\* when no timestamp is asked for its clock has the offset in force, whatever the two
\* threads did in which order; but for a change while the value before it was being sent.
THEOREM SubtitlesShownAsSet ==
  SubtecSpec => []SubtecFollows
<1>1. SinkIInv => SubtecFollows
  <2> SUFFICES ASSUME SinkIInv, Quiet, hasChannel, ~raced
               PROVE  /\ state = "PLAYING" => muted[SinkChannel] = m_mute
                      /\ state # "NULL" /\ ~m_send_timestamp => clock[SinkChannel] = m_pts_offset
    BY DEF SubtecFollows, SinkChannel
  <2>0. application \in Clients /\ streaming \in Clients /\ SinkChannel \in Channels
    BY SinkAssumption, SenderAssumption DEF SinkChannel
  <2>1. ~lost /\ script[application] = <<>> /\ script[streaming] = <<>> /\ Len(queue) = 0
    BY <2>0, EmptySeq DEF Quiet
  <2>2. NoneOf(MuteKinds) /\ NoneOf({"timestamp"}) /\ ~Awaits("setMute") /\ ~Awaits("askStamp")
    BY <2>1, ShortScripts DEF NoneOf, Awaits
  <2>3. muted[SinkChannel] \in BOOLEAN /\ m_mute \in BOOLEAN
    BY <2>0 DEF SinkIInv, SinkTypes
  <2>4. ASSUME state = "PLAYING" PROVE muted[SinkChannel] = m_mute
    <3>1. MuteTold(RightMute)
      BY <2>1, <2>2, <2>4 DEF SinkIInv, MuteFollows, Playing
    <3>2. muted[SinkChannel] <=> RightMute = "mute"
      BY <2>2, <3>1 DEF MuteTold
    <3> QED
      BY <2>3, <3>2 DEF RightMute
  <2>5. ASSUME state # "NULL", ~m_send_timestamp PROVE clock[SinkChannel] = m_pts_offset
    BY <2>1, <2>2, <2>5 DEF SinkIInv, ClockFollows, ClockTold
  <2> QED
    BY <2>4, <2>5
<1> QED
  BY <1>1, SinkInitially, SinkInvariantStep, PTL DEF SubtecSpec
=============================================================================
