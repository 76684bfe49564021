----------------------- MODULE GstHandlerControl_proofs -----------------------
(***************************************************************************)
(* The count of GstHandlerControl is exact, and nothing runs after a        *)
(* waitForDone that returned true, for any set of callbacks and waiters.    *)
(* Then the callbacks of the elements of the pipeline: the application is   *)
(* told of the first frame once, and hears of underflows, on each platform. *)
(***************************************************************************)
EXTENDS GstHandlerControl, PlayerElements, FiniteSetTheorems, SequenceTheorems, TLAPS

\* Why NothingAfterDone is inductive: since waitForDone the callbacks have been
\* disabled, so that one counted later leaves without entering its body.
Quiet == done => ~mEnabled /\ \A h \in Handlers : handler[h] # "body"

IInv == TypeOK /\ CountIsExact /\ Quiet

\* A callback that enters or leaves changes the number of those inside by one.
LEMMA InsideIsFinite == TypeOK => IsFiniteSet(Inside)
<1>1. Inside \subseteq Handlers
  BY DEF Inside
<1> QED
  BY <1>1, HandlersAssumption, FS_Subset

LEMMA StepTypes == TypeOK /\ CountIsExact /\ [Next]_vars => TypeOK'
<1> SUFFICES ASSUME TypeOK, CountIsExact, [Next]_vars PROVE TypeOK'
  OBVIOUS
<1> USE DEF TypeOK
<1>1. ASSUME NEW h \in Handlers, getScopeHelper(h) PROVE TypeOK'
  BY <1>1 DEF getScopeHelper, HandlerGoes
<1>2. ASSUME NEW h \in Handlers, returnStraightAway(h) PROVE TypeOK'
  BY <1>2 DEF returnStraightAway, HandlerGoes
<1>3. ASSUME NEW h \in Handlers, BodyEnds(h) PROVE TypeOK'
  BY <1>3 DEF BodyEnds, HandlerGoes
<1>4. ASSUME NEW h \in Handlers, handlerEnd(h) PROVE TypeOK'
  BY <1>4 DEF handlerEnd, HandlerGoes, Sleeping
<1>5. ASSUME NEW w \in Waiters, enable(w) PROVE TypeOK'
  BY <1>5 DEF enable
<1>6. ASSUME NEW w \in Waiters, disable(w) \/ waitBegins(w) PROVE TypeOK'
  BY <1>6 DEF disable, waitBegins
<1>7. ASSUME NEW w \in Waiters, waitUntil(w) PROVE TypeOK'
  BY <1>7 DEF waitUntil
<1>8. ASSUME NEW w \in Waiters, waitForDone(w) PROVE TypeOK'
  BY <1>8 DEF waitForDone
<1>9. ASSUME NEW w \in Waiters, Expire(w) PROVE TypeOK'
  BY <1>9 DEF Expire
<1>10. ASSUME NEW w \in Waiters, SpuriousWake(w) PROVE TypeOK'
  BY <1>10 DEF SpuriousWake
<1>11. CASE UNCHANGED vars
  BY <1>11 DEF vars
<1> QED
  BY <1>1, <1>2, <1>3, <1>4, <1>5, <1>6, <1>7, <1>8, <1>9, <1>10, <1>11
     DEF Next, Handler, Waiter

LEMMA StepCount == TypeOK /\ CountIsExact /\ [Next]_vars => CountIsExact'
<1> SUFFICES ASSUME TypeOK, CountIsExact, [Next]_vars PROVE CountIsExact'
  OBVIOUS
<1>0. IsFiniteSet(Inside)
  BY InsideIsFinite
<1>1. ASSUME NEW h \in Handlers, getScopeHelper(h) PROVE CountIsExact'
  <2>1. h \notin Inside /\ Inside' = Inside \union {h}
    BY <1>1 DEF getScopeHelper, HandlerGoes, Inside, TypeOK
  <2>2. Cardinality(Inside \union {h}) = Cardinality(Inside) + 1
    BY <1>0, <2>1, FS_AddElement
  <2> QED
    BY <1>1, <2>1, <2>2 DEF getScopeHelper, CountIsExact
<1>2. ASSUME NEW h \in Handlers, handlerEnd(h) PROVE CountIsExact'
  <2>1. h \in Inside /\ Inside' = Inside \ {h}
    BY <1>2 DEF handlerEnd, HandlerGoes, Inside, TypeOK
  <2>2. Cardinality(Inside \ {h}) = Cardinality(Inside) - 1
    BY <1>0, <2>1, FS_RemoveElement
  <2>3. Cardinality(Inside \ {h}) \in Nat /\ Cardinality(Inside) \in Nat
    BY <1>0, FS_RemoveElement, FS_CardinalityType
  <2> HIDE DEF Inside
  <2> QED
    BY <1>2, <2>1, <2>2, <2>3 DEF handlerEnd, CountIsExact
<1>3. ASSUME NEW h \in Handlers, returnStraightAway(h) \/ BodyEnds(h) PROVE CountIsExact'
  <2>1. Inside' = Inside
    BY <1>3 DEF returnStraightAway, BodyEnds, HandlerGoes, Inside, TypeOK
  <2> QED
    BY <1>3, <2>1 DEF returnStraightAway, BodyEnds, CountIsExact
<1>4. ASSUME UNCHANGED <<mInstanceCount, handler>> PROVE CountIsExact'
  BY <1>4 DEF CountIsExact, Inside
<1>5. ASSUME NEW w \in Waiters, Waiter(w) PROVE CountIsExact'
  <2>1. UNCHANGED <<mInstanceCount, handler>>
    BY <1>5 DEF Waiter, enable, disable, waitBegins, waitUntil, waitForDone, Expire, SpuriousWake
  <2> QED
    BY <2>1, <1>4
<1>6. CASE UNCHANGED vars
  <2>1. UNCHANGED <<mInstanceCount, handler>>
    BY <1>6 DEF vars
  <2> QED
    BY <2>1, <1>4
<1> QED
  BY <1>1, <1>2, <1>3, <1>5, <1>6 DEF Next, Handler

\* A count of zero means that nobody is inside, hence nobody in a body.
LEMMA ZeroMeansOutside ==
  ASSUME TypeOK, CountIsExact, mInstanceCount = 0
  PROVE  \A h \in Handlers : handler[h] = "out"
<1>1. Inside = {}
  BY InsideIsFinite, FS_EmptySet DEF CountIsExact
<1> QED
  BY <1>1 DEF Inside

LEMMA StepQuiet == IInv /\ [Next]_vars => Quiet'
<1> SUFFICES ASSUME IInv, [Next]_vars PROVE Quiet'
  OBVIOUS
<1> USE DEF IInv, Quiet
<1>1. ASSUME NEW h \in Handlers, getScopeHelper(h) PROVE Quiet'
  BY <1>1 DEF getScopeHelper, HandlerGoes, TypeOK
<1>2. ASSUME NEW h \in Handlers, returnStraightAway(h) PROVE Quiet'
  BY <1>2 DEF returnStraightAway, HandlerGoes, TypeOK
<1>3. ASSUME NEW h \in Handlers, BodyEnds(h) PROVE Quiet'
  BY <1>3 DEF BodyEnds, HandlerGoes, TypeOK
<1>4. ASSUME NEW h \in Handlers, handlerEnd(h) PROVE Quiet'
  BY <1>4 DEF handlerEnd, HandlerGoes, TypeOK
<1>5. ASSUME NEW w \in Waiters, enable(w) PROVE Quiet'
  BY <1>5 DEF enable
<1>6. ASSUME NEW w \in Waiters, disable(w) \/ waitBegins(w) PROVE Quiet'
  BY <1>6 DEF disable, waitBegins
<1>7. ASSUME NEW w \in Waiters, waitForDone(w) PROVE Quiet'
  <2>1. CASE mInstanceCount = 0 /\ ~mEnabled
    <3>1. \A h \in Handlers : handler[h] # "body"
      BY <2>1, ZeroMeansOutside
    <3> QED
      BY <1>7, <2>1, <3>1 DEF waitForDone
  <2>2. CASE ~(mInstanceCount = 0 /\ ~mEnabled)
    BY <1>7, <2>2 DEF waitForDone
  <2> QED
    BY <2>1, <2>2
<1>8. ASSUME NEW w \in Waiters, waitUntil(w) \/ Expire(w) \/ SpuriousWake(w) PROVE Quiet'
  BY <1>8 DEF waitUntil, Expire, SpuriousWake
<1>9. CASE UNCHANGED vars
  BY <1>9 DEF vars
<1> QED
  BY <1>1, <1>2, <1>3, <1>4, <1>5, <1>6, <1>7, <1>8, <1>9 DEF Next, Handler, Waiter

LEMMA InvariantHolds == Spec => []IInv
<1>1. Init => IInv
  <2> SUFFICES ASSUME Init PROVE IInv
    OBVIOUS
  <2>1. Inside = {}
    BY DEF Init, Inside
  <2>2. Cardinality(Inside) = 0
    BY <2>1, FS_EmptySet
  <2> QED
    BY <2>2 DEF Init, IInv, TypeOK, CountIsExact, Quiet
<1>2. IInv /\ [Next]_vars => IInv'
  BY StepTypes, StepCount, StepQuiet DEF IInv
<1> QED
  BY <1>1, <1>2, PTL DEF Spec

\* mInstanceCount is at all times the number of callbacks between
\* getScopeHelper and handlerEnd, so the correction of lines 40-44 never acts.
THEOREM CountAlwaysExact == Spec => []CountIsExact
<1>1. IInv => CountIsExact
  BY DEF IInv
<1> QED
  BY InvariantHolds, <1>1, PTL

\* From a waitForDone that returned true until enable no callback guarded by
\* HANDLER_CONTROL_HELPER is in its body.
THEOREM NothingRunsAfterDone == Spec => []NothingAfterDone
<1>1. IInv => NothingAfterDone
  BY DEF IInv, Quiet, NothingAfterDone
<1> QED
  BY InvariantHolds, <1>1, PTL
-----------------------------------------------------------------------------
(* The elements of the pipeline.                                           *)

Underflow == "buffer-underflow-callback"
AudioFrames == {"first-audio-frame-callback", "first-audio-frame"}
Signals == {Underflow, "first-video-frame-callback"} \union AudioFrames
Names ==
  {"westerossink", "rialtomsevideosink", "rialtomseaudiosink", "omxh264dec", "omxaacdec",
   "rtkv1sink", "rtkaudiosink", "brcmvideodecoder", "brcmvideosink", "brcmaudiodecoder",
   "brcmaudiosink", "amlhalasink", "autovideosink", "autoaudiosink"}
Refs == (Names \union {"pipeline"}) \X Nat
Messages == [of : Refs, state : {"READY", "PAUSED", "PLAYING"}]
ElementRecords ==
  [name : Names, stream : {VideoBin, AudioBin}, generation : Nat,
   stage : {"NULL", "READY", "PAUSED", "SHOWN"}]

ElementTypes ==
  /\ platform \in Platforms
  /\ socWesteros \in BOOLEAN /\ westeros \in BOOLEAN /\ rialto \in BOOLEAN
  /\ pipeline \in {"none", "READY", "PAUSED", "PLAYING"}
  /\ stopping \in BOOLEAN /\ asyncOn \in BOOLEAN /\ syncOn \in BOOLEAN
  /\ late \in BOOLEAN /\ kept \in BOOLEAN
  /\ firstVideo \in BOOLEAN /\ firstAudio \in BOOLEAN /\ firstFrame \in BOOLEAN
  /\ elements \subseteq ElementRecords /\ generation \in Nat
  /\ busQueue \in Seq(Messages) /\ callbacks \subseteq Refs \X Signals
  /\ streams \subseteq {VideoBin, AudioBin} /\ tracks \in Nat

\* The bus has its handlers while there is a pipeline that Stop is not at, and the
\* streams have the elements of the sinks in use.
SinksInUse ==
  /\ westeros => socWesteros
  /\ stopping => pipeline # "none"
  /\ syncOn <=> pipeline # "none" /\ ~stopping
  /\ asyncOn <=> syncOn
  /\ pipeline = "none" => elements = {} /\ callbacks = {} /\ streams = {}
  /\ pipeline # "none" =>
       /\ <<westeros, rialto>> \in SinkChoices
       /\ streams # {} /\ tracks >= 1
  /\ \A e \in elements : e.name \in ElementsOf(e.stream)
  /\ \A s \in streams : \A n \in ElementsOf(s) : \E e \in elements : e.stream = s /\ e.name = n

Queued(ref, state) ==
  \E i \in 1..Len(busQueue) : busQueue[i].of = ref /\ busQueue[i].state = state

\* What is connected to an element once the main loop has handled it.
NeedsUnderflow(name) == ConnectsErrors(name) \/ name \in Rialto

\* An element that left NULL has its callbacks, but for that of underflows while
\* its message is on the bus; and it has no others.
Connected ==
  /\ callbacks # {} => callbacksOn
  /\ \A c \in callbacks : c[2] \in {Underflow} \union FirstFrameCallback(c[1][1])
  /\ ~stopping => \A e \in elements : e.stage # "NULL" =>
       /\ \A c \in FirstFrameCallback(e.name) : <<Ref(e), c>> \in callbacks
       /\ NeedsUnderflow(e.name) =>
            <<Ref(e), Underflow>> \in callbacks \/ Queued(Ref(e), "READY")

\* A playback of audio alone is told of by the first sample, unless the flag is
\* left from before.
AudioTold ==
  ~late /\ ~kept => IF pipeline = "none" \/ stopping THEN ~firstAudio
                    ELSE tracks = 1 /\ firstAudio => firstFrame

\* An element that has shown its first frame has told, and so has the pipeline
\* that plays, once its message is handled.
FramesTold ==
  ~stopping =>
    /\ \A e \in elements : e.stage = "SHOWN" =>
         /\ "first-video-frame-callback" \in FirstFrameCallback(e.name) => firstFrame
         /\ FirstFrameCallback(e.name) \intersect AudioFrames # {} /\ tracks = 1 => firstFrame
    /\ pipeline = "PLAYING" => \/ Queued(<<"pipeline", 0>>, "PLAYING")
                               \/ /\ rialto \/ socInterface.simulatorFirstFrame => firstFrame
                                  /\ /\ socInterface.asksAudioBin /\ streams = {AudioBin}
                                     /\ tracks = 1 /\ ~late /\ ~kept
                                     => firstFrame

ToldOnce == told = IF firstFrame THEN 1 ELSE 0

ElementsIInv ==
  ElementTypes /\ SinksInUse /\ Connected /\ AudioTold /\ FramesTold /\ ToldOnce

-----------------------------------------------------------------------------
LEMMA KindsOfPlatforms ==
  platform \in Platforms =>
    \/ platform = "amlogic" /\ socInterface = AmlogicSocInterface
    \/ platform = "realtek" /\ socInterface = RealtekSocInterface
    \/ platform = "brcm" /\ socInterface = BrcmSocInterface
    \/ platform = "default" /\ socInterface = DefaultSocInterface
  BY ElementsAssumption DEF socInterface

\* What is said of names depends on the platform and the sinks in use only.
LEMMA SinksSame ==
  ASSUME UNCHANGED <<platform, configVars>>
  PROVE  /\ socInterface' = socInterface
         /\ \A s : ElementsOf(s)' = ElementsOf(s)
         /\ \A n : FirstFrameCallback(n)' = FirstFrameCallback(n)
         /\ \A n : NeedsUnderflow(n)' <=> NeedsUnderflow(n)
         /\ SinkChoices' = SinkChoices
<1> USE DEF configVars
<1>1. socInterface' = socInterface
  BY DEF socInterface, AmlogicSocInterface, RealtekSocInterface, BrcmSocInterface, DefaultSocInterface
<1>2. \A s : ElementsOf(s)' = ElementsOf(s)
  BY DEF ElementsOf, VideoElements, AudioElements
<1>3. \A n : FirstFrameCallback(n)' = FirstFrameCallback(n)
  BY <1>1 DEF FirstFrameCallback, Decoders, VideoDecoders
<1>4. \A n : NeedsUnderflow(n)' <=> NeedsUnderflow(n)
  BY <1>1 DEF NeedsUnderflow, ConnectsErrors, Decoders, VideoSinks
<1>5. SinkChoices' = SinkChoices
  BY DEF SinkChoices
<1> QED
  BY <1>1, <1>2, <1>3, <1>4, <1>5

\* The elements of new streams, which are those of the sinks in use.
NewElementsKnown ==
  platform \in Platforms =>
    \A ss \in SUBSET {VideoBin, AudioBin} : \A g \in Nat :
      /\ NewElements(ss, g) \subseteq ElementRecords
      /\ \A e \in NewElements(ss, g) :
            e.stage = "NULL" /\ e.stream \in ss /\ e.name \in ElementsOf(e.stream)
      /\ \A s \in ss : \A n \in ElementsOf(s) :
            \E e \in NewElements(ss, g) : e.stream = s /\ e.name = n

LEMMA NewElementsAre == NewElementsKnown
<1> SUFFICES ASSUME platform \in Platforms, NEW ss \in SUBSET {VideoBin, AudioBin}, NEW g \in Nat
             PROVE  /\ NewElements(ss, g) \subseteq ElementRecords
                    /\ \A e \in NewElements(ss, g) :
                          e.stage = "NULL" /\ e.stream \in ss /\ e.name \in ElementsOf(e.stream)
                    /\ \A s \in ss : \A n \in ElementsOf(s) :
                          \E e \in NewElements(ss, g) : e.stream = s /\ e.name = n
  BY DEF NewElementsKnown
<1>1. VideoElements \subseteq Names
  <2>1. \/ VideoElements = {"rialtomsevideosink"}
        \/ VideoElements = {"omxh264dec", "westerossink"}
        \/ VideoElements = {"omxh264dec", "rtkv1sink"}
        \/ VideoElements = {"brcmvideodecoder", "brcmvideosink"}
        \/ VideoElements = {"westerossink"}
        \/ VideoElements = {"autovideosink"}
    BY ElementsAssumption DEF VideoElements
  <2> QED
    BY <2>1 DEF Names
<1>a. AudioElements \subseteq Names
  <2>1. \/ AudioElements = {"rialtomseaudiosink"}
        \/ AudioElements = {"omxaacdec", "rtkaudiosink"}
        \/ AudioElements = {"brcmaudiodecoder", "brcmaudiosink"}
        \/ AudioElements = {"amlhalasink"}
        \/ AudioElements = {"autoaudiosink"}
    BY ElementsAssumption DEF AudioElements
  <2> QED
    BY <2>1 DEF Names
<1>2. \A s \in ss : ElementsOf(s) \subseteq Names
  BY <1>1, <1>a DEF ElementsOf
<1>3. \A e : e \in NewElements(ss, g) <=>
        \E s \in ss : \E n \in ElementsOf(s) :
          e = [name |-> n, stream |-> s, generation |-> g, stage |-> "NULL"]
  BY DEF NewElements
<1>4. ASSUME NEW e \in NewElements(ss, g)
      PROVE  /\ e \in ElementRecords
             /\ e.stage = "NULL" /\ e.stream \in ss /\ e.name \in ElementsOf(e.stream)
  <2>1. PICK s \in ss : \E n \in ElementsOf(s) :
          e = [name |-> n, stream |-> s, generation |-> g, stage |-> "NULL"]
    BY <1>3
  <2>2. PICK n \in ElementsOf(s) :
          e = [name |-> n, stream |-> s, generation |-> g, stage |-> "NULL"]
    BY <2>1
  <2>3. n \in Names /\ s \in {VideoBin, AudioBin}
    BY <1>2
  <2> QED
    BY <2>2, <2>3 DEF ElementRecords
<1>5. ASSUME NEW s \in ss, NEW n \in ElementsOf(s)
      PROVE  \E e \in NewElements(ss, g) : e.stream = s /\ e.name = n
  <2>1. [name |-> n, stream |-> s, generation |-> g, stage |-> "NULL"] \in NewElements(ss, g)
    BY <1>3
  <2> QED
    BY <2>1
<1> QED
  BY <1>4, <1>5

LEMMA CallbackKinds ==
  ASSUME NEW n
  PROVE  /\ Underflow \notin FirstFrameCallback(n)
         /\ FirstFrameCallback(n) \subseteq {"first-video-frame-callback"} \union AudioFrames
         /\ "first-video-frame-callback" \in FirstFrameCallback(n) =>
               FirstFrameCallback(n) = {"first-video-frame-callback"}
  BY DEF FirstFrameCallback, Only, Underflow, AudioFrames

LEMMA PostKeeps ==
  ASSUME ElementTypes, NEW m \in Messages, busQueue' = Append(busQueue, m)
  PROVE  /\ busQueue' \in Seq(Messages) /\ Queued(m.of, m.state)'
         /\ \A r, s : Queued(r, s) => Queued(r, s)'
<1>1. busQueue \in Seq(Messages) /\ Len(busQueue) \in Nat
  BY LenProperties DEF ElementTypes
<1>2. /\ busQueue' \in Seq(Messages) /\ Len(busQueue') = Len(busQueue) + 1
      /\ \A i \in 1..Len(busQueue) : busQueue'[i] = busQueue[i]
      /\ busQueue'[Len(busQueue) + 1] = m
  BY <1>1, AppendProperties
<1>3. ASSUME NEW r, NEW s, Queued(r, s) PROVE Queued(r, s)'
  <2>1. PICK i \in 1..Len(busQueue) : busQueue[i].of = r /\ busQueue[i].state = s
    BY <1>3 DEF Queued
  <2>2. i \in 1..Len(busQueue') /\ busQueue'[i] = busQueue[i]
    BY <1>1, <1>2
  <2> QED
    BY <2>1, <2>2 DEF Queued
<1>4. Queued(m.of, m.state)'
  <2>1. Len(busQueue) + 1 \in 1..Len(busQueue')
    BY <1>1, <1>2
  <2> QED
    BY <1>2, <2>1 DEF Queued
<1> QED
  BY <1>2, <1>3, <1>4

LEMMA TakeKeeps ==
  ASSUME ElementTypes, busQueue # <<>>, busQueue' = Tail(busQueue)
  PROVE  /\ busQueue' \in Seq(Messages) /\ Head(busQueue) \in Messages
         /\ \A r, s : Queued(r, s) =>
              Queued(r, s)' \/ (Head(busQueue).of = r /\ Head(busQueue).state = s)
<1>1. busQueue \in Seq(Messages) /\ Len(busQueue) \in Nat \ {0}
  BY LenProperties, EmptySeq DEF ElementTypes
<1>2. /\ Head(busQueue) \in Messages /\ Head(busQueue) = busQueue[1]
      /\ busQueue' \in Seq(Messages) /\ Len(busQueue') = Len(busQueue) - 1
      /\ \A i \in 1..Len(busQueue') : busQueue'[i] = busQueue[i + 1]
  BY <1>1, HeadTailProperties
<1>3. ASSUME NEW r, NEW s, Queued(r, s)
      PROVE  Queued(r, s)' \/ (Head(busQueue).of = r /\ Head(busQueue).state = s)
  <2>1. PICK i \in 1..Len(busQueue) : busQueue[i].of = r /\ busQueue[i].state = s
    BY <1>3 DEF Queued
  <2>2. CASE i = 1
    BY <1>2, <2>1, <2>2
  <2>3. CASE i # 1
    <3>1. i - 1 \in 1..Len(busQueue') /\ busQueue'[i - 1] = busQueue[i]
      BY <1>1, <1>2, <2>3
    <3> QED
      BY <2>1, <3>1 DEF Queued
  <2> QED
    BY <2>2, <2>3
<1> QED
  BY <1>2, <1>3

LEMMA Notifies ==
  ASSUME ElementTypes, ToldOnce, NEW v \in BOOLEAN, NEW a \in BOOLEAN, NotifyFirstFrame(v, a)
  PROVE  /\ firstVideo' = v /\ firstAudio' = a /\ firstFrame' \in BOOLEAN /\ ToldOnce'
         /\ firstFrame => firstFrame'
         /\ v \/ (tracks = 1 /\ a) => firstFrame'
<1>1. firstFrame \in BOOLEAN
  BY DEF ElementTypes
<1>2. CASE ~firstFrame /\ (v \/ (tracks = 1 /\ a))
  <2>1. firstFrame' = TRUE /\ told' = told + 1 /\ firstVideo' = v /\ firstAudio' = a
    BY <1>2 DEF NotifyFirstFrame
  <2>2. told = 0
    BY <1>2 DEF ToldOnce
  <2> QED
    BY <2>1, <2>2 DEF ToldOnce
<1>3. CASE ~(~firstFrame /\ (v \/ (tracks = 1 /\ a)))
  <2>1. UNCHANGED <<firstFrame, told>> /\ firstVideo' = v /\ firstAudio' = a
    BY <1>3 DEF NotifyFirstFrame
  <2> QED
    BY <1>1, <1>3, <2>1 DEF ToldOnce
<1> QED
  BY <1>2, <1>3

LEMMA ElementsInitially == ElementsInit => ElementsIInv
<1> SUFFICES ASSUME ElementsInit PROVE ElementsIInv
  OBVIOUS
<1> USE DEF ElementsInit
<1>1. ElementTypes
  BY EmptySeq DEF ElementTypes
<1>2. SinksInUse
  BY DEF SinksInUse
<1>3. Connected
  BY DEF Connected
<1>4. AudioTold /\ FramesTold /\ ToldOnce
  BY DEF AudioTold, FramesTold, ToldOnce
<1> QED
  BY <1>1, <1>2, <1>3, <1>4 DEF ElementsIInv

LEMMA ConfigureKeeps ==
  ASSUME ElementsIInv, NEW c \in SinkChoices, NEW ss \in SUBSET {VideoBin, AudioBin}, ss # {},
         NEW pause \in BOOLEAN, Configure(c[1], c[2], ss, pause)
  PROVE  ElementsIInv'
<1>0. ElementTypes /\ SinksInUse /\ Connected /\ AudioTold /\ FramesTold /\ ToldOnce
  BY DEF ElementsIInv
<1>1. /\ pipeline = "none" /\ ~stopping /\ pipeline' = "READY" /\ busQueue' = <<>>
      /\ syncOn' = TRUE /\ asyncOn' = TRUE /\ streams' = ss /\ tracks' = Cardinality(ss)
      /\ UNCHANGED <<platform, callbacksOn, callbacks, firstVideo, firstAudio, firstFrame, told,
                     stopping, late, kept>>
  BY DEF Configure, flagVars, stopVars
<1>2. PICK g \in Nat : g = generation + 1
  BY <1>0 DEF ElementTypes
<1>3. generation' = g /\ elements' = NewElements(ss, g)'
  BY <1>2 DEF Configure
<1>4. c[1] \in BOOLEAN /\ c[2] \in BOOLEAN /\ c = <<c[1], c[2]>>
  <2>1. c = <<FALSE, TRUE>> \/ c = <<TRUE, FALSE>> \/ c = <<FALSE, FALSE>>
    BY DEF SinkChoices
  <2>2. CASE c = <<FALSE, TRUE>>
    BY <2>2
  <2>3. CASE c = <<TRUE, FALSE>>
    BY <2>3
  <2>4. CASE c = <<FALSE, FALSE>>
    BY <2>4
  <2> QED
    BY <2>1, <2>2, <2>3, <2>4
<1>5. westeros' = c[1] /\ rialto' = c[2] /\ socWesteros' = (socWesteros \/ c[1])
  BY DEF Configure
<1>6. platform' \in Platforms
  BY <1>0, <1>1 DEF ElementTypes
<1>7. (/\ NewElements(ss, g) \subseteq ElementRecords
       /\ \A e \in NewElements(ss, g) :
            e.stage = "NULL" /\ e.stream \in ss /\ e.name \in ElementsOf(e.stream)
       /\ \A s \in ss : \A n \in ElementsOf(s) :
            \E e \in NewElements(ss, g) : e.stream = s /\ e.name = n)'
  <2>1. NewElementsKnown'
    BY NewElementsAre, PTL
  <2> QED
    BY <1>6, <2>1 DEF NewElementsKnown
<1>8. /\ elements' \subseteq ElementRecords
      /\ \A e \in elements' : e.stage = "NULL" /\ e.stream \in ss /\ e.name \in ElementsOf(e.stream)'
      /\ \A s \in ss : \A n \in ElementsOf(s)' : \E e \in elements' : e.stream = s /\ e.name = n
  BY <1>3, <1>7
<1>9. tracks' \in Nat /\ tracks' >= 1
  <2>1. IsFiniteSet({VideoBin, AudioBin})
    <3>1. {VideoBin, AudioBin} = {VideoBin} \union {AudioBin}
      OBVIOUS
    <3>2. IsFiniteSet({VideoBin})
      BY FS_Singleton
    <3>3. IsFiniteSet({VideoBin} \union {AudioBin})
      BY <3>2, FS_AddElement
    <3> QED
      BY <3>1, <3>3
  <2>2. IsFiniteSet(ss) /\ Cardinality(ss) \in Nat
    BY <2>1, FS_Subset, FS_CardinalityType
  <2>3. Cardinality(ss) # 0
    BY <2>2, FS_EmptySet
  <2> QED
    BY <1>1, <2>2, <2>3
<1>10. ElementTypes'
  <2>1. socWesteros' \in BOOLEAN /\ westeros' \in BOOLEAN /\ rialto' \in BOOLEAN
    BY <1>0, <1>4, <1>5 DEF ElementTypes
  <2>2. busQueue' \in Seq(Messages)
    BY <1>1, EmptySeq
  <2> QED
    BY <1>0, <1>1, <1>3, <1>8, <1>9, <2>1, <2>2 DEF ElementTypes
<1>11. SinksInUse'
  <2>1. SinkChoices' = SinkChoices
    BY <1>1 DEF SinkChoices
  <2>2. <<westeros', rialto'>> \in SinkChoices'
    BY <1>4, <1>5, <2>1
  <2>3. westeros' => socWesteros'
    BY <1>5
  <2>4. syncOn' <=> pipeline' # "none" /\ ~stopping'
    BY <1>1
  <2>5. asyncOn' <=> syncOn'
    BY <1>1
  <2> QED
    BY <1>1, <1>8, <1>9, <2>2, <2>3, <2>4, <2>5 DEF SinksInUse
<1>12. Connected'
  <2>1. callbacks' = {}
    BY <1>0, <1>1 DEF SinksInUse
  <2> QED
    BY <1>8, <2>1 DEF Connected
<1>13. AudioTold'
  BY <1>0, <1>1 DEF AudioTold
<1>14. FramesTold'
  BY <1>1, <1>8 DEF FramesTold
<1>15. ToldOnce'
  BY <1>0, <1>1 DEF ToldOnce
<1> QED
  BY <1>10, <1>11, <1>12, <1>13, <1>14, <1>15 DEF ElementsIInv

LEMMA ChangeFormatKeeps ==
  ASSUME ElementsIInv, NEW s \in {VideoBin, AudioBin}, ChangeFormat(s)
  PROVE  ElementsIInv'
<1>0. ElementTypes /\ SinksInUse /\ Connected /\ AudioTold /\ FramesTold /\ ToldOnce
  BY DEF ElementsIInv
<1>1. /\ pipeline # "none" /\ ~stopping /\ s \in streams
      /\ tracks' = tracks + 1 /\ generation' = generation + 1
      /\ UNCHANGED <<platform, configVars, pipeline, busQueue, controlVars, callbacks, flagVars,
                     streams, stopVars>>
  BY DEF ChangeFormat
<1> USE DEF controlVars, flagVars, stopVars
<1>2. PICK g \in Nat : g = generation + 1
  BY <1>0 DEF ElementTypes
<1>3. elements' = {e \in elements : e.stream # s} \union NewElements({s}, g)
  BY <1>2 DEF ChangeFormat
<1>4. /\ socInterface' = socInterface
      /\ \A st : ElementsOf(st)' = ElementsOf(st)
      /\ \A n : FirstFrameCallback(n)' = FirstFrameCallback(n)
      /\ \A n : NeedsUnderflow(n)' <=> NeedsUnderflow(n)
      /\ SinkChoices' = SinkChoices
  BY <1>1, SinksSame
<1>5. platform \in Platforms /\ {s} \in SUBSET {VideoBin, AudioBin}
  BY <1>0 DEF ElementTypes
<1>6. /\ NewElements({s}, g) \subseteq ElementRecords
      /\ \A e \in NewElements({s}, g) :
           e.stage = "NULL" /\ e.stream = s /\ e.name \in ElementsOf(e.stream)
      /\ \A n \in ElementsOf(s) : \E e \in NewElements({s}, g) : e.stream = s /\ e.name = n
  BY <1>5, NewElementsAre DEF NewElementsKnown
<1>7. tracks \in Nat /\ tracks >= 1 /\ tracks' \in Nat /\ tracks' >= 1 /\ tracks' # 1
  BY <1>0, <1>1 DEF ElementTypes, SinksInUse
<1>8. \A e \in elements' : e \in elements \/ e.stage = "NULL"
  BY <1>3, <1>6
<1>9. ElementTypes'
  <2>1. elements' \subseteq ElementRecords /\ generation' \in Nat
    BY <1>0, <1>1, <1>2, <1>3, <1>6 DEF ElementTypes
  <2> QED
    BY <1>0, <1>1, <1>7, <2>1 DEF ElementTypes, configVars
<1>10. SinksInUse'
  <2>1. \A e \in elements' : e.name \in ElementsOf(e.stream)'
    BY <1>0, <1>3, <1>4, <1>6 DEF SinksInUse
  <2>2. ASSUME NEW st \in streams', NEW n \in ElementsOf(st)'
        PROVE  \E e \in elements' : e.stream = st /\ e.name = n
    <3>1. CASE st = s
      BY <1>3, <1>4, <1>6, <2>2, <3>1
    <3>2. CASE st # s
      <4>1. PICK e \in elements : e.stream = st /\ e.name = n
        BY <1>0, <1>1, <1>4, <2>2 DEF SinksInUse
      <4> QED
        BY <1>3, <3>2, <4>1
    <3> QED
      BY <3>1, <3>2
  <2>3. <<westeros', rialto'>> \in SinkChoices' /\ streams' # {}
    BY <1>0, <1>1, <1>4 DEF SinksInUse, configVars
  <2> QED
    BY <1>0, <1>1, <1>7, <2>1, <2>2, <2>3 DEF SinksInUse, configVars
<1>11. Connected'
  <2>1. UNCHANGED <<callbacks, callbacksOn, busQueue, stopping>>
    BY <1>1
  <2>2. \A ref, state : Queued(ref, state)' <=> Queued(ref, state)
    BY <2>1 DEF Queued
  <2> QED
    BY <1>0, <1>4, <1>8, <2>1, <2>2 DEF Connected, Ref
<1>12. AudioTold'
  BY <1>0, <1>1, <1>7 DEF AudioTold
<1>13. FramesTold'
  <2>1. UNCHANGED <<firstFrame, busQueue, stopping, pipeline, rialto>>
    BY <1>1 DEF configVars
  <2>2. Queued(<<"pipeline", 0>>, "PLAYING")' <=> Queued(<<"pipeline", 0>>, "PLAYING")
    BY <2>1 DEF Queued
  <2> QED
    BY <1>0, <1>4, <1>7, <1>8, <2>1, <2>2 DEF FramesTold
<1>14. ToldOnce'
  BY <1>0, <1>1 DEF ToldOnce
<1> QED
  BY <1>9, <1>10, <1>11, <1>12, <1>13, <1>14 DEF ElementsIInv

\* An element goes to another state, and is the same otherwise.
LEMMA StageChanges ==
  ASSUME ElementTypes, SinksInUse, NEW e \in elements, NEW st \in {"READY", "PAUSED", "SHOWN"},
         elements' = (elements \ {e}) \union {[e EXCEPT !.stage = st]},
         UNCHANGED <<platform, configVars, pipeline, streams, tracks, stopping, syncOn, asyncOn>>
  PROVE  /\ elements' \subseteq ElementRecords /\ SinksInUse' /\ pipeline # "none"
         /\ e.name \in Names /\ Ref(e) \in Refs
         /\ \A d \in elements' :
              d \in elements \/ (d.name = e.name /\ Ref(d) = Ref(e) /\ d.stage = st)
<1>1. PICK f : f = [e EXCEPT !.stage = st]
  OBVIOUS
<1>2. e \in ElementRecords
  BY DEF ElementTypes
<1>3. /\ f \in ElementRecords /\ f.stage = st
      /\ f.name = e.name /\ f.stream = e.stream /\ f.generation = e.generation
  BY <1>1, <1>2 DEF ElementRecords
<1>4. elements' = (elements \ {e}) \union {f}
  BY <1>1
<1>5. elements' \subseteq ElementRecords
  BY <1>3, <1>4 DEF ElementTypes
<1>6. pipeline # "none"
  BY DEF SinksInUse
<1>7. e.name \in Names /\ Ref(e) \in Refs
  BY <1>2 DEF ElementRecords, Ref, Refs
<1>8. Ref(f) = Ref(e)
  BY <1>3 DEF Ref
<1>9. SinksInUse'
  <2>1. (\A s : ElementsOf(s)' = ElementsOf(s)) /\ SinkChoices' = SinkChoices
    BY SinksSame
  <2>2. \A d \in elements' : d.name \in ElementsOf(d.stream)'
    BY <1>3, <1>4, <2>1 DEF SinksInUse
  <2>3. ASSUME NEW s \in streams', NEW n \in ElementsOf(s)'
        PROVE  \E d \in elements' : d.stream = s /\ d.name = n
    <3>1. PICK d \in elements : d.stream = s /\ d.name = n
      BY <2>1, <2>3 DEF SinksInUse
    <3>2. CASE d = e
      BY <1>3, <1>4, <3>1, <3>2
    <3>3. CASE d # e
      BY <1>4, <3>1, <3>3
    <3> QED
      BY <3>2, <3>3
  <2>4. <<westeros', rialto'>> \in SinkChoices' /\ streams' # {} /\ tracks' >= 1
    BY <1>6, <2>1 DEF SinksInUse, configVars
  <2>5. /\ westeros' => socWesteros'
        /\ stopping' => pipeline' # "none"
        /\ syncOn' <=> pipeline' # "none" /\ ~stopping'
        /\ asyncOn' <=> syncOn'
    BY DEF SinksInUse, configVars
  <2> QED
    BY <1>6, <2>2, <2>3, <2>4, <2>5 DEF SinksInUse
<1> QED
  BY <1>3, <1>4, <1>5, <1>6, <1>7, <1>8, <1>9

LEMMA ElementReadyKeeps ==
  ASSUME ElementsIInv, ElementReady
  PROVE  ElementsIInv'
<1>0. ElementTypes /\ SinksInUse /\ Connected /\ AudioTold /\ FramesTold /\ ToldOnce
  BY DEF ElementsIInv
<1>1. PICK e \in elements :
        /\ elements' = (elements \ {e}) \union {[e EXCEPT !.stage = "READY"]}
        /\ SyncReady(e) /\ busQueue' = Posted([of |-> Ref(e), state |-> "READY"])
  BY DEF ElementReady, NextIn, In
<1>2. UNCHANGED <<platform, configVars, pipeline, syncOn, asyncOn, flagVars, playVars, stopVars>>
  BY DEF ElementReady
<1> USE DEF flagVars, stopVars, playVars
<1>3. /\ elements' \subseteq ElementRecords /\ SinksInUse' /\ pipeline # "none"
      /\ e.name \in Names /\ Ref(e) \in Refs
      /\ \A d \in elements' :
           d \in elements \/ (d.name = e.name /\ Ref(d) = Ref(e) /\ d.stage = "READY")
  BY <1>0, <1>1, <1>2, StageChanges
<1>4. /\ socInterface' = socInterface
      /\ \A n : FirstFrameCallback(n)' = FirstFrameCallback(n)
      /\ \A n : NeedsUnderflow(n)' <=> NeedsUnderflow(n)
  BY <1>2, SinksSame
<1>5. CASE stopping
  <2>1. ~syncOn /\ ~asyncOn
    BY <1>0, <1>5 DEF SinksInUse
  <2>2. UNCHANGED <<callbacks, callbacksOn, busQueue>>
    BY <1>1, <2>1 DEF SyncReady, Posted
  <2>3. ElementTypes'
    BY <1>0, <1>2, <1>3, <2>2 DEF ElementTypes, configVars
  <2>4. Connected'
    BY <1>0, <1>2, <1>4, <1>5, <2>2 DEF Connected
  <2>5. AudioTold' /\ FramesTold' /\ ToldOnce'
    BY <1>0, <1>2, <1>5 DEF AudioTold, FramesTold, ToldOnce
  <2> QED
    BY <1>3, <2>3, <2>4, <2>5 DEF ElementsIInv
<1>6. CASE ~stopping
  <2>1. syncOn /\ asyncOn
    BY <1>0, <1>3, <1>6 DEF SinksInUse
  <2>2. PICK pairs : pairs = {<<Ref(e), c>> : c \in FirstFrameCallback(e.name)}
    OBVIOUS
  <2>3. callbacks' = callbacks \union pairs /\ callbacksOn' = (callbacksOn \/ pairs # {})
    BY <1>1, <2>1, <2>2 DEF SyncReady, SignalConnect
  <2>4. PICK m : m = [of |-> Ref(e), state |-> "READY"]
    OBVIOUS
  <2>5. m \in Messages /\ m.of = Ref(e) /\ m.state = "READY"
    BY <1>3, <2>4 DEF Messages
  <2>6. busQueue' = Append(busQueue, m)
    BY <1>1, <2>1, <2>4 DEF Posted
  <2>7. /\ busQueue' \in Seq(Messages) /\ Queued(Ref(e), "READY")'
        /\ \A r, s : Queued(r, s) => Queued(r, s)'
    <3>1. Queued(m.of, m.state)' /\ busQueue' \in Seq(Messages)
          /\ \A r, s : Queued(r, s) => Queued(r, s)'
      BY <1>0, <2>5, <2>6, PostKeeps
    <3>2. ASSUME NEW r, NEW s, r = m.of, s = m.state PROVE Queued(r, s)'
      BY <3>1, <3>2
    <3> QED
      BY <2>5, <3>1 DEF Queued
  <2>8. pairs \subseteq Refs \X Signals
    <3>1. FirstFrameCallback(e.name) \subseteq Signals
      <4>1. FirstFrameCallback(e.name) \subseteq {"first-video-frame-callback"} \union AudioFrames
        BY CallbackKinds
      <4> QED
        BY <4>1 DEF Signals
    <3> QED
      BY <1>3, <2>2, <3>1
  <2>9. ElementTypes'
    BY <1>0, <1>2, <1>3, <2>3, <2>7, <2>8 DEF ElementTypes, configVars
  <2>10. Connected'
    <3>1. callbacks' # {} => callbacksOn'
      BY <1>0, <2>3 DEF Connected
    <3>2. ASSUME NEW c \in callbacks'
          PROVE  c[2] \in {Underflow} \union FirstFrameCallback(c[1][1])'
      <4>1. CASE c \in callbacks
        BY <1>0, <1>4, <4>1 DEF Connected
      <4>2. CASE c \in pairs
        <5>1. PICK k \in FirstFrameCallback(e.name) : c = <<Ref(e), k>>
          BY <2>2, <4>2
        <5>2. c[2] = k /\ c[1][1] = e.name
          BY <5>1 DEF Ref
        <5> QED
          BY <1>4, <5>1, <5>2
      <4> QED
        BY <2>3, <3>2, <4>1, <4>2
    <3>3. ASSUME NEW d \in elements', d.stage # "NULL"
          PROVE  /\ \A c \in FirstFrameCallback(d.name)' : <<Ref(d), c>> \in callbacks'
                 /\ NeedsUnderflow(d.name)' =>
                      <<Ref(d), Underflow>> \in callbacks' \/ Queued(Ref(d), "READY")'
      <4>1. CASE d \in elements
        BY <1>0, <1>4, <1>6, <2>3, <2>7, <3>3, <4>1 DEF Connected
      <4>2. CASE d.name = e.name /\ Ref(d) = Ref(e)
        <5>1. \A c \in FirstFrameCallback(d.name)' : <<Ref(d), c>> \in callbacks'
          BY <1>4, <2>2, <2>3, <4>2
        <5>2. Queued(Ref(d), "READY")'
          BY <2>7, <4>2 DEF Queued
        <5> QED
          BY <5>1, <5>2
      <4> QED
        BY <1>3, <3>3, <4>1, <4>2
    <3> QED
      BY <3>1, <3>2, <3>3 DEF Connected, Ref
  <2>11. AudioTold' /\ ToldOnce'
    BY <1>0, <1>2 DEF AudioTold, ToldOnce
  <2>12. FramesTold'
    <3>1. \A d \in elements' : d.stage = "SHOWN" => d \in elements
      BY <1>3
    <3> QED
      BY <1>0, <1>2, <1>4, <1>6, <2>7, <3>1 DEF FramesTold, configVars
  <2> QED
    BY <1>3, <2>9, <2>10, <2>11, <2>12 DEF ElementsIInv
<1> QED
  BY <1>5, <1>6

LEMMA ElementPausedKeeps ==
  ASSUME ElementsIInv, ElementPaused
  PROVE  ElementsIInv'
<1>0. ElementTypes /\ SinksInUse /\ Connected /\ AudioTold /\ FramesTold /\ ToldOnce
  BY DEF ElementsIInv
<1>1. PICK e \in elements :
        /\ e.stage = "READY"
        /\ elements' = (elements \ {e}) \union {[e EXCEPT !.stage = "PAUSED"]}
  BY DEF ElementPaused, NextIn, In
<1>2. UNCHANGED <<platform, configVars, pipeline, busQueue, controlVars, callbacks, flagVars,
                  playVars, stopVars>>
  BY DEF ElementPaused
<1> USE DEF flagVars, stopVars, playVars, controlVars
<1>3. /\ elements' \subseteq ElementRecords /\ SinksInUse' /\ pipeline # "none"
      /\ \A d \in elements' :
           d \in elements \/ (d.name = e.name /\ Ref(d) = Ref(e) /\ d.stage = "PAUSED")
  BY <1>0, <1>1, <1>2, StageChanges
<1>4. /\ socInterface' = socInterface
      /\ \A n : FirstFrameCallback(n)' = FirstFrameCallback(n)
      /\ \A n : NeedsUnderflow(n)' <=> NeedsUnderflow(n)
  BY <1>2, SinksSame
<1>5. \A r, s : Queued(r, s)' <=> Queued(r, s)
  BY <1>2 DEF Queued
<1>6. ElementTypes'
  BY <1>0, <1>2, <1>3 DEF ElementTypes, configVars
<1>7. Connected'
  <2>1. /\ callbacks' # {} => callbacksOn'
        /\ \A c \in callbacks' : c[2] \in {Underflow} \union FirstFrameCallback(c[1][1])'
    BY <1>0, <1>2, <1>4 DEF Connected
  <2>2. ASSUME ~stopping', NEW d \in elements', d.stage # "NULL"
        PROVE  /\ \A c \in FirstFrameCallback(d.name)' : <<Ref(d), c>> \in callbacks'
               /\ NeedsUnderflow(d.name)' =>
                    <<Ref(d), Underflow>> \in callbacks' \/ Queued(Ref(d), "READY")'
    <3>1. PICK b \in elements : b.name = d.name /\ Ref(b) = Ref(d) /\ b.stage # "NULL"
      BY <1>1, <1>3, <2>2
    <3> QED
      BY <1>0, <1>2, <1>4, <1>5, <2>2, <3>1 DEF Connected
  <2> QED
    BY <2>1, <2>2 DEF Connected, Ref
<1>8. AudioTold' /\ ToldOnce'
  BY <1>0, <1>2 DEF AudioTold, ToldOnce
<1>9. FramesTold'
  <2>1. \A d \in elements' : d.stage = "SHOWN" => d \in elements
    BY <1>3
  <2> QED
    BY <1>0, <1>2, <1>4, <1>5, <2>1 DEF FramesTold, configVars
<1> QED
  BY <1>3, <1>6, <1>7, <1>8, <1>9 DEF ElementsIInv

LEMMA PipelineKeeps ==
  ASSUME ElementsIInv, NEW state \in {"PAUSED", "PLAYING"}, PipelineGoes(state)
  PROVE  ElementsIInv'
<1>0. ElementTypes /\ SinksInUse /\ Connected /\ AudioTold /\ FramesTold /\ ToldOnce
  BY DEF ElementsIInv
<1>1. /\ pipeline # "none" /\ pipeline' = state
      /\ busQueue' = Posted([of |-> <<"pipeline", 0>>, state |-> state])
      /\ UNCHANGED <<platform, configVars, elements, controlVars, callbacks, flagVars,
                     playVars, stopVars>>
  BY DEF PipelineGoes
<1> USE DEF flagVars, stopVars, playVars, controlVars
<1>2. /\ socInterface' = socInterface
      /\ \A s : ElementsOf(s)' = ElementsOf(s)
      /\ \A n : FirstFrameCallback(n)' = FirstFrameCallback(n)
      /\ \A n : NeedsUnderflow(n)' <=> NeedsUnderflow(n)
      /\ SinkChoices' = SinkChoices
  BY <1>1, SinksSame
<1>3. PICK m : m = [of |-> <<"pipeline", 0>>, state |-> state]
  OBVIOUS
<1>4. m \in Messages /\ m.of = <<"pipeline", 0>> /\ m.state = state
  BY <1>3 DEF Messages, Refs
<1>5. /\ busQueue' \in Seq(Messages) /\ \A r, s : Queued(r, s) => Queued(r, s)'
      /\ ~stopping => Queued(<<"pipeline", 0>>, state)'
  <2>1. CASE asyncOn
    <3>1. busQueue' = Append(busQueue, m)
      BY <1>1, <1>3, <2>1 DEF Posted
    <3>2. Queued(m.of, m.state)' /\ busQueue' \in Seq(Messages)
          /\ \A r, s : Queued(r, s) => Queued(r, s)'
      BY <1>0, <1>4, <3>1, PostKeeps
    <3> QED
      BY <1>4, <3>2 DEF Queued
  <2>2. CASE ~asyncOn
    <3>1. busQueue' = busQueue /\ stopping
      BY <1>0, <1>1, <2>2 DEF Posted, SinksInUse
    <3> QED
      BY <1>0, <3>1 DEF ElementTypes, Queued
  <2> QED
    BY <2>1, <2>2
<1>6. ElementTypes'
  BY <1>0, <1>1, <1>5 DEF ElementTypes, configVars
<1>7. SinksInUse'
  <2>1. pipeline' # "none"
    BY <1>1
  <2> QED
    BY <1>0, <1>1, <1>2, <2>1 DEF SinksInUse, configVars
<1>8. Connected'
  BY <1>0, <1>1, <1>2, <1>5 DEF Connected, Ref
<1>9. AudioTold' /\ ToldOnce'
  BY <1>0, <1>1 DEF AudioTold, ToldOnce
<1>10. FramesTold'
  <2>1. ASSUME ~stopping, state = "PLAYING" PROVE Queued(<<"pipeline", 0>>, "PLAYING")'
    BY <1>5, <2>1
  <2> QED
    BY <1>0, <1>1, <1>2, <2>1 DEF FramesTold, configVars
<1> QED
  BY <1>6, <1>7, <1>8, <1>9, <1>10 DEF ElementsIInv

\* The READY message of an element: its callback of underflows is connected.
LEMMA ReadyHandled ==
  ASSUME ElementsIInv, bus_message, Head(busQueue).state = "READY"
  PROVE  /\ Connected' /\ callbacks' \subseteq Refs \X Signals
         /\ UNCHANGED flagVars
<1>0. ElementTypes /\ SinksInUse /\ Connected
  BY DEF ElementsIInv
<1>1. /\ busQueue # <<>> /\ asyncOn /\ busQueue' = Tail(busQueue)
      /\ AsyncReady(Head(busQueue).of)
      /\ UNCHANGED <<platform, configVars, elements, stopVars, flagVars>>
  BY DEF bus_message
<1>2. PICK ref : ref = Head(busQueue).of
  OBVIOUS
<1>3. /\ ref \in Refs
      /\ \A r, s : Queued(r, s) => Queued(r, s)' \/ (ref = r /\ s = "READY")
  <2>1. /\ Head(busQueue) \in Messages
        /\ \A r, s : Queued(r, s) =>
             Queued(r, s)' \/ (Head(busQueue).of = r /\ Head(busQueue).state = s)
    BY <1>0, <1>1, TakeKeeps
  <2>2. ref \in Refs
    BY <1>2, <2>1 DEF Messages
  <2> QED
    BY <1>2, <2>1, <2>2
<1>4. /\ \A n : FirstFrameCallback(n)' = FirstFrameCallback(n)
      /\ \A n : NeedsUnderflow(n)' <=> NeedsUnderflow(n)
  BY <1>1, SinksSame
<1>5. PICK pairs : pairs = Only(ConnectsErrors(ref[1]) \/ ref[1] \in Rialto,
                                {<<ref, Underflow>>})
  OBVIOUS
<1>6. callbacks' = callbacks \union pairs /\ callbacksOn' = (callbacksOn \/ pairs # {})
  BY <1>1, <1>2, <1>5 DEF AsyncReady, SignalConnect, Underflow
<1>7. pairs \subseteq {<<ref, Underflow>>} /\ (NeedsUnderflow(ref[1]) => <<ref, Underflow>> \in pairs)
  BY <1>5 DEF Only, NeedsUnderflow
<1>8. callbacks' \subseteq Refs \X Signals
  BY <1>0, <1>3, <1>6, <1>7 DEF ElementTypes, Signals
<1>9. callbacks' # {} => callbacksOn'
  BY <1>0, <1>6 DEF Connected
<1>10. \A c \in callbacks' : c[2] \in {Underflow} \union FirstFrameCallback(c[1][1])'
  BY <1>0, <1>4, <1>6, <1>7 DEF Connected
<1>11. ASSUME ~stopping', NEW d \in elements', d.stage # "NULL"
       PROVE  /\ \A c \in FirstFrameCallback(d.name)' : <<Ref(d), c>> \in callbacks'
              /\ NeedsUnderflow(d.name)' =>
                   <<Ref(d), Underflow>> \in callbacks' \/ Queued(Ref(d), "READY")'
  <2>1. d \in elements /\ ~stopping
    BY <1>1, <1>11 DEF stopVars
  <2>2. /\ \A c \in FirstFrameCallback(d.name) : <<Ref(d), c>> \in callbacks
        /\ NeedsUnderflow(d.name) =>
             <<Ref(d), Underflow>> \in callbacks \/ Queued(Ref(d), "READY")
    BY <1>0, <1>11, <2>1 DEF Connected
  <2>3. ASSUME NeedsUnderflow(d.name), Queued(Ref(d), "READY")
        PROVE  <<Ref(d), Underflow>> \in callbacks' \/ Queued(Ref(d), "READY")'
    <3>1. CASE ref = Ref(d)
      <4>1. ref[1] = d.name
        BY <3>1 DEF Ref
      <4> QED
        BY <1>6, <1>7, <2>3, <3>1, <4>1
    <3>2. CASE ref # Ref(d)
      BY <1>3, <2>3, <3>2
    <3> QED
      BY <3>1, <3>2
  <2> QED
    BY <1>4, <1>6, <2>2, <2>3
<1>12. Connected'
  BY <1>9, <1>10, <1>11 DEF Connected, Ref
<1> QED
  BY <1>1, <1>8, <1>12

LEMMA SimulatorIsDefault ==
  platform \in Platforms /\ socInterface.simulatorFirstFrame =>
    ~socInterface.asksAudioBin /\ ~socInterface.tellsFirstTune
  BY KindsOfPlatforms
  DEF AmlogicSocInterface, RealtekSocInterface, BrcmSocInterface, DefaultSocInterface, SocInterface

\* The messages of the pipeline: its first frame is told of, if it is to be.
LEMMA StateHandled ==
  ASSUME ElementsIInv, bus_message, ~stopping, pipeline # "none",
         Head(busQueue).state \in {"PAUSED", "PLAYING"}
  PROVE  /\ UNCHANGED <<callbacks, callbacksOn>>
         /\ firstVideo' \in BOOLEAN /\ firstAudio' \in BOOLEAN /\ firstFrame' \in BOOLEAN
         /\ ToldOnce' /\ (firstFrame => firstFrame')
         /\ ~late /\ ~kept /\ tracks = 1 /\ firstAudio' => firstFrame'
         /\ Head(busQueue).state = "PLAYING" =>
              /\ rialto \/ socInterface.simulatorFirstFrame => firstFrame'
              /\ /\ socInterface.asksAudioBin /\ streams = {AudioBin}
                 /\ tracks = 1 /\ ~late /\ ~kept
                 => firstFrame'
<1>0. ElementTypes /\ AudioTold /\ ToldOnce
  BY DEF ElementsIInv
<1>1. /\ firstVideo \in BOOLEAN /\ firstAudio \in BOOLEAN /\ firstFrame \in BOOLEAN
      /\ rialto \in BOOLEAN /\ platform \in Platforms
  BY <1>0 DEF ElementTypes
<1>2. ~late /\ ~kept /\ tracks = 1 /\ firstAudio => firstFrame
  BY <1>0 DEF AudioTold
<1>3. CASE Head(busQueue).state = "PAUSED"
  <2>1. PausedTells /\ UNCHANGED <<callbacks, callbacksOn>>
    BY <1>3 DEF bus_message
  <2>2. CASE NotifyFirstFrame(TRUE, firstAudio)
    <3>1. firstVideo' = TRUE /\ firstAudio' = firstAudio /\ firstFrame' \in BOOLEAN /\ ToldOnce'
          /\ firstFrame'
      BY <1>0, <1>1, <2>2, Notifies
    <3> QED
      BY <1>1, <1>3, <2>1, <3>1
  <2>3. CASE UNCHANGED flagVars
    BY <1>0, <1>1, <1>2, <1>3, <2>1, <2>3 DEF flagVars, ToldOnce
  <2> QED
    BY <2>1, <2>2, <2>3 DEF PausedTells
<1>4. CASE Head(busQueue).state = "PLAYING"
  <2> DEFINE audioOnly == /\ streams = {AudioBin} /\ ~firstAudio /\ tracks = 1
                          /\ socInterface.asksAudioBin
             tune == firstTune /\ socInterface.tellsFirstTune
             v == firstVideo \/ rialto \/ tune
             a == firstAudio \/ audioOnly \/ rialto \/ tune
  <2>1. /\ UNCHANGED <<callbacks, callbacksOn>>
        /\ IF audioOnly \/ rialto \/ tune THEN NotifyFirstFrame(v, a)
           ELSE IF socInterface.simulatorFirstFrame /\ ~firstFrame
           THEN firstFrame' = TRUE /\ told' = told + 1 /\ UNCHANGED <<firstVideo, firstAudio>>
           ELSE UNCHANGED flagVars
    BY <1>4 DEF bus_message, PlayingTells
  <2>2. v \in BOOLEAN /\ a \in BOOLEAN /\ audioOnly \in BOOLEAN /\ tune \in BOOLEAN
    OBVIOUS
  <2>3. rialto => v
    OBVIOUS
  <2>4. /\ audioOnly => a
        /\ socInterface.asksAudioBin /\ streams = {AudioBin} /\ tracks = 1 => audioOnly \/ firstAudio
    OBVIOUS
  <2>5. socInterface.simulatorFirstFrame => ~audioOnly /\ ~tune
    BY <1>1, SimulatorIsDefault
  <2>6. audioOnly => tracks = 1
    OBVIOUS
  <2> HIDE DEF audioOnly, tune, v, a
  <2>7. CASE audioOnly \/ rialto \/ tune
    <3>1. NotifyFirstFrame(v, a)
      BY <2>1, <2>7
    <3>2. /\ firstVideo' = v /\ firstAudio' = a /\ firstFrame' \in BOOLEAN /\ ToldOnce'
          /\ firstFrame => firstFrame'
          /\ v \/ (tracks = 1 /\ a) => firstFrame'
      BY <1>0, <2>2, <3>1, Notifies
    <3>3. rialto \/ socInterface.simulatorFirstFrame => firstFrame'
      BY <2>3, <2>5, <2>7, <3>2
    <3>4. socInterface.asksAudioBin /\ streams = {AudioBin} /\ tracks = 1 /\ ~late /\ ~kept
            => firstFrame'
      BY <1>2, <2>4, <3>2
    <3> QED
      BY <2>1, <2>2, <3>2, <3>3, <3>4
  <2>8. CASE ~(audioOnly \/ rialto \/ tune) /\ socInterface.simulatorFirstFrame /\ ~firstFrame
    <3>1. firstFrame' = TRUE /\ told' = told + 1 /\ UNCHANGED <<firstVideo, firstAudio>>
      BY <2>1, <2>8
    <3>2. told = 0
      BY <1>0, <2>8 DEF ToldOnce
    <3> QED
      BY <1>1, <2>1, <3>1, <3>2 DEF ToldOnce
  <2>9. CASE ~(audioOnly \/ rialto \/ tune) /\ ~(socInterface.simulatorFirstFrame /\ ~firstFrame)
    <3>1. UNCHANGED flagVars
      BY <2>1, <2>9
    <3>2. rialto \/ socInterface.simulatorFirstFrame => firstFrame
      BY <2>9
    <3>3. socInterface.asksAudioBin /\ streams = {AudioBin} /\ tracks = 1 /\ ~late /\ ~kept
            => firstFrame
      BY <1>2, <2>4, <2>9
    <3> QED
      BY <1>0, <1>1, <1>2, <2>1, <3>1, <3>2, <3>3 DEF flagVars, ToldOnce
  <2> QED
    BY <2>7, <2>8, <2>9
<1> QED
  BY <1>3, <1>4

LEMMA MessageKeeps ==
  ASSUME ElementsIInv, bus_message
  PROVE  ElementsIInv'
<1>0. ElementTypes /\ SinksInUse /\ Connected /\ AudioTold /\ FramesTold /\ ToldOnce
  BY DEF ElementsIInv
<1>1. /\ busQueue # <<>> /\ asyncOn /\ busQueue' = Tail(busQueue)
      /\ UNCHANGED <<platform, configVars, pipeline, elements, syncOn, asyncOn, playVars, stopVars>>
  BY DEF bus_message
<1> USE DEF stopVars, playVars
<1>2. ~stopping /\ pipeline # "none"
  BY <1>0, <1>1 DEF SinksInUse
<1>3. /\ socInterface' = socInterface
      /\ \A s : ElementsOf(s)' = ElementsOf(s)
      /\ \A n : FirstFrameCallback(n)' = FirstFrameCallback(n)
      /\ \A n : NeedsUnderflow(n)' <=> NeedsUnderflow(n)
      /\ SinkChoices' = SinkChoices
  BY <1>1, SinksSame
<1>4. /\ busQueue' \in Seq(Messages) /\ Head(busQueue) \in Messages
      /\ \A r, s : Queued(r, s) =>
           Queued(r, s)' \/ (Head(busQueue).of = r /\ Head(busQueue).state = s)
  BY <1>0, <1>1, TakeKeeps
<1>5. Head(busQueue).state \in {"READY", "PAUSED", "PLAYING"}
  BY <1>4 DEF Messages
<1>6. SinksInUse'
  BY <1>0, <1>1, <1>2, <1>3 DEF SinksInUse, configVars
<1>7. CASE Head(busQueue).state = "READY"
  <2>1. Connected' /\ callbacks' \subseteq Refs \X Signals /\ UNCHANGED flagVars
    BY <1>7, ReadyHandled
  <2>2. ElementTypes'
    BY <1>0, <1>1, <1>4, <2>1 DEF ElementTypes, configVars, flagVars
  <2>3. AudioTold' /\ ToldOnce'
    BY <1>0, <1>1, <2>1 DEF AudioTold, ToldOnce, flagVars
  <2>4. Queued(<<"pipeline", 0>>, "PLAYING") => Queued(<<"pipeline", 0>>, "PLAYING")'
    BY <1>4, <1>7
  <2>5. FramesTold'
    BY <1>0, <1>1, <1>3, <2>1, <2>4 DEF FramesTold, configVars, flagVars
  <2> QED
    BY <1>6, <2>1, <2>2, <2>3, <2>5 DEF ElementsIInv
<1>8. CASE Head(busQueue).state \in {"PAUSED", "PLAYING"}
  <2>1. /\ UNCHANGED <<callbacks, callbacksOn>>
        /\ firstVideo' \in BOOLEAN /\ firstAudio' \in BOOLEAN /\ firstFrame' \in BOOLEAN
        /\ ToldOnce' /\ (firstFrame => firstFrame')
        /\ ~late /\ ~kept /\ tracks = 1 /\ firstAudio' => firstFrame'
        /\ Head(busQueue).state = "PLAYING" =>
             /\ rialto \/ socInterface.simulatorFirstFrame => firstFrame'
             /\ /\ socInterface.asksAudioBin /\ streams = {AudioBin}
                /\ tracks = 1 /\ ~late /\ ~kept
                => firstFrame'
    BY <1>2, <1>8, StateHandled
  <2>2. ElementTypes'
    BY <1>0, <1>1, <1>4, <2>1 DEF ElementTypes, configVars
  <2>3. Connected'
    <3>1. \A r : Queued(r, "READY") => Queued(r, "READY")'
      BY <1>4, <1>8
    <3> QED
      BY <1>0, <1>1, <1>3, <2>1, <3>1 DEF Connected, Ref
  <2>4. AudioTold'
    BY <1>1, <1>2, <2>1 DEF AudioTold
  <2>5. FramesTold'
    <3>1. ASSUME NEW e \in elements, e.stage = "SHOWN"
          PROVE  /\ "first-video-frame-callback" \in FirstFrameCallback(e.name)' => firstFrame'
                 /\ FirstFrameCallback(e.name)' \intersect AudioFrames # {} /\ tracks' = 1
                      => firstFrame'
      BY <1>0, <1>1, <1>2, <1>3, <2>1, <3>1 DEF FramesTold
    <3>2. ASSUME pipeline' = "PLAYING", ~Queued(<<"pipeline", 0>>, "PLAYING")'
          PROVE  /\ rialto' \/ socInterface.simulatorFirstFrame' => firstFrame'
                 /\ /\ socInterface.asksAudioBin' /\ streams' = {AudioBin}
                    /\ tracks' = 1 /\ ~late' /\ ~kept'
                    => firstFrame'
      <4>1. CASE Head(busQueue).state = "PLAYING"
        BY <1>1, <1>3, <2>1, <4>1 DEF configVars
      <4>2. CASE Head(busQueue).state = "PAUSED"
        <5>1. ~Queued(<<"pipeline", 0>>, "PLAYING")
          BY <1>4, <3>2, <4>2
        <5>2. /\ rialto \/ socInterface.simulatorFirstFrame => firstFrame
              /\ /\ socInterface.asksAudioBin /\ streams = {AudioBin}
                 /\ tracks = 1 /\ ~late /\ ~kept
                 => firstFrame
          BY <1>0, <1>1, <1>2, <3>2, <5>1 DEF FramesTold
        <5> QED
          BY <1>1, <1>3, <2>1, <5>2 DEF configVars
      <4> QED
        BY <1>8, <4>1, <4>2
    <3> QED
      BY <1>1, <3>1, <3>2 DEF FramesTold
  <2> QED
    BY <1>6, <2>1, <2>2, <2>3, <2>4, <2>5 DEF ElementsIInv
<1> QED
  BY <1>5, <1>7, <1>8

\* The first frame of an element with a callback that tells of it.
LEMMA FirstFrameTells ==
  ASSUME ElementsIInv, NEW e \in elements, FirstFrame(e)
  PROVE  /\ firstVideo' \in BOOLEAN /\ firstAudio' \in BOOLEAN /\ firstFrame' \in BOOLEAN
         /\ ToldOnce' /\ (firstFrame => firstFrame')
         /\ (firstAudio' => firstAudio \/ (tracks = 1 => firstFrame'))
         /\ ~stopping =>
              /\ "first-video-frame-callback" \in FirstFrameCallback(e.name) => firstFrame'
              /\ FirstFrameCallback(e.name) \intersect AudioFrames # {} /\ tracks = 1 => firstFrame'
<1>0. ElementTypes /\ Connected /\ ToldOnce
  BY DEF ElementsIInv
<1>1. firstVideo \in BOOLEAN /\ firstAudio \in BOOLEAN /\ firstFrame \in BOOLEAN
  BY <1>0 DEF ElementTypes
<1>2. e.stage = "PAUSED"
  BY DEF FirstFrame
<1>3. ~stopping => \A c \in FirstFrameCallback(e.name) : <<Ref(e), c>> \in callbacks
  BY <1>0, <1>2 DEF Connected
<1>4. ASSUME NEW c, <<Ref(e), c>> \in callbacks
      PROVE  c \in {Underflow} \union FirstFrameCallback(e.name)
  BY <1>0, <1>4 DEF Connected, Ref
<1>5. Underflow \notin FirstFrameCallback(e.name)
      /\ ("first-video-frame-callback" \in FirstFrameCallback(e.name) =>
            FirstFrameCallback(e.name) = {"first-video-frame-callback"})
  BY CallbackKinds
<1>6. CASE /\ callbacksOn /\ <<Ref(e), "first-video-frame-callback">> \in callbacks
           /\ NotifyFirstFrame(TRUE, firstAudio)
  <2>1. firstVideo' = TRUE /\ firstAudio' = firstAudio /\ firstFrame' \in BOOLEAN /\ ToldOnce'
        /\ firstFrame'
    BY <1>0, <1>1, <1>6, Notifies
  <2> QED
    BY <1>1, <2>1
<1>7. CASE /\ callbacksOn
           /\ callbacks \intersect {<<Ref(e), "first-audio-frame-callback">>,
                                    <<Ref(e), "first-audio-frame">>} # {}
           /\ NotifyFirstFrame(firstVideo, TRUE)
  <2>1. firstVideo' = firstVideo /\ firstAudio' = TRUE /\ firstFrame' \in BOOLEAN /\ ToldOnce'
        /\ (firstFrame => firstFrame') /\ (tracks = 1 => firstFrame')
    BY <1>0, <1>1, <1>7, Notifies
  <2>2. PICK c \in AudioFrames : <<Ref(e), c>> \in callbacks
    BY <1>7 DEF AudioFrames
  <2>3. c \in FirstFrameCallback(e.name)
    BY <1>4, <2>2 DEF AudioFrames, Underflow
  <2>4. "first-video-frame-callback" \notin FirstFrameCallback(e.name)
    BY <1>5, <2>2, <2>3 DEF AudioFrames
  <2> QED
    BY <1>1, <2>1, <2>4
<1>8. CASE /\ ~callbacksOn \/ \A c \in callbacks : c[1] = Ref(e) => c[2] = "buffer-underflow-callback"
           /\ UNCHANGED flagVars
  <2>1. UNCHANGED <<firstVideo, firstAudio, firstFrame, told>>
    BY <1>8 DEF flagVars
  <2>2. ~stopping => FirstFrameCallback(e.name) = {}
    <3> SUFFICES ASSUME ~stopping, NEW c \in FirstFrameCallback(e.name) PROVE FALSE
      OBVIOUS
    <3>1. <<Ref(e), c>> \in callbacks /\ callbacksOn
      BY <1>0, <1>3 DEF Connected
    <3>2. c = Underflow
      BY <1>8, <3>1 DEF Underflow
    <3> QED
      BY <1>5, <3>2
  <2> QED
    BY <1>0, <1>1, <2>1, <2>2 DEF ToldOnce
<1> QED
  BY <1>6, <1>7, <1>8 DEF FirstFrame

LEMMA FirstFrameKeeps ==
  ASSUME ElementsIInv, NEW e \in elements, FirstFrame(e)
  PROVE  ElementsIInv'
<1>0. ElementTypes /\ SinksInUse /\ Connected /\ AudioTold /\ FramesTold /\ ToldOnce
  BY DEF ElementsIInv
<1>1. /\ e.stage = "PAUSED"
      /\ elements' = (elements \ {e}) \union {[e EXCEPT !.stage = "SHOWN"]}
      /\ late' = (late \/ stopping)
      /\ UNCHANGED <<platform, configVars, pipeline, busQueue, controlVars, callbacks, playVars,
                     stopping, kept>>
  BY DEF FirstFrame
<1> USE DEF playVars, controlVars
<1>2. /\ elements' \subseteq ElementRecords /\ SinksInUse' /\ pipeline # "none"
      /\ \A d \in elements' :
           d \in elements \/ (d.name = e.name /\ Ref(d) = Ref(e) /\ d.stage = "SHOWN")
  BY <1>0, <1>1, StageChanges
<1>3. /\ socInterface' = socInterface
      /\ \A n : FirstFrameCallback(n)' = FirstFrameCallback(n)
      /\ \A n : NeedsUnderflow(n)' <=> NeedsUnderflow(n)
  BY <1>1, SinksSame
<1>4. \A r, s : Queued(r, s)' <=> Queued(r, s)
  BY <1>1 DEF Queued
<1>5. /\ firstVideo' \in BOOLEAN /\ firstAudio' \in BOOLEAN /\ firstFrame' \in BOOLEAN
      /\ ToldOnce' /\ (firstFrame => firstFrame')
      /\ (firstAudio' => firstAudio \/ (tracks = 1 => firstFrame'))
      /\ ~stopping =>
           /\ "first-video-frame-callback" \in FirstFrameCallback(e.name) => firstFrame'
           /\ FirstFrameCallback(e.name) \intersect AudioFrames # {} /\ tracks = 1 => firstFrame'
  BY FirstFrameTells
<1>6. ElementTypes'
  <2>1. late' \in BOOLEAN
    BY <1>0, <1>1 DEF ElementTypes
  <2> QED
    BY <1>0, <1>1, <1>2, <1>5, <2>1 DEF ElementTypes, configVars
<1>7. Connected'
  <2>1. /\ callbacks' # {} => callbacksOn'
        /\ \A c \in callbacks' : c[2] \in {Underflow} \union FirstFrameCallback(c[1][1])'
    BY <1>0, <1>1, <1>3 DEF Connected
  <2>2. ASSUME ~stopping', NEW d \in elements', d.stage # "NULL"
        PROVE  /\ \A c \in FirstFrameCallback(d.name)' : <<Ref(d), c>> \in callbacks'
               /\ NeedsUnderflow(d.name)' =>
                    <<Ref(d), Underflow>> \in callbacks' \/ Queued(Ref(d), "READY")'
    <3>1. PICK b \in elements : b.name = d.name /\ Ref(b) = Ref(d) /\ b.stage # "NULL"
      BY <1>1, <1>2, <2>2
    <3> QED
      BY <1>0, <1>1, <1>3, <1>4, <2>2, <3>1 DEF Connected
  <2> QED
    BY <2>1, <2>2 DEF Connected, Ref
<1>8. AudioTold'
  <2>1. CASE stopping
    BY <1>1, <2>1 DEF AudioTold
  <2>2. CASE ~stopping
    <3>1. ASSUME ~late, ~kept, tracks = 1, firstAudio' PROVE firstFrame'
      BY <1>0, <1>2, <1>5, <2>2, <3>1 DEF AudioTold
    <3> QED
      BY <1>1, <1>2, <2>2, <3>1 DEF AudioTold
  <2> QED
    BY <2>1, <2>2
<1>9. FramesTold'
  <2> SUFFICES ASSUME ~stopping' PROVE FramesTold'
    BY DEF FramesTold
  <2>1. ~stopping /\ ~late' = ~late
    BY <1>0, <1>1 DEF ElementTypes
  <2>2. ASSUME NEW d \in elements', d.stage = "SHOWN"
        PROVE  /\ "first-video-frame-callback" \in FirstFrameCallback(d.name)' => firstFrame'
               /\ FirstFrameCallback(d.name)' \intersect AudioFrames # {} /\ tracks' = 1
                    => firstFrame'
    <3>1. CASE d \in elements
      BY <1>0, <1>1, <1>3, <1>5, <2>1, <2>2, <3>1 DEF FramesTold
    <3>2. CASE d.name = e.name
      BY <1>1, <1>3, <1>5, <2>1, <3>2
    <3> QED
      BY <1>2, <3>1, <3>2
  <2>3. ASSUME pipeline' = "PLAYING", ~Queued(<<"pipeline", 0>>, "PLAYING")'
        PROVE  /\ rialto' \/ socInterface.simulatorFirstFrame' => firstFrame'
               /\ /\ socInterface.asksAudioBin' /\ streams' = {AudioBin}
                  /\ tracks' = 1 /\ ~late' /\ ~kept'
                  => firstFrame'
    <3>1. pipeline = "PLAYING" /\ ~Queued(<<"pipeline", 0>>, "PLAYING")
      BY <1>1, <1>4, <2>3
    <3>2. /\ rialto \/ socInterface.simulatorFirstFrame => firstFrame
          /\ /\ socInterface.asksAudioBin /\ streams = {AudioBin}
             /\ tracks = 1 /\ ~late /\ ~kept
             => firstFrame
      BY <1>0, <2>1, <3>1 DEF FramesTold
    <3> QED
      BY <1>1, <1>3, <1>5, <2>1, <3>2 DEF configVars
  <2> QED
    BY <2>2, <2>3 DEF FramesTold
<1> QED
  BY <1>2, <1>5, <1>6, <1>7, <1>8, <1>9 DEF ElementsIInv

LEMMA StopKeeps ==
  ASSUME ElementsIInv,
         (\E keep \in BOOLEAN : StopBegins(keep)) \/ StopEnds \/ ResetFirstFrame
  PROVE  ElementsIInv'
<1>0. ElementTypes /\ SinksInUse /\ Connected /\ AudioTold /\ FramesTold /\ ToldOnce
  BY DEF ElementsIInv
<1> USE DEF playVars, stopVars, controlVars, flagVars
<1>1. UNCHANGED <<platform, configVars>>
  BY DEF StopBegins, StopEnds, ResetFirstFrame
<1>2. /\ \A s : ElementsOf(s)' = ElementsOf(s)
      /\ \A n : FirstFrameCallback(n)' = FirstFrameCallback(n)
      /\ \A n : NeedsUnderflow(n)' <=> NeedsUnderflow(n)
      /\ SinkChoices' = SinkChoices
  BY <1>1, SinksSame
<1>3. ASSUME NEW keep \in BOOLEAN, StopBegins(keep) PROVE ElementsIInv'
  <2>1. /\ pipeline # "none" /\ stopping' = TRUE /\ syncOn' = FALSE /\ asyncOn' = FALSE
        /\ busQueue' = <<>> /\ kept' = keep
        /\ UNCHANGED <<pipeline, elements, callbacksOn, callbacks, playVars>>
    BY <1>3 DEF StopBegins
  <2>2. IF keep THEN UNCHANGED <<flagVars, late>>
        ELSE /\ firstVideo' = FALSE /\ firstAudio' = FALSE /\ firstFrame' = FALSE
             /\ told' = 0 /\ late' = FALSE
    BY <1>3 DEF StopBegins
  <2>3. ElementTypes'
    <3>1. /\ firstVideo' \in BOOLEAN /\ firstAudio' \in BOOLEAN /\ firstFrame' \in BOOLEAN
          /\ late' \in BOOLEAN
      BY <1>0, <2>2 DEF ElementTypes
    <3>2. busQueue' \in Seq(Messages)
      BY <2>1, EmptySeq
    <3> QED
      BY <1>0, <1>1, <2>1, <3>1, <3>2 DEF ElementTypes, configVars
  <2>4. SinksInUse'
    BY <1>0, <1>1, <1>2, <2>1 DEF SinksInUse, configVars
  <2>5. Connected'
    BY <1>0, <1>2, <2>1 DEF Connected
  <2>6. AudioTold'
    BY <2>1, <2>2 DEF AudioTold
  <2>7. FramesTold'
    BY <2>1 DEF FramesTold
  <2>8. ToldOnce'
    BY <1>0, <2>2 DEF ToldOnce
  <2> QED
    BY <2>3, <2>4, <2>5, <2>6, <2>7, <2>8 DEF ElementsIInv
<1>4. CASE StopEnds
  <2>1. /\ stopping /\ stopping' = FALSE /\ callbacksOn' = FALSE /\ callbacks' = {}
        /\ pipeline' = "none" /\ elements' = {} /\ tracks' = 0 /\ streams' = {}
        /\ UNCHANGED <<busQueue, syncOn, asyncOn, flagVars, generation, late, kept>>
    BY <1>4 DEF StopEnds
  <2>2. ElementTypes'
    BY <1>0, <1>1, <2>1 DEF ElementTypes, configVars
  <2>3. SinksInUse'
    BY <1>0, <1>1, <2>1 DEF SinksInUse, configVars
  <2>4. Connected' /\ FramesTold'
    BY <2>1 DEF Connected, FramesTold
  <2>5. AudioTold' /\ ToldOnce'
    BY <1>0, <2>1 DEF AudioTold, ToldOnce
  <2> QED
    BY <2>2, <2>3, <2>4, <2>5 DEF ElementsIInv
<1>5. CASE ResetFirstFrame
  <2>1. /\ pipeline = "none" /\ firstFrame' = FALSE /\ told' = 0
        /\ UNCHANGED <<pipeline, elements, busQueue, controlVars, callbacks, firstVideo, firstAudio,
                       playVars, stopVars>>
    BY <1>5 DEF ResetFirstFrame
  <2>2. elements = {} /\ ~stopping
    BY <1>0, <2>1 DEF SinksInUse
  <2>3. ElementTypes'
    BY <1>0, <1>1, <2>1 DEF ElementTypes, configVars
  <2>4. SinksInUse'
    BY <1>0, <1>1, <1>2, <2>1 DEF SinksInUse, configVars
  <2>5. Connected'
    BY <1>0, <1>2, <2>1, <2>2 DEF Connected
  <2>6. AudioTold' /\ FramesTold' /\ ToldOnce'
    BY <1>0, <2>1, <2>2 DEF AudioTold, FramesTold, ToldOnce
  <2> QED
    BY <2>3, <2>4, <2>5, <2>6 DEF ElementsIInv
<1> QED
  BY <1>3, <1>4, <1>5

-----------------------------------------------------------------------------
LEMMA ElementsInvariant == ElementsSpec => []ElementsIInv
<1>1. ElementsIInv /\ [ElementsNext]_elementVars => ElementsIInv'
  <2> SUFFICES ASSUME ElementsIInv, [ElementsNext]_elementVars PROVE ElementsIInv'
    OBVIOUS
  <2>1. ASSUME NEW c \in SinkChoices, NEW ss \in (SUBSET {VideoBin, AudioBin}) \ {{}},
               NEW pause \in BOOLEAN, Configure(c[1], c[2], ss, pause)
        PROVE  ElementsIInv'
    <3>1. ss \in SUBSET {VideoBin, AudioBin} /\ ss # {}
      BY <2>1
    <3> QED
      BY <2>1, <3>1, ConfigureKeeps
  <2>2. ASSUME NEW s \in {VideoBin, AudioBin}, ChangeFormat(s) PROVE ElementsIInv'
    BY <2>2, ChangeFormatKeeps
  <2>3. CASE ElementReady
    BY <2>3, ElementReadyKeeps
  <2>4. CASE ElementPaused
    BY <2>4, ElementPausedKeeps
  <2>5. ASSUME NEW e \in elements, FirstFrame(e) PROVE ElementsIInv'
    BY <2>5, FirstFrameKeeps
  <2>6. ASSUME NEW state \in {"PAUSED", "PLAYING"}, PipelineGoes(state) PROVE ElementsIInv'
    BY <2>6, PipelineKeeps
  <2>7. CASE bus_message
    BY <2>7, MessageKeeps
  <2>8. CASE (\E keep \in BOOLEAN : StopBegins(keep)) \/ StopEnds \/ ResetFirstFrame
    BY <2>8, StopKeeps
  <2>9. CASE UNCHANGED elementVars
    <3>1. UNCHANGED <<platform, configVars, pipeline, elements, busQueue, controlVars, callbacks,
                      flagVars, playVars, stopVars>>
      BY <2>9 DEF elementVars
    <3>2. /\ socInterface' = socInterface
          /\ \A s : ElementsOf(s)' = ElementsOf(s)
          /\ \A n : FirstFrameCallback(n)' = FirstFrameCallback(n)
          /\ \A n : NeedsUnderflow(n)' <=> NeedsUnderflow(n)
          /\ SinkChoices' = SinkChoices
      BY <3>1, SinksSame
    <3>3. \A r, s : Queued(r, s)' <=> Queued(r, s)
      BY <3>1 DEF Queued
    <3> USE DEF ElementsIInv, configVars, controlVars, flagVars, playVars, stopVars
    <3>4. ElementTypes'
      BY <3>1 DEF ElementTypes
    <3>5. SinksInUse'
      BY <3>1, <3>2 DEF SinksInUse
    <3>6. Connected'
      BY <3>1, <3>2, <3>3 DEF Connected, Ref
    <3>7. AudioTold' /\ ToldOnce'
      BY <3>1 DEF AudioTold, ToldOnce
    <3>8. FramesTold'
      BY <3>1, <3>2, <3>3 DEF FramesTold
    <3> QED
      BY <3>4, <3>5, <3>6, <3>7, <3>8
  <2> QED
    BY <2>1, <2>2, <2>3, <2>4, <2>5, <2>6, <2>7, <2>8, <2>9 DEF ElementsNext
<1> QED
  BY ElementsInitially, <1>1, PTL DEF ElementsSpec

\* The elements that tell of the first frame, with the player's sinks in use.
LEMMA WhoTells ==
  ASSUME ElementTypes, SinksInUse, pipeline # "none", ~rialto, ~StaleWesteros
  PROVE  /\ ~socInterface.simulatorFirstFrame =>
              \E n \in VideoElements :
                HasFirstFrame(n) /\ "first-video-frame-callback" \in FirstFrameCallback(n)
         /\ ~socInterface.simulatorFirstFrame /\ ~socInterface.asksAudioBin =>
              \E n \in AudioElements :
                HasFirstFrame(n) /\ FirstFrameCallback(n) \intersect AudioFrames # {}
<1>1. /\ westeros => socWesteros
      /\ platform # "realtek" => (westeros <=> socWesteros)
      /\ platform = "amlogic" => westeros
      /\ westeros \in BOOLEAN /\ platform \in Platforms
  BY DEF ElementTypes, SinksInUse, SinkChoices, StaleWesteros
<1> USE DEF VideoDecoders, Decoders, SocInterface, Only, HasFirstFrame, FirstFrameCallback, AudioFrames
<1>2. CASE platform = "amlogic" /\ socInterface = AmlogicSocInterface
  <2>1. socInterface.asksAudioBin
    BY <1>2 DEF AmlogicSocInterface
  <2>2. "westerossink" \in VideoElements
    BY <1>1, <1>2 DEF VideoElements
  <2>3. "westerossink" \in Decoders \intersect VideoDecoders
    BY <1>1, <1>2 DEF AmlogicSocInterface
  <2> QED
    BY <2>1, <2>2, <2>3
<1>3. CASE platform = "realtek" /\ socInterface = RealtekSocInterface
  <2>1. "omxh264dec" \in VideoElements /\ "rtkaudiosink" \in AudioElements
    BY <1>3 DEF VideoElements, AudioElements
  <2>2. "omxh264dec" \in Decoders \intersect VideoDecoders
    BY <1>3 DEF RealtekSocInterface
  <2>3. "rtkaudiosink" \notin Decoders /\ ~socInterface.firstAudioCallback
    BY <1>3 DEF RealtekSocInterface
  <2>4. FirstFrameCallback("rtkaudiosink") = {"first-audio-frame"}
    BY <2>3
  <2> QED
    BY <2>1, <2>2, <2>4
<1>4. CASE platform = "brcm" /\ socInterface = BrcmSocInterface
  <2>1. "brcmaudiodecoder" \in AudioElements
    BY <1>4 DEF AudioElements
  <2>2. "brcmaudiodecoder" \in Decoders \ VideoDecoders /\ socInterface.firstAudioCallback
    BY <1>4 DEF BrcmSocInterface
  <2>3. FirstFrameCallback("brcmaudiodecoder") = {"first-audio-frame-callback"}
    BY <2>2
  <2>4. CASE westeros
    <3>1. "westerossink" \in VideoElements
      BY <1>4, <2>4 DEF VideoElements
    <3>2. "westerossink" \in Decoders \intersect VideoDecoders
      BY <1>1, <1>4, <2>4 DEF BrcmSocInterface
    <3> QED
      BY <2>1, <2>3, <3>1, <3>2
  <2>5. CASE ~westeros
    <3>1. "brcmvideodecoder" \in VideoElements
      BY <1>4, <2>5 DEF VideoElements
    <3>2. "brcmvideodecoder" \in Decoders \intersect VideoDecoders
      BY <1>1, <1>4, <2>5 DEF BrcmSocInterface
    <3> QED
      BY <2>1, <2>3, <3>1, <3>2
  <2> QED
    BY <2>4, <2>5
<1>5. CASE platform = "default" /\ socInterface = DefaultSocInterface
  BY <1>5 DEF DefaultSocInterface
<1> QED
  BY <1>1, <1>2, <1>3, <1>4, <1>5, KindsOfPlatforms

(* NotifyFirstFrame is called by each platform in its own way: whatever is    *)
(* configured, stopped and changed before, once the pipeline plays and the    *)
(* decoders have shown their frames the application was told, and only once   *)
(* (InterfacePlayerRDK.cpp:3612-3626 and 4119-4230).                          *)
THEOREM ToldOfFirstFrame == ElementsSpec => []FirstFrameTold
<1>1. ElementsIInv => FirstFrameTold
  <2> SUFFICES ASSUME ElementsIInv PROVE FirstFrameTold
    OBVIOUS
  <2>0. ElementTypes /\ SinksInUse /\ FramesTold /\ ToldOnce
    BY DEF ElementsIInv
  <2>1. firstFrame \in BOOLEAN /\ told = IF firstFrame THEN 1 ELSE 0
    BY <2>0 DEF ElementTypes, ToldOnce
  <2>2. ASSUME AtRest, pipeline = "PLAYING",
               \A e \in elements : e.stage = IF HasFirstFrame(e.name) THEN "SHOWN" ELSE "PAUSED",
               ~late, ~(StaleWesteros /\ ~rialto), VideoBin \in streams \/ (tracks = 1 /\ ~kept)
        PROVE  firstFrame
    <3>1. pipeline # "none" /\ ~stopping /\ ~Queued(<<"pipeline", 0>>, "PLAYING")
      <4>1. Len(busQueue) = 0 /\ ~stopping
        BY <2>2 DEF AtRest
      <4> QED
        BY <2>2, <4>1 DEF Queued
    <3>2. /\ rialto \/ socInterface.simulatorFirstFrame => firstFrame
          /\ socInterface.asksAudioBin /\ streams = {AudioBin} /\ tracks = 1 /\ ~kept => firstFrame
          /\ \A e \in elements : e.stage = "SHOWN" =>
               /\ "first-video-frame-callback" \in FirstFrameCallback(e.name) => firstFrame
               /\ FirstFrameCallback(e.name) \intersect AudioFrames # {} /\ tracks = 1 => firstFrame
      BY <2>0, <2>2, <3>1 DEF FramesTold
    <3>3. CASE ~rialto /\ ~socInterface.simulatorFirstFrame /\ VideoBin \in streams
      <4>1. PICK n \in VideoElements :
              HasFirstFrame(n) /\ "first-video-frame-callback" \in FirstFrameCallback(n)
        BY <2>0, <2>2, <3>1, <3>3, WhoTells
      <4>2. n \in ElementsOf(VideoBin)
        BY <4>1 DEF ElementsOf
      <4>3. PICK e \in elements : e.name = n
        BY <2>0, <3>3, <4>2 DEF SinksInUse
      <4> QED
        BY <2>2, <3>2, <4>1, <4>3
    <3>4. CASE ~rialto /\ ~socInterface.simulatorFirstFrame /\ VideoBin \notin streams
      <4>1. streams = {AudioBin} /\ tracks = 1 /\ ~kept
        BY <2>0, <2>2, <3>1, <3>4 DEF ElementTypes, SinksInUse
      <4>2. CASE ~socInterface.asksAudioBin
        <5>1. PICK n \in AudioElements :
                HasFirstFrame(n) /\ FirstFrameCallback(n) \intersect AudioFrames # {}
          BY <2>0, <2>2, <3>1, <3>4, <4>2, WhoTells
        <5>2. n \in ElementsOf(AudioBin)
          BY <5>1 DEF ElementsOf, VideoBin, AudioBin
        <5>3. PICK e \in elements : e.name = n
          BY <2>0, <4>1, <5>2 DEF SinksInUse
        <5> QED
          BY <2>2, <3>2, <4>1, <5>1, <5>3
      <4> QED
        BY <3>2, <4>1, <4>2
    <3> QED
      BY <3>2, <3>3, <3>4
  <2> QED
    BY <2>1, <2>2 DEF FirstFrameTold
<1> QED
  BY ElementsInvariant, <1>1, PTL

\* The elements that report underflows, with the player's sinks in use.
LEMMA WhoReports ==
  ASSUME ElementTypes, SinksInUse, pipeline # "none", ~StaleWesteros,
         NEW n \in ReportsVideoUnderflow
  PROVE  /\ NeedsUnderflow(n)
         /\ n \in (IF socInterface.sinkHandlesErrors THEN VideoSinks ELSE VideoDecoders)
<1>1. /\ platform \in Platforms /\ westeros \in BOOLEAN /\ rialto \in BOOLEAN
      /\ westeros => socWesteros
      /\ platform # "realtek" => (westeros <=> socWesteros)
      /\ ~(westeros /\ rialto)
      /\ platform = "amlogic" => westeros \/ rialto
  BY DEF ElementTypes, SinksInUse, SinkChoices, StaleWesteros
<1>2. n \in VideoElements /\ n \in {"westerossink", "rtkv1sink", "brcmvideodecoder", "rialtomsevideosink"}
  BY DEF ReportsVideoUnderflow
<1> USE DEF VideoSinks, VideoDecoders, Decoders, SocInterface, Only, NeedsUnderflow, ConnectsErrors, Rialto
<1>3. CASE rialto
  <2>1. n = "rialtomsevideosink" /\ n \in Rialto
    BY <1>2, <1>3 DEF VideoElements
  <2>2. CASE platform = "amlogic" /\ socInterface = AmlogicSocInterface
    BY <1>1, <1>3, <2>1, <2>2 DEF AmlogicSocInterface
  <2>3. CASE platform = "realtek" /\ socInterface = RealtekSocInterface
    BY <1>1, <1>3, <2>1, <2>3 DEF RealtekSocInterface
  <2>4. CASE platform = "brcm" /\ socInterface = BrcmSocInterface
    BY <1>1, <1>3, <2>1, <2>4 DEF BrcmSocInterface
  <2>5. CASE platform = "default" /\ socInterface = DefaultSocInterface
    BY <1>1, <1>3, <2>1, <2>5 DEF DefaultSocInterface
  <2> QED
    BY <1>1, <2>2, <2>3, <2>4, <2>5, KindsOfPlatforms
<1>4. CASE ~rialto
  <2>2. CASE platform = "amlogic" /\ socInterface = AmlogicSocInterface
    <3>1. n = "westerossink" /\ socWesteros
      BY <1>1, <1>2, <1>4, <2>2 DEF VideoElements
    <3> QED
      BY <1>4, <2>2, <3>1 DEF AmlogicSocInterface
  <2>3. CASE platform = "realtek" /\ socInterface = RealtekSocInterface
    <3>1. n \in {"westerossink", "rtkv1sink"}
      BY <1>2, <1>4, <2>3 DEF VideoElements
    <3> QED
      BY <1>4, <2>3, <3>1 DEF RealtekSocInterface
  <2>4. CASE platform = "brcm" /\ socInterface = BrcmSocInterface
    <3>1. CASE westeros
      <4>1. n = "westerossink" /\ socWesteros
        BY <1>1, <1>2, <1>4, <2>4, <3>1 DEF VideoElements
      <4> QED
        BY <1>4, <2>4, <4>1 DEF BrcmSocInterface
    <3>2. CASE ~westeros
      <4>1. n = "brcmvideodecoder" /\ ~socWesteros
        BY <1>1, <1>2, <1>4, <2>4, <3>2 DEF VideoElements
      <4> QED
        BY <1>4, <2>4, <4>1 DEF BrcmSocInterface
    <3> QED
      BY <3>1, <3>2
  <2>5. CASE platform = "default" /\ socInterface = DefaultSocInterface
    <3>1. n = "westerossink" /\ socWesteros
      BY <1>1, <1>2, <1>4, <2>5 DEF VideoElements
    <3> QED
      BY <1>4, <2>5, <3>1 DEF DefaultSocInterface
  <2> QED
    BY <1>1, <2>2, <2>3, <2>4, <2>5, KindsOfPlatforms
<1> QED
  BY <1>3, <1>4

(* bus_message connects the callback of underflows when it comes to the       *)
(* message of an element, which may be of a stream set up anew: when all is   *)
(* handled, an element that reports underflows of the video is connected, and *)
(* its callback is allowed and takes it for video (lines 3940-3968 and         *)
(* 4268-4300).                                                                *)
THEOREM UnderflowsAreHeard == ElementsSpec => []UnderflowHeard
<1>1. ElementsIInv => UnderflowHeard
  <2> SUFFICES ASSUME ElementsIInv, AtRest, ~StaleWesteros,
                      NEW e \in elements, e.stage # "NULL", e.name \in ReportsVideoUnderflow
               PROVE  /\ callbacksOn /\ <<Ref(e), Underflow>> \in callbacks
                      /\ e.name \in (IF socInterface.sinkHandlesErrors THEN VideoSinks
                                     ELSE VideoDecoders)
    BY DEF UnderflowHeard, Underflow
  <2>0. ElementTypes /\ SinksInUse /\ Connected
    BY DEF ElementsIInv
  <2>1. pipeline # "none" /\ ~stopping /\ ~Queued(Ref(e), "READY")
    <3>1. Len(busQueue) = 0
      BY DEF AtRest
    <3> QED
      BY <3>1 DEF AtRest, Queued
  <2>2. /\ NeedsUnderflow(e.name)
        /\ e.name \in (IF socInterface.sinkHandlesErrors THEN VideoSinks ELSE VideoDecoders)
    BY <2>0, <2>1, WhoReports
  <2>3. <<Ref(e), Underflow>> \in callbacks
    BY <2>0, <2>1, <2>2 DEF Connected
  <2> QED
    BY <2>0, <2>2, <2>3 DEF Connected
<1> QED
  BY ElementsInvariant, <1>1, PTL
=============================================================================
