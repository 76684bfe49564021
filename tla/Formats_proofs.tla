--------------------------- MODULE Formats_proofs ---------------------------
(***************************************************************************)
(* What is read from segments and texts: that subtitles are shown in the    *)
(* time of the playback, whatever the fragments and the time lines; and that *)
(* a segment's buffer has what was set in its boxes, however it is edited.   *)
(***************************************************************************)
EXTENDS TextPaths, IsoBoxes, SequenceTheorems, TLAPS

-----------------------------------------------------------------------------
(* The parsers.                                                            *)

TextTypes ==
  /\ m_isLinear \in BOOLEAN /\ m_parsedFirstPacket \in BOOLEAN /\ m_sentOffset \in BOOLEAN
  /\ played \in Int /\ offset \in [total : Int, first : Int, played : Int]

\* The base of the offset is a position that was injected.
FirstIsPosition == m_parsedFirstPacket => m_firstBeginOffset \in Positions

TextIInv == TextTypes /\ FirstIsPosition /\ OffsetOfPlayback

LEMMA TextInitial == TextInit => TextIInv
<1> SUFFICES ASSUME TextInit PROVE TextIInv
  OBVIOUS
<1>1. offset = [total |-> NO_OFFSET, first |-> 0, played |-> 0] /\ NO_OFFSET \in Int
  BY DEF TextInit, NO_OFFSET
<1>2. offset \in [total : Int, first : Int, played : Int] /\ offset.total = NO_OFFSET
  BY <1>1
<1> QED
  BY <1>2 DEF TextInit, TextIInv, TextTypes, FirstIsPosition, OffsetOfPlayback

\* What a processed fragment does: an offset that is sent is that of the playback.
LEMMA OffsetSent ==
  ASSUME TextIInv, NEW p \in Positions, NEW t \in BeginAt(p), ProcessTtml(p, t)
  PROVE  TextIInv'
<1>1. p \in Int /\ StartTime \in Int /\ Positions \subseteq Int
  BY TextTracksAssumption
<1> DEFINE parsed == m_parsedFirstPacket \/ m_isLinear
           first == IF m_parsedFirstPacket \/ ~m_isLinear THEN m_firstBeginOffset ELSE p
           sends == ~m_sentOffset /\ parsed /\ m_isLinear /\ t # NO_BEGIN
<1>2. /\ m_parsedFirstPacket' = parsed /\ m_firstBeginOffset' = first
      /\ m_sentOffset' = (m_sentOffset \/ sends)
      /\ offset' = IF sends THEN [total |-> TotalOffset(t, p, first), first |-> first,
                                  played |-> played] ELSE offset
      /\ UNCHANGED <<m_isLinear, played>>
  BY DEF ProcessTtml
<1>3. parsed => first \in Positions
  BY DEF TextIInv, TextTypes, FirstIsPosition
<1>4. OffsetOfPlayback' /\ offset' \in [total : Int, first : Int, played : Int]
  <2>1. CASE sends
    <3>1. t = StartTime + p /\ first \in Int /\ played \in Int
      BY <1>1, <1>3, <2>1 DEF BeginAt, TextIInv, TextTypes
    <3>2. TotalOffset(t, p, first) = StartTime + first + played
      BY <1>1, <3>1 DEF TotalOffset
    <3> QED
      BY <1>1, <1>2, <1>3, <2>1, <3>1, <3>2 DEF OffsetOfPlayback
  <2>2. CASE ~sends
    BY <1>2, <2>2 DEF TextIInv, TextTypes, OffsetOfPlayback
  <2> QED
    BY <2>1, <2>2
<1> QED
  BY <1>2, <1>3, <1>4 DEF TextIInv, TextTypes, FirstIsPosition

LEMMA TextKept == TextIInv /\ [TextNext]_textVars => TextIInv'
<1> SUFFICES ASSUME TextIInv, [TextNext]_textVars PROVE TextIInv'
  OBVIOUS
<1> USE DEF TextIInv, TextTypes, FirstIsPosition, OffsetOfPlayback, ttmlVars
<1>1. ASSUME NEW k \in TextKinds, Create(k) PROVE TextIInv'
  BY <1>1 DEF Create
<1>2. ASSUME NEW b \in BOOLEAN, isLinear(b) \/ mute(b) \/ pause(b) PROVE TextIInv'
  BY <1>2 DEF isLinear, mute, pause
<1>3. ASSUME NEW p \in Positions, InitParser(p) PROVE TextIInv'
  <2>1. offset' = [offset EXCEPT !.total = NO_OFFSET] /\ UNCHANGED <<m_isLinear, played>>
    BY <1>3 DEF InitParser
  <2>2. /\ m_parsedFirstPacket' \in BOOLEAN /\ m_sentOffset' \in BOOLEAN
        /\ m_parsedFirstPacket' => m_firstBeginOffset' \in Positions
    BY <1>3 DEF InitParser
  <2>3. offset' \in [total : Int, first : Int, played : Int] /\ offset'.total = NO_OFFSET
    BY <2>1 DEF NO_OFFSET
  <2> QED
    BY <2>1, <2>2, <2>3
<1>4. ASSUME NEW p \in Positions, updateTimestamp(p) PROVE TextIInv'
  BY <1>4 DEF updateTimestamp
<1>5. ASSUME NEW p \in Positions, NEW t \in BeginAt(p), ProcessTtml(p, t) PROVE TextIInv'
  BY <1>5, OffsetSent
<1>6. ASSUME NEW p \in Positions, NEW t \in BeginAt(p), ProcessOther(t) PROVE TextIInv'
  BY <1>6 DEF ProcessOther
<1>7. ASSUME NEW options \in Styles, setTextStyle(options) PROVE TextIInv'
  BY <1>7 DEF setTextStyle
<1>8. CASE reset
  BY <1>8 DEF reset
<1>9. CASE ProcessInit \/ UNCHANGED textVars
  BY <1>9 DEF ProcessInit, textVars
<1>10. CASE PlaybackMoves
  BY <1>10 DEF PlaybackMoves
<1> QED
  BY <1>1, <1>2, <1>3, <1>4, <1>5, <1>6, <1>7, <1>8, <1>9, <1>10 DEF TextNext

-----------------------------------------------------------------------------
(* The bin and its transforms.                                             *)

\* A product with a factor that is smaller by one at least.
LEMMA SmallerProduct ==
  ASSUME NEW e \in Nat, NEW n \in Nat, NEW q \in Nat, e + 1 <= n
  PROVE  e * q \in Nat /\ e * q + q <= q * n
<1>1. PICK k \in Nat : n = e + 1 + k
  <2>1. n - (e + 1) \in Nat /\ n = e + 1 + (n - (e + 1))
    OBVIOUS
  <2> QED
    BY <2>1
<1>2. q * n = e * q + q + k * q /\ k * q \in Nat /\ e * q \in Nat
  BY <1>1
<1> QED
  BY <1>2

\* The first text of each document is inside the fragment that documents share.
LEMMA DocumentsInside ==
  ASSUME NEW f \in Texts, f.first # NO_TEXT, NEW q, q = FragmentDuration \div f.docs,
         NEW e \in 0..(f.docs - 1)
  PROVE  /\ f.docs \in Nat \ {0} /\ f.pts \in Nat /\ FragmentDuration \in Nat
         /\ q \in Nat \ {0} /\ f.first \in 0..(q - 1)
         /\ e * q \in Nat /\ e * q + f.first <= FragmentDuration
         /\ f.first < FragmentDuration
<1>1. /\ f.docs \in Nat \ {0} /\ f.pts \in Nat /\ FragmentDuration \in Nat
      /\ f.first \in 0..(q - 1)
  BY SubtecBinAssumption
<1>2. q \in Nat /\ q * f.docs <= FragmentDuration
  BY <1>1
<1>3. e * q \in Nat /\ e * q + q <= q * f.docs
  BY <1>1, <1>2, SmallerProduct
<1>4. 0 \in Nat /\ 0 * q + q <= q * f.docs
  BY <1>1, <1>2, SmallerProduct
<1> QED
  BY <1>1, <1>2, <1>3, <1>4

BinTypes ==
  /\ binProperty \in [BinProperties -> 0..1] /\ sinkProperty \in [BinProperties -> 0..1]
  /\ setting = <<>> \/ \E p \in BinProperties, v \in 0..1 : setting = <<p, v>>
  /\ textCaps \in {"mp4", "ttml"} /\ line \in Lines
  /\ m_content_type \in {"UNKNOWN", "LINEAR_OFFSET", "PASSTHROUGH"}
  /\ passthrough \in BOOLEAN /\ fresh \in BOOLEAN /\ plain \in BOOLEAN

\* The content is decided by the first text after a flush, and passes for good
\* only after a text that had the time of its buffer.
ContentKnown ==
  textCaps = "mp4" =>
    /\ m_content_type = "UNKNOWN" => m_linear_begin_offset = 0 /\ (passthrough \/ fresh)
    /\ m_content_type = "PASSTHROUGH" => passthrough
    /\ passthrough => plain

InTime(r) == r.begin - r.offset \in r.pts..(r.pts + FragmentDuration)
RenderedInTime == LineIsFound => \A r \in rendered : InTime(r)

\* Once given, a property of the sink is the one that is about to be kept, or was.
PropertiesGiven ==
  found \in {"given", "linked", "failed"} =>
    \A p \in BinProperties \ crossed :
      sinkProperty[p] = IF setting # <<>> /\ setting[1] = p THEN setting[2] ELSE binProperty[p]

BinIInv == BinTypes /\ ContentKnown /\ RenderedInTime /\ PropertiesGiven

\* Only a time line that starts apart is more than a fragment away.
LEMMA ApartIsMisaligned ==
  ASSUME line \in Lines, NEW f \in Texts, f.first # NO_TEXT
  PROVE  /\ line.start \in Nat /\ line.restamp \in Nat
         /\ TextAhead(f) = line.start + line.restamp + f.first
         /\ Misaligned(f) <=> line.start # 0
<1>1. PICK q : q = FragmentDuration \div f.docs
  OBVIOUS
<1>2. f.docs \in Nat \ {0} /\ 0 \in 0..(f.docs - 1)
  BY SubtecBinAssumption
<1>3. /\ f.pts \in Nat /\ q \in Nat /\ f.first \in Nat /\ f.first < FragmentDuration
      /\ FragmentDuration \in Nat
  BY <1>1, <1>2, DocumentsInside
<1>4. /\ line.start \in Nat /\ line.restamp \in Nat
      /\ line.start = 0 \/ line.start > FragmentDuration
  BY <1>3, SubtecBinAssumption
<1>5. BeginIn(f, 0) = f.pts + line.start + line.restamp + f.first
  <2>1. BeginIn(f, 0) = f.pts + line.start + line.restamp + f.first + 0 * q
    BY <1>1 DEF BeginIn
  <2>2. 0 * q = 0
    BY <1>3
  <2> QED
    BY <1>3, <1>4, <2>1, <2>2
<1>6. TextAhead(f) = line.start + line.restamp + f.first
  BY <1>3, <1>4, <1>5 DEF TextAhead
<1>7. Misaligned(f) <=> line.start + f.first > FragmentDuration
  BY <1>3, <1>4, <1>6 DEF Misaligned, Abs
<1> QED
  BY <1>3, <1>4, <1>6, <1>7

\* What the element holds after the first text of a fragment.
LEMMA OffsetFound ==
  ASSUME BinTypes, ContentKnown, textCaps = "mp4", NEW f \in Texts, HasText(f),
         BeforeTransform(f)
  PROVE  /\ m_content_type' \in {"UNKNOWN", "LINEAR_OFFSET", "PASSTHROUGH"}
         /\ passthrough' \in BOOLEAN
         /\ m_content_type' = "UNKNOWN" => m_linear_begin_offset' = 0 /\ passthrough'
         /\ m_content_type' = "PASSTHROUGH" => passthrough'
         /\ passthrough' /\ ~passthrough => fresh /\ line.start = 0 /\ line.restamp = 0
         /\ ~passthrough' => m_linear_begin_offset' =
              IF line.start = 0 THEN line.restamp ELSE line.start + line.restamp + f.first
<1>1. f.first # NO_TEXT
  BY DEF HasText
<1>2. /\ line.start \in Nat /\ line.restamp \in Nat
      /\ TextAhead(f) = line.start + line.restamp + f.first
      /\ Misaligned(f) <=> line.start # 0
  BY <1>1, ApartIsMisaligned DEF BinTypes
<1>3. CASE passthrough
  BY <1>3 DEF BeforeTransform, viperVars, BinTypes, ContentKnown
<1>4. CASE ~passthrough
  <2>1. CASE m_content_type = "UNKNOWN"
    <3>1. m_linear_begin_offset = 0 /\ fresh
      BY <1>4, <2>1 DEF ContentKnown
    <3>2. CASE Misaligned(f)
      BY <1>2, <1>4, <2>1, <3>1, <3>2 DEF BeforeTransform, BinTypes
    <3>3. CASE ~Misaligned(f) /\ line.restamp # 0
      BY <1>2, <1>4, <2>1, <3>1, <3>3 DEF BeforeTransform, BinTypes
    <3>4. CASE ~Misaligned(f) /\ line.restamp = 0
      BY <1>2, <1>4, <2>1, <3>1, <3>4 DEF BeforeTransform, BinTypes
    <3> QED
      BY <3>2, <3>3, <3>4
  <2>2. CASE m_content_type = "LINEAR_OFFSET"
    BY <1>2, <1>4, <2>2 DEF BeforeTransform, LinearOffset, BinTypes
  <2> QED
    BY <1>4, <2>1, <2>2 DEF BinTypes, ContentKnown
<1> QED
  BY <1>3, <1>4 DEF BinTypes

\* A text of document e has the time of its fragment once what the time line is
\* ahead is deducted, in either of the two ways.
LEMMA DeductedInTime ==
  ASSUME line \in Lines, NEW f \in Texts, f.first # NO_TEXT, NEW e \in 0..(f.docs - 1),
         NEW o, \/ o = line.start + line.restamp + f.first
                \/ o = line.restamp /\ line.start = 0
  PROVE  InTime([begin |-> BeginIn(f, e), pts |-> f.pts, offset |-> o])
<1>1. PICK q : q = FragmentDuration \div f.docs
  OBVIOUS
<1>2. /\ f.pts \in Nat /\ FragmentDuration \in Nat /\ f.first \in Nat
      /\ e * q \in Nat /\ e * q + f.first <= FragmentDuration
  BY <1>1, DocumentsInside
<1>3. line.start \in Nat /\ line.restamp \in Nat
  BY ApartIsMisaligned
<1>4. BeginIn(f, e) = f.pts + line.start + line.restamp + f.first + e * q
  BY <1>1 DEF BeginIn
<1>5. PICK d : d = e * q
  OBVIOUS
<1>6. BeginIn(f, e) - o \in f.pts..(f.pts + FragmentDuration)
  <2>1. BeginIn(f, e) = f.pts + line.start + line.restamp + f.first + d
    BY <1>4, <1>5
  <2>2. d \in Nat /\ d + f.first <= FragmentDuration
    BY <1>2, <1>5
  <2> QED
    BY <1>2, <1>3, <2>1, <2>2
<1> QED
  BY <1>6 DEF InTime

\* Documents without an offset go out with one each: then more than one is rendered.
LEMMA DocumentsApart ==
  ASSUME NEW f \in Texts, f.first # NO_TEXT, f.docs # 1, ~passthrough',
         m_linear_begin_offset' = 0
  PROVE  \E r, s \in Transformed(f) : r # s
<1>1. PICK q : q = FragmentDuration \div f.docs
  OBVIOUS
<1>2. f.docs \in Nat \ {0, 1} /\ {0, 1} \subseteq 0..(f.docs - 1) /\ f.pts \in Nat
  BY SubtecBinAssumption
<1>3. q \in Nat \ {0}
  BY <1>1, <1>2, DocumentsInside
<1> DEFINE Doc(e, d) == [begin |-> BeginIn(f, e), pts |-> f.pts, offset |-> -(f.pts + d * q)]
           Sent(d) == {Doc(e, d) : e \in Split(f, d)}
<1>4. Transformed(f) = UNION {Sent(d) : d \in 0..(f.docs - 1)}
  BY <1>1 DEF Transformed
<1>5. Doc(0, 0) \in Transformed(f) /\ Doc(1, 1) \in Transformed(f)
  <2>1. 0 \in Split(f, 0) /\ 1 \in Split(f, 1)
    BY <1>2 DEF Split
  <2>2. Doc(0, 0) \in Sent(0) /\ Doc(1, 1) \in Sent(1)
    BY <2>1
  <2> QED
    BY <1>2, <1>4, <2>2
<1>6. Doc(0, 0) # Doc(1, 1)
  <2>1. Doc(0, 0).offset = -(f.pts + 0 * q) /\ Doc(1, 1).offset = -(f.pts + 1 * q)
    OBVIOUS
  <2>2. -(f.pts + 0 * q) # -(f.pts + 1 * q)
    BY <1>2, <1>3
  <2> QED
    BY <2>1, <2>2
<1> QED
  BY <1>5, <1>6

LEMMA InjectedInTime ==
  ASSUME BinIInv, NEW f \in Texts, InjectText(f)
  PROVE  BinTypes' /\ ContentKnown' /\ RenderedInTime'
<1>1. /\ UNCHANGED <<binVars, line>> /\ fresh' = (fresh /\ ~HasText(f))
      /\ plain' = (plain \/ (fresh /\ HasText(f) /\ line.start = 0 /\ line.restamp = 0))
  BY DEF InjectText
<1>2. line \in Lines /\ textCaps \in {"mp4", "ttml"}
  BY DEF BinIInv, BinTypes
<1>3. CASE textCaps = "ttml"
  <2>1. UNCHANGED viperVars
    BY <1>3 DEF InjectText
  <2>2. BinTypes' /\ ContentKnown'
    BY <1>1, <1>3, <2>1 DEF BinIInv, BinTypes, ContentKnown, binVars, viperVars
  <2>3. ASSUME LineIsFound', NEW r \in rendered' PROVE InTime(r)
    <3>1. line.start = 0
      BY <1>1, <1>3, <2>3 DEF LineIsFound, binVars
    <3>2. f.first # NO_TEXT
      BY <1>3, <2>3 DEF InjectText, HasText
    <3>3. PICK e \in 0..(f.docs - 1) :
            r = [begin |-> BeginIn(f, e), pts |-> f.pts, offset |-> line.restamp]
      BY <1>3, <2>3 DEF InjectText
    <3> QED
      BY <1>2, <3>1, <3>2, <3>3, DeductedInTime
  <2> QED
    BY <2>2, <2>3 DEF RenderedInTime, InTime
<1>4. CASE textCaps = "mp4" /\ ~HasText(f)
  <2>1. UNCHANGED viperVars /\ rendered' = {}
    BY <1>4 DEF InjectText, BeforeTransform
  <2> QED
    BY <1>1, <1>4, <2>1 DEF BinIInv, BinTypes, ContentKnown, RenderedInTime, binVars, viperVars
<1>5. CASE textCaps = "mp4" /\ HasText(f)
  <2>1. BeforeTransform(f) /\ rendered' = Transformed(f) /\ f.first # NO_TEXT
    BY <1>5 DEF InjectText, HasText
  <2>2. /\ m_content_type' \in {"UNKNOWN", "LINEAR_OFFSET", "PASSTHROUGH"}
        /\ passthrough' \in BOOLEAN
        /\ m_content_type' = "UNKNOWN" => m_linear_begin_offset' = 0 /\ passthrough'
        /\ m_content_type' = "PASSTHROUGH" => passthrough'
        /\ passthrough' /\ ~passthrough => fresh /\ line.start = 0 /\ line.restamp = 0
        /\ ~passthrough' => m_linear_begin_offset' =
             IF line.start = 0 THEN line.restamp ELSE line.start + line.restamp + f.first
    BY <1>5, <2>1, OffsetFound DEF BinIInv
  <2>3. BinTypes'
    BY <1>1, <2>2 DEF BinIInv, BinTypes, binVars
  <2>4. ContentKnown'
    BY <1>1, <1>5, <2>2 DEF BinIInv, BinTypes, ContentKnown, binVars
  <2>5. line.start \in Nat /\ line.restamp \in Nat /\ f.first \in Nat
    <3>1. f.first \in Nat
      BY <2>1, SubtecBinAssumption
    <3> QED
      BY <1>2, <2>1, <3>1, ApartIsMisaligned
  <2>6. ~passthrough' /\ line.start = 0 => m_linear_begin_offset' = line.restamp
    BY <2>2
  <2>7. ~passthrough' /\ line.start # 0 =>
          m_linear_begin_offset' = line.start + line.restamp + f.first
    BY <2>2
  <2>8. line.start # 0 => line.start + line.restamp + f.first # 0
    BY <2>5
  <2>9. ASSUME LineIsFound', NEW r \in rendered' PROVE InTime(r)
    <3>1. passthrough' => line.start = 0
      BY <1>1, <1>5, <2>4, <2>9 DEF LineIsFound, ContentKnown, binVars
    <3>2. CASE passthrough' \/ f.docs = 1
      <4>1. PICK e \in 0..(f.docs - 1) :
              r = [begin |-> BeginIn(f, e), pts |-> f.pts,
                   offset |-> IF passthrough' \/ m_linear_begin_offset' = 0
                              THEN line.restamp ELSE m_linear_begin_offset']
        BY <2>1, <2>9, <3>2 DEF Transformed
      <4>2. PICK o : o = IF passthrough' \/ m_linear_begin_offset' = 0
                         THEN line.restamp ELSE m_linear_begin_offset'
        OBVIOUS
      <4>3. \/ o = line.start + line.restamp + f.first
            \/ o = line.restamp /\ line.start = 0
        BY <2>6, <2>7, <2>8, <3>1, <4>2
      <4>4. InTime([begin |-> BeginIn(f, e), pts |-> f.pts, offset |-> o])
        BY <1>2, <2>1, <4>3, DeductedInTime
      <4> QED
        BY <4>1, <4>2, <4>4
    <3>3. CASE ~passthrough' /\ f.docs # 1 /\ m_linear_begin_offset' # 0
      <4>1. PICK o : o = m_linear_begin_offset'
        OBVIOUS
      <4>2. PICK e \in 0..(f.docs - 1) :
              r = [begin |-> BeginIn(f, e), pts |-> f.pts, offset |-> o]
        BY <2>1, <2>9, <3>3, <4>1 DEF Transformed, Split
      <4>3. \/ o = line.start + line.restamp + f.first
            \/ o = line.restamp /\ line.start = 0
        BY <2>6, <2>7, <3>3, <4>1
      <4> QED
        BY <1>2, <2>1, <4>2, <4>3, DeductedInTime
    <3>4. CASE ~passthrough' /\ f.docs # 1 /\ m_linear_begin_offset' = 0
      <4>1. line.start = 0 /\ line.restamp = 0
        BY <2>6, <2>7, <2>8, <3>4
      <4>2. \E x, y \in rendered' : x # y
        BY <2>1, <3>4, DocumentsApart
      <4>3. ~LineIsFound'
        BY <1>1, <4>1, <4>2 DEF LineIsFound
      <4> QED
        BY <2>9, <4>3
    <3> QED
      BY <3>2, <3>3, <3>4
  <2> QED
    BY <2>3, <2>4, <2>9 DEF RenderedInTime, InTime
<1> QED
  BY <1>2, <1>3, <1>4, <1>5

LEMMA BinInitial == SubtecBinInit => BinIInv
<1> SUFFICES ASSUME SubtecBinInit PROVE BinIInv
  OBVIOUS
<1>1. /\ binProperty = [p \in BinProperties |-> 0] /\ sinkProperty = [p \in BinProperties |-> 0]
      /\ 0 \in 0..1
  BY DEF SubtecBinInit
<1>2. binProperty \in [BinProperties -> 0..1] /\ sinkProperty \in [BinProperties -> 0..1]
  BY <1>1
<1>3. BinTypes
  BY <1>2 DEF SubtecBinInit, BinTypes
<1>4. ContentKnown /\ PropertiesGiven
  BY DEF SubtecBinInit, ContentKnown, PropertiesGiven
<1>5. RenderedInTime
  BY DEF SubtecBinInit, RenderedInTime
<1> QED
  BY <1>3, <1>4, <1>5 DEF BinIInv

\* The application and type_found: a property that is set while they are handed
\* over is the one that crossed.
LEMMA PropertiesKept ==
  ASSUME BinTypes, PropertiesGiven,
         \/ \E p \in BinProperties, v \in 0..1 : SetOnSink(p, v)
         \/ KeepProperty \/ MakeSink \/ GiveProperties \/ LinkChain
  PROVE  /\ UNCHANGED <<textCaps, textInVars>>
         /\ binProperty' \in [BinProperties -> 0..1] /\ sinkProperty' \in [BinProperties -> 0..1]
         /\ (setting = <<>> \/ \E p \in BinProperties, v \in 0..1 : setting = <<p, v>>)'
         /\ PropertiesGiven'
<1>1. ASSUME NEW p \in BinProperties, NEW v \in 0..1, SetOnSink(p, v)
      PROVE  /\ UNCHANGED <<textCaps, textInVars>>
             /\ binProperty' \in [BinProperties -> 0..1]
             /\ sinkProperty' \in [BinProperties -> 0..1]
             /\ setting' = <<p, v>>
             /\ PropertiesGiven'
  <2>1. /\ setting = <<>> /\ setting' = <<p, v>>
        /\ UNCHANGED <<found, textCaps, binProperty, crossed, textInVars>>
        /\ sinkProperty' = IF found = "no" THEN sinkProperty ELSE [sinkProperty EXCEPT ![p] = v]
    BY <1>1 DEF SetOnSink
  <2>2. setting' # <<>> /\ setting'[1] = p /\ setting'[2] = v
    BY <2>1
  <2>3. binProperty' \in [BinProperties -> 0..1] /\ sinkProperty' \in [BinProperties -> 0..1]
    BY <2>1 DEF BinTypes
  <2>4. PropertiesGiven'
    BY <2>1, <2>2 DEF BinTypes, PropertiesGiven
  <2> QED
    BY <2>1, <2>3, <2>4
<1>2. CASE KeepProperty
  <2>1. PICK p \in BinProperties, v \in 0..1 : setting = <<p, v>>
    BY <1>2 DEF KeepProperty, BinTypes
  <2>2. /\ setting # <<>> /\ setting[1] = p /\ setting[2] = v /\ setting' = <<>>
        /\ binProperty' = [binProperty EXCEPT ![p] = v]
        /\ UNCHANGED <<found, textCaps, sinkProperty, crossed, textInVars>>
    BY <1>2, <2>1 DEF KeepProperty
  <2>3. binProperty' \in [BinProperties -> 0..1]
    BY <2>2 DEF BinTypes
  <2>4. PropertiesGiven'
    BY <2>2 DEF BinTypes, PropertiesGiven
  <2> QED
    BY <2>2, <2>3, <2>4 DEF BinTypes
<1>3. CASE MakeSink
  BY <1>3 DEF MakeSink, BinTypes, PropertiesGiven
<1>4. CASE GiveProperties
  <2>1. /\ found' = "given" /\ sinkProperty' = binProperty
        /\ crossed' = IF setting = <<>> THEN {} ELSE {setting[1]}
        /\ UNCHANGED <<textCaps, binProperty, setting, textInVars>>
    BY <1>4 DEF GiveProperties
  <2>2. PropertiesGiven'
    BY <2>1 DEF PropertiesGiven
  <2> QED
    BY <2>1, <2>2 DEF BinTypes
<1>5. CASE LinkChain
  BY <1>5 DEF LinkChain, BinTypes, PropertiesGiven
<1> QED
  BY <1>1, <1>2, <1>3, <1>4, <1>5

LEMMA BinKept == BinIInv /\ [SubtecBinNext]_subtecBinVars => BinIInv'
<1> SUFFICES ASSUME BinIInv, [SubtecBinNext]_subtecBinVars PROVE BinIInv'
  OBVIOUS
<1>1. CASE \/ \E p \in BinProperties, v \in 0..1 : SetOnSink(p, v)
           \/ KeepProperty \/ MakeSink \/ GiveProperties \/ LinkChain
  <2>1. /\ UNCHANGED <<textCaps, textInVars>>
        /\ binProperty' \in [BinProperties -> 0..1] /\ sinkProperty' \in [BinProperties -> 0..1]
        /\ (setting = <<>> \/ \E p \in BinProperties, v \in 0..1 : setting = <<p, v>>)'
        /\ PropertiesGiven'
    BY <1>1, PropertiesKept DEF BinIInv
  <2>2. BinTypes'
    BY <2>1 DEF BinIInv, BinTypes, textInVars, viperVars
  <2>3. ContentKnown' /\ RenderedInTime'
    BY <2>1 DEF BinIInv, ContentKnown, RenderedInTime, InTime, LineIsFound, textInVars, viperVars
  <2> QED
    BY <2>1, <2>2, <2>3 DEF BinIInv
<1>2. ASSUME NEW f \in Texts, InjectText(f) PROVE BinIInv'
  <2>1. BinTypes' /\ ContentKnown' /\ RenderedInTime'
    BY <1>2, InjectedInTime
  <2>2. PropertiesGiven'
    BY <1>2 DEF InjectText, BinIInv, PropertiesGiven, binVars
  <2> QED
    BY <2>1, <2>2 DEF BinIInv
<1>3. CASE FlushText
  BY <1>3 DEF FlushText, BinIInv, BinTypes, ContentKnown, RenderedInTime, PropertiesGiven, binVars
<1>4. CASE SetTextCaps
  <2>1. BinTypes' /\ ContentKnown' /\ PropertiesGiven'
    BY <1>4 DEF SetTextCaps, BinIInv, BinTypes, ContentKnown, PropertiesGiven, binVars
  <2>2. RenderedInTime'
    BY <1>4 DEF SetTextCaps, BinIInv, RenderedInTime, InTime, LineIsFound, binVars
  <2> QED
    BY <2>1, <2>2 DEF BinIInv
<1>5. CASE ChangeLine
  BY <1>5 DEF ChangeLine, BinIInv, BinTypes, ContentKnown, RenderedInTime, PropertiesGiven, binVars,
              viperVars
<1>6. CASE UNCHANGED subtecBinVars
  <2>1. BinTypes' /\ ContentKnown' /\ PropertiesGiven'
    BY <1>6 DEF BinIInv, BinTypes, ContentKnown, PropertiesGiven, subtecBinVars, binVars,
                textInVars, viperVars
  <2>2. RenderedInTime'
    BY <1>6 DEF BinIInv, RenderedInTime, InTime, LineIsFound, subtecBinVars, binVars, textInVars
  <2> QED
    BY <2>1, <2>2 DEF BinIInv
<1> QED
  BY <1>1, <1>2, <1>3, <1>4, <1>5, <1>6 DEF SubtecBinNext

\* TtmlSubtecParser.cpp:147-182, gstvipertransform.cpp:357-443 and gstsubtecbin.cpp:130-239:
\* for any fragments and time lines, a parser sends the offset of the position
\* where the playback began, the transforms hand on each text in the time of
\* its fragment, and the sink has the properties of the bin.
THEOREM SubtitlesInTime == TextPathsSpec => []TextInTime
<1>1. TextPathsInit => TextIInv /\ BinIInv
  BY TextInitial, BinInitial DEF TextPathsInit
<1>2. TextIInv /\ BinIInv /\ [TextPathsNext]_<<textVars, subtecBinVars>> => (TextIInv /\ BinIInv)'
  BY TextKept, BinKept DEF TextPathsNext
<1>3. TextIInv /\ BinIInv => TextInTime
  BY DEF TextInTime, TextIInv, BinIInv, ShownInFragment, RenderedInTime, InTime, PropertiesGiven
<1> QED
  BY <1>1, <1>2, <1>3, PTL DEF TextPathsSpec

-----------------------------------------------------------------------------
(* The boxes of a segment: what is known of them.                          *)

Editable == FullBoxes \union {"mdat"}

\* The fields of an object.
IsBox(o) ==
  o = [type |-> o.type, at |-> o.at, offset |-> o.offset, size |-> o.size,
       whole |-> o.whole, fields |-> o.fields]

\* The place of a box that was read as l, in a buffer of size n (PlaceSize).
Place(l, n) == IF l.at + l.size <= n THEN l.size ELSE n - l.at

\* A box of this type is read at `at`; a skip box fills what is left of its place.
HeaderKnown(b, at, P, type) ==
  /\ {at, at + 4} \subseteq DOMAIN b
  /\ b[at] \in HEADER..P /\ b[at + 4] = type
  /\ b[at] # P =>
       /\ b[at] + HEADER <= P
       /\ {at + b[at], at + b[at] + 4} \subseteq DOMAIN b
       /\ b[at + b[at]] = P - b[at] /\ b[at + b[at] + 4] = "skip"

\* Fields of an object of each type, and where the buffer has them: in the part
\* of the box that its size covers.
ScaleKnown(b, at, f) ==
  LET loc == at + 12 + Times(b, at + 8) IN
  /\ at + 8 \in DOMAIN b
  /\ f = [timeScale |-> f.timeScale, timeScale_loc |-> loc]
  /\ loc + 4 <= at + b[at]
  /\ Read(b, loc) = f.timeScale % WORD

TimeKnown(b, at, f) ==
  /\ at + 8 \in DOMAIN b
  /\ f = [version |-> Version(b, at + 8), baseMDT |-> f.baseMDT, baseMDT_loc |-> at + 12]
  /\ 16 <= b[at]
  /\ Read(b, at + 12) = (IF f.version = 1 THEN f.baseMDT ELSE f.baseMDT % WORD)

DefaultAt(at, flags) ==
  at + 16 + 2 * Word("base-data-offset" \in flags) + Word("sample-description-index" \in flags)

DefaultKnown(b, at, f) ==
  /\ at + 8 \in DOMAIN b
  /\ f = [flags |-> Flags(b, at + 8),
          default_sample_duration_loc |->
            IF "default-sample-duration" \in f.flags THEN DefaultAt(at, f.flags) ELSE 0,
          mDefaultSampleDuration |-> f.mDefaultSampleDuration,
          mDefaultSampleSize |-> f.mDefaultSampleSize]
  /\ 12 <= b[at]
  /\ "default-sample-duration" \in f.flags =>
       /\ DefaultAt(at, f.flags) + 4 <= at + b[at]
       /\ Read(b, DefaultAt(at, f.flags)) = f.mDefaultSampleDuration % WORD
  /\ "default-sample-duration" \notin f.flags => f.mDefaultSampleDuration = 0

TableAt(at, flags) ==
  at + 16 + Word("data-offset" \in flags) + Word("first-sample-flags" \in flags)

\* S has the addresses of the boxes whose first sample was given a duration.
RunKnown(b, at, f, S) ==
  /\ at + 8 \in DOMAIN b
  /\ f = [flags |-> Flags(b, at + 8), sample_count |-> f.sample_count,
          sample_count_loc |-> at + 12,
          first_sample_duration_loc |-> f.first_sample_duration_loc,
          duration |-> f.duration, mFirstSampleSize |-> f.mFirstSampleSize]
  /\ f.sample_count \in Nat /\ Read(b, at + 12) = f.sample_count
  /\ f.first_sample_duration_loc =
       (IF "sample-duration" \in f.flags /\ f.sample_count > 0 THEN TableAt(at, f.flags) ELSE 0)
  /\ TableAt(at, f.flags) + f.sample_count * BytesPerSample(f.flags) <= at + b[at]
  /\ f.mFirstSampleSize \in Nat
  /\ f.mFirstSampleSize =
       (IF "sample-size" \in f.flags /\ f.sample_count > 0
        THEN Read(b, TableAt(at, f.flags) + Word("sample-duration" \in f.flags)) ELSE 0)
  /\ at \in S => /\ "sample-duration" \in f.flags /\ f.sample_count > 0
                    /\ f.duration \in Nat
                    /\ Read(b, TableAt(at, f.flags)) = f.duration % WORD

EncryptionKnown(b, at, f) ==
  /\ f = [numSamples |-> f.numSamples, sampleCountLoc |-> at + 12]
  /\ 16 <= b[at] /\ f.numSamples \in Nat
  /\ Read(b, at + 12) = f.numSamples

\* The first sample's size is never edited.
SizesKnown(b, at, f, first) ==
  LET a == at + 12 + 2 * Word("aux-info-type" \in Flags(b, at + 8)) IN
  /\ at + 8 \in DOMAIN b
  /\ f = [numSamples |-> f.numSamples, sampleCountLoc |-> a + 1,
          firstSampleInfoSize |-> first]
  /\ f.numSamples \in Nat \ {0} /\ first \in Nat
  /\ a + 5 + f.numSamples <= at + b[at]
  /\ Read(b, a) = 0 /\ Read(b, a + 1) = f.numSamples /\ Read(b, a + 5) = first

\* What is known of the fields of a box in a place of P bytes that was read as l.
\* A table is truncated at most once: with several samples, nothing was cut off.
FieldsKnown(b, P, o, l, S) ==
  /\ o.type \in {"mvhd", "mdhd"} => ScaleKnown(b, o.at, o.fields)
  /\ o.type = "tfdt" => TimeKnown(b, o.at, o.fields)
  /\ o.type = "tfhd" => DefaultKnown(b, o.at, o.fields)
  /\ o.type = "trun" => /\ RunKnown(b, o.at, o.fields, S) /\ o.size = b[o.at]
                        /\ o.fields.sample_count > 1 => b[o.at] = P
  /\ o.type = "senc" => /\ EncryptionKnown(b, o.at, o.fields) /\ o.size = l.size
                        /\ o.fields.sampleCountLoc = l.fields.sampleCountLoc
                        /\ o.fields.numSamples > 1 => /\ b[o.at] = P
                                                      /\ o.fields.numSamples = l.fields.numSamples
  /\ o.type = "saiz" => /\ SizesKnown(b, o.at, o.fields, l.fields.firstSampleInfoSize)
                        /\ o.size = l.size /\ (o.fields.numSamples > 1 => b[o.at] = P)
  /\ o.type = "mdat" => o.size = b[o.at] /\ b[o.at] = P

\* A box of a type that is edited, and one of the others, which stays as it was.
EditedKnown(b, P, o, l, S) ==
  /\ o.type \in {l.type, "skip"} /\ o.whole
  /\ HeaderKnown(b, l.at, P, o.type) /\ FieldsKnown(b, P, o, l, S)

PlainKnown(b, P, o, l) ==
  /\ o = l
  /\ constructBox(b, l.at, P, l.offset).type = l.type /\ constructBox(b, l.at, P, l.offset).size = P

\* The object o knows what the buffer b of n bytes has where l was read.
Known(b, n, o, l, S) ==
  /\ IsBox(o) /\ o.at = l.at /\ l.at \in Nat /\ l.size \in Nat
  /\ l.type # "mdat" => l.at + l.size <= n
  /\ IF l.type \in Editable THEN EditedKnown(b, Place(l, n), o, l, S)
     ELSE PlainKnown(b, Place(l, n), o, l)

\* Who reads a box of this size in its place finds a skip box behind it.
RestSkipped(b, at, P, size) ==
  size # P => LET rest == constructBox(b, at + size, P - size, 0)
              IN rest.type = "skip" /\ rest.size = P - size

\* How the boxes lie.
InOrder(all) ==
  /\ \A i, j \in DOMAIN all : i < j => OwnEnd(all[i]) <= all[j].at
  /\ \A i, j \in DOMAIN all : i < j /\ all[j].type = "mdat" => all[i].at + all[i].size <= all[j].at
  /\ \A i, j \in DOMAIN all :
       all[i].type = "senc" /\ all[j].type = "saiz" /\ all[i].fields.numSamples > 1 =>
         all[i].fields.sampleCountLoc + 4 + all[j].fields.firstSampleInfoSize
           <= all[i].at + all[i].size

\* For the length and the order of the boxes.
IsSequence(s) == \E S : s \in Seq(S)

\* All objects know their boxes.
ObjectsKnown ==
  /\ bufSize \in 0..(WORD - 1)
  /\ IsSequence(boxes) /\ DOMAIN laid = DOMAIN boxes
  /\ InOrder(laid)
  /\ \A i \in DOMAIN boxes : Known(buffer, bufSize, boxes[i], laid[i], stamped)

\* Inductive: what a whole segment's objects know, in terms of the buffer itself.
BoxesIInv == chunkedBox = 0 => boxes = <<>> \/ ObjectsKnown

-----------------------------------------------------------------------------
(* Buffers.                                                                *)

LEMMA SmallRemainder ==
  ASSUME NEW W \in Nat, NEW x \in 0..(W - 1) PROVE x % W = x
OBVIOUS

\* Outside of [from, to).
SameBut(b, c, from, to) ==
  \A a \in Nat : a < from \/ to <= a =>
    (a \in DOMAIN c <=> a \in DOMAIN b) /\ (a \in DOMAIN b => c[a] = b[a])

\* A written field is read, and what is four bytes away is not touched.
LEMMA Written4 ==
  ASSUME NEW b, NEW a \in Nat, NEW x
  PROVE  /\ a \in DOMAIN Write32(b, a, x) /\ Write32(b, a, x)[a] = x
         /\ Read(Write32(b, a, x), a) = x
         /\ SameBut(b, Write32(b, a, x), a, a + 4)
<1>1. a \in DOMAIN Write32(b, a, x) /\ Write32(b, a, x)[a] = x
  BY DEF Write32
<1>2. SameBut(b, Write32(b, a, x), a, a + 4)
  BY DEF Write32, SameBut
<1> QED
  BY <1>1, <1>2 DEF Read

LEMMA SameButTrans ==
  ASSUME NEW b, NEW c, NEW d, NEW from \in Nat, NEW to \in Nat,
         SameBut(b, c, from, to), SameBut(c, d, from, to)
  PROVE SameBut(b, d, from, to)
BY DEF SameBut

LEMMA SameButWider ==
  ASSUME NEW b, NEW c, NEW from \in Nat, NEW to \in Nat, NEW lo \in Nat, NEW hi \in Nat,
         lo <= from, to <= hi, SameBut(b, c, from, to)
  PROVE SameBut(b, c, lo, hi)
BY DEF SameBut

LEMMA ReadOutside ==
  ASSUME NEW b, NEW c, NEW from \in Nat, NEW to \in Nat,
         SameBut(b, c, from, to), NEW a \in Nat, a < from \/ to <= a
  PROVE /\ a \in DOMAIN c <=> a \in DOMAIN b
        /\ a \in DOMAIN b => c[a] = b[a]
        /\ Read(c, a) = Read(b, a)
BY DEF SameBut, Read

\* Another box in the sequence.
LEMMA SequenceEdited ==
  ASSUME NEW s, IsSequence(s), NEW i \in DOMAIN s, NEW x, NEW t, t = [s EXCEPT ![i] = x]
  PROVE  /\ IsSequence(t) /\ DOMAIN t = DOMAIN s /\ Len(t) = Len(s) /\ DOMAIN s = 1..Len(s)
         /\ t[i] = x /\ \A j \in DOMAIN s : j # i => t[j] = s[j]
<1>1. PICK S : s \in Seq(S)
  BY DEF IsSequence
<1>2. DOMAIN s = 1..Len(s)
  BY <1>1, LenProperties
<1>3. s \in Seq(S \union {x})
  BY <1>1, SeqMonotonic
<1>4. t \in Seq(S \union {x}) /\ Len(t) = Len(s)
  BY <1>2, <1>3, ExceptSeq
<1> QED
  BY <1>2, <1>4 DEF IsSequence

\* Inside of [from, to).
SameIn(b, c, from, to) ==
  \A a \in Nat : from <= a /\ a < to =>
    /\ a \in DOMAIN c <=> a \in DOMAIN b
    /\ a \in DOMAIN b => c[a] = b[a]
    /\ Read(c, a) = Read(b, a)

LEMMA SameInside ==
  ASSUME NEW b, NEW c, NEW from \in Nat, NEW to \in Nat, SameBut(b, c, from, to),
         NEW lo \in Nat, NEW hi \in Nat, hi <= from \/ to <= lo
  PROVE  SameIn(b, c, lo, hi)
BY ReadOutside DEF SameIn

LEMMA SameInPart ==
  ASSUME NEW b, NEW c, NEW from \in Nat, NEW to \in Nat, SameIn(b, c, from, to),
         NEW lo \in Nat, NEW hi \in Nat, from <= lo, hi <= to
  PROVE  SameIn(b, c, lo, hi)
BY DEF SameIn

LEMMA SameCell ==
  ASSUME NEW b, NEW c, NEW from \in Nat, NEW to \in Nat, SameIn(b, c, from, to),
         NEW a \in Nat, from <= a, a < to
  PROVE  /\ a \in DOMAIN c <=> a \in DOMAIN b
         /\ a \in DOMAIN b => c[a] = b[a]
         /\ Read(c, a) = Read(b, a)
BY DEF SameIn

\* Optional fields have four bytes or none.
LEMMA Widths ==
  ASSUME NEW condition PROVE Word(condition) \in Nat /\ Word(condition) \in {0, 4}
BY DEF Word

LEMMA TimeWidths ==
  ASSUME NEW b, NEW p PROVE Times(b, p) \in Nat /\ Times(b, p) \in {8, 16}
BY DEF Times

LEMMA TableWidths ==
  ASSUME NEW flags, NEW at \in Nat
  PROVE  /\ BytesPerSample(flags) \in Nat /\ TableAt(at, flags) \in Nat
         /\ DefaultAt(at, flags) \in Nat
         /\ at + 16 <= TableAt(at, flags) /\ at + 16 <= DefaultAt(at, flags)
         /\ "sample-duration" \in flags => BytesPerSample(flags) >= 4
         /\ "sample-size" \in flags =>
              BytesPerSample(flags) >= Word("sample-duration" \in flags) + 4
<1>1. /\ Word("sample-duration" \in flags) \in Nat /\ Word("sample-size" \in flags) \in Nat
      /\ Word("sample-flags" \in flags) \in Nat
      /\ Word("sample-composition-time-offset" \in flags) \in Nat
      /\ Word("data-offset" \in flags) \in Nat /\ Word("first-sample-flags" \in flags) \in Nat
      /\ Word("base-data-offset" \in flags) \in Nat
      /\ Word("sample-description-index" \in flags) \in Nat
  BY Widths
<1>2. /\ "sample-duration" \in flags => Word("sample-duration" \in flags) = 4
      /\ "sample-size" \in flags => Word("sample-size" \in flags) = 4
  BY DEF Word
<1> QED
  BY <1>1, <1>2 DEF BytesPerSample, TableAt, DefaultAt

\* One sample has the bytes of one, and none more than several.
LEMMA SeveralSamples ==
  ASSUME NEW n \in Nat, NEW m \in Nat, n > 0
  PROVE  n * m \in Nat /\ m <= n * m /\ n * m = (n - 1) * m + m /\ (n - 1) * m \in Nat
<1>1. (n - 1) \in Nat /\ n * m = (n - 1) * m + m
  OBVIOUS
<1>2. \A x, y \in Nat : x * y \in Nat
  OBVIOUS
<1> QED
  BY <1>1, <1>2

-----------------------------------------------------------------------------
(* What an object knows stays while its place is not written to.           *)

LEMMA HeaderStays ==
  ASSUME NEW b, NEW c, NEW at \in Nat, NEW P \in Nat, NEW type,
         HeaderKnown(b, at, P, type), SameIn(b, c, at, at + P)
  PROVE  HeaderKnown(c, at, P, type) /\ c[at] = b[at]
<1>1. b[at] \in Nat /\ 8 <= b[at] /\ b[at] <= P
  BY DEF HeaderKnown, HEADER
<1>2. /\ at \in DOMAIN c /\ c[at] = b[at]
      /\ at + 4 \in DOMAIN c /\ c[at + 4] = b[at + 4]
  BY <1>1, SameCell DEF HeaderKnown
<1>3. ASSUME b[at] # P
      PROVE  /\ at + b[at] \in DOMAIN c /\ c[at + b[at]] = b[at + b[at]]
             /\ at + b[at] + 4 \in DOMAIN c /\ c[at + b[at] + 4] = b[at + b[at] + 4]
  <2>1. /\ at + b[at] \in Nat /\ at + b[at] + 4 \in Nat /\ at + P \in Nat
        /\ at + b[at] + 4 < at + P /\ at + b[at] < at + P
        /\ at <= at + b[at] /\ at <= at + b[at] + 4
    BY <1>1, <1>3 DEF HeaderKnown, HEADER
  <2>2. at + b[at] \in DOMAIN b /\ at + b[at] + 4 \in DOMAIN b
    BY <1>3 DEF HeaderKnown
  <2> QED
    BY <2>1, <2>2, SameCell
<1> QED
  BY <1>1, <1>2, <1>3 DEF HeaderKnown

LEMMA ScaleStays ==
  ASSUME NEW b, NEW c, NEW at \in Nat, NEW s \in Nat, s = b[at], s = c[at], NEW f,
         SameIn(b, c, at, at + s), ScaleKnown(b, at, f)
  PROVE  ScaleKnown(c, at, f)
<1> DEFINE loc == at + 12 + Times(b, at + 8)
<1>1. loc \in Nat /\ at + 20 <= loc /\ loc + 4 <= at + s
  BY TimeWidths DEF ScaleKnown
<1>2. at + 8 \in DOMAIN c /\ c[at + 8] = b[at + 8] /\ Read(c, loc) = Read(b, loc)
  <2> HIDE DEF loc
  <2> QED
    BY <1>1, SameCell DEF ScaleKnown
<1>3. Times(c, at + 8) = Times(b, at + 8)
  BY <1>2 DEF Times, Version
<1> QED
  BY <1>2, <1>3 DEF ScaleKnown

LEMMA TimeStays ==
  ASSUME NEW b, NEW c, NEW at \in Nat, NEW s \in Nat, s = b[at], s = c[at], NEW f,
         SameIn(b, c, at, at + s), TimeKnown(b, at, f)
  PROVE  TimeKnown(c, at, f)
<1>1. at + 8 \in DOMAIN c /\ c[at + 8] = b[at + 8] /\ Read(c, at + 12) = Read(b, at + 12)
  BY SameCell DEF TimeKnown
<1> QED
  BY <1>1 DEF TimeKnown, Version

LEMMA DefaultStays ==
  ASSUME NEW b, NEW c, NEW at \in Nat, NEW s \in Nat, s = b[at], s = c[at], NEW f,
         SameIn(b, c, at, at + s), DefaultKnown(b, at, f)
  PROVE  DefaultKnown(c, at, f)
<1>1. at + 8 \in DOMAIN c /\ c[at + 8] = b[at + 8]
  BY SameCell DEF DefaultKnown
<1>2. ASSUME "default-sample-duration" \in f.flags
      PROVE  Read(c, DefaultAt(at, f.flags)) = Read(b, DefaultAt(at, f.flags))
  <2>1. DefaultAt(at, f.flags) \in Nat /\ at <= DefaultAt(at, f.flags)
        /\ DefaultAt(at, f.flags) < at + s /\ at + s \in Nat
    BY <1>2, TableWidths DEF DefaultKnown
  <2> QED
    BY <2>1 DEF SameIn
<1>3. Flags(c, at + 8) = Flags(b, at + 8)
  BY <1>1 DEF Flags
<1> QED
  BY <1>1, <1>2, <1>3 DEF DefaultKnown

\* The fields of a table lie inside the box.
LEMMA RunCells ==
  ASSUME NEW at \in Nat, NEW s \in Nat, NEW flags, NEW n \in Nat,
         TableAt(at, flags) + n * BytesPerSample(flags) <= at + s
  PROVE  /\ TableAt(at, flags) \in Nat /\ at + 16 <= TableAt(at, flags)
         /\ TableAt(at, flags) <= at + s
         /\ n > 0 => TableAt(at, flags) + BytesPerSample(flags) <= at + s
         /\ "sample-duration" \in flags /\ n > 0 => TableAt(at, flags) + 4 <= at + s
         /\ TableAt(at, flags) + Word("sample-duration" \in flags) \in Nat
         /\ "sample-size" \in flags /\ n > 0 =>
              TableAt(at, flags) + Word("sample-duration" \in flags) + 4 <= at + s
<1> DEFINE t == TableAt(at, flags)
           m == BytesPerSample(flags)
           w == Word("sample-duration" \in flags)
<1>1. /\ t \in Nat /\ m \in Nat /\ at + 16 <= t /\ w \in Nat
      /\ "sample-duration" \in flags => m >= 4
      /\ "sample-size" \in flags => m >= w + 4
  BY TableWidths, Widths
<1>2. n * m \in Nat /\ (n > 0 => m <= n * m)
  <2>1. CASE n = 0
    <3>1. 0 * m = 0
      BY <1>1
    <3> QED
      BY <2>1, <3>1
  <2>2. CASE n > 0
    <3> HIDE DEF m
    <3> QED
      BY <1>1, <2>2, SeveralSamples
  <2> QED
    BY <2>1, <2>2
<1>3. t + n * m <= at + s
  OBVIOUS
<1> HIDE DEF t, m, w
<1>4. t <= at + s /\ (n > 0 => t + m <= at + s)
  BY <1>1, <1>2, <1>3
<1>5. /\ "sample-duration" \in flags /\ n > 0 => t + 4 <= at + s
      /\ "sample-size" \in flags /\ n > 0 => t + w + 4 <= at + s
      /\ t + w \in Nat
  BY <1>1, <1>4
<1> QED
  BY <1>1, <1>4, <1>5 DEF t, m, w

LEMMA RunStays ==
  ASSUME NEW b, NEW c, NEW at \in Nat, NEW s \in Nat, s = b[at], s = c[at], NEW f, NEW S,
         SameIn(b, c, at, at + s), RunKnown(b, at, f, S)
  PROVE  RunKnown(c, at, f, S)
<1> DEFINE t == TableAt(at, f.flags)
           w == Word("sample-duration" \in f.flags)
<1>1. f.sample_count \in Nat /\ t + f.sample_count * BytesPerSample(f.flags) <= at + s
  BY DEF RunKnown
<1>2. /\ t \in Nat /\ at + 16 <= t /\ t <= at + s /\ t + w \in Nat
      /\ "sample-duration" \in f.flags /\ f.sample_count > 0 => t + 4 <= at + s
      /\ "sample-size" \in f.flags /\ f.sample_count > 0 => t + w + 4 <= at + s
  BY <1>1, RunCells
<1>w. w \in Nat
  BY Widths
<1> HIDE DEF t, w
<1>3. at + 8 \in DOMAIN c /\ c[at + 8] = b[at + 8] /\ Read(c, at + 12) = Read(b, at + 12)
  BY <1>2, SameCell DEF RunKnown
<1>4. ASSUME "sample-duration" \in f.flags, f.sample_count > 0 PROVE Read(c, t) = Read(b, t)
  <2>1. at <= t /\ t < at + s /\ at + s \in Nat
    BY <1>2, <1>4
  <2> QED
    BY <1>2, <2>1 DEF SameIn
<1>5. ASSUME "sample-size" \in f.flags, f.sample_count > 0 PROVE Read(c, t + w) = Read(b, t + w)
  <2>1. at <= t + w /\ t + w < at + s /\ at + s \in Nat
    BY <1>2, <1>5, <1>w
  <2> QED
    BY <1>2, <2>1 DEF SameIn
<1>6. Flags(c, at + 8) = Flags(b, at + 8)
  BY <1>3 DEF Flags
<1> QED
  BY <1>3, <1>4, <1>5, <1>6 DEF RunKnown, t, w

LEMMA EncryptionStays ==
  ASSUME NEW b, NEW c, NEW at \in Nat, NEW s \in Nat, s = b[at], s = c[at], NEW f,
         SameIn(b, c, at, at + s), EncryptionKnown(b, at, f)
  PROVE  EncryptionKnown(c, at, f)
<1>1. at + 12 \in Nat /\ at + s \in Nat /\ at <= at + 12 /\ at + 12 < at + s
  BY DEF EncryptionKnown
<1>2. Read(c, at + 12) = Read(b, at + 12)
  BY <1>1, SameCell
<1> QED
  BY <1>2 DEF EncryptionKnown

LEMMA SizesStay ==
  ASSUME NEW b, NEW c, NEW at \in Nat, NEW s \in Nat, s = b[at], s = c[at], NEW f, NEW first,
         SameIn(b, c, at, at + s), SizesKnown(b, at, f, first)
  PROVE  SizesKnown(c, at, f, first)
<1> DEFINE a == at + 12 + 2 * Word("aux-info-type" \in Flags(b, at + 8))
<1>1. a \in Nat /\ at + 12 <= a
  BY Widths
<1>2. a + 6 <= at + s /\ at + 8 \in DOMAIN b
  BY <1>1 DEF SizesKnown
<1> HIDE DEF a
<1>3. /\ at + 8 \in DOMAIN c /\ c[at + 8] = b[at + 8]
      /\ Read(c, a) = Read(b, a) /\ Read(c, a + 1) = Read(b, a + 1)
      /\ Read(c, a + 5) = Read(b, a + 5)
  BY <1>1, <1>2, SameCell
<1>4. Flags(c, at + 8) = Flags(b, at + 8)
  BY <1>3 DEF Flags
<1> QED
  BY <1>3, <1>4 DEF SizesKnown, a

\* For each type of box.
LEMMA FieldsStay ==
  ASSUME NEW b, NEW c, NEW P \in Nat, NEW o, NEW l, NEW S, o.at \in Nat,
         NEW s \in Nat, s = b[o.at], s = c[o.at], SameIn(b, c, o.at, o.at + s),
         FieldsKnown(b, P, o, l, S)
  PROVE  FieldsKnown(c, P, o, l, S)
<1>1. o.type \in {"mvhd", "mdhd"} => ScaleKnown(c, o.at, o.fields)
  BY ScaleStays DEF FieldsKnown
<1>2. o.type = "tfdt" => TimeKnown(c, o.at, o.fields)
  BY TimeStays DEF FieldsKnown
<1>3. o.type = "tfhd" => DefaultKnown(c, o.at, o.fields)
  BY DefaultStays DEF FieldsKnown
<1>4. o.type = "trun" => RunKnown(c, o.at, o.fields, S)
  BY RunStays DEF FieldsKnown
<1>5. o.type = "senc" => EncryptionKnown(c, o.at, o.fields)
  BY EncryptionStays DEF FieldsKnown
<1>6. o.type = "saiz" => SizesKnown(c, o.at, o.fields, l.fields.firstSampleInfoSize)
  BY SizesStay DEF FieldsKnown
<1> QED
  BY <1>1, <1>2, <1>3, <1>4, <1>5, <1>6 DEF FieldsKnown

LEMMA EditedStays ==
  ASSUME NEW b, NEW c, NEW P \in Nat, NEW o, NEW l, NEW S,
         l.at \in Nat, o.at = l.at, SameIn(b, c, l.at, l.at + P),
         EditedKnown(b, P, o, l, S)
  PROVE  EditedKnown(c, P, o, l, S)
<1>0. PICK at, t : /\ at \in Nat /\ at = l.at /\ t = o.type /\ HeaderKnown(b, at, P, t)
                           /\ SameIn(b, c, at, at + P)
  BY DEF EditedKnown
<1>9. HeaderKnown(c, at, P, t) /\ c[at] = b[at]
  <2>1. at \in Nat /\ HeaderKnown(b, at, P, t) /\ SameIn(b, c, at, at + P)
    BY <1>0
  <2> QED
    BY <2>1, HeaderStays, ZenonT(30)
<1>1. HeaderKnown(c, l.at, P, o.type) /\ c[l.at] = b[l.at]
  BY <1>0, <1>9
<1>2. b[l.at] \in Nat /\ b[l.at] <= P
  BY DEF EditedKnown, HeaderKnown, HEADER
<1>3. SameIn(b, c, l.at, l.at + b[l.at])
  BY <1>2, SameInPart
<1>4. FieldsKnown(c, P, o, l, S)
  BY <1>1, <1>2, <1>3, FieldsStay DEF EditedKnown
<1> QED
  BY <1>1, <1>4 DEF EditedKnown

LEMMA PlainStays ==
  ASSUME NEW b, NEW c, NEW P \in Nat, NEW o, NEW l, l.at \in Nat,
         P >= 8 => SameIn(b, c, l.at, l.at + 8),
         PlainKnown(b, P, o, l)
  PROVE  PlainKnown(c, P, o, l)
<1>1. ASSUME P >= 8
      PROVE  /\ l.at \in DOMAIN c <=> l.at \in DOMAIN b
             /\ l.at \in DOMAIN b => c[l.at] = b[l.at]
             /\ l.at + 4 \in DOMAIN c <=> l.at + 4 \in DOMAIN b
             /\ l.at + 4 \in DOMAIN b => c[l.at + 4] = b[l.at + 4]
  BY <1>1 DEF SameIn
<1>2. /\ constructBox(c, l.at, P, l.offset).type = constructBox(b, l.at, P, l.offset).type
      /\ constructBox(c, l.at, P, l.offset).size = constructBox(b, l.at, P, l.offset).size
  <2>1. CASE P < 8
    BY <2>1 DEF constructBox, HEADER
  <2>2. CASE P >= 8
    BY <2>2, <1>1 DEF constructBox, HEADER
  <2> QED
    BY <2>1, <2>2
<1> QED
  BY <1>2 DEF PlainKnown

\* A box that has its place as before and is not written to is known as before.
LEMMA KnownStays ==
  ASSUME NEW b, NEW c, NEW n \in Nat, NEW m \in Nat, NEW o, NEW l, NEW S,
         SameIn(b, c, l.at, OwnEnd(l)), Place(l, m) = Place(l, n),
         l.type # "mdat" => l.at + l.size <= m,
         Known(b, n, o, l, S)
  PROVE  Known(c, m, o, l, S)
<1> DEFINE P == Place(l, n)
<1>1. /\ l.at \in Nat /\ l.size \in Nat /\ o.at = l.at
      /\ l.type # "mdat" => P = l.size
  BY DEF Known, Place
<1>2. CASE l.type \in Editable
  <2>1. EditedKnown(b, P, o, l, S)
    BY <1>2 DEF Known
  <2>2. P \in Nat /\ P <= l.size
    <3>1. b[l.at] \in 8..P
      BY <2>1 DEF EditedKnown, HeaderKnown, HEADER
    <3> QED
      BY <1>1, <3>1 DEF Place
  <2>3. OwnEnd(l) = l.at + l.size
    BY <1>2 DEF OwnEnd, Editable, FullBoxes, Containers
  <2>4. SameIn(b, c, l.at, l.at + P)
    <3> HIDE DEF P
    <3> QED
      BY <1>1, <2>2, <2>3, SameInPart
  <2>5. EditedKnown(c, P, o, l, S)
    <3> HIDE DEF P
    <3> QED
      BY <1>1, <2>1, <2>2, <2>4, EditedStays
  <2> QED
    BY <1>1, <1>2, <2>5 DEF Known
<1>3. CASE l.type \notin Editable
  <2>1. P = l.size /\ PlainKnown(b, P, o, l)
    BY <1>1, <1>3 DEF Known, Editable
  <2>2. ASSUME P >= 8 PROVE SameIn(b, c, l.at, l.at + 8)
    <3>1. OwnEnd(l) \in Nat /\ l.at + 8 <= OwnEnd(l)
      BY <1>1, <2>1, <2>2 DEF OwnEnd, HEADER
    <3> QED
      BY <1>1, <3>1, SameInPart
  <2>3. PlainKnown(c, P, o, l)
    <3> HIDE DEF P
    <3> QED
      BY <1>1, <2>1, <2>2, PlainStays
  <2> QED
    BY <1>1, <1>3, <2>3 DEF Known
<1> QED
  BY <1>2, <1>3

-----------------------------------------------------------------------------
(* A box as it is read is known.                                           *)

\* A box that is all there is read so.
LEMMA WholeBox ==
  ASSUME NEW b, NEW at \in Nat, NEW size \in Nat, NEW off, size >= 8,
         {at, at + 4} \subseteq DOMAIN b, b[at] \in Nat, b[at] <= size
  PROVE  constructBox(b, at, size, off) =
           [type |-> b[at + 4], at |-> at, offset |-> off, size |-> b[at], whole |-> TRUE,
            fields |-> Fields(b, b[at + 4], at + 8, b[at])]
<1>1. (size < 8 \/ ~({at, at + 4} \subseteq DOMAIN b)) = FALSE /\ (size < 8) = FALSE
      /\ ({at, at + 4} \subseteq DOMAIN b) = TRUE
      /\ (size >= 8 /\ b[at] <= size) = TRUE
  OBVIOUS
<1> QED
  BY <1>1 DEF constructBox, HEADER

\* An object whose box was read is as the box says.
LEMMA ReadHeader ==
  ASSUME NEW b, NEW l, l.at \in Nat, l.size \in Nat,
         l = constructBox(b, l.at, l.size, l.offset), l.type \in Editable
  PROVE  /\ IsBox(l) /\ l.whole /\ HeaderKnown(b, l.at, l.size, l.type) /\ b[l.at] = l.size
         /\ l.fields = Fields(b, l.type, l.at + 8, l.size)
<1> DEFINE header == {l.at, l.at + 4} \subseteq DOMAIN b
<1>1. l.type = IF l.size < 8 THEN "UKWN" ELSE IF header THEN b[l.at + 4] ELSE "data"
  BY DEF constructBox, HEADER
<1>2. l.type # "UKWN" /\ l.type # "data"
  BY DEF Editable, FullBoxes
<1>3. l.size >= 8 /\ header /\ l.type = b[l.at + 4]
  BY <1>1, <1>2
<1>4. l.size = b[l.at]
  <2>1. constructBox(b, l.at, l.size, l.offset).size = b[l.at]
    BY <1>3 DEF constructBox, HEADER
  <2> QED
    BY <2>1
<1>8. l.whole
  <2>1. PICK at, size, off :
          /\ at \in Nat /\ size \in Nat
          /\ at = l.at /\ size = l.size /\ l = constructBox(b, at, size, off)
    OBVIOUS
  <2>3. /\ at \in Nat /\ size \in Nat /\ size >= 8 /\ {at, at + 4} \subseteq DOMAIN b
        /\ b[at] \in Nat /\ b[at] <= size
    BY <1>3, <1>4, <2>1
  <2>2. constructBox(b, at, size, off).whole = TRUE
    <3>1. constructBox(b, at, size, off) =
           [type |-> b[at + 4], at |-> at, offset |-> off, size |-> b[at], whole |-> TRUE,
            fields |-> Fields(b, b[at + 4], at + 8, b[at])]
      BY <2>3, WholeBox
    <3> QED
      BY <3>1
  <2> QED
    BY <2>1, <2>2
<1>5. l.fields = Fields(b, l.type, l.at + 8, l.size)
  BY <1>3, <1>4, <1>8 DEF constructBox, HEADER
<1>6. IsBox(l)
  BY DEF constructBox, IsBox
<1>7. HeaderKnown(b, l.at, l.size, l.type)
  BY <1>3, <1>4 DEF HeaderKnown, HEADER
<1> QED
  BY <1>4, <1>5, <1>6, <1>7, <1>8

\* Its fields, for each type.
LEMMA ReadFields ==
  ASSUME NEW b, NEW l, l.at \in Nat, l.size \in Nat,
         l = constructBox(b, l.at, l.size, l.offset), l.type \in Editable,
         l.type \in FullBoxes => l.at + HEADER \in DOMAIN b,
         FieldsInside(b, l)
  PROVE  FieldsKnown(b, l.size, l, l, {})
<1> DEFINE f == l.fields
           p == l.at + 8
<1>1. b[l.at] = l.size /\ f = Fields(b, l.type, p, l.size)
  BY ReadHeader
<1>2. l.type \in FullBoxes => p \in DOMAIN b
  BY DEF HEADER
<1>w. WORD \in Nat
  BY IsoAssumption
<1>3. ASSUME l.type \in {"mvhd", "mdhd"} PROVE ScaleKnown(b, l.at, f)
  <2> DEFINE loc == p + 4 + Times(b, p)
  <2>1. f = [timeScale |-> Read(b, loc), timeScale_loc |-> loc]
    BY <1>1, <1>3 DEF Fields, constructMvhdBox, constructMdhdBox
  <2>2. f.timeScale_loc + 4 <= l.at + l.size /\ f.timeScale \in 0..(WORD - 1)
    BY <1>3 DEF FieldsInside
  <2>3. f.timeScale % WORD = f.timeScale
    BY <2>2, <1>w, SmallRemainder
  <2>4. loc = l.at + 12 + Times(b, l.at + 8)
    BY TimeWidths
  <2> QED
    BY <1>1, <1>2, <1>3, <2>1, <2>2, <2>3, <2>4 DEF ScaleKnown, FullBoxes
<1>4. ASSUME l.type = "tfdt" PROVE TimeKnown(b, l.at, f)
  <2>1. f = [version |-> Version(b, p), baseMDT |-> Read(b, p + 4), baseMDT_loc |-> p + 4]
    BY <1>1, <1>4 DEF Fields, constructTfdtBox
  <2>2. f.baseMDT_loc + 4 <= l.at + l.size /\ (f.version # 1 => f.baseMDT \in 0..(WORD - 1))
    BY <1>4 DEF FieldsInside
  <2>3. f.version # 1 => f.baseMDT % WORD = f.baseMDT
    BY <2>2, <1>w, SmallRemainder
  <2>4. p + 4 = l.at + 12
    OBVIOUS
  <2> QED
    BY <1>1, <1>2, <1>4, <2>1, <2>2, <2>3, <2>4 DEF TimeKnown, FullBoxes
<1>5. ASSUME l.type = "tfhd" PROVE DefaultKnown(b, l.at, f)
  <2> DEFINE flags == Flags(b, p)
             a == p + 8 + 2 * Word("base-data-offset" \in flags)
                        + Word("sample-description-index" \in flags)
             present == "default-sample-duration" \in flags
             size == IF "default-sample-size" \in flags THEN Read(b, a + Word(present)) ELSE 0
  <2>1. f = [flags |-> flags,
             default_sample_duration_loc |-> IF present THEN a ELSE 0,
             mDefaultSampleDuration |-> IF present THEN Read(b, a) ELSE 0,
             mDefaultSampleSize |-> size]
    BY <1>1, <1>5 DEF Fields, constructTfhdBox
  <2>2. /\ f.default_sample_duration_loc # 0
             => f.default_sample_duration_loc + 4 <= l.at + l.size
        /\ l.size >= 12 /\ f.mDefaultSampleDuration \in 0..(WORD - 1)
    BY <1>5 DEF FieldsInside
  <2>3. f.mDefaultSampleDuration % WORD = f.mDefaultSampleDuration
    BY <2>2, <1>w, SmallRemainder
  <2>4. a = DefaultAt(l.at, flags) /\ a \in Nat /\ a # 0
    BY Widths DEF DefaultAt
  <2>5. p \in DOMAIN b
    BY <1>2, <1>5 DEF FullBoxes
  <2> HIDE DEF flags, size
  <2>6. f.flags = flags
    BY <2>1
  <2>7. /\ present => f.default_sample_duration_loc = a /\ f.mDefaultSampleDuration = Read(b, a)
        /\ ~present => f.default_sample_duration_loc = 0 /\ f.mDefaultSampleDuration = 0
        /\ f = [flags |-> f.flags, default_sample_duration_loc |-> f.default_sample_duration_loc,
                mDefaultSampleDuration |-> f.mDefaultSampleDuration,
                mDefaultSampleSize |-> f.mDefaultSampleSize]
    BY <2>1
  <2> HIDE DEF f, a
  <2> QED
    BY <1>1, <2>2, <2>3, <2>4, <2>5, <2>6, <2>7 DEF DefaultKnown, flags
<1>6. ASSUME l.type = "trun" PROVE RunKnown(b, l.at, f, {})
  <2> DEFINE flags == Flags(b, p)
             table == p + 8 + Word("data-offset" \in flags) + Word("first-sample-flags" \in flags)
             n == Read(b, p + 4)
             present == "sample-duration" \in flags
             duration == IF ~present THEN 0
                         ELSE Total([i \in 1..n |->
                                       Read(b, table + (i - 1) * BytesPerSample(flags))])
  <2>1. f = [flags |-> flags, sample_count |-> n, sample_count_loc |-> p + 4,
             first_sample_duration_loc |-> IF present /\ n > 0 THEN table ELSE 0,
             duration |-> duration,
             mFirstSampleSize |-> IF "sample-size" \in flags /\ n > 0
                                  THEN Read(b, table + Word(present)) ELSE 0]
    BY <1>1, <1>6 DEF Fields, constructTrunBox
  <2>2. /\ f.sample_count \in Nat /\ f.mFirstSampleSize \in Nat
        /\ FirstSample(l) + f.sample_count * BytesPerSample(f.flags) <= l.at + l.size
    BY <1>6 DEF FieldsInside
  <2>3. table = TableAt(l.at, flags) /\ table \in Nat
    BY Widths DEF TableAt
  <2> HIDE DEF duration, n, flags, table
  <2>4. f.flags = flags /\ f.sample_count = n
    BY <2>1
  <2>5. FirstSample(l) = table
    BY <2>3, <2>4 DEF FirstSample, TableAt
  <2>6. p \in DOMAIN b /\ p + 4 = l.at + 12
    BY <1>2, <1>6 DEF FullBoxes
  <2>7. /\ f.first_sample_duration_loc = (IF present /\ n > 0 THEN table ELSE 0)
        /\ f.mFirstSampleSize = (IF "sample-size" \in flags /\ n > 0
                                 THEN Read(b, table + Word(present)) ELSE 0)
        /\ f = [flags |-> f.flags, sample_count |-> f.sample_count, sample_count_loc |-> p + 4,
                first_sample_duration_loc |-> f.first_sample_duration_loc,
                duration |-> f.duration, mFirstSampleSize |-> f.mFirstSampleSize]
    BY <2>1
  <2>8. Read(b, p + 4) = n
    BY DEF n
  <2> HIDE DEF f
  <2> QED
    BY <1>1, <2>2, <2>3, <2>4, <2>5, <2>6, <2>7, <2>8 DEF RunKnown, flags
<1>7. ASSUME l.type = "senc" PROVE EncryptionKnown(b, l.at, f)
  <2>1. f = [numSamples |-> Read(b, p + 4), sampleCountLoc |-> p + 4] /\ p + 4 = l.at + 12
    BY <1>1, <1>7 DEF Fields, constructSencBox
  <2>2. f.sampleCountLoc + 4 <= l.at + l.size /\ f.numSamples \in Nat
    BY <1>7 DEF FieldsInside
  <2> QED
    BY <1>1, <2>1, <2>2 DEF EncryptionKnown
<1>8. ASSUME l.type = "saiz" PROVE SizesKnown(b, l.at, f, f.firstSampleInfoSize)
  <2> DEFINE a == p + 4 + 2 * Word("aux-info-type" \in Flags(b, p))
             default == Read(b, a)
  <2>1. f = [numSamples |-> Read(b, a + 1), sampleCountLoc |-> a + 1,
             firstSampleInfoSize |-> IF default = 0 THEN Read(b, a + 5) ELSE default]
    BY <1>1, <1>8 DEF Fields, constructSaizBox
  <2>2. /\ f.numSamples \in Nat \ {0} /\ f.firstSampleInfoSize \in Nat
        /\ f.sampleCountLoc + 4 + f.numSamples <= l.at + l.size
        /\ Read(b, f.sampleCountLoc - 1) = 0
    BY <1>8 DEF FieldsInside
  <2>3. a = l.at + 12 + 2 * Word("aux-info-type" \in Flags(b, l.at + 8)) /\ a \in Nat
    BY Widths
  <2>4. p \in DOMAIN b
    BY <1>2, <1>8 DEF FullBoxes
  <2> HIDE DEF a
  <2>5. f.sampleCountLoc = a + 1 /\ f.numSamples = Read(b, a + 1)
    BY <2>1
  <2>6. f.sampleCountLoc - 1 = a
    BY <2>3, <2>5
  <2>7. Read(b, a) = 0
    BY <2>2, <2>6
  <2>8. f.firstSampleInfoSize = Read(b, a + 5)
    BY <2>1, <2>7
  <2>9. f = [numSamples |-> f.numSamples, sampleCountLoc |-> a + 1,
             firstSampleInfoSize |-> f.firstSampleInfoSize]
    BY <2>1
  <2>10. a + 5 + f.numSamples <= l.at + b[l.at]
    BY <1>1, <2>2, <2>3, <2>5
  <2> HIDE DEF f
  <2> QED
    BY <2>2, <2>3, <2>4, <2>5, <2>7, <2>8, <2>9, <2>10 DEF SizesKnown
<1> QED
  BY <1>1, <1>3, <1>4, <1>5, <1>6, <1>7, <1>8 DEF FieldsKnown

LEMMA KnownAsRead ==
  ASSUME NEW b, NEW n \in Nat, NEW l, l.at \in Nat, l.size \in Nat, l.at + l.size <= n,
         l = constructBox(b, l.at, l.size, l.offset),
         l.type \in FullBoxes => l.at + HEADER \in DOMAIN b,
         FieldsInside(b, l)
  PROVE  Known(b, n, l, l, {})
<1>1. Place(l, n) = l.size
  BY DEF Place
<1>2. IsBox(l)
  BY DEF constructBox, IsBox
<1>3. l.type \in Editable => EditedKnown(b, l.size, l, l, {})
  BY ReadHeader, ReadFields DEF EditedKnown
<1>4. PlainKnown(b, l.size, l, l)
  BY DEF PlainKnown
<1> QED
  BY <1>1, <1>2, <1>3, <1>4 DEF Known

-----------------------------------------------------------------------------
(* Who reads a box that is known finds what its object has.                *)

\* A place lies inside the buffer; only that of media data gets shorter.
LEMMA KnownFits ==
  ASSUME NEW b, NEW n \in Nat, NEW o, NEW l, NEW S, Known(b, n, o, l, S)
  PROVE  /\ Place(l, n) \in Int /\ Place(l, n) <= l.size /\ l.at + Place(l, n) <= n
         /\ l.at \in Nat /\ l.size \in Nat
         /\ l.type \in Editable => Place(l, n) \in Nat /\ Place(l, n) >= 8
         /\ l.type # "mdat" => Place(l, n) = l.size
<1>1. l.at \in Nat /\ l.size \in Nat
  BY DEF Known
<1>2. l.type # "mdat" => Place(l, n) = l.size
  BY DEF Known, Place
<1>3. ASSUME l.type \in Editable PROVE Place(l, n) \in Nat /\ Place(l, n) >= 8
  <2>1. b[l.at] \in 8..Place(l, n)
    BY <1>3 DEF Known, EditedKnown, HeaderKnown, HEADER
  <2>2. Place(l, n) \in Int
    BY <1>1 DEF Place
  <2> QED
    BY <2>1, <2>2
<1> QED
  BY <1>1, <1>2, <1>3 DEF Place

LEMMA HeaderRead ==
  ASSUME NEW b, NEW at \in Nat, NEW P \in Nat, NEW type, NEW off, HeaderKnown(b, at, P, type),
         NEW now, now = constructBox(b, at, P, off)
  PROVE  /\ now.type = type /\ now.size = b[at] /\ now.fields = Fields(b, type, at + 8, b[at])
         /\ b[at] \in Nat
         /\ RestSkipped(b, at, P, now.size)
<1>1. P >= 8 /\ {at, at + 4} \subseteq DOMAIN b /\ b[at] \in Nat /\ b[at] <= P /\ b[at + 4] = type
  BY DEF HeaderKnown, HEADER
<1>2. constructBox(b, at, P, off) =
        [type |-> b[at + 4], at |-> at, offset |-> off, size |-> b[at], whole |-> TRUE,
         fields |-> Fields(b, b[at + 4], at + 8, b[at])]
  BY <1>1, WholeBox
<1>3. ASSUME b[at] # P
      PROVE  /\ constructBox(b, at + b[at], P - b[at], 0).type = "skip"
             /\ constructBox(b, at + b[at], P - b[at], 0).size = P - b[at]
  <2>1. PICK from \in Nat, size \in Nat : from = at + b[at] /\ size = P - b[at]
    BY <1>1
  <2>2. /\ size >= 8 /\ {from, from + 4} \subseteq DOMAIN b /\ b[from] = size
        /\ b[from + 4] = "skip"
    BY <1>1, <1>3, <2>1 DEF HeaderKnown, HEADER
  <2>3. constructBox(b, from, size, 0) =
          [type |-> b[from + 4], at |-> from, offset |-> 0, size |-> b[from], whole |-> TRUE,
           fields |-> Fields(b, b[from + 4], from + 8, b[from])]
    BY <2>2, WholeBox
  <2> QED
    BY <2>1, <2>2, <2>3
<1>4. now.size = b[at]
  BY <1>2
<1>5. RestSkipped(b, at, P, now.size)
  BY <1>3, <1>4 DEF RestSkipped
<1> QED
  BY <1>1, <1>2, <1>5

\* The durations of one sample.
LEMMA TotalOfOne ==
  ASSUME NEW s, Len(s) = 1
  PROVE  Total(s) = 0 + s[1]
<1> DEFINE Sums(f) == f = [k \in 0..1 |-> IF k = 0 THEN 0 ELSE f[k - 1] + s[k]]
           g == [k \in 0..1 |-> IF k = 0 THEN 0 ELSE 0 + s[1]]
<1>1. Sums(g)
  OBVIOUS
<1>2. Total(s) = (CHOOSE f : Sums(f))[1]
  BY DEF Total
<1>3. Sums(CHOOSE f : Sums(f))
  <2> HIDE DEF Sums, g
  <2> QED
    BY <1>1
<1>4. PICK h : h = (CHOOSE f : Sums(f)) /\ Sums(h)
  <2> HIDE DEF Sums
  <2> QED
    BY <1>3
<1>5. h[0] = 0 /\ h[1] = h[0] + s[1]
  BY <1>4
<1> QED
  BY <1>2, <1>4, <1>5

LEMMA RunAgrees ==
  ASSUME NEW b, NEW at \in Nat, NEW f, NEW S, RunKnown(b, at, f, S),
         NEW now, now = constructTrunBox(b, at + 8)
  PROVE  /\ now.sample_count = f.sample_count
         /\ now.mFirstSampleSize = f.mFirstSampleSize
         /\ f.sample_count = 1 /\ at \in S => now.duration = f.duration % WORD
<1> DEFINE p == at + 8
           flags == Flags(b, p)
           table == p + 8 + Word("data-offset" \in flags) + Word("first-sample-flags" \in flags)
           m == BytesPerSample(flags)
           present == "sample-duration" \in flags
<1>1. /\ f.flags = flags /\ f.sample_count \in Nat
      /\ Read(b, p + 4) = f.sample_count
      /\ p + 4 = at + 12
  BY DEF RunKnown
<1>2. table = TableAt(at, flags) /\ table \in Nat /\ m \in Nat
  BY Widths, TableWidths DEF TableAt
<1>3. constructTrunBox(b, p).sample_count = f.sample_count
  BY <1>1 DEF constructTrunBox
<1>4. constructTrunBox(b, p).mFirstSampleSize =
        (IF "sample-size" \in flags /\ f.sample_count > 0
          THEN Read(b, table + Word(present)) ELSE 0)
  BY <1>1 DEF constructTrunBox
<1>5. f.mFirstSampleSize =
        (IF "sample-size" \in flags /\ f.sample_count > 0
          THEN Read(b, table + Word(present)) ELSE 0)
  <2> HIDE DEF table, flags
  <2> QED
    BY <1>1, <1>2 DEF RunKnown
<1>6. ASSUME f.sample_count = 1, at \in S
      PROVE  constructTrunBox(b, p).duration = f.duration % WORD
  <2>1. present /\ Read(b, table) = f.duration % WORD
    <3> HIDE DEF table, flags
    <3> QED
      BY <1>1, <1>2, <1>6 DEF RunKnown
  <2> DEFINE all == [i \in 1..1 |-> Read(b, table + (i - 1) * m)]
  <2>2. constructTrunBox(b, p).duration = Total(all)
    BY <1>1, <1>6, <2>1 DEF constructTrunBox
  <2>3. Len(all) = 1
    <3> HIDE DEF table, m
    <3>1. all = <<all[1]>>
      OBVIOUS
    <3> QED
      BY <3>1
  <2>4. all[1] = Read(b, table)
    <3>1. table + (1 - 1) * m = table
      <4> HIDE DEF table, m
      <4> QED
        BY <1>2
    <3> HIDE DEF table, m
    <3> QED
      BY <3>1
  <2> HIDE DEF all
  <2>5. Total(all) = 0 + all[1]
    BY <2>3, TotalOfOne
  <2>6. f.duration % WORD \in Nat
    BY <1>6, IsoAssumption DEF RunKnown
  <2> QED
    BY <2>1, <2>2, <2>4, <2>5, <2>6
<1> QED
  BY <1>3, <1>4, <1>5, <1>6

\* For each type of box.
LEMMA EditedAgrees ==
  ASSUME NEW b, NEW P \in Nat, NEW o, NEW l, NEW off, o.at = l.at, l.at \in Nat,
         EditedKnown(b, P, o, l, stamped)
  PROVE  Agrees(o, constructBox(b, l.at, P, off))
<1> DEFINE now == constructBox(b, l.at, P, off)
           f == o.fields
           p == l.at + 8
           s == b[l.at]
<1>1. /\ now.type = o.type /\ now.size = s /\ now.fields = Fields(b, o.type, p, s) /\ s \in Nat
      /\ FieldsKnown(b, P, o, l, stamped)
  <2>1. PICK at, t : at \in Nat /\ at = l.at /\ t = o.type /\ HeaderKnown(b, at, P, t)
    BY DEF EditedKnown
  <2>3. PICK new : new = now /\ new = constructBox(b, at, P, off)
    BY <2>1
  <2>2. /\ new.type = t /\ new.size = b[at] /\ new.fields = Fields(b, t, at + 8, b[at])
        /\ b[at] \in Nat
    <3> HIDE DEF now
    <3> QED
      <4>1. at \in Nat /\ HeaderKnown(b, at, P, t) /\ new = constructBox(b, at, P, off)
        BY <2>1, <2>3
      <4> QED
        BY <4>1, HeaderRead
  <2> QED
    BY <2>1, <2>2, <2>3 DEF EditedKnown
<1> SUFFICES Agrees(o, now)
  OBVIOUS
<1> HIDE DEF now
<1>w. WORD \in Nat /\ WORD > 0
  BY IsoAssumption
<1>2. CASE o.type \in {"mvhd", "mdhd"}
  <2>1. now.fields = [timeScale |-> Read(b, p + 4 + Times(b, p)),
                      timeScale_loc |-> p + 4 + Times(b, p)]
    BY <1>1, <1>2 DEF Fields, constructMvhdBox, constructMdhdBox
  <2>2. Read(b, l.at + 12 + Times(b, p)) = f.timeScale % WORD
    BY <1>1, <1>2 DEF FieldsKnown, ScaleKnown
  <2>3. p + 4 + Times(b, p) = l.at + 12 + Times(b, p)
    BY TimeWidths
  <2> QED
    BY <1>2, <2>1, <2>2, <2>3 DEF Agrees
<1>3. CASE o.type = "tfdt"
  <2>1. now.fields.baseMDT = Read(b, p + 4)
    BY <1>1, <1>3 DEF Fields, constructTfdtBox
  <2>2. Read(b, l.at + 12) = (IF f.version = 1 THEN f.baseMDT ELSE f.baseMDT % WORD)
    BY <1>1, <1>3 DEF FieldsKnown, TimeKnown
  <2>3. p + 4 = l.at + 12
    OBVIOUS
  <2> QED
    BY <1>3, <2>1, <2>2, <2>3 DEF Agrees
<1>4. CASE o.type = "tfhd"
  <2> DEFINE flags == Flags(b, p)
             a == p + 8 + 2 * Word("base-data-offset" \in flags)
                        + Word("sample-description-index" \in flags)
             present == "default-sample-duration" \in flags
  <2>1. now.fields.mDefaultSampleDuration = IF present THEN Read(b, a) ELSE 0
    BY <1>1, <1>4 DEF Fields, constructTfhdBox
  <2>2. a = DefaultAt(l.at, flags)
    BY Widths DEF DefaultAt
  <2>3. DefaultKnown(b, l.at, f)
    BY <1>1, <1>4 DEF FieldsKnown
  <2>4. f.flags = flags
    BY <2>3 DEF DefaultKnown
  <2> HIDE DEF a, flags
  <2>5. /\ present => Read(b, a) = f.mDefaultSampleDuration % WORD
        /\ ~present => f.mDefaultSampleDuration = 0
    BY <2>2, <2>3, <2>4 DEF DefaultKnown
  <2>6. 0 % WORD = 0
    BY <1>w
  <2>7. now.fields.mDefaultSampleDuration = f.mDefaultSampleDuration % WORD
    <3>1. CASE present
      BY <2>1, <2>5, <3>1
    <3>2. CASE ~present
      BY <2>1, <2>5, <2>6, <3>2
    <3> QED
      BY <3>1, <3>2
  <2> QED
    BY <1>4, <2>7 DEF Agrees
<1>5. CASE o.type = "trun"
  <2>1. now.fields = constructTrunBox(b, p)
    BY <1>1, <1>5 DEF Fields
  <2>2. RunKnown(b, l.at, f, stamped)
    BY <1>1, <1>5 DEF FieldsKnown
  <2>3. /\ now.fields.sample_count = f.sample_count
        /\ now.fields.mFirstSampleSize = f.mFirstSampleSize
        /\ f.sample_count = 1 /\ o.at \in stamped => now.fields.duration = f.duration % WORD
    <3>1. PICK at, g, new, S :
            /\ at \in Nat /\ at = l.at /\ g = f /\ new = now.fields /\ S = stamped
            /\ RunKnown(b, at, g, S) /\ new = constructTrunBox(b, at + 8)
      BY <2>1, <2>2
    <3>2. /\ new.sample_count = g.sample_count
          /\ new.mFirstSampleSize = g.mFirstSampleSize
          /\ g.sample_count = 1 /\ at \in S => new.duration = g.duration % WORD
      <4>1. at \in Nat /\ RunKnown(b, at, g, S) /\ new = constructTrunBox(b, at + 8)
        BY <3>1
      <4> QED
        BY <4>1, RunAgrees
    <3> HIDE DEF f
    <3> QED
      BY <3>1, <3>2
  <2> QED
    BY <1>5, <2>3 DEF Agrees
<1>6. CASE o.type = "senc"
  <2>1. now.fields.numSamples = Read(b, p + 4)
    BY <1>1, <1>6 DEF Fields, constructSencBox
  <2>2. Read(b, l.at + 12) = f.numSamples
    BY <1>1, <1>6 DEF FieldsKnown, EncryptionKnown
  <2>3. p + 4 = l.at + 12
    OBVIOUS
  <2> QED
    BY <1>6, <2>1, <2>2, <2>3 DEF Agrees
<1>7. CASE o.type = "saiz"
  <2> DEFINE a == p + 4 + 2 * Word("aux-info-type" \in Flags(b, p))
             first == l.fields.firstSampleInfoSize
  <2>1. now.fields = [numSamples |-> Read(b, a + 1), sampleCountLoc |-> a + 1,
                      firstSampleInfoSize |-> IF Read(b, a) = 0 THEN Read(b, a + 5) ELSE Read(b, a)]
    BY <1>1, <1>7 DEF Fields, constructSaizBox
  <2>2. SizesKnown(b, l.at, f, first)
    BY <1>1, <1>7 DEF FieldsKnown
  <2>3. a = l.at + 12 + 2 * Word("aux-info-type" \in Flags(b, l.at + 8))
    BY Widths
  <2> HIDE DEF a, first
  <2>4. /\ Read(b, a) = 0 /\ Read(b, a + 1) = f.numSamples /\ Read(b, a + 5) = first
        /\ f.firstSampleInfoSize = first
    <3> HIDE DEF p
    <3> QED
      BY <2>2, <2>3 DEF SizesKnown
  <2> QED
    BY <1>7, <2>1, <2>4 DEF Agrees
<1>8. CASE o.type = "mdat"
  BY <1>1, <1>8 DEF Agrees, FieldsKnown
<1>9. CASE o.type \notin {"mvhd", "mdhd", "tfdt", "tfhd", "trun", "senc", "saiz", "mdat"}
  BY <1>9 DEF Agrees
<1> QED
  BY <1>2, <1>3, <1>4, <1>5, <1>6, <1>7, <1>8, <1>9

\* What the property says of a box that is known.
LEMMA KnownReads ==
  ASSUME NEW b, NEW n \in Nat, NEW o, NEW l, Known(b, n, o, l, stamped),
         NEW P, P = Place(l, n), NEW now, now = constructBox(b, l.at, P, l.offset)
  PROVE  /\ now.type = o.type /\ Agrees(o, now)
         /\ RestSkipped(b, l.at, P, now.size)
<1>1. CASE l.type \in Editable
  <2>1. PICK at, t, off :
          /\ P \in Nat /\ at \in Nat
          /\ at = l.at /\ t = o.type /\ off = l.offset
    BY <1>1, KnownFits
  <2>2. EditedKnown(b, P, o, l, stamped) /\ HeaderKnown(b, at, P, t) /\ o.at = l.at
    BY <1>1, <2>1 DEF Known, EditedKnown
  <2>3. /\ now.type = t
        /\ RestSkipped(b, at, P, now.size)
    <3>1. P \in Nat /\ at \in Nat /\ HeaderKnown(b, at, P, t) /\ now = constructBox(b, at, P, off)
      BY <2>1, <2>2
    <3> QED
      BY <3>1, HeaderRead
  <2>4. Agrees(o, now)
    <3>1. Agrees(o, constructBox(b, l.at, P, off))
      BY <2>1, <2>2, EditedAgrees
    <3> QED
      BY <2>1, <3>1
  <2> QED
    BY <2>1, <2>3, <2>4
<1>2. CASE l.type \notin Editable
  <2>1. o.type = l.type /\ now.type = l.type /\ now.size = P
    BY <1>2 DEF Known, PlainKnown
  <2>2. Agrees(o, now)
    BY <1>2, <2>1 DEF Agrees, Editable, FullBoxes
  <2>3. RestSkipped(b, l.at, P, now.size)
    BY <2>1 DEF RestSkipped
  <2> QED
    BY <2>1, <2>2, <2>3
<1> QED
  BY <1>1, <1>2

-----------------------------------------------------------------------------
(* Edits of one box.                                                       *)

\* What is written behind the header and inside the box leaves the header.
LEMMA WriteField ==
  ASSUME NEW b, NEW at \in Nat, NEW P \in Nat, NEW type, HeaderKnown(b, at, P, type),
         NEW s \in Nat, s = b[at], NEW loc \in Nat, at + 9 <= loc, loc + 4 <= at + s,
         NEW x, NEW c, c = Write32(b, loc, x)
  PROVE  /\ HeaderKnown(c, at, P, type) /\ c[at] = s
         /\ SameBut(b, c, at, at + P) /\ SameBut(b, c, loc, loc + 4)
         /\ Read(c, loc) = x
         /\ at + 8 \in DOMAIN c <=> at + 8 \in DOMAIN b
         /\ at + 8 \in DOMAIN b => c[at + 8] = b[at + 8]
<1>1. s <= P /\ s >= 8
  BY DEF HeaderKnown, HEADER
<1>2. SameBut(b, c, loc, loc + 4) /\ Read(c, loc) = x
  BY Written4
<1>3. SameBut(b, c, at, at + P)
  BY <1>1, <1>2, SameButWider
<1>4. SameIn(b, c, at, at + 9)
  BY <1>2, SameInside
<1>5. /\ at \in DOMAIN c <=> at \in DOMAIN b
      /\ at \in DOMAIN b => c[at] = b[at]
      /\ at + 4 \in DOMAIN c <=> at + 4 \in DOMAIN b
      /\ at + 4 \in DOMAIN b => c[at + 4] = b[at + 4]
      /\ at + 8 \in DOMAIN c <=> at + 8 \in DOMAIN b
      /\ at + 8 \in DOMAIN b => c[at + 8] = b[at + 8]
  BY <1>4 DEF SameIn
<1>6. SameIn(b, c, at + s, at + P)
  BY <1>1, <1>2, SameInside
<1>7. ASSUME s # P
      PROVE  /\ at + s \in DOMAIN c /\ c[at + s] = P - s
             /\ at + s + 4 \in DOMAIN c /\ c[at + s + 4] = "skip" /\ s + 8 <= P
  <2>1. /\ s + 8 <= P
        /\ at + s \in DOMAIN b /\ at + s + 4 \in DOMAIN b
        /\ b[at + s] = P - s /\ b[at + s + 4] = "skip"
    BY <1>7 DEF HeaderKnown, HEADER
  <2>2. /\ at + s \in Nat /\ at + s < at + P
        /\ at + s + 4 \in Nat /\ at + s + 4 < at + P
    BY <2>1
  <2> QED
    BY <1>6, <2>1, <2>2 DEF SameIn
<1>8. HeaderKnown(c, at, P, type)
  BY <1>1, <1>5, <1>7 DEF HeaderKnown, HEADER
<1> QED
  BY <1>2, <1>3, <1>5, <1>8 DEF HeaderKnown

\* The setters, each with the field that it writes.
LEMMA SetScale ==
  ASSUME NEW b, NEW at \in Nat, NEW s \in Nat, s = b[at], NEW P \in Nat, NEW type,
         HeaderKnown(b, at, P, type), NEW f, ScaleKnown(b, at, f), NEW x \in Nat,
         NEW c, c = Write32(b, f.timeScale_loc, x % WORD),
         NEW g, g = [f EXCEPT !["timeScale"] = x]
  PROVE  HeaderKnown(c, at, P, type) /\ SameBut(b, c, at, at + P) /\ ScaleKnown(c, at, g)
<1>1. PICK loc \in Nat : /\ loc = at + 12 + Times(b, at + 8) /\ loc = f.timeScale_loc
                         /\ at + 20 <= loc /\ loc + 4 <= at + s
  BY TimeWidths DEF ScaleKnown
<1>2. /\ HeaderKnown(c, at, P, type) /\ c[at] = s /\ SameBut(b, c, at, at + P)
      /\ Read(c, loc) = x % WORD
      /\ at + 8 \in DOMAIN c <=> at + 8 \in DOMAIN b
      /\ at + 8 \in DOMAIN b => c[at + 8] = b[at + 8]
  <2>1. c = Write32(b, loc, x % WORD) /\ at + 9 <= loc
    BY <1>1
  <2> QED
    BY <1>1, <2>1, WriteField
<1>3. Times(c, at + 8) = Times(b, at + 8) /\ at + 8 \in DOMAIN c
  BY <1>2 DEF Times, Version, ScaleKnown
<1>4. g = [timeScale |-> x, timeScale_loc |-> loc]
  BY <1>1 DEF ScaleKnown
<1>5. ScaleKnown(c, at, g)
  BY <1>1, <1>2, <1>3, <1>4 DEF ScaleKnown
<1> QED
  BY <1>2, <1>5

LEMMA SetTime ==
  ASSUME NEW b, NEW at \in Nat, NEW s \in Nat, s = b[at], NEW P \in Nat, NEW type,
         HeaderKnown(b, at, P, type), NEW f, TimeKnown(b, at, f), NEW x \in Nat,
         NEW c, c = Write32(b, f.baseMDT_loc, IF f.version = 1 THEN x ELSE x % WORD),
         NEW g, g = [f EXCEPT !["baseMDT"] = x]
  PROVE  HeaderKnown(c, at, P, type) /\ SameBut(b, c, at, at + P) /\ TimeKnown(c, at, g)
<1>1. PICK loc, y : /\ loc \in Nat /\ loc = at + 12 /\ loc = f.baseMDT_loc
                            /\ loc + 4 <= at + s
                            /\ y = IF f.version = 1 THEN x ELSE x % WORD
  BY DEF TimeKnown
<1>2. /\ HeaderKnown(c, at, P, type) /\ c[at] = s /\ SameBut(b, c, at, at + P)
      /\ Read(c, loc) = y
      /\ at + 8 \in DOMAIN c <=> at + 8 \in DOMAIN b
      /\ at + 8 \in DOMAIN b => c[at + 8] = b[at + 8]
  <2>1. c = Write32(b, loc, y) /\ at + 9 <= loc
    BY <1>1
  <2> QED
    BY <1>1, <2>1, WriteField
<1>3. Version(c, at + 8) = Version(b, at + 8) /\ at + 8 \in DOMAIN c
  BY <1>2 DEF Version, TimeKnown
<1>4. g = [version |-> f.version, baseMDT |-> x, baseMDT_loc |-> loc]
      /\ f.version = Version(b, at + 8) /\ 16 <= s
  <2>1. f.version = Version(b, at + 8) /\ 16 <= s
    BY DEF TimeKnown
  <2>2. PICK v, m : f = [version |-> v, baseMDT |-> m, baseMDT_loc |-> loc]
    BY <1>1 DEF TimeKnown
  <2>3. g = [version |-> v, baseMDT |-> x, baseMDT_loc |-> loc]
    BY <2>2
  <2> QED
    BY <2>1, <2>2, <2>3
<1>5. TimeKnown(c, at, g)
  BY <1>1, <1>2, <1>3, <1>4 DEF TimeKnown
<1> QED
  BY <1>2, <1>5

LEMMA SetDefault ==
  ASSUME NEW b, NEW at \in Nat, NEW s \in Nat, s = b[at], NEW P \in Nat, NEW type,
         HeaderKnown(b, at, P, type), NEW f, DefaultKnown(b, at, f), NEW x \in Nat,
         f.default_sample_duration_loc # 0,
         NEW c, c = Write32(b, f.default_sample_duration_loc, x % WORD),
         NEW g, g = [f EXCEPT !["mDefaultSampleDuration"] = x]
  PROVE  HeaderKnown(c, at, P, type) /\ SameBut(b, c, at, at + P) /\ DefaultKnown(c, at, g)
<1>0. "default-sample-duration" \in f.flags
  BY DEF DefaultKnown
<1>1. PICK loc \in Nat : /\ loc = DefaultAt(at, f.flags) /\ loc = f.default_sample_duration_loc
                         /\ at + 16 <= loc /\ loc + 4 <= at + s
  BY <1>0, TableWidths DEF DefaultKnown
<1>2. /\ HeaderKnown(c, at, P, type) /\ c[at] = s /\ SameBut(b, c, at, at + P)
      /\ Read(c, loc) = x % WORD
      /\ at + 8 \in DOMAIN c <=> at + 8 \in DOMAIN b
      /\ at + 8 \in DOMAIN b => c[at + 8] = b[at + 8]
  <2>1. c = Write32(b, loc, x % WORD) /\ at + 9 <= loc
    BY <1>1
  <2> QED
    BY <1>1, <2>1, WriteField
<1>3. Flags(c, at + 8) = Flags(b, at + 8) /\ at + 8 \in DOMAIN c
  BY <1>2 DEF Flags, DefaultKnown
<1>4. /\ g = [flags |-> f.flags, default_sample_duration_loc |-> loc,
              mDefaultSampleDuration |-> x, mDefaultSampleSize |-> f.mDefaultSampleSize]
      /\ f.flags = Flags(b, at + 8) /\ 12 <= s
  <2>1. f.flags = Flags(b, at + 8) /\ 12 <= s
    BY DEF DefaultKnown
  <2>2. PICK v, m, z : f = [flags |-> v, default_sample_duration_loc |-> loc,
                            mDefaultSampleDuration |-> m, mDefaultSampleSize |-> z]
    BY <1>0, <1>1 DEF DefaultKnown
  <2>3. g = [flags |-> v, default_sample_duration_loc |-> loc,
             mDefaultSampleDuration |-> x, mDefaultSampleSize |-> z]
    BY <2>2
  <2> QED
    BY <2>1, <2>2, <2>3
<1>5. DefaultKnown(c, at, g)
  BY <1>0, <1>1, <1>2, <1>3, <1>4 DEF DefaultKnown
<1> QED
  BY <1>2, <1>5

LEMMA SetDuration ==
  ASSUME NEW b, NEW at \in Nat, NEW s \in Nat, s = b[at], NEW P \in Nat, NEW type,
         HeaderKnown(b, at, P, type), NEW T, at \in T, NEW f, NEW S, RunKnown(b, at, f, S),
         NEW x \in Nat, f.first_sample_duration_loc # 0,
         NEW c, c = Write32(b, f.first_sample_duration_loc, x % WORD),
         NEW g, g = [f EXCEPT !["duration"] = x]
  PROVE  /\ HeaderKnown(c, at, P, type) /\ SameBut(b, c, at, at + P) /\ c[at] = s
         /\ RunKnown(c, at, g, T) /\ g.sample_count = f.sample_count
<1>0. "sample-duration" \in f.flags /\ f.sample_count > 0 /\ f.sample_count \in Nat
  BY DEF RunKnown
<1>w. Word("sample-duration" \in f.flags) = 4
  BY <1>0 DEF Word
<1>1. PICK t \in Nat : /\ t = TableAt(at, f.flags) /\ t = f.first_sample_duration_loc
                       /\ at + 16 <= t /\ t + 4 <= at + s
                       /\ "sample-size" \in f.flags => t + 8 <= at + s
  <2>1. TableAt(at, f.flags) + f.sample_count * BytesPerSample(f.flags) <= at + s
        /\ f.first_sample_duration_loc = TableAt(at, f.flags)
    BY <1>0 DEF RunKnown
  <2>2. /\ TableAt(at, f.flags) \in Nat /\ at + 16 <= TableAt(at, f.flags)
        /\ TableAt(at, f.flags) + 4 <= at + s
        /\ "sample-size" \in f.flags =>
             TableAt(at, f.flags) + Word("sample-duration" \in f.flags) + 4 <= at + s
    BY <1>0, <2>1, RunCells
  <2> QED
    BY <1>w, <2>1, <2>2
<1>2. /\ HeaderKnown(c, at, P, type) /\ c[at] = s /\ SameBut(b, c, at, at + P)
      /\ Read(c, t) = x % WORD /\ SameBut(b, c, t, t + 4)
      /\ at + 8 \in DOMAIN c <=> at + 8 \in DOMAIN b
      /\ at + 8 \in DOMAIN b => c[at + 8] = b[at + 8]
  <2>1. c = Write32(b, t, x % WORD) /\ at + 9 <= t
    BY <1>1
  <2> QED
    BY <1>1, <2>1, WriteField
<1>3. Flags(c, at + 8) = Flags(b, at + 8) /\ at + 8 \in DOMAIN c
  BY <1>2 DEF Flags, RunKnown
<1>4. Read(c, at + 12) = Read(b, at + 12) /\ Read(c, t + 4) = Read(b, t + 4)
  <2>1. at + 12 \in Nat /\ at + 12 < t /\ t + 4 \in Nat /\ t + 4 <= t + 4
    BY <1>1
  <2> QED
    BY <1>2, <2>1, ReadOutside
<1>5. /\ g = [flags |-> f.flags, sample_count |-> f.sample_count, sample_count_loc |-> at + 12,
              first_sample_duration_loc |-> t, duration |-> x,
              mFirstSampleSize |-> f.mFirstSampleSize]
      /\ f.flags = Flags(b, at + 8)
  <2>1. f.flags = Flags(b, at + 8)
    BY DEF RunKnown
  <2>2. PICK v, n, d, z : f = [flags |-> v, sample_count |-> n, sample_count_loc |-> at + 12,
                               first_sample_duration_loc |-> t, duration |-> d,
                               mFirstSampleSize |-> z]
    BY <1>1 DEF RunKnown
  <2>3. g = [flags |-> v, sample_count |-> n, sample_count_loc |-> at + 12,
             first_sample_duration_loc |-> t, duration |-> x, mFirstSampleSize |-> z]
    BY <2>2
  <2> QED
    BY <2>1, <2>2, <2>3
<1>6. /\ f.mFirstSampleSize = (IF "sample-size" \in f.flags /\ f.sample_count > 0
                               THEN Read(c, t + 4) ELSE 0)
      /\ f.mFirstSampleSize \in Nat /\ Read(c, at + 12) = f.sample_count
  BY <1>1, <1>4, <1>w DEF RunKnown
<1>7. TableAt(at, f.flags) + f.sample_count * BytesPerSample(f.flags) <= at + s
  BY DEF RunKnown
<1>8. RunKnown(c, at, g, T)
  BY <1>0, <1>1, <1>2, <1>3, <1>5, <1>6, <1>7, <1>w DEF RunKnown
<1> QED
  BY <1>2, <1>5, <1>8

\* The size of a truncated box and the skip box behind it.
LEMMA ShrunkKeeps ==
  ASSUME NEW b, NEW at \in Nat, NEW P \in Nat, NEW type, HeaderKnown(b, at, P, type), b[at] = P,
         P < WORD, NEW size \in Nat, 8 <= size, size <= P,
         NEW c, c = Shrunk(b, at, P, size)
  PROVE  /\ HeaderKnown(c, at, P, type) /\ SameBut(b, c, at, at + P)
         /\ c[at] = IF P - size >= 8 THEN size ELSE P
         /\ SameIn(b, c, at + 4, at + size)
<1>1. (P - size) \in 0..(WORD - 1) /\ (P - size) % WORD = P - size
  <2>1. (P - size) \in 0..(WORD - 1)
    BY IsoAssumption
  <2> QED
    BY <2>1, SmallRemainder, IsoAssumption
<1>2. CASE P - size < 8
  <2>1. c = b
    BY <1>1, <1>2 DEF Shrunk, HEADER
  <2> QED
    BY <1>2, <2>1 DEF SameBut, SameIn
<1>3. CASE P - size >= 8
  <2> DEFINE end == at + size
  <2>0. end \in Nat
    OBVIOUS
  <2>1. PICK d, e :
          /\ end = at + size /\ d = Write32(b, at, size)
          /\ e = Write32(d, end, P - size) /\ c = Write32(e, end + 4, "skip")
    BY <1>1, <1>3 DEF Shrunk, HEADER, WriteSkip
  <2>2. at \in DOMAIN d /\ d[at] = size /\ SameBut(b, d, at, at + 4)
    BY <2>1, Written4
  <2>3. end \in DOMAIN e /\ e[end] = P - size /\ SameBut(d, e, end, end + 4)
    BY <2>1, Written4
  <2>4. end + 4 \in DOMAIN c /\ c[end + 4] = "skip" /\ SameBut(e, c, end + 4, end + 8)
    <3>1. PICK a \in Nat : a = end + 4
      OBVIOUS
    <3>2. a \in DOMAIN c /\ c[a] = "skip" /\ SameBut(e, c, a, a + 4)
      BY <2>1, <3>1, Written4
    <3> QED
      BY <3>1, <3>2
  <2>5. SameBut(d, c, end, end + 8)
    <3>1. SameBut(d, e, end, end + 8)
      BY <2>3, SameButWider
    <3>2. SameBut(e, c, end, end + 8)
      BY <2>4, SameButWider
    <3> QED
      BY <3>1, <3>2, SameButTrans
  <2>6. end + 8 <= at + P /\ at + 8 <= end
    BY <1>3, <2>1
  <2>7. SameBut(b, c, at, at + P)
    <3>1. SameBut(b, d, at, at + P)
      BY <2>2, <2>6, SameButWider
    <3>2. SameBut(d, c, at, at + P)
      BY <2>5, <2>6, SameButWider
    <3> QED
      BY <3>1, <3>2, SameButTrans
  <2>8. SameIn(b, c, at + 4, at + size)
    <3>1. \A a \in Nat : at + 4 <= a /\ a < end =>
            /\ a \in DOMAIN d <=> a \in DOMAIN b
            /\ a \in DOMAIN b => d[a] = b[a]
      BY <2>2 DEF SameBut
    <3>2. \A a \in Nat : at + 4 <= a /\ a < end =>
            /\ a \in DOMAIN c <=> a \in DOMAIN d
            /\ a \in DOMAIN d => c[a] = d[a]
      BY <2>5 DEF SameBut
    <3>3. \A a \in Nat : at + 4 <= a /\ a < end =>
            /\ a \in DOMAIN c <=> a \in DOMAIN b
            /\ a \in DOMAIN b => c[a] = b[a]
      BY <3>1, <3>2
    <3> QED
      BY <2>1, <3>3 DEF SameIn, Read
  <2>9. at \in DOMAIN c /\ c[at] = size
    BY <2>2, <2>5, <2>6 DEF SameBut
  <2>10. end \in DOMAIN c /\ c[end] = P - size
    BY <2>3, <2>4 DEF SameBut
  <2>11. at + 4 \in DOMAIN c /\ c[at + 4] = type
    <3>1. at + 4 \in DOMAIN b /\ b[at + 4] = type
      BY DEF HeaderKnown
    <3>2. at + 4 \in Nat /\ at + 4 <= at + 4 /\ at + 4 < at + size
      OBVIOUS
    <3> QED
      BY <2>8, <3>1, <3>2 DEF SameIn
  <2>12. HeaderKnown(c, at, P, type)
    BY <1>3, <2>1, <2>4, <2>9, <2>10, <2>11 DEF HeaderKnown, HEADER
  <2> QED
    BY <1>3, <2>7, <2>8, <2>9, <2>12
<1> QED
  BY <1>2, <1>3

LEMMA TruncateRun ==
  ASSUME NEW b, NEW at \in Nat, NEW P \in Nat, NEW type, HeaderKnown(b, at, P, type), b[at] = P,
         P < WORD, NEW f, NEW S, RunKnown(b, at, f, S), f.sample_count > 1,
         NEW size, size = P - (f.sample_count - 1) * BytesPerSample(f.flags),
         NEW c, c = Shrunk(Write32(b, f.sample_count_loc, 1), at, P, size),
         NEW g, g = [f EXCEPT !.sample_count = 1]
  PROVE  /\ HeaderKnown(c, at, P, type) /\ SameBut(b, c, at, at + P)
         /\ c[at] = (IF P - size >= 8 THEN size ELSE P)
         /\ RunKnown(c, at, g, S) /\ g.sample_count = 1
<1> DEFINE m == BytesPerSample(f.flags)
           n == f.sample_count
           rest == (n - 1) * m
<1>1. PICK t \in Nat, w \in Nat :
        /\ t = TableAt(at, f.flags) /\ w = Word("sample-duration" \in f.flags) /\ at + 16 <= t
        /\ m \in Nat /\ ("sample-duration" \in f.flags => m >= 4)
        /\ ("sample-size" \in f.flags => m >= w + 4)
  BY TableWidths, Widths
<1>2. n \in Nat /\ n > 1 /\ t + n * m <= at + P
  BY <1>1 DEF RunKnown
<1>3. n * m = rest + m /\ rest \in Nat
  <2> HIDE DEF m, n
  <2> QED
    BY <1>1, <1>2, SeveralSamples
<1>4. size = P - rest /\ size \in Nat /\ size <= P /\ t + m <= at + size /\ size >= 16
  <2> HIDE DEF m, n, rest
  <2>1. size = P - rest
    BY DEF m, n, rest
  <2> QED
    BY <1>1, <1>2, <1>3, <2>1
<1> HIDE DEF m, n, rest
<1>19. PICK loc \in Nat : loc = at + 12 /\ f.sample_count_loc = loc
  BY DEF RunKnown
<1>5. PICK d : loc = at + 12 /\ d = Write32(b, loc, 1) /\ c = Shrunk(d, at, P, size)
  BY <1>19
<1>6. /\ HeaderKnown(d, at, P, type) /\ d[at] = P
      /\ SameBut(b, d, at, at + P) /\ SameBut(b, d, loc, loc + 4) /\ Read(d, loc) = 1
      /\ at + 8 \in DOMAIN d <=> at + 8 \in DOMAIN b
      /\ at + 8 \in DOMAIN b => d[at + 8] = b[at + 8]
  <2>1. loc + 4 <= at + P /\ at + 9 <= loc
    BY <1>4, <1>5
  <2> QED
    BY <1>5, <2>1, WriteField
<1>7. /\ HeaderKnown(c, at, P, type) /\ SameBut(d, c, at, at + P)
      /\ c[at] = (IF P - size >= 8 THEN size ELSE P)
      /\ SameIn(d, c, at + 4, at + size)
  BY <1>4, <1>5, <1>6, ShrunkKeeps
<1>8. SameBut(b, c, at, at + P)
  BY <1>6, <1>7, SameButTrans
<1>9. /\ at + 8 \in DOMAIN c /\ c[at + 8] = b[at + 8] /\ Read(c, at + 12) = 1
  <2>1. at + 8 \in DOMAIN b
    BY DEF RunKnown
  <2>2. /\ at + 8 \in Nat /\ at + 4 <= at + 8 /\ at + 8 < at + size
        /\ loc \in Nat /\ at + 4 <= loc /\ loc < at + size
    BY <1>4, <1>5
  <2> QED
    BY <1>5, <1>6, <1>7, <2>1, <2>2 DEF SameIn
<1>10. ASSUME NEW a \in Nat, t <= a, a < at + size PROVE Read(c, a) = Read(b, a)
  <2>1. Read(d, a) = Read(b, a)
    BY <1>1, <1>5, <1>6, <1>10, ReadOutside
  <2>2. Read(c, a) = Read(d, a)
    BY <1>1, <1>7, <1>10 DEF SameIn
  <2> QED
    BY <2>1, <2>2
<1>11. "sample-duration" \in f.flags => Read(c, t) = Read(b, t)
  BY <1>1, <1>4, <1>10
<1>12. "sample-size" \in f.flags => Read(c, t + w) = Read(b, t + w)
  <2>1. "sample-size" \in f.flags => t + w \in Nat /\ t <= t + w /\ t + w < at + size
    BY <1>1, <1>4
  <2> QED
    BY <1>10, <2>1
<1>13. PICK v, lo, du, z :
         f = [flags |-> v, sample_count |-> n, sample_count_loc |-> at + 12,
              first_sample_duration_loc |-> lo, duration |-> du, mFirstSampleSize |-> z]
  BY DEF RunKnown, n
<1>14. g = [flags |-> v, sample_count |-> 1, sample_count_loc |-> at + 12,
            first_sample_duration_loc |-> lo, duration |-> du, mFirstSampleSize |-> z]
  BY <1>13
<1>15. /\ v = Flags(b, at + 8) /\ Flags(c, at + 8) = Flags(b, at + 8)
       /\ v = f.flags /\ lo = f.first_sample_duration_loc /\ du = f.duration
       /\ z = f.mFirstSampleSize
  BY <1>9, <1>13 DEF RunKnown, Flags
<1>16. /\ lo = (IF "sample-duration" \in v THEN t ELSE 0) /\ z \in Nat
       /\ z = (IF "sample-size" \in v THEN Read(b, t + w) ELSE 0)
       /\ at \in S => "sample-duration" \in v /\ du \in Nat /\ Read(b, t) = du % WORD
  BY <1>1, <1>2, <1>15 DEF RunKnown, n
<1>17. t + 1 * m <= at + c[at]
  <2>1. 1 * m = m /\ (c[at] = size \/ c[at] = P)
    BY <1>1, <1>7
  <2> QED
    BY <1>1, <1>4, <2>1
<1>18. RunKnown(c, at, g, S)
  <2>1. /\ g.flags = Flags(c, at + 8) /\ g.flags = v /\ g.sample_count = 1 /\ g.duration = du
        /\ g.first_sample_duration_loc = lo /\ g.mFirstSampleSize = z
        /\ g = [flags |-> g.flags, sample_count |-> g.sample_count,
                sample_count_loc |-> at + 12,
                first_sample_duration_loc |-> g.first_sample_duration_loc,
                duration |-> g.duration, mFirstSampleSize |-> g.mFirstSampleSize]
    BY <1>14, <1>15
  <2>2. t = TableAt(at, v) /\ w = Word("sample-duration" \in v) /\ m = BytesPerSample(v)
    BY <1>1, <1>15 DEF m
  <2> QED
    BY <1>9, <1>11, <1>12, <1>15, <1>16, <1>17, <2>1, <2>2 DEF RunKnown
<1> QED
  BY <1>7, <1>8, <1>14, <1>18

\* The number of samples is kept in a field behind those that the box has
\* otherwise; what is cut off lies behind the samples that stay.
LEMMA TruncateEncryption ==
  ASSUME NEW b, NEW at \in Nat, NEW P \in Nat, NEW type, HeaderKnown(b, at, P, type), b[at] = P,
         P < WORD, NEW f, EncryptionKnown(b, at, f), NEW first \in Nat,
         f.sampleCountLoc + 4 + first <= at + P,
         NEW d, d = IF first = 0 THEN b ELSE Shrunk(b, at, P, f.sampleCountLoc + 4 + first - at),
         NEW c, c = Write32(d, f.sampleCountLoc, 1),
         NEW g, g = [f EXCEPT !.numSamples = 1]
  PROVE  /\ HeaderKnown(c, at, P, type) /\ SameBut(b, c, at, at + P)
         /\ EncryptionKnown(c, at, g) /\ g.numSamples = 1
<1>1. PICK loc : /\ loc \in Nat /\ loc = at + 12 /\ f.sampleCountLoc = loc /\ 16 <= P
  BY DEF EncryptionKnown
<1>2. /\ d = (IF first = 0 THEN b ELSE Shrunk(b, at, P, f.sampleCountLoc + 4 + first - at))
      /\ c = Write32(d, loc, 1)
  BY <1>1
<1>3. HeaderKnown(d, at, P, type) /\ SameBut(b, d, at, at + P) /\ d[at] \in Nat /\ d[at] >= 16
  <2>1. CASE first = 0
    BY <1>1, <1>2, <2>1 DEF SameBut
  <2>2. CASE first # 0
    <3>1. PICK size : /\ size \in Nat /\ size = f.sampleCountLoc + 4 + first - at
                      /\ 16 <= size /\ size <= P /\ d = Shrunk(b, at, P, size)
      BY <1>1, <1>2, <2>2
    <3>2. /\ HeaderKnown(d, at, P, type) /\ SameBut(b, d, at, at + P)
          /\ d[at] = IF P - size >= 8 THEN size ELSE P
      BY <3>1, ShrunkKeeps
    <3> QED
      BY <1>1, <3>1, <3>2
  <2> QED
    BY <2>1, <2>2
<1>4. HeaderKnown(c, at, P, type) /\ c[at] = d[at] /\ SameBut(d, c, at, at + P) /\ Read(c, loc) = 1
  <2>1. PICK s : s \in Nat /\ s = d[at] /\ at + 9 <= loc /\ loc + 4 <= at + s
    BY <1>1, <1>3
  <2> QED
    BY <1>1, <1>2, <1>3, <2>1, WriteField
<1>5. g = [numSamples |-> 1, sampleCountLoc |-> at + 12]
  <2>1. PICK n : f = [numSamples |-> n, sampleCountLoc |-> at + 12]
    BY DEF EncryptionKnown
  <2> QED
    BY <2>1
<1>6. EncryptionKnown(c, at, g)
  <2>1. g.numSamples = 1 /\ g = [numSamples |-> g.numSamples, sampleCountLoc |-> at + 12]
    BY <1>5
  <2> QED
    BY <1>1, <1>3, <1>4, <2>1 DEF EncryptionKnown
<1>7. SameBut(b, c, at, at + P)
  BY <1>3, <1>4, SameButTrans
<1> QED
  BY <1>4, <1>5, <1>6, <1>7

LEMMA TruncateSizes ==
  ASSUME NEW b, NEW at \in Nat, NEW P \in Nat, NEW type, HeaderKnown(b, at, P, type),
         P < WORD, NEW f, NEW first, SizesKnown(b, at, f, first), f.numSamples > 1 => b[at] = P,
         NEW z, z = P - (f.numSamples - 1), NEW d, d = Shrunk(b, at, P, z),
         NEW c, c = Write32(d, f.sampleCountLoc, 1),
         NEW g, g = [f EXCEPT !.numSamples = 1]
  PROVE  /\ HeaderKnown(c, at, P, type) /\ SameBut(b, c, at, at + P)
         /\ SizesKnown(c, at, g, first) /\ g.numSamples = 1
<1>1. PICK a : /\ a \in Nat /\ at + 12 <= a
               /\ a = at + 12 + 2 * Word("aux-info-type" \in Flags(b, at + 8))
  BY Widths
<1>2. /\ at + 8 \in DOMAIN b /\ f.sampleCountLoc = a + 1 /\ f.numSamples \in Nat \ {0}
      /\ first \in Nat /\ a + 5 + f.numSamples <= at + b[at]
      /\ Read(b, a) = 0 /\ Read(b, a + 1) = f.numSamples /\ Read(b, a + 5) = first
  BY <1>1 DEF SizesKnown
<1>3. b[at] \in Nat /\ b[at] <= P
  BY DEF HeaderKnown, HEADER
<1>4. PICK size : /\ size \in Nat /\ size = P - (f.numSamples - 1) /\ size <= P
                  /\ d = Shrunk(b, at, P, size) /\ c = Write32(d, a + 1, 1)
  <2>1. PICK n : n \in Nat \ {0} /\ n = f.numSamples /\ a + 5 + n <= at + b[at]
    BY <1>2
  <2>2. PICK size : size = P - (n - 1)
    OBVIOUS
  <2>3. size \in Nat /\ size <= P
    BY <1>1, <1>3, <2>1, <2>2
  <2> QED
    BY <1>2, <2>1, <2>2, <2>3
<1>5. /\ HeaderKnown(d, at, P, type) /\ SameBut(b, d, at, at + P)
      /\ d[at] \in Nat /\ a + 6 <= at + d[at]
      /\ SameIn(b, d, at + 4, a + 6)
  <2>1. CASE f.numSamples > 1
    <3>1. b[at] = P /\ a + 6 <= at + size /\ 8 <= size
      BY <1>1, <1>2, <1>3, <1>4, <2>1
    <3>2. /\ HeaderKnown(d, at, P, type) /\ SameBut(b, d, at, at + P)
          /\ d[at] = (IF P - size >= 8 THEN size ELSE P)
          /\ SameIn(b, d, at + 4, at + size)
      BY <1>4, <3>1, ShrunkKeeps
    <3>3. SameIn(b, d, at + 4, a + 6)
      BY <1>1, <1>4, <3>1, <3>2, SameInPart
    <3>4. d[at] \in Nat /\ a + 6 <= at + d[at]
      <4>1. CASE P - size >= 8
        BY <1>4, <3>1, <3>2, <4>1
      <4>2. CASE ~(P - size >= 8)
        BY <1>1, <1>4, <3>1, <3>2, <4>2
      <4> QED
        BY <4>1, <4>2
    <3>5. HeaderKnown(d, at, P, type) /\ SameBut(b, d, at, at + P)
      BY <3>2
    <3> QED
      BY ONLY <3>3, <3>4, <3>5
  <2>2. CASE f.numSamples = 1
    <3>1. size = P /\ (P - P) % WORD = 0
      BY <1>4, <2>2, IsoAssumption
    <3>2. d = b
      BY <1>4, <3>1 DEF Shrunk, HEADER
    <3>3. a + 6 <= at + b[at]
      BY <1>1, <1>2, <1>3, <2>2
    <3>4. SameBut(b, b, at, at + P) /\ SameIn(b, b, at + 4, a + 6)
      BY DEF SameBut, SameIn
    <3> QED
      BY <1>3, <3>2, <3>3, <3>4
  <2> QED
    BY <1>2, <2>1, <2>2
<1>6. /\ HeaderKnown(c, at, P, type) /\ c[at] = d[at] /\ SameBut(d, c, at, at + P)
      /\ SameBut(d, c, a + 1, a + 5) /\ Read(c, a + 1) = 1
  <2>1. PICK s, loc : /\ s \in Nat /\ s = d[at] /\ loc \in Nat /\ loc = a + 1
                      /\ at + 9 <= loc /\ loc + 4 <= at + s /\ c = Write32(d, loc, 1)
    BY <1>1, <1>4, <1>5
  <2>2. /\ HeaderKnown(c, at, P, type) /\ c[at] = s /\ SameBut(d, c, at, at + P)
        /\ SameBut(d, c, loc, loc + 4) /\ Read(c, loc) = 1
    BY <1>5, <2>1, WriteField
  <2> QED
    BY <1>1, <2>1, <2>2
<1>7. SameBut(b, c, at, at + P)
  BY <1>5, <1>6, SameButTrans
<1>8. ASSUME NEW y \in Nat, at + 4 <= y, y < a + 6, y < a + 1 \/ a + 5 <= y
      PROVE  /\ y \in DOMAIN c <=> y \in DOMAIN b
             /\ y \in DOMAIN b => c[y] = b[y]
             /\ Read(c, y) = Read(b, y)
  <2>1. /\ y \in DOMAIN c <=> y \in DOMAIN d
        /\ y \in DOMAIN d => c[y] = d[y]
        /\ Read(c, y) = Read(d, y)
    BY <1>1, <1>6, <1>8 DEF SameBut, Read
  <2>2. /\ y \in DOMAIN d <=> y \in DOMAIN b
        /\ y \in DOMAIN b => d[y] = b[y]
        /\ Read(d, y) = Read(b, y)
    BY <1>5, <1>8 DEF SameIn
  <2> QED
    BY <2>1, <2>2
<1>9. /\ at + 8 \in DOMAIN c /\ c[at + 8] = b[at + 8]
      /\ Read(c, a) = 0 /\ Read(c, a + 5) = first
  <2>1. /\ at + 8 \in Nat /\ at + 4 <= at + 8 /\ at + 8 < a + 6 /\ at + 8 < a + 1
        /\ at + 4 <= a /\ a < a + 6 /\ a < a + 1
        /\ a + 5 \in Nat /\ at + 4 <= a + 5 /\ a + 5 < a + 6 /\ a + 5 <= a + 5
    BY <1>1
  <2> QED
    BY <1>1, <1>2, <1>8, <2>1
<1>10. Flags(c, at + 8) = Flags(b, at + 8)
  BY <1>9 DEF Flags
<1>11. g = [numSamples |-> 1, sampleCountLoc |-> a + 1, firstSampleInfoSize |-> first]
  <2>1. PICK n : f = [numSamples |-> n, sampleCountLoc |-> a + 1, firstSampleInfoSize |-> first]
    BY <1>1 DEF SizesKnown
  <2> QED
    BY <2>1
<1>12. a + 5 + 1 <= at + c[at]
  BY <1>1, <1>5, <1>6
<1>13. SizesKnown(c, at, g, first)
  <2>3. g.numSamples = 1
    BY <1>11
  <2>1. g = [numSamples |-> g.numSamples, sampleCountLoc |-> a + 1,
             firstSampleInfoSize |-> first]
    BY <1>11, <2>3
  <2>2. a = at + 12 + 2 * Word("aux-info-type" \in Flags(c, at + 8))
    BY <1>1, <1>10
  <2> QED
    BY <1>2, <1>6, <1>9, <1>12, <2>1, <2>2, <2>3 DEF SizesKnown
<1> QED
  BY <1>6, <1>7, <1>11, <1>13

\* Media data and the type of a box.
LEMMA TruncateData ==
  ASSUME NEW b, NEW at \in Nat, NEW P \in Nat, NEW type, HeaderKnown(b, at, P, type), b[at] = P,
         NEW size \in Nat, 8 <= size, size <= P,
         NEW c, c = Write32(b, at, size)
  PROVE  HeaderKnown(c, at, size, type) /\ c[at] = size /\ SameBut(b, c, at, at + P)
<1>1. at \in DOMAIN c /\ c[at] = size /\ SameBut(b, c, at, at + 4)
  BY Written4
<1>2. SameBut(b, c, at, at + P)
  BY <1>1, SameButWider
<1>3. at + 4 \in DOMAIN c /\ c[at + 4] = type
  BY <1>1 DEF SameBut, HeaderKnown
<1> QED
  BY <1>1, <1>2, <1>3 DEF HeaderKnown, HEADER

LEMMA SkipHeader ==
  ASSUME NEW b, NEW at \in Nat, NEW P \in Nat, NEW type, HeaderKnown(b, at, P, type),
         NEW c, c = Write32(b, at + 4, "skip")
  PROVE  HeaderKnown(c, at, P, "skip") /\ SameBut(b, c, at, at + P)
<1>1. PICK tag, s : /\ tag \in Nat /\ tag = at + 4 /\ c = Write32(b, tag, "skip")
                    /\ s \in Nat /\ s = b[at] /\ 8 <= s /\ s <= P
  BY DEF HeaderKnown, HEADER
<1>2. tag \in DOMAIN c /\ c[tag] = "skip" /\ SameBut(b, c, tag, tag + 4)
  BY <1>1, Written4
<1>3. SameBut(b, c, at, at + P)
  BY <1>1, <1>2, SameButWider
<1>4. at \in DOMAIN c /\ c[at] = s
  BY <1>1, <1>2 DEF SameBut, HeaderKnown
<1>5. ASSUME s # P
      PROVE  /\ at + s \in DOMAIN c /\ c[at + s] = P - s
             /\ at + s + 4 \in DOMAIN c /\ c[at + s + 4] = "skip" /\ s + 8 <= P
  <2>1. /\ s + 8 <= P
        /\ at + s \in DOMAIN b /\ at + s + 4 \in DOMAIN b
        /\ b[at + s] = P - s /\ b[at + s + 4] = "skip"
    BY <1>1, <1>5 DEF HeaderKnown, HEADER
  <2>2. at + s \in Nat /\ tag + 4 <= at + s /\ at + s + 4 \in Nat /\ tag + 4 <= at + s + 4
    BY <1>1
  <2> QED
    BY <1>2, <2>1, <2>2 DEF SameBut
<1> QED
  BY <1>1, <1>2, <1>3, <1>4, <1>5 DEF HeaderKnown, HEADER

-----------------------------------------------------------------------------
(* Edits of a buffer.                                                      *)

\* A box knows nothing of the durations given to others.
LEMMA KnownStamped ==
  ASSUME NEW b, NEW n, NEW o, NEW l, NEW S, NEW T, Known(b, n, o, l, S),
         l.type \in Editable => (l.at \in S <=> l.at \in T)
  PROVE  Known(b, n, o, l, T)
<1>1. CASE l.type \in Editable
  <2>1. o.at = l.at /\ EditedKnown(b, Place(l, n), o, l, S)
    BY <1>1 DEF Known
  <2>2. FieldsKnown(b, Place(l, n), o, l, T)
    BY <1>1, <2>1 DEF EditedKnown, FieldsKnown, RunKnown
  <2>3. EditedKnown(b, Place(l, n), o, l, T)
    BY <2>1, <2>2 DEF EditedKnown
  <2> QED
    BY <1>1, <2>3 DEF Known
<1>2. CASE l.type \notin Editable
  BY <1>2 DEF Known
<1> QED
  BY <1>1, <1>2

\* The part of a box that is its own.
LEMMA OwnParts ==
  ASSUME ObjectsKnown, NEW i \in DOMAIN boxes
  PROVE  /\ laid[i].at \in Nat /\ laid[i].size \in Nat /\ OwnEnd(laid[i]) \in Nat
         /\ laid[i].type \in Editable =>
              /\ OwnEnd(laid[i]) = laid[i].at + laid[i].size
              /\ Place(laid[i], bufSize) \in Nat /\ Place(laid[i], bufSize) >= 8
              /\ Place(laid[i], bufSize) <= laid[i].size
              /\ laid[i].at + Place(laid[i], bufSize) <= bufSize
<1>1. Known(buffer, bufSize, boxes[i], laid[i], stamped) /\ bufSize \in Nat
  BY IsoAssumption DEF ObjectsKnown
<1>2. laid[i].at \in Nat /\ laid[i].size \in Nat
  BY <1>1 DEF Known
<1>3. OwnEnd(laid[i]) \in Nat
  BY <1>2 DEF OwnEnd, HEADER
<1>4. laid[i].type \in Editable => OwnEnd(laid[i]) = laid[i].at + laid[i].size
  BY DEF OwnEnd, Editable, FullBoxes, Containers
<1>5. laid[i].type \in Editable =>
        /\ Place(laid[i], bufSize) \in Nat /\ Place(laid[i], bufSize) >= 8
        /\ Place(laid[i], bufSize) <= laid[i].size
        /\ laid[i].at + Place(laid[i], bufSize) <= bufSize
  BY <1>1, KnownFits
<1> QED
  BY <1>2, <1>3, <1>4, <1>5

LEMMA Ordered ==
  ASSUME ObjectsKnown, NEW i \in DOMAIN boxes, NEW j \in DOMAIN boxes, i # j
  PROVE  i < j \/ j < i
<1>1. PICK S : boxes \in Seq(S)
  BY DEF ObjectsKnown, IsSequence
<1>2. DOMAIN boxes = 1..Len(boxes) /\ Len(boxes) \in Nat
  BY <1>1, LenProperties
<1> QED
  BY <1>2

\* What is written to the place of one box is not in another.
LEMMA OthersStay ==
  ASSUME ObjectsKnown, NEW i \in DOMAIN boxes, NEW j \in DOMAIN boxes, i # j,
         laid[i].type \in Editable, NEW c,
         SameBut(buffer, c, laid[i].at, laid[i].at + Place(laid[i], bufSize))
  PROVE  /\ SameIn(buffer, c, laid[j].at, OwnEnd(laid[j]))
         /\ laid[j].type \in Editable => laid[j].at # laid[i].at
<1> DEFINE from == laid[i].at
           to == laid[i].at + Place(laid[i], bufSize)
           lo == laid[j].at
           hi == OwnEnd(laid[j])
<1>1. /\ from \in Nat /\ to \in Nat /\ from + 8 <= to /\ to <= OwnEnd(laid[i])
      /\ OwnEnd(laid[i]) \in Nat
  BY OwnParts
<1>2. lo \in Nat /\ hi \in Nat /\ (laid[j].type \in Editable => lo + 8 <= hi)
  BY OwnParts
<1>3. hi <= from \/ OwnEnd(laid[i]) <= lo
  BY Ordered DEF ObjectsKnown, InOrder
<1>4. SameBut(buffer, c, from, to)
  OBVIOUS
<1> HIDE DEF from, to, lo, hi
<1>5. hi <= from \/ to <= lo
  BY <1>1, <1>2, <1>3
<1>6. SameIn(buffer, c, lo, hi)
  BY <1>1, <1>2, <1>4, <1>5, SameInside
<1>7. laid[j].type \in Editable => lo # from
  BY <1>1, <1>2, <1>5
<1> QED
  BY <1>6, <1>7 DEF lo, hi, from

LEMMA OneEdited ==
  ASSUME ObjectsKnown, NEW i \in DOMAIN boxes, NEW q, boxes' = [boxes EXCEPT ![i] = q],
         UNCHANGED <<bufSize, laid>>, laid[i].type \in Editable,
         IsBox(q), q.at = laid[i].at,
         EditedKnown(buffer', Place(laid[i], bufSize), q, laid[i], stamped'),
         SameBut(buffer, buffer', laid[i].at, laid[i].at + Place(laid[i], bufSize)),
         stamped' \in {stamped, stamped \union {laid[i].at}}
  PROVE  ObjectsKnown'
<1>1. /\ IsSequence(boxes') /\ DOMAIN boxes' = DOMAIN boxes
      /\ boxes'[i] = q /\ \A j \in DOMAIN boxes : j # i => boxes'[j] = boxes[j]
  <2>1. IsSequence(boxes)
    BY DEF ObjectsKnown
  <2> QED
    BY <2>1, SequenceEdited
<1>2. Known(buffer', bufSize, q, laid[i], stamped')
  <2>1. /\ laid[i].at \in Nat /\ laid[i].size \in Nat
        /\ laid[i].type # "mdat" => laid[i].at + laid[i].size <= bufSize
    BY DEF ObjectsKnown, Known
  <2> QED
    BY <2>1 DEF Known
<1>3. ASSUME NEW j \in DOMAIN boxes, j # i
      PROVE  Known(buffer', bufSize, boxes[j], laid[j], stamped')
  <2>1. /\ SameIn(buffer, buffer', laid[j].at, OwnEnd(laid[j]))
        /\ laid[j].type \in Editable => laid[j].at # laid[i].at
    BY <1>3, OthersStay
  <2>2. Known(buffer, bufSize, boxes[j], laid[j], stamped) /\ bufSize \in Nat
    BY IsoAssumption DEF ObjectsKnown
  <2>3. laid[j].type # "mdat" => laid[j].at + laid[j].size <= bufSize
    BY <2>2 DEF Known
  <2>4. Known(buffer', bufSize, boxes[j], laid[j], stamped)
    BY <2>1, <2>2, <2>3, KnownStays
  <2>5. laid[j].type \in Editable => (laid[j].at \in stamped <=> laid[j].at \in stamped')
    BY <2>1
  <2> QED
    BY <2>4, <2>5, KnownStamped
<1>4. \A j \in DOMAIN boxes : Known(buffer', bufSize, boxes'[j], laid[j], stamped')
  BY <1>1, <1>2, <1>3
<1> QED
  BY <1>1, <1>4 DEF ObjectsKnown

\* What is known of a box that the program edits.
LEMMA EditableKnown ==
  ASSUME ObjectsKnown, NEW i \in DOMAIN boxes, boxes[i].type \in Editable
  PROVE  /\ laid[i].type = boxes[i].type /\ IsBox(boxes[i]) /\ boxes[i].at = laid[i].at
         /\ laid[i].at \in Nat /\ laid[i].size \in Nat
         /\ EditedKnown(buffer, Place(laid[i], bufSize), boxes[i], laid[i], stamped)
         /\ Place(laid[i], bufSize) \in Nat /\ Place(laid[i], bufSize) < WORD
         /\ boxes[i].type # "mdat" => Place(laid[i], bufSize) = laid[i].size
<1>1. Known(buffer, bufSize, boxes[i], laid[i], stamped) /\ bufSize \in Nat /\ bufSize < WORD
  BY IsoAssumption DEF ObjectsKnown
<1>2. laid[i].type \in Editable
  BY <1>1 DEF Known, PlainKnown
<1>3. EditedKnown(buffer, Place(laid[i], bufSize), boxes[i], laid[i], stamped)
  BY <1>1, <1>2 DEF Known
<1>4. laid[i].type = boxes[i].type
  BY <1>3 DEF EditedKnown, Editable, FullBoxes
<1>5. /\ laid[i].at \in Nat /\ laid[i].size \in Nat /\ IsBox(boxes[i]) /\ boxes[i].at = laid[i].at
      /\ boxes[i].type # "mdat" => Place(laid[i], bufSize) = laid[i].size
  BY <1>1, <1>4, KnownFits DEF Known
<1>6. Place(laid[i], bufSize) \in Nat /\ laid[i].at + Place(laid[i], bufSize) <= bufSize
  BY <1>2, OwnParts
<1> QED
  BY <1>1, <1>3, <1>4, <1>5, <1>6, IsoAssumption

\* The object with other fields, another size or type.
With(o, type, size, fields) ==
  [type |-> type, at |-> o.at, offset |-> o.offset, size |-> size, whole |-> o.whole,
   fields |-> fields]

LEMMA WithIsBox ==
  ASSUME NEW o, NEW type, NEW size, NEW fields, NEW q, q = With(o, type, size, fields)
  PROVE  /\ IsBox(q) /\ q.type = type /\ q.at = o.at /\ q.size = size /\ q.whole = o.whole
         /\ q.fields = fields
BY DEF With, IsBox

\* A setter gives one object one field.
LEMMA EditShape ==
  ASSUME NEW i \in DOMAIN boxes, IsBox(boxes[i]), NEW field, NEW x, Edit(i, field, x),
         NEW g, g = [boxes[i].fields EXCEPT ![field] = x]
  PROVE  boxes' = [boxes EXCEPT ![i] = With(boxes[i], boxes[i].type, boxes[i].size, g)]
<1>1. boxes' = [boxes EXCEPT ![i] = [boxes[i] EXCEPT !.fields = g]]
  BY DEF Edit
<1>2. PICK t, a, o, s, w, f :
        boxes[i] = [type |-> t, at |-> a, offset |-> o, size |-> s, whole |-> w, fields |-> f]
  BY DEF IsBox
<1>3. [boxes[i] EXCEPT !.fields = g] =
        [type |-> t, at |-> a, offset |-> o, size |-> s, whole |-> w, fields |-> g]
  BY <1>2
<1>4. With(boxes[i], boxes[i].type, boxes[i].size, g) =
        [type |-> t, at |-> a, offset |-> o, size |-> s, whole |-> w, fields |-> g]
  BY <1>2 DEF With
<1> QED
  BY <1>1, <1>3, <1>4

\* One box gets other fields, another size or type.
LEMMA EditedWith ==
  ASSUME ObjectsKnown, NEW i \in DOMAIN boxes, boxes[i].type \in Editable, boxes[i].whole,
         NEW type \in {boxes[i].type, "skip"}, NEW size, NEW g, NEW q,
         q = With(boxes[i], type, size, g), boxes' = [boxes EXCEPT ![i] = q],
         UNCHANGED <<bufSize, laid>>, stamped' \in {stamped, stamped \union {laid[i].at}},
         HeaderKnown(buffer', laid[i].at, Place(laid[i], bufSize), type),
         SameBut(buffer, buffer', laid[i].at, laid[i].at + Place(laid[i], bufSize)),
         FieldsKnown(buffer', Place(laid[i], bufSize), q, laid[i], stamped')
  PROVE  ObjectsKnown'
<1>1. laid[i].type = boxes[i].type /\ boxes[i].at = laid[i].at
  BY EditableKnown
<1>2. IsBox(q) /\ q.type = type /\ q.at = laid[i].at /\ q.whole
  BY <1>1, WithIsBox
<1>3. EditedKnown(buffer', Place(laid[i], bufSize), q, laid[i], stamped')
  BY <1>1, <1>2 DEF EditedKnown
<1> QED
  BY <1>1, <1>2, <1>3, OneEdited

-----------------------------------------------------------------------------
(* The actions.                                                            *)

LEMMA setTimeScaleKeeps ==
  ASSUME ObjectsKnown, NEW i \in DOMAIN boxes, NEW x \in Nat, setTimeScale(i, x)
  PROVE  ObjectsKnown'
<1> DEFINE o == boxes[i]
           l == laid[i]
           P == Place(l, bufSize)
           g == [o.fields EXCEPT !["timeScale"] = x]
           q == With(o, o.type, o.size, g)
<1>1. /\ o.type \in {"mvhd", "mdhd"} /\ o.whole /\ Edit(i, "timeScale", x)
      /\ buffer' = Write32(buffer, o.fields.timeScale_loc, x % WORD)
      /\ UNCHANGED <<bufSize, laid>> /\ stamped' = stamped
  BY DEF setTimeScale, Is, SameBuffer
<1>2. o.type \in Editable
  BY <1>1 DEF Editable, FullBoxes
<1>3. /\ l.type = o.type /\ IsBox(o) /\ o.at = l.at /\ l.at \in Nat /\ P \in Nat
      /\ EditedKnown(buffer, P, o, l, stamped)
  BY <1>2, EditableKnown
<1>4. boxes' = [boxes EXCEPT ![i] = q]
  BY <1>1, <1>3, EditShape
<1>5. q.type = o.type /\ q.at = l.at /\ q.fields = g /\ q.size = o.size
  BY <1>3, WithIsBox
<1> HIDE DEF q, g
<1>6. /\ HeaderKnown(buffer', l.at, P, o.type) /\ SameBut(buffer, buffer', l.at, l.at + P)
      /\ FieldsKnown(buffer', P, q, l, stamped')
  <2>1. PICK at, p, s, b, f, t :
          /\ at \in Nat /\ at = l.at /\ p \in Nat /\ p = P /\ s \in Nat /\ s = b[at]
          /\ b = buffer /\ f = o.fields /\ t = o.type
          /\ HeaderKnown(b, at, p, t) /\ ScaleKnown(b, at, f)
    BY <1>1, <1>3 DEF EditedKnown, FieldsKnown, HeaderKnown, HEADER
  <2>2. /\ buffer' = Write32(b, f.timeScale_loc, x % WORD)
        /\ g = [f EXCEPT !["timeScale"] = x]
    BY <1>1, <2>1 DEF g
  <2>3. /\ HeaderKnown(buffer', at, p, t) /\ SameBut(b, buffer', at, at + p)
        /\ ScaleKnown(buffer', at, g)
    BY <2>1, <2>2, SetScale
  <2> QED
    BY <1>1, <1>5, <2>1, <2>3 DEF FieldsKnown
<1> QED
  BY <1>1, <1>2, <1>3, <1>4, <1>6, EditedWith DEF q

LEMMA setBaseMDTKeeps ==
  ASSUME ObjectsKnown, NEW i \in DOMAIN boxes, NEW x \in Nat, setBaseMDT(i, x)
  PROVE  ObjectsKnown'
<1> DEFINE o == boxes[i]
           l == laid[i]
           P == Place(l, bufSize)
           g == [o.fields EXCEPT !["baseMDT"] = x]
           q == With(o, o.type, o.size, g)
<1>1. /\ o.type = "tfdt" /\ o.whole /\ Edit(i, "baseMDT", x)
      /\ buffer' = Write32(buffer, o.fields.baseMDT_loc,
                           IF o.fields.version = 1 THEN x ELSE x % WORD)
      /\ UNCHANGED <<bufSize, laid>> /\ stamped' = stamped
  BY DEF setBaseMDT, Is, SameBuffer
<1>2. o.type \in Editable
  BY <1>1 DEF Editable, FullBoxes
<1>3. /\ l.type = o.type /\ IsBox(o) /\ o.at = l.at /\ l.at \in Nat /\ P \in Nat
      /\ EditedKnown(buffer, P, o, l, stamped)
  BY <1>2, EditableKnown
<1>4. boxes' = [boxes EXCEPT ![i] = q]
  BY <1>1, <1>3, EditShape
<1>5. q.type = o.type /\ q.at = l.at /\ q.fields = g /\ q.size = o.size
  BY <1>3, WithIsBox
<1> HIDE DEF q, g
<1>6. /\ HeaderKnown(buffer', l.at, P, o.type) /\ SameBut(buffer, buffer', l.at, l.at + P)
      /\ FieldsKnown(buffer', P, q, l, stamped')
  <2>1. PICK at, p, s, b, f, t :
          /\ at \in Nat /\ at = l.at /\ p \in Nat /\ p = P /\ s \in Nat /\ s = b[at]
          /\ b = buffer /\ f = o.fields /\ t = o.type
          /\ HeaderKnown(b, at, p, t) /\ TimeKnown(b, at, f)
    BY <1>1, <1>3 DEF EditedKnown, FieldsKnown, HeaderKnown, HEADER
  <2>2. /\ buffer' = Write32(b, f.baseMDT_loc, IF f.version = 1 THEN x ELSE x % WORD)
        /\ g = [f EXCEPT !["baseMDT"] = x]
    BY <1>1, <2>1 DEF g
  <2>3. /\ HeaderKnown(buffer', at, p, t) /\ SameBut(b, buffer', at, at + p)
        /\ TimeKnown(buffer', at, g)
    BY <2>1, <2>2, SetTime
  <2> QED
    BY <1>1, <1>5, <2>1, <2>3 DEF FieldsKnown
<1> QED
  BY <1>1, <1>2, <1>3, <1>4, <1>6, EditedWith DEF q

LEMMA setDefaultSampleDurationKeeps ==
  ASSUME ObjectsKnown, NEW i \in DOMAIN boxes, NEW x \in Nat, setDefaultSampleDuration(i, x)
  PROVE  ObjectsKnown'
<1> DEFINE o == boxes[i]
           l == laid[i]
           P == Place(l, bufSize)
           g == [o.fields EXCEPT !["mDefaultSampleDuration"] = x]
           q == With(o, o.type, o.size, g)
<1>1. /\ o.type = "tfhd" /\ o.whole /\ Edit(i, "mDefaultSampleDuration", x)
      /\ o.fields.default_sample_duration_loc # 0
      /\ buffer' = Write32(buffer, o.fields.default_sample_duration_loc, x % WORD)
      /\ UNCHANGED <<bufSize, laid>> /\ stamped' = stamped
  BY DEF setDefaultSampleDuration, Is, SameBuffer
<1>2. o.type \in Editable
  BY <1>1 DEF Editable, FullBoxes
<1>3. /\ l.type = o.type /\ IsBox(o) /\ o.at = l.at /\ l.at \in Nat /\ P \in Nat
      /\ EditedKnown(buffer, P, o, l, stamped)
  BY <1>2, EditableKnown
<1>4. boxes' = [boxes EXCEPT ![i] = q]
  BY <1>1, <1>3, EditShape
<1>5. q.type = o.type /\ q.at = l.at /\ q.fields = g /\ q.size = o.size
  BY <1>3, WithIsBox
<1> HIDE DEF q, g
<1>6. /\ HeaderKnown(buffer', l.at, P, o.type) /\ SameBut(buffer, buffer', l.at, l.at + P)
      /\ FieldsKnown(buffer', P, q, l, stamped')
  <2>1. PICK at, p, s, b, f, t :
          /\ at \in Nat /\ at = l.at /\ p \in Nat /\ p = P /\ s \in Nat /\ s = b[at]
          /\ b = buffer /\ f = o.fields /\ t = o.type
          /\ HeaderKnown(b, at, p, t) /\ DefaultKnown(b, at, f)
    BY <1>1, <1>3 DEF EditedKnown, FieldsKnown, HeaderKnown, HEADER
  <2>2. /\ buffer' = Write32(b, f.default_sample_duration_loc, x % WORD)
        /\ f.default_sample_duration_loc # 0
        /\ g = [f EXCEPT !["mDefaultSampleDuration"] = x]
    BY <1>1, <2>1 DEF g
  <2>3. /\ HeaderKnown(buffer', at, p, t) /\ SameBut(b, buffer', at, at + p)
        /\ DefaultKnown(buffer', at, g)
    BY <2>1, <2>2, SetDefault
  <2> QED
    BY <1>1, <1>5, <2>1, <2>3 DEF FieldsKnown
<1> QED
  BY <1>1, <1>2, <1>3, <1>4, <1>6, EditedWith DEF q

LEMMA setFirstSampleDurationKeeps ==
  ASSUME ObjectsKnown, NEW i \in DOMAIN boxes, NEW x \in Nat, setFirstSampleDuration(i, x)
  PROVE  ObjectsKnown'
<1> DEFINE o == boxes[i]
           l == laid[i]
           P == Place(l, bufSize)
           g == [o.fields EXCEPT !["duration"] = x]
           q == With(o, o.type, o.size, g)
<1>1. /\ o.type = "trun" /\ o.whole /\ Edit(i, "duration", x)
      /\ o.fields.first_sample_duration_loc # 0
      /\ buffer' = Write32(buffer, o.fields.first_sample_duration_loc, x % WORD)
      /\ UNCHANGED <<bufSize, laid>> /\ stamped' = stamped \union {o.at}
  BY DEF setFirstSampleDuration, Is, SameBuffer
<1>2. o.type \in Editable
  BY <1>1 DEF Editable, FullBoxes
<1>3. /\ l.type = o.type /\ IsBox(o) /\ o.at = l.at /\ l.at \in Nat /\ P \in Nat
      /\ EditedKnown(buffer, P, o, l, stamped)
  BY <1>2, EditableKnown
<1>4. boxes' = [boxes EXCEPT ![i] = q]
  BY <1>1, <1>3, EditShape
<1>5. q.type = o.type /\ q.at = l.at /\ q.fields = g /\ q.size = o.size
  BY <1>3, WithIsBox
<1> HIDE DEF q, g
<1>6. /\ HeaderKnown(buffer', l.at, P, o.type) /\ SameBut(buffer, buffer', l.at, l.at + P)
      /\ FieldsKnown(buffer', P, q, l, stamped')
  <2>1. PICK at, p, s, b, f, t, S, T :
          /\ at \in Nat /\ at = l.at /\ p \in Nat /\ p = P /\ s \in Nat /\ s = b[at]
          /\ b = buffer /\ f = o.fields /\ t = o.type /\ S = stamped /\ T = stamped' /\ at \in T
          /\ HeaderKnown(b, at, p, t) /\ RunKnown(b, at, f, S)
    BY <1>1, <1>3 DEF EditedKnown, FieldsKnown, HeaderKnown, HEADER
  <2>2. PICK c, h : /\ c = buffer' /\ h = g /\ c = Write32(b, f.first_sample_duration_loc, x % WORD)
                    /\ f.first_sample_duration_loc # 0
                    /\ h = [f EXCEPT !["duration"] = x]
    BY <1>1, <2>1 DEF g
  <2>3. /\ HeaderKnown(c, at, p, t) /\ SameBut(b, c, at, at + p) /\ c[at] = s
        /\ RunKnown(c, at, h, T) /\ h.sample_count = f.sample_count
    BY <2>1, <2>2, SetDuration
  <2>4. /\ o.size = buffer[o.at]
        /\ o.fields.sample_count > 1 => buffer[o.at] = P
    BY <1>1, <1>3 DEF EditedKnown, FieldsKnown
  <2>6. HeaderKnown(buffer', l.at, P, o.type) /\ SameBut(buffer, buffer', l.at, l.at + P)
    BY <2>1, <2>2, <2>3
  <2>7. RunKnown(buffer', q.at, q.fields, stamped') /\ q.size = buffer'[q.at]
    BY <1>3, <1>5, <2>1, <2>2, <2>3, <2>4
  <2>8. q.fields.sample_count > 1 => buffer'[q.at] = P
    BY <1>3, <1>5, <2>1, <2>2, <2>3, <2>4
  <2>9. FieldsKnown(buffer', P, q, l, stamped')
    BY <1>1, <1>5, <2>7, <2>8 DEF FieldsKnown
  <2> QED
    BY <2>6, <2>9
<1> QED
  BY <1>1, <1>2, <1>3, <1>4, <1>6, EditedWith DEF q

\* truncateTrun gives one object two fields.
LEMMA RunShape ==
  ASSUME NEW i \in DOMAIN boxes, IsBox(boxes[i]), truncateTrun(i), NEW newSize,
         newSize = boxes[i].size
                   - (boxes[i].fields.sample_count - 1) * BytesPerSample(boxes[i].fields.flags),
         NEW g, g = [boxes[i].fields EXCEPT !.sample_count = 1],
         NEW z, z = IF boxes[i].size - newSize >= HEADER THEN newSize ELSE boxes[i].size
  PROVE  boxes' = [boxes EXCEPT ![i] = With(boxes[i], boxes[i].type, z, g)]
<1>0. PICK s : /\ s = boxes[i].size
               /\ boxes' = [boxes EXCEPT ![i].fields.sample_count = 1,
                              ![i].size = IF s - newSize >= HEADER THEN newSize ELSE @]
               /\ z = IF s - newSize >= HEADER THEN newSize ELSE s
  BY DEF truncateTrun
<1>1. PICK t, a, o, w, f :
        boxes[i] = [type |-> t, at |-> a, offset |-> o, size |-> s, whole |-> w, fields |-> f]
  BY <1>0 DEF IsBox
<1> DEFINE e == [boxes EXCEPT ![i].fields.sample_count = 1]
           q == With(boxes[i], boxes[i].type, z, g)
<1>2. e = [boxes EXCEPT ![i] = [boxes[i] EXCEPT !.fields = g]]
  OBVIOUS
<1>3. /\ [boxes[i] EXCEPT !.fields = g] =
           [type |-> t, at |-> a, offset |-> o, size |-> s, whole |-> w, fields |-> g]
      /\ q = [type |-> t, at |-> a, offset |-> o, size |-> z, whole |-> w, fields |-> g]
  BY <1>1 DEF With
<1>4. DOMAIN e = DOMAIN boxes /\ e[i] = [boxes[i] EXCEPT !.fields = g]
  BY <1>2
<1> HIDE DEF q, e
<1>5. PICK r : r = e[i] /\ r = [type |-> t, at |-> a, offset |-> o, size |-> s, whole |-> w,
                                 fields |-> g]
  BY <1>3, <1>4
<1>9. [r EXCEPT !.size = z] = q
  BY ONLY <1>3, <1>5
<1>6. e[i].size = s
  BY <1>5
<1>7. boxes' = [e EXCEPT ![i] = [e[i] EXCEPT !.size = z]]
  BY <1>0, <1>6 DEF e
<1>8. [e EXCEPT ![i] = q] = [boxes EXCEPT ![i] = q]
  BY <1>2
<1> QED
  BY <1>5, <1>7, <1>8, <1>9 DEF q

LEMMA truncateTrunKeeps ==
  ASSUME ObjectsKnown, NEW i \in DOMAIN boxes, truncateTrun(i)
  PROVE  ObjectsKnown'
<1> DEFINE o == boxes[i]
           l == laid[i]
           P == Place(l, bufSize)
           newSize == o.size - (o.fields.sample_count - 1) * BytesPerSample(o.fields.flags)
           g == [o.fields EXCEPT !.sample_count = 1]
           z == IF o.size - newSize >= HEADER THEN newSize ELSE o.size
           q == With(o, o.type, z, g)
<1>1. /\ o.type = "trun" /\ o.whole /\ o.fields.sample_count > 1
      /\ boxes' = [boxes EXCEPT ![i].fields.sample_count = 1,
                     ![i].size = IF o.size - newSize >= HEADER THEN newSize ELSE @]
      /\ buffer' = Shrunk(Write32(buffer, o.fields.sample_count_loc, 1), o.at, o.size, newSize)
      /\ UNCHANGED <<bufSize, laid>> /\ stamped' = stamped
  BY DEF truncateTrun, Is, SameBuffer
<1>2. o.type \in Editable
  BY <1>1 DEF Editable, FullBoxes
<1>3. /\ l.type = o.type /\ IsBox(o) /\ o.at = l.at /\ l.at \in Nat /\ P \in Nat /\ P < WORD
      /\ EditedKnown(buffer, P, o, l, stamped)
  BY <1>2, EditableKnown
<1>4. boxes' = [boxes EXCEPT ![i] = q]
  <2>1. PICK n, y, h :
          /\ n = newSize /\ h = g /\ h = [o.fields EXCEPT !.sample_count = 1]
          /\ n = o.size - (o.fields.sample_count - 1) * BytesPerSample(o.fields.flags)
          /\ y = z /\ y = IF o.size - n >= HEADER THEN n ELSE o.size
    OBVIOUS
  <2> HIDE DEF g, z, newSize
  <2>2. boxes' = [boxes EXCEPT ![i] = With(o, o.type, y, h)]
    BY <1>3, <2>1, RunShape
  <2> QED
    BY <2>1, <2>2
<1>5. q.type = o.type /\ q.at = l.at /\ q.fields = g /\ q.size = z
  BY <1>3, WithIsBox
<1> HIDE DEF q
<1>6. /\ HeaderKnown(buffer', l.at, P, o.type) /\ SameBut(buffer, buffer', l.at, l.at + P)
      /\ FieldsKnown(buffer', P, q, l, stamped')
  <2>0. /\ o.size = P /\ buffer[o.at] = P
        /\ HeaderKnown(buffer, l.at, P, o.type) /\ RunKnown(buffer, l.at, o.fields, stamped)
    BY <1>1, <1>3 DEF EditedKnown, FieldsKnown
  <2>1. PICK at, p, b, f, t, S, size, c, h :
          /\ at \in Nat /\ at = l.at /\ p \in Nat /\ p = P /\ b[at] = p /\ p < WORD
          /\ b = buffer /\ f = o.fields /\ t = o.type /\ S = stamped /\ f.sample_count > 1
          /\ HeaderKnown(b, at, p, t) /\ RunKnown(b, at, f, S)
          /\ size = newSize /\ size = p - (f.sample_count - 1) * BytesPerSample(f.flags)
          /\ c = buffer' /\ c = Shrunk(Write32(b, f.sample_count_loc, 1), at, p, size)
          /\ h = g /\ h = [f EXCEPT !.sample_count = 1]
    BY <1>1, <1>3, <2>0
  <2> HIDE DEF g
  <2>2. /\ HeaderKnown(c, at, p, t) /\ SameBut(b, c, at, at + p)
        /\ c[at] = (IF p - size >= 8 THEN size ELSE p)
        /\ RunKnown(c, at, h, S) /\ h.sample_count = 1
    BY <2>1, TruncateRun
  <2>3. z = c[at]
    BY <2>0, <2>1, <2>2 DEF HEADER
  <2> HIDE DEF newSize, z
  <2>4. HeaderKnown(buffer', l.at, P, o.type) /\ SameBut(buffer, buffer', l.at, l.at + P)
    BY <2>1, <2>2
  <2>5. RunKnown(buffer', q.at, q.fields, stamped') /\ q.size = buffer'[q.at]
    BY <1>1, <1>5, <2>1, <2>2, <2>3
  <2>6. q.fields.sample_count = 1
    BY <1>5, <2>1, <2>2
  <2>7. FieldsKnown(buffer', P, q, l, stamped')
    BY <1>1, <1>5, <2>5, <2>6 DEF FieldsKnown
  <2> QED
    BY <2>4, <2>7
<1>7. o.whole /\ UNCHANGED <<bufSize, laid>> /\ stamped' = stamped
  BY <1>1
<1>8. q = With(boxes[i], boxes[i].type, z, g)
  BY DEF q
<1> HIDE DEF g, z, newSize
<1> QED
  BY <1>2, <1>4, <1>6, <1>7, <1>8, EditedWith

\* The boxes that tell the first sample's size, as they were read.
LEMMA FirstInfo ==
  ASSUME ObjectsKnown, NEW n \in FirstInfoSize
  PROVE  \E j \in DOMAIN boxes : laid[j].type = "saiz" /\ n = laid[j].fields.firstSampleInfoSize
                                 /\ n \in Nat
<1>1. PICK j \in DOMAIN boxes : boxes[j].type = "saiz" /\ n = boxes[j].fields.firstSampleInfoSize
  BY DEF FirstInfoSize, Is
<1>2. boxes[j].type \in Editable
  BY <1>1 DEF Editable, FullBoxes
<1>3. /\ laid[j].type = "saiz"
      /\ EditedKnown(buffer, Place(laid[j], bufSize), boxes[j], laid[j], stamped)
  BY <1>1, <1>2, EditableKnown
<1>4. SizesKnown(buffer, boxes[j].at, boxes[j].fields, laid[j].fields.firstSampleInfoSize)
  BY <1>1, <1>3 DEF EditedKnown, FieldsKnown
<1>5. PICK f, k : /\ f = boxes[j].fields /\ k = laid[j].fields.firstSampleInfoSize
                  /\ SizesKnown(buffer, boxes[j].at, f, k)
  BY <1>4
<1>6. f.firstSampleInfoSize = k /\ k \in Nat
  BY <1>5 DEF SizesKnown
<1> QED
  BY <1>1, <1>3, <1>5, <1>6

LEMMA truncateSencKeeps ==
  ASSUME ObjectsKnown, NEW i \in DOMAIN boxes, NEW n \in FirstInfoSize, truncateSenc(i, n)
  PROVE  ObjectsKnown'
<1> DEFINE o == boxes[i]
           l == laid[i]
           P == Place(l, bufSize)
           g == [o.fields EXCEPT !["numSamples"] = 1]
           q == With(o, o.type, o.size, g)
<1>1. /\ o.type = "senc" /\ o.whole /\ Edit(i, "numSamples", 1) /\ o.fields.numSamples > 1
      /\ buffer' = Write32(IF n = 0 THEN buffer
                           ELSE Shrunk(buffer, o.at, o.size,
                                       o.fields.sampleCountLoc + 4 + n - o.at),
                           o.fields.sampleCountLoc, 1)
      /\ UNCHANGED <<bufSize, laid>> /\ stamped' = stamped
  BY DEF truncateSenc, Is, SameBuffer
<1>2. o.type \in Editable
  BY <1>1 DEF Editable, FullBoxes
<1>3. /\ l.type = o.type /\ IsBox(o) /\ o.at = l.at /\ l.at \in Nat /\ P \in Nat /\ P < WORD
      /\ EditedKnown(buffer, P, o, l, stamped) /\ P = l.size
  BY <1>1, <1>2, EditableKnown
<1>4. boxes' = [boxes EXCEPT ![i] = q]
  BY <1>1, <1>3, EditShape
<1>5. q.type = o.type /\ q.at = l.at /\ q.fields = g /\ q.size = o.size
  BY <1>3, WithIsBox
<1> HIDE DEF q, g
<1>6. /\ HeaderKnown(buffer', l.at, P, o.type) /\ SameBut(buffer, buffer', l.at, l.at + P)
      /\ FieldsKnown(buffer', P, q, l, stamped')
  <2>0. /\ HeaderKnown(buffer, l.at, P, o.type) /\ EncryptionKnown(buffer, l.at, o.fields)
        /\ o.size = l.size /\ buffer[l.at] = P
        /\ o.fields.sampleCountLoc = l.fields.sampleCountLoc
        /\ o.fields.numSamples = l.fields.numSamples
    BY <1>1, <1>3 DEF EditedKnown, FieldsKnown
  <2>1. n \in Nat /\ l.fields.sampleCountLoc + 4 + n <= l.at + P
    <3>1. PICK j \in DOMAIN boxes :
            laid[j].type = "saiz" /\ n = laid[j].fields.firstSampleInfoSize /\ n \in Nat
      BY FirstInfo
    <3>2. l.type = "senc" /\ l.fields.numSamples > 1
      BY <1>1, <1>3, <2>0
    <3> QED
      BY <1>3, <3>1, <3>2 DEF ObjectsKnown, InOrder
  <2>2. PICK at, p, b, f, t, c, h, k, d :
          /\ at \in Nat /\ at = l.at /\ p \in Nat /\ p = P /\ b[at] = p /\ p < WORD
          /\ b = buffer /\ f = o.fields /\ t = o.type /\ k \in Nat /\ k = n
          /\ HeaderKnown(b, at, p, t) /\ EncryptionKnown(b, at, f)
          /\ f.sampleCountLoc + 4 + k <= at + p
          /\ c = buffer'
          /\ d = IF k = 0 THEN b ELSE Shrunk(b, at, p, f.sampleCountLoc + 4 + k - at)
          /\ c = Write32(d, f.sampleCountLoc, 1)
          /\ h = g /\ h = [f EXCEPT !.numSamples = 1]
    BY <1>1, <1>3, <2>0, <2>1 DEF g
  <2>3. /\ HeaderKnown(c, at, p, t) /\ SameBut(b, c, at, at + p)
        /\ EncryptionKnown(c, at, h) /\ h.numSamples = 1
    BY <2>2, TruncateEncryption
  <2>4. f.sampleCountLoc = at + 12 /\ h.sampleCountLoc = at + 12
    BY <2>2, <2>3 DEF EncryptionKnown
  <2>5. FieldsKnown(buffer', P, q, l, stamped')
    BY <1>1, <1>3, <1>5, <2>0, <2>2, <2>3, <2>4 DEF FieldsKnown
  <2> QED
    BY <2>2, <2>3, <2>5
<1> QED
  BY <1>1, <1>2, <1>3, <1>4, <1>6, EditedWith DEF q

LEMMA truncateSaizKeeps ==
  ASSUME ObjectsKnown, NEW i \in DOMAIN boxes, truncateSaiz(i)
  PROVE  ObjectsKnown'
<1> DEFINE o == boxes[i]
           l == laid[i]
           P == Place(l, bufSize)
           g == [o.fields EXCEPT !["numSamples"] = 1]
           q == With(o, o.type, o.size, g)
<1>1. /\ o.type = "saiz" /\ o.whole /\ Edit(i, "numSamples", 1)
      /\ buffer' = Write32(Shrunk(buffer, o.at, o.size, o.size - (o.fields.numSamples - 1)),
                           o.fields.sampleCountLoc, 1)
      /\ UNCHANGED <<bufSize, laid>> /\ stamped' = stamped
  BY DEF truncateSaiz, Is, SameBuffer
<1>2. o.type \in Editable
  BY <1>1 DEF Editable, FullBoxes
<1>3. /\ l.type = o.type /\ IsBox(o) /\ o.at = l.at /\ l.at \in Nat /\ P \in Nat /\ P < WORD
      /\ EditedKnown(buffer, P, o, l, stamped) /\ P = l.size
  BY <1>1, <1>2, EditableKnown
<1>4. boxes' = [boxes EXCEPT ![i] = q]
  BY <1>1, <1>3, EditShape
<1>5. q.type = o.type /\ q.at = l.at /\ q.fields = g /\ q.size = o.size
  BY <1>3, WithIsBox
<1> HIDE DEF q, g
<1>6. /\ HeaderKnown(buffer', l.at, P, o.type) /\ SameBut(buffer, buffer', l.at, l.at + P)
      /\ FieldsKnown(buffer', P, q, l, stamped')
  <2>0. /\ HeaderKnown(buffer, l.at, P, o.type)
        /\ SizesKnown(buffer, l.at, o.fields, l.fields.firstSampleInfoSize)
        /\ o.size = l.size /\ (o.fields.numSamples > 1 => buffer[l.at] = P)
    BY <1>1, <1>3 DEF EditedKnown, FieldsKnown
  <2>2. PICK at, p, b, f, t, c, h, k, d, z :
          /\ at \in Nat /\ at = l.at /\ p \in Nat /\ p = P /\ p < WORD
          /\ b = buffer /\ f = o.fields /\ t = o.type /\ k = l.fields.firstSampleInfoSize
          /\ HeaderKnown(b, at, p, t) /\ SizesKnown(b, at, f, k)
          /\ (f.numSamples > 1 => b[at] = p)
          /\ c = buffer'
          /\ z = p - (f.numSamples - 1) /\ d = Shrunk(b, at, p, z)
          /\ c = Write32(d, f.sampleCountLoc, 1)
          /\ h = g /\ h = [f EXCEPT !.numSamples = 1]
    BY <1>1, <1>3, <2>0 DEF g
  <2>3. /\ HeaderKnown(c, at, p, t) /\ SameBut(b, c, at, at + p)
        /\ SizesKnown(c, at, h, k) /\ h.numSamples = 1
    BY <2>2, TruncateSizes
  <2>5. FieldsKnown(buffer', P, q, l, stamped')
    BY <1>1, <1>3, <1>5, <2>0, <2>2, <2>3 DEF FieldsKnown
  <2> QED
    BY <2>2, <2>3, <2>5
<1> QED
  BY <1>1, <1>2, <1>3, <1>4, <1>6, EditedWith DEF q

LEMMA rewriteAsSkipBoxKeeps ==
  ASSUME ObjectsKnown, NEW i \in DOMAIN boxes, rewriteAsSkipBox(i)
  PROVE  ObjectsKnown'
<1> DEFINE o == boxes[i]
           l == laid[i]
           P == Place(l, bufSize)
           q == With(o, "skip", o.size, o.fields)
<1>1. /\ o.type \in HaveBase /\ o.whole /\ boxes' = [boxes EXCEPT ![i].type = "skip"]
      /\ buffer' = Write32(buffer, o.at + 4, "skip")
      /\ UNCHANGED <<bufSize, laid>> /\ stamped' = stamped
  BY DEF rewriteAsSkipBox, Is, SameBuffer
<1>2. o.type \in Editable
  BY <1>1 DEF HaveBase, Editable, FullBoxes
<1>3. /\ l.type = o.type /\ IsBox(o) /\ o.at = l.at /\ l.at \in Nat /\ P \in Nat
      /\ EditedKnown(buffer, P, o, l, stamped)
  BY <1>2, EditableKnown
<1>4. boxes' = [boxes EXCEPT ![i] = q]
  <2>1. PICK t, a, k, s, w, f :
          o = [type |-> t, at |-> a, offset |-> k, size |-> s, whole |-> w, fields |-> f]
    BY <1>3 DEF IsBox
  <2>2. /\ [o EXCEPT !.type = "skip"] =
             [type |-> "skip", at |-> a, offset |-> k, size |-> s, whole |-> w, fields |-> f]
        /\ q = [type |-> "skip", at |-> a, offset |-> k, size |-> s, whole |-> w, fields |-> f]
    BY <2>1 DEF With
  <2>3. boxes' = [boxes EXCEPT ![i] = [o EXCEPT !.type = "skip"]]
    BY <1>1
  <2> HIDE DEF q
  <2> QED
    BY <2>2, <2>3
<1>5. q.type = "skip"
  BY WithIsBox
<1> HIDE DEF q
<1>6. HeaderKnown(buffer', l.at, P, "skip") /\ SameBut(buffer, buffer', l.at, l.at + P)
  <2>1. HeaderKnown(buffer, l.at, P, o.type) /\ buffer' = Write32(buffer, l.at + 4, "skip")
    BY <1>1, <1>3 DEF EditedKnown
  <2> QED
    BY <1>3, <2>1, SkipHeader
<1>7. FieldsKnown(buffer', P, q, l, stamped')
  BY <1>5 DEF FieldsKnown
<1> QED
  BY <1>1, <1>2, <1>4, <1>6, <1>7, EditedWith DEF q

\* The size that truncateMdat is given.
LEMMA FirstIsSize ==
  ASSUME ObjectsKnown, NEW n \in FirstSize
  PROVE  n \in Nat
<1>1. PICK j \in DOMAIN boxes : boxes[j].type = "trun" /\ n = boxes[j].fields.mFirstSampleSize
  BY DEF FirstSize, Is
<1>2. boxes[j].type \in Editable
  BY <1>1 DEF Editable, FullBoxes
<1>3. EditedKnown(buffer, Place(laid[j], bufSize), boxes[j], laid[j], stamped)
  BY <1>2, EditableKnown
<1>4. RunKnown(buffer, boxes[j].at, boxes[j].fields, stamped)
  BY <1>1, <1>3 DEF EditedKnown, FieldsKnown
<1>5. PICK f : f = boxes[j].fields /\ RunKnown(buffer, boxes[j].at, f, stamped)
  BY <1>4
<1>6. f.mFirstSampleSize \in Nat
  BY <1>5 DEF RunKnown
<1> QED
  BY <1>1, <1>5, <1>6

LEMMA truncateMdatKeeps ==
  ASSUME ObjectsKnown, NEW i \in DOMAIN boxes, NEW n \in FirstSize, truncateMdat(i, HEADER + n)
  PROVE  ObjectsKnown'
<1> DEFINE o == boxes[i]
           l == laid[i]
           P == Place(l, bufSize)
<1>1. PICK z : z = HEADER + n /\ z \in Nat /\ 8 <= z
  BY FirstIsSize DEF HEADER
<1> DEFINE q == With(o, o.type, z, o.fields)
<1>2. /\ o.type = "mdat" /\ o.whole /\ i = Len(boxes) /\ z < o.size
      /\ boxes' = [boxes EXCEPT ![i].size = z]
      /\ buffer' = Write32(buffer, o.at, z) /\ bufSize' = o.at + z
      /\ UNCHANGED laid /\ stamped' = stamped
  BY <1>1 DEF truncateMdat, Is
<1>3. o.type \in Editable
  BY <1>2 DEF Editable
<1>4. /\ l.type = o.type /\ IsBox(o) /\ o.at = l.at /\ l.at \in Nat /\ l.size \in Nat
      /\ EditedKnown(buffer, P, o, l, stamped)
  BY <1>3, EditableKnown
<1>5. P \in Nat /\ P <= l.size /\ l.at + P <= bufSize /\ bufSize \in 0..(WORD - 1)
  BY <1>3, <1>4, OwnParts DEF ObjectsKnown
<1>6. HeaderKnown(buffer, l.at, P, "mdat") /\ o.size = P /\ buffer[l.at] = P
  BY <1>2, <1>4 DEF EditedKnown, FieldsKnown
<1>7. boxes' = [boxes EXCEPT ![i] = q]
  <2>1. PICK t, a, k, s, w, f :
          o = [type |-> t, at |-> a, offset |-> k, size |-> s, whole |-> w, fields |-> f]
    BY <1>4 DEF IsBox
  <2>2. /\ [o EXCEPT !.size = z] =
             [type |-> t, at |-> a, offset |-> k, size |-> z, whole |-> w, fields |-> f]
        /\ q = [type |-> t, at |-> a, offset |-> k, size |-> z, whole |-> w, fields |-> f]
    BY <2>1 DEF With
  <2>3. boxes' = [boxes EXCEPT ![i] = [o EXCEPT !.size = z]]
    BY <1>2
  <2> HIDE DEF q
  <2> QED
    BY <2>2, <2>3
<1>8. IsBox(q) /\ q.type = "mdat" /\ q.at = l.at /\ q.size = z /\ q.whole
  BY <1>2, <1>4, WithIsBox
<1> HIDE DEF q
<1>9. /\ HeaderKnown(buffer', l.at, z, "mdat") /\ buffer'[l.at] = z
      /\ SameBut(buffer, buffer', l.at, l.at + P)
  <2>1. buffer' = Write32(buffer, l.at, z) /\ z <= P
    BY <1>1, <1>2, <1>4, <1>5, <1>6
  <2> QED
    BY <1>1, <1>4, <1>5, <1>6, <2>1, TruncateData
<1>10. /\ bufSize' = l.at + z /\ bufSize' \in 0..(WORD - 1)
       /\ Place(l, bufSize') = z
  <2>1. bufSize' = l.at + z /\ z < P
    BY <1>2, <1>4, <1>6
  <2>3. l.at + z < l.at + l.size /\ l.at + z <= bufSize
    BY <1>1, <1>4, <1>5, <2>1
  <2>4. Place(l, l.at + z) = z
    BY <1>1, <1>4, <2>3 DEF Place
  <2> QED
    BY <1>1, <1>4, <1>5, <2>1, <2>3, <2>4, IsoAssumption
<1>11. Known(buffer', bufSize', q, l, stamped')
  <2>1. FieldsKnown(buffer', z, q, l, stamped')
    BY <1>8, <1>9 DEF FieldsKnown
  <2>2. EditedKnown(buffer', z, q, l, stamped')
    BY <1>2, <1>4, <1>8, <1>9, <2>1 DEF EditedKnown
  <2>3. l.type = "mdat" /\ l.type \in Editable
    BY <1>2, <1>3, <1>4
  <2> QED
    BY <1>4, <1>8, <1>10, <2>2, <2>3 DEF Known
<1>12. /\ IsSequence(boxes') /\ DOMAIN boxes' = DOMAIN boxes /\ DOMAIN boxes = 1..Len(boxes)
       /\ boxes'[i] = q /\ \A j \in DOMAIN boxes : j # i => boxes'[j] = boxes[j]
  <2>1. IsSequence(boxes)
    BY DEF ObjectsKnown
  <2> QED
    BY <1>7, <2>1, SequenceEdited
<1>13. ASSUME NEW j \in DOMAIN boxes, j # i
       PROVE  Known(buffer', bufSize', boxes[j], laid[j], stamped')
  <2>1. SameIn(buffer, buffer', laid[j].at, OwnEnd(laid[j]))
    BY <1>3, <1>4, <1>9, <1>13, OthersStay
  <2>2. j < i
    <3>1. PICK S : boxes \in Seq(S)
      BY DEF ObjectsKnown, IsSequence
    <3>2. Len(boxes) \in Nat
      BY <3>1, LenProperties
    <3> QED
      BY <1>2, <1>12, <1>13, <3>2
  <2>3. laid[j].at + laid[j].size <= l.at
    BY <1>2, <1>4, <2>2 DEF ObjectsKnown, InOrder
  <2>4. laid[j].at \in Nat /\ laid[j].size \in Nat
    BY OwnParts
  <2>5. laid[j].at + laid[j].size <= bufSize' /\ laid[j].at + laid[j].size <= bufSize
    BY <1>1, <1>4, <1>5, <1>10, <2>3, <2>4
  <2>6. Place(laid[j], bufSize') = Place(laid[j], bufSize)
    BY <2>5 DEF Place
  <2>7. Known(buffer, bufSize, boxes[j], laid[j], stamped) /\ bufSize \in Nat /\ bufSize' \in Nat
    BY <1>5, <1>10, IsoAssumption DEF ObjectsKnown
  <2>8. Known(buffer', bufSize', boxes[j], laid[j], stamped)
    BY <2>1, <2>5, <2>6, <2>7, KnownStays
  <2> QED
    BY <1>2, <2>8
<1>14. \A j \in DOMAIN boxes : Known(buffer', bufSize', boxes'[j], laid[j], stamped')
  BY <1>11, <1>12, <1>13
<1>15. DOMAIN laid = DOMAIN boxes /\ InOrder(laid)
  BY DEF ObjectsKnown
<1> QED
  BY <1>2, <1>10, <1>12, <1>14, <1>15 DEF ObjectsKnown

\* Any edit.
LEMMA EditKeeps ==
  ASSUME ObjectsKnown, EditBoxes(Nat)
  PROVE  ObjectsKnown'
<1>1. ASSUME NEW i \in DOMAIN boxes, NEW x \in Nat,
             setTimeScale(i, x) \/ setBaseMDT(i, x) \/ setFirstSampleDuration(i, x)
             \/ setDefaultSampleDuration(i, x)
      PROVE  ObjectsKnown'
  BY <1>1, setTimeScaleKeeps, setBaseMDTKeeps, setFirstSampleDurationKeeps,
     setDefaultSampleDurationKeeps
<1>2. ASSUME NEW i \in DOMAIN boxes, truncateTrun(i) \/ truncateSaiz(i) \/ rewriteAsSkipBox(i)
      PROVE  ObjectsKnown'
  BY <1>2, truncateTrunKeeps, truncateSaizKeeps, rewriteAsSkipBoxKeeps
<1>3. ASSUME NEW i \in DOMAIN boxes, NEW n \in FirstInfoSize, truncateSenc(i, n)
      PROVE  ObjectsKnown'
  BY <1>3, truncateSencKeeps
<1>4. ASSUME NEW i \in DOMAIN boxes, NEW n \in FirstSize, truncateMdat(i, HEADER + n)
      PROVE  ObjectsKnown'
  BY <1>4, truncateMdatKeeps
<1> QED
  BY <1>1, <1>2, <1>3, <1>4 DEF EditBoxes

LEMMA EditedBoxes ==
  ASSUME EditBoxes(Nat)
  PROVE  chunkedBox' = chunkedBox /\ boxes # <<>>
<1>1. \E i : i \in DOMAIN boxes
  BY DEF EditBoxes
<1>2. chunkedBox' = chunkedBox
  BY DEF EditBoxes, setTimeScale, setBaseMDT, setFirstSampleDuration, setDefaultSampleDuration,
         truncateTrun, truncateSaiz, rewriteAsSkipBox, truncateSenc, truncateMdat, SameBuffer
<1> QED
  BY <1>1, <1>2

\* A segment that is read.
LEMMA ReadKeeps ==
  ASSUME NEW b, NEW all, NEW cut, ReadBoxes(b, all, cut), WellFormed(b, bufSize, all)
  PROVE  ObjectsKnown'
<1>1. /\ buffer' = b /\ boxes' = all /\ laid' = all /\ stamped' = {} /\ bufSize' = bufSize
  BY DEF ReadBoxes
<1>2. bufSize \in 0..(WORD - 1) /\ bufSize \in Nat
  BY IsoAssumption DEF WellFormed
<1>3. IsSequence(all)
  BY DEF WellFormed, IsSequence
<1>4. InOrder(all)
  BY DEF WellFormed, InOrder
<1>5. ASSUME NEW i \in DOMAIN all
      PROVE  Known(b, bufSize, all[i], all[i], {})
  <2>1. PICK l : l = all[i]
    OBVIOUS
  <2>2. /\ l.at \in Nat /\ l.size \in Nat /\ l.at + l.size <= bufSize
        /\ l.type \in FullBoxes => l.at + HEADER \in DOMAIN b
        /\ l = constructBox(b, l.at, l.size, l.offset)
        /\ FieldsInside(b, l)
    BY <2>1 DEF WellFormed
  <2>3. Known(b, bufSize, l, l, {})
    BY <1>2, <2>2, KnownAsRead
  <2> QED
    BY <2>1, <2>3
<1> QED
  BY <1>1, <1>2, <1>3, <1>4, <1>5 DEF ObjectsKnown

\* What is known is what the property says.
LEMMA KnownFollows ==
  ASSUME BoxesIInv
  PROVE  BufferFollowsObjects
<1> SUFFICES ASSUME chunkedBox = 0, NEW i \in DOMAIN boxes
             PROVE  /\ Reread(i).type = boxes[i].type /\ Fills(i, Reread(i))
                    /\ Agrees(boxes[i], Reread(i))
  BY DEF BufferFollowsObjects
<1>1. ObjectsKnown
  BY DEF BoxesIInv
<1>2. Known(buffer, bufSize, boxes[i], laid[i], stamped) /\ bufSize \in Nat
  BY <1>1, IsoAssumption DEF ObjectsKnown
<1>3. PICK b, n, o, l, P, now :
        /\ b = buffer /\ n \in Nat /\ n = bufSize /\ o = boxes[i] /\ l = laid[i]
        /\ Known(b, n, o, l, stamped) /\ P = Place(l, n) /\ P = PlaceSize(i)
        /\ now = constructBox(b, l.at, P, l.offset) /\ now = Reread(i)
  BY <1>2 DEF Place, PlaceSize, Reread
<1>4. now.type = o.type /\ Agrees(o, now) /\ RestSkipped(b, l.at, P, now.size)
  <2>1. /\ n \in Nat /\ Known(b, n, o, l, stamped) /\ P = Place(l, n)
        /\ now = constructBox(b, l.at, P, l.offset)
    BY <1>3
  <2>2. now.type = o.type
    BY ONLY <2>1, KnownReads
  <2>3. Agrees(o, now)
    BY ONLY <2>1, KnownReads
  <2>4. RestSkipped(b, l.at, P, now.size)
    BY ONLY <2>1, KnownReads
  <2> QED
    BY <2>2, <2>3, <2>4
<1>5. Fills(i, now)
  BY <1>3, <1>4 DEF Fills, RestSkipped
<1> QED
  BY <1>3, <1>4, <1>5

\* playerisobmffbox.cpp, the setters, the truncations and rewriteAsSkipBox, lines
\* 276 and 382-1514: for any well-formed segment and however its boxes are
\* edited, in any order and as often as is wanted, who reads it finds in the
\* place of each box a box of the object's type with what was set, and a skip
\* box behind a box that was cut short.
THEOREM BufferFollowsEdits == BoxesSpec => []BufferFollowsObjects
<1>1. BoxesInit => BoxesIInv
  BY DEF BoxesInit, BoxesIInv
<1>2. BoxesIInv /\ [BoxesNext]_isoVars => BoxesIInv'
  <2> SUFFICES ASSUME BoxesIInv, [BoxesNext]_isoVars
               PROVE  BoxesIInv'
    OBVIOUS
  <2>1. ASSUME ReadBoxes(buffer', boxes', chunkedBox'),
               chunkedBox' = 0 => WellFormed(buffer', bufSize, boxes')
        PROVE  BoxesIInv'
    <3>1. PICK b, all, cut : b = buffer' /\ all = boxes' /\ cut = chunkedBox'
      OBVIOUS
    <3>2. ReadBoxes(b, all, cut) /\ (chunkedBox' = 0 => WellFormed(b, bufSize, all))
      BY <2>1, <3>1
    <3>3. chunkedBox' = 0 => ObjectsKnown'
      BY <3>2, ReadKeeps
    <3> QED
      BY <3>3 DEF BoxesIInv
  <2>2. CASE destroy
    BY <2>2 DEF destroy, BoxesIInv
  <2>3. CASE EditBoxes(Nat)
    BY <2>3, EditedBoxes, EditKeeps DEF BoxesIInv
  <2>4. CASE UNCHANGED isoVars
    BY <2>4 DEF isoVars, BoxesIInv, ObjectsKnown
  <2> QED
    BY <2>1, <2>2, <2>3, <2>4 DEF BoxesNext
<1>3. BoxesIInv => BufferFollowsObjects
  BY KnownFollows
<1> QED
  BY <1>1, <1>2, <1>3, PTL DEF BoxesSpec
=============================================================================
