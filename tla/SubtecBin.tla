------------------------------ MODULE SubtecBin ------------------------------
(***************************************************************************)
(* gst_subtec: subtecbin, which makes its sink when the type of the text is *)
(* found, and the elements it puts before the sink for text in MP4:         *)
(* subtecmp4transform, which cuts the text out of a fragment, and           *)
(* vipertransform, which finds how far the times in the text are from those *)
(* of the buffers.  Two threads, the application's and the streaming one,   *)
(* meet at the bin.  Times are ticks.                                       *)
(***************************************************************************)
EXTENDS Integers, Sequences

CONSTANTS
  Texts,     \* fragments, [boxes, pts, first, docs]: first is the time of the
             \* first text after pts, in the first of docs XML documents that
             \* share the fragment evenly, or NO_TEXT
  Lines,     \* time lines: [start, restamp], what a text's time is ahead: by the
             \* restamping only, or by more than a fragment besides
  FragmentDuration,
  MaxSettings, MaxTextFragments   \* bounds

NO_TEXT == -1
BinProperties == {"mute", "pts-offset"}
ASSUME SubtecBinAssumption ==
  /\ {FragmentDuration, MaxSettings, MaxTextFragments} \subseteq Nat
  /\ \A f \in Texts :
       /\ f.docs \in Nat \ {0} /\ f.pts \in Nat
       /\ f.first \in {NO_TEXT} \union 0..((FragmentDuration \div f.docs) - 1)
  /\ \A l \in Lines :
       l.start \in {0} \union (Nat \ 0..FragmentDuration) /\ l.restamp \in Nat

VARIABLES
  found,         \* where type_found is: "no", "made", "given", "linked", "failed"
  textCaps,      \* "mp4" or "ttml"
  binProperty,   \* of subtecbin, and of its sink
  sinkProperty,
  setting,       \* what the application's set_property is about, or <<>>
  crossed,       \* history: properties given while they were being set
  settings,
  line,          \* of what is injected
  m_content_type, m_linear_begin_offset, passthrough,
  rendered,      \* the texts of the last fragment: [begin, pts, offset]
  fresh, plain,  \* history: no text since a flush; one after a flush had its
                 \* time from its buffer
  fragments

binVars == <<found, textCaps, binProperty, sinkProperty, setting, crossed, settings>>
viperVars == <<m_content_type, m_linear_begin_offset, passthrough>>
textInVars == <<line, viperVars, rendered, fresh, plain, fragments>>
subtecBinVars == <<binVars, textInVars>>

SubtecBinInit ==
  /\ found = "no" /\ textCaps \in {"mp4", "ttml"}
  /\ binProperty = [p \in BinProperties |-> 0] /\ sinkProperty = [p \in BinProperties |-> 0]
  /\ setting = <<>> /\ crossed = {} /\ settings = 0
  /\ line \in Lines
  /\ m_content_type = "UNKNOWN" /\ m_linear_begin_offset = 0 /\ passthrough = FALSE
  /\ rendered = {} /\ fresh = TRUE /\ plain = FALSE /\ fragments = 0

-----------------------------------------------------------------------------
(* The application: a property goes to the sink if there is one, and is kept.*)

SetOnSink(p, v) ==
  /\ setting = <<>> /\ settings < MaxSettings
  /\ setting' = <<p, v>> /\ settings' = settings + 1
  /\ sinkProperty' = IF found = "no" THEN sinkProperty ELSE [sinkProperty EXCEPT ![p] = v]
  /\ UNCHANGED <<found, textCaps, binProperty, crossed, textInVars>>

KeepProperty ==
  /\ setting # <<>> /\ setting' = <<>>
  /\ binProperty' = [binProperty EXCEPT ![setting[1]] = setting[2]]
  /\ UNCHANGED <<found, textCaps, sinkProperty, crossed, settings, textInVars>>

-----------------------------------------------------------------------------
(* type_found, in the streaming thread.                                    *)

MakeSink ==
  /\ found = "no" /\ found' = "made"
  /\ UNCHANGED <<textCaps, binProperty, sinkProperty, setting, crossed, settings, textInVars>>

\* Faulty variant: the offset is not given.
GiveProperties_Mute ==
  /\ found = "made" /\ found' = "given"
  /\ sinkProperty' = [sinkProperty EXCEPT !["mute"] = binProperty["mute"]]
  /\ crossed' = IF setting = <<>> THEN {} ELSE {setting[1]}
  /\ UNCHANGED <<textCaps, binProperty, setting, settings, textInVars>>

GiveProperties ==
  /\ found = "made" /\ found' = "given"
  /\ sinkProperty' = binProperty
  /\ crossed' = IF setting = <<>> THEN {} ELSE {setting[1]}
  /\ UNCHANGED <<textCaps, binProperty, setting, settings, textInVars>>

\* The elements are linked if the lock of the bin's state is got within 100 ms;
\* otherwise no text is ever shown.
LinkChain ==
  /\ found = "given" /\ found' \in {"linked", "failed"}
  /\ UNCHANGED <<textCaps, binProperty, sinkProperty, setting, crossed, settings, textInVars>>

-----------------------------------------------------------------------------
(* What the elements do with a buffer.                                     *)

\* subtecmp4transform: an initialization segment is dropped, the first mdat
\* taken; a buffer that has neither passes as it is.  Containers are walked into.
Has(f, type) == \E i \in DOMAIN f.boxes : f.boxes[i] = type
Dropped(f) == textCaps = "mp4" /\ Has(f, "ftyp")
HasText(f) == f.first # NO_TEXT /\ ~Dropped(f) /\ (textCaps = "ttml" \/ Has(f, "mdat"))

Abs(x) == IF x < 0 THEN -x ELSE x

\* Times of the texts of document d: all of one time line.
BeginIn(f, d) == f.pts + line.start + line.restamp + f.first + d * (FragmentDuration \div f.docs)

TextAhead(f) == BeginIn(f, 0) - f.pts
Misaligned(f) == Abs(TextAhead(f) - line.restamp) > FragmentDuration

\* Faulty variant: what was found first is kept.
LinearOffset_First(f) == m_linear_begin_offset

LinearOffset(f) == IF Misaligned(f) THEN TextAhead(f) ELSE line.restamp

\* before_transform: the content type is decided with the first text.
BeforeTransform(f) ==
  IF passthrough \/ ~HasText(f) THEN UNCHANGED viperVars
  ELSE CASE m_content_type = "UNKNOWN" /\ Misaligned(f) ->
              /\ m_content_type' = "LINEAR_OFFSET"
              /\ m_linear_begin_offset' =
                   IF m_linear_begin_offset = 0 \/ Abs(TextAhead(f)) < m_linear_begin_offset
                   THEN TextAhead(f) ELSE m_linear_begin_offset
              /\ UNCHANGED passthrough
         [] m_content_type = "UNKNOWN" /\ ~Misaligned(f) /\ line.restamp # 0 ->
              /\ m_content_type' = "LINEAR_OFFSET" /\ m_linear_begin_offset' = line.restamp
              /\ UNCHANGED passthrough
         [] m_content_type = "UNKNOWN" /\ ~Misaligned(f) /\ line.restamp = 0 ->
              /\ m_content_type' = "PASSTHROUGH" /\ passthrough' = TRUE
              /\ UNCHANGED m_linear_begin_offset
         [] m_content_type = "LINEAR_OFFSET" ->
              /\ m_linear_begin_offset' = LinearOffset(f)
              /\ UNCHANGED <<m_content_type, passthrough>>

\* split_buffer takes the end of a document for its length, so that a document
\* but the last comes with as many of the following as there are before it.
Split(f, d) == {e \in 0..(f.docs - 1) : d <= e /\ e <= 2 * d}

\* transform: each document goes to the sink in a buffer of its own, whose
\* offset the sink deducts.  Without a begin offset their times are taken to
\* count from the document.
Transformed(f) ==
  LET offset == m_linear_begin_offset'
      Sent(d, o) == {[begin |-> BeginIn(f, e), pts |-> f.pts, offset |-> o] : e \in Split(f, d)}
  IN IF passthrough' \/ f.docs = 1
     THEN {[begin |-> BeginIn(f, d), pts |-> f.pts,
            offset |-> IF passthrough' \/ offset = 0 THEN line.restamp ELSE offset] :
             d \in 0..(f.docs - 1)}
     ELSE UNION {Sent(d, IF offset # 0 THEN offset ELSE -(f.pts + d * (FragmentDuration \div f.docs))) :
                   d \in 0..(f.docs - 1)}

\* Text that is not in MP4 goes to the sink at once.
InjectText(f) ==
  /\ found = "linked" /\ fragments < MaxTextFragments /\ fragments' = fragments + 1
  /\ IF textCaps = "ttml"
     THEN /\ UNCHANGED viperVars
          /\ rendered' = IF HasText(f)
                         THEN {[begin |-> BeginIn(f, d), pts |-> f.pts, offset |-> line.restamp] :
                                 d \in 0..(f.docs - 1)}
                         ELSE {}
     ELSE /\ BeforeTransform(f)
          /\ rendered' = IF HasText(f) THEN Transformed(f) ELSE {}
  /\ fresh' = (fresh /\ ~HasText(f))
  /\ plain' = (plain \/ (fresh /\ HasText(f) /\ line.start = 0 /\ line.restamp = 0))
  /\ UNCHANGED <<binVars, line>>

\* Events of the pipeline; passthrough stays.
FlushText ==
  /\ found = "linked"
  /\ m_content_type' = "UNKNOWN" /\ m_linear_begin_offset' = 0
  /\ rendered' = {} /\ fresh' = TRUE
  /\ UNCHANGED <<binVars, passthrough, line, plain, fragments>>

\* set_caps forgets the offset but not the type of the content.
SetTextCaps ==
  /\ found = "linked" /\ m_linear_begin_offset' = 0
  /\ UNCHANGED <<binVars, m_content_type, passthrough, line, rendered, fresh, plain, fragments>>

\* Another period begins.
ChangeLine ==
  /\ line' \in Lines /\ rendered' = {}
  /\ UNCHANGED <<binVars, viperVars, fresh, plain, fragments>>

SubtecBinNext ==
  \/ \E p \in BinProperties, v \in 0..1 : SetOnSink(p, v)
  \/ KeepProperty \/ MakeSink \/ GiveProperties \/ LinkChain
  \/ \E f \in Texts : InjectText(f)
  \/ FlushText \/ SetTextCaps \/ ChangeLine

SubtecBinSpec == SubtecBinInit /\ [][SubtecBinNext]_subtecBinVars

-----------------------------------------------------------------------------
\* A time line that starts apart can be found for text in MP4, unless text
\* with the times of its buffers set the element to pass all through for good.
\* Without it, several documents are taken to have times of their own each.
LineIsFound ==
  IF line.start = 0 THEN line.restamp # 0 \/ \A r, s \in rendered : r = s
  ELSE textCaps = "mp4" /\ ~plain

(* gstvipertransform.cpp:357-443 and gstsubtecsink.cpp:619-624: every text   *)
(* is shown while its fragment is, whatever the time lines, restamping,      *)
(* flushes and caps before.  gstsubtecbin.cpp:130-171 and 235-239: the sink   *)
(* has the properties of the bin, but one that was being set as the type     *)
(* was found.                                                               *)
ShownInFragment ==
  /\ LineIsFound =>
       \A r \in rendered :
         r.begin - r.offset \in r.pts..(r.pts + FragmentDuration)
  /\ found \in {"given", "linked"} /\ setting = <<>> =>
       \A p \in BinProperties \ crossed : sinkProperty[p] = binProperty[p]
=============================================================================
