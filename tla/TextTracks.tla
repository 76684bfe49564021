----------------------------- MODULE TextTracks -----------------------------
(***************************************************************************)
(* subtec/subtecparser: the subtitle parsers that hand text to the renderer *)
(* over a Subtec channel (TtmlSubtecParser, WebVTTSubtecParser and          *)
(* WebvttSubtecDevInterface), and TextStyleAttributes.                      *)
(*                                                                         *)
(* `shown` is what the packets, in the order they are sent, tell the        *)
(* renderer.  A text is the time of its first `begin`, or NO_BEGIN; times   *)
(* are in milliseconds.                                                     *)
(***************************************************************************)
EXTENDS Integers, Sequences

CONSTANTS
  Positions,   \* of the fragments
  StartTime,   \* begin of the TTML time line at position 0
  Styles       \* options: functions from names to values; {} stands for no JSON

ASSUME TextTracksAssumption == Positions \subseteq Nat /\ StartTime \in Nat

NO_BEGIN == -1
NO_OFFSET == -100
TextKinds == {"ttml", "webvtt", "cues"}

VARIABLES
  kind,          \* of the parser, "none" before it is made
  m_isLinear, m_parsedFirstPacket, m_sentOffset, m_firstBeginOffset,
  shown,         \* [muted, paused, clock, data, attributes]
  played,        \* getPlayerPositions: position less seek position
  offset         \* history: [total, first, played] of the offset that was sent

ttmlVars == <<m_parsedFirstPacket, m_sentOffset, m_firstBeginOffset>>
textVars == <<kind, m_isLinear, ttmlVars, shown, played, offset>>

-----------------------------------------------------------------------------
(* TextStyleAttributes: names of options, and the values known for each.    *)

\* The spellings of one value.
Canonical(input) ==
  CASE input = "medium" -> "standard"
    [] input = "monospaced serif" -> "monospaced_serif"
    [] input = "proportional serif" -> "proportional_serif"
    [] input = "monospaced sans serif" -> "monospaced_sanserif"
    [] input = "proportional sans serif" -> "proportional_sanserif"
    [] input = "small capital" -> "smallcaps"
    [] input = "left drop shadow" -> "drop_shadow_left"
    [] input = "right drop shadow" -> "drop_shadow_right"
    [] OTHER -> input

FontSizes == {"small", "standard", "large", "extra_large", "auto"}
FontStyles == {"default", "monospaced_serif", "proportional_serif", "monospaced_sanserif",
               "proportional_sanserif", "casual", "cursive", "smallcaps", "auto"}
ColorMapTable == {"black", "white", "red", "green", "blue", "yellow", "magenta", "cyan", "auto"}
EdgeTypes == {"none", "raised", "depressed", "uniform", "drop_shadow_left",
              "drop_shadow_right", "auto"}
Opacities == {"solid", "flash", "translucent", "transparent", "auto"}

ValuesOf(name) ==
  CASE name = "penSize" -> FontSizes
    [] name = "fontStyle" -> FontStyles
    [] name = "textEdgeStyle" -> EdgeTypes
    [] name \in {"textForegroundColor", "textBackgroundColor", "textEdgeColor",
                 "windowFillColor"} -> ColorMapTable
    [] name \in {"textForegroundOpacity", "textBackgroundOpacity", "windowFillOpacity"} ->
         Opacities
    [] OTHER -> {}

\* The mask is the domain; an option that is not known is passed over.
getAttributes(options) ==
  [name \in {n \in DOMAIN options : Canonical(options[n]) \in ValuesOf(n)} |->
     Canonical(options[name])]

-----------------------------------------------------------------------------
TextInit ==
  /\ kind = "none" /\ m_isLinear = FALSE
  /\ m_parsedFirstPacket = FALSE /\ m_sentOffset = FALSE /\ m_firstBeginOffset = 0
  /\ shown = [muted |-> FALSE, paused |-> FALSE, clock |-> 0, data |-> NO_BEGIN,
              attributes |-> {}]
  /\ played = 0 /\ offset = [total |-> NO_OFFSET, first |-> 0, played |-> 0]

Shows(change) == kind # "none" /\ shown' = change /\ UNCHANGED kind

\* The constructors: reset all, then the selection, muted.
Create(k) ==
  /\ kind = "none" /\ kind' = k
  /\ shown' = [shown EXCEPT !.muted = TRUE]
  /\ UNCHANGED <<m_isLinear, ttmlVars, played, offset>>

isLinear(b) ==
  /\ kind = "ttml" /\ m_isLinear' = b
  /\ UNCHANGED <<kind, ttmlVars, shown, played, offset>>

\* init, with a start position.
InitParser(start) ==
  /\ Shows([shown EXCEPT !.clock = start])
  /\ IF kind = "ttml"
     THEN m_parsedFirstPacket' = FALSE /\ m_sentOffset' = FALSE /\ m_firstBeginOffset' = 0
     ELSE UNCHANGED ttmlVars
  /\ offset' = [offset EXCEPT !.total = NO_OFFSET]
  /\ UNCHANGED <<m_isLinear, played>>

updateTimestamp(positionMs) ==
  Shows([shown EXCEPT !.clock = positionMs]) /\ UNCHANGED <<m_isLinear, ttmlVars, played, offset>>

\* Only the WebVTT parser mutes; the channel forgets its text.
reset ==
  /\ Shows([shown EXCEPT !.muted = @ \/ kind = "webvtt", !.data = NO_BEGIN])
  /\ UNCHANGED <<m_isLinear, ttmlVars, played, offset>>

mute(b) ==
  Shows([shown EXCEPT !.muted = b]) /\ UNCHANGED <<m_isLinear, ttmlVars, played, offset>>

pause(b) ==
  Shows([shown EXCEPT !.paused = b]) /\ UNCHANGED <<m_isLinear, ttmlVars, played, offset>>

\* WebVTT only; nothing is sent for options without a known value.
setTextStyle(options) ==
  /\ kind = "webvtt"
  /\ Shows([shown EXCEPT !.attributes =
                IF DOMAIN getAttributes(options) = {} THEN @
                ELSE {a \in @ : a[1] \notin DOMAIN getAttributes(options)}
                     \union {<<n, getAttributes(options)[n]>> : n \in DOMAIN getAttributes(options)}])
  /\ UNCHANGED <<m_isLinear, ttmlVars, played, offset>>

\* Faulty variant: the distance to the first fragment is added.
TotalOffset_Added(begin, position, first) == begin + (position - first) + played

TotalOffset(begin, position, first) == begin - (position - first) + played

\* TtmlSubtecParser::processData of a media segment at `position`: the time of
\* the first text of linear content sets the renderer's clock, once.
ProcessTtml(position, begin) ==
  LET parsed == m_parsedFirstPacket \/ m_isLinear
      first == IF m_parsedFirstPacket \/ ~m_isLinear THEN m_firstBeginOffset ELSE position
      sends == ~m_sentOffset /\ parsed /\ m_isLinear /\ begin # NO_BEGIN
      total == TotalOffset(begin, position, first)
  IN /\ kind = "ttml"
     /\ m_parsedFirstPacket' = parsed
     /\ m_firstBeginOffset' = first
     /\ m_sentOffset' = (m_sentOffset \/ sends)
     /\ Shows([shown EXCEPT !.data = begin, !.clock = IF sends THEN total ELSE @])
     /\ offset' = IF sends THEN [total |-> total, first |-> first, played |-> played] ELSE offset
     /\ UNCHANGED <<m_isLinear, played>>

\* An initialization segment has nothing to send; the other parsers send all.
ProcessInit == kind = "ttml" /\ UNCHANGED textVars

ProcessOther(begin) ==
  /\ kind \in {"webvtt", "cues"}
  /\ Shows([shown EXCEPT !.data = begin])
  /\ UNCHANGED <<m_isLinear, ttmlVars, played, offset>>

\* The application's playback goes on, and seeks.
PlaybackMoves == kind # "none" /\ played' \in 0..1 /\ UNCHANGED <<kind, m_isLinear, ttmlVars, shown, offset>>

\* A fragment's first text begins where the fragment does, or it has no text.
BeginAt(position) == {NO_BEGIN, StartTime + position}

TextNext ==
  \/ \E k \in TextKinds : Create(k)
  \/ \E b \in BOOLEAN : isLinear(b) \/ mute(b) \/ pause(b)
  \/ \E p \in Positions : InitParser(p) \/ updateTimestamp(p) \/ \E t \in BeginAt(p) : ProcessTtml(p, t) \/ ProcessOther(t)
  \/ \E options \in Styles : setTextStyle(options)
  \/ reset \/ ProcessInit \/ PlaybackMoves

TextSpec == TextInit /\ [][TextNext]_textVars

-----------------------------------------------------------------------------
(* TtmlSubtecParser.cpp:147-182: the clock that linear subtitles get is that*)
(* of the position where the playback began, and does not depend on which   *)
(* fragment was the first with a text, nor on how many came before it.      *)
OffsetOfPlayback ==
  offset.total # NO_OFFSET =>
    /\ offset.total = StartTime + offset.first + offset.played
    /\ offset.first \in Positions
=============================================================================
