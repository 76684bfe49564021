------------------------------ MODULE Mp4Demux ------------------------------
(***************************************************************************)
(* mp4demux.hpp as SendHelper of InterfacePlayerRDK uses it: every buffer   *)
(* is read by an Mp4Demux of its own; a fragment gives samples, which are   *)
(* pushed one by one, an initialization segment the caps of the source and  *)
(* the time scale that later fragments of the track are read with.          *)
(*                                                                         *)
(* A buffer is a function from the addresses of its fields to their values, *)
(* as in IsoBmff; version and flags are one field.  Times are in ticks, with*)
(* the time scale by which the code divides them.                           *)
(*                                                                         *)
(* Left out: members that are only written (rate, volume, matrix, language, *)
(* creation and modification times, bit rates), the bytes of samples.       *)
(***************************************************************************)
EXTENDS Integers, Sequences, SequencesExt

CONSTANTS
  Tracks,       \* media types that are injected as MP4
  Inits,        \* initialization segments: [cells, size]
  Fragments,    \* media segments: [cells, size]
  Uninitialized \* what members that no constructor sets may hold

VARIABLES
  timescale,    \* static, of SendHelper, for each track
  caps,         \* of each track: of its source, and `none` before it has any
  pushed,       \* of each track: the samples of the last buffer
  lastInit, lastFragment  \* history, of each track: what was injected last

demuxVars == <<timescale, caps, pushed, lastInit, lastFragment>>

NoCaps == [codec |-> "none", codec_data_len |-> 0]

ReadBytes(b, ptr) == IF ptr \in DOMAIN b THEN b[ptr] ELSE 0
Skipped(condition) == IF condition THEN 4 ELSE 0
HasFlag(b, ptr, flag) == flag \in b[ptr].flags
TimeWidth(b, ptr) == IF b[ptr].version = 1 THEN 8 ELSE 4

-----------------------------------------------------------------------------
(* Boxes.  Each operator gives the members (st) as its box leaves them; ptr *)
(* is the address after type and size.                                      *)

parseTrackFragmentHeaderBox(b, ptr, st) ==
  LET duration == HasFlag(b, ptr, "default-sample-duration")
      size == HasFlag(b, ptr, "default-sample-size")
      a == ptr + 8 + 2 * Skipped(HasFlag(b, ptr, "base-data-offset"))
                   + Skipped(HasFlag(b, ptr, "sample-description-index"))
  IN [st EXCEPT !.default_sample_duration = IF duration THEN ReadBytes(b, a) ELSE @,
                !.default_sample_size = IF size THEN ReadBytes(b, a + Skipped(duration)) ELSE @]

parseTrackFragmentBaseMediaDecodeTimeBox(b, ptr, st) ==
  [st EXCEPT !.baseMediaDecodeTime = ReadBytes(b, ptr + 4)]

\* Faulty variant: the decode time does not advance.
parseTrackFragmentRunBox_SameTime(b, ptr, st) ==
  LET n == ReadBytes(b, ptr + 4)
      durations == HasFlag(b, ptr, "sample-duration")
      sizes == HasFlag(b, ptr, "sample-size")
      offsets == HasFlag(b, ptr, "sample-composition-time-offset")
      table == ptr + 12 + Skipped(HasFlag(b, ptr, "first-sample-flags"))
      width == Skipped(durations) + Skipped(sizes)
               + Skipped(HasFlag(b, ptr, "sample-flags")) + Skipped(offsets)
      At(i) == table + (i - 1) * width
      Length(i) == IF sizes THEN ReadBytes(b, At(i) + Skipped(durations))
                   ELSE st.default_sample_size
      Composition(i) == IF offsets THEN ReadBytes(b, At(i) + width - 4) ELSE 0
      Before(i, F(_)) == FoldSeq(+, 0, [j \in 1..(i - 1) |-> F(j)])
      Sample(i) ==
        [ptr |-> st.moof_ptr + ReadBytes(b, ptr + 8) + Before(i, Length),
         len |-> Length(i),
         dts |-> st.baseMediaDecodeTime,
         pts |-> st.baseMediaDecodeTime + Composition(i),
         duration |-> IF durations THEN ReadBytes(b, At(i)) ELSE 0,
         timescale |-> st.timescale]
  IN [st EXCEPT !.samples = @ \o [i \in 1..n |-> Sample(i)]]

\* The samples of a run follow each other from the data offset on, and from the
\* base decode time on.  A duration that is not in the table counts for the
\* next sample's time, but is not given to the sample.
parseTrackFragmentRunBox(b, ptr, st) ==
  LET n == ReadBytes(b, ptr + 4)
      durations == HasFlag(b, ptr, "sample-duration")
      sizes == HasFlag(b, ptr, "sample-size")
      offsets == HasFlag(b, ptr, "sample-composition-time-offset")
      table == ptr + 12 + Skipped(HasFlag(b, ptr, "first-sample-flags"))
      width == Skipped(durations) + Skipped(sizes)
               + Skipped(HasFlag(b, ptr, "sample-flags")) + Skipped(offsets)
      At(i) == table + (i - 1) * width
      Duration(i) == IF durations THEN ReadBytes(b, At(i)) ELSE st.default_sample_duration
      Length(i) == IF sizes THEN ReadBytes(b, At(i) + Skipped(durations))
                   ELSE st.default_sample_size
      Composition(i) == IF offsets THEN ReadBytes(b, At(i) + width - 4) ELSE 0
      Before(i, F(_)) == FoldSeq(+, 0, [j \in 1..(i - 1) |-> F(j)])
      Decoded(i) == st.baseMediaDecodeTime + Before(i, Duration)
      Sample(i) ==
        [ptr |-> st.moof_ptr + ReadBytes(b, ptr + 8) + Before(i, Length),
         len |-> Length(i),
         dts |-> Decoded(i), pts |-> Decoded(i) + Composition(i),
         duration |-> IF durations THEN Duration(i) ELSE 0,
         timescale |-> st.timescale]
  IN [st EXCEPT !.samples = @ \o [i \in 1..n |-> Sample(i)]]

parseMovieHeaderBox(b, ptr, st) ==
  [st EXCEPT !.timescale = ReadBytes(b, ptr + 4 + 2 * TimeWidth(b, ptr))]

parseTrackExtendsBox(b, ptr, st) ==
  [st EXCEPT !.default_sample_duration = ReadBytes(b, ptr + 12),
             !.default_sample_size = ReadBytes(b, ptr + 16)]

parseMediaHeaderBox(b, ptr, st) ==
  [st EXCEPT !.timescale = ReadBytes(b, ptr + 4 + 2 * TimeWidth(b, ptr))]

StreamFormats == {"hev1", "hvc1", "avc1", "mp4a", "ec-3"}
CodecConfigurations == {"hvcC", "dec3", "avcC", "esds"}

\* The bytes of a sample entry before the boxes in it.
parseStreamFormat(type) == IF type \in {"mp4a", "ec-3"} THEN 28 ELSE 78

RECURSIVE parseCodecConfigHelper(_, _, _, _)
\* Descriptors of an esds box: the length of the decoder specific information
\* (0x05), in the decoder configuration (0x04), in the descriptor (0x03).
parseCodecConfigHelper(b, ptr, next, st) ==
  IF ptr >= next THEN st
  ELSE LET tag == ReadBytes(b, ptr)
           len == ReadBytes(b, ptr + 1)
           inside == CASE tag = 3 -> parseCodecConfigHelper(b, ptr + 5, ptr + 2 + len, st)
                       [] tag = 4 -> parseCodecConfigHelper(b, ptr + 15, ptr + 2 + len, st)
                       [] tag = 5 -> [st EXCEPT !.codec_data_len = len]
                       [] OTHER   -> st
       IN parseCodecConfigHelper(b, ptr + 2 + len, next, inside)

parseCodecConfiguration(b, type, ptr, next, st) ==
  IF type = "esds" THEN parseCodecConfigHelper(b, ptr + 4, next, [st EXCEPT !.codec_type = type])
  ELSE [st EXCEPT !.codec_type = type, !.codec_data_len = next - ptr]

Walked == {"moof", "traf", "moov", "trak", "minf", "dinf", "mvex", "mdia", "stbl"}

RECURSIVE DemuxHelper(_, _, _, _)
\* The boxes in [ptr, fin), one after the other; the members that a box sets
\* are seen by the boxes after it.
DemuxHelper(b, ptr, fin, st) ==
  IF ptr >= fin THEN st
  ELSE LET next == ptr + ReadBytes(b, ptr)
           type == ReadBytes(b, ptr + 4)
           body == ptr + 8
           read ==
             CASE type \in StreamFormats ->
                    DemuxHelper(b, body + parseStreamFormat(type), next, st)
               [] type \in CodecConfigurations ->
                    parseCodecConfiguration(b, type, body, next, st)
               [] type = "tfhd" -> parseTrackFragmentHeaderBox(b, body, st)
               [] type = "trun" -> parseTrackFragmentRunBox(b, body, st)
               [] type = "tfdt" -> parseTrackFragmentBaseMediaDecodeTimeBox(b, body, st)
               [] type = "mvhd" -> parseMovieHeaderBox(b, body, st)
               [] type = "trex" -> parseTrackExtendsBox(b, body, st)
               [] type = "mdhd" -> parseMediaHeaderBox(b, body, st)
               [] type = "stsd" -> DemuxHelper(b, body + 8, next, st)
               [] type = "moof" -> DemuxHelper(b, body, next, [st EXCEPT !.moof_ptr = ptr])
               [] type \in Walked \ {"moof"} -> DemuxHelper(b, body, next, st)
               [] OTHER -> st
       IN DemuxHelper(b, next, fin, read)

Demuxed(segment, scale, garbage) ==
  DemuxHelper(segment.cells, 0, segment.size,
    [timescale |-> scale, moof_ptr |-> 0, samples |-> <<>>,
     baseMediaDecodeTime |-> garbage, default_sample_duration |-> garbage,
     default_sample_size |-> garbage, codec_type |-> "none", codec_data_len |-> 0])

\* The caps are not changed for a codec that is not known.
setCaps(old, st) ==
  IF st.codec_type \in CodecConfigurations
  THEN [codec |-> st.codec_type, codec_data_len |-> st.codec_data_len]
  ELSE old

-----------------------------------------------------------------------------
DemuxInit ==
  /\ timescale = [t \in Tracks |-> 0]
  /\ caps = [t \in Tracks |-> NoCaps]
  /\ pushed = [t \in Tracks |-> <<>>]
  /\ lastInit \in [Tracks -> {0}] /\ lastFragment \in [Tracks -> {0}]

\* SendHelper with useMp4Demux.
PushDemuxed(t, segment, garbage) ==
  LET st == Demuxed(segment, timescale[t], garbage)
  IN /\ pushed' = [pushed EXCEPT ![t] = st.samples]
     /\ IF st.samples # <<>> THEN UNCHANGED <<timescale, caps>>
        ELSE /\ timescale' = [timescale EXCEPT ![t] = st.timescale]
             /\ caps' = [caps EXCEPT ![t] = setCaps(@, st)]

InjectInit(t, i) ==
  /\ i \in DOMAIN Inits
  /\ \E g \in Uninitialized : PushDemuxed(t, Inits[i], g)
  /\ lastInit' = [lastInit EXCEPT ![t] = i]
  /\ lastFragment' = [lastFragment EXCEPT ![t] = 0]

\* The application injects fragments after an initialization segment.
InjectFragment(t, i) ==
  /\ lastInit[t] # 0 /\ i \in DOMAIN Fragments
  /\ \E g \in Uninitialized : PushDemuxed(t, Fragments[i], g)
  /\ lastFragment' = [lastFragment EXCEPT ![t] = i]
  /\ UNCHANGED lastInit

DemuxNext ==
  \E t \in Tracks :
    \/ \E i \in DOMAIN Inits : InjectInit(t, i)
    \/ \E i \in DOMAIN Fragments : InjectFragment(t, i)

DemuxSpec == DemuxInit /\ [][DemuxNext]_demuxVars
=============================================================================
