------------------------------ MODULE MCFormats ------------------------------
(***************************************************************************)
(* Inputs for IsoBmff, Mp4Demux and TextPaths.  Segments are                *)
(* laid out from ISO/IEC 14496-12: a box is a type with a list of fields,   *)
(* each <<width, value>>, or with boxes.                                    *)
(***************************************************************************)
EXTENDS IsoBmff, Mp4Demux, TextPaths, TLC

RECURSIVE Cells(_, _)
\* The fields one after the other from address `at`; a width may go with no value.
Cells(at, fields) ==
  IF fields = <<>> THEN <<>>
  ELSE LET f == Head(fields)
       IN (IF Len(f) = 2 THEN at :> f[2] ELSE <<>>) @@ Cells(at + f[1], Tail(fields))

Width(fields) == FoldSeq(+, 0, [i \in DOMAIN fields |-> fields[i][1]])

\* A box as the list of its fields: size, type, contents.
Box(type, fields) == <<<<4, 8 + Width(fields)>>, <<4, type>>>> \o fields
Full(type, version, flags, fields) ==
  Box(type, <<<<4, [version |-> version, flags |-> flags]>>>> \o fields)
Laid(fields) == [cells |-> Cells(0, fields), size |-> Width(fields)]
Cut(segment, size) ==
  [cells |-> [a \in {x \in DOMAIN segment.cells : x < size} |-> segment.cells[a]],
   size |-> size]

Time(v) == IF v = 1 THEN 8 ELSE 4
Times2(v) == <<<<Time(v)>>, <<Time(v)>>>>

Mvhd(v, scale) == Full("mvhd", v, {}, Times2(v) \o <<<<4, scale>>, <<84>>>>)
Mdhd(v, scale) == Full("mdhd", v, {}, Times2(v) \o <<<<4, scale>>, <<8>>>>)
Tkhd(v, id) == Full("tkhd", v, {}, Times2(v) \o <<<<4, id>>, <<72>>>>)
Trex(duration, size) == Full("trex", 0, {}, <<<<4, 1>>, <<4, 1>>, <<4, duration>>, <<4, size>>, <<4>>>>)
Esds == Full("esds", 0, {}, <<<<1, 3>>, <<1, 22>>, <<3>>, <<1, 4>>, <<1, 17>>, <<13>>,
                              <<1, 5>>, <<1, 2>>, <<2>>>>)
Stsd(video) ==
  Full("stsd", 0, {}, <<<<4, 1>>>> \o
    (IF video THEN Box("avc1", <<<<78>>>> \o Box("avcC", <<<<5>>>>))
     ELSE Box("mp4a", <<<<28>>>> \o Esds)))

InitSegment(v, video, scale) ==
  Laid(Box("ftyp", <<<<8>>>>) \o
       Box("moov", Mvhd(v, 1) \o
         Box("trak", Tkhd(v, 3) \o
           Box("mdia", Mdhd(v, scale) \o Box("minf", Box("stbl", Stsd(video))))) \o
         Box("mvex", Trex(6, 9))))

If(condition, fields) == IF condition THEN fields ELSE <<>>
Each(n, F(_)) == FoldLeft(LAMBDA x, y : x \o y, <<>>, [i \in 1..n |-> F(i)])

Tfhd(default) ==
  Full("tfhd", 0, IF default THEN {"default-sample-duration", "default-sample-size"} ELSE {},
       <<<<4, 1>>>> \o If(default, <<<<4, 5>>, <<4, 6>>>>))
Tfdt(v, time) == Full("tfdt", v, {}, <<<<Time(v), time>>>>)
SampleSize(i) == 2 + i
Trun(flags, n, data) ==
  Full("trun", 0, flags \union {"data-offset"},
       <<<<4, n>>, <<4, data>>>> \o If("first-sample-flags" \in flags, <<<<4>>>>) \o
       Each(n, LAMBDA i : If("sample-duration" \in flags, <<<<4, i>>>>) \o
                          If("sample-size" \in flags, <<<<4, SampleSize(i)>>>>) \o
                          If("sample-composition-time-offset" \in flags, <<<<4, 2 * i>>>>)))
Senc(n) == Full("senc", 0, {}, <<<<4, n>>>> \o Each(n, LAMBDA i : <<<<8>>>>))
Saiz(n, aux) ==
  Full("saiz", 0, IF aux THEN {"aux-info-type"} ELSE {},
       If(aux, <<<<4>>, <<4>>>>) \o <<<<1, 0>>, <<4, n>>>> \o Each(n, LAMBDA i : <<<<1, 8>>>>))

Moof(v, default, flags, n, data) ==
  Box("moof", Full("mfhd", 0, {}, <<<<4, 1>>>>) \o
    Box("traf", Tfhd(default) \o Tfdt(v, 20) \o Trun(flags, n, data) \o Senc(n)
                \o Saiz(n, v = 1)))
Emsg(v) ==
  Full("emsg", v, {}, LET text == <<<<4, 4>>, <<3, 3>>>>
                          id == <<<<4, 1>>, <<Time(v), 2>>, <<4, 3>>, <<4, 4>>>>
                      IN (IF v = 1 THEN id \o text ELSE text \o id) \o <<<<5>>>>)
Prft(v) == Full("prft", v, {}, <<<<4, 1>>, <<8, 2>>, <<8, 3>>>>)
Sidx(v) == Full("sidx", v, {}, <<<<4, 1>>, <<4, 2>>>> \o Times2(v) \o <<<<2>>, <<2, 2>>>> \o
                               Each(2, LAMBDA i : <<<<4>>, <<4, i>>, <<4>>>>))

\* A fragment; the data offset of trun is counted from the begin of moof.
Sample(default, flags, i) == IF "sample-size" \in flags THEN SampleSize(i)
                             ELSE IF default THEN 6 ELSE 0
Fragment(v, default, flags, n) ==
  LET before == Emsg(v) \o Prft(v) \o Sidx(v)
      moof == Moof(v, default, flags, n, 0)
  IN Laid(before \o Moof(v, default, flags, n, Width(moof) + 8) \o
          Box("mdat", Each(n, LAMBDA i : <<<<Sample(default, flags, i)>>>>)))

FlagSets(v) == {f \union (IF v = 0 THEN {"first-sample-flags"}
                          ELSE {"sample-composition-time-offset"}) :
                  f \in SUBSET {"sample-duration", "sample-size"}}
MCSegments ==
  LET whole == {InitSegment(v, v = 1, 12) : v \in 0..1}
               \union UNION {{Fragment(v, TRUE, f, n) : f \in FlagSets(v), n \in {2, 9}} :
                             v \in 0..1}
      begun == Fragment(0, TRUE, {"sample-size"}, 3)
  IN whole \union {Cut(begun, begun.size - k) : k \in {1, begun.size - 100}}
           \union {Cut(begun, 62 + k) : k \in {0, 2, 6}}
MCWritten == {1030}

\* What is injected: two time scales, and fragments whose samples have their
\* sizes and durations from the table, from tfhd, or from the trex box only.
MCTracks == {0, 1}
MCInits == <<InitSegment(0, TRUE, 12), InitSegment(1, FALSE, 48)>>
Shapes == <<[default |-> TRUE, flags |-> {"sample-duration", "sample-composition-time-offset"}, n |-> 3],
            [default |-> TRUE, flags |-> {"sample-size", "first-sample-flags"}, n |-> 2],
            [default |-> FALSE, flags |-> {"sample-duration", "sample-size"}, n |-> 4],
            [default |-> FALSE, flags |-> {}, n |-> 2]>>
MCFragments == [i \in DOMAIN Shapes |->
                  Fragment(i % 2, Shapes[i].default, Shapes[i].flags, Shapes[i].n)]

\* The sample as the segment was laid out: its mdat is the end of it.
Data(i, k) ==
  LET Size(j) == Sample(Shapes[i].default, Shapes[i].flags, j)
      all == FoldSeq(+, 0, [j \in 1..Shapes[i].n |-> Size(j)])
  IN [from |-> MCFragments[i].size - all + FoldSeq(+, 0, [j \in 1..(k - 1) |-> Size(j)]),
      length |-> Size(k)]
BeginOf(i, k) ==
  20 + FoldSeq(+, 0, [j \in 1..(k - 1) |->
                        IF "sample-duration" \in Shapes[i].flags THEN j ELSE 5])

(* mp4demux.hpp:214 and InterfacePlayerRDK.cpp:3007-3050: a fragment whose  *)
(* boxes tell sizes and durations is pushed as its samples, each with its   *)
(* own bytes, its times and the time scale of the last initialization       *)
(* segment of its track, whatever was injected into the other track.        *)
SamplesAsLaid ==
  \A t \in Tracks :
    LET i == lastFragment[t]
    IN i # 0 /\ (Shapes[i].default \/ Shapes[i].flags # {}) =>
         /\ Len(pushed[t]) = Shapes[i].n
         /\ \A k \in DOMAIN pushed[t] :
              /\ [from |-> pushed[t][k].ptr, length |-> pushed[t][k].len] = Data(i, k)
              /\ pushed[t][k].dts = BeginOf(i, k)
              /\ pushed[t][k].pts - pushed[t][k].dts =
                   (IF "sample-composition-time-offset" \in Shapes[i].flags THEN 2 * k ELSE 0)
              /\ pushed[t][k].timescale = 12 * 4^(lastInit[t] - 1)
              /\ caps[t].codec = <<"avcC", "esds">>[lastInit[t]]
              /\ caps[t].codec_data_len = <<5, 2>>[lastInit[t]]

(* playerisobmffbuffer.cpp:66-81 and mp4demux.hpp:214: either parser finds    *)
(* what was laid out.  The objects of an unedited buffer are those of a      *)
(* well-formed segment, also when edits of an earlier reading are read anew, *)
(* and after edits the boxes fill the buffer and each container as before.  *)
ReadAsLaid ==
  /\ SamplesAsLaid
  /\ boxes = laid /\ chunkedBox = 0 => WellFormed(buffer, bufSize, boxes)
  /\ Reparses

MCStyles == {[penSize |-> "medium", fontStyle |-> "small capital"],
             [penSize |-> "huge", windowFillOpacity |-> "solid"],
             [textEdgeColor |-> "purple"], <<>>}

\* Text in fragments, whose texts may begin later or be of several documents,
\* an initialization segment and a buffer without text; time lines that start
\* with the buffers or further ahead than a fragment is long.
MCTexts ==
  {[boxes |-> <<"ftyp", "moov", "trak">>, pts |-> 0, first |-> NO_TEXT, docs |-> 1],
   [boxes |-> <<"sidx">>, pts |-> 0, first |-> NO_TEXT, docs |-> 1]} \union
  {[boxes |-> <<"moof", "mdat">>, pts |-> p, first |-> b, docs |-> n] :
     p \in {0, 6, 12}, b \in {NO_TEXT, 0, 1}, n \in 1..3}
MCLines == {[start |-> s, restamp |-> r] : s \in {0, 10}, r \in {0, 3}}

VARIABLE reads  \* the part that moves: boxes, samples, text, bin, or none of them
formatVars == <<isoVars, demuxVars, textVars, subtecBinVars>>

FormatsInit ==
  /\ IsoInit /\ DemuxInit /\ TextInit /\ SubtecBinInit
  /\ reads \in {"boxes", "samples", "text", "bin", "nothing"}
  /\ reads # "boxes" => bufSize = 62
  /\ reads # "bin" => textCaps = "mp4" /\ line = [start |-> 0, restamp |-> 0]

FormatsNext ==
  /\ \/ reads = "boxes" /\ IsoNext /\ UNCHANGED <<demuxVars, textVars, subtecBinVars>>
     \/ reads = "samples" /\ DemuxNext /\ UNCHANGED <<isoVars, textVars, subtecBinVars>>
     \/ reads = "text" /\ TextNext /\ UNCHANGED <<isoVars, demuxVars, subtecBinVars>>
     \/ reads = "bin" /\ SubtecBinNext /\ UNCHANGED <<isoVars, demuxVars, textVars>>
  /\ UNCHANGED reads
=============================================================================
