------------------------------ MODULE IsoBoxes ------------------------------
(***************************************************************************)
(* playerisobmff: the box objects of a buffer, which read their fields from *)
(* it and restamp, truncate and blank out boxes in place.                   *)
(*                                                                         *)
(* A buffer is a function from the addresses of its fields to their values; *)
(* a field has its first byte's address, and the bytes between are data.    *)
(* A box is [type, at, offset, size] and what its constructor reads, with   *)
(* the address of every field that it may rewrite (0 for a null pointer).   *)
(* `boxes` lists each box before its children.                              *)
(*                                                                         *)
(* Left out: the bytes of messages and of samples, printBoxes.              *)
(***************************************************************************)
EXTENDS Integers, Sequences

CONSTANTS
  WORD,       \* 2^32
  MaxEdits    \* bound on the setters and truncations of a behaviour

ASSUME IsoAssumption == WORD \in Nat /\ WORD > 1 /\ MaxEdits \in Nat

VARIABLES
  buffer, bufSize,  \* the memory, edited in place, and its length
  boxes,            \* of the current PlayerIsoBmffBuffer
  chunkedBox,       \* its incomplete last box: an index of boxes, or 0
  laid,             \* history: the boxes as they were read
  stamped,          \* history: addresses of the trun boxes given a duration
  edits             \* their number

isoVars == <<buffer, bufSize, boxes, chunkedBox, laid, stamped, edits>>

HEADER == 8   \* PLAYER_SIZEOF_SIZE_AND_TAG

Read(b, a) == IF a \in DOMAIN b THEN b[a] ELSE 0

\* A field of four bytes; what began inside it is gone.
Write32(b, a, x) ==
  [y \in (DOMAIN b \ (a..(a + 3))) \union {a} |-> IF y = a THEN x ELSE b[y]]

\* SkipIsoBmffBox writes a header.
WriteSkip(b, a, size) == Write32(Write32(b, a, size), a + 4, "skip")

-----------------------------------------------------------------------------
(* The constructors.  p is the address after the header, where the version  *)
(* and the flags of a full box are, in one field.                           *)

Total(s) ==
  LET sum[k \in 0..Len(s)] == IF k = 0 THEN 0 ELSE sum[k - 1] + s[k] IN sum[Len(s)]

Version(b, p) == b[p].version
Flags(b, p) == b[p].flags
Word(condition) == IF condition THEN 4 ELSE 0
Times(b, p) == IF Version(b, p) = 1 THEN 16 ELSE 8

constructMvhdBox(b, p) ==
  LET loc == p + 4 + Times(b, p)
  IN [timeScale |-> Read(b, loc), timeScale_loc |-> loc]

constructMdhdBox(b, p) ==
  LET loc == p + 4 + Times(b, p)
  IN [timeScale |-> Read(b, loc), timeScale_loc |-> loc]

constructTfdtBox(b, p) ==
  [version |-> Version(b, p), baseMDT |-> Read(b, p + 4), baseMDT_loc |-> p + 4]

constructTfhdBox(b, p) ==
  LET flags == Flags(b, p)
      a == p + 8 + 2 * Word("base-data-offset" \in flags)
                 + Word("sample-description-index" \in flags)
      present == "default-sample-duration" \in flags
  IN [flags |-> flags,
      default_sample_duration_loc |-> IF present THEN a ELSE 0,
      mDefaultSampleDuration |-> IF present THEN Read(b, a) ELSE 0,
      mDefaultSampleSize |->
        IF "default-sample-size" \in flags THEN Read(b, a + Word(present)) ELSE 0]

\* The bytes that every sample has in the table of a trun box.
BytesPerSample(flags) ==
  Word("sample-duration" \in flags) + Word("sample-size" \in flags)
  + Word("sample-flags" \in flags) + Word("sample-composition-time-offset" \in flags)

constructTrunBox(b, p) ==
  LET flags == Flags(b, p)
      table == p + 8 + Word("data-offset" \in flags)
                     + Word("first-sample-flags" \in flags)
      n == Read(b, p + 4)
      Sample(i) == table + (i - 1) * BytesPerSample(flags)
      present == "sample-duration" \in flags
  IN [flags |-> flags, sample_count |-> n, sample_count_loc |-> p + 4,
      first_sample_duration_loc |-> IF present /\ n > 0 THEN table ELSE 0,
      duration |-> IF ~present THEN 0
                   ELSE Total([i \in 1..n |-> Read(b, Sample(i))]),
      mFirstSampleSize |-> IF "sample-size" \in flags /\ n > 0
                           THEN Read(b, table + Word(present)) ELSE 0]

constructSencBox(b, p) ==
  [numSamples |-> Read(b, p + 4), sampleCountLoc |-> p + 4]

constructSaizBox(b, p) ==
  LET a == p + 4 + 2 * Word("aux-info-type" \in Flags(b, p))
      default == Read(b, a)
  IN [numSamples |-> Read(b, a + 1), sampleCountLoc |-> a + 1,
      firstSampleInfoSize |-> IF default = 0 THEN Read(b, a + 5) ELSE default]

constructPrftBox(b, p) ==
  [track_id |-> Read(b, p + 4), ntp_ts |-> Read(b, p + 8), media_time |-> Read(b, p + 16)]

constructSidxBox(b, p) ==
  LET refs == p + 12 + Times(b, p) + 4
      refCount == Read(b, refs - 2)
  IN [timeScale |-> Read(b, p + 8),
      duration |-> Total([i \in 1..refCount |-> Read(b, refs + 12 * i - 8)])]

\* A C string is a field, its length with the terminator.
ReadCStringLenFromBuffer(b, p, remaining) ==
  IF Read(b, p) \in 1..remaining THEN Read(b, p) ELSE -1

\* The two strings of an emsg box, the second looked for only after the first.
EmsgStrings(b, p, remaining) ==
  LET scheme == ReadCStringLenFromBuffer(b, p, remaining)
      value == IF scheme > 0
               THEN ReadCStringLenFromBuffer(b, p + scheme, remaining - scheme) ELSE -1
  IN [scheme |-> scheme, value |-> value,
      length |-> (IF scheme > 0 THEN scheme ELSE 0) + (IF value > 0 THEN value ELSE 0)]

constructEmsgBox(b, p, size) ==
  LET one == Version(b, p) = 1
      remaining == size - HEADER - 4
      text == IF one THEN EmsgStrings(b, p + 24, remaining - 20)
              ELSE EmsgStrings(b, p + 4, remaining)
      a == IF one THEN p + 4 ELSE p + 4 + text.length
  IN [timeScale |-> Read(b, a),
      presentationTime |-> IF one THEN Read(b, a + 4) ELSE 0,
      presentationTimeDelta |-> IF one THEN 0 ELSE Read(b, a + 4),
      eventDuration |-> Read(b, IF one THEN a + 12 ELSE a + 8),
      id |-> Read(b, IF one THEN a + 16 ELSE a + 12),
      scheme |-> text.scheme, value |-> text.value,
      messageLen |-> remaining - text.length - (IF one THEN 20 ELSE 16)]

-----------------------------------------------------------------------------
(* Boxes.                                                                  *)

Containers == {"moov", "trak", "mdia", "moof", "traf"}

Fields(b, type, p, size) ==
  CASE type = "mvhd" -> constructMvhdBox(b, p)
    [] type = "mdhd" -> constructMdhdBox(b, p)
    [] type = "tfhd" -> constructTfhdBox(b, p)
    [] type = "tfdt" -> constructTfdtBox(b, p)
    [] type = "trun" -> constructTrunBox(b, p)
    [] type = "senc" -> constructSencBox(b, p)
    [] type = "saiz" -> constructSaizBox(b, p)
    [] type = "prft" -> constructPrftBox(b, p)
    [] type = "sidx" -> constructSidxBox(b, p)
    [] type = "emsg" -> constructEmsgBox(b, p, size)
    [] OTHER         -> [none |-> 0]

\* With fewer than 8 bytes left there is no box to read.  A box longer than
\* what is left has neither fields nor children.  Where no header was written,
\* data is read as one: a box of no known type that reaches to the end.
constructBox(b, at, maxSz, offset) ==
  LET header == {at, at + 4} \subseteq DOMAIN b
      size == IF maxSz < HEADER \/ ~header THEN maxSz ELSE b[at]
      type == IF maxSz < HEADER THEN "UKWN" ELSE IF header THEN b[at + 4] ELSE "data"
      whole == maxSz >= HEADER /\ size <= maxSz
  IN [type |-> type, at |-> at, offset |-> offset, size |-> size, whole |-> whole,
      fields |-> IF whole THEN Fields(b, type, at + HEADER, size) ELSE [none |-> 0]]

-----------------------------------------------------------------------------
(* A PlayerIsoBmffBuffer is made for the memory as it is, with the boxes in  *)
(* it, and deleted.                                                        *)

ReadBoxes(b, all, cut) ==
  /\ boxes = <<>>
  /\ buffer' = b /\ boxes' = all /\ laid' = all /\ chunkedBox' = cut
  /\ stamped' = {}
  /\ UNCHANGED <<bufSize, edits>>

destroy ==
  /\ boxes # <<>>
  /\ boxes' = <<>> /\ laid' = <<>> /\ chunkedBox' = 0 /\ stamped' = {}
  /\ UNCHANGED <<buffer, bufSize, edits>>

-----------------------------------------------------------------------------
(* Setters of the objects.                                                 *)

Edit(i, field, x) == boxes' = [boxes EXCEPT ![i].fields[field] = x]
Is(i, types) == i \in DOMAIN boxes /\ boxes[i].whole /\ boxes[i].type \in types
Edited == edits < MaxEdits /\ edits' = edits + 1
SameBuffer == Edited /\ UNCHANGED <<bufSize, chunkedBox, laid>>

setTimeScale(i, tScale) ==
  /\ Is(i, {"mvhd", "mdhd"})
  /\ Edit(i, "timeScale", tScale)
  /\ buffer' = Write32(buffer, boxes[i].fields.timeScale_loc, tScale % WORD)
  /\ SameBuffer /\ UNCHANGED stamped

\* Of 64 bits in a box of version 1.
setBaseMDT(i, mdt) ==
  /\ Is(i, {"tfdt"})
  /\ Edit(i, "baseMDT", mdt)
  /\ buffer' = Write32(buffer, boxes[i].fields.baseMDT_loc,
                       IF boxes[i].fields.version = 1 THEN mdt ELSE mdt % WORD)
  /\ SameBuffer /\ UNCHANGED stamped

\* Called for a box with durations (sampleDurationPresent).
setFirstSampleDuration(i, sampleDuration) ==
  /\ Is(i, {"trun"})
  /\ boxes[i].fields.first_sample_duration_loc # 0
  /\ Edit(i, "duration", sampleDuration)
  /\ buffer' = Write32(buffer, boxes[i].fields.first_sample_duration_loc, sampleDuration % WORD)
  /\ stamped' = stamped \union {boxes[i].at}
  /\ SameBuffer

setDefaultSampleDuration(i, duration) ==
  /\ Is(i, {"tfhd"})
  /\ boxes[i].fields.default_sample_duration_loc # 0
  /\ Edit(i, "mDefaultSampleDuration", duration)
  /\ buffer' = Write32(buffer, boxes[i].fields.default_sample_duration_loc, duration % WORD)
  /\ SameBuffer /\ UNCHANGED stamped

-----------------------------------------------------------------------------
(* Truncation to the first sample.  A skip box fills what is cut off, if it *)
(* has room for a header.                                                   *)

\* Faulty variant: the skip box is put where the old one ended.
Shrunk_SkipAtEnd(b, at, oldSize, newSize) ==
  LET gap == (oldSize - newSize) % WORD
  IN IF gap >= HEADER THEN WriteSkip(Write32(b, at, newSize), at + oldSize - HEADER, gap)
     ELSE b

Shrunk(b, at, oldSize, newSize) ==
  LET gap == (oldSize - newSize) % WORD
  IN IF gap >= HEADER THEN WriteSkip(Write32(b, at, newSize), at + newSize, gap) ELSE b

\* Faulty variant: the number of samples is left in the buffer.
truncateTrun_KeepsCount(i) ==
  LET box == boxes[i]
      newSize == box.size - (box.fields.sample_count - 1) * BytesPerSample(box.fields.flags)
  IN /\ Is(i, {"trun"}) /\ box.fields.sample_count > 1
     /\ boxes' = [boxes EXCEPT ![i].fields.sample_count = 1,
                    ![i].size = IF box.size - newSize >= HEADER THEN newSize ELSE @]
     /\ buffer' = Shrunk(buffer, box.at, box.size, newSize)
     /\ SameBuffer /\ UNCHANGED stamped

truncateTrun(i) ==
  LET box == boxes[i]
      newSize == box.size - (box.fields.sample_count - 1) * BytesPerSample(box.fields.flags)
  IN /\ Is(i, {"trun"}) /\ box.fields.sample_count > 1
     /\ boxes' = [boxes EXCEPT ![i].fields.sample_count = 1,
                    ![i].size = IF box.size - newSize >= HEADER THEN newSize ELSE @]
     /\ buffer' = Shrunk(Write32(buffer, box.fields.sample_count_loc, 1),
                         box.at, box.size, newSize)
     /\ SameBuffer /\ UNCHANGED stamped

\* The size of the object stays.
truncateSenc(i, firstSampleSize) ==
  LET box == boxes[i]
      newSize == box.fields.sampleCountLoc + 4 + firstSampleSize - box.at
  IN /\ Is(i, {"senc"}) /\ box.fields.numSamples > 1
     /\ Edit(i, "numSamples", 1)
     /\ buffer' = Write32(IF firstSampleSize = 0 THEN buffer
                          ELSE Shrunk(buffer, box.at, box.size, newSize),
                          box.fields.sampleCountLoc, 1)
     /\ SameBuffer /\ UNCHANGED stamped

\* The table has a byte for each sample; so does the object think of a table
\* that is not there.
truncateSaiz(i) ==
  LET box == boxes[i]
  IN /\ Is(i, {"saiz"})
     /\ Edit(i, "numSamples", 1)
     /\ buffer' = Write32(Shrunk(buffer, box.at, box.size, box.size - (box.fields.numSamples - 1)),
                          box.fields.sampleCountLoc, 1)
     /\ SameBuffer /\ UNCHANGED stamped

\* The caller drops what is behind the last box.
truncateMdat(i, newSize) ==
  /\ Is(i, {"mdat"}) /\ i = Len(boxes) /\ newSize < boxes[i].size
  /\ boxes' = [boxes EXCEPT ![i].size = newSize]
  /\ buffer' = Write32(buffer, boxes[i].at, newSize)
  /\ bufSize' = boxes[i].at + newSize
  /\ Edited /\ UNCHANGED <<chunkedBox, laid, stamped>>

\* Only these constructors store the base that rewriteAsSkipBox writes to.
HaveBase == {"mvhd", "mdhd", "tfhd", "trun", "senc", "saiz", "mdat"}

rewriteAsSkipBox(i) ==
  /\ Is(i, HaveBase)
  /\ boxes' = [boxes EXCEPT ![i].type = "skip"]
  /\ buffer' = Write32(buffer, boxes[i].at + 4, "skip")
  /\ SameBuffer /\ UNCHANGED stamped

-----------------------------------------------------------------------------
\* The sizes of the first sample that the boxes give their caller.
FirstInfoSize == {boxes[i].fields.firstSampleInfoSize : i \in {j \in DOMAIN boxes : Is(j, {"saiz"})}}
FirstSize == {boxes[i].fields.mFirstSampleSize : i \in {j \in DOMAIN boxes : Is(j, {"trun"})}}

EditBoxes(values) ==
  \/ \E i \in DOMAIN boxes, x \in values :
       setTimeScale(i, x) \/ setBaseMDT(i, x) \/ setFirstSampleDuration(i, x)
       \/ setDefaultSampleDuration(i, x)
  \/ \E i \in DOMAIN boxes : truncateTrun(i) \/ truncateSaiz(i) \/ rewriteAsSkipBox(i)
  \/ \E i \in DOMAIN boxes, n \in FirstInfoSize : truncateSenc(i, n)
  \/ \E i \in DOMAIN boxes, n \in FirstSize : truncateMdat(i, HEADER + n)

-----------------------------------------------------------------------------
(* A segment whose boxes follow each other, as they are read: each box as its*)
(* constructor makes it, with its fields inside and of the width they have.  *)

\* Where the part of a box ends that is its own: behind the header of a container.
OwnEnd(box) == box.at + (IF box.type \in Containers THEN HEADER ELSE box.size)

\* The first sample's entry in the table of a trun box.
FirstSample(box) ==
  box.at + 16 + Word("data-offset" \in box.fields.flags)
              + Word("first-sample-flags" \in box.fields.flags)

FieldsInside(b, box) ==
  LET f == box.fields
      end == box.at + box.size
      Fits(a) == a + 4 <= end
      Number(x) == x \in 0..(WORD - 1)
  IN CASE box.type \in {"mvhd", "mdhd"} -> Fits(f.timeScale_loc) /\ Number(f.timeScale)
       [] box.type = "tfdt" -> /\ Fits(f.baseMDT_loc) /\ f.baseMDT \in Nat
                               /\ f.version # 1 => Number(f.baseMDT)
       [] box.type = "tfhd" -> /\ f.default_sample_duration_loc # 0
                                    => Fits(f.default_sample_duration_loc)
                               /\ box.size >= 12 /\ Number(f.mDefaultSampleDuration)
       [] box.type = "trun" -> /\ f.sample_count \in Nat /\ f.mFirstSampleSize \in Nat
                               /\ FirstSample(box) + f.sample_count * BytesPerSample(f.flags) <= end
       [] box.type = "senc" -> Fits(f.sampleCountLoc) /\ f.numSamples \in Nat
       [] box.type = "saiz" -> /\ f.numSamples \in Nat \ {0} /\ f.firstSampleInfoSize \in Nat
                               /\ f.sampleCountLoc + 4 + f.numSamples <= end
                               /\ Read(b, f.sampleCountLoc - 1) = 0
       [] OTHER -> TRUE

FullBoxes == {"mvhd", "mdhd", "tfdt", "tfhd", "trun", "senc", "saiz"}

WellFormed(b, size, all) ==
  /\ size \in 0..(WORD - 1) /\ all \in Seq({all[i] : i \in DOMAIN all})
  /\ \A i \in DOMAIN all :
       LET box == all[i]
       IN /\ box.at \in Nat /\ box.size \in Nat /\ box.at + box.size <= size
          /\ box.type \in FullBoxes => box.at + HEADER \in DOMAIN b
          /\ box = constructBox(b, box.at, box.size, box.offset)
          /\ FieldsInside(b, box)
  \* Parts of their own, in order; the media data is not in another box.
  /\ \A i, j \in DOMAIN all : i < j => OwnEnd(all[i]) <= all[j].at
  /\ \A i, j \in DOMAIN all : i < j /\ all[j].type = "mdat" => all[i].at + all[i].size <= all[j].at
  \* The table of senc has room for the first sample that saiz tells the size of.
  /\ \A i, j \in DOMAIN all : all[i].type = "senc" /\ all[j].type = "saiz" /\ all[i].fields.numSamples > 1 =>
       all[i].fields.sampleCountLoc + 4 + all[j].fields.firstSampleInfoSize <= all[i].at + all[i].size

\* Buffers whose boxes are read so, or are not all there.
BoxesInit ==
  /\ bufSize \in 0..(WORD - 1)
  /\ boxes = <<>> /\ chunkedBox = 0 /\ laid = <<>> /\ stamped = {} /\ edits = 0

BoxesNext ==
  \/ /\ ReadBoxes(buffer', boxes', chunkedBox')
     /\ chunkedBox' = 0 => WellFormed(buffer', bufSize, boxes')
  \/ destroy
  \/ EditBoxes(Nat)

BoxesSpec == BoxesInit /\ [][BoxesNext]_isoVars

-----------------------------------------------------------------------------
\* What an object and the box that is read in its place should agree on; a box of 32 bits has the
\* time of its object modulo 2^32.
Agrees(o, n) ==
  CASE o.type \in {"mvhd", "mdhd"} -> n.fields.timeScale = o.fields.timeScale % WORD
    [] o.type = "tfdt" -> n.fields.baseMDT =
         (IF o.fields.version = 1 THEN o.fields.baseMDT ELSE o.fields.baseMDT % WORD)
    [] o.type = "tfhd" -> n.fields.mDefaultSampleDuration = o.fields.mDefaultSampleDuration % WORD
    [] o.type = "trun" ->
         /\ n.fields.sample_count = o.fields.sample_count
         /\ n.fields.mFirstSampleSize = o.fields.mFirstSampleSize
         /\ o.fields.sample_count = 1 /\ o.at \in stamped
              => n.fields.duration = o.fields.duration % WORD
    [] o.type = "senc" -> n.fields.numSamples = o.fields.numSamples
    [] o.type = "saiz" -> /\ n.fields.numSamples = o.fields.numSamples
                          /\ n.fields.firstSampleInfoSize = o.fields.firstSampleInfoSize
    [] o.type = "mdat" -> n.size = o.size
    [] OTHER -> TRUE

\* The place of a box; of a truncated mdat box, what is left of it.
PlaceSize(i) ==
  IF laid[i].at + laid[i].size <= bufSize THEN laid[i].size ELSE bufSize - laid[i].at

\* Who reads the box in its place.
Reread(i) == constructBox(buffer, laid[i].at, PlaceSize(i), laid[i].offset)

\* A box fills its place, or a skip box fills what is left of it.
Fills(i, box) ==
  box.size # PlaceSize(i) =>
    LET rest == constructBox(buffer, laid[i].at + box.size, PlaceSize(i) - box.size, 0)
    IN rest.type = "skip" /\ rest.size = PlaceSize(i) - box.size

(* playerisobmffbox.cpp, the setters, the truncations and rewriteAsSkipBox,  *)
(* lines 276 and 382-1514: however a whole segment is edited and in any order,*)
(* who reads it finds in the place of each box a box of the object's type,   *)
(* with the time scales, times, durations and numbers of samples that were   *)
(* set and those of the first sample that were not, and what is cut off of   *)
(* it in a skip box.                                                       *)
BufferFollowsObjects ==
  chunkedBox = 0 =>
    \A i \in DOMAIN boxes :
      LET now == Reread(i)
      IN now.type = boxes[i].type /\ Fills(i, now) /\ Agrees(boxes[i], now)
=============================================================================
