------------------------------- MODULE IsoBmff -------------------------------
(***************************************************************************)
(* playerisobmff: PlayerIsoBmffBuffer reads a buffer into the box objects of *)
(* IsoBoxes.                                                               *)
(***************************************************************************)
EXTENDS IsoBoxes, SequencesExt

CONSTANTS
  Segments,   \* buffers: [cells, size], each of a well-formed segment or its begin
  Written     \* times and time scales that a caller writes

RECURSIVE constructContainer(_, _, _, _), WithContents(_, _, _, _)
\* The boxes in [at, end) of a container that begins at `start`, each with
\* what is in it.
constructContainer(b, at, end, start) ==
  IF at >= end THEN <<>>
  ELSE WithContents(b, constructBox(b, at, end - at, at - start), end, start)

WithContents(b, box, end, start) ==
  <<box>>
  \o (IF box.whole /\ box.type \in Containers
      THEN constructContainer(b, box.at + HEADER, box.at + box.size, box.at) ELSE <<>>)
  \o constructContainer(b, box.at + box.size, end, start)

\* Where constructTrakBox takes the track id of a tkhd box from: it skips to
\* the version by the offset of the box in its trak, 8 for the first one.
TrackIdAt(b, tkhd) == tkhd.at + tkhd.offset + 4 + Times(b, tkhd.at + tkhd.offset)

constructTrakBox(b, all, newTrackId) ==
  LET heads == SelectSeq(all, LAMBDA box : box.type = "tkhd")
  IN IF newTrackId = -1 THEN b
     ELSE FoldLeft(LAMBDA c, tkhd : Write32(c, TrackIdAt(b, tkhd), newTrackId), b, heads)

TrackIds(b, all) ==
  {Read(b, TrackIdAt(b, box)) : box \in {x \in ToSet(all) : x.type = "tkhd"}}

\* correctBoxSize gives a box that is too long the size that is left.
Corrected(b, size, all) ==
  LET over == SelectSeq(all, LAMBDA box : box.type # "UKWN" /\ box.at + box.size > size)
  IN IF over = <<>> THEN b ELSE Write32(b, over[1].at, size - over[1].at)

Parsed(b, size) == constructContainer(b, 0, size, 0)

\* A new PlayerIsoBmffBuffer for the memory as it is.
parseBuffer(correctBoxSize, newTrackId) ==
  \E b \in {IF correctBoxSize THEN Corrected(buffer, bufSize, Parsed(buffer, bufSize)) ELSE buffer} :
    \E all \in {Parsed(b, bufSize)} :
      LET written == constructTrakBox(b, all, newTrackId)
          cut == {i \in DOMAIN all : LET left == bufSize - all[i].at
                                      IN left < 4 \/ left < all[i].size}
      IN ReadBoxes(written, Parsed(written, bufSize), IF cut = {} THEN 0 ELSE CHOOSE i \in cut : TRUE)

Top(i) == \A j \in DOMAIN boxes :
            ~(boxes[j].type \in Containers /\ boxes[j].at < boxes[i].at
              /\ boxes[i].at < boxes[j].at + boxes[j].size)

isInitSegment == \E i \in DOMAIN boxes : Top(i) /\ boxes[i].type = "ftyp"

\* The first mdat box: getMdatBoxSize has its size, parseMdatBox copies from
\* behind its header.
MdatBoxes == SelectSeq(boxes, LAMBDA box : box.type = "mdat")
getMdatBoxSize == MdatBoxes[1].size
parseMdatBox == [from |-> MdatBoxes[1].offset + HEADER, length |-> MdatBoxes[1].size - HEADER]

-----------------------------------------------------------------------------
IsoInit ==
  /\ \E s \in Segments : buffer = s.cells /\ bufSize = s.size
  /\ boxes = <<>> /\ chunkedBox = 0 /\ laid = <<>> /\ stamped = {} /\ edits = 0

IsoNext ==
  \/ \E correctBoxSize \in BOOLEAN, newTrackId \in {-1, 7} : parseBuffer(correctBoxSize, newTrackId)
  \/ destroy
  \/ EditBoxes(Written)

IsoSpec == IsoInit /\ [][IsoNext]_isoVars

-----------------------------------------------------------------------------
Now == Parsed(buffer, bufSize)
Kept(all) == SelectSeq(all, LAMBDA box : box.type # "skip")
Types(all) == [i \in DOMAIN all |-> all[i].type]

\* The boxes that all[i] contains, or the segment for i = 0, one after the other.
Inside(all, i) ==
  LET from == IF i = 0 THEN 0 ELSE all[i].at + HEADER
      to == IF i = 0 THEN bufSize ELSE all[i].at + all[i].size
      in == SelectSeq(all, LAMBDA box : box.at >= from /\ box.at < to)
  IN SelectSeq(in, LAMBDA box : \A j \in DOMAIN in :
       ~(in[j].type \in Containers /\ in[j].at < box.at /\ box.at < in[j].at + in[j].size))

Tiles(all, i) ==
  LET parts == Inside(all, i)
      from == IF i = 0 THEN 0 ELSE all[i].at + HEADER
      to == IF i = 0 THEN bufSize ELSE all[i].at + all[i].size
  IN /\ \A j \in DOMAIN parts :
          parts[j].at = (IF j = 1 THEN from ELSE parts[j - 1].at + parts[j - 1].size)
     /\ parts # <<>> => parts[Len(parts)].at + parts[Len(parts)].size = to

\* The boxes still fill the segment and every container without gap or
\* overlap, and apart from skip boxes they are those of the objects.
Reparses ==
  boxes # <<>> /\ chunkedBox = 0 =>
  LET now == Now IN
  /\ \A i \in 0..Len(now) : i = 0 \/ now[i].type \in Containers => Tiles(now, i)
  /\ Types(Kept(now)) = Types(Kept(boxes))
=============================================================================
