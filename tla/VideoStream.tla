---------------------------- MODULE VideoStream ----------------------------
(***************************************************************************)
(* cmd/nc-host/capture.go: from ffmpeg's bytes to samples. nalUnits cuts   *)
(* an Annex-B byte stream, read in chunks of any size, at its start codes; *)
(* runOnce collects the NAL units into access units and writes each one as *)
(* a sample, having announced a keyframe to the hub (hub.go, nextKey).     *)
(* A step reads one chunk or handles one NAL unit; ffmpeg may be killed at *)
(* any byte.                                                               *)
(***************************************************************************)
EXTENDS Samples, SequencesExt

CONSTANTS
  MaxPictures,  \* pictures in a stream (bound)
  MaxSlices,    \* slices of a picture (bound; -tune zerolatency makes several)
  MaxChunk,     \* bytes one Read of the pipe returns (64 KiB in the code)
  TrimAt        \* offset from which the buffer is trimmed (1 MiB in the code)

ASSUME VideoStreamAssumption ==
  /\ MaxPictures \in Nat \ {0} /\ MaxSlices \in Nat \ {0} /\ MaxChunk \in Nat \ {0}
  /\ TrimAt \in Nat

---------------------------------------------------------------------------
(* What the encoder writes: a picture is one or more slices, a keyframe is *)
(* preceded by its parameter sets, and the first picture is a keyframe.    *)

Sps == <<103, 9>>
Pps == <<104, 0, 2>>   \* a zero byte inside the payload

\* Slice i of a picture: NAL type 5 (keyframe) or 1; the top bit of the second
\* byte says that it is the picture's first slice.
SliceNal(key, i) == <<IF key THEN 101 ELSE 65, IF i = 1 THEN 136 ELSE 66>>

PictureNals(p) ==
  (IF p.key THEN <<Sps, Pps>> ELSE <<>>) \o [i \in 1..p.slices |-> SliceNal(p.key, i)]

PictureSet == [key : BOOLEAN, slices : 1..MaxSlices]

Streams == {s \in BoundedSeq(PictureSet, MaxPictures) : s # <<>> /\ s[1].key}

NalsOf(s) == FlattenSeq([i \in 1..Len(s) |-> PictureNals(s[i])])

\* Start codes have four bytes before parameter sets, else three or four.
StartCode(n, long) == IF long \/ n \in {Sps, Pps} THEN <<0, 0, 0, 1>> ELSE <<0, 0, 1>>

BytesOf(s, long) ==
  LET ns == NalsOf(s)
  IN FlattenSeq([i \in 1..Len(ns) |-> StartCode(ns[i], long) \o ns[i]])

---------------------------------------------------------------------------
VARIABLES
  stream,    \* the pictures ffmpeg writes
  long,      \* with four-byte start codes throughout
  read,      \* bytes read from the pipe so far
  buf,       \* nalUnits: buf
  start,     \* nalUnits: where the current NAL's payload starts in buf (0: none yet)
  nals,      \* history: the NAL units yielded
  au,        \* runOnce: au, as a sequence of NAL units
  hasSlice,  \* runOnce: auHasSlice
  mark,      \* hub.nextKey
  state      \* running, eof (the pipe is closed), done

wire == <<stream, long>>
vars == <<wire, read, buf, start, nals, au, hasSlice, mark, samples, state>>

Init ==
  /\ stream \in Streams
  /\ long \in BOOLEAN
  /\ read = 0
  /\ buf = <<>>
  /\ start = 0
  /\ nals = <<>>
  /\ au = <<>>
  /\ hasSlice = FALSE
  /\ mark = FALSE
  /\ samples = <<>>
  /\ state = "running"

\* Where the next start code begins in b, from position i on.
CodesFrom(b, i) ==
  {j \in i..Len(b) - 2 : b[j] = 0 /\ b[j + 1] = 0 /\ b[j + 2] = 1}

SearchFrom == IF start = 0 THEN 1 ELSE start

\* hub.WriteSample: the mark is taken with the sample.
Sample(u, m) == [nals |-> u, key |-> m]

\* A new slice after we already hold one means a new picture started.
NewPicture(nal) == IsSlice(nal) /\ hasSlice /\ FirstMB(nal)

\* The access unit after a NAL unit, the one before having been flushed if a new
\* picture starts.
Collected(nal) == IF NewPicture(nal) THEN <<nal>> ELSE Append(au, nal)

\* Mutant of FlushMark: the keyframe is announced before the sample before it is
\* written.
FlushMarkEarly(nal) == mark \/ IsKey(nal)

\* The hub's mark when the NAL unit makes runOnce flush.
FlushMark(nal) == mark

\* One turn of runOnce's loop: flush the access unit before, announce a
\* keyframe, add the NAL unit.
Take(nal) ==
  IF nal = <<>> THEN UNCHANGED <<nals, au, hasSlice, mark, samples>>
  ELSE
    /\ nals' = Append(nals, nal)
    /\ samples' = IF NewPicture(nal)
                  THEN Append(samples, Sample(au, FlushMark(nal))) ELSE samples
    /\ mark' = ((mark /\ ~NewPicture(nal)) \/ IsKey(nal))
    /\ au' = Collected(nal)
    /\ hasSlice' = ((hasSlice /\ ~NewPicture(nal)) \/ IsSlice(nal))

---------------------------------------------------------------------------
\* nalUnits: read a chunk, when the buffer holds no further start code.
Read(n) ==
  /\ state = "running"
  /\ CodesFrom(buf, SearchFrom) = {}
  /\ LET all == BytesOf(stream, long) IN
       /\ read + n <= Len(all)
       /\ buf' = buf \o SubSeq(all, read + 1, read + n)
  /\ read' = read + n
  /\ UNCHANGED <<wire, start, nals, au, hasSlice, mark, samples, state>>

\* Mutant of NalBefore: a four-byte start code's first zero is left on the NAL.
NalBeforeUntrimmed(j) == SubSeq(buf, start, j - 1)

\* The NAL unit that ends before the start code at j; the first zero of a
\* four-byte start code is not part of it.
NalBefore(j) ==
  SubSeq(buf, start, IF j > 1 /\ buf[j - 1] = 0 THEN j - 2 ELSE j - 1)

\* The offset of the payload once the bytes before it have been dropped.
Trimmed == 1

\* nalUnits: a start code is found. The NAL unit before it is complete, and
\* consumed bytes are dropped once there are many.
Cut ==
  /\ state = "running"
  /\ CodesFrom(buf, SearchFrom) # {}
  /\ LET j == Min(CodesFrom(buf, SearchFrom)) IN
       /\ IF start = 0 THEN UNCHANGED <<nals, au, hasSlice, mark, samples>>
                       ELSE Take(NalBefore(j))
       /\ IF j + 3 > TrimAt
          THEN /\ buf' = SubSeq(buf, j + 3, Len(buf))
               /\ start' = Trimmed
          ELSE /\ start' = j + 3
               /\ UNCHANGED buf
  /\ UNCHANGED <<wire, read, state>>

\* The pipe is closed, at the stream's end or wherever ffmpeg was killed:
\* nalUnits yields what is left.
Eof ==
  /\ state = "running"
  /\ CodesFrom(buf, SearchFrom) = {}
  /\ IF start = 0 THEN UNCHANGED <<nals, au, hasSlice, mark, samples>>
                  ELSE Take(SubSeq(buf, start, Len(buf)))
  /\ state' = "eof"
  /\ UNCHANGED <<wire, read, buf, start>>

\* runOnce's last flush.
LastFlush ==
  /\ state = "eof"
  /\ state' = "done"
  /\ IF au = <<>> THEN UNCHANGED <<mark, samples>>
     ELSE /\ samples' = Append(samples, Sample(au, mark))
          /\ mark' = FALSE
  /\ au' = <<>>
  /\ hasSlice' = FALSE
  /\ UNCHANGED <<wire, read, buf, start, nals>>

Next == (\E n \in 1..MaxChunk : Read(n)) \/ Cut \/ Eof \/ LastFlush

Spec == Init /\ [][Next]_vars

---------------------------------------------------------------------------
(* Properties. *)

TypeOK ==
  /\ stream \in Streams /\ long \in BOOLEAN
  /\ read \in 0..Len(BytesOf(stream, long))
  /\ buf \in Seq(0..255) /\ Len(buf) <= read
  /\ start \in 0..Len(buf) + 1
  /\ nals \in Seq(Seq(0..255)) /\ au \in Seq(Seq(0..255))
  /\ hasSlice \in BOOLEAN /\ mark \in BOOLEAN
  /\ samples \in Seq([nals : Seq(Seq(0..255)), key : BOOLEAN])
  /\ state \in {"running", "eof", "done"}

Written == FlattenSeq([i \in 1..Len(samples) |-> samples[i].nals])

\* However the stream is cut into chunks, exactly its NAL units are yielded, in
\* order. A killed ffmpeg can only truncate the last one.
NalsExact ==
  LET whole == IF state = "running" THEN nals ELSE Front(nals)
      all   == NalsOf(stream)
  IN /\ nals # <<>> \/ state = "running" => IsPrefix(whole, all)
     /\ state # "running" /\ read = Len(BytesOf(stream, long)) => nals = all

\* No NAL unit is lost, repeated or reordered on its way into the samples.
SamplesExact == Written \o au = nals

Slices(u) == SelectSeq(u, IsSlice)

\* Every sample holds the slices of exactly one picture: the first of its
\* slices, and no other, is the first slice of a picture.
OnePicturePerSample ==
  \A i \in 1..Len(samples) :
    LET sl == Slices(samples[i].nals) IN
      state = "running" \/ i < Len(samples) =>
        sl # <<>> /\ \A j \in 1..Len(sl) : FirstMB(sl[j]) <=> j = 1

\* However the stream is cut into chunks, its NAL units go into the samples exactly
\* as they are: none is lost, repeated, reordered or changed, and each sample has
\* those of one whole picture.
StreamExact == TypeOK /\ NalsExact /\ SamplesExact /\ OnePicturePerSample
=============================================================================
