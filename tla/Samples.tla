------------------------------ MODULE Samples ------------------------------
(***************************************************************************)
(* What cmd/nc-host/capture.go hands to the hub: each sample is made of    *)
(* NAL units, and the hub takes it for a keyframe or not. VideoStream is   *)
(* how the samples come about.                                             *)
(***************************************************************************)
EXTENDS Naturals, Sequences

VARIABLE samples  \* history: the samples written, each with the mark it was written under

IsSlice(nal) == nal # <<>> /\ nal[1] % 32 \in {1, 5}
IsKey(nal)   == nal # <<>> /\ nal[1] % 32 = 5

\* firstMB: first_mb_in_slice = 0.
FirstMB(nal) == Len(nal) > 1 /\ nal[2] >= 128

\* The NAL units are of one picture: none after a slice begins another one.
OnePicture(u) ==
  \A j, k \in 1..Len(u) : j < k /\ IsSlice(u[j]) => ~(IsSlice(u[k]) /\ FirstMB(u[k]))

HasKey(u) == \E j \in 1..Len(u) : IsKey(u[j])

\* A device that waits starts at a keyframe, and at one picture: no sample holds a
\* second picture, and the hub takes a sample for a keyframe exactly when it has one,
\* wherever ffmpeg's output is cut or ends.
PicturesExact ==
  \A i \in 1..Len(samples) :
    OnePicture(samples[i].nals) /\ (samples[i].key <=> HasKey(samples[i].nals))
=============================================================================
