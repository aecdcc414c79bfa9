-------------------------- MODULE FileReceiveProofs --------------------------
(***************************************************************************)
(* What uploads keep for any number of channels and files: data never      *)
(* mixes, nothing half-received stays behind, and no file that was there   *)
(* when an upload's data was complete is overwritten by it. The last of    *)
(* these needs to know that what an upload holds is new, and that a name   *)
(* found free can only be taken by something newer (FreeInv).              *)
(***************************************************************************)
EXTENDS FileReceive, FiniteSetTheorems, WellFoundedInduction, TLAPS

Names == Seq(Nat \ {0, 1})

\* TypeOK, and that names are sequences and the directory is finite.
TypeInv ==
  /\ TypeOK
  /\ DOMAIN dir \subseteq Names /\ DOMAIN parts \subseteq Names
  /\ IsFiniteSet(DOMAIN dir)
  /\ tmp \in [Channels -> Names] /\ final \in [Channels -> Names]

Saving(c) == st[c] \in {"saving", "closed", "placing"}
Busy(c)   == st[c] = "named" \/ Saving(c)

\* What a busy channel receives has a number.
BusyCounted == \A c \in Channels : Busy(c) => count[c] \in 1..MaxFiles

\* Contents that a header announced, or a program of the desk wrote, so far.
Known(x) ==
  \/ \E c \in Channels : \E k \in 1..count[c] : x = <<c, k>>
  \/ \E k \in 1..own : x = <<"desk", k>>

\* The directory holds nothing else, and never held anything else.
FilesAreKnown ==
  /\ \A x \in Held(dir) : Known(x)
  /\ \A c \in Channels : \A x \in present[c] : Known(x)

\* What a channel is receiving is not in the directory, and never was.
UploadsAreNew ==
  \A c \in Channels : Busy(c) =>
    /\ Upload(c) \notin Held(dir)
    /\ \A d \in Channels : Upload(c) \notin present[d]

\* Who takes a name between its last lookup and the rename is newer than the upload.
NameStillFree ==
  \A c \in Channels :
    st[c] = "placing" /\ final[c] \in DOMAIN dir => dir[final[c]] \notin present[c]

FreeInv ==
  /\ TypeInv /\ BusyCounted
  /\ PartIntact /\ NoOrphanPart
  /\ FilesAreKnown /\ UploadsAreNew
  /\ NameStillFree /\ OldFilesKept

---------------------------------------------------------------------------
(* uniquePath returns a name that is free. *)

\* A set of natural numbers that is not empty has its minimum.
LEMMA MinIsLeast ==
  ASSUME NEW S \in SUBSET Nat, S # {}
  PROVE  Min(S) \in S /\ \A y \in S : Min(S) <= y
<1> DEFINE below(x) == 0..x
           R == StrictSubsetOrdering(Nat)
           T == {below(x) : x \in S}
<1>1. T \subseteq FiniteSubsetsOf(Nat) /\ T # {}
  <2>1. \A x \in S : x \in Int /\ 0 \in Int /\ below(x) \subseteq Nat
    OBVIOUS
  <2>2. \A x \in S : IsFiniteSet(below(x))
    BY <2>1, FS_Interval
  <2> HIDE DEF below
  <2>3. QED
    BY <2>1, <2>2 DEF FiniteSubsetsOf
<1>2. PICK x \in S : \A y \in S : <<below(y), below(x)>> \notin R
  <2> HIDE DEF R
  <2>1. \E t \in T : \A u \in T : ~(<<u, t>> \in R)
    <3> HIDE DEF T
    <3> QED BY <1>1, FS_StrictSubsetOrderingWellFounded, WFMin DEF R
  <2>2. QED
    BY <2>1
<1>3. \A y \in S : x =< y
  <2> SUFFICES ASSUME NEW y \in S, y < x PROVE FALSE
    OBVIOUS
  <2>1. below(y) \subseteq below(x) /\ below(y) # below(x) /\ below(x) \in SUBSET Nat
    OBVIOUS
  <2>2. QED
    BY <1>2, <2>1 DEF StrictSubsetOrdering
<1>4. QED
  BY <1>3 DEF Min

\* Among the numbers uniquePath tries, one gives a free name.
LEMMA SomeNumberFree ==
  ASSUME IsFiniteSet(DOMAIN dir), NEW n \in Names
  PROVE  \E i \in 2..Cardinality(DOMAIN dir) + 2 : Append(n, i) \notin DOMAIN dir
<1> DEFINE C == Cardinality(DOMAIN dir)
           f == [i \in 2..C + 2 |-> Append(n, i)]
<1>1. C \in Nat
  BY FS_CardinalityType
<1>2. IsFiniteSet(2..C + 2) /\ Cardinality(2..C + 2) = C + 1
  BY <1>1, FS_Interval
<1>3. SUFFICES ASSUME \A i \in 2..C + 2 : Append(n, i) \in DOMAIN dir PROVE FALSE
  OBVIOUS
<1>4. f \in [2..C + 2 -> DOMAIN dir]
  BY <1>3
<1>5. \E x, y \in 2..C + 2 : x # y /\ f[x] = f[y]
  <2>1. C < Cardinality(2..C + 2)
    BY <1>1, <1>2
  <2> HIDE DEF f
  <2>2. QED
    BY <1>2, <1>4, <2>1, FS_PigeonHole
<1>6. \A x, y \in 2..C + 2 : Append(n, x) = Append(n, y) => x = y
  BY DEF Names
<1>7. QED
  BY <1>5, <1>6

\* uniquePath returns a name, and one that is free.
LEMMA UniquePathIsFree ==
  ASSUME IsFiniteSet(DOMAIN dir), NEW n \in Names
  PROVE  UniquePath(n) \in Names /\ UniquePath(n) \notin DOMAIN dir
<1> DEFINE S == {i \in 2..Cardinality(DOMAIN dir) + 2 : Append(n, i) \notin DOMAIN dir}
<1>1. CASE n \notin DOMAIN dir
  BY <1>1 DEF UniquePath
<1>2. CASE n \in DOMAIN dir
  <2>1. S # {} /\ S \subseteq Nat
    BY SomeNumberFree, FS_CardinalityType
  <2>2. Min(S) \in S
    <3> HIDE DEF S
    <3> QED BY <2>1, MinIsLeast
  <2>3. Min(S) \in Nat \ {0, 1} /\ Append(n, Min(S)) \notin DOMAIN dir
    BY <2>2, FS_CardinalityType
  <2>4. UniquePath(n) = Append(n, Min(S))
    BY <1>2 DEF UniquePath
  <2>5. QED
    <3> HIDE DEF S
    <3> QED BY <2>3, <2>4 DEF Names
<1>3. QED
  BY <1>1, <1>2

---------------------------------------------------------------------------
(* A file more, and a file less, in a directory. *)

LEMMA PutFacts ==
  ASSUME NEW d, NEW n, NEW x
  PROVE  /\ DOMAIN Put(d, n, x) = DOMAIN d \cup {n}
         /\ Put(d, n, x)[n] = x
         /\ \A m \in DOMAIN d : m # n => Put(d, n, x)[m] = d[m]
         /\ Held(Put(d, n, x)) \subseteq Held(d) \cup {x}
  BY DEF Put, Held

LEMMA DropFacts ==
  ASSUME NEW d, NEW n
  PROVE  /\ DOMAIN Drop(d, n) = DOMAIN d \ {n}
         /\ \A m \in DOMAIN d : m # n => Drop(d, n)[m] = d[m]
         /\ Held(Drop(d, n)) \subseteq Held(d)
  BY DEF Drop, Held

LEMMA NamesAreNames == \A n \in Names : IsName(n)
  BY DEF Names, IsName

LEMMA BothFiles ==
  ASSUME NEW d, Files(d), DOMAIN d \subseteq Names
  PROVE  /\ \A n \in Names, x \in Contents :
              Files(Put(d, n, x)) /\ DOMAIN Put(d, n, x) \subseteq Names
         /\ \A n : Files(Drop(d, n)) /\ DOMAIN Drop(d, n) \subseteq Names
<1>1. ASSUME NEW n \in Names, NEW x \in Contents
      PROVE  Files(Put(d, n, x)) /\ DOMAIN Put(d, n, x) \subseteq Names
  <2>1. DOMAIN Put(d, n, x) \subseteq Names /\ Held(Put(d, n, x)) \subseteq Contents
    <3>1. DOMAIN Put(d, n, x) = DOMAIN d \cup {n} /\ Held(Put(d, n, x)) \subseteq Held(d) \cup {x}
      BY PutFacts, Zenon
    <3>2. QED
      BY <3>1 DEF Files
  <2>2. QED
    BY <2>1, NamesAreNames DEF Files
<1>2. ASSUME NEW n
      PROVE  Files(Drop(d, n)) /\ DOMAIN Drop(d, n) \subseteq Names
  <2>1. DOMAIN Drop(d, n) \subseteq Names /\ Held(Drop(d, n)) \subseteq Contents
    BY DropFacts DEF Files
  <2>2. QED
    BY <2>1, NamesAreNames DEF Files
<1>3. QED
  BY <1>1, <1>2

LEMMA UploadIsContents ==
  ASSUME TypeInv, BusyCounted, NEW c \in Channels, Busy(c)
  PROVE  Upload(c) \in Contents
  BY DEF BusyCounted, Upload, Contents

---------------------------------------------------------------------------
(* The types. *)

LEMMA TypeStep == FreeInv /\ [Next]_vars => TypeInv' /\ BusyCounted'
<1> SUFFICES ASSUME FreeInv, [Next]_vars PROVE TypeInv' /\ BusyCounted'
  OBVIOUS
<1> DEFINE Goal == (TypeInv /\ BusyCounted)'
<1> USE FileReceiveAssumption DEF FreeInv
<1>0. /\ \A c \in Channels : tmp[c] \in Names /\ final[c] \in Names
      /\ \A n \in Names : IsName(n)
  BY NamesAreNames DEF TypeInv
<1>1. ASSUME NEW c \in Channels, Header(c) PROVE Goal
  <2>1. <<>> \in Names
    BY DEF Names
  <2>2. UniquePath(<<>>) \in Names
    BY <2>1, UniquePathIsFree DEF TypeInv
  <2>3. QED
    <3>1. count[c] + 1 \in 1..MaxFiles /\ count' = [count EXCEPT ![c] = @ + 1]
      BY <1>1 DEF Header, TypeInv, TypeOK
    <3>2. CASE UNCHANGED <<st, tmp, final>>
      BY <1>1, <1>0, <3>1, <3>2 DEF Header, TypeInv, TypeOK, BusyCounted, Busy, Saving, histVars
    <3>3. CASE /\ Go(c, "idle", "named")
               /\ final' = [final EXCEPT ![c] = UniquePath(<<>>)]
               /\ tmp' = [tmp EXCEPT ![c] = UniquePath(<<>>)]
      <4>1. TypeInv'
        BY <1>1, <1>0, <2>2, <3>1, <3>3 DEF Header, Go, TypeInv, TypeOK, histVars
      <4>2. BusyCounted'
        BY <1>1, <3>1, <3>3 DEF Header, Go, TypeInv, TypeOK, BusyCounted, Busy, Saving
      <4>3. QED
        BY <4>1, <4>2
    <3>4. QED
      BY <1>1, <3>2, <3>3 DEF Header
<1>2. ASSUME NEW c \in Channels, OpenPart(c) PROVE Goal
  <2>1. Busy(c)
    BY <1>2 DEF OpenPart, Go, Busy
  <2>2. Upload(c) \in Contents
    BY <2>1, UploadIsContents
  <2>3. Files(parts)' /\ (DOMAIN parts \subseteq Names)'
    BY <1>0, <1>2, <2>2, BothFiles DEF OpenPart, TypeInv, TypeOK
  <2>4. QED
    BY <1>0, <1>2, <2>3 DEF OpenPart, Go, TypeInv, TypeOK, BusyCounted, Busy, Saving, histVars
<1>3. ASSUME NEW c \in Channels, Fail(c) PROVE Goal
  <2>1. Files(parts)' /\ (DOMAIN parts \subseteq Names)'
    BY <1>3, BothFiles DEF Fail, TypeInv, TypeOK
  <2>2. QED
    BY <1>0, <1>3, <2>1 DEF Fail, Go, TypeInv, TypeOK, BusyCounted, Busy, Saving, histVars
<1>4. ASSUME NEW c \in Channels, End(c) PROVE Goal
  BY <1>0, <1>4 DEF End, Go, TypeInv, TypeOK, Files, BusyCounted, Busy, Saving
<1>5. ASSUME NEW c \in Channels, Relook(c) PROVE Goal
  <2>1. UniquePath(final[c]) \in Names
    BY <1>0, UniquePathIsFree DEF TypeInv
  <2>2. QED
    BY <1>0, <1>5, <2>1 DEF Relook, Go, TypeInv, TypeOK, BusyCounted, Busy, Saving, histVars
<1>6. ASSUME NEW c \in Channels, Rename(c) PROVE Goal
  <2>1. Saving(c) /\ Busy(c)
    BY <1>6 DEF Rename, Go, Saving, Busy
  <2>2. parts[tmp[c]] = Upload(c) /\ Upload(c) \in Contents
    BY <2>1, UploadIsContents DEF PartIntact, Saving
  <2>3. Files(parts)' /\ (DOMAIN parts \subseteq Names)'
    BY <1>6, BothFiles DEF Rename, TypeInv, TypeOK
  <2>4. /\ Files(dir)' /\ (DOMAIN dir \subseteq Names)' /\ IsFiniteSet(DOMAIN dir)'
        /\ (lost \subseteq Contents)'
    <3>1. CASE dir' = Put(dir, final[c], parts[tmp[c]]) /\
               lost' = lost \cup ({dir[n] : n \in DOMAIN dir \cap {final[c]}} \cap present[c])
      <4>1. Files(dir)' /\ (DOMAIN dir \subseteq Names)'
        BY <1>0, <2>2, <3>1, BothFiles DEF TypeInv, TypeOK
      <4>2. IsFiniteSet(DOMAIN dir)'
        <5>1. DOMAIN dir' = DOMAIN dir \cup {final[c]}
          BY <3>1 DEF Put
        <5>2. QED
          BY <5>1, FS_AddElement DEF TypeInv
      <4>3. (lost \subseteq Contents)'
        BY <3>1 DEF TypeInv, TypeOK
      <4>4. QED
        BY <4>1, <4>2, <4>3
    <3>2. CASE UNCHANGED <<dir, lost>>
      BY <3>2 DEF TypeInv, TypeOK, Files, Held
    <3>3. QED
      BY <1>6, <3>1, <3>2 DEF Rename
  <2>5. QED
    BY <1>0, <1>6, <2>3, <2>4 DEF Rename, Go, TypeInv, TypeOK, BusyCounted, Busy, Saving
<1>7. ASSUME NEW c \in Channels, Close(c) PROVE Goal
  <2>1. Files(parts)' /\ (DOMAIN parts \subseteq Names)'
    BY <1>7, BothFiles DEF Close, TypeInv, TypeOK
  <2>2. QED
    BY <1>0, <1>7, <2>1 DEF Close, TypeInv, TypeOK, BusyCounted, Busy, Saving, histVars
<1>8. ASSUME NEW n \in Names, DeskCreates(n) PROVE Goal
  <2>1. n \in Names /\ <<"desk", own + 1>> \in Contents /\ own + 1 \in 0..MaxOwn
    <3>1. own + 1 \in 1..MaxOwn
      BY <1>8 DEF DeskCreates, TypeInv, TypeOK
    <3>2. QED
      BY <3>1 DEF Contents
  <2>2. Files(dir)' /\ (DOMAIN dir \subseteq Names)'
    BY <1>8, <2>1, BothFiles DEF DeskCreates, TypeInv, TypeOK
  <2>3. IsFiniteSet(DOMAIN dir)'
    <3>1. DOMAIN dir' = DOMAIN dir \cup {n}
      BY <1>8 DEF DeskCreates, Put
    <3>2. QED
      BY <3>1, FS_AddElement DEF TypeInv
  <2>4. QED
    BY <1>0, <1>8, <2>1, <2>2, <2>3
    DEF DeskCreates, TypeInv, TypeOK, BusyCounted, Busy, Saving, histVars, upVars
<1>9. ASSUME NEW n \in DOMAIN dir, DeskDeletes(n) PROVE Goal
  <2>1. Files(dir)' /\ (DOMAIN dir \subseteq Names)'
    BY <1>9, BothFiles DEF DeskDeletes, TypeInv, TypeOK
  <2>2. IsFiniteSet(DOMAIN dir)'
    <3>1. DOMAIN dir' = DOMAIN dir \ {n}
      BY <1>9, DropFacts DEF DeskDeletes
    <3>2. QED
      BY <3>1, FS_RemoveElement DEF TypeInv
  <2>3. QED
    BY <1>0, <1>9, <2>1, <2>2
    DEF DeskDeletes, TypeInv, TypeOK, BusyCounted, Busy, Saving, histVars, upVars
<1>10. CASE Crash
  BY <1>0, <1>10 DEF Crash, TypeInv, TypeOK, BusyCounted, Busy, Saving, histVars
<1>11. CASE UNCHANGED vars
  BY <1>0, <1>11 DEF vars, upVars, histVars, TypeInv, TypeOK, BusyCounted, Busy, Saving
<1>12. \A n \in {<<>>, <<2>>} : n \in Names
  <2>1. <<>> \in Names /\ <<2>> \in Names
    BY DEF Names
  <2>2. QED
    BY <2>1
<1>13. QED
  BY <1>1, <1>2, <1>3, <1>4, <1>5, <1>6, <1>7, <1>8, <1>9, <1>10, <1>11, <1>12 DEF Next, Handler

---------------------------------------------------------------------------
(* The temporary files. *)

LEMMA OwnPart ==
  ASSUME PartIntact, NEW c \in Channels, NEW d \in Channels,
         Saving(c), Saving(d), tmp[c] = tmp[d]
  PROVE  c = d
  BY DEF PartIntact, Saving, Upload

LEMMA PartsStep == FreeInv /\ [Next]_vars => PartIntact' /\ NoOrphanPart'
<1> SUFFICES ASSUME FreeInv, [Next]_vars PROVE PartIntact' /\ NoOrphanPart'
  OBVIOUS
<1> DEFINE Goal == (PartIntact /\ NoOrphanPart)'
<1> USE FileReceiveAssumption DEF FreeInv
<1>0. /\ st \in [Channels -> {"idle", "named", "saving", "closed", "placing", "gone"}]
      /\ tmp \in [Channels -> Names] /\ count \in [Channels -> 0..MaxFiles]
      /\ crashes \in Nat
  BY DEF TypeInv, TypeOK
\* A channel that is not saving, before and after, disturbs nothing.
<1>a. ASSUME NEW c \in Channels, ~Saving(c), ~Saving(c)', UNCHANGED <<parts, crashes>>,
             \A d \in Channels \ {c} :
               st'[d] = st[d] /\ tmp'[d] = tmp[d] /\ count'[d] = count[d]
      PROVE  Goal
  BY <1>0, <1>a DEF PartIntact, NoOrphanPart, Saving, Upload
\* A channel that goes on saving keeps its file.
<1>b. ASSUME NEW c \in Channels, Saving(c), Saving(c)', UNCHANGED <<parts, crashes, tmp, count>>,
             \A d \in Channels \ {c} : st'[d] = st[d]
      PROVE  Goal
  BY <1>0, <1>b DEF PartIntact, NoOrphanPart, Saving, Upload
\* A channel that stops saving removes its file, and no other one's.
<1>c. ASSUME NEW c \in Channels, Saving(c), ~Saving(c)', parts' = Drop(parts, tmp[c]),
             UNCHANGED <<crashes, tmp, count>>, \A d \in Channels \ {c} : st'[d] = st[d]
      PROVE  Goal
  <2>1. DOMAIN parts' = DOMAIN parts \ {tmp[c]}
        /\ \A n \in DOMAIN parts \ {tmp[c]} : parts'[n] = parts[n]
    BY <1>c DEF Drop
  <2>2. \A d \in Channels : Saving(d)' => d # c /\ Saving(d)
    BY <1>c DEF Saving
  <2>3. \A d \in Channels : Saving(d)' => tmp[d] # tmp[c]
    BY <1>c, <2>2, OwnPart
  <2>4. PartIntact'
    BY <1>c, <2>1, <2>2, <2>3 DEF PartIntact, Saving, Upload
  <2>5. NoOrphanPart'
    BY <1>c, <2>1 DEF NoOrphanPart, Saving
  <2>6. QED
    BY <2>4, <2>5
<1>1. ASSUME NEW c \in Channels, Header(c) PROVE Goal
  <2>1. ~Saving(c) /\ ~Saving(c)'
    BY <1>0, <1>1 DEF Header, Go, Saving
  <2>2. QED
    BY <1>0, <1>1, <1>a, <2>1 DEF Header, Go
<1>2. ASSUME NEW c \in Channels, OpenPart(c) PROVE Goal
  <2>1. CASE tmp[c] \in DOMAIN parts
    BY <1>0, <1>2, <1>a, <2>1 DEF OpenPart, Go, Saving
  <2>2. CASE tmp[c] \notin DOMAIN parts
    <3>1. /\ st[c] = "named" /\ st' = [st EXCEPT ![c] = "saving"]
          /\ parts' = Put(parts, tmp[c], Upload(c))
          /\ UNCHANGED <<tmp, count, crashes>>
      BY <1>2, <2>2 DEF OpenPart, Go
    <3>2. /\ DOMAIN parts' = DOMAIN parts \cup {tmp[c]}
          /\ parts'[tmp[c]] = Upload(c)
          /\ \A n \in DOMAIN parts : parts'[n] = parts[n]
      BY <2>2, <3>1 DEF Put
    <3>3. PartIntact'
      BY <1>0, <3>1, <3>2 DEF PartIntact, Upload
    <3>4. NoOrphanPart'
      BY <1>0, <3>1, <3>2 DEF NoOrphanPart
    <3>5. QED
      BY <3>3, <3>4
  <2>3. QED
    BY <2>1, <2>2
<1>3. ASSUME NEW c \in Channels, Fail(c) PROVE Goal
  BY <1>0, <1>3, <1>c DEF Fail, Go, Saving
<1>4. ASSUME NEW c \in Channels, End(c) PROVE Goal
  BY <1>0, <1>4, <1>b DEF End, Go, Saving
<1>5. ASSUME NEW c \in Channels, Relook(c) PROVE Goal
  BY <1>0, <1>5, <1>b DEF Relook, Go, Saving
<1>6. ASSUME NEW c \in Channels, Rename(c) PROVE Goal
  BY <1>0, <1>6, <1>c DEF Rename, Go, Saving
<1>7. ASSUME NEW c \in Channels, Close(c) PROVE Goal
  <2>1. CASE st[c] = "saving"
    BY <1>0, <1>7, <1>c, <2>1 DEF Close, Saving
  <2>2. CASE st[c] = "idle"
    BY <1>0, <1>7, <1>a, <2>2 DEF Close, Saving
  <2>3. QED
    BY <1>7, <2>1, <2>2 DEF Close
<1>8. ASSUME UNCHANGED <<parts, upVars, crashes>> PROVE Goal
  BY <1>8 DEF upVars, PartIntact, NoOrphanPart, Upload
<1>9. CASE Crash
  BY <1>0, <1>9 DEF Crash, PartIntact, NoOrphanPart
<1>10. QED
  <2>1. ASSUME NEW n, DeskCreates(n) \/ DeskDeletes(n) PROVE Goal
    BY <1>8, <2>1 DEF DeskCreates, DeskDeletes
  <2>2. CASE UNCHANGED vars
    BY <1>8, <2>2 DEF vars
  <2>3. QED
    BY <1>1, <1>2, <1>3, <1>4, <1>5, <1>6, <1>7, <1>9, <2>1, <2>2 DEF Next, Handler

---------------------------------------------------------------------------
(* What is in the directory, and what is not yet. *)

\* A channel announces contents of its own only, and the desk writes none of theirs.
LEMMA UploadsDiffer ==
  /\ \A c, d \in Channels : c # d => Upload(c) # Upload(d)
  /\ \A c \in Channels : \A k : Upload(c) # <<"desk", k>>
  BY FileReceiveAssumption DEF Upload

\* What was known stays known.
LEMMA KnownStays ==
  ASSUME TypeInv, [Next]_vars
  PROVE  /\ \A c \in Channels : count[c] \in Nat /\ count'[c] \in Nat /\ count[c] <= count'[c]
         /\ own \in Nat /\ own' \in Nat /\ own <= own'
         /\ \A x : Known(x) => Known(x)'
<1> USE FileReceiveAssumption
<1>1. count \in [Channels -> Nat] /\ own \in Nat
  BY DEF TypeInv, TypeOK
<1>2. /\ \A c \in Channels : count'[c] \in {count[c], count[c] + 1}
      /\ own' \in {own, own + 1}
  BY <1>1 DEF Next, Handler, Header, OpenPart, Fail, End, Relook, Rename, Close,
              DeskCreates, DeskDeletes, Crash, vars, upVars
<1>3. /\ \A c \in Channels : count[c] \in Nat /\ count'[c] \in Nat /\ count[c] <= count'[c]
      /\ own \in Nat /\ own' \in Nat /\ own <= own'
  BY <1>1, <1>2
<1>4. ASSUME NEW x, Known(x) PROVE Known(x)'
  <2>1. CASE \E c \in Channels : \E k \in 1..count[c] : x = <<c, k>>
    <3>1. PICK c \in Channels : \E k \in 1..count[c] : x = <<c, k>>
      BY <2>1
    <3>2. \E k \in 1..count'[c] : x = <<c, k>>
      BY <1>3, <3>1
    <3>3. QED
      BY <3>2 DEF Known
  <2>2. CASE \E k \in 1..own : x = <<"desk", k>>
    <3>1. \E k \in 1..own' : x = <<"desk", k>>
      BY <1>3, <2>2
    <3>2. QED
      BY <3>1 DEF Known
  <2>3. QED
    BY <1>4, <2>1, <2>2 DEF Known
<1>5. QED
  BY <1>3, <1>4

LEMMA NewStep == FreeInv /\ [Next]_vars => FilesAreKnown' /\ UploadsAreNew'
<1> SUFFICES ASSUME FreeInv, [Next]_vars PROVE FilesAreKnown' /\ UploadsAreNew'
  OBVIOUS
<1> DEFINE Goal == (FilesAreKnown /\ UploadsAreNew)'
<1> USE FileReceiveAssumption DEF FreeInv
<1>0. /\ st \in [Channels -> {"idle", "named", "saving", "closed", "placing", "gone"}]
      /\ count \in [Channels -> Nat] /\ own \in Nat
      /\ DOMAIN present = Channels
  BY DEF TypeInv, TypeOK
<1>k. \A x : Known(x) => Known(x)'
  BY KnownStays
\* Nothing new in the directory, and nobody busy who was not.
<1>a. ASSUME Held(dir') \subseteq Held(dir),
             \A d \in Channels : present'[d] \subseteq present[d] \cup Held(dir),
             \A d \in Channels : Busy(d)' => Busy(d) /\ count'[d] = count[d]
      PROVE  Goal
  <2>1. FilesAreKnown'
    BY <1>a, <1>k DEF FilesAreKnown
  <2>2. \A d \in Channels : Busy(d)' => Upload(d)' = Upload(d)
    BY <1>a DEF Upload
  <2>3. UploadsAreNew'
    BY <1>a, <2>2 DEF UploadsAreNew
  <2>4. QED
    BY <2>1, <2>3
<1>1. ASSUME NEW c \in Channels, Header(c) PROVE Goal
  <2>1. /\ UNCHANGED <<dir, present>> /\ count'[c] = count[c] + 1
        /\ \A d \in Channels \ {c} : count'[d] = count[d] /\ (Busy(d)' => Busy(d))
    BY <1>0, <1>1 DEF Header, Go, Busy, Saving, histVars
  <2>2. FilesAreKnown'
    BY <1>k, <2>1 DEF FilesAreKnown
  <2>3. ~Known(Upload(c)')
    BY <1>0, <2>1 DEF Known, Upload
  <2>4. \A d \in Channels \ {c} : Busy(d)' => Busy(d) /\ Upload(d)' = Upload(d)
    BY <2>1 DEF Upload
  <2>5. UploadsAreNew'
    <3>1. Upload(c)' \notin Held(dir) /\ \A d \in Channels : Upload(c)' \notin present[d]
      BY <2>3 DEF FilesAreKnown
    <3>2. QED
      BY <2>1, <2>4, <3>1 DEF UploadsAreNew
  <2>6. QED
    BY <2>2, <2>5
<1>2. ASSUME NEW c \in Channels, OpenPart(c) \/ Fail(c) \/ Relook(c) \/ Close(c) PROVE Goal
  <2>1. UNCHANGED <<dir, present, count>>
    BY <1>2 DEF OpenPart, Fail, Relook, Close, histVars
  <2>2. \A d \in Channels : Busy(d)' => Busy(d)
    BY <1>0, <1>2 DEF OpenPart, Fail, Relook, Close, Go, Busy, Saving
  <2>3. QED
    BY <1>a, <2>1, <2>2
<1>3. ASSUME NEW c \in Channels, End(c) PROVE Goal
  <2>1. UNCHANGED <<dir, count>> /\ present' = [present EXCEPT ![c] = Held(dir)]
    BY <1>3 DEF End
  <2>2. \A d \in Channels : Busy(d)' => Busy(d)
    BY <1>0, <1>3 DEF End, Go, Busy, Saving
  <2>3. QED
    BY <1>0, <1>a, <2>1, <2>2
<1>4. ASSUME NEW c \in Channels, Rename(c) PROVE Goal
  <2>1. /\ Saving(c) /\ Busy(c) /\ ~Busy(c)' /\ UNCHANGED count
        /\ \A d \in Channels \ {c} : Busy(d)' => Busy(d)
        /\ \A d \in Channels : present'[d] \subseteq present[d]
    BY <1>0, <1>4 DEF Rename, Go, Busy, Saving
  <2>2. CASE dir' = Put(dir, final[c], parts[tmp[c]])
    <3>1. parts[tmp[c]] = Upload(c)
      BY <2>1 DEF PartIntact, Saving
    <3>2. Held(dir') \subseteq Held(dir) \cup {Upload(c)}
      BY <2>2, <3>1 DEF Put, Held
    <3>3. Known(Upload(c))
      <4>1. count[c] \in 1..count[c]
        BY <1>0, <2>1 DEF BusyCounted
      <4>2. QED
        BY <4>1 DEF Known, Upload
    <3>4. FilesAreKnown'
      BY <1>k, <2>1, <3>2, <3>3 DEF FilesAreKnown
    <3>5. \A d \in Channels : Busy(d)' =>
            Busy(d) /\ Upload(d)' = Upload(d) /\ Upload(d) # Upload(c)
      BY <2>1, UploadsDiffer DEF Upload
    <3>6. UploadsAreNew'
      BY <2>1, <3>2, <3>5 DEF UploadsAreNew
    <3>7. QED
      BY <3>4, <3>6
  <2>3. CASE UNCHANGED dir
    BY <1>a, <2>1, <2>3
  <2>4. QED
    BY <1>4, <2>2, <2>3 DEF Rename
<1>5. ASSUME NEW n, DeskCreates(n) PROVE Goal
  <2>0. PICK x : x = <<"desk", own + 1>>
    OBVIOUS
  <2>1. /\ UNCHANGED <<st, count, present>> /\ own' = own + 1
        /\ Held(dir') \subseteq Held(dir) \cup {x}
    BY <1>5, <2>0 DEF DeskCreates, upVars, histVars, Put, Held
  <2>2. Known(x)'
    BY <1>0, <2>0, <2>1 DEF Known
  <2>3. FilesAreKnown'
    BY <1>k, <2>1, <2>2 DEF FilesAreKnown
  <2>4. \A d \in Channels : Busy(d)' =>
          Busy(d) /\ Upload(d)' = Upload(d) /\ Upload(d) # x
    BY <2>0, <2>1, UploadsDiffer DEF Upload, Busy, Saving
  <2>5. UploadsAreNew'
    BY <2>1, <2>4 DEF UploadsAreNew
  <2>6. QED
    BY <2>3, <2>5
<1>6. ASSUME NEW n, DeskDeletes(n) PROVE Goal
  <2>1. UNCHANGED <<st, count, present>> /\ Held(dir') \subseteq Held(dir)
    BY <1>6 DEF DeskDeletes, upVars, histVars, Drop, Held
  <2>2. QED
    BY <1>a, <2>1 DEF Busy, Saving
<1>7. CASE Crash
  BY <1>a, <1>7 DEF Crash, histVars, Busy, Saving
<1>8. CASE UNCHANGED vars
  BY <1>a, <1>8 DEF vars, upVars, histVars, Busy, Saving
<1>9. QED
  BY <1>1, <1>2, <1>3, <1>4, <1>5, <1>6, <1>7, <1>8 DEF Next, Handler

---------------------------------------------------------------------------
(* The name a finished file takes. *)

LEMMA NameStep == FreeInv /\ [Next]_vars => NameStillFree' /\ OldFilesKept'
<1> SUFFICES ASSUME FreeInv, [Next]_vars PROVE NameStillFree' /\ OldFilesKept'
  OBVIOUS
<1> DEFINE Goal == (NameStillFree /\ OldFilesKept)'
<1> USE FileReceiveAssumption DEF FreeInv
<1>0. /\ st \in [Channels -> {"idle", "named", "saving", "closed", "placing", "gone"}]
      /\ final \in [Channels -> Names] /\ own \in Nat
      /\ DOMAIN present = Channels
  BY DEF TypeInv, TypeOK
\* Nobody begins to place a file, and the directory gains nothing.
<1>a. ASSUME DOMAIN dir' \subseteq DOMAIN dir, \A n \in DOMAIN dir' : dir'[n] = dir[n],
             \A d \in Channels : st'[d] = "placing" =>
               st[d] = "placing" /\ final'[d] = final[d] /\ present'[d] = present[d],
             UNCHANGED lost
      PROVE  Goal
  BY <1>a DEF NameStillFree, OldFilesKept
<1>1. ASSUME NEW c \in Channels, Header(c) \/ OpenPart(c) \/ Fail(c) \/ End(c) \/ Close(c)
      PROVE  Goal
  <2>1. UNCHANGED <<dir, lost>>
    BY <1>1 DEF Header, OpenPart, Fail, End, Close, histVars
  <2>2. \A d \in Channels : st'[d] = "placing" =>
          st[d] = "placing" /\ final'[d] = final[d] /\ present'[d] = present[d]
    BY <1>0, <1>1 DEF Header, OpenPart, Fail, End, Close, Go, histVars
  <2>3. QED
    BY <1>a, <2>1, <2>2
<1>2. ASSUME NEW c \in Channels, Relook(c) PROVE Goal
  <2>1. UniquePath(final[c]) \notin DOMAIN dir
    BY <1>0, UniquePathIsFree DEF TypeInv
  <2>2. /\ final'[c] = UniquePath(final[c]) /\ UNCHANGED <<dir, present, lost>>
        /\ \A d \in Channels \ {c} : st'[d] = st[d] /\ final'[d] = final[d]
    BY <1>0, <1>2 DEF Relook, Go, histVars
  <2>3. QED
    BY <2>1, <2>2 DEF NameStillFree, OldFilesKept
<1>3. ASSUME NEW c \in Channels, Rename(c) PROVE Goal
  <2>1. /\ st[c] = "placing" /\ st'[c] = "idle" /\ UNCHANGED final
        /\ \A d \in Channels \ {c} : st'[d] = st[d] /\ present'[d] = present[d]
    BY <1>0, <1>3 DEF Rename, Go
  <2>2. CASE /\ dir' = Put(dir, final[c], parts[tmp[c]])
             /\ lost' = lost \cup ({dir[n] : n \in DOMAIN dir \cap {final[c]}} \cap present[c])
    <3>1. lost' = {}
      BY <2>1, <2>2 DEF NameStillFree, OldFilesKept
    <3>2. parts[tmp[c]] = Upload(c) /\ \A d \in Channels : Upload(c) \notin present[d]
      BY <2>1 DEF PartIntact, UploadsAreNew, Busy, Saving
    <3>3. DOMAIN dir' = DOMAIN dir \cup {final[c]}
          /\ \A n \in DOMAIN dir' : dir'[n] = IF n = final[c] THEN Upload(c) ELSE dir[n]
      BY <2>2, <3>2 DEF Put
    <3>4. NameStillFree'
      BY <2>1, <3>2, <3>3 DEF NameStillFree
    <3>5. QED
      BY <3>1, <3>4 DEF OldFilesKept
  <2>3. CASE UNCHANGED <<dir, lost>>
    BY <1>a, <2>1, <2>3
  <2>4. QED
    BY <1>3, <2>2, <2>3 DEF Rename
<1>4. ASSUME NEW n, DeskCreates(n) PROVE Goal
  <2> DEFINE x == <<"desk", own + 1>>
  <2>1. /\ UNCHANGED <<st, final, present, lost>> /\ n \notin DOMAIN dir
        /\ DOMAIN dir' = DOMAIN dir \cup {n}
        /\ \A m \in DOMAIN dir' : dir'[m] = IF m = n THEN x ELSE dir[m]
    BY <1>4 DEF DeskCreates, upVars, histVars, Put
  <2>2. \A c \in Channels : x \notin present[c]
    <3>1. ~Known(x)
      BY <1>0 DEF Known
    <3>2. QED
      BY <3>1 DEF FilesAreKnown
  <2>3. QED
    <3> HIDE DEF x
    <3> QED BY <2>1, <2>2 DEF NameStillFree, OldFilesKept
<1>5. ASSUME NEW n, DeskDeletes(n) PROVE Goal
  BY <1>5, <1>a DEF DeskDeletes, Drop, upVars, histVars
<1>6. CASE Crash
  BY <1>6, <1>a DEF Crash, histVars
<1>7. CASE UNCHANGED vars
  BY <1>7, <1>a DEF vars, upVars, histVars
<1>8. QED
  BY <1>1, <1>2, <1>3, <1>4, <1>5, <1>6, <1>7 DEF Next, Handler

---------------------------------------------------------------------------
(* The theorems. *)

LEMMA InitFree == Init => FreeInv
<1> SUFFICES ASSUME Init PROVE FreeInv
  OBVIOUS
<1> USE FileReceiveAssumption DEF Init
<1>1. DOMAIN dir = {} /\ DOMAIN parts = {} /\ Held(dir) = {} /\ Held(parts) = {}
  BY DEF Held
<1>2. <<>> \in Names /\ IsFiniteSet({})
  BY FS_EmptySet DEF Names
<1>3. TypeInv
  BY <1>1, <1>2, NamesAreNames DEF TypeInv, TypeOK, Files
<1>4. BusyCounted /\ PartIntact /\ NameStillFree /\ OldFilesKept
  BY DEF BusyCounted, PartIntact, NameStillFree, OldFilesKept, Busy, Saving
<1>5. NoOrphanPart /\ FilesAreKnown /\ UploadsAreNew
  BY <1>1 DEF NoOrphanPart, FilesAreKnown, UploadsAreNew, Busy, Saving
<1>6. QED
  BY <1>3, <1>4, <1>5 DEF FreeInv

LEMMA FreeAlways == Spec => []FreeInv
<1>1. FreeInv /\ [Next]_vars => FreeInv'
  BY TypeStep, PartsStep, NewStep, NameStep DEF FreeInv
<1>2. QED
  BY InitFree, <1>1, PTL DEF Spec

\* The variables keep their types (receiveFile, uniquePath).
THEOREM UploadsTypeCorrect == Spec => []TypeOK
<1>1. FreeInv => TypeOK
  BY DEF FreeInv, TypeInv
<1>2. QED
  BY FreeAlways, <1>1, PTL

\* A temporary file created with O_EXCL holds its upload's own data to the end,
\* however many channels save at once under one name.
THEOREM PartsIntact == Spec => []PartIntact
<1>1. FreeInv => PartIntact
  BY DEF FreeInv
<1>2. QED
  BY FreeAlways, <1>1, PTL

\* The error paths and OnClose remove every temporary file, while nc-host lives.
THEOREM NothingLeftBehind == Spec => []NoOrphanPart
<1>1. FreeInv => NoOrphanPart
  BY DEF FreeInv
<1>2. QED
  BY FreeAlways, <1>1, PTL

\* uniquePath just before os.Rename keeps every file that was there at the "end".
THEOREM OldFilesStay == Spec => []OldFilesKept
<1>1. FreeInv => OldFilesKept
  BY DEF FreeInv
<1>2. QED
  BY FreeAlways, <1>1, PTL
=============================================================================
