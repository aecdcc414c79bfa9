---------------------------- MODULE FileReceive ----------------------------
(***************************************************************************)
(* cmd/nc-host/files.go, receiveFile: devices drop files on the desk. Each *)
(* channel carries one file after another into the same directory, under a *)
(* temporary name until it is complete; the desk's own programs create and *)
(* delete files there too. A channel's handler holds its own lock only, so *)
(* looking for a free name and taking it are separate steps.               *)
(*                                                                         *)
(* All uploads here ask for the same name. A name is the sequence of the   *)
(* numbers uniquePath has added: <<>> is a.txt, <<2>> is "a (2).txt".      *)
(***************************************************************************)
EXTENDS Naturals, Sequences, FiniteSetsExt

CONSTANTS
  Channels,    \* data channels labelled "file"
  MaxFiles,    \* files a channel carries (bound)
  MaxOwn,      \* files the desk's programs create (bound)
  MaxCrashes   \* crashes of nc-host (bound)

ASSUME FileReceiveAssumption ==
  /\ IsFiniteSet(Channels) /\ "desk" \notin Channels
  /\ MaxFiles \in Nat /\ MaxOwn \in Nat /\ MaxCrashes \in Nat

VARIABLES
  dir,      \* what each name in the directory holds
  parts,    \* what each temporary file holds: ".<name>.part", by name
  st,       \* where each channel's handler stands
  tmp,      \* its temporary file, by name
  final,    \* the name it saves under
  count,    \* files a channel has announced so far
  own,      \* files the desk's programs have created
  crashes,  \* crashes so far
  present,  \* history: what the directory held when a file's "end" arrived
  lost      \* history: those of them that its rename overwrote

upVars   == <<st, tmp, final, count>>
histVars == <<present, lost>>
vars     == <<dir, parts, upVars, own, crashes, histVars>>

Init ==
  /\ dir = <<>>
  /\ parts = <<>>
  /\ st = [c \in Channels |-> "idle"]
  /\ tmp = [c \in Channels |-> <<>>]
  /\ final = [c \in Channels |-> <<>>]
  /\ count = [c \in Channels |-> 0]
  /\ own = 0
  /\ crashes = 0
  /\ present = [c \in Channels |-> {}]
  /\ lost = {}

\* A directory is a function from the names in use to what they hold.
Put(d, n, x) == [m \in DOMAIN d \cup {n} |-> IF m = n THEN x ELSE d[m]]
Drop(d, n)   == [m \in DOMAIN d \ {n} |-> d[m]]
Held(d)      == {d[m] : m \in DOMAIN d}

Upload(c) == <<c, count[c]>>

Go(c, from, to) == st[c] = from /\ st' = [st EXCEPT ![c] = to]

\* Mutant of UniquePath: the copies are numbered from 1.
UniquePathFromOne(n) ==
  IF n \notin DOMAIN dir THEN n
  ELSE Append(n, Min({i \in 1..Cardinality(DOMAIN dir) + 1 : Append(n, i) \notin DOMAIN dir}))

\* uniquePath: the name, or the first free "name (2)", "name (3)"...
UniquePath(n) ==
  IF n \notin DOMAIN dir THEN n
  ELSE Append(n, Min({i \in 2..Cardinality(DOMAIN dir) + 2 : Append(n, i) \notin DOMAIN dir}))

---------------------------------------------------------------------------
(* The handler of a channel. *)

\* A header announces a file. It may be refused: no room, a bad name, or a host
\* that takes no files. Else a name is looked for.
Header(c) ==
  /\ count[c] < MaxFiles
  /\ count' = [count EXCEPT ![c] = @ + 1]
  /\ \/ /\ st[c] = "idle"
        /\ UNCHANGED <<st, tmp, final>>
     \/ /\ Go(c, "idle", "named")
        /\ final' = [final EXCEPT ![c] = UniquePath(<<>>)]
        /\ tmp' = [tmp EXCEPT ![c] = UniquePath(<<>>)]
  /\ UNCHANGED <<dir, parts, own, crashes, histVars>>

\* Mutant of OpenPart: without O_EXCL.
OpenPartShared(c) ==
  /\ Go(c, "named", "saving")
  /\ parts' = Put(parts, tmp[c], Upload(c))
  /\ UNCHANGED <<dir, tmp, final, count, own, crashes, histVars>>

\* The temporary file is created with O_EXCL; the upload is refused if there is one.
OpenPart(c) ==
  /\ IF tmp[c] \in DOMAIN parts
     THEN Go(c, "named", "idle") /\ UNCHANGED parts
     ELSE Go(c, "named", "saving") /\ parts' = Put(parts, tmp[c], Upload(c))
  /\ UNCHANGED <<dir, tmp, final, count, own, crashes, histVars>>

\* Too much data, a failing write, or an "end" that comes too early: the
\* temporary file is removed and the error answered.
Fail(c) ==
  /\ Go(c, "saving", "idle")
  /\ parts' = Drop(parts, tmp[c])
  /\ UNCHANGED <<dir, tmp, final, count, own, crashes, histVars>>

\* The "end" of a complete file: it is closed.
End(c) ==
  /\ Go(c, "saving", "closed")
  /\ present' = [present EXCEPT ![c] = Held(dir)]
  /\ UNCHANGED <<dir, parts, tmp, final, count, own, crashes, lost>>

\* Mutant of Relook: the name chosen at the header is used.
RelookSkipped(c) ==
  /\ Go(c, "closed", "placing")
  /\ UNCHANGED <<dir, parts, tmp, final, count, own, crashes, histVars>>

\* A free name is looked for again, "in case the name was taken meanwhile".
Relook(c) ==
  /\ Go(c, "closed", "placing")
  /\ final' = [final EXCEPT ![c] = UniquePath(@)]
  /\ UNCHANGED <<dir, parts, tmp, count, own, crashes, histVars>>

\* os.Rename, which replaces a file of that name, and the answer "ok"; or the
\* rename fails and the temporary file is removed.
Rename(c) ==
  /\ Go(c, "placing", "idle")
  /\ parts' = Drop(parts, tmp[c])
  /\ \/ /\ dir' = Put(dir, final[c], parts[tmp[c]])
        /\ lost' = lost \cup ({dir[n] : n \in DOMAIN dir \cap {final[c]}} \cap present[c])
     \/ UNCHANGED <<dir, lost>>
  /\ present' = [present EXCEPT ![c] = {}]
  /\ UNCHANGED <<tmp, final, count, own, crashes>>

\* Mutant of Close: the unfinished file is left.
CloseLeaving(c) ==
  /\ st[c] \in {"idle", "saving"}
  /\ st' = [st EXCEPT ![c] = "gone"]
  /\ UNCHANGED <<dir, parts, tmp, final, count, own, crashes, histVars>>

\* OnClose: the device went away, perhaps in the middle of a file.
Close(c) ==
  /\ st[c] \in {"idle", "saving"}
  /\ st' = [st EXCEPT ![c] = "gone"]
  /\ parts' = IF st[c] = "saving" THEN Drop(parts, tmp[c]) ELSE parts
  /\ UNCHANGED <<dir, tmp, final, count, own, crashes, histVars>>

---------------------------------------------------------------------------
(* Everyone else. *)

\* A program of the desk creates a file under a name that is free, or deletes one.
DeskCreates(n) ==
  /\ own < MaxOwn
  /\ n \notin DOMAIN dir
  /\ own' = own + 1
  /\ dir' = Put(dir, n, <<"desk", own + 1>>)
  /\ UNCHANGED <<parts, upVars, crashes, histVars>>

DeskDeletes(n) ==
  /\ n \in DOMAIN dir
  /\ dir' = Drop(dir, n)
  /\ UNCHANGED <<parts, upVars, own, crashes, histVars>>

\* nc-host dies: its channels are gone, the files stay as they are.
Crash ==
  /\ crashes < MaxCrashes
  /\ crashes' = crashes + 1
  /\ st' = [c \in Channels |-> "idle"]
  /\ UNCHANGED <<dir, parts, tmp, final, count, own, histVars>>

Handler(c) ==
  Header(c) \/ OpenPart(c) \/ Fail(c) \/ End(c) \/ Relook(c) \/ Rename(c) \/ Close(c)

Next ==
  \/ \E c \in Channels : Handler(c)
  \/ \E n \in {<<>>, <<2>>} : DeskCreates(n)
  \/ \E n \in DOMAIN dir : DeskDeletes(n)
  \/ Crash

Spec == Init /\ [][Next]_vars

---------------------------------------------------------------------------
(* Properties. *)

IsName(n) == \A i \in DOMAIN n : n[i] \in Nat /\ n[i] >= 2
Contents  == (Channels \X (1..MaxFiles)) \cup ({"desk"} \X (1..MaxOwn))
Files(d)  == (\A n \in DOMAIN d : IsName(n)) /\ Held(d) \subseteq Contents

TypeOK ==
  /\ Files(dir) /\ Files(parts)
  /\ st \in [Channels -> {"idle", "named", "saving", "closed", "placing", "gone"}]
  /\ \A c \in Channels : IsName(tmp[c]) /\ IsName(final[c])
  /\ count \in [Channels -> 0..MaxFiles]
  /\ own \in 0..MaxOwn /\ crashes \in 0..MaxCrashes
  /\ present \in [Channels -> SUBSET Contents]
  /\ lost \subseteq Contents

\* Two uploads never write into the same temporary file: from its creation to
\* its renaming it holds the upload's own data, whatever other channels do.
PartIntact ==
  \A c \in Channels :
    st[c] \in {"saving", "closed", "placing"} =>
      tmp[c] \in DOMAIN parts /\ parts[tmp[c]] = Upload(c)

\* Nothing half-received stays behind: unless nc-host crashed, every temporary
\* file belongs to an upload under way.
NoOrphanPart ==
  crashes = 0 =>
    \A n \in DOMAIN parts :
      \E c \in Channels : st[c] \in {"saving", "closed", "placing"} /\ tmp[c] = n

\* An upload never overwrites a file that was there when its data was complete,
\* although the name it chose at its header may have been taken since.
OldFilesKept == lost = {}
=============================================================================
