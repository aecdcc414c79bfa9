---------------------- MODULE ClipboardPresenceProofs ----------------------
(***************************************************************************)
(* Proofs about two parts of nc-host that have to say of the desk what is  *)
(* so. Clipboard, for any texts and limits: a text that passes in pieces   *)
(* arrives whole and is where the keystroke looks for it, and nothing is   *)
(* told twice. Presence, with variables of its own, for any sessions, any  *)
(* limit and number of crashes: what the idle file says when nothing is    *)
(* under way is true, unless its last line was overtaken.                  *)
(***************************************************************************)
EXTENDS Clipboard, IdleFile, SequenceTheorems, TLAPS

---------------------------------------------------------------------------
(* Clipboard: the invariant. *)

\* What texts are made of. The device's own consist of what it pasted.
Parts     == (DOMAIN Pieces) \X Nat
PageParts == PageTexts \X Nat
First(n, j) == [i \in 1..j |-> <<n, i>>]

\* The texts there are: those the programs and the device have, and what the
\* handler took for one.
Texts == Whole \cup pasted

\* The messages to the host, and which may come after which.
ClipMsg(n, j) == [t |-> "clip", text |-> <<n, j>>, more |-> j < Pieces[n]]
KeyMsg(n)     == [t |-> "key", of |-> n]
GetMsg        == [t |-> "clipget"]
NowMsg(g)     == [t |-> "clipnow", by |-> g]

IsClip(m)  == \E n \in PageTexts : \E j \in 1..Pieces[n] : m = ClipMsg(n, j)
IsKey(m)   == \E n \in PageTexts : m = KeyMsg(n)
IsAsk(m)   == m = GetMsg \/ \E g \in Nows : m = NowMsg(g)
IsFirst(m) == IsAsk(m) \/ \E n \in PageTexts : m = ClipMsg(n, 1)

Succeeds(m, l) ==
  /\ \A n \in PageTexts : \A j \in 1..Pieces[n] :
       m = ClipMsg(n, j) => l = IF j < Pieces[n] THEN ClipMsg(n, j + 1) ELSE KeyMsg(n)
  /\ ~IsClip(m) => IsFirst(l)

\* The pieces of a text are on their way in order, its keystroke right after them.
InOrder(q) ==
  /\ \A i \in 1..Len(q) : IsClip(q[i]) \/ IsKey(q[i]) \/ IsAsk(q[i])
  /\ \A i \in 1..Len(q) : i < Len(q) => Succeeds(q[i], q[i + 1])
  /\ q # <<>> => ~IsClip(q[Len(q)])

\* What has been collected is what went before the message that comes next.
Collected ==
  /\ (up = <<>> \/ ~IsClip(Head(up))) => in = <<>>
  /\ up # <<>> => \A n \in PageTexts : \A j \in 1..Pieces[n] :
       /\ Head(up) = ClipMsg(n, 1) => in = <<>>
       /\ Head(up) = ClipMsg(n, j) /\ Pieces[n] <= MaxPieces => in = First(n, j - 1)

\* Before its keystroke a text is on the desk, or about to be written there.
OnDesk(n) ==
  \/ n \in spoilt
  \/ Text(n) \in pasted /\ (writing = Text(n) \/ (writing = None /\ desk = Text(n)))

KeyFinds ==
  up # <<>> => \A n \in PageTexts : Head(up) = KeyMsg(n) /\ Pieces[n] <= MaxPieces => OnDesk(n)

\* The state, in more detail than Clipboard's TypeOK.
Taken(t) == t \in Seq(PageParts) /\ t # None /\ Len(t) <= MaxPieces
Stages   == {"first", "looked", "wait", "none", "start", "read", "lock", "send", "done"}
Messages ==
  [t : {"clip"}, text : PageParts, more : BOOLEAN] \cup [t : {"key"}, of : PageTexts]
  \cup [t : {"clipget"}] \cup [t : {"clipnow"}, by : Nows]

TextsTyped ==
  /\ desk \in Texts \cup {None} /\ writing \in pasted \cup {None}
  /\ in \in Seq(PageParts) /\ Len(in) <= MaxPieces
  /\ \A t \in pasted : Taken(t)

UpTyped == up \in Seq(Messages) /\ InOrder(up)

RunStages == {"first", "looked", "wait", "read", "lock", "send"}
NowStages == {"none", "start", "read", "lock", "send", "done"}
StTyped ==
  /\ st \in [Senders -> Stages]
  /\ st["run"] \in RunStages /\ \A g \in Nows : st[g] \in NowStages

GoTyped == StTyped /\ text \in [Senders -> Seq(Parts)]

RestTyped ==
  /\ known \in BOOLEAN /\ poke \in BOOLEAN /\ waits \in BOOLEAN
  /\ asked \in BOOLEAN /\ raced \in BOOLEAN /\ again \in BOOLEAN
  /\ budget \in [todo : SUBSET (DeskTexts \cup PageTexts \cup Nows), gets : 0..MaxGets]

\* One sends at a time, and what the page has is the beginning of its text.
OneSends ==
  /\ out \in Senders \cup {"free"} /\ (out = "free" => clipIn = <<>>)
  /\ clipIn \in Seq(Parts)
  /\ \A g \in Senders :
       /\ out = g <=> st[g] = "send"
       /\ st[g] \in {"looked", "read"} => text[g] \in Texts \cup {None}
       /\ st[g] = "lock" => text[g] \in Texts
       /\ st[g] = "send" => text[g] # None /\ clipIn \o text[g] \in Texts
  /\ got \subseteq Texts

\* now has read a text when it has read anything.
NowReads == \A g \in Nows : st[g] = "read" => text[g] # None

\* A text that is still to be copied has not been seen.
Fresh ==
  \A n \in DeskTexts \cap budget.todo :
    /\ desk # Text(n) /\ Text(n) \notin told
    /\ st["run"] = "read" => text["run"] # Text(n)

Early ==
  /\ ~known => pasted = {}
  /\ st["run"] \in {"first", "looked"} => told = {}

\* Without a race, what both sides know is what is on the clipboard, or is about
\* to be, and the one who has read it read what is there or what is news.
Seen == told \cup pasted

InStep ==
  /\ ~again
  /\ writing # None => known /\ last = writing /\ \A g \in Senders : st[g] # "read"
  /\ \A g \in Senders : \A h \in Senders : st[g] = "read" /\ st[h] = "read" => g = h
  /\ writing = None /\ desk \in Seen => desk = last
  /\ st["run"] = "read" =>
       /\ text["run"] \in Seen => text["run"] = last
       /\ desk = text["run"] \/ desk \notin Seen \cup {text["run"]}
  /\ \A g \in Nows : st[g] = "read" => desk = text[g] \/ desk \notin Seen

ClipInv ==
  /\ TextsTyped /\ UpTyped /\ GoTyped /\ RestTyped
  /\ Collected /\ KeyFinds /\ PasteFindsText
  /\ OneSends /\ NowReads
  /\ Fresh /\ Early /\ (raced \/ InStep)

---------------------------------------------------------------------------
(* Clipboard: texts and messages. *)

LEMMA PieceCounts ==
  /\ DOMAIN Pieces = DeskTexts \cup PageTexts \cup {"old"}
  /\ \A n \in DOMAIN Pieces : Pieces[n] \in Nat /\ Pieces[n] >= 1
  /\ MaxPieces \in Nat /\ MaxGets \in Nat
  /\ DeskTexts \cap PageTexts = {} /\ "old" \notin DeskTexts \cup PageTexts
  /\ "run" \notin Nows /\ "free" \notin Senders /\ "run" \in Senders /\ Nows \subseteq Senders
<1>1. /\ Pieces \in [DeskTexts \cup PageTexts \cup {"old"} -> Nat \ {0}]
      /\ MaxPieces \in Nat /\ MaxGets \in Nat
      /\ DeskTexts \cap PageTexts = {} /\ "old" \notin DeskTexts \cup PageTexts
      /\ Nows \cap {"run", "free"} = {}
  BY ClipboardAssumption
<1>2. "run" \notin Nows /\ "free" \notin Senders /\ "run" \in Senders /\ Nows \subseteq Senders
  BY <1>1 DEF Senders
<1> QED BY <1>1, <1>2

\* The first pieces of a text, one by one, up to the whole of it.
LEMMA FirstPieces ==
  ASSUME NEW n \in DOMAIN Pieces, NEW j \in 1..Pieces[n]
  PROVE  /\ First(n, j) \in Seq(Parts) /\ Len(First(n, j)) = j
         /\ First(n, 0) = <<>>
         /\ Append(First(n, j - 1), <<n, j>>) = First(n, j)
         /\ Len(First(n, j - 1)) = j - 1
         /\ First(n, Pieces[n]) = Text(n)
<1>1. Pieces[n] \in Nat
  BY PieceCounts
<1>2. \A k \in Nat : k <= Pieces[n] => First(n, k) \in Seq(Parts) /\ Len(First(n, k)) = k
  BY DEF First, Parts
<1>3. First(n, 0) = <<>>
  BY <1>2, EmptySeq, <1>1
<1>4. j - 1 \in Nat /\ j - 1 <= Pieces[n] /\ j \in Nat /\ j <= Pieces[n]
  BY <1>1
<1>5. Append(First(n, j - 1), <<n, j>>) = First(n, j)
  <2>1. <<n, j>> \in Parts
    BY <1>4 DEF Parts
  <2>2. First(n, j - 1) \in Seq(Parts) /\ Len(First(n, j - 1)) = j - 1
    BY <1>2, <1>4
  <2>3. /\ Append(First(n, j - 1), <<n, j>>) \in Seq(Parts)
        /\ Len(Append(First(n, j - 1), <<n, j>>)) = j
        /\ \A i \in 1..j : Append(First(n, j - 1), <<n, j>>)[i] =
             IF i <= j - 1 THEN First(n, j - 1)[i] ELSE <<n, j>>
    BY <2>1, <2>2, <1>4, AppendProperties
  <2>4. \A i \in 1..j : Append(First(n, j - 1), <<n, j>>)[i] = First(n, j)[i]
    BY <2>3, <1>4 DEF First
  <2> QED BY <1>2, <1>4, <2>3, <2>4, SeqEqual
<1> QED BY <1>2, <1>3, <1>4, <1>5 DEF First, Text

LEMMA TextFacts ==
  /\ \A n \in DOMAIN Pieces : /\ Text(n) \in Seq(Parts) /\ Text(n) # None /\ Len(Text(n)) = Pieces[n]
                              /\ Text(n)[1] = <<n, 1>> /\ Text(n) \in Whole
  /\ \A n, k \in DOMAIN Pieces : Text(n) = Text(k) => n = k
  /\ \A t \in Whole : t \in Seq(Parts) /\ t # None
<1>1. ASSUME NEW n \in DOMAIN Pieces
      PROVE  /\ Text(n) \in Seq(Parts) /\ Text(n) # None /\ Len(Text(n)) = Pieces[n]
             /\ Text(n)[1] = <<n, 1>> /\ Text(n) \in Whole
  <2>1. Pieces[n] \in Nat /\ Pieces[n] >= 1
    BY PieceCounts
  <2>2. Text(n) \in Seq(Parts) /\ Len(Text(n)) = Pieces[n]
    BY <2>1 DEF Text, Parts
  <2>3. Text(n)[1] = <<n, 1>>
    BY <2>1 DEF Text
  <2> QED BY <2>1, <2>2, <2>3, EmptySeq DEF None, Whole
<1>2. ASSUME NEW n \in DOMAIN Pieces, NEW k \in DOMAIN Pieces, Text(n) = Text(k) PROVE n = k
  BY <1>1, <1>2
<1> QED BY <1>1, <1>2 DEF Whole

\* What the handler took for a text is none of the desk's.
LEMMA TakenFacts ==
  ASSUME NEW t, Taken(t)
  PROVE  /\ t \in Seq(Parts) /\ t # None /\ Len(t) \in Nat
         /\ \A n \in DOMAIN Pieces : n \notin PageTexts => t # Text(n)
<1>1. PageParts \subseteq Parts
  BY PieceCounts DEF Parts, PageParts
<1>2. t \in Seq(PageParts) /\ t # <<>>
  BY DEF Taken, None
<1>3. t \in Seq(Parts)
  BY <1>1, <1>2, SeqMonotonic
<1>4. Len(t) \in Nat \ {0}
  BY <1>2, EmptySeq
<1>5. t[1] \in PageParts
  BY <1>2, <1>4, ElementOfSeq
<1> QED BY <1>2, <1>3, <1>4, <1>5, TextFacts DEF PageParts, None

LEMMA MsgFacts ==
  /\ \A n \in PageTexts : \A j \in 1..Pieces[n] :
       /\ ClipMsg(n, j) \in Messages /\ IsClip(ClipMsg(n, j))
       /\ ClipMsg(n, j).text = <<n, j>> /\ ClipMsg(n, j).more = (j < Pieces[n])
       /\ \A k \in PageTexts : \A l \in 1..Pieces[k] : ClipMsg(n, j) = ClipMsg(k, l) => n = k /\ j = l
  /\ \A n \in PageTexts : KeyMsg(n) \in Messages /\ KeyMsg(n).of = n /\ IsKey(KeyMsg(n))
  /\ GetMsg \in Messages /\ \A g \in Nows : NowMsg(g) \in Messages
  /\ \A m : (IsClip(m) => m.t = "clip") /\ (IsKey(m) => m.t = "key")
            /\ (IsAsk(m) => m.t \in {"clipget", "clipnow"})
<1>1. \A n \in PageTexts : n \in DOMAIN Pieces /\ Pieces[n] \in Nat
  BY PieceCounts
<1>2. ASSUME NEW n \in PageTexts, NEW j \in 1..Pieces[n]
      PROVE  /\ ClipMsg(n, j) \in Messages /\ IsClip(ClipMsg(n, j))
             /\ ClipMsg(n, j).text = <<n, j>> /\ ClipMsg(n, j).more = (j < Pieces[n])
             /\ \A k \in PageTexts : \A l \in 1..Pieces[k] : ClipMsg(n, j) = ClipMsg(k, l) => n = k /\ j = l
  <2>1. j \in Nat
    BY <1>1
  <2>2. IsClip(ClipMsg(n, j))
    BY DEF IsClip
  <2>3. ClipMsg(n, j) \in Messages
    BY <2>1 DEF ClipMsg, Messages, PageParts
  <2>4. ClipMsg(n, j).text = <<n, j>> /\ ClipMsg(n, j).more = (j < Pieces[n])
    BY DEF ClipMsg
  <2>5. \A k \in PageTexts : \A l \in 1..Pieces[k] : ClipMsg(k, l).text = <<k, l>>
    BY DEF ClipMsg
  <2> QED BY <2>2, <2>3, <2>4, <2>5
<1>3. \A n \in PageTexts : KeyMsg(n) \in Messages /\ KeyMsg(n).of = n /\ IsKey(KeyMsg(n))
  BY DEF KeyMsg, Messages, IsKey
<1>4. GetMsg \in Messages /\ \A g \in Nows : NowMsg(g) \in Messages
  BY DEF GetMsg, NowMsg, Messages
<1>5. \A m : (IsClip(m) => m.t = "clip") /\ (IsKey(m) => m.t = "key")
             /\ (IsAsk(m) => m.t \in {"clipget", "clipnow"})
  BY DEF IsClip, IsKey, IsAsk, ClipMsg, KeyMsg, GetMsg, NowMsg
<1> QED BY <1>2, <1>3, <1>4, <1>5

---------------------------------------------------------------------------
(* Clipboard: the messages on their way. *)

LEMMA FirstAndRest ==
  ASSUME NEW S, NEW q \in Seq(S), q # <<>>
  PROVE  /\ Head(q) \in S /\ Head(q) = q[1] /\ Len(q) \in Nat /\ 1 \in 1..Len(q)
         /\ Tail(q) \in Seq(S) /\ Len(Tail(q)) = Len(q) - 1 /\ (Tail(q) = <<>> <=> Len(q) = 1)
         /\ \A i \in 1..Len(Tail(q)) : i + 1 \in 1..Len(q) /\ Tail(q)[i] = q[i + 1]
<1>1. /\ Head(q) \in S /\ Tail(q) \in Seq(S) /\ Len(Tail(q)) = Len(q) - 1
      /\ \A i \in 1..Len(Tail(q)) : Tail(q)[i] = q[i + 1]
  BY HeadTailProperties
<1>2. Len(q) \in Nat \ {0}
  BY EmptySeq
<1>3. Head(q) = q[1]
  OBVIOUS
<1>4. Tail(q) = <<>> <=> Len(q) = 1
  <2>1. Tail(q) = <<>> <=> Len(Tail(q)) = 0
    BY <1>1, EmptySeq
  <2> QED BY <1>1, <1>2, <2>1
<1>5. 1 \in 1..Len(q) /\ \A i \in 1..(Len(q) - 1) : i + 1 \in 1..Len(q)
  BY <1>2
<1>6. \A i \in 1..Len(Tail(q)) : i + 1 \in 1..Len(q) /\ Tail(q)[i] = q[i + 1]
  BY <1>1, <1>5
<1> QED BY <1>1, <1>2, <1>3, <1>4, <1>5, <1>6

\* Messages that are in order stay so when the first is taken.
LEMMA OrderTaken ==
  ASSUME NEW q \in Seq(Messages), q # <<>>, InOrder(q)
  PROVE  /\ Tail(q) \in Seq(Messages) /\ InOrder(Tail(q))
         /\ IsClip(Head(q)) \/ IsKey(Head(q)) \/ IsAsk(Head(q))
         /\ Tail(q) # <<>> => Succeeds(Head(q), Head(Tail(q)))
         /\ Tail(q) = <<>> => ~IsClip(Head(q))
<1> DEFINE r == Tail(q)
<1>1. /\ Head(q) = q[1] /\ Len(q) \in Nat /\ 1 \in 1..Len(q)
      /\ r \in Seq(Messages) /\ Len(r) = Len(q) - 1 /\ (r = <<>> <=> Len(q) = 1)
      /\ \A i \in 1..Len(r) : i + 1 \in 1..Len(q) /\ r[i] = q[i + 1]
  BY FirstAndRest
<1>2. /\ \A i \in 1..Len(q) : IsClip(q[i]) \/ IsKey(q[i]) \/ IsAsk(q[i])
      /\ \A i \in 1..Len(q) : i < Len(q) => Succeeds(q[i], q[i + 1])
      /\ ~IsClip(q[Len(q)])
  BY DEF InOrder
<1> HIDE DEF r
<1>3. InOrder(r)
  <2>1. \A i \in 1..Len(r) : IsClip(r[i]) \/ IsKey(r[i]) \/ IsAsk(r[i])
    BY <1>1, <1>2
  <2>2. ASSUME NEW i \in 1..Len(r), i < Len(r) PROVE Succeeds(r[i], r[i + 1])
    <3>1. i + 1 \in 1..Len(r) /\ i + 1 < Len(q) /\ i + 1 \in 1..Len(q)
      BY <1>1, <2>2
    <3>2. r[i] = q[i + 1] /\ r[i + 1] = q[(i + 1) + 1]
      BY <1>1, <3>1
    <3> QED BY <1>2, <3>1, <3>2
  <2>3. ASSUME r # <<>> PROVE ~IsClip(r[Len(r)])
    <3>1. Len(r) \in 1..Len(r) /\ Len(r) + 1 = Len(q)
      BY <1>1, <2>3
    <3>2. r[Len(r)] = q[Len(q)]
      BY <1>1, <3>1
    <3> QED BY <1>2, <3>2
  <2> QED BY <2>1, <2>2, <2>3 DEF InOrder
<1>4. IsClip(Head(q)) \/ IsKey(Head(q)) \/ IsAsk(Head(q))
  BY <1>1, <1>2
<1>5. ASSUME r # <<>> PROVE Succeeds(Head(q), Head(r))
  <2>1. Head(r) = r[1] /\ 1 \in 1..Len(r)
    BY <1>1, <1>5, FirstAndRest
  <2>2. 1 < Len(q) /\ r[1] = q[1 + 1]
    BY <1>1, <2>1
  <2> QED BY <1>1, <1>2, <2>1, <2>2
<1>6. r = <<>> => ~IsClip(Head(q))
  BY <1>1, <1>2
<1> QED BY <1>1, <1>3, <1>4, <1>5, <1>6 DEF r

\* And when others are put behind them, which begin with the start of something.
LEMMA OrderJoined ==
  ASSUME NEW q \in Seq(Messages), NEW r \in Seq(Messages),
         InOrder(q), InOrder(r), r # <<>>, IsFirst(Head(r))
  PROVE  /\ q \o r \in Seq(Messages) /\ InOrder(q \o r) /\ q \o r # <<>>
         /\ Head(q \o r) = IF q = <<>> THEN Head(r) ELSE Head(q)
<1> DEFINE w == q \o r
<1>1. /\ w \in Seq(Messages) /\ Len(w) = Len(q) + Len(r)
      /\ \A i \in 1..Len(q) + Len(r) : w[i] = IF i <= Len(q) THEN q[i] ELSE r[i - Len(q)]
  BY ConcatProperties
<1>2. Len(q) \in Nat /\ Len(r) \in Nat /\ Len(r) >= 1 /\ (q = <<>> <=> Len(q) = 0)
  BY LenProperties, EmptySeq
<1>3. /\ \A i \in 1..Len(q) : IsClip(q[i]) \/ IsKey(q[i]) \/ IsAsk(q[i])
      /\ \A i \in 1..Len(q) : i < Len(q) => Succeeds(q[i], q[i + 1])
      /\ q # <<>> => ~IsClip(q[Len(q)])
  BY DEF InOrder
<1>4. /\ \A i \in 1..Len(r) : IsClip(r[i]) \/ IsKey(r[i]) \/ IsAsk(r[i])
      /\ \A i \in 1..Len(r) : i < Len(r) => Succeeds(r[i], r[i + 1])
      /\ ~IsClip(r[Len(r)])
  BY DEF InOrder
<1>5. Head(r) = r[1] /\ IsFirst(r[1])
  BY FirstAndRest
<1> HIDE DEF w
<1>6. ASSUME NEW i \in 1..Len(w) PROVE IsClip(w[i]) \/ IsKey(w[i]) \/ IsAsk(w[i])
  <2>1. \/ i \in 1..Len(q) /\ w[i] = q[i]
        \/ i - Len(q) \in 1..Len(r) /\ w[i] = r[i - Len(q)]
    BY <1>1, <1>2
  <2> QED BY <1>3, <1>4, <2>1
<1>7. ASSUME NEW i \in 1..Len(w), i < Len(w) PROVE Succeeds(w[i], w[i + 1])
  <2>1. CASE i < Len(q)
    <3>1. i \in 1..Len(q) /\ w[i] = q[i] /\ w[i + 1] = q[i + 1]
      BY <1>1, <1>2, <2>1
    <3> QED BY <1>3, <2>1, <3>1
  <2>2. CASE i = Len(q)
    <3>1. w[i] = q[Len(q)] /\ w[i + 1] = r[1] /\ q # <<>>
      BY <1>1, <1>2, <2>2
    <3>2. ~IsClip(w[i]) /\ IsFirst(w[i + 1])
      BY <1>3, <1>5, <3>1
    <3>3. \A n \in PageTexts : \A j \in 1..Pieces[n] : w[i] # ClipMsg(n, j)
      BY <3>2, MsgFacts
    <3> QED BY <3>2, <3>3 DEF Succeeds
  <2>3. CASE i > Len(q)
    <3>1. /\ i - Len(q) \in 1..Len(r) /\ i - Len(q) < Len(r)
          /\ w[i] = r[i - Len(q)] /\ w[i + 1] = r[(i - Len(q)) + 1]
      BY <1>1, <1>2, <1>7, <2>3
    <3> QED BY <1>4, <3>1
  <2> QED BY <1>1, <1>2, <2>1, <2>2, <2>3
<1>8. ~IsClip(w[Len(w)])
  <2>1. w[Len(w)] = r[Len(r)]
    <3>1. Len(q) + Len(r) \in 1..(Len(q) + Len(r)) /\ ~(Len(q) + Len(r) <= Len(q))
      BY <1>2
    <3>2. (Len(q) + Len(r)) - Len(q) = Len(r)
      BY <1>2
    <3> QED BY <1>1, <3>1, <3>2
  <2> QED BY <1>4, <2>1
<1>9. w # <<>> /\ Head(w) = w[1]
  <2>1. w # <<>>
    BY <1>1, <1>2, EmptySeq
  <2>2. w \in Seq(Messages)
    BY <1>1
  <2> QED BY <2>1, <2>2, FirstAndRest
<1>10. Head(w) = IF q = <<>> THEN Head(r) ELSE Head(q)
  <2>1. CASE q = <<>>
    BY <1>1, <1>2, <1>5, <1>9, <2>1
  <2>2. CASE q # <<>>
    <3>1. Head(q) = q[1] /\ 1 \in 1..Len(q)
      BY <2>2, FirstAndRest
    <3> QED BY <1>1, <1>2, <1>9, <2>2, <3>1
  <2> QED BY <2>1, <2>2
<1> QED BY <1>1, <1>6, <1>7, <1>8, <1>9, <1>10 DEF InOrder, w

\* A paste: the pieces of the text, and the keystroke.
Pasted(n) == [i \in 1..Pieces[n] |-> ClipMsg(n, i)] \o <<KeyMsg(n)>>

LEMMA PastedInOrder ==
  ASSUME NEW n \in PageTexts
  PROVE  /\ Pasted(n) \in Seq(Messages) /\ InOrder(Pasted(n)) /\ Pasted(n) # <<>>
         /\ Head(Pasted(n)) = ClipMsg(n, 1) /\ IsFirst(ClipMsg(n, 1))
<1> DEFINE q == [i \in 1..Pieces[n] |-> ClipMsg(n, i)]
           p == Pieces[n]
           w == q \o <<KeyMsg(n)>>
<1>1. p \in Nat /\ p >= 1
  BY PieceCounts
<1>2. \A j \in 1..p : ClipMsg(n, j) \in Messages /\ IsClip(ClipMsg(n, j))
  BY MsgFacts
<1>3. KeyMsg(n) \in Messages /\ IsKey(KeyMsg(n)) /\ KeyMsg(n).of = n
  BY MsgFacts
<1>4. q \in Seq(Messages) /\ Len(q) = p /\ \A i \in 1..p : q[i] = ClipMsg(n, i)
  BY <1>1, <1>2
<1>5. <<KeyMsg(n)>> \in Seq(Messages) /\ Len(<<KeyMsg(n)>>) = 1 /\ <<KeyMsg(n)>>[1] = KeyMsg(n)
  BY <1>3
<1> HIDE DEF q, p
<1>6. /\ w \in Seq(Messages) /\ Len(w) = p + 1
      /\ \A i \in 1..p + 1 : w[i] = IF i <= p THEN q[i] ELSE <<KeyMsg(n)>>[i - p]
  BY <1>4, <1>5, ConcatProperties
<1> HIDE DEF w
<1>7. /\ \A i \in 1..p : w[i] = ClipMsg(n, i)
      /\ w[p + 1] = KeyMsg(n)
  BY <1>1, <1>4, <1>5, <1>6
<1>8. \A i \in 1..p + 1 : IsClip(w[i]) \/ IsKey(w[i]) \/ IsAsk(w[i])
  BY <1>1, <1>2, <1>3, <1>7
<1>9. ASSUME NEW i \in 1..p + 1, i < p + 1 PROVE Succeeds(w[i], w[i + 1])
  <2>1. i \in 1..p /\ w[i] = ClipMsg(n, i) /\ IsClip(w[i])
    BY <1>1, <1>2, <1>7, <1>9
  <2>2. w[i + 1] = IF i < p THEN ClipMsg(n, i + 1) ELSE KeyMsg(n)
    BY <1>1, <1>7, <2>1
  <2>3. \A k \in PageTexts : \A l \in 1..Pieces[k] : ClipMsg(n, i) = ClipMsg(k, l) => n = k /\ i = l
    BY <2>1, MsgFacts DEF p
  <2>4. \A k \in PageTexts : \A j \in 1..Pieces[k] :
          w[i] = ClipMsg(k, j) => w[i + 1] = IF j < Pieces[k] THEN ClipMsg(k, j + 1) ELSE KeyMsg(k)
    BY <2>1, <2>2, <2>3 DEF p
  <2> QED BY <2>1, <2>4 DEF Succeeds
<1>10. ~IsClip(w[p + 1])
  BY <1>3, <1>7, MsgFacts
<1>11. w # <<>> /\ Head(w) = ClipMsg(n, 1)
  <2>1. w # <<>>
    BY <1>1, <1>6, EmptySeq
  <2>2. Head(w) = w[1]
    BY <1>6, <2>1, FirstAndRest
  <2> QED BY <1>1, <1>7, <2>1, <2>2
<1>12. IsFirst(ClipMsg(n, 1))
  BY DEF IsFirst
<1>13. InOrder(w)
  BY <1>6, <1>8, <1>9, <1>10 DEF InOrder
<1> QED BY <1>6, <1>11, <1>12, <1>13 DEF Pasted, w, q

LEMMA AskedInOrder ==
  ASSUME NEW m, IsAsk(m)
  PROVE  /\ <<m>> \in Seq(Messages) /\ InOrder(<<m>>) /\ <<m>> # <<>> /\ Head(<<m>>) = m
         /\ IsFirst(m) /\ ~IsClip(m)
<1>1. m \in Messages /\ ~IsClip(m) /\ IsFirst(m)
  BY MsgFacts DEF IsAsk, IsFirst
<1>2. <<m>> \in Seq(Messages) /\ Len(<<m>>) = 1 /\ <<m>>[1] = m /\ <<m>> # <<>> /\ Head(<<m>>) = m
  BY <1>1
<1>3. InOrder(<<m>>)
  BY <1>1, <1>2 DEF InOrder
<1> QED BY <1>1, <1>2, <1>3

---------------------------------------------------------------------------
(* Clipboard: steps keep the types. *)

LEMMA AppendIsJoin ==
  ASSUME NEW S, NEW q \in Seq(S), NEW m \in S
  PROVE  Append(q, m) = q \o <<m>>
<1>1. /\ Append(q, m) \in Seq(S) /\ Len(Append(q, m)) = Len(q) + 1
      /\ \A i \in 1..Len(q) + 1 : Append(q, m)[i] = IF i <= Len(q) THEN q[i] ELSE m
  BY AppendProperties
<1>2. <<m>> \in Seq(S) /\ Len(<<m>>) = 1 /\ <<m>>[1] = m
  OBVIOUS
<1>3. /\ q \o <<m>> \in Seq(S) /\ Len(q \o <<m>>) = Len(q) + 1
      /\ \A i \in 1..Len(q) + 1 : (q \o <<m>>)[i] = IF i <= Len(q) THEN q[i] ELSE <<m>>[i - Len(q)]
  BY <1>2, ConcatProperties
<1>4. \A i \in 1..Len(q) + 1 : Append(q, m)[i] = (q \o <<m>>)[i]
  <2>1. Len(q) \in Nat
    BY LenProperties
  <2> QED BY <1>1, <1>2, <1>3, <2>1
<1> QED BY <1>1, <1>3, <1>4, SeqEqual

\* More messages come, or the first is taken.
Grows == /\ up' # <<>>
         /\ up = <<>> => IsFirst(Head(up'))
         /\ up # <<>> => Head(up') = Head(up)

Takes == /\ writing = None /\ up # <<>> /\ up' = Tail(up)
         /\ IsClip(Head(up)) \/ IsKey(Head(up)) \/ IsAsk(Head(up))
         /\ up' # <<>> => Succeeds(Head(up), Head(up'))
         /\ up' = <<>> => ~IsClip(Head(up))

LEMMA PasteGrows ==
  ASSUME UpTyped, NEW n \in PageTexts, Paste(n)
  PROVE  UpTyped' /\ Grows
<1> DEFINE a == [i \in 1..Pieces[n] |-> ClipMsg(n, i)]
           b == <<KeyMsg(n)>>
<1>1. up' = (up \o a) \o b
  BY DEF Paste, ClipMsg, KeyMsg
<1>2. a \in Seq(Messages) /\ b \in Seq(Messages) /\ up \in Seq(Messages) /\ InOrder(up)
  <2>1. Pieces[n] \in Nat
    BY PieceCounts
  <2>2. \A j \in 1..Pieces[n] : ClipMsg(n, j) \in Messages
    BY MsgFacts
  <2>3. KeyMsg(n) \in Messages
    BY MsgFacts
  <2> QED BY <2>1, <2>2, <2>3 DEF UpTyped
<1>3. up' = up \o Pasted(n)
  <2> HIDE DEF a, b
  <2>1. (up \o a) \o b = up \o (a \o b)
    BY <1>2, ConcatAssociative
  <2> QED BY <1>1, <2>1 DEF Pasted, a, b
<1>4. /\ Pasted(n) \in Seq(Messages) /\ InOrder(Pasted(n)) /\ Pasted(n) # <<>>
      /\ IsFirst(Head(Pasted(n)))
  BY PastedInOrder
<1>5. /\ up \o Pasted(n) \in Seq(Messages) /\ InOrder(up \o Pasted(n)) /\ up \o Pasted(n) # <<>>
      /\ Head(up \o Pasted(n)) = IF up = <<>> THEN Head(Pasted(n)) ELSE Head(up)
  BY <1>2, <1>4, OrderJoined
<1> QED BY <1>3, <1>4, <1>5 DEF UpTyped, Grows

LEMMA AskGrows ==
  ASSUME UpTyped, Ask
  PROVE  UpTyped' /\ Grows
<1>1. PICK m : IsAsk(m) /\ up' = Append(up, m)
  <2>1. CASE up' = Append(up, [t |-> "clipget"])
    BY <2>1 DEF IsAsk, GetMsg
  <2>2. CASE \E g \in Nows : up' = Append(up, [t |-> "clipnow", by |-> g])
    BY <2>2 DEF IsAsk, NowMsg
  <2> QED BY <2>1, <2>2 DEF Ask
<1>2. <<m>> \in Seq(Messages) /\ InOrder(<<m>>) /\ <<m>> # <<>> /\ Head(<<m>>) = m /\ IsFirst(m)
  BY <1>1, AskedInOrder
<1>3. up' = up \o <<m>>
  <2>1. m \in Messages /\ up \in Seq(Messages)
    BY <1>1, MsgFacts DEF IsAsk, UpTyped
  <2> QED BY <1>1, <2>1, AppendIsJoin
<1>4. /\ up \o <<m>> \in Seq(Messages) /\ InOrder(up \o <<m>>) /\ up \o <<m>> # <<>>
      /\ Head(up \o <<m>>) = IF up = <<>> THEN Head(<<m>>) ELSE Head(up)
  BY <1>2, OrderJoined DEF UpTyped
<1> QED BY <1>2, <1>3, <1>4 DEF UpTyped, Grows

LEMMA TakeTakes ==
  ASSUME UpTyped, NEW t, Take(t)
  PROVE  UpTyped' /\ Takes /\ Head(up).t = t
<1>1. writing = None /\ up # <<>> /\ up' = Tail(up) /\ Head(up).t = t
  BY DEF Take
<1>2. up \in Seq(Messages) /\ InOrder(up)
  BY DEF UpTyped
<1>3. /\ Tail(up) \in Seq(Messages) /\ InOrder(Tail(up))
      /\ IsClip(Head(up)) \/ IsKey(Head(up)) \/ IsAsk(Head(up))
      /\ Tail(up) # <<>> => Succeeds(Head(up), Head(Tail(up)))
      /\ Tail(up) = <<>> => ~IsClip(Head(up))
  BY <1>1, <1>2, OrderTaken
<1> QED BY <1>1, <1>3 DEF UpTyped, Takes

LEMMA UpKeeps ==
  ASSUME UpTyped, [Next]_vars
  PROVE  UpTyped'
<1>1. ASSUME NEW n \in PageTexts, Paste(n) PROVE UpTyped'
  BY <1>1, PasteGrows
<1>2. CASE Ask
  BY <1>2, AskGrows
<1>3. ASSUME NEW t, Take(t) PROVE UpTyped'
  BY <1>3, TakeTakes
<1>4. CASE Overflow \/ Collect \/ Receive \/ Keystroke \/ Get \/ SpawnNow
  BY <1>4, <1>3 DEF Overflow, Collect, Receive, Keystroke, Get, SpawnNow
<1>5. ASSUME up' = up PROVE UpTyped'
  BY <1>5 DEF UpTyped
<1>6. CASE Write \/ (\E n \in DeskTexts : Copy(n)) \/ Run
  <2>1. up' = up
    BY <1>6 DEF Write, Copy, Run, FirstRead, FirstLook, Poked, RunRead, RunNews, RunSame, RunExpires
  <2> QED BY <2>1, <1>5
<1>7. CASE \/ (\E g \in Nows : NowRead(g) \/ NowKnows(g))
           \/ (\E g \in Senders : Lock(g) \/ Send(g))
           \/ UNCHANGED vars
  <2>1. up' = up
    BY <1>7 DEF NowRead, NowKnows, Lock, Send, vars
  <2> QED BY <2>1, <1>5
<1> QED BY <1>1, <1>2, <1>4, <1>6, <1>7 DEF Next, Handler

\* A piece at the head is one of a text of the device.
LEMMA HeadPiece ==
  ASSUME UpTyped, up # <<>>, Head(up).t = "clip"
  PROVE  IsClip(Head(up)) /\ Head(up).text \in PageParts
<1>1. IsClip(Head(up)) \/ IsKey(Head(up)) \/ IsAsk(Head(up))
  BY OrderTaken DEF UpTyped
<1>2. IsClip(Head(up))
  BY <1>1, MsgFacts
<1>3. PICK n \in PageTexts : \E j \in 1..Pieces[n] : Head(up) = ClipMsg(n, j)
  BY <1>2 DEF IsClip
<1>4. PICK j \in 1..Pieces[n] : Head(up) = ClipMsg(n, j)
  BY <1>3
<1>5. Head(up).text = <<n, j>>
  BY <1>4 DEF ClipMsg
<1>6. j \in Nat
  <2>1. n \in DOMAIN Pieces /\ Pieces[n] \in Nat
    BY <1>3, PieceCounts
  <2> QED BY <1>4, <2>1
<1>7. <<n, j>> \in PageParts
  BY <1>3, <1>6 DEF PageParts
<1> QED BY <1>2, <1>5, <1>7

LEMMA TextsKeep ==
  ASSUME TextsTyped, UpTyped, [Next]_vars
  PROVE  TextsTyped'
<1>t. /\ desk \in Texts \cup {None} /\ writing \in pasted \cup {None}
      /\ in \in Seq(PageParts) /\ Len(in) <= MaxPieces
      /\ \A t \in pasted : Taken(t)
  BY DEF TextsTyped
<1>m. MaxPieces \in Nat /\ <<>> \in Seq(PageParts) /\ Len(<<>>) = 0 /\ Len(in) \in Nat
  BY <1>t, PieceCounts, LenProperties
<1>1. ASSUME NEW n \in DeskTexts, Copy(n) PROVE TextsTyped'
  <2>1. n \in DOMAIN Pieces
    BY PieceCounts
  <2>2. desk' = Text(n) /\ Text(n) \in Whole /\ UNCHANGED <<writing, in, pasted>>
    BY <1>1, <2>1, TextFacts DEF Copy, hostVars
  <2> QED BY <1>t, <2>2 DEF TextsTyped, Texts
<1>2. CASE Overflow
  <2>1. in' = <<>> /\ UNCHANGED <<desk, writing, pasted>>
    BY <1>2 DEF Overflow, histVars
  <2> QED BY <1>t, <1>m, <2>1 DEF TextsTyped, Texts
<1>3. ASSUME up # <<>>, Head(up).t = "clip", Len(in) + 1 <= MaxPieces
      PROVE  Taken(Append(in, Head(up).text))
  <2>1. Head(up).text \in PageParts
    BY <1>3, HeadPiece
  <2>2. /\ Append(in, Head(up).text) \in Seq(PageParts)
        /\ Len(Append(in, Head(up).text)) = Len(in) + 1
    BY <2>1, <1>t, AppendProperties
  <2> DEFINE t == Append(in, Head(up).text)
  <2> HIDE DEF t
  <2>3. t \in Seq(PageParts) /\ Len(t) = Len(in) + 1
    BY <2>2 DEF t
  <2>4. t # <<>>
    BY <2>3, <1>m
  <2>5. Len(t) <= MaxPieces
    BY <2>3, <1>3
  <2>6. Taken(t)
    BY <2>3, <2>4, <2>5 DEF Taken, None
  <2> QED BY <2>6 DEF t
<1>4. CASE Collect
  <2>1. Taken(in')
    BY <1>4, <1>3 DEF Collect, Take
  <2>2. UNCHANGED <<desk, writing, pasted>>
    BY <1>4 DEF Collect, histVars
  <2> QED BY <1>t, <2>1, <2>2 DEF TextsTyped, Texts, Taken
<1>5. CASE Receive
  <2> DEFINE t == Append(in, Head(up).text)
  <2>1. Taken(t)
    BY <1>5, <1>3 DEF Receive, Take
  <2>2. writing' = t /\ pasted' = pasted \cup {t} /\ in' = <<>> /\ UNCHANGED desk
    BY <1>5 DEF Receive
  <2> HIDE DEF t
  <2> QED BY <1>t, <1>m, <2>1, <2>2 DEF TextsTyped, Texts
<1>6. CASE Write
  <2>1. writing' = None /\ desk' \in {desk, writing} /\ writing # None /\ UNCHANGED <<in, pasted>>
    BY <1>6 DEF Write
  <2> QED BY <1>t, <2>1 DEF TextsTyped, Texts
<1>7. ASSUME UNCHANGED <<desk, writing, in, pasted>> PROVE TextsTyped'
  BY <1>7, <1>t DEF TextsTyped, Texts
<1>8. CASE (\E n \in PageTexts : Paste(n)) \/ Ask \/ Keystroke \/ Get \/ SpawnNow
  BY <1>8, <1>7 DEF Paste, Ask, Keystroke, Get, SpawnNow, hostVars, histVars
<1>9. CASE Run
  BY <1>9, <1>7 DEF Run, FirstRead, FirstLook, Poked, RunRead, RunNews, RunSame, RunExpires, hostVars,
     histVars
<1>10. CASE \/ (\E g \in Nows : NowRead(g) \/ NowKnows(g))
            \/ (\E g \in Senders : Lock(g) \/ Send(g))
            \/ UNCHANGED vars
  BY <1>10, <1>7 DEF NowRead, NowKnows, Lock, Send, hostVars, histVars, vars
<1> QED BY <1>1, <1>2, <1>4, <1>5, <1>6, <1>8, <1>9, <1>10 DEF Next, Handler

---------------------------------------------------------------------------
(* Clipboard: who sends. *)

LEMMA HeadMoves ==
  ASSUME NEW S, NEW c \in Seq(S), NEW t \in Seq(S), t # <<>>
  PROVE  /\ Append(c, Head(t)) \in Seq(S)
         /\ Append(c, Head(t)) \o Tail(t) = c \o t
         /\ Len(t) = 1 => Append(c, Head(t)) = c \o t
<1>1. /\ Head(t) \in S /\ Head(t) = t[1] /\ Len(t) \in Nat /\ 1 \in 1..Len(t)
      /\ Tail(t) \in Seq(S) /\ Len(Tail(t)) = Len(t) - 1 /\ (Tail(t) = <<>> <=> Len(t) = 1)
      /\ \A i \in 1..Len(Tail(t)) : i + 1 \in 1..Len(t) /\ Tail(t)[i] = t[i + 1]
  BY FirstAndRest
<1> DEFINE h == Head(t)
           r == Tail(t)
<1>2. <<h>> \in Seq(S) /\ Len(<<h>>) = 1 /\ <<h>>[1] = h
  BY <1>1
<1> HIDE DEF h, r
<1>3. <<h>> \o r = t
  <2>1. /\ <<h>> \o r \in Seq(S) /\ Len(<<h>> \o r) = Len(<<h>>) + Len(r)
        /\ \A i \in 1..Len(<<h>>) + Len(r) : (<<h>> \o r)[i] =
             IF i <= Len(<<h>>) THEN <<h>>[i] ELSE r[i - Len(<<h>>)]
    BY <1>1, <1>2, ConcatProperties DEF h, r
  <2>2. Len(<<h>> \o r) = Len(t)
    BY <2>1, <1>1, <1>2 DEF r
  <2>3. ASSUME NEW i \in 1..Len(t) PROVE (<<h>> \o r)[i] = t[i]
    <3>1. CASE i = 1
      <4>1. 1 \in 1..Len(<<h>>) + Len(r) /\ 1 <= Len(<<h>>)
        BY <1>1, <1>2, <2>1, <2>2
      <4>2. (<<h>> \o r)[1] = h
        BY <2>1, <4>1, <1>2
      <4> QED BY <3>1, <4>2, <1>1 DEF h
    <3>2. CASE i # 1
      <4>1. i - 1 \in 1..Len(r) /\ i <= Len(<<h>>) + Len(r) /\ ~(i <= Len(<<h>>))
        BY <3>2, <1>1, <1>2 DEF r
      <4>2. r[i - 1] = t[(i - 1) + 1]
        BY <4>1, <1>1 DEF r
      <4>3. (<<h>> \o r)[i] = r[i - 1]
        BY <4>1, <2>1, <1>2, <1>1
      <4>4. (i - 1) + 1 = i
        BY <1>1
      <4> QED BY <4>2, <4>3, <4>4
    <3> QED BY <3>1, <3>2
  <2> QED BY <2>1, <2>2, <2>3, SeqEqual
<1>4. Append(c, h) = c \o <<h>>
  BY <1>1, AppendIsJoin DEF h
<1>5. c \o <<h>> \in Seq(S)
  BY <1>2, ConcatProperties
<1>6. (c \o <<h>>) \o r = c \o (<<h>> \o r)
  BY <1>1, <1>2, ConcatAssociative DEF r
<1>7. Len(t) = 1 => c \o <<h>> = c \o t
  BY <1>1, <1>2, <1>3, ConcatEmptySeq DEF r
<1> QED BY <1>3, <1>4, <1>5, <1>6, <1>7 DEF h, r

LEMMA Moved ==
  ASSUME GoTyped, NEW g \in Senders, NEW from, NEW to, Go(g, from, to),
         to \in IF g = "run" THEN RunStages ELSE NowStages
  PROVE  /\ StTyped' /\ st[g] = from /\ st'[g] = to
         /\ \A h \in Senders : h # g => st'[h] = st[h]
<1>1. st \in [Senders -> Stages] /\ st[g] = from /\ st' = [st EXCEPT ![g] = to]
  BY DEF Go, GoTyped, StTyped
<1>2. to \in Stages
  BY DEF Stages, RunStages, NowStages
<1>3. /\ st' \in [Senders -> Stages] /\ st'[g] = to
      /\ \A h \in Senders : h # g => st'[h] = st[h]
  BY <1>1, <1>2
<1>4. "run" \in Senders /\ "run" \notin Nows /\ Nows \subseteq Senders
  BY PieceCounts
<1>5. st'["run"] \in RunStages
  BY <1>3, <1>4 DEF GoTyped, StTyped
<1>6. \A h \in Nows : st'[h] \in NowStages
  BY <1>3, <1>4 DEF GoTyped, StTyped
<1> QED BY <1>1, <1>3, <1>5, <1>6 DEF StTyped

\* What there is to be read is a text, or nothing.
LEMMA DeskRead ==
  ASSUME TextsTyped
  PROVE  /\ desk \in Texts \cup {None} /\ desk \in Seq(Parts)
         /\ \A t \in Texts : t \in Seq(Parts) /\ t # None
<1>1. \A t \in pasted : t \in Seq(Parts) /\ t # None
  BY TakenFacts DEF TextsTyped
<1>2. \A t \in Texts : t \in Seq(Parts) /\ t # None
  BY <1>1, TextFacts DEF Texts
<1>3. None \in Seq(Parts)
  BY EmptySeq DEF None
<1> QED BY <1>2, <1>3 DEF TextsTyped

\* A goroutine that goes on, and does not send.
LEMMA SendersKept ==
  ASSUME OneSends, NEW g \in Senders, Texts \subseteq Texts', UNCHANGED <<out, clipIn, got>>,
         st[g] # "send", st'[g] # "send",
         \A h \in Senders : h # g => st'[h] = st[h] /\ text'[h] = text[h],
         st'[g] \in {"looked", "read"} => text'[g] \in Texts' \cup {None},
         st'[g] = "lock" => text'[g] \in Texts'
  PROVE  OneSends'
<1>1. ASSUME NEW h \in Senders
      PROVE  /\ out' = h <=> st'[h] = "send"
             /\ st'[h] \in {"looked", "read"} => text'[h] \in Texts' \cup {None}
             /\ st'[h] = "lock" => text'[h] \in Texts'
             /\ st'[h] = "send" => text'[h] # None /\ clipIn' \o text'[h] \in Texts'
  <2>1. CASE h = g
    <3>1. out # g
      BY DEF OneSends
    <3> QED BY <2>1, <3>1
  <2>2. CASE h # g
    <3>1. st'[h] = st[h] /\ text'[h] = text[h]
      BY <2>2
    <3>2. /\ out = h <=> st[h] = "send"
          /\ st[h] \in {"looked", "read"} => text[h] \in Texts \cup {None}
          /\ st[h] = "lock" => text[h] \in Texts
          /\ st[h] = "send" => text[h] # None /\ clipIn \o text[h] \in Texts
      BY DEF OneSends
    <3> QED BY <3>1, <3>2
  <2> QED BY <2>1, <2>2
<1>2. /\ out' \in Senders \cup {"free"} /\ (out' = "free" => clipIn' = <<>>)
      /\ clipIn' \in Seq(Parts) /\ got' \subseteq Texts'
  BY DEF OneSends
<1> QED BY <1>1, <1>2 DEF OneSends

LEMMA SendersSame ==
  ASSUME OneSends, Texts \subseteq Texts', UNCHANGED <<out, clipIn, got, st, text>>
  PROVE  OneSends'
<1>1. ASSUME NEW h \in Senders
      PROVE  /\ out' = h <=> st'[h] = "send"
             /\ st'[h] \in {"looked", "read"} => text'[h] \in Texts' \cup {None}
             /\ st'[h] = "lock" => text'[h] \in Texts'
             /\ st'[h] = "send" => text'[h] # None /\ clipIn' \o text'[h] \in Texts'
  BY DEF OneSends
<1>2. /\ out' \in Senders \cup {"free"} /\ (out' = "free" => clipIn' = <<>>)
      /\ clipIn' \in Seq(Parts) /\ got' \subseteq Texts'
  BY DEF OneSends
<1> QED BY <1>1, <1>2 DEF OneSends

\* Lock and Send: the one that has the lock, and no other, gives the page the
\* pieces of its text.
LEMMA LockKeeps ==
  ASSUME TextsTyped, GoTyped, OneSends, NEW g \in Senders, Lock(g)
  PROVE  GoTyped' /\ OneSends'
<1>1. /\ out = "free" /\ out' = g /\ Go(g, "lock", "send")
      /\ UNCHANGED <<text, clipIn, got, pasted>>
  BY DEF Lock, pageVars, histVars
<1>2. /\ StTyped' /\ st[g] = "lock" /\ st'[g] = "send"
      /\ \A h \in Senders : h # g => st'[h] = st[h]
  <2>1. "send" \in IF g = "run" THEN RunStages ELSE NowStages
    BY DEF RunStages, NowStages
  <2> QED BY <1>1, <2>1, Moved
<1>3. clipIn = <<>> /\ text[g] \in Texts
  BY <1>1, <1>2 DEF OneSends
<1>4. text[g] \in Seq(Parts) /\ text[g] # None
  BY <1>3, DeskRead
<1>5. clipIn \o text[g] = text[g]
  BY <1>3, <1>4, ConcatEmptySeq
<1>6. GoTyped'
  BY <1>1, <1>2 DEF GoTyped
<1>7. Texts' = Texts
  BY <1>1 DEF Texts
<1>8. \A h \in Senders : st[h] # "send"
  BY <1>1, PieceCounts DEF OneSends
<1>9. ASSUME NEW h \in Senders
      PROVE  /\ out' = h <=> st'[h] = "send"
             /\ st'[h] \in {"looked", "read"} => text'[h] \in Texts' \cup {None}
             /\ st'[h] = "lock" => text'[h] \in Texts'
             /\ st'[h] = "send" => text'[h] # None /\ clipIn' \o text'[h] \in Texts'
  <2>1. CASE h = g
    BY <2>1, <1>1, <1>2, <1>3, <1>4, <1>5, <1>7
  <2>2. CASE h # g
    BY <2>2, <1>1, <1>2, <1>7, <1>8 DEF OneSends
  <2> QED BY <2>1, <2>2
<1>10. /\ out' \in Senders \cup {"free"} /\ (out' = "free" => clipIn' = <<>>)
       /\ clipIn' \in Seq(Parts) /\ got' \subseteq Texts'
  BY <1>1, <1>3, <1>7 DEF OneSends
<1> QED BY <1>6, <1>9, <1>10 DEF OneSends

LEMMA SendKeeps ==
  ASSUME TextsTyped, GoTyped, OneSends, NEW g \in Senders, Send(g)
  PROVE  GoTyped' /\ OneSends'
<1> DEFINE more == Len(text[g]) > 1
<1>1. /\ st[g] = "send" /\ PageHears(Head(text[g]), more)
      /\ text' = [text EXCEPT ![g] = Tail(@)]
      /\ st' = IF more THEN st ELSE [st EXCEPT ![g] = IF g = "run" THEN "wait" ELSE "done"]
      /\ out' = IF more THEN out ELSE "free"
      /\ pasted' = pasted
  BY DEF Send, histVars
<1>2. out = g /\ text[g] # None /\ clipIn \o text[g] \in Texts
  BY <1>1 DEF OneSends
<1>3. /\ text \in [Senders -> Seq(Parts)] /\ text[g] \in Seq(Parts) /\ clipIn \in Seq(Parts)
      /\ got \subseteq Texts
  BY DEF GoTyped, OneSends
<1>4. /\ Tail(text[g]) \in Seq(Parts) /\ Len(text[g]) \in Nat /\ 1 \in 1..Len(text[g])
      /\ (Tail(text[g]) = <<>> <=> Len(text[g]) = 1)
  BY <1>2, <1>3, FirstAndRest DEF None
<1>5. /\ Append(clipIn, Head(text[g])) \in Seq(Parts)
      /\ Append(clipIn, Head(text[g])) \o Tail(text[g]) = clipIn \o text[g]
      /\ Len(text[g]) = 1 => Append(clipIn, Head(text[g])) = clipIn \o text[g]
  BY <1>2, <1>3, HeadMoves DEF None
<1>6. /\ text' \in [Senders -> Seq(Parts)] /\ text'[g] = Tail(text[g])
      /\ \A h \in Senders : h # g => text'[h] = text[h]
  BY <1>1, <1>3, <1>4
<1>7. Texts' = Texts
  BY <1>1 DEF Texts
<1>8. \A h \in Senders : h # g => st[h] # "send"
  BY <1>2 DEF OneSends
<1>9. CASE more
  <2>1. st' = st /\ out' = g /\ clipIn' = Append(clipIn, Head(text[g])) /\ got' = got
    BY <1>1, <1>2, <1>9 DEF PageHears
  <2>2. text'[g] # None
    BY <1>4, <1>6, <1>9 DEF None
  <2>3. GoTyped'
    BY <2>1, <1>6 DEF GoTyped, StTyped
  <2>4. ASSUME NEW h \in Senders
        PROVE  /\ out' = h <=> st'[h] = "send"
               /\ st'[h] \in {"looked", "read"} => text'[h] \in Texts' \cup {None}
               /\ st'[h] = "lock" => text'[h] \in Texts'
               /\ st'[h] = "send" => text'[h] # None /\ clipIn' \o text'[h] \in Texts'
    <3>1. CASE h = g
      BY <3>1, <2>1, <2>2, <1>1, <1>2, <1>5, <1>6, <1>7
    <3>2. CASE h # g
      BY <3>2, <2>1, <1>6, <1>7, <1>8 DEF OneSends
    <3> QED BY <3>1, <3>2
  <2>5. /\ out' \in Senders \cup {"free"} /\ (out' = "free" => clipIn' = <<>>)
        /\ clipIn' \in Seq(Parts) /\ got' \subseteq Texts'
    BY <2>1, <1>3, <1>5, <1>7, PieceCounts
  <2> QED BY <2>3, <2>4, <2>5 DEF OneSends
<1>10. CASE ~more
  <2>1. /\ out' = "free" /\ clipIn' = <<>> /\ got' = got \cup {Append(clipIn, Head(text[g]))}
        /\ st' = [st EXCEPT ![g] = IF g = "run" THEN "wait" ELSE "done"]
    BY <1>1, <1>10 DEF PageHears
  <2>2. Len(text[g]) = 1
    BY <1>4, <1>10
  <2>3. got' \subseteq Texts'
    BY <2>1, <2>2, <1>2, <1>3, <1>5, <1>7
  <2>4. /\ StTyped' /\ st'[g] \in {"wait", "done"}
        /\ \A h \in Senders : h # g => st'[h] = st[h]
    <3> DEFINE to == IF g = "run" THEN "wait" ELSE "done"
    <3>1. Go(g, "send", to)
      BY <1>1, <2>1 DEF Go
    <3>2. to \in IF g = "run" THEN RunStages ELSE NowStages
      BY DEF RunStages, NowStages
    <3>3. to \in {"wait", "done"}
      OBVIOUS
    <3> HIDE DEF to
    <3> QED BY <3>1, <3>2, <3>3, Moved
  <2>5. GoTyped'
    BY <2>4, <1>6 DEF GoTyped
  <2>6. ASSUME NEW h \in Senders
        PROVE  /\ out' = h <=> st'[h] = "send"
               /\ st'[h] \in {"looked", "read"} => text'[h] \in Texts' \cup {None}
               /\ st'[h] = "lock" => text'[h] \in Texts'
               /\ st'[h] = "send" => text'[h] # None /\ clipIn' \o text'[h] \in Texts'
    <3>1. out' # h
      BY <2>1, PieceCounts
    <3>2. CASE h = g
      BY <3>1, <3>2, <2>4
    <3>3. CASE h # g
      BY <3>1, <3>3, <2>4, <1>6, <1>7, <1>8 DEF OneSends
    <3> QED BY <3>2, <3>3
  <2>7. /\ out' \in Senders \cup {"free"} /\ (out' = "free" => clipIn' = <<>>)
        /\ clipIn' \in Seq(Parts) /\ got' \subseteq Texts'
    BY <2>1, <2>3, EmptySeq
  <2> QED BY <2>5, <2>6, <2>7 DEF OneSends
<1> QED BY <1>9, <1>10

\* A goroutine that goes on without sending, in one step for all of them.
LEMMA GoesOn ==
  ASSUME GoTyped, OneSends, NEW g \in Senders, NEW from, NEW to, Go(g, from, to),
         to \in IF g = "run" THEN RunStages ELSE NowStages,
         from # "send", to # "send", UNCHANGED <<out, clipIn, got, pasted>>,
         \/ text' = text
         \/ \E t \in Seq(Parts) : text' = [text EXCEPT ![g] = t],
         to \in {"looked", "read"} => text'[g] \in Texts \cup {None},
         to = "lock" => text'[g] \in Texts
  PROVE  GoTyped' /\ OneSends'
<1>1. /\ StTyped' /\ st[g] = from /\ st'[g] = to
      /\ \A h \in Senders : h # g => st'[h] = st[h]
  BY Moved
<1>2. /\ text' \in [Senders -> Seq(Parts)]
      /\ \A h \in Senders : h # g => text'[h] = text[h]
  <2>1. text \in [Senders -> Seq(Parts)]
    BY DEF GoTyped
  <2> QED BY <2>1
<1>3. Texts' = Texts
  BY DEF Texts
<1>4. OneSends'
  <2>1. st'[g] \in {"looked", "read"} => text'[g] \in Texts' \cup {None}
    BY <1>1, <1>3
  <2>2. st'[g] = "lock" => text'[g] \in Texts'
    BY <1>1, <1>3
  <2>3. st[g] # "send" /\ st'[g] # "send" /\ Texts \subseteq Texts'
    BY <1>1, <1>3
  <2> QED BY <1>1, <1>2, <2>1, <2>2, <2>3, SendersKept
<1> QED BY <1>1, <1>2, <1>4 DEF GoTyped

LEMMA NowKeeps ==
  ASSUME TextsTyped, GoTyped, OneSends, NowReads, NEW g \in Nows, NowRead(g) \/ NowKnows(g)
  PROVE  GoTyped' /\ OneSends'
<1>1. /\ g \in Senders /\ g # "run" /\ text[g] \in Seq(Parts)
      /\ desk \in Seq(Parts) /\ desk \in Texts \cup {None}
  BY PieceCounts, DeskRead DEF GoTyped
<1>2. {"read", "done", "lock"} \subseteq IF g = "run" THEN RunStages ELSE NowStages
  BY <1>1 DEF NowStages
<1>3. CASE NowRead(g) /\ Fits(desk)
  <2>1. Go(g, "start", "read") /\ text' = [text EXCEPT ![g] = desk] /\ UNCHANGED <<out, clipIn, got, pasted>>
    BY <1>3 DEF NowRead, pageVars
  <2>2. text'[g] = desk
    BY <2>1, <1>1 DEF GoTyped
  <2> QED BY <1>1, <1>2, <2>1, <2>2, GoesOn
<1>4. CASE NowRead(g) /\ ~Fits(desk)
  <2>1. Go(g, "start", "done") /\ UNCHANGED <<text, out, clipIn, got, pasted>>
    BY <1>4 DEF NowRead, PageHearsNone
  <2> QED BY <1>1, <1>2, <2>1, GoesOn
<1>5. CASE NowKnows(g)
  <2>1. Go(g, "read", "lock") /\ UNCHANGED <<text, out, clipIn, got, pasted>>
    BY <1>5 DEF NowKnows, pageVars, histVars
  <2>2. st[g] = "read" /\ text'[g] = text[g]
    BY <2>1 DEF Go
  <2>3. text[g] \in Texts
    BY <1>1, <2>2 DEF OneSends, NowReads
  <2> QED BY <1>1, <1>2, <2>1, <2>2, <2>3, GoesOn
<1> QED BY <1>3, <1>4, <1>5

LEMMA RunKeeps ==
  ASSUME TextsTyped, GoTyped, OneSends, Run
  PROVE  GoTyped' /\ OneSends'
<1>1. "run" \in Senders /\ text["run"] \in Seq(Parts) /\ desk \in Seq(Parts) /\ desk \in Texts \cup {None}
  BY PieceCounts, DeskRead DEF GoTyped
<1>2. {"first", "looked", "wait", "read", "lock"} \subseteq IF "run" = "run" THEN RunStages ELSE NowStages
  BY DEF RunStages
<1>3. CASE Poked
  <2>1. UNCHANGED <<out, clipIn, got, pasted, st, text>>
    BY <1>3 DEF Poked, sendVars, pageVars, histVars
  <2> QED BY <2>1, SendersSame DEF GoTyped, StTyped, Texts
<1>4. CASE FirstRead
  <2>1. UNCHANGED <<out, clipIn, got, pasted>>
    BY <1>4 DEF FirstRead, pageVars, histVars
  <2>2. CASE desk = None
    <3>1. Go("run", "first", "wait") /\ text' = text
      BY <1>4, <2>2 DEF FirstRead
    <3> QED BY <1>1, <1>2, <2>1, <3>1, GoesOn
  <2>3. CASE desk # None
    <3>1. Go("run", "first", "looked") /\ text' = [text EXCEPT !["run"] = desk]
      BY <1>4, <2>3 DEF FirstRead
    <3>2. text'["run"] = desk
      BY <3>1, <1>1 DEF GoTyped
    <3> QED BY <1>1, <1>2, <2>1, <3>1, <3>2, GoesOn
  <2> QED BY <2>2, <2>3
<1>5. CASE RunRead
  <2>1. /\ Go("run", "wait", "read") /\ text' = [text EXCEPT !["run"] = desk]
        /\ UNCHANGED <<out, clipIn, got, pasted>>
    BY <1>5 DEF RunRead, pageVars
  <2>2. text'["run"] = desk
    BY <2>1, <1>1 DEF GoTyped
  <2> QED BY <1>1, <1>2, <2>1, <2>2, GoesOn
<1>6. CASE FirstLook \/ RunSame \/ RunExpires
  <2>1. UNCHANGED <<text, out, clipIn, got, pasted>>
    BY <1>6 DEF FirstLook, RunSame, RunExpires, PageHearsNone, pageVars, histVars
  <2>2. Go("run", "looked", "wait") \/ Go("run", "read", "wait")
    BY <1>6 DEF FirstLook, RunSame, RunExpires
  <2>3. CASE Go("run", "looked", "wait")
    BY <1>1, <1>2, <2>1, <2>3, GoesOn
  <2>4. CASE Go("run", "read", "wait")
    BY <1>1, <1>2, <2>1, <2>4, GoesOn
  <2> QED BY <2>2, <2>3, <2>4
<1>7. CASE RunNews
  <2>1. /\ Go("run", "read", "lock") /\ Fits(text["run"])
        /\ UNCHANGED <<text, out, clipIn, got, pasted>>
    BY <1>7 DEF RunNews, Changed, pageVars
  <2>2. text'["run"] \in Texts
    BY <2>1, <1>1 DEF OneSends, Go, Fits
  <2> QED BY <1>1, <1>2, <2>1, <2>2, GoesOn
<1> QED BY <1>3, <1>4, <1>5, <1>6, <1>7 DEF Run

LEMMA SendsKeep ==
  ASSUME TextsTyped, UpTyped, GoTyped, OneSends, NowReads, [Next]_vars
  PROVE  GoTyped' /\ OneSends'
<1>1. ASSUME UNCHANGED <<out, clipIn, got, st, text>>, pasted \subseteq pasted' PROVE GoTyped' /\ OneSends'
  <2>1. Texts \subseteq Texts'
    BY <1>1 DEF Texts
  <2> QED BY <1>1, <2>1, SendersSame DEF GoTyped, StTyped
<1>2. CASE (\E n \in DeskTexts : Copy(n)) \/ (\E n \in PageTexts : Paste(n)) \/ Ask \/ UNCHANGED vars
  <2>1. UNCHANGED <<out, clipIn, got, st, text, pasted>>
    BY <1>2 DEF Copy, Paste, Ask, sendVars, pageVars, histVars, vars
  <2> QED BY <1>1, <2>1
<1>3. CASE Overflow \/ Collect \/ Receive \/ Write \/ Keystroke \/ Get
  <2>1. UNCHANGED <<out, clipIn, got, st, text>> /\ pasted \subseteq pasted'
    BY <1>3 DEF Overflow, Collect, Receive, Write, Keystroke, Get, sendVars, pageVars, histVars
  <2> QED BY <1>1, <2>1
<1>4. CASE SpawnNow
  <2> DEFINE g == Head(up).by
  <2>1. Take("clipnow") /\ Go(g, "none", "start") /\ UNCHANGED <<text, out, clipIn, got, pasted>>
    BY <1>4 DEF SpawnNow, pageVars, histVars
  <2>2. g \in Nows
    <3>1. IsAsk(Head(up)) /\ Head(up).t = "clipnow"
      BY <2>1, TakeTakes, MsgFacts DEF Takes
    <3> QED BY <3>1 DEF IsAsk, GetMsg, NowMsg
  <2>3. g \in Senders /\ g # "run"
    BY <2>2, PieceCounts
  <2> HIDE DEF g
  <2>4. "start" \in IF g = "run" THEN RunStages ELSE NowStages
    BY <2>3 DEF NowStages
  <2> QED BY <2>1, <2>3, <2>4, GoesOn
<1>5. CASE \E g \in Nows : NowRead(g) \/ NowKnows(g)
  BY <1>5, NowKeeps
<1>6. CASE \E g \in Senders : Lock(g) \/ Send(g)
  BY <1>6, LockKeeps, SendKeeps
<1>7. CASE Run
  BY <1>7, RunKeeps
<1> QED BY <1>2, <1>3, <1>4, <1>5, <1>6, <1>7 DEF Next, Handler

LEMMA NowReadsKeep ==
  ASSUME GoTyped, NowReads, [Next]_vars
  PROVE  NowReads'
<1>t. /\ st \in [Senders -> Stages] /\ text \in [Senders -> Seq(Parts)]
      /\ Nows \subseteq Senders /\ "run" \notin Nows
  BY PieceCounts DEF GoTyped, StTyped
<1> SUFFICES ASSUME NEW h \in Nows, st'[h] = "read" PROVE text'[h] # None
  BY DEF NowReads
<1>1. ASSUME UNCHANGED <<st, text>> PROVE text'[h] # None
  BY <1>1 DEF NowReads
<1>2. CASE (\E n \in DeskTexts : Copy(n)) \/ (\E n \in PageTexts : Paste(n)) \/ Ask \/ Poked \/ UNCHANGED vars
  BY <1>1, <1>2 DEF Copy, Paste, Ask, Poked, sendVars, vars
<1>3. CASE Overflow \/ Collect \/ Receive \/ Write \/ Keystroke \/ Get
  BY <1>1, <1>3 DEF Overflow, Collect, Receive, Write, Keystroke, Get, sendVars
\* A step that leaves this one's text alone and does not bring it here.
<1>4. ASSUME st[h] = "read", text'[h] = text[h] PROVE text'[h] # None
  BY <1>4 DEF NowReads
<1>5. CASE SpawnNow
  <2>1. text' = text /\ st[h] = "read"
    BY <1>5, <1>t DEF SpawnNow, Go
  <2> QED BY <2>1, <1>4
<1>6. CASE FirstRead \/ FirstLook \/ RunRead \/ RunNews \/ RunSame \/ RunExpires
  <2>1. text'[h] = text[h]
    BY <1>6, <1>t DEF FirstRead, FirstLook, RunRead, RunNews, RunSame, RunExpires
  <2>2. st'[h] = st[h]
    BY <1>6, <1>t DEF FirstRead, FirstLook, RunRead, RunNews, RunSame, RunExpires, Go
  <2> QED BY <2>1, <2>2, <1>4
<1>7. ASSUME NEW g \in Nows, NowRead(g) PROVE text'[h] # None
  <2>1. CASE g = h /\ Fits(desk)
    BY <1>7, <2>1, <1>t DEF NowRead, Fits
  <2>2. CASE g # h \/ ~Fits(desk)
    <3>1. text'[h] = text[h] /\ st[h] = "read"
      BY <1>7, <2>2, <1>t DEF NowRead, Go
    <3> QED BY <3>1, <1>4
  <2> QED BY <2>1, <2>2
<1>8. ASSUME NEW g \in Nows, NowKnows(g) PROVE text'[h] # None
  <2>1. text' = text /\ st[h] = "read"
    BY <1>8, <1>t DEF NowKnows, Go
  <2> QED BY <2>1, <1>4
<1>9. ASSUME NEW g \in Senders, Lock(g) \/ Send(g) PROVE text'[h] # None
  <2>1. st[h] = "read" /\ st[g] # "read"
    BY <1>9, <1>t DEF Lock, Send, Go
  <2>2. text'[h] = text[h]
    BY <1>9, <2>1, <1>t DEF Lock, Send
  <2> QED BY <2>1, <2>2, <1>4
<1> QED BY <1>2, <1>3, <1>5, <1>6, <1>7, <1>8, <1>9 DEF Next, Handler, Run

---------------------------------------------------------------------------
(* Clipboard: a paste is found. *)

\* What decides whether it is.
deskVars == <<in, desk, writing, spoilt, pasted>>

LEMMA FirstComes ==
  ASSUME up' # <<>>, IsFirst(Head(up')), in' = <<>>
  PROVE  Collected' /\ KeyFinds'
<1>1. ~IsKey(Head(up'))
  BY MsgFacts DEF IsFirst, IsAsk, IsKey, KeyMsg, ClipMsg, GetMsg, NowMsg
<1>2. ASSUME NEW n \in PageTexts, NEW j \in 1..Pieces[n], Head(up') = ClipMsg(n, j)
      PROVE  in' = First(n, j - 1)
  <2>1. IsClip(Head(up'))
    BY <1>2 DEF IsClip
  <2>2. PICK k \in PageTexts : Head(up') = ClipMsg(k, 1)
    BY <2>1, MsgFacts DEF IsFirst
  <2>3. n \in DOMAIN Pieces /\ k \in DOMAIN Pieces /\ 1 \in 1..Pieces[k]
    BY PieceCounts
  <2>4. j = 1
    BY <1>2, <2>2, <2>3, MsgFacts
  <2> QED BY <2>3, <2>4, FirstPieces
<1> QED BY <1>1, <1>2 DEF Collected, KeyFinds, IsKey

LEMMA GrowsKeeps ==
  ASSUME Collected, KeyFinds, Grows, UNCHANGED deskVars
  PROVE  Collected' /\ KeyFinds'
<1>1. CASE up # <<>>
  BY <1>1 DEF Grows, Collected, KeyFinds, OnDesk, deskVars
<1>2. CASE up = <<>>
  BY <1>2, FirstComes DEF Grows, Collected, deskVars
<1> QED BY <1>1, <1>2

\* A message that is no piece is taken.
LEMMA OtherTaken ==
  ASSUME Collected, Takes, ~IsClip(Head(up)), UNCHANGED deskVars
  PROVE  Collected' /\ KeyFinds'
<1>1. in' = <<>>
  BY DEF Takes, Collected, deskVars
<1>2. CASE up' = <<>>
  BY <1>1, <1>2 DEF Collected, KeyFinds
<1>3. CASE up' # <<>>
  BY <1>1, <1>3, FirstComes DEF Takes, Succeeds
<1> QED BY <1>2, <1>3

\* What comes after a piece that is not the last, and after the last.
LEMMA PieceTaken ==
  ASSUME Takes, Collected, NEW n \in PageTexts, NEW j \in 1..Pieces[n], Head(up) = ClipMsg(n, j)
  PROVE  /\ up' # <<>>
         /\ j < Pieces[n] => Head(up') = ClipMsg(n, j + 1) /\ j + 1 \in 1..Pieces[n]
         /\ j = Pieces[n] => Head(up') = KeyMsg(n)
         /\ Head(up).text = <<n, j>> /\ Head(up).more = (j < Pieces[n])
         /\ Pieces[n] <= MaxPieces => in = First(n, j - 1)
         /\ n \in DOMAIN Pieces /\ Pieces[n] \in Nat /\ j \in Nat /\ j <= Pieces[n]
<1>1. n \in DOMAIN Pieces /\ Pieces[n] \in Nat /\ j \in Nat /\ j <= Pieces[n]
  <2>1. n \in DOMAIN Pieces /\ Pieces[n] \in Nat
    BY PieceCounts
  <2> QED BY <2>1
<1>2. IsClip(Head(up))
  BY DEF IsClip
<1>3. up' # <<>> /\ Head(up') = IF j < Pieces[n] THEN ClipMsg(n, j + 1) ELSE KeyMsg(n)
  BY <1>2 DEF Takes, Succeeds
<1>4. Head(up).text = <<n, j>> /\ Head(up).more = (j < Pieces[n])
  BY DEF ClipMsg
<1>5. Pieces[n] <= MaxPieces => in = First(n, j - 1)
  BY DEF Collected, Takes
<1>6. j < Pieces[n] => j + 1 \in 1..Pieces[n]
  BY <1>1
<1> QED BY <1>1, <1>3, <1>4, <1>5, <1>6

\* A piece that is not the last comes, whether what came before it is kept or not.
LEMMA PieceKeeps ==
  ASSUME Takes, Collected, NEW n \in PageTexts, NEW j \in 1..Pieces[n], Head(up) = ClipMsg(n, j),
         j < Pieces[n], Pieces[n] <= MaxPieces => in' = First(n, j)
  PROVE  Collected' /\ KeyFinds'
<1>1. /\ up' # <<>> /\ Head(up') = ClipMsg(n, j + 1) /\ j + 1 \in 1..Pieces[n]
      /\ n \in DOMAIN Pieces /\ Pieces[n] \in Nat /\ j \in Nat
  BY PieceTaken
<1>2. IsClip(Head(up')) /\ ~IsKey(Head(up'))
  BY <1>1, MsgFacts
<1>3. ASSUME NEW k \in PageTexts, NEW l \in 1..Pieces[k], Head(up') = ClipMsg(k, l)
      PROVE  k = n /\ l = j + 1
  BY <1>1, <1>3, MsgFacts
<1>4. \A k \in PageTexts : Head(up') # ClipMsg(k, 1)
  <2>1. \A k \in PageTexts : 1 \in 1..Pieces[k]
    BY PieceCounts
  <2> QED BY <1>1, <1>3, <2>1
<1>5. ASSUME NEW k \in PageTexts, NEW l \in 1..Pieces[k], Head(up') = ClipMsg(k, l), Pieces[k] <= MaxPieces
      PROVE  in' = First(k, l - 1)
  <2>1. k = n /\ l = j + 1
    BY <1>3, <1>5
  <2>2. l - 1 = j
    BY <1>1, <2>1
  <2> QED BY <1>5, <2>1, <2>2
<1> QED BY <1>1, <1>2, <1>4, <1>5 DEF Collected, KeyFinds, IsKey

LEMMA OverflowKeeps ==
  ASSUME TextsTyped, UpTyped, Collected, Overflow
  PROVE  Collected' /\ KeyFinds'
<1>1. Takes /\ Head(up).t = "clip" /\ up # <<>> /\ in' = <<>> /\ Len(in) + 1 > MaxPieces
  BY TakeTakes DEF Overflow, Takes
<1>2. PICK n \in PageTexts : \E j \in 1..Pieces[n] : Head(up) = ClipMsg(n, j)
  BY <1>1, HeadPiece DEF IsClip
<1>3. PICK j \in 1..Pieces[n] : Head(up) = ClipMsg(n, j)
  BY <1>2
<1>4. /\ up' # <<>> /\ (j = Pieces[n] => Head(up') = KeyMsg(n)) /\ n \in DOMAIN Pieces
      /\ Pieces[n] \in Nat /\ j \in Nat /\ j <= Pieces[n] /\ (Pieces[n] <= MaxPieces => in = First(n, j - 1))
  BY <1>1, <1>3, PieceTaken
\* A text that fits does not get here.
<1>5. Pieces[n] > MaxPieces
  <2>1. SUFFICES ASSUME Pieces[n] <= MaxPieces PROVE FALSE
    BY <1>4, PieceCounts
  <2>2. Len(in) = j - 1
    BY <1>4, <2>1, FirstPieces
  <2> QED BY <1>1, <1>4, <2>1, <2>2, PieceCounts
<1>6. MaxPieces \in Nat
  BY PieceCounts
<1>7. CASE j < Pieces[n]
  BY <1>1, <1>3, <1>4, <1>5, <1>6, <1>7, PieceKeeps
<1>8. CASE j = Pieces[n]
  <2>1. IsKey(Head(up')) /\ ~IsClip(Head(up')) /\ \A k \in PageTexts : Head(up') = KeyMsg(k) => k = n
    BY <1>4, <1>8, MsgFacts
  <2>2. \A k \in PageTexts : \A l \in 1..Pieces[k] : Head(up') # ClipMsg(k, l)
    BY <2>1, MsgFacts
  <2>3. \A k \in PageTexts : 1 \in 1..Pieces[k]
    BY PieceCounts
  <2>4. Collected'
    BY <1>1, <2>2, <2>3 DEF Collected
  <2>5. KeyFinds'
    BY <1>4, <1>5, <1>6, <2>1 DEF KeyFinds
  <2> QED BY <2>4, <2>5
<1> QED BY <1>4, <1>7, <1>8

LEMMA CollectKeeps ==
  ASSUME TextsTyped, UpTyped, Collected, Collect
  PROVE  Collected' /\ KeyFinds'
<1>1. /\ Takes /\ Head(up).t = "clip" /\ up # <<>> /\ in' = Append(in, Head(up).text) /\ Head(up).more
  BY TakeTakes DEF Collect, Takes
<1>2. PICK n \in PageTexts : \E j \in 1..Pieces[n] : Head(up) = ClipMsg(n, j)
  BY <1>1, HeadPiece DEF IsClip
<1>3. PICK j \in 1..Pieces[n] : Head(up) = ClipMsg(n, j)
  BY <1>2
<1>4. /\ j < Pieces[n] /\ Head(up).text = <<n, j>> /\ n \in DOMAIN Pieces
      /\ (Pieces[n] <= MaxPieces => in = First(n, j - 1))
  <2>1. Head(up).more = (j < Pieces[n])
    BY <1>3 DEF ClipMsg
  <2>2. j < Pieces[n]
    BY <1>1, <2>1
  <2> QED BY <1>1, <1>3, <2>2, PieceTaken
<1>5. Pieces[n] <= MaxPieces => in' = First(n, j)
  BY <1>1, <1>4, FirstPieces
<1> QED BY <1>1, <1>3, <1>4, <1>5, PieceKeeps

LEMMA ReceiveKeeps ==
  ASSUME TextsTyped, UpTyped, Collected, Receive
  PROVE  Collected' /\ KeyFinds'
<1>1. /\ Takes /\ Head(up).t = "clip" /\ up # <<>> /\ ~Head(up).more /\ in' = <<>>
      /\ writing' = Append(in, Head(up).text) /\ pasted' = pasted \cup {writing'}
  BY TakeTakes DEF Receive, Takes
<1>2. PICK n \in PageTexts : \E j \in 1..Pieces[n] : Head(up) = ClipMsg(n, j)
  BY <1>1, HeadPiece DEF IsClip
<1>3. PICK j \in 1..Pieces[n] : Head(up) = ClipMsg(n, j)
  BY <1>2
<1>4. /\ j = Pieces[n] /\ Head(up).text = <<n, j>> /\ n \in DOMAIN Pieces
      /\ (Pieces[n] <= MaxPieces => in = First(n, j - 1))
      /\ up' # <<>> /\ Head(up') = KeyMsg(n)
  <2>1. Head(up).more = (j < Pieces[n])
    BY <1>3 DEF ClipMsg
  <2>2. ~(j < Pieces[n])
    BY <1>1, <2>1
  <2>3. j <= Pieces[n] /\ Pieces[n] \in Nat /\ j \in Nat
    BY <1>1, <1>3, PieceTaken
  <2>4. j = Pieces[n]
    BY <2>2, <2>3
  <2> QED BY <1>1, <1>3, <2>4, PieceTaken
\* Its text is put together, and about to be written.
<1>5. Pieces[n] <= MaxPieces => writing' = Text(n)
  BY <1>1, <1>4, FirstPieces
<1>6. IsKey(Head(up')) /\ ~IsClip(Head(up')) /\ \A k \in PageTexts : Head(up') = KeyMsg(k) => k = n
  BY <1>4, MsgFacts
<1>7. \A k \in PageTexts : \A l \in 1..Pieces[k] : Head(up') # ClipMsg(k, l)
  BY <1>6, MsgFacts
<1>8. \A k \in PageTexts : 1 \in 1..Pieces[k]
  BY PieceCounts
<1>9. Collected'
  BY <1>1, <1>7, <1>8 DEF Collected
<1>10. KeyFinds'
  BY <1>1, <1>5, <1>6 DEF KeyFinds, OnDesk
<1> QED BY <1>9, <1>10

LEMMA DeliversKeep ==
  ASSUME TextsTyped, UpTyped, Collected, KeyFinds, PasteFindsText, [Next]_vars
  PROVE  Collected' /\ KeyFinds' /\ PasteFindsText'
<1>1. ASSUME misses' = misses PROVE PasteFindsText'
  BY <1>1 DEF PasteFindsText
<1>2. ASSUME UNCHANGED <<in, desk, writing, spoilt, pasted, up>> PROVE Collected' /\ KeyFinds'
  BY <1>2 DEF Collected, KeyFinds, OnDesk
<1>3. ASSUME NEW m \in DeskTexts, Copy(m) PROVE Collected' /\ KeyFinds' /\ PasteFindsText'
  <2>1. /\ spoilt' = spoilt \cup {n \in PageTexts : Text(n) \in pasted}
        /\ UNCHANGED <<up, in, writing, pasted, misses>>
    BY <1>3 DEF Copy, hostVars
  <2>2. Collected'
    BY <2>1 DEF Collected
  <2>3. KeyFinds'
    BY <2>1 DEF KeyFinds, OnDesk
  <2> QED BY <2>1, <2>2, <2>3, <1>1
<1>4. ASSUME NEW n \in PageTexts, Paste(n) PROVE Collected' /\ KeyFinds' /\ PasteFindsText'
  <2>1. UNCHANGED deskVars /\ misses' = misses
    BY <1>4 DEF Paste, deskVars, hostVars, histVars
  <2> QED BY <1>1, <1>4, <2>1, PasteGrows, GrowsKeeps
<1>5. CASE Ask
  <2>1. UNCHANGED deskVars /\ misses' = misses
    BY <1>5 DEF Ask, deskVars, hostVars, histVars
  <2> QED BY <1>1, <1>5, <2>1, AskGrows, GrowsKeeps
<1>6. CASE Overflow \/ Collect \/ Receive
  <2>1. misses' = misses
    BY <1>6 DEF Overflow, Collect, Receive, histVars
  <2> QED BY <1>1, <1>6, <2>1, OverflowKeeps, CollectKeeps, ReceiveKeeps
<1>7. CASE Write
  <2>1. /\ writing # None /\ writing' = None /\ UNCHANGED <<up, in, pasted, misses>>
        /\ \/ desk' = writing /\ spoilt' = spoilt
           \/ spoilt' = spoilt \cup {n \in PageTexts : Text(n) = writing} /\ desk' = desk
    BY <1>7 DEF Write
  <2>2. Collected'
    BY <2>1 DEF Collected
  <2>3. KeyFinds'
    BY <2>1 DEF KeyFinds, OnDesk
  <2> QED BY <2>1, <2>2, <2>3, <1>1
<1>8. CASE Get \/ SpawnNow
  <2>1. /\ UNCHANGED deskVars /\ misses' = misses
        /\ Take("clipget") \/ Take("clipnow")
    BY <1>8 DEF Get, SpawnNow, deskVars, hostVars, histVars
  <2>2. Takes /\ ~IsClip(Head(up))
    BY <2>1, TakeTakes, MsgFacts
  <2> QED BY <1>1, <2>1, <2>2, OtherTaken
<1>9. CASE Keystroke
  <2>1. /\ UNCHANGED deskVars /\ Take("key") /\ writing = None
        /\ misses' = misses \cup ({Head(up).of} \ (spoilt \cup {m \in PageTexts : desk = Text(m)}))
    BY <1>9 DEF Keystroke, Take, deskVars, hostVars
  <2>2. Takes /\ Head(up).t = "key"
    BY <2>1, TakeTakes
  <2>3. ~IsClip(Head(up)) /\ IsKey(Head(up))
    BY <2>2, MsgFacts DEF Takes
  <2>4. PICK n \in PageTexts : Head(up) = KeyMsg(n)
    BY <2>3 DEF IsKey
  <2>5. Head(up).of = n /\ n \in DOMAIN Pieces /\ up # <<>>
    BY <2>2, <2>4, MsgFacts, PieceCounts DEF Takes
  <2>6. ASSUME Pieces[n] <= MaxPieces PROVE n \in spoilt \/ desk = Text(n)
    BY <2>1, <2>4, <2>5, <2>6, TextFacts DEF KeyFinds, OnDesk
  <2>7. Pieces[n] \in Nat /\ MaxPieces \in Nat
    BY <2>5, PieceCounts
  <2>8. PasteFindsText'
    BY <2>1, <2>5, <2>6, <2>7 DEF PasteFindsText
  <2> QED BY <2>1, <2>2, <2>3, <2>8, OtherTaken
<1>10. CASE Run
  <2>1. UNCHANGED <<in, desk, writing, spoilt, pasted, up, misses>>
    BY <1>10 DEF Run, FirstRead, FirstLook, Poked, RunRead, RunNews, RunSame, RunExpires, hostVars, histVars
  <2> QED BY <1>1, <1>2, <2>1
<1>11. CASE \/ (\E g \in Nows : NowRead(g) \/ NowKnows(g))
            \/ (\E g \in Senders : Lock(g) \/ Send(g))
            \/ UNCHANGED vars
  <2>1. UNCHANGED <<in, desk, writing, spoilt, pasted, up, misses>>
    BY <1>11 DEF NowRead, NowKnows, Lock, Send, hostVars, histVars, vars
  <2> QED BY <1>1, <1>2, <2>1
<1> QED BY <1>3, <1>4, <1>5, <1>6, <1>7, <1>8, <1>9, <1>10, <1>11 DEF Next, Handler

---------------------------------------------------------------------------
(* Clipboard: nothing is echoed. *)

LEMMA RestKeeps ==
  ASSUME RestTyped, [Next]_vars
  PROVE  RestTyped'
<1>t. /\ known \in BOOLEAN /\ poke \in BOOLEAN /\ waits \in BOOLEAN
      /\ asked \in BOOLEAN /\ raced \in BOOLEAN /\ again \in BOOLEAN
  BY DEF RestTyped
<1>b. /\ budget \in [todo : SUBSET (DeskTexts \cup PageTexts \cup Nows), gets : 0..MaxGets]
      /\ MaxGets \in Nat
  BY PieceCounts DEF RestTyped
<1>1. ASSUME NEW x, Spend(x)
      PROVE  budget' \in [todo : SUBSET (DeskTexts \cup PageTexts \cup Nows), gets : 0..MaxGets]
  BY <1>1, <1>b DEF Spend
<1>2. CASE (\E n \in DeskTexts : Copy(n)) \/ (\E n \in PageTexts : Paste(n))
  <2>1. /\ UNCHANGED <<known, poke, waits, asked, raced, again>>
        /\ \E x : Spend(x)
    BY <1>2 DEF Copy, Paste, hostVars, runVars, pageVars, histVars
  <2> QED BY <1>1, <1>t, <2>1 DEF RestTyped
<1>3. CASE Ask
  <2>1. asked' = TRUE /\ UNCHANGED <<known, poke, waits, raced, again>>
    BY <1>3 DEF Ask, hostVars, runVars, histVars
  <2>2. CASE budget.gets > 0 /\ budget' = [budget EXCEPT !.gets = @ - 1]
    <3>1. budget' \in [todo : SUBSET (DeskTexts \cup PageTexts \cup Nows), gets : 0..MaxGets]
      BY <2>2, <1>b
    <3> QED BY <2>1, <3>1, <1>t DEF RestTyped
  <2>3. CASE \E g \in Nows : Spend(g)
    <3>1. budget' \in [todo : SUBSET (DeskTexts \cup PageTexts \cup Nows), gets : 0..MaxGets]
      BY <2>3, <1>1
    <3> QED BY <2>1, <3>1, <1>t DEF RestTyped
  <2> QED BY <1>3, <2>2, <2>3 DEF Ask
<1>4. ASSUME budget' = budget, known' \in BOOLEAN, poke' \in BOOLEAN, waits' \in BOOLEAN,
             asked' \in BOOLEAN, raced' \in BOOLEAN, again' \in BOOLEAN
      PROVE  RestTyped'
  BY <1>4, <1>b DEF RestTyped
<1>5. CASE Overflow \/ Collect \/ Receive \/ Write \/ Keystroke \/ Get \/ SpawnNow
  <2>1. budget' = budget /\ UNCHANGED <<waits, asked, again>>
    BY <1>5 DEF Overflow, Collect, Receive, Write, Keystroke, Get, SpawnNow, runVars, pageVars, histVars
  <2>2. known' \in BOOLEAN /\ poke' \in BOOLEAN
    BY <1>5, <1>t DEF Overflow, Collect, Receive, Write, Keystroke, Get, SpawnNow, hostVars, runVars
  <2>3. raced' \in BOOLEAN
    BY <1>5, <1>t DEF Overflow, Collect, Receive, Write, Keystroke, Get, SpawnNow, histVars
  <2> QED BY <1>4, <1>t, <2>1, <2>2, <2>3
<1>6. ASSUME NEW more, NEW piece, PageHears(piece, more) PROVE asked' \in BOOLEAN
  BY <1>6, <1>t DEF PageHears
<1>7. CASE \E g \in Nows : NowRead(g) \/ NowKnows(g)
  <2>1. budget' = budget /\ UNCHANGED <<known, poke, waits, again>>
    BY <1>7 DEF NowRead, NowKnows, hostVars, runVars, histVars
  <2>2. asked' \in BOOLEAN
    BY <1>7, <1>t DEF NowRead, NowKnows, PageHearsNone, pageVars
  <2>3. raced' \in BOOLEAN
    BY <1>7, <1>t DEF NowRead, NowKnows, histVars
  <2> QED BY <1>4, <1>t, <2>1, <2>2, <2>3
<1>8. CASE \E g \in Senders : Lock(g) \/ Send(g)
  <2>1. budget' = budget /\ UNCHANGED <<known, poke, waits, again, raced>>
    BY <1>8 DEF Lock, Send, hostVars, runVars, histVars
  <2>2. asked' \in BOOLEAN
    BY <1>8, <1>t, <1>6 DEF Lock, Send, pageVars
  <2> QED BY <1>4, <1>t, <2>1, <2>2
<1>9. CASE Run
  <2>1. budget' = budget
    BY <1>9 DEF Run, FirstRead, FirstLook, Poked, RunRead, RunNews, RunSame, RunExpires
  <2>2. known' \in BOOLEAN /\ poke' \in BOOLEAN /\ waits' \in BOOLEAN
    BY <1>9, <1>t DEF Run, FirstRead, FirstLook, Poked, RunRead, RunNews, RunSame, RunExpires,
       hostVars, runVars
  <2>3. asked' \in BOOLEAN
    BY <1>9, <1>t DEF Run, FirstRead, FirstLook, Poked, RunRead, RunNews, RunSame, RunExpires,
       PageHearsNone, pageVars
  <2>4. raced' \in BOOLEAN /\ again' \in BOOLEAN
    BY <1>9, <1>t DEF Run, FirstRead, FirstLook, Poked, RunRead, RunNews, RunSame, RunExpires, histVars
  <2> QED BY <1>4, <2>1, <2>2, <2>3, <2>4
<1>10. CASE UNCHANGED vars
  BY <1>10, <1>t, <1>4 DEF vars, hostVars, runVars, pageVars, histVars
<1> QED BY <1>2, <1>3, <1>5, <1>7, <1>8, <1>9, <1>10 DEF Next, Handler

\* run's reading is no other than before.
RunStill == st'["run"] = "read" => st["run"] = "read" /\ text'["run"] = text["run"]

LEMMA FreshKeeps ==
  ASSUME TextsTyped, GoTyped, RestTyped, Fresh, [Next]_vars
  PROVE  Fresh'
<1>t. /\ st \in [Senders -> Stages] /\ text \in [Senders -> Seq(Parts)] /\ "run" \in Senders
      /\ Nows \subseteq Senders /\ "run" \notin Nows
  BY PieceCounts DEF GoTyped, StTyped
<1>n. \A n \in DeskTexts : n \in DOMAIN Pieces /\ n \notin PageTexts
  BY PieceCounts
<1>f. \A n \in DeskTexts \cap budget.todo :
        /\ desk # Text(n) /\ Text(n) \notin told
        /\ st["run"] = "read" => text["run"] # Text(n)
  BY DEF Fresh
<1>s. ASSUME NEW x, Spend(x) PROVE budget'.todo = budget.todo \ {x}
  <2>1. budget \in [todo : SUBSET (DeskTexts \cup PageTexts \cup Nows), gets : 0..MaxGets]
    BY DEF RestTyped
  <2> QED BY <1>s, <2>1 DEF Spend
<1>1. ASSUME NEW n \in DeskTexts, Copy(n) PROVE Fresh'
  <2>1. budget'.todo = budget.todo \ {n} /\ desk' = Text(n) /\ UNCHANGED <<told, st, text>>
    BY <1>1, <1>s DEF Copy, sendVars
  <2>2. \A m \in DeskTexts : m # n => Text(m) # Text(n)
    BY <1>n, TextFacts
  <2> QED BY <1>f, <2>1, <2>2 DEF Fresh
<1>2. ASSUME budget'.todo \subseteq budget.todo, UNCHANGED <<desk, told>>, RunStill PROVE Fresh'
  BY <1>2, <1>f DEF Fresh, RunStill
<1>3. CASE (\E n \in PageTexts : Paste(n)) \/ Ask
  <2>1. UNCHANGED <<desk, told, st, text>>
    BY <1>3 DEF Paste, Ask, sendVars, histVars
  <2>2. budget'.todo \subseteq budget.todo
    <3>1. CASE \E x : Spend(x)
      BY <3>1, <1>s
    <3>2. CASE budget' = [budget EXCEPT !.gets = @ - 1]
      BY <3>2 DEF RestTyped
    <3> QED BY <1>3, <3>1, <3>2 DEF Paste, Ask
  <2> QED BY <1>2, <2>1, <2>2 DEF RunStill
<1>4. CASE Overflow \/ Collect \/ Receive \/ Keystroke \/ Get
  <2>1. UNCHANGED <<budget, desk, told, st, text>>
    BY <1>4 DEF Overflow, Collect, Receive, Keystroke, Get, sendVars, histVars
  <2> QED BY <1>2, <2>1 DEF RunStill
<1>5. CASE SpawnNow
  <2>1. UNCHANGED <<budget, desk, told, text>> /\ RunStill
    BY <1>5, <1>t DEF SpawnNow, Go, RunStill, histVars
  <2> QED BY <1>2, <2>1
<1>6. CASE Write
  <2>1. desk' \in {desk, writing} /\ writing # None /\ UNCHANGED <<budget, told, st, text>>
    BY <1>6 DEF Write, sendVars
  \* What the handler writes the device has pasted.
  <2>2. Taken(writing)
    BY <2>1 DEF TextsTyped
  <2>3. \A n \in DeskTexts : writing # Text(n)
    BY <1>n, <2>2, TakenFacts
  <2> QED BY <1>f, <2>1, <2>3 DEF Fresh
<1>7. CASE RunRead
  <2>1. text'["run"] = desk /\ UNCHANGED <<budget, desk, told>>
    BY <1>7, <1>t DEF RunRead
  <2> QED BY <1>f, <2>1 DEF Fresh
<1>8. CASE RunNews
  <2>1. /\ st["run"] = "read" /\ st'["run"] = "lock" /\ told' = told \cup {text["run"]}
        /\ UNCHANGED <<budget, desk>>
    BY <1>8, <1>t DEF RunNews, Go
  <2> QED BY <1>f, <2>1 DEF Fresh
<1>9. CASE FirstRead \/ FirstLook \/ Poked \/ RunSame \/ RunExpires
  <2>1. UNCHANGED <<budget, desk, told>>
    BY <1>9 DEF FirstRead, FirstLook, Poked, RunSame, RunExpires, histVars
  <2>2. CASE Poked
    BY <1>2, <2>1, <2>2 DEF Poked, sendVars, RunStill
  <2>3. CASE ~Poked
    <3>1. st'["run"] # "read"
      BY <1>9, <2>3, <1>t DEF FirstRead, FirstLook, RunSame, RunExpires, Go
    <3> QED BY <1>2, <2>1, <3>1 DEF RunStill
  <2> QED BY <2>2, <2>3
<1>10. ASSUME NEW g \in Nows, NowRead(g) \/ NowKnows(g) PROVE Fresh'
  <2>1. UNCHANGED <<budget, desk, told>>
    BY <1>10 DEF NowRead, NowKnows, histVars
  <2>2. st'["run"] = st["run"] /\ text'["run"] = text["run"]
    BY <1>10, <1>t DEF NowRead, NowKnows, Go
  <2> QED BY <1>2, <2>1, <2>2 DEF RunStill
<1>11. ASSUME NEW g \in Senders, Lock(g) \/ Send(g) PROVE Fresh'
  <2>1. UNCHANGED <<budget, desk, told>>
    BY <1>11 DEF Lock, Send, histVars
  <2>2. RunStill
    BY <1>11, <1>t DEF Lock, Send, Go, RunStill
  <2> QED BY <1>2, <2>1, <2>2
<1>12. CASE UNCHANGED vars
  BY <1>12, <1>2 DEF vars, sendVars, histVars, RunStill
<1> QED BY <1>1, <1>3, <1>4, <1>5, <1>6, <1>7, <1>8, <1>9, <1>10, <1>11, <1>12 DEF Next, Handler, Run

LEMMA EarlyKeeps ==
  ASSUME GoTyped, Early, [Next]_vars
  PROVE  Early'
<1>t. st \in [Senders -> Stages] /\ "run" \in Senders /\ Nows \subseteq Senders /\ "run" \notin Nows
  BY PieceCounts DEF GoTyped, StTyped
<1>1. ASSUME UNCHANGED <<known, pasted, told>>,
             st'["run"] \in {"first", "looked"} => st["run"] \in {"first", "looked"}
      PROVE  Early'
  BY <1>1 DEF Early
<1>2. CASE (\E n \in DeskTexts : Copy(n)) \/ (\E n \in PageTexts : Paste(n)) \/ Ask \/ UNCHANGED vars
  BY <1>1, <1>2 DEF Copy, Paste, Ask, hostVars, sendVars, histVars, vars
<1>3. CASE Overflow \/ Collect \/ Write \/ Keystroke \/ Get
  BY <1>1, <1>3 DEF Overflow, Collect, Write, Keystroke, Get, hostVars, sendVars, histVars
<1>4. CASE Receive
  BY <1>4 DEF Early, Receive, sendVars
<1>5. CASE SpawnNow
  <2>1. UNCHANGED <<known, pasted, told>>
    BY <1>5 DEF SpawnNow, hostVars, histVars
  <2>2. st'["run"] \in {"first", "looked"} => st["run"] \in {"first", "looked"}
    BY <1>5, <1>t DEF SpawnNow, Go
  <2> QED BY <1>1, <2>1, <2>2
<1>6. CASE FirstRead \/ Poked \/ RunRead \/ RunSame \/ RunExpires
  <2>1. UNCHANGED <<known, pasted, told>>
    BY <1>6 DEF FirstRead, Poked, RunRead, RunSame, RunExpires, hostVars, histVars
  <2>2. st'["run"] \in {"first", "looked"} => st["run"] \in {"first", "looked"}
    BY <1>6, <1>t DEF FirstRead, Poked, RunRead, RunSame, RunExpires, Go, sendVars
  <2> QED BY <1>1, <2>1, <2>2
<1>7. CASE FirstLook
  <2>1. known' = TRUE /\ st'["run"] = "wait"
    BY <1>7, <1>t DEF FirstLook, Go
  <2> QED BY <2>1 DEF Early
<1>8. CASE RunNews
  <2>1. UNCHANGED <<known, pasted>> /\ st'["run"] = "lock"
    BY <1>8, <1>t DEF RunNews, Go
  <2> QED BY <2>1 DEF Early
<1>9. ASSUME NEW g \in Senders, (g \in Nows /\ (NowRead(g) \/ NowKnows(g))) \/ Lock(g) \/ Send(g) PROVE Early'
  <2>1. UNCHANGED <<known, pasted, told>>
    BY <1>9 DEF NowRead, NowKnows, Lock, Send, hostVars, histVars
  <2>2. st'["run"] \in {"first", "looked"} => st["run"] \in {"first", "looked"}
    BY <1>9, <1>t DEF NowRead, NowKnows, Lock, Send, Go
  <2> QED BY <1>1, <2>1, <2>2
<1> QED BY <1>t, <1>2, <1>3, <1>4, <1>5, <1>6, <1>7, <1>8, <1>9 DEF Next, Handler, Run

\* Nobody reads that did not before.
ReadersStay == \A g \in Senders : st'[g] = "read" => st[g] = "read" /\ text'[g] = text[g]

Shared == <<last, known, writing, desk, pasted, told, again>>

LEMMA InStepStays ==
  ASSUME InStep, ReadersStay, UNCHANGED Shared
  PROVE  InStep'
<1>1. "run" \in Senders /\ Nows \subseteq Senders
  BY PieceCounts
<1> QED BY <1>1 DEF InStep, ReadersStay, Shared, Seen

\* The steps that do not touch what is known.
LEMMA OthersStay ==
  ASSUME GoTyped, [Next]_vars,
         ~(\E n \in DeskTexts : Copy(n)), ~Receive, ~Write, ~(\E g \in Nows : NowRead(g) \/ NowKnows(g)),
         ~FirstLook, ~RunRead, ~RunNews
  PROVE  ReadersStay /\ UNCHANGED Shared
<1>t. st \in [Senders -> Stages] /\ text \in [Senders -> Seq(Parts)] /\ "run" \in Senders
  BY PieceCounts DEF GoTyped, StTyped
<1>1. ASSUME UNCHANGED <<st, text>> PROVE ReadersStay
  BY <1>1 DEF ReadersStay
<1>2. CASE (\E n \in PageTexts : Paste(n)) \/ Ask \/ Poked \/ UNCHANGED vars
  BY <1>1, <1>2 DEF Paste, Ask, Poked, Shared, hostVars, sendVars, histVars, vars
<1>3. CASE Overflow \/ Collect \/ Keystroke \/ Get
  BY <1>1, <1>3 DEF Overflow, Collect, Keystroke, Get, Shared, hostVars, sendVars, histVars
<1>4. ASSUME NEW g, NEW from, NEW to, to # "read", Go(g, from, to),
             \A h \in Senders : h # g => text'[h] = text[h]
      PROVE  ReadersStay
  BY <1>4, <1>t DEF Go, ReadersStay
<1>5. CASE SpawnNow \/ FirstRead \/ RunSame \/ RunExpires
  <2>1. UNCHANGED Shared
    BY <1>5 DEF SpawnNow, FirstRead, RunSame, RunExpires, Shared, hostVars, histVars
  <2>2. \A h \in Senders : h # "run" => text'[h] = text[h]
    BY <1>5, <1>t DEF SpawnNow, FirstRead, RunSame, RunExpires
  <2>3. CASE SpawnNow
    BY <2>1, <2>3, <1>4 DEF SpawnNow
  <2>4. CASE FirstRead
    BY <2>1, <2>2, <2>4, <1>4 DEF FirstRead
  <2>5. CASE RunSame \/ RunExpires
    BY <2>1, <2>2, <2>5, <1>4 DEF RunSame, RunExpires
  <2> QED BY <1>5, <2>1, <2>3, <2>4, <2>5
<1>6. ASSUME NEW g \in Senders, Lock(g) \/ Send(g) PROVE ReadersStay /\ UNCHANGED Shared
  <2>1. UNCHANGED Shared
    BY <1>6 DEF Lock, Send, Shared, hostVars, histVars
  <2>2. ReadersStay
    BY <1>6, <1>t DEF Lock, Send, Go, ReadersStay
  <2> QED BY <2>1, <2>2
<1> QED BY <1>2, <1>3, <1>5, <1>6 DEF Next, Handler, Run

LEMMA InStepKeeps ==
  ASSUME TextsTyped, UpTyped, GoTyped, RestTyped, Fresh, Early, raced \/ InStep, [Next]_vars
  PROVE  raced' \/ InStep'
<1>t. /\ st \in [Senders -> Stages] /\ text \in [Senders -> Seq(Parts)] /\ "run" \in Senders
      /\ Nows \subseteq Senders /\ "run" \notin Nows
  BY PieceCounts DEF GoTyped, StTyped
<1> SUFFICES ASSUME ~raced' PROVE InStep'
  OBVIOUS
<1>r. ~raced
  BY DEF Next, Handler, Run, Copy, Paste, Ask, Overflow, Collect, Receive, Write, Keystroke, Get, SpawnNow,
         FirstRead, FirstLook, Poked, RunRead, RunNews, RunSame, RunExpires, NowRead,
         NowKnows, Lock, Send, histVars, vars
<1>i. InStep
  BY <1>r
<1>a. /\ ~again
      /\ writing # None => known /\ last = writing /\ \A g \in Senders : st[g] # "read"
      /\ \A g \in Senders : \A h \in Senders : st[g] = "read" /\ st[h] = "read" => g = h
      /\ writing = None /\ desk \in Seen => desk = last
      /\ st["run"] = "read" =>
           /\ text["run"] \in Seen => text["run"] = last
           /\ desk = text["run"] \/ desk \notin Seen \cup {text["run"]}
      /\ \A g \in Nows : st[g] = "read" => desk = text[g] \/ desk \notin Seen
  BY <1>i DEF InStep
\* A copy: nobody has seen the text.
<1>1. ASSUME NEW n \in DeskTexts, Copy(n) PROVE InStep'
  <2>1. /\ n \in budget.todo /\ desk' = Text(n)
        /\ UNCHANGED <<last, known, writing, st, text, pasted, told, again>>
    BY <1>1 DEF Copy, Spend, hostVars, sendVars
  <2>2. Text(n) \notin told /\ (st["run"] = "read" => text["run"] # Text(n))
    BY <2>1 DEF Fresh
  <2>3. Text(n) \notin pasted
    <3>1. n \in DOMAIN Pieces /\ n \notin PageTexts
      BY PieceCounts
    <3> QED BY <3>1, TakenFacts DEF TextsTyped
  <2>4. desk' \notin Seen' /\ Seen' = Seen
    BY <2>1, <2>2, <2>3 DEF Seen
  <2> QED BY <1>a, <2>1, <2>2, <2>4 DEF InStep
\* A paste that races with nobody: nobody has read.
<1>2. CASE Receive
  <2>1. /\ writing' = last' /\ known' = TRUE /\ UNCHANGED <<st, again>>
        /\ raced' = (raced \/ Holding(Senders))
    BY <1>2 DEF Receive, sendVars
  <2>2. \A g \in Senders : st'[g] # "read"
    BY <2>1 DEF Holding
  <2>3. writing' # None
    <3>1. TextsTyped'
      BY TextsKeep, UpKeeps
    <3> QED BY <3>1, <1>2, TakenFacts DEF TextsTyped, Receive
  <2> QED BY <1>a, <1>t, <2>1, <2>2, <2>3 DEF InStep
<1>3. CASE Write
  <2>1. /\ writing # None /\ writing' = None /\ desk' = writing
        /\ UNCHANGED <<last, known, st, text, pasted, told, again>>
    BY <1>3 DEF Write, sendVars
  <2>2. last = writing /\ \A g \in Senders : st[g] # "read"
    BY <1>a, <2>1
  <2> QED BY <1>a, <1>t, <2>1, <2>2 DEF InStep
<1>4. ASSUME NEW g \in Nows, NowRead(g) PROVE InStep'
  <2>1. /\ writing = None /\ \A h \in Senders : st[h] # "read"
        /\ UNCHANGED <<last, known, writing, desk, pasted, told, again>>
    BY <1>4 DEF NowRead, Holding, hostVars
  <2>2. \A h \in Senders : st'[h] = "read" => h = g /\ text'[h] = desk
    BY <1>4, <1>t, <2>1 DEF NowRead, Go
  <2>3. st'["run"] # "read" /\ Seen' = Seen
    BY <1>t, <2>1, <2>2 DEF Seen
  <2> QED BY <1>a, <1>t, <2>1, <2>2, <2>3 DEF InStep
<1>5. ASSUME NEW g \in Nows, NowKnows(g) PROVE InStep'
  <2>1. /\ st[g] = "read" /\ last' = text[g]
        /\ UNCHANGED <<known, writing, desk, text, pasted, told, again>>
    BY <1>5 DEF NowKnows, Go, histVars
  <2>2. writing = None /\ \A h \in Senders : st[h] = "read" => h = g
    BY <1>a, <1>t, <2>1
  <2>3. \A h \in Senders : st'[h] # "read"
    BY <1>5, <1>t, <2>2 DEF NowKnows, Go
  <2>4. Seen' = Seen /\ (desk = text[g] \/ desk \notin Seen)
    BY <1>a, <2>1 DEF Seen
  <2> QED BY <1>a, <1>t, <2>1, <2>2, <2>3, <2>4 DEF InStep
<1>6. CASE FirstLook
  <2>1. /\ st["run"] = "looked" /\ last' = (IF known THEN last ELSE text["run"]) /\ known' = TRUE
        /\ UNCHANGED <<writing, desk, text, pasted, told, again>>
    BY <1>6 DEF FirstLook, Go, histVars
  <2>2. \A h \in Senders : st'[h] = "read" => st[h] = "read" /\ h # "run"
    BY <1>6, <1>t DEF FirstLook, Go
  <2>3. Seen' = Seen /\ (~known => Seen = {})
    BY <2>1 DEF Seen, Early
  <2>4. CASE known
    BY <1>a, <1>t, <2>1, <2>2, <2>3, <2>4 DEF InStep
  <2>5. CASE ~known
    BY <1>a, <1>t, <2>1, <2>2, <2>3, <2>5 DEF InStep
  <2> QED BY <2>4, <2>5
<1>7. CASE RunRead
  <2>1. /\ writing = None /\ (\A h \in Nows : st[h] # "read") /\ st["run"] = "wait"
        /\ text'["run"] = desk
        /\ UNCHANGED <<last, known, writing, desk, pasted, told, again>>
    BY <1>7, <1>t DEF RunRead, Holding, Go, hostVars
  <2>2. \A h \in Senders : st'[h] = "read" => h = "run"
    BY <1>7, <1>t, <2>1 DEF RunRead, Go, Senders
  <2>3. Seen' = Seen
    BY <2>1 DEF Seen
  <2> QED BY <1>a, <1>t, <2>1, <2>2, <2>3 DEF InStep
\* What run has read and sends is news: had it been seen, it would be what is known.
<1>8. CASE RunNews
  <2>1. /\ st["run"] = "read" /\ text["run"] # last /\ last' = text["run"]
        /\ told' = told \cup {text["run"]}
        /\ again' = (again \/ text["run"] \in told \cup pasted)
        /\ UNCHANGED <<known, writing, desk, text, pasted>>
    BY <1>8 DEF RunNews, Go, Changed
  <2>2. text["run"] \notin Seen /\ (desk = text["run"] \/ desk \notin Seen \cup {text["run"]})
    BY <1>a, <2>1
  <2>3. ~again'
    BY <1>a, <2>1, <2>2 DEF Seen
  <2>4. writing = None /\ \A h \in Senders : st[h] = "read" => h = "run"
    BY <1>a, <1>t, <2>1
  <2>5. \A h \in Senders : st'[h] # "read"
    BY <1>8, <1>t, <2>4 DEF RunNews, Go
  <2>6. Seen' = Seen \cup {text["run"]}
    BY <2>1 DEF Seen
  <2> QED BY <1>t, <2>1, <2>2, <2>3, <2>4, <2>5, <2>6 DEF InStep
<1>9. CASE /\ ~(\E n \in DeskTexts : Copy(n)) /\ ~Receive /\ ~Write
           /\ ~(\E g \in Nows : NowRead(g) \/ NowKnows(g))
           /\ ~FirstLook /\ ~RunRead /\ ~RunNews
  BY <1>9, <1>i, OthersStay, InStepStays
<1> QED BY <1>1, <1>2, <1>3, <1>4, <1>5, <1>6, <1>7, <1>8, <1>9

---------------------------------------------------------------------------
(* Clipboard: the theorems. *)

LEMMA InitClipInv ==
  ASSUME Init
  PROVE  ClipInv
<1>1. /\ desk \in {None, Text("old")} /\ up = <<>> /\ in = <<>> /\ last = None
      /\ known = FALSE /\ writing = None
      /\ st = [g \in Senders |-> IF g = "run" THEN "first" ELSE "none"]
      /\ text = [g \in Senders |-> None]
      /\ out = "free" /\ clipIn = <<>> /\ got = {} /\ pasted = {} /\ told = {} /\ misses = {}
  BY DEF Init
<1>2. /\ "old" \in DOMAIN Pieces /\ MaxPieces \in Nat /\ "run" \in Senders
      /\ "run" \notin Nows /\ Nows \subseteq Senders
      /\ "free" \notin Senders /\ \A n \in DeskTexts : n \in DOMAIN Pieces /\ n # "old"
  BY PieceCounts
<1>3. <<>> \in Seq(Parts) /\ <<>> \in Seq(PageParts) /\ <<>> \in Seq(Messages) /\ Len(<<>>) = 0
  BY EmptySeq
<1>4. Text("old") \in Whole /\ \A n \in DeskTexts : Text(n) # None /\ Text(n) # Text("old")
  BY <1>2, TextFacts
<1>5. TextsTyped
  BY <1>1, <1>2, <1>3, <1>4 DEF TextsTyped, Texts, None
<1>6. UpTyped
  BY <1>1, <1>3 DEF UpTyped, InOrder
<1>7. \A g \in Senders : st[g] = IF g = "run" THEN "first" ELSE "none"
  BY <1>1
<1>8. GoTyped
  <2>1. st \in [Senders -> Stages]
    BY <1>1 DEF Stages
  <2>2. st["run"] \in RunStages /\ \A g \in Nows : st[g] \in NowStages
    BY <1>2, <1>7 DEF RunStages, NowStages
  <2>3. text \in [Senders -> Seq(Parts)]
    BY <1>1, <1>3 DEF None
  <2> QED BY <2>1, <2>2, <2>3 DEF GoTyped, StTyped
<1>9. RestTyped
  <2>1. budget \in [todo : SUBSET (DeskTexts \cup PageTexts \cup Nows), gets : 0..MaxGets]
    BY DEF Init
  <2>2. /\ known \in BOOLEAN /\ poke \in BOOLEAN /\ waits \in BOOLEAN
        /\ asked \in BOOLEAN /\ raced \in BOOLEAN /\ again \in BOOLEAN
    BY DEF Init
  <2> QED BY <2>1, <2>2 DEF RestTyped
<1>10. Collected /\ KeyFinds /\ PasteFindsText
  BY <1>1 DEF Collected, KeyFinds, PasteFindsText
<1>11. OneSends
  <2>1. \A g \in Senders : st[g] \notin {"looked", "read", "lock", "send"} /\ out # g
    BY <1>1, <1>2, <1>7
  <2> QED BY <1>1, <1>3, <2>1 DEF OneSends
<1>12. NowReads
  BY <1>2, <1>7 DEF NowReads
<1>13. Fresh
  <2>1. st["run"] # "read"
    BY <1>2, <1>7
  <2> QED BY <1>1, <1>4, <2>1 DEF Fresh
<1>14. Early
  BY <1>1 DEF Early
<1>15. InStep
  <2>1. \A g \in Senders : st[g] # "read"
    BY <1>7
  <2>2. Seen = {} /\ ~again
    BY <1>1 DEF Init, Seen
  <2> QED BY <1>1, <1>2, <2>1, <2>2 DEF InStep
<1> QED BY <1>5, <1>6, <1>8, <1>9, <1>10, <1>11, <1>12, <1>13, <1>14, <1>15 DEF ClipInv

LEMMA NextClipInv ==
  ASSUME ClipInv, [Next]_vars
  PROVE  ClipInv'
<1> USE DEF ClipInv
<1>1. TextsTyped'
  BY TextsKeep
<1>2. UpTyped'
  BY UpKeeps
<1>3. GoTyped' /\ OneSends'
  BY SendsKeep
<1>4. RestTyped'
  BY RestKeeps
<1>5. Collected' /\ KeyFinds' /\ PasteFindsText'
  BY DeliversKeep
<1>6. NowReads'
  BY NowReadsKeep
<1>7. Fresh'
  BY FreshKeeps
<1>8. Early'
  BY EarlyKeeps
<1>9. raced' \/ InStep'
  BY InStepKeeps
<1> QED BY <1>1, <1>2, <1>3, <1>4, <1>5, <1>6, <1>7, <1>8, <1>9

LEMMA ClipInvSays ==
  ASSUME ClipInv
  PROVE  TextsWhole /\ NoEcho
<1> USE DEF ClipInv
<1>1. Len(desk) <= MaxPieces \/ desk \in Whole
  <2>1. desk \in Whole \/ Taken(desk) \/ desk = <<>>
    BY DEF TextsTyped, Texts, None
  <2> QED BY <2>1, EmptySeq, PieceCounts DEF Taken
<1>2. TypeOK
  BY <1>1 DEF TypeOK, TextsTyped, GoTyped, StTyped, OneSends, RestTyped, RunStages, NowStages
<1>3. NothingMixed
  BY DEF NothingMixed, OneSends, Texts
<1>4. NoEcho
  BY DEF NoEcho, InStep
<1> QED BY <1>2, <1>3, <1>4 DEF TextsWhole

\* Whatever is copied, pasted and asked for, a text that passes in pieces arrives
\* whole and is on the desk when the keystroke after it looks for it.
THEOREM ClipWhole == Spec => []TextsWhole
<1>1. Init => ClipInv
  BY InitClipInv
<1>2. ClipInv /\ [Next]_vars => ClipInv'
  BY NextClipInv
<1>3. ClipInv => TextsWhole
  BY ClipInvSays
<1> QED BY <1>1, <1>2, <1>3, PTL DEF Spec

\* And run tells the device a text of the desk once, and no text of its own,
\* unless two readings or writings of the clipboard overlapped.
THEOREM ClipNoEcho == Spec => []NoEcho
<1>1. Init => ClipInv
  BY InitClipInv
<1>2. ClipInv /\ [Next]_vars => ClipInv'
  BY NextClipInv
<1>3. ClipInv => NoEcho
  BY ClipInvSays
<1> QED BY <1>1, <1>2, <1>3, PTL DEF Spec

---------------------------------------------------------------------------
(* Presence, with the state IdleFile gives it, beside Clipboard. *)

Pres == INSTANCE Presence

\* A handler is started by a change of its connection's state, each once.
HandlersStart ==
  \A s \in Sessions :
    /\ conn[s] \in {"none", "new"} => at[<<s, "connected">>] = "none"
    /\ conn[s] \in {"none", "new", "up"} => at[<<s, "lost">>] = "none"
    /\ conn[s] # "closed" => at[<<s, "closed">>] = "none"
    /\ at[<<s, "connected">>] # "close"

\* A handler that has still to look at who is connected.
Unseen == \E h \in Pres!Handlers : at[h] \in {"close", "look"}

\* What writeIdle knew at its last look is true until somebody comes or goes.
BusyKnown == Unseen \/ idleSince.busy = (Pres!Up # {})

\* A device whose coming has been seen is one for which the desk is busy.
KnownIsBusy == Pres!Known => idleSince.busy

\* The idleness nc-host knows of is no longer than the real one.
NotOlder == ~idleSince.busy => idleSince.age <= lonely

\* Only a line that is on its way can be overtaken. The one that was not is the
\* last that was composed.
NewestIsTrue ==
  /\ newer \subseteq {h \in Pres!Handlers : at[h] = "write"}
  /\ \A h \in Pres!Handlers \ newer : at[h] = "write" => line[h] = idleSince

\* With every other line written, or about to be written over it, the file holds
\* the last line that was composed.
LastLineStays ==
  ~booting /\ ~overtaken /\ (\A h \in Pres!Handlers : at[h] = "write" => h \in newer)
    => file = idleSince

PresInv ==
  /\ Pres!PresenceTypeOK /\ HandlersStart /\ BusyKnown /\ KnownIsBusy /\ NotOlder
  /\ NewestIsTrue /\ LastLineStays

---------------------------------------------------------------------------

\* The handlers of a session.
LEMMA HandlerOf ==
  /\ \A h \in Pres!Handlers : h[1] \in Sessions /\ h[2] \in {"connected", "lost", "closed"}
  /\ \A s \in Sessions : <<s, "connected">> \in Pres!Handlers /\ <<s, "lost">> \in Pres!Handlers
                         /\ <<s, "closed">> \in Pres!Handlers
  /\ \A h \in Pres!Handlers : h = <<h[1], h[2]>>
BY DEF Pres!Handlers

\* What a line becomes in a minute.
LEMMA OlderLine ==
  ASSUME Pres!PresenceAssumption, NEW l \in Pres!Lines
  PROVE  /\ Pres!Older(l) \in Pres!Lines /\ Pres!Older(l).busy = l.busy
         /\ ~l.busy => Pres!Older(l).age = IF l.age = Limit THEN Limit ELSE l.age + 1
         /\ l.busy \in BOOLEAN /\ l.age \in 0..Limit
BY DEF Pres!PresenceAssumption, Pres!Lines, Pres!Older

\* Lines.
LEMMA LineFacts ==
  ASSUME Pres!PresenceAssumption
  PROVE  /\ Pres!Busy \in Pres!Lines /\ Pres!Idle \in Pres!Lines
         /\ Pres!Busy.busy /\ ~Pres!Idle.busy /\ Pres!Idle.age = 0
         /\ \A l \in Pres!Lines : l.busy \in BOOLEAN /\ l.age \in 0..Limit
         /\ \A l \in Pres!Lines : Pres!Older(l) \in Pres!Lines
         /\ \A l \in Pres!Lines : Pres!Older(l).busy = l.busy
         /\ \A l \in Pres!Lines :
              ~l.busy => Pres!Older(l).age = IF l.age = Limit THEN Limit ELSE l.age + 1
<1>1. /\ Pres!Busy \in Pres!Lines /\ Pres!Idle \in Pres!Lines
      /\ Pres!Busy.busy /\ ~Pres!Idle.busy /\ Pres!Idle.age = 0
  BY DEF Pres!PresenceAssumption, Pres!Lines, Pres!Busy, Pres!Idle
<1> QED BY <1>1, OlderLine

\* What the line that is known becomes in a minute.
LEMMA OlderFacts ==
  ASSUME Pres!PresenceAssumption, idleSince \in Pres!Lines
  PROVE  /\ Pres!Older(idleSince) \in Pres!Lines /\ Pres!Older(idleSince).busy = idleSince.busy
         /\ ~idleSince.busy => Pres!Older(idleSince).age = IF idleSince.age = Limit THEN Limit ELSE idleSince.age + 1
         /\ idleSince.age \in 0..Limit /\ Limit \in Nat
<1>1. Limit \in Nat
  BY DEF Pres!PresenceAssumption
<1> QED BY <1>1, OlderLine

LEMMA IdleNowFacts ==
  ASSUME Pres!PresenceAssumption, idleSince \in Pres!Lines
  PROVE  /\ Pres!IdleNow \in Pres!Lines /\ Pres!IdleNow.busy = (Pres!Up # {})
         /\ ~Pres!IdleNow.busy => Pres!IdleNow.age = 0 \/ Pres!IdleNow = idleSince
BY LineFacts DEF Pres!IdleNow

LEMMA InitPresInv ==
  Pres!PresenceAssumption /\ Pres!Init
    => PresInv
<1> SUFFICES ASSUME Pres!PresenceAssumption, Pres!Init
             PROVE  PresInv
  OBVIOUS
<1> USE DEF Pres!Init
<1>1. Pres!PresenceTypeOK
  <2>1. Pres!Idle \in Pres!Lines
    BY LineFacts
  <2>2. crashes \in 0..MaxCrashes /\ lonely \in 0..Limit
    BY DEF Pres!PresenceAssumption
  <2> QED BY <2>1, <2>2 DEF Pres!PresenceTypeOK
<1>2. Pres!Up = {}
  BY DEF Pres!Up
<1>3. BusyKnown /\ KnownIsBusy
  BY <1>2, LineFacts DEF BusyKnown, KnownIsBusy, Pres!Known
<1>4. HandlersStart
  BY HandlerOf DEF HandlersStart
<1>5. NotOlder /\ NewestIsTrue /\ LastLineStays
  BY LineFacts DEF NotOlder, NewestIsTrue, LastLineStays
<1> QED BY <1>1, <1>3, <1>4, <1>5 DEF PresInv

---------------------------------------------------------------------------
(* Types. *)

LEMMA TypeStep ==
  Pres!PresenceAssumption /\ Pres!PresenceTypeOK /\ [Pres!Next]_(Pres!vars)
    => Pres!PresenceTypeOK'
<1> SUFFICES ASSUME Pres!PresenceAssumption, Pres!PresenceTypeOK, [Pres!Next]_(Pres!vars)
             PROVE  Pres!PresenceTypeOK'
  OBVIOUS
<1> USE DEF Pres!PresenceTypeOK, Pres!hostVars
<1>1. CASE UNCHANGED Pres!vars
  BY <1>1 DEF Pres!vars
<1>2. ASSUME NEW s \in Sessions, Pres!Device(s) PROVE Pres!PresenceTypeOK'
  BY <1>2, HandlerOf DEF Pres!Device, Pres!Offered, Pres!Connected, Pres!Lost
<1>3. ASSUME NEW h \in Pres!Handlers, Pres!CloseSession(h) PROVE Pres!PresenceTypeOK'
  BY <1>3, HandlerOf DEF Pres!CloseSession
<1>4. ASSUME NEW h \in Pres!Handlers, Pres!Look(h) PROVE Pres!PresenceTypeOK'
  BY <1>4, IdleNowFacts DEF Pres!PresenceAssumption, Pres!Look
<1>5. ASSUME NEW h \in Pres!Handlers, Pres!Write(h) PROVE Pres!PresenceTypeOK'
  BY <1>5, LineFacts DEF Pres!Write
<1>6. CASE Pres!Crash
  BY <1>6, LineFacts, HandlerOf DEF Pres!PresenceAssumption, Pres!Crash
<1>7. CASE Pres!Boots
  BY <1>7 DEF Pres!Boots
<1>8. CASE Pres!Check \/ Pres!Down
  BY <1>8 DEF Pres!Check, Pres!Down
<1>9. CASE Pres!Tick
  <2>1. idleSince' = Pres!Older(idleSince) /\ Pres!Older(idleSince) \in Pres!Lines
    BY <1>9, OlderFacts DEF Pres!Tick
  <2>2. lonely' \in 0..Limit
    BY <1>9 DEF Pres!PresenceAssumption, Pres!Tick
  <2>3. file' \in Pres!Lines
    BY <1>9, OlderLine DEF Pres!Tick
  <2>4. line' \in [Pres!Handlers -> Pres!Lines]
    BY <1>9, OlderLine DEF Pres!Tick
  <2>5. UNCHANGED <<conn, listed, at, booting, crashes, verdict, newer, overtaken>>
    BY <1>9 DEF Pres!Tick
  <2> QED BY <2>1, <2>2, <2>3, <2>4, <2>5
<1> QED BY <1>1, <1>2, <1>3, <1>4, <1>5, <1>6, <1>7, <1>8, <1>9 DEF Pres!Next, Pres!Handle

---------------------------------------------------------------------------
(* Handlers. *)

\* What closeSession does to the handlers: its own goes on, and that of the
\* closed state may start.
LEMMA CloseAt ==
  ASSUME Pres!PresenceAssumption, Pres!PresenceTypeOK, NEW h \in Pres!Handlers, Pres!CloseSession(h)
  PROVE  /\ at[h] = "close" /\ conn' = [conn EXCEPT ![h[1]] = "closed"]
         /\ at'[h] = "look"
         /\ \A g \in Pres!Handlers \ {h, <<h[1], "closed">>} : at'[g] = at[g]
         /\ \/ h = <<h[1], "closed">>
            \/ conn[h[1]] # "closed" /\ at'[<<h[1], "closed">>] = "close"
            \/ conn[h[1]] = "closed" /\ at'[<<h[1], "closed">>] = at[<<h[1], "closed">>]
<1>1. /\ at[h] = "close" /\ conn' = [conn EXCEPT ![h[1]] = "closed"]
      /\ at' = [g \in Pres!Handlers |-> IF g = h THEN "look"
                                   ELSE IF g = <<h[1], "closed">> /\ conn[h[1]] # "closed" THEN "close"
                                   ELSE at[g]]
  BY DEF Pres!CloseSession
<1>2. <<h[1], "closed">> \in Pres!Handlers
  BY HandlerOf
<1> QED BY <1>1, <1>2

LEMMA StartStep ==
  Pres!PresenceAssumption /\ Pres!PresenceTypeOK /\ HandlersStart /\ [Pres!Next]_(Pres!vars)
    => HandlersStart'
<1> SUFFICES ASSUME Pres!PresenceAssumption, Pres!PresenceTypeOK, HandlersStart, [Pres!Next]_(Pres!vars)
             PROVE  HandlersStart'
  OBVIOUS
<1> USE DEF HandlersStart
<1>1. CASE UNCHANGED Pres!vars
  BY <1>1 DEF Pres!vars
<1>2. ASSUME NEW s \in Sessions, Pres!Device(s) PROVE HandlersStart'
  <2> USE HandlerOf DEF Pres!PresenceTypeOK
  <2>1. CASE Pres!Offered(s)
    BY <2>1 DEF Pres!Offered
  <2>2. CASE Pres!Connected(s)
    BY <2>2 DEF Pres!Connected
  <2>3. CASE Pres!Lost(s)
    BY <2>3 DEF Pres!Lost
  <2> QED BY <1>2, <2>1, <2>2, <2>3 DEF Pres!Device
<1>3. ASSUME NEW h \in Pres!Handlers, Pres!CloseSession(h) PROVE HandlersStart'
  <2> SUFFICES ASSUME NEW s \in Sessions
               PROVE  /\ conn'[s] \in {"none", "new"} => at'[<<s, "connected">>] = "none"
                      /\ conn'[s] \in {"none", "new", "up"} => at'[<<s, "lost">>] = "none"
                      /\ conn'[s] # "closed" => at'[<<s, "closed">>] = "none"
                      /\ at'[<<s, "connected">>] # "close"
    OBVIOUS
  <2>1. /\ <<s, "connected">> \in Pres!Handlers /\ <<s, "lost">> \in Pres!Handlers
        /\ <<s, "closed">> \in Pres!Handlers /\ h = <<h[1], h[2]>> /\ h[1] \in Sessions
    BY HandlerOf
  <2>2. /\ at[h] = "close" /\ conn' = [conn EXCEPT ![h[1]] = "closed"]
        /\ \A g \in Pres!Handlers \ {h, <<h[1], "closed">>} : at'[g] = at[g]
    BY <1>3, CloseAt
  <2>3. at'[<<s, "connected">>] = at[<<s, "connected">>]
    <3>1. <<s, "connected">> # h
      BY <2>2
    <3>2. <<s, "connected">> # <<h[1], "closed">>
      OBVIOUS
    <3> QED BY <2>1, <2>2, <3>1, <3>2
  <2>4. CASE s = h[1]
    BY <2>1, <2>2, <2>3, <2>4 DEF Pres!PresenceTypeOK
  <2>5. CASE s # h[1]
    <3>1. /\ <<s, "lost">> \notin {h, <<h[1], "closed">>}
          /\ <<s, "closed">> \notin {h, <<h[1], "closed">>}
      BY <2>1, <2>5
    <3>2. conn'[s] = conn[s]
      BY <2>2, <2>5 DEF Pres!PresenceTypeOK
    <3>3. at'[<<s, "lost">>] = at[<<s, "lost">>] /\ at'[<<s, "closed">>] = at[<<s, "closed">>]
      BY <2>1, <2>2, <3>1
    <3> QED BY <2>3, <3>2, <3>3
  <2> QED BY <2>4, <2>5
<1>4. ASSUME NEW h \in Pres!Handlers, Pres!Look(h) PROVE HandlersStart'
  BY <1>4, HandlerOf DEF Pres!Look, Pres!PresenceTypeOK
<1>5. ASSUME NEW h \in Pres!Handlers, Pres!Write(h) PROVE HandlersStart'
  BY <1>5, HandlerOf DEF Pres!Write, Pres!PresenceTypeOK
<1>6. CASE Pres!Crash
  BY <1>6, HandlerOf DEF Pres!Crash, Pres!PresenceTypeOK
<1>7. CASE Pres!Boots \/ Pres!Check \/ Pres!Down \/ Pres!Tick
  BY <1>7 DEF Pres!Boots, Pres!Check, Pres!Down, Pres!Tick, Pres!hostVars
<1> QED BY <1>1, <1>2, <1>3, <1>4, <1>5, <1>6, <1>7 DEF Pres!Next, Pres!Handle

---------------------------------------------------------------------------
(* Who is connected. *)

\* Nobody is connected again: a peer connection that was lost is gone.
LEMMA UpStep ==
  ASSUME Pres!PresenceAssumption, Pres!PresenceTypeOK, [Pres!Next]_(Pres!vars)
  PROVE  \/ Pres!Up' \subseteq Pres!Up
         \/ \E s \in Sessions : Pres!Connected(s) /\ Pres!Up' \subseteq Pres!Up \cup {s}
<1> USE DEF Pres!PresenceTypeOK, Pres!hostVars, Pres!Up
<1>1. CASE UNCHANGED Pres!vars
  BY <1>1 DEF Pres!vars
<1>2. ASSUME NEW s \in Sessions, Pres!Device(s)
      PROVE  (Pres!Connected(s) /\ Pres!Up' \subseteq Pres!Up \cup {s}) \/ Pres!Up' \subseteq Pres!Up
  BY <1>2 DEF Pres!Device, Pres!Offered, Pres!Connected, Pres!Lost
<1>3. ASSUME NEW h \in Pres!Handlers, Pres!CloseSession(h) PROVE Pres!Up' \subseteq Pres!Up
  BY <1>3, HandlerOf DEF Pres!CloseSession
<1>4. CASE Pres!Crash
  BY <1>4 DEF Pres!Crash
<1>5. ASSUME NEW h \in Pres!Handlers, Pres!Look(h) \/ Pres!Write(h) PROVE Pres!Up' \subseteq Pres!Up
  BY <1>5 DEF Pres!Look, Pres!Write
<1>6. CASE Pres!Boots \/ Pres!Check \/ Pres!Down \/ Pres!Tick
  BY <1>6 DEF Pres!Boots, Pres!Check, Pres!Down, Pres!Tick
<1> QED BY <1>1, <1>2, <1>3, <1>4, <1>5, <1>6 DEF Pres!Next, Pres!Handle

LEMMA BusyStep ==
  Pres!PresenceAssumption /\ PresInv /\ [Pres!Next]_(Pres!vars)
    => BusyKnown' /\ KnownIsBusy'
<1> SUFFICES ASSUME Pres!PresenceAssumption, PresInv, [Pres!Next]_(Pres!vars)
             PROVE  BusyKnown' /\ KnownIsBusy'
  OBVIOUS
<1> USE DEF PresInv, BusyKnown, KnownIsBusy, Pres!hostVars
<1>1. CASE UNCHANGED Pres!vars
  BY <1>1 DEF Pres!vars, Unseen, Pres!Up, Pres!Known
<1>2. ASSUME NEW s \in Sessions, Pres!Offered(s) PROVE BusyKnown' /\ KnownIsBusy'
  <2>1. Pres!Up' = Pres!Up
    BY <1>2 DEF Pres!Offered, Pres!Up, Pres!PresenceTypeOK
  <2> QED BY <1>2, <2>1 DEF Pres!Offered, Unseen, Pres!Known
<1>3. ASSUME NEW s \in Sessions, Pres!Connected(s) PROVE BusyKnown' /\ KnownIsBusy'
  <2>1. Unseen'
    BY <1>3, HandlerOf DEF Pres!Connected, Unseen, Pres!PresenceTypeOK
  <2>2. Pres!Up' \subseteq Pres!Up \cup {s} /\ at'[<<s, "connected">>] = "look"
    BY <1>3, HandlerOf DEF Pres!Connected, Pres!Up, Pres!PresenceTypeOK
  <2>3. \A o \in Sessions \ {s} : at'[<<o, "connected">>] = at[<<o, "connected">>]
    BY <1>3, HandlerOf DEF Pres!Connected, Pres!PresenceTypeOK
  <2>4. Pres!Known' => Pres!Known
    BY <2>2, <2>3 DEF Pres!Known, Pres!PresenceTypeOK, Pres!Up
  <2>5. idleSince' = idleSince
    BY <1>3 DEF Pres!Connected
  <2> QED BY <2>1, <2>4, <2>5
<1>4. ASSUME NEW s \in Sessions, Pres!Lost(s) PROVE BusyKnown' /\ KnownIsBusy'
  <2>1. Unseen'
    BY <1>4, HandlerOf DEF Pres!Lost, Unseen, Pres!PresenceTypeOK
  <2>2. \A o \in Sessions : at'[<<o, "connected">>] = at[<<o, "connected">>]
    BY <1>4, HandlerOf DEF Pres!Lost, Pres!PresenceTypeOK
  <2>3. Pres!Up' \subseteq Pres!Up
    BY <1>4 DEF Pres!Lost, Pres!Up, Pres!PresenceTypeOK
  <2>4. Pres!Known' => Pres!Known
    BY <2>2, <2>3 DEF Pres!Known, Pres!PresenceTypeOK, Pres!Up
  <2> QED BY <1>4, <2>1, <2>4 DEF Pres!Lost
<1>5. ASSUME NEW h \in Pres!Handlers, Pres!CloseSession(h) PROVE BusyKnown' /\ KnownIsBusy'
  <2>1. Unseen'
    BY <1>5, HandlerOf DEF Pres!CloseSession, Unseen, Pres!PresenceTypeOK
  <2>2. Pres!Up' \subseteq Pres!Up \ {h[1]}
    BY <1>5, HandlerOf DEF Pres!CloseSession, Pres!Up, Pres!PresenceTypeOK
  <2>3. ASSUME NEW o \in Sessions \ {h[1]} PROVE at'[<<o, "connected">>] = at[<<o, "connected">>]
    <3>1. <<o, "connected">> \in Pres!Handlers /\ h = <<h[1], h[2]>>
      BY HandlerOf
    <3>2. <<o, "connected">> \notin {h, <<h[1], "closed">>}
      BY <3>1
    <3>3. \A g \in Pres!Handlers \ {h, <<h[1], "closed">>} : at'[g] = at[g]
      BY <1>5, CloseAt
    <3> QED BY <3>1, <3>2, <3>3
  <2>4. Pres!Known' => Pres!Known
    BY <2>2, <2>3 DEF Pres!Known, Pres!PresenceTypeOK, Pres!Up
  <2> QED BY <1>5, <2>1, <2>4 DEF Pres!CloseSession
<1>6. ASSUME NEW h \in Pres!Handlers, Pres!Look(h) PROVE BusyKnown' /\ KnownIsBusy'
  <2>1. Pres!Up' = Pres!Up /\ idleSince' = Pres!IdleNow
    BY <1>6 DEF Pres!Look, Pres!Up
  <2>2. Pres!IdleNow.busy = (Pres!Up # {})
    BY IdleNowFacts DEF Pres!PresenceTypeOK
  <2> QED BY <2>1, <2>2 DEF Pres!Known
<1>7. ASSUME NEW h \in Pres!Handlers, Pres!Write(h) PROVE BusyKnown' /\ KnownIsBusy'
  <2>1. Pres!Up' = Pres!Up /\ idleSince' = idleSince
    BY <1>7 DEF Pres!Write, Pres!Up
  <2>2. at[h] = "write" /\ at' = [at EXCEPT ![h] = "done"]
    BY <1>7 DEF Pres!Write
  <2>3. Unseen => Unseen'
    BY <2>2 DEF Unseen, Pres!PresenceTypeOK
  <2>4. Pres!Known' => Pres!Known
    BY <2>1, <2>2, HandlerOf DEF Pres!Known, Pres!PresenceTypeOK, Pres!Up
  <2> QED BY <2>1, <2>3, <2>4
<1>8. CASE Pres!Crash
  BY <1>8, LineFacts DEF Pres!Crash, Pres!Up, Pres!Known
<1>9. CASE Pres!Boots \/ Pres!Check \/ Pres!Down
  BY <1>9 DEF Pres!Boots, Pres!Check, Pres!Down, Unseen, Pres!Up, Pres!Known
<1>10. CASE Pres!Tick
  <2>1. Pres!Up' = Pres!Up /\ UNCHANGED at /\ idleSince' = Pres!Older(idleSince)
    BY <1>10 DEF Pres!Tick, Pres!Up
  <2>2. Pres!Older(idleSince).busy = idleSince.busy
    BY OlderFacts DEF Pres!PresenceTypeOK
  <2> QED BY <2>1, <2>2 DEF Unseen, Pres!Known
<1> QED BY <1>1, <1>2, <1>3, <1>4, <1>5, <1>6, <1>7, <1>8, <1>9, <1>10 DEF Pres!Next,
           Pres!Device, Pres!Handle

---------------------------------------------------------------------------
(* Since when nobody is. *)

LEMMA AgeStep ==
  Pres!PresenceAssumption /\ PresInv /\ [Pres!Next]_(Pres!vars)
    => NotOlder'
<1> SUFFICES ASSUME Pres!PresenceAssumption, PresInv, [Pres!Next]_(Pres!vars)
             PROVE  NotOlder'
  OBVIOUS
<1> USE DEF PresInv, NotOlder, Pres!hostVars
<1>1. CASE UNCHANGED <<idleSince, lonely>>
  BY <1>1
<1>2. ASSUME NEW h \in Pres!Handlers, Pres!Look(h) PROVE NotOlder'
  <2>1. idleSince' = Pres!IdleNow /\ lonely' = IF Pres!Up # {} THEN 0 ELSE lonely
    BY <1>2 DEF Pres!Look
  <2>2. /\ Pres!IdleNow.busy = (Pres!Up # {})
        /\ (~Pres!IdleNow.busy => Pres!IdleNow.age = 0 \/ Pres!IdleNow = idleSince)
    BY IdleNowFacts DEF Pres!PresenceTypeOK
  <2>3. lonely \in Nat
    BY DEF Pres!PresenceAssumption, Pres!PresenceTypeOK
  <2>4. CASE Pres!Up = {}
    BY <2>1, <2>2, <2>3, <2>4
  <2>5. CASE Pres!Up # {}
    BY <2>1, <2>2, <2>5
  <2> QED BY <2>4, <2>5
<1>3. CASE Pres!Crash
  BY <1>3, LineFacts DEF Pres!PresenceAssumption, Pres!Crash, Pres!PresenceTypeOK
<1>4. CASE Pres!Tick
  <2>1. /\ idleSince' = Pres!Older(idleSince)
        /\ lonely' = IF Pres!Known THEN 0 ELSE IF lonely = Limit THEN Limit ELSE lonely + 1
    BY <1>4 DEF Pres!Tick
  <2>2. idleSince \in Pres!Lines /\ lonely \in 0..Limit /\ Limit \in Nat
    BY DEF Pres!PresenceAssumption, Pres!PresenceTypeOK
  <2>3. /\ Pres!Older(idleSince).busy = idleSince.busy /\ idleSince.age \in 0..Limit
        /\ ~idleSince.busy => Pres!Older(idleSince).age = IF idleSince.age = Limit THEN Limit ELSE idleSince.age + 1
    BY <2>2, OlderFacts
  <2> QED BY <2>1, <2>2, <2>3 DEF KnownIsBusy
<1> QED BY <1>1, <1>2, <1>3, <1>4
        DEF Pres!Next, Pres!vars, Pres!Device, Pres!Handle, Pres!Offered, Pres!Connected, Pres!Lost,
            Pres!CloseSession, Pres!Write, Pres!Boots, Pres!Check, Pres!Down

---------------------------------------------------------------------------
(* What is written. *)

\* Composing a line makes the lines still on their way the older ones.
LEMMA LookWrites ==
  ASSUME Pres!PresenceAssumption, PresInv, NEW h \in Pres!Handlers, Pres!Look(h)
  PROVE  NewestIsTrue' /\ LastLineStays'
<1>1. /\ at[h] = "look" /\ at' = [at EXCEPT ![h] = "write"]
      /\ idleSince' = Pres!IdleNow /\ line' = [line EXCEPT ![h] = Pres!IdleNow]
      /\ newer' = {g \in Pres!Handlers : at[g] = "write"}
  BY DEF Pres!Look
<1>2. /\ at \in [Pres!Handlers -> {"none", "close", "look", "write", "done"}]
      /\ line \in [Pres!Handlers -> Pres!Lines]
  BY DEF PresInv, Pres!PresenceTypeOK
<1>3. NewestIsTrue'
  BY <1>1, <1>2 DEF NewestIsTrue
<1>4. at'[h] = "write" /\ h \notin newer'
  BY <1>1, <1>2
<1> QED BY <1>3, <1>4 DEF LastLineStays

LEMMA WriteWrites ==
  ASSUME Pres!PresenceAssumption, PresInv, NEW h \in Pres!Handlers, Pres!Write(h)
  PROVE  NewestIsTrue' /\ LastLineStays'
<1>1. /\ at[h] = "write" /\ at' = [at EXCEPT ![h] = "done"]
      /\ file' = line[h] /\ line' = [line EXCEPT ![h] = Pres!Idle]
      /\ overtaken' = (h \in newer) /\ newer' = newer \ {h} /\ idleSince' = idleSince
  BY DEF Pres!Write
<1>2. /\ at \in [Pres!Handlers -> {"none", "close", "look", "write", "done"}]
      /\ line \in [Pres!Handlers -> Pres!Lines]
  BY DEF PresInv, Pres!PresenceTypeOK
<1>3. NewestIsTrue'
  BY <1>1, <1>2 DEF PresInv, NewestIsTrue
<1>4. h \notin newer => line[h] = idleSince
  BY <1>1 DEF PresInv, NewestIsTrue
<1> QED BY <1>1, <1>3, <1>4 DEF LastLineStays

LEMMA FileStep ==
  Pres!PresenceAssumption /\ PresInv /\ [Pres!Next]_(Pres!vars)
    => NewestIsTrue' /\ LastLineStays'
<1> SUFFICES ASSUME Pres!PresenceAssumption, PresInv, [Pres!Next]_(Pres!vars)
             PROVE  NewestIsTrue' /\ LastLineStays'
  OBVIOUS
<1> USE DEF Pres!hostVars
<1>1. ASSUME UNCHANGED <<idleSince, line, file, booting, newer, overtaken>>,
             \A g \in Pres!Handlers : at'[g] = "write" <=> at[g] = "write"
      PROVE  NewestIsTrue' /\ LastLineStays'
  BY <1>1 DEF PresInv, NewestIsTrue, LastLineStays
<1>2. CASE UNCHANGED Pres!vars
  BY <1>1, <1>2 DEF Pres!vars
<1>3. ASSUME NEW s \in Sessions, Pres!Device(s) PROVE NewestIsTrue' /\ LastLineStays'
  <2>1. UNCHANGED <<idleSince, line, file, booting, newer, overtaken>>
    BY <1>3 DEF Pres!Device, Pres!Offered, Pres!Connected, Pres!Lost
  <2>2. \A g \in Pres!Handlers : at'[g] = "write" <=> at[g] = "write"
    <3> USE HandlerOf DEF PresInv, Pres!PresenceTypeOK, HandlersStart
    <3>1. CASE Pres!Offered(s)
      BY <3>1 DEF Pres!Offered
    <3>2. CASE Pres!Connected(s)
      BY <3>2 DEF Pres!Connected
    <3>3. CASE Pres!Lost(s)
      BY <3>3 DEF Pres!Lost
    <3> QED BY <1>3, <3>1, <3>2, <3>3 DEF Pres!Device
  <2> QED BY <1>1, <2>1, <2>2
<1>4. ASSUME NEW h \in Pres!Handlers, Pres!CloseSession(h) PROVE NewestIsTrue' /\ LastLineStays'
  <2>1. UNCHANGED <<idleSince, line, file, booting, newer, overtaken>>
    BY <1>4 DEF Pres!CloseSession
  <2>2. h = <<h[1], h[2]>> /\ h[1] \in Sessions /\ <<h[1], "closed">> \in Pres!Handlers
    BY HandlerOf
  <2>3. conn[h[1]] # "closed" => at[<<h[1], "closed">>] = "none"
    BY <2>2 DEF PresInv, HandlersStart
  <2>4. \A g \in Pres!Handlers : at'[g] = "write" <=> at[g] = "write"
    <3>1. /\ at[h] = "close" /\ at'[h] = "look"
          /\ \A g \in Pres!Handlers \ {h, <<h[1], "closed">>} : at'[g] = at[g]
          /\ \/ h = <<h[1], "closed">>
             \/ conn[h[1]] # "closed" /\ at'[<<h[1], "closed">>] = "close"
             \/ conn[h[1]] = "closed" /\ at'[<<h[1], "closed">>] = at[<<h[1], "closed">>]
      BY <1>4, CloseAt DEF PresInv
    <3> QED BY <2>2, <2>3, <3>1
  <2> QED BY <1>1, <2>1, <2>4
<1>5. CASE Pres!Crash
  BY <1>5 DEF Pres!Crash, PresInv, NewestIsTrue, LastLineStays
<1>6. CASE Pres!Boots
  BY <1>6 DEF Pres!Boots, PresInv, NewestIsTrue, LastLineStays
<1>7. CASE Pres!Check \/ Pres!Down
  BY <1>1, <1>7 DEF Pres!Check, Pres!Down
<1>8. CASE Pres!Tick
  <2>1. /\ idleSince' = Pres!Older(idleSince) /\ file' = Pres!Older(file)
        /\ line' = [h \in Pres!Handlers |-> IF at[h] = "write" THEN Pres!Older(line[h]) ELSE line[h]]
        /\ UNCHANGED <<at, booting, newer, overtaken>>
    BY <1>8 DEF Pres!Tick
  <2> QED BY <2>1 DEF PresInv, NewestIsTrue, LastLineStays
<1> QED BY <1>2, <1>3, <1>4, <1>5, <1>6, <1>7, <1>8, LookWrites, WriteWrites
        DEF Pres!Next, Pres!Handle, PresInv

---------------------------------------------------------------------------

LEMMA PresAssumed == Pres!PresenceAssumption
BY PresenceAssumption DEF Pres!PresenceAssumption

\* The idle file, the idleness nc-host knows of, and the handlers stay what they
\* are said to be.
THEOREM TypeCorrect == Pres!Spec => []PresenceTypeOK
<1>1. Pres!Init => Pres!PresenceTypeOK
  BY PresAssumed, InitPresInv DEF PresInv
<1>2. Pres!PresenceTypeOK /\ [Pres!Next]_(Pres!vars) => Pres!PresenceTypeOK'
  BY PresAssumed, TypeStep
<1>3. Pres!PresenceTypeOK => PresenceTypeOK
  BY DEF Pres!PresenceTypeOK, PresenceTypeOK, Pres!Handlers, Handlers, Pres!Lines, Lines
<1> QED BY <1>1, <1>2, <1>3, PTL DEF Pres!Spec

LEMMA PresInvAlways == Pres!Spec => []PresInv
<1>1. PresInv /\ [Pres!Next]_(Pres!vars) => PresInv'
  BY PresAssumed, TypeStep, StartStep, BusyStep, AgeStep, FileStep DEF PresInv
<1>2. Pres!Init => PresInv
  BY PresAssumed, InitPresInv
<1> QED BY <1>1, <1>2, PTL DEF Pres!Spec

\* writeIdle composes its line under the lock and writes it after; handlers run
\* in any order and nc-host may crash at any point. Whenever nothing is under way
\* and the last line was not overtaken, the file tells whether anybody is
\* connected and never claims a longer idleness than there was.
THEOREM IdleFileTrue == Pres!Spec => []IdleTold
<1>1. PresInv => IdleTold
  <2> SUFFICES ASSUME PresInv, Settled, ~overtaken
               PROVE  file.busy = (Up # {}) /\ (~file.busy => file.age <= lonely)
    BY DEF IdleTold
  <2>1. ~Unseen /\ ~booting /\ \A h \in Pres!Handlers : at[h] # "write"
    BY DEF Settled, Unseen, Handlers, Pres!Handlers
  <2>2. file = idleSince
    BY <2>1 DEF PresInv, LastLineStays
  <2>3. Up = Pres!Up
    BY DEF Up, Pres!Up
  <2> QED BY <2>1, <2>2, <2>3 DEF PresInv, BusyKnown, NotOlder
<1> QED BY <1>1, PresInvAlways, PTL
=============================================================================
