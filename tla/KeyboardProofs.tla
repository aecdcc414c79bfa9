--------------------------- MODULE KeyboardProofs ---------------------------
(***************************************************************************)
(* Proofs about Keyboard, for any pages and any number of events: which    *)
(* keys may stay down at the desk.                                         *)
(***************************************************************************)
EXTENDS Keyboard, SequenceTheorems, FiniteSetTheorems, TLAPS

Messages == [t : {"down", "up"}, code : Codes, overtaken : BOOLEAN]

\* A keyup for the code c was sent after message i of the page.
Released(p, i, c) ==
  \E j \in 1..Len(chan[p]) : j > i /\ chan[p][j].t = "up" /\ chan[p][j].code = c

\* Every keydown under way is of a key that is down, or its keyup follows it.
DownsFollowed(p) ==
  \A i \in 1..Len(chan[p]) :
    LET m == chan[p][i] IN
    m.t = "down" /\ ~m.overtaken =>
      m.code \in Excused \cup DownAt(p) \/ Released(p, i, m.code)

\* The page has no code down of a key that is up, but for the keyups it missed
\* and those Command hides.
UpsSent(p) ==
  \A k \in Keys \ fingers[p] :
    \/ downAs[p][k] \in {""} \cup missed
    \/ p \in Macs /\ "Meta" \in fingers[p] /\ k \notin Modifiers

\* A closed channel carries nothing.
ClosedQuiet(p) == st[p] \in {"closing", "over"} => chan[p] = <<>>

IInv == /\ TypeOK /\ downAs \in [Pages -> [Keys -> Codes \cup {""}]]
        /\ NoStuckKey /\ AllGoneAllUp
        /\ \A p \in Pages : DownsFollowed(p) /\ UpsSent(p) /\ ClosedQuiet(p)

---------------------------------------------------------------------------
(* Codes, and sequences of messages. *)

LEMMA CodeFacts ==
  ASSUME NEW p \in Pages
  PROVE  /\ CodesOf(p) \subseteq Codes
         /\ Codes \subseteq {"Shift", "Meta", "Seven", "Escape", "Control", "Slash"}
         /\ \A k \in Keys : CodeFor(p, k) \in CodesOf(p)
BY KeyboardAssumption DEF CodesOf, Codes, CodeFor, Modifiers

LEMMA MessageFacts ==
  /\ \A c \in Codes : Down(c) \in Messages /\ Up(c) \in Messages
  /\ \A c : /\ Down(c).t = "down" /\ Down(c).code = c
            /\ Up(c).t = "up" /\ Up(c).code = c
BY DEF Messages, Down, Up

LEMMA OneMessage ==
  ASSUME NEW m \in Messages
  PROVE  <<m>> \in Seq(Messages) /\ Len(<<m>>) = 1 /\ \A j \in 1..Len(<<m>>) : <<m>>[j] = m
<1>1. Len(<<m>>) = 1 /\ <<m>>[1] = m /\ 1..1 = {1}
  OBVIOUS
<1> QED BY <1>1

\* The message i of a sequence is taken out.
LEMMA TakenOut ==
  ASSUME NEW S, NEW q \in Seq(S), NEW i \in 1..Len(q)
  PROVE  /\ RemoveAt(q, i) \in Seq(S) /\ Len(q) \in Nat /\ Len(RemoveAt(q, i)) = Len(q) - 1
         /\ \A j \in 1..Len(q) - 1 : RemoveAt(q, i)[j] = q[IF j < i THEN j ELSE j + 1]
<1> DEFINE a == SubSeq(q, 1, i - 1)
           b == SubSeq(q, i + 1, Len(q))
<1>1. Len(q) \in Nat /\ \A j \in 1..Len(q) : q[j] \in S
  BY LenProperties
<1>2. /\ a \in Seq(S) /\ Len(a) = i - 1 /\ \A j \in 1..i - 1 : a[j] = q[j]
  <2>1. 1 \in Int /\ i - 1 \in Int /\ \A j \in 1..i - 1 : q[j] \in S
    BY <1>1
  <2>2. /\ a \in Seq(S) /\ Len(a) = IF 1 <= i - 1 THEN (i - 1) - 1 + 1 ELSE 0
        /\ \A j \in 1..(i - 1) - 1 + 1 : a[j] = q[1 + j - 1]
    BY <2>1, SubSeqProperties
  <2> QED BY <1>1, <2>2
<1>3. /\ b \in Seq(S) /\ Len(b) = Len(q) - i /\ \A j \in 1..Len(q) - i : b[j] = q[i + j]
  <2>1. i + 1 \in Int /\ Len(q) \in Int /\ \A j \in i + 1..Len(q) : q[j] \in S
    BY <1>1
  <2>2. /\ b \in Seq(S) /\ Len(b) = IF i + 1 <= Len(q) THEN Len(q) - (i + 1) + 1 ELSE 0
        /\ \A j \in 1..Len(q) - (i + 1) + 1 : b[j] = q[i + 1 + j - 1]
    BY <2>1, SubSeqProperties
  <2> QED BY <1>1, <2>2
<1>4. /\ a \o b \in Seq(S) /\ Len(a \o b) = Len(a) + Len(b)
      /\ \A j \in 1..Len(a) + Len(b) : (a \o b)[j] = IF j <= Len(a) THEN a[j] ELSE b[j - Len(a)]
  BY <1>2, <1>3, ConcatProperties
<1>5. RemoveAt(q, i) = a \o b
  BY DEF RemoveAt
<1>6. Len(a) + Len(b) = Len(q) - 1
  <2>1. \A n \in Nat : \A k \in 1..n : (k - 1) + (n - k) = n - 1
    OBVIOUS
  <2>2. (i - 1) + (Len(q) - i) = Len(q) - 1
    BY <1>1, <2>1
  <2> QED BY <1>2, <1>3, <2>2
<1>7. ASSUME NEW j \in 1..Len(q) - 1 PROVE RemoveAt(q, i)[j] = q[IF j < i THEN j ELSE j + 1]
  <2>1. j \in 1..Len(a) + Len(b)
    BY <1>6
  <2>2. RemoveAt(q, i)[j] = IF j <= i - 1 THEN a[j] ELSE b[j - (i - 1)]
    BY <1>2, <1>4, <1>5, <2>1
  <2>3. CASE j < i
    <3>1. j <= i - 1 /\ j \in 1..i - 1
      BY <1>1, <2>3
    <3> QED BY <1>2, <2>2, <2>3, <3>1
  <2>4. CASE ~(j < i)
    <3>1. RemoveAt(q, i)[j] = b[j - (i - 1)]
      <4>1. ~(j <= i - 1)
        BY <1>1, <2>4
      <4> QED BY <2>2, <4>1
    <3>2. j - (i - 1) \in 1..Len(q) - i /\ i + (j - (i - 1)) = j + 1
      BY <1>1, <1>7, <2>4
    <3> QED BY <1>3, <2>4, <3>1, <3>2
  <2> QED BY <2>3, <2>4
<1> QED BY <1>1, <1>4, <1>5, <1>6, <1>7

\* What stays of a page's messages when the message i of q arrives or is lost:
\* m is the message that was o.
Stays(q, i, m, o) ==
  /\ o \in 1..Len(q) /\ o # i /\ m.t = q[o].t /\ m.code = q[o].code
  /\ ~m.overtaken => ~q[o].overtaken

LEMMA Overtaking ==
  ASSUME NEW q \in Seq(Messages), NEW i \in 1..Len(q)
  PROVE  LET r == Without(q, i) IN
         /\ r \in Seq(Messages) /\ Len(q) \in Nat /\ Len(r) = Len(q) - 1
         /\ \A j \in 1..Len(q) - 1 :
              LET o == IF j < i THEN j ELSE j + 1 IN
              Stays(q, i, r[j], o) /\ (o < i /\ q[o].code = q[i].code => r[j].overtaken)
<1> DEFINE late(j) == IF j < i /\ q[j].code = q[i].code THEN [q[j] EXCEPT !.overtaken = TRUE] ELSE q[j]
           s == [j \in DOMAIN q |-> late(j)]
<1>1. Len(q) \in Nat /\ DOMAIN q = 1..Len(q) /\ \A j \in 1..Len(q) : q[j] \in Messages
  BY LenProperties
<1>2. \A j \in 1..Len(q) : /\ late(j) \in Messages /\ late(j).t = q[j].t /\ late(j).code = q[j].code
                           /\ ~late(j).overtaken => ~q[j].overtaken
                           /\ j < i /\ q[j].code = q[i].code => late(j).overtaken
  BY <1>1 DEF Messages
<1>3. s \in Seq(Messages) /\ Len(s) = Len(q) /\ \A j \in 1..Len(q) : s[j] = late(j)
  BY <1>1, <1>2
<1>4. /\ RemoveAt(s, i) \in Seq(Messages) /\ Len(RemoveAt(s, i)) = Len(q) - 1
      /\ \A j \in 1..Len(q) - 1 : RemoveAt(s, i)[j] = s[IF j < i THEN j ELSE j + 1]
  <2>1. i \in 1..Len(s)
    BY <1>3
  <2>2. /\ RemoveAt(s, i) \in Seq(Messages) /\ Len(RemoveAt(s, i)) = Len(s) - 1
        /\ \A j \in 1..Len(s) - 1 : RemoveAt(s, i)[j] = s[IF j < i THEN j ELSE j + 1]
    BY <1>3, <2>1, TakenOut
  <2> QED BY <1>3, <2>2
<1>5. Without(q, i) = RemoveAt(s, i)
  BY DEF Without
<1>6. ASSUME NEW j \in 1..Len(q) - 1
      PROVE  LET o == IF j < i THEN j ELSE j + 1 IN
             Stays(q, i, RemoveAt(s, i)[j], o)
               /\ (o < i /\ q[o].code = q[i].code => RemoveAt(s, i)[j].overtaken)
  <2> DEFINE o == IF j < i THEN j ELSE j + 1
  <2>1. o \in 1..Len(q) /\ o # i
    BY <1>1, <1>6
  <2>2. RemoveAt(s, i)[j] = late(o)
    BY <1>3, <1>4, <1>6, <2>1
  <2> QED BY <1>2, <2>1, <2>2 DEF Stays
<1> QED BY <1>1, <1>4, <1>5, <1>6

\* The keyups that follow the one of Command, in some order.
LEMMA Listed ==
  ASSUME NEW S \in SUBSET {Up(c) : c \in Codes}
  PROVE  /\ SetToSeq(S) \in Seq(S)
         /\ \A x \in S : \E i \in 1..Len(SetToSeq(S)) : SetToSeq(S)[i] = x
<1>1. IsFiniteSet(S)
  <2> DEFINE F == {Up("Shift"), Up("Meta"), Up("Seven"), Up("Escape"), Up("Control"), Up("Slash")}
  <2>1. IsFiniteSet(F)
    <3>1. IsFiniteSet({}) /\ \A T, x : IsFiniteSet(T) => IsFiniteSet(T \cup {x})
      BY FS_EmptySet, FS_AddElement
    <3>2. IsFiniteSet((((((({} \cup {Up("Shift")}) \cup {Up("Meta")}) \cup {Up("Seven")})
                          \cup {Up("Escape")}) \cup {Up("Control")}) \cup {Up("Slash")}))
      BY <3>1
    <3>3. F = ((((({} \cup {Up("Shift")}) \cup {Up("Meta")}) \cup {Up("Seven")})
                          \cup {Up("Escape")}) \cup {Up("Control")}) \cup {Up("Slash")}
      OBVIOUS
    <3> QED BY <3>2, <3>3
  <2>2. S \subseteq F
    <3>1. Codes \subseteq {"Shift", "Meta", "Seven", "Escape", "Control", "Slash"}
      BY CodeFacts DEF Codes
    <3> QED BY <3>1
  <2> QED BY <2>1, <2>2, FS_Subset
<1>2. PICK f \in [1..Cardinality(S) -> S] : IsInjective(f)
  BY <1>1, FS_CardinalityType DEF ExistsBijection, Bijection, Injection
<1> DEFINE q == SetToSeq(S)
<1>3. q \in [1..Cardinality(S) -> S] /\ IsInjective(q)
  BY <1>2 DEF SetToSeq
<1>4. Cardinality(S) \in Nat
  BY <1>1, FS_CardinalityType
<1>5. q \in Seq(S) /\ Len(q) = Cardinality(S)
  BY <1>3, <1>4
<1>6. q \in Surjection(1..Cardinality(S), S)
  <2>1. q \in Injection(1..Cardinality(S), S)
    BY <1>3 DEF Injection
  <2>2. Cardinality(1..Cardinality(S)) = Cardinality(S)
    <3>1. 1 \in Int /\ Cardinality(S) \in Int
      BY <1>4
    <3>2. Cardinality(1..Cardinality(S)) = IF 1 > Cardinality(S) THEN 0 ELSE Cardinality(S) - 1 + 1
      BY <3>1, FS_Interval
    <3> QED BY <1>4, <3>2
  <2> QED BY <1>1, <2>1, <2>2, FS_Injection
<1> QED BY <1>4, <1>5, <1>6 DEF Surjection

---------------------------------------------------------------------------
(* The page sends: what was accounted for still is. *)

\* The messages ms follow those of w.
Follows(v, w, ms) ==
  /\ v \in Seq(Messages) /\ Len(v) = Len(w) + Len(ms)
  /\ \A i \in 1..Len(w) : i \in 1..Len(v) /\ v[i] = w[i]
  /\ \A j \in 1..Len(ms) : Len(w) + j \in 1..Len(v) /\ v[Len(w) + j] = ms[j]
  /\ \A i \in 1..Len(v) : i \in 1..Len(w) \/ \E j \in 1..Len(ms) : i = Len(w) + j /\ v[i] = ms[j]

LEMMA Joined ==
  ASSUME NEW w \in Seq(Messages), NEW ms \in Seq(Messages)
  PROVE  Follows(w \o ms, w, ms)
<1> DEFINE v == w \o ms
<1>1. Len(w) \in Nat /\ Len(ms) \in Nat
  BY LenProperties
<1>2. /\ v \in Seq(Messages) /\ Len(v) = Len(w) + Len(ms)
      /\ \A i \in 1..Len(w) + Len(ms) : v[i] = IF i <= Len(w) THEN w[i] ELSE ms[i - Len(w)]
  BY ConcatProperties
<1>3. \A i \in 1..Len(w) : i \in 1..Len(v) /\ v[i] = w[i]
  BY <1>1, <1>2
<1>4. ASSUME NEW j \in 1..Len(ms) PROVE Len(w) + j \in 1..Len(v) /\ v[Len(w) + j] = ms[j]
  <2>1. Len(w) + j \in 1..Len(w) + Len(ms) /\ ~(Len(w) + j <= Len(w)) /\ (Len(w) + j) - Len(w) = j
    BY <1>1
  <2> QED BY <1>2, <2>1
<1>5. ASSUME NEW i \in 1..Len(v), i \notin 1..Len(w)
      PROVE  \E j \in 1..Len(ms) : i = Len(w) + j /\ v[i] = ms[j]
  <2>1. i - Len(w) \in 1..Len(ms) /\ i = Len(w) + (i - Len(w))
    BY <1>1, <1>2, <1>5
  <2> QED BY <1>4, <2>1
<1> QED BY <1>2, <1>3, <1>4, <1>5 DEF Follows

\* The codes down at the page go on being down, are released, or are excused;
\* what is pressed is down.
Keeps(p, ms) ==
  /\ \A c \in DownAt(p) : \/ c \in {""} \cup DownAt(p)' \cup Excused'
                           \/ \E j \in 1..Len(ms) : ms[j].t = "up" /\ ms[j].code = c
  /\ \A j \in 1..Len(ms) : ms[j].t = "down" => ms[j].code \in DownAt(p)'

Alone(p) == \A q \in Pages \ {p} : DownAt(q)' = DownAt(q)

LEMMA Sent ==
  ASSUME IInv, NEW p \in Pages, NEW ms \in Seq(Messages), Send(p, ms),
         UNCHANGED <<st, held>>, Excused \subseteq Excused', Alone(p), Keeps(p, ms)
  PROVE  /\ chan' \in [Pages -> Seq(Messages)]
         /\ NoStuckKey' /\ AllGoneAllUp'
         /\ \A q \in Pages : DownsFollowed(q)' /\ ClosedQuiet(q)'
<1> DEFINE w == chan[p]
           v == chan'[p]
           open == st[p] \in {"up", "dropping"}
<1>1. chan \in [Pages -> Seq(Messages)] /\ st \in [Pages -> {"up", "dropping", "closing", "over"}]
  BY DEF IInv, TypeOK, Messages
<1>2. /\ w \in Seq(Messages) /\ Len(w) \in Nat /\ w \in [1..Len(w) -> Messages]
      /\ chan' = [chan EXCEPT ![p] = IF open THEN w \o ms ELSE w]
  <2>1. w \in Seq(Messages)
    BY <1>1
  <2>2. Len(w) \in Nat /\ w \in [1..Len(w) -> Messages]
    BY <2>1, LenProperties
  <2> QED BY <2>1, <2>2 DEF Send
<1>3. Len(ms) \in Nat
  BY LenProperties
<1>4. open => Follows(v, w, ms)
  <2>1. open => v = w \o ms
    BY <1>1, <1>2
  <2> QED BY <1>2, <2>1, Joined
<1>5. chan' \in [Pages -> Seq(Messages)] /\ \A q \in Pages \ {p} : chan'[q] = chan[q]
  <2>1. CASE open
    <3>1. w \o ms \in Seq(Messages)
      BY <1>2, Joined DEF Follows
    <3> QED BY <1>1, <1>2, <2>1, <3>1
  <2>2. CASE ~open
    BY <1>1, <1>2, <2>2
  <2> QED BY <2>1, <2>2
<1>6. ~open => v = w /\ w = <<>>
  <2>1. ~open => st[p] \in {"closing", "over"}
    BY <1>1
  <2> QED BY <1>1, <1>2, <2>1 DEF IInv, ClosedQuiet
<1>7. NoStuckKey'
  <2> SUFFICES ASSUME NEW c \in held, c \notin Excused', c \in Codes PROVE Accounted(c)'
    BY DEF NoStuckKey, IInv, TypeOK
  <2>1. Accounted(c)
    BY DEF IInv, NoStuckKey
  <2>2. PICK q \in Pages : \/ st[q] = "up" /\ c \in DownAt(q) \cup UpComing(q)
                           \/ st[q] \in {"dropping", "closing"}
    BY <2>1 DEF Accounted
  <2>3. CASE st[q] \in {"dropping", "closing"}
    BY <2>3 DEF Accounted
  <2>4. CASE st[q] = "up" /\ q # p
    <3>1. UpComing(q)' = UpComing(q) /\ DownAt(q)' = DownAt(q)
      BY <1>5, <2>4 DEF UpComing, Alone
    <3> QED BY <2>2, <2>4, <3>1 DEF Accounted
  <2>5. CASE st[q] = "up" /\ q = p
    <3>1. v \in Seq(Messages) /\ DOMAIN v = 1..Len(v) /\ DOMAIN w = 1..Len(w)
      BY <1>2, <1>4, <2>5 DEF Follows
    <3>2. ASSUME NEW i \in 1..Len(v), v[i].t = "up", v[i].code = c PROVE c \in UpComing(p)'
      BY <3>1, <3>2 DEF UpComing
    <3>3. CASE c \in DownAt(p)
      <4>1. "" \notin Codes
        BY CodeFacts
      <4>2. CASE c \in DownAt(p)'
        BY <2>5, <4>2 DEF Accounted
      <4>3. CASE \E j \in 1..Len(ms) : ms[j].t = "up" /\ ms[j].code = c
        <5>1. PICK j \in 1..Len(ms) : ms[j].t = "up" /\ ms[j].code = c
          BY <4>3
        <5>2. Len(w) + j \in 1..Len(v) /\ v[Len(w) + j] = ms[j]
          BY <1>4, <2>5 DEF Follows
        <5>3. c \in UpComing(p)'
          BY <3>2, <5>1, <5>2
        <5> QED BY <2>5, <5>3 DEF Accounted
      <4> QED BY <3>3, <4>1, <4>2, <4>3 DEF Keeps
    <3>4. CASE c \in UpComing(p)
      <4>1. PICK i \in 1..Len(w) : w[i].t = "up" /\ w[i].code = c
        BY <3>1, <3>4 DEF UpComing
      <4>2. c \in UpComing(p)'
        BY <1>4, <2>5, <3>2, <4>1 DEF Follows
      <4> QED BY <2>5, <4>2 DEF Accounted
    <3> QED BY <2>2, <2>5, <3>3, <3>4
  <2>6. QED BY <2>2, <2>3, <2>4, <2>5
<1>8. AllGoneAllUp'
  BY DEF IInv, AllGoneAllUp
<1>9. ASSUME NEW q \in Pages PROVE ClosedQuiet(q)'
  BY <1>5, <1>6 DEF IInv, ClosedQuiet
<1>10. ASSUME NEW q \in Pages PROVE DownsFollowed(q)'
  <2>1. DownsFollowed(q)
    BY DEF IInv
  <2>2. CASE q # p
    <3>1. \A i, c : Released(q, i, c) => Released(q, i, c)'
      BY <1>5, <2>2 DEF Released
    <3>2. DownAt(q)' = DownAt(q) /\ chan'[q] = chan[q]
      BY <1>5, <2>2 DEF Alone
    <3> QED BY <2>1, <3>1, <3>2 DEF DownsFollowed
  <2>3. CASE q = p /\ ~open
    <3>1. Len(v) = 0
      BY <1>6, <2>3, EmptySeq
    <3> QED BY <2>3, <3>1 DEF DownsFollowed
  <2>4. CASE q = p /\ open
    <3> SUFFICES ASSUME NEW i \in 1..Len(v), v[i].t = "down", ~v[i].overtaken,
                        v[i].code \notin Excused' \cup DownAt(p)'
                 PROVE  \E j \in 1..Len(v) : j > i /\ v[j].t = "up" /\ v[j].code = v[i].code
      BY <2>4 DEF DownsFollowed, Released
    <3>1. i \in 1..Len(w) /\ v[i] = w[i] /\ w[i] \in Messages
      <4>1. i \in 1..Len(w)
        <5>1. CASE \E j \in 1..Len(ms) : v[i] = ms[j]
          BY <5>1 DEF Keeps
        <5> QED BY <1>4, <2>4, <5>1 DEF Follows
      <4>2. v[i] = w[i]
        BY <1>4, <2>4, <4>1 DEF Follows
      <4> QED BY <1>2, <4>1, <4>2
    <3>2. w[i].code \in DownAt(p) \/ Released(p, i, w[i].code)
      BY <2>1, <2>4, <3>1 DEF DownsFollowed
    <3>3. CASE Released(p, i, w[i].code)
      <4>1. PICK j \in 1..Len(w) : j > i /\ w[j].t = "up" /\ w[j].code = w[i].code
        BY <3>3 DEF Released
      <4>2. j \in 1..Len(v) /\ v[j] = w[j]
        BY <1>4, <2>4 DEF Follows
      <4> QED BY <3>1, <4>1, <4>2
    <3>4. CASE w[i].code \in DownAt(p)
      <4>1. w[i].code # ""
        BY <3>1, CodeFacts DEF Messages
      <4>2. PICK j \in 1..Len(ms) : ms[j].t = "up" /\ ms[j].code = w[i].code
        BY <3>1, <3>4, <4>1 DEF Keeps
      <4>3. Len(w) + j \in 1..Len(v) /\ v[Len(w) + j] = ms[j] /\ Len(w) + j > i
        BY <1>2, <1>4, <2>4, <3>1 DEF Follows
      <4> QED BY <3>1, <4>2, <4>3
    <3> QED BY <3>2, <3>3, <3>4
  <2> QED BY <2>2, <2>3, <2>4
<1> QED BY <1>5, <1>7, <1>8, <1>9, <1>10

---------------------------------------------------------------------------
(* The page's handlers. *)

\* The keys whose codes are down at the page.
Counted(p) == IF p \in Macs /\ "Meta" \in fingers[p] THEN Keys ELSE fingers[p]

LEMMA Silent ==
  ASSUME IInv, NEW p \in Pages, UNCHANGED chan
  PROVE  <<>> \in Seq(Messages) /\ Len(<<>>) = 0 /\ Send(p, <<>>)
<1>1. <<>> \in Seq(Messages) /\ Len(<<>>) = 0
  BY EmptySeq
<1>2. chan \in [Pages -> Seq(Messages)]
  BY DEF IInv, TypeOK, Messages
<1>3. chan[p] \o <<>> = chan[p]
  BY <1>2, ConcatEmptySeq
<1> QED BY <1>1, <1>2, <1>3 DEF Send

\* The fields a page's handler changes have their types again.
PageTypes ==
  /\ fingers \in [Pages -> SUBSET Keys] /\ grabbing \in [Pages -> BOOLEAN] /\ focus \in [Pages -> BOOLEAN]
  /\ downAs \in [Pages -> [Keys -> Codes \cup {""}]]
  /\ \A p \in Pages : downAs[p] \in [Keys -> CodesOf(p) \cup {""}]
  /\ events \in 0..MaxEvents /\ Excused \subseteq Codes

LEMMA PageStep ==
  ASSUME IInv, NEW p \in Pages, NEW ms \in Seq(Messages), Send(p, ms),
         UNCHANGED <<st, held>>, Excused \subseteq Excused', Alone(p), Keeps(p, ms),
         PageTypes', \A q \in Pages : UpsSent(q)'
  PROVE  IInv'
<1>1. /\ chan' \in [Pages -> Seq(Messages)] /\ NoStuckKey' /\ AllGoneAllUp'
      /\ \A q \in Pages : DownsFollowed(q)' /\ ClosedQuiet(q)'
  BY Sent
<1>2. TypeOK'
  BY <1>1 DEF IInv, TypeOK, PageTypes, Messages
<1> QED BY <1>1, <1>2 DEF IInv, PageTypes

LEMMA NothingSent == \A j \in 1..Len(<<>>) : FALSE
<1>1. Len(<<>>) = 0
  OBVIOUS
<1>2. \A j \in 1..0 : 1 <= j /\ j <= 0
  OBVIOUS
<1> QED BY <1>1, <1>2

\* Nothing is sent, and what is down stays down.
LEMMA KeepsSilent ==
  ASSUME NEW p \in Pages, DownAt(p) \subseteq DownAt(p)' \cup Excused' \cup {""}
  PROVE  Keeps(p, <<>>)
<1> QED BY NothingSent DEF Keeps

\* A handler that counts its event.
LEMMA Counts ==
  ASSUME IInv, Count \/ UNCHANGED events
  PROVE  events' \in 0..MaxEvents
<1>1. events \in 0..MaxEvents /\ MaxEvents \in Nat
  BY KeyboardAssumption DEF IInv, TypeOK
<1> QED BY <1>1 DEF Count

LEMMA KeyDownKeeps ==
  ASSUME IInv, NEW p \in Pages, NEW k \in Keys, KeyDown(p, k)
  PROVE  IInv'
<1> USE DEF IInv
<1>1. /\ fingers \in [Pages -> SUBSET Keys] /\ grabbing \in [Pages -> BOOLEAN] /\ focus \in [Pages -> BOOLEAN]
      /\ downAs \in [Pages -> [Keys -> Codes \cup {""}]]
      /\ \A q \in Pages : downAs[q] \in [Keys -> CodesOf(q) \cup {""}]
      /\ events \in 0..MaxEvents /\ Excused \subseteq Codes
  BY DEF TypeOK
<1>2. /\ fingers' \in [Pages -> SUBSET Keys] /\ fingers'[p] = fingers[p] \cup {k}
      /\ \A q \in Pages \ {p} : fingers'[q] = fingers[q]
  BY <1>1 DEF KeyDown
<1>3. /\ grabbing' \in [Pages -> BOOLEAN] /\ focus' \in [Pages -> BOOLEAN] /\ events' \in 0..MaxEvents
      /\ UNCHANGED <<focus, st, held, garbled, missed>>
  <2>1. grabbing' = grabbing \/ grabbing' = [grabbing EXCEPT ![p] = FALSE]
    BY DEF KeyDown
  <2>2. Count /\ UNCHANGED <<focus, st, held, garbled, missed>>
    BY DEF KeyDown
  <2> QED BY <1>1, <2>1, <2>2, Counts
<1>4. \A x \in Counted(p) \cup {k} : x \in Counted(p)' /\ x \in Keys
  BY <1>1, <1>2 DEF Counted
<1>5. \A q \in Pages \ {p} : Counted(q)' = Counted(q) /\ Counted(q) \subseteq Keys
  BY <1>1, <1>2 DEF Counted
<1>6. CASE UNCHANGED <<downAs, chan, replaced>>
  <2>1. Keeps(p, <<>>)
    <3>1. DownAt(p) \subseteq DownAt(p)'
      BY <1>4, <1>6 DEF DownAt, Counted
    <3> QED BY <3>1, KeepsSilent
  <2>2. Alone(p)
    BY <1>5, <1>6 DEF Alone, DownAt, Counted
  <2>3. \A q \in Pages : UpsSent(q)'
    BY <1>2, <1>3, <1>6 DEF UpsSent
  <2>4. PageTypes' /\ Excused' = Excused
    BY <1>1, <1>2, <1>3, <1>6 DEF PageTypes, Excused
  <2> QED BY <1>3, <1>6, <2>1, <2>2, <2>3, <2>4, Silent, PageStep
<1>7. CASE /\ downAs' = [downAs EXCEPT ![p][k] = CodeFor(p, k)]
           /\ replaced' = replaced \cup ({downAs[p][k]} \ {"", CodeFor(p, k)})
           /\ Send(p, <<Down(CodeFor(p, k))>>)
  <2> DEFINE c == CodeFor(p, k)
             ms == <<Down(c)>>
  <2>1. c \in CodesOf(p) /\ c \in Codes
    BY CodeFacts
  <2>2. ms \in Seq(Messages) /\ \A j \in 1..Len(ms) : ms[j].code = c
    <3>1. Down(c) \in Messages /\ Down(c).t = "down" /\ Down(c).code = c
      BY <2>1, MessageFacts
    <3> QED BY <3>1, OneMessage
  <2>3. /\ downAs' \in [Pages -> [Keys -> Codes \cup {""}]]
        /\ \A q \in Pages : downAs'[q] \in [Keys -> CodesOf(q) \cup {""}]
        /\ downAs'[p][k] = c /\ \A x \in Keys \ {k} : downAs'[p][x] = downAs[p][x]
        /\ \A q \in Pages \ {p} : downAs'[q] = downAs[q]
    <3>1. downAs' = [downAs EXCEPT ![p] = [downAs[p] EXCEPT ![k] = c]]
      BY <1>7
    <3>2. /\ [downAs[p] EXCEPT ![k] = c] \in [Keys -> Codes \cup {""}]
          /\ [downAs[p] EXCEPT ![k] = c] \in [Keys -> CodesOf(p) \cup {""}]
      BY <1>1, <2>1
    <3> QED BY <1>1, <3>1, <3>2
  <2>4. Excused \subseteq Excused' /\ Excused' \subseteq Codes
        /\ (downAs[p][k] \in {"", c} \/ downAs[p][k] \in Excused')
    <3>1. Excused' = Excused \cup ({downAs[p][k]} \ {"", c})
      BY <1>3, <1>7 DEF Excused
    <3>2. downAs[p][k] \in Codes \cup {""}
      BY <1>1
    <3> QED BY <1>1, <3>1, <3>2
  <2>5. c \in DownAt(p)'
    BY <1>4, <2>3 DEF DownAt, Counted
  <2>6. ASSUME NEW d \in DownAt(p) PROVE d \in {""} \cup DownAt(p)' \cup Excused'
    <3>1. PICK x \in Counted(p) : d = downAs[p][x]
      BY DEF DownAt, Counted
    <3>2. CASE x = k
      BY <2>4, <2>5, <3>1, <3>2
    <3>3. CASE x # k
      BY <1>4, <2>3, <3>1, <3>3 DEF DownAt, Counted
    <3> QED BY <3>2, <3>3
  <2>7. Keeps(p, ms)
    BY <2>2, <2>5, <2>6 DEF Keeps
  <2>8. Alone(p)
    <3> SUFFICES ASSUME NEW q \in Pages \ {p} PROVE DownAt(q)' = DownAt(q)
      BY DEF Alone
    <3>1. downAs'[q] = downAs[q] /\ Counted(q)' = Counted(q)
      BY <1>5, <2>3
    <3> QED BY <3>1 DEF DownAt, Counted
  <2>9. ASSUME NEW q \in Pages PROVE UpsSent(q)'
    <3>1. \A x \in Keys \ fingers'[q] : x \in Keys \ fingers[q] /\ downAs'[q][x] = downAs[q][x]
      BY <1>2, <2>3
    <3>2. fingers[q] \subseteq fingers'[q]
      BY <1>2
    <3> QED BY <1>3, <3>1, <3>2 DEF UpsSent
  <2>10. PageTypes'
    BY <1>2, <1>3, <2>3, <2>4 DEF PageTypes
  <2> QED BY <1>3, <1>7, <2>2, <2>4, <2>7, <2>8, <2>9, <2>10, PageStep
<1> QED BY <1>6, <1>7 DEF KeyDown

LEMMA MouseKeeps ==
  ASSUME IInv, NEW p \in Pages, EscapeRepeats(p) \/ Click(p) \/ Blur(p) \/ Focus(p)
  PROVE  IInv'
<1> USE DEF IInv
<1>1. UNCHANGED <<fingers, downAs, chan, st, held, histVars>>
  BY DEF EscapeRepeats, Click, Blur, Focus
<1>2. PageTypes'
  <2>1. /\ grabbing' \in {grabbing, [grabbing EXCEPT ![p] = FALSE], [grabbing EXCEPT ![p] = TRUE]}
        /\ focus' \in {focus, [focus EXCEPT ![p] = FALSE], [focus EXCEPT ![p] = TRUE]}
    BY DEF EscapeRepeats, Click, Blur, Focus
  <2>2. Count \/ UNCHANGED events
    BY DEF EscapeRepeats, Click, Blur, Focus
  <2>3. grabbing' \in [Pages -> BOOLEAN] /\ focus' \in [Pages -> BOOLEAN] /\ events' \in 0..MaxEvents
    BY <2>1, <2>2, Counts DEF TypeOK
  <2> QED BY <1>1, <2>3 DEF PageTypes, TypeOK, Excused, histVars
<1>3. \A q \in Pages : DownAt(q)' = DownAt(q)
  BY <1>1 DEF DownAt
<1>4. Excused' = Excused /\ \A q \in Pages : UpsSent(q)'
  BY <1>1 DEF Excused, UpsSent, histVars
<1>5. Keeps(p, <<>>) /\ Alone(p)
  BY <1>3, KeepsSilent DEF Alone
<1> QED BY <1>1, <1>2, <1>4, <1>5, Silent, PageStep


\* The keyups a keyup is sent as: its own, and on Command's those of the rest.
UpsOf(p, k) == <<Up(UpCode(p, k))>> \o SetToSeq({Up(downAs[p][j]) : j \in WithMeta(p, k)})

LEMMA UpsFacts ==
  ASSUME IInv, NEW p \in Pages, NEW k \in Keys
  PROVE  /\ UpsOf(p, k) \in Seq(Messages)
         /\ \A j \in 1..Len(UpsOf(p, k)) : UpsOf(p, k)[j].t = "up"
         /\ \A x \in WithMeta(p, k) \cup {k} : downAs[p][x] # "" =>
              \E j \in 1..Len(UpsOf(p, k)) : UpsOf(p, k)[j].code = downAs[p][x]
<1> DEFINE T == {Up(downAs[p][j]) : j \in WithMeta(p, k)}
           m == Up(UpCode(p, k))
           ups == SetToSeq(T)
<1>1. downAs[p] \in [Keys -> Codes \cup {""}]
  BY DEF IInv
<1>2. UpCode(p, k) \in Codes
  BY <1>1, CodeFacts DEF UpCode
<1>3. m \in Messages /\ m.t = "up" /\ m.code = UpCode(p, k)
  BY <1>2, MessageFacts
<1>4. T \in SUBSET {Up(c) : c \in Codes}
  BY <1>1 DEF WithMeta
<1>5. ups \in Seq(T) /\ \A x \in T : \E i \in 1..Len(ups) : ups[i] = x
  BY <1>4, Listed
<1>6. T \subseteq Messages /\ \A x \in T : x.t = "up"
  BY <1>4, MessageFacts
<1>7. ups \in Seq(Messages) /\ \A i \in 1..Len(ups) : ups[i].t = "up"
  <2>1. Len(ups) \in Nat /\ ups \in [1..Len(ups) -> T] /\ DOMAIN ups = 1..Len(ups)
    BY <1>5, LenProperties
  <2>2. \A i \in 1..Len(ups) : ups[i] \in T
    BY <2>1
  <2> QED BY <1>6, <2>1, <2>2
<1>8. <<m>> \in Seq(Messages) /\ Len(<<m>>) = 1 /\ \A j \in 1..Len(<<m>>) : <<m>>[j] = m
  BY <1>3, OneMessage
<1>9. UpsOf(p, k) = <<m>> \o ups
  BY DEF UpsOf
<1>10. Follows(UpsOf(p, k), <<m>>, ups)
  BY <1>7, <1>8, <1>9, Joined
<1>11. \A j \in 1..Len(UpsOf(p, k)) : UpsOf(p, k)[j].t = "up"
  <2> SUFFICES ASSUME NEW j \in 1..Len(UpsOf(p, k)) PROVE UpsOf(p, k)[j].t = "up"
    OBVIOUS
  <2>1. CASE j \in 1..Len(<<m>>)
    BY <1>3, <1>8, <1>10, <2>1 DEF Follows
  <2>2. CASE \E i \in 1..Len(ups) : UpsOf(p, k)[j] = ups[i]
    BY <1>7, <2>2
  <2> QED BY <1>10, <2>1, <2>2 DEF Follows
<1>12. ASSUME NEW x \in WithMeta(p, k) \cup {k}, downAs[p][x] # ""
       PROVE  \E j \in 1..Len(UpsOf(p, k)) : UpsOf(p, k)[j].code = downAs[p][x]
  <2>1. CASE x = k
    <3>1. m.code = downAs[p][x] /\ 1 \in 1..Len(<<m>>)
      <4>1. UpCode(p, k) = downAs[p][x]
        BY <1>12, <2>1 DEF UpCode
      <4>2. 1 \in 1..1
        OBVIOUS
      <4> QED BY <1>3, <1>8, <4>1, <4>2
    <3>2. 1 \in 1..Len(UpsOf(p, k)) /\ UpsOf(p, k)[1] = m
      BY <1>8, <1>10, <3>1 DEF Follows
    <3> QED BY <3>1, <3>2
  <2>2. CASE x \in WithMeta(p, k)
    <3>1. PICK i \in 1..Len(ups) : ups[i] = Up(downAs[p][x])
      BY <1>5, <2>2
    <3>2. ups[i].code = downAs[p][x]
      BY <3>1, MessageFacts
    <3>3. \A j \in 1..Len(ups) : Len(<<m>>) + j \in 1..Len(UpsOf(p, k))
                                /\ UpsOf(p, k)[Len(<<m>>) + j] = ups[j]
      BY <1>10 DEF Follows
    <3> QED BY <3>2, <3>3
  <2> QED BY <2>1, <2>2
<1> QED BY <1>7, <1>8, <1>10, <1>11, <1>12 DEF Follows


LEMMA KeyUpKeeps ==
  ASSUME IInv, NEW p \in Pages, NEW k \in Keys, KeyUp(p, k)
  PROVE  IInv'
<1> DEFINE rest == WithMeta(p, k) \cup {k}
<1>1. /\ fingers \in [Pages -> SUBSET Keys] /\ grabbing \in [Pages -> BOOLEAN] /\ focus \in [Pages -> BOOLEAN]
      /\ downAs \in [Pages -> [Keys -> Codes \cup {""}]]
      /\ \A q \in Pages : downAs[q] \in [Keys -> CodesOf(q) \cup {""}]
      /\ events \in 0..MaxEvents /\ Excused \subseteq Codes /\ UpsSent(p)
  BY DEF IInv, TypeOK
<1>2. /\ fingers' \in [Pages -> SUBSET Keys] /\ fingers'[p] = fingers[p] \ {k}
      /\ \A q \in Pages \ {p} : fingers'[q] = fingers[q]
  BY <1>1 DEF KeyUp
<1>3. UNCHANGED <<grabbing, focus, events, st, held, garbled, replaced>>
  BY DEF KeyUp
<1>4. ASSUME NEW x \in Counted(p)
      PROVE  x \in Counted(p)' \/ x \in rest \/ downAs[p][x] \in {""} \cup missed
  <2>1. CASE x \in fingers[p]
    BY <1>1, <1>2, <2>1 DEF Counted
  <2>2. CASE x \notin fingers[p]
    <3>1. p \in Macs /\ "Meta" \in fingers[p] /\ x \in Keys
      BY <1>4, <2>2 DEF Counted
    <3>2. CASE k # "Meta"
      BY <1>2, <3>1, <3>2 DEF Counted
    <3>3. CASE k = "Meta"
      BY <1>1, <2>2, <3>1, <3>3 DEF UpsSent, WithMeta
    <3> QED BY <3>2, <3>3
  <2> QED BY <2>1, <2>2
<1>5. ASSUME NEW x \in Keys \ fingers'[p]
      PROVE  \/ x \in rest \/ downAs[p][x] \in {""} \cup missed
             \/ p \in Macs /\ "Meta" \in fingers'[p] /\ x \notin Modifiers
  <2>1. CASE x # k
    <3>1. x \in Keys \ fingers[p]
      BY <1>2, <2>1
    <3>2. CASE p \in Macs /\ "Meta" \in fingers[p] /\ x \notin Modifiers
      <4>1. CASE k = "Meta"
        BY <3>1, <3>2, <4>1 DEF WithMeta
      <4>2. CASE k # "Meta"
        BY <1>2, <3>2, <4>2
      <4> QED BY <4>1, <4>2
    <3> QED BY <1>1, <3>1, <3>2 DEF UpsSent
  <2> QED BY <2>1
<1>6. \A q \in Pages \ {p} : Counted(q)' = Counted(q) /\ Counted(q) \subseteq Keys
  BY <1>1, <1>2 DEF Counted
<1>7. CASE /\ missed' = missed \cup ({downAs[p][j] : j \in rest} \ {""})
           /\ UNCHANGED <<downAs, chan>>
  <2>1. \A x \in rest : downAs[p][x] \in {""} \cup missed' /\ downAs[p][x] \in Codes \cup {""}
    <3>1. rest \subseteq Keys
      BY DEF WithMeta
    <3>2. \A x \in rest : downAs[p][x] \in Codes \cup {""}
      BY <1>1, <3>1
    <3>3. \A x \in rest : downAs[p][x] \in {""} \cup missed'
      BY <1>7
    <3> QED BY <3>2, <3>3
  <2>2. /\ missed \subseteq missed' /\ missed' \subseteq Excused'
        /\ Excused \subseteq Excused' /\ Excused' \subseteq Codes
    <3>1. missed \subseteq missed' /\ missed' \subseteq missed \cup Codes
      BY <1>7, <2>1
    <3>2. garbled' = garbled /\ replaced' = replaced
      BY <1>3
    <3> QED BY <1>1, <3>1, <3>2 DEF Excused
  <2>3. DownAt(p) \subseteq DownAt(p)' \cup Excused' \cup {""}
    <3> SUFFICES ASSUME NEW x \in Counted(p)
                 PROVE  downAs[p][x] \in DownAt(p)' \cup Excused' \cup {""}
      BY DEF DownAt, Counted
    <3>1. x \in Counted(p)' => downAs[p][x] \in DownAt(p)'
      BY <1>7 DEF DownAt, Counted
    <3> QED BY <1>4, <2>1, <2>2, <3>1
  <2>4. Keeps(p, <<>>)
    BY <2>3, KeepsSilent
  <2>5. Alone(p)
    <3> SUFFICES ASSUME NEW q \in Pages \ {p} PROVE DownAt(q)' = DownAt(q)
      BY DEF Alone
    <3> QED BY <1>6, <1>7 DEF DownAt, Counted
  <2>6. ASSUME NEW q \in Pages PROVE UpsSent(q)'
    <3>1. CASE q = p
      BY <1>5, <1>7, <2>1, <2>2, <3>1 DEF UpsSent
    <3>2. CASE q # p
      <4>1. UpsSent(q) /\ fingers'[q] = fingers[q]
        BY <1>2, <3>2 DEF IInv
      <4> QED BY <1>7, <2>2, <4>1 DEF UpsSent
    <3> QED BY <3>1, <3>2
  <2>7. PageTypes'
    BY <1>1, <1>2, <1>3, <1>7, <2>2 DEF PageTypes
  <2> QED BY <1>3, <1>7, <2>2, <2>4, <2>5, <2>6, <2>7, Silent, PageStep
<1>8. CASE Hidden(p, k) /\ UNCHANGED <<downAs, chan, missed>>
  <2>1. p \in Macs /\ "Meta" \in fingers[p] /\ "Meta" \in fingers'[p] /\ k \notin Modifiers /\ rest = {k}
    BY <1>2, <1>8 DEF Hidden, Modifiers, WithMeta
  <2>2. Counted(p)' = Counted(p)
    BY <2>1 DEF Counted
  <2>3. Excused' = Excused
    BY <1>3, <1>8 DEF Excused
  <2>4. \A q \in Pages : DownAt(q)' = DownAt(q)
    <3> SUFFICES ASSUME NEW q \in Pages PROVE DownAt(q)' = DownAt(q)
      OBVIOUS
    <3>1. Counted(q)' = Counted(q)
      BY <1>6, <2>2
    <3> QED BY <1>8, <3>1 DEF DownAt, Counted
  <2>5. Keeps(p, <<>>) /\ Alone(p)
    BY <2>4, KeepsSilent DEF Alone
  <2>6. ASSUME NEW q \in Pages PROVE UpsSent(q)'
    <3>1. CASE q = p
      BY <1>5, <1>8, <2>1, <3>1 DEF UpsSent
    <3>2. CASE q # p
      <4>1. UpsSent(q) /\ fingers'[q] = fingers[q]
        BY <1>2, <3>2 DEF IInv
      <4> QED BY <1>8, <4>1 DEF UpsSent
    <3> QED BY <3>1, <3>2
  <2>7. PageTypes'
    BY <1>1, <1>2, <1>3, <1>8, <2>3 DEF PageTypes
  <2> QED BY <1>3, <1>8, <2>3, <2>5, <2>6, <2>7, Silent, PageStep
<1>9. CASE /\ Send(p, UpsOf(p, k)) /\ UNCHANGED missed
           /\ downAs' = [downAs EXCEPT ![p] = [j \in Keys |-> IF j \in rest THEN "" ELSE @[j]]]
  <2>1. Excused' = Excused
    BY <1>3, <1>9 DEF Excused
  <2>2. /\ downAs' \in [Pages -> [Keys -> Codes \cup {""}]]
        /\ \A q \in Pages : downAs'[q] \in [Keys -> CodesOf(q) \cup {""}]
        /\ \A x \in Keys : downAs'[p][x] = IF x \in rest THEN "" ELSE downAs[p][x]
        /\ \A q \in Pages \ {p} : downAs'[q] = downAs[q]
    <3> DEFINE d == [j \in Keys |-> IF j \in rest THEN "" ELSE downAs[p][j]]
    <3>1. d \in [Keys -> Codes \cup {""}] /\ d \in [Keys -> CodesOf(p) \cup {""}]
      BY <1>1
    <3>2. downAs' = [downAs EXCEPT ![p] = d]
      BY <1>9
    <3> QED BY <1>1, <3>1, <3>2
  <2>3. Keeps(p, UpsOf(p, k))
    <3>1. ASSUME NEW c \in DownAt(p)
          PROVE  \/ c \in {""} \cup DownAt(p)' \cup Excused'
                 \/ \E j \in 1..Len(UpsOf(p, k)) : UpsOf(p, k)[j].t = "up" /\ UpsOf(p, k)[j].code = c
      <4>1. PICK x \in Counted(p) : c = downAs[p][x]
        BY DEF DownAt, Counted
      <4>2. CASE x \in rest
        <5>1. downAs[p][x] # "" => \E j \in 1..Len(UpsOf(p, k)) : UpsOf(p, k)[j].code = downAs[p][x]
          BY <4>2, UpsFacts
        <5>2. \A j \in 1..Len(UpsOf(p, k)) : UpsOf(p, k)[j].t = "up"
          BY UpsFacts
        <5> QED BY <4>1, <5>1, <5>2
      <4>3. CASE x \notin rest /\ x \in Counted(p)'
        <5>1. x \in Keys /\ downAs'[p][x] = c
          BY <1>1, <2>2, <4>1, <4>3 DEF Counted
        <5> QED BY <4>3, <5>1 DEF DownAt, Counted
      <4>4. CASE c \in {""} \cup missed
        BY <2>1, <4>4 DEF Excused
      <4> QED BY <1>4, <4>1, <4>2, <4>3, <4>4
    <3>2. \A j \in 1..Len(UpsOf(p, k)) : UpsOf(p, k)[j].t = "up"
      BY UpsFacts
    <3> QED BY <3>1, <3>2 DEF Keeps
  <2>4. Alone(p)
    <3> SUFFICES ASSUME NEW q \in Pages \ {p} PROVE DownAt(q)' = DownAt(q)
      BY DEF Alone
    <3>1. downAs'[q] = downAs[q] /\ Counted(q)' = Counted(q)
      BY <1>6, <2>2
    <3> QED BY <3>1 DEF DownAt, Counted
  <2>5. ASSUME NEW q \in Pages PROVE UpsSent(q)'
    <3>1. CASE q = p
      BY <1>5, <1>9, <2>2, <3>1 DEF UpsSent
    <3>2. CASE q # p
      <4>1. UpsSent(q) /\ fingers'[q] = fingers[q] /\ downAs'[q] = downAs[q]
        BY <1>2, <2>2, <3>2 DEF IInv
      <4> QED BY <1>9, <4>1 DEF UpsSent
    <3> QED BY <3>1, <3>2
  <2>6. PageTypes'
    BY <1>1, <1>2, <1>3, <2>1, <2>2 DEF PageTypes
  <2> QED BY <1>3, <1>9, <2>1, <2>3, <2>4, <2>5, <2>6, UpsFacts, PageStep
<1> QED BY <1>7, <1>8, <1>9 DEF KeyUp, UpsOf

---------------------------------------------------------------------------
(* The channel. *)

\* The message i of page p is gone from the channel; a keydown that was to be
\* followed by it is overtaken or excused.
Gone(p, i) ==
  LET w == chan[p]
      v == chan'[p]
  IN /\ chan' \in [Pages -> Seq(Messages)] /\ \A q \in Pages \ {p} : chan'[q] = chan[q]
     /\ Len(v) = Len(w) - 1
     /\ \A j \in 1..Len(w) - 1 :
          LET o == IF j < i THEN j ELSE j + 1 IN
          /\ Stays(w, i, v[j], o)
          /\ o < i /\ w[o].code = w[i].code /\ w[i].t = "up" =>
               v[j].overtaken \/ w[i].code \in Excused'

LEMMA ChannelStep ==
  ASSUME IInv, NEW p \in Pages, NEW i \in 1..Len(chan[p]), Gone(p, i),
         UNCHANGED <<pageVars, st>>, missed' = missed, Excused \subseteq Excused'
  PROVE  /\ \A q \in Pages : DownsFollowed(q)' /\ UpsSent(q)' /\ ClosedQuiet(q)'
         /\ \A q \in Pages : DownAt(q)' = DownAt(q)
         /\ \A q \in Pages \ {p} : UpComing(q)' = UpComing(q)
         /\ \A j \in 1..Len(chan[p]) \ {i} : chan[p][j].t = "up" => chan[p][j].code \in UpComing(p)'
<1> DEFINE w == chan[p]
           v == chan'[p]
           old(j) == IF j < i THEN j ELSE j + 1
           new(j) == IF j < i THEN j ELSE j - 1
<1>1. chan \in [Pages -> Seq(Messages)]
  BY DEF IInv, TypeOK, Messages
<1>2. /\ w \in Seq(Messages) /\ v \in Seq(Messages) /\ Len(w) \in Nat /\ i \in 1..Len(w)
      /\ Len(v) = Len(w) - 1 /\ DOMAIN v = 1..Len(v)
  BY <1>1 DEF Gone
<1>3. \A q \in Pages \ {p} : chan'[q] = chan[q]
  BY DEF Gone
<1>4. ASSUME NEW j \in 1..Len(v)
      PROVE  /\ old(j) \in 1..Len(w) /\ old(j) # i
             /\ v[j].t = w[old(j)].t /\ v[j].code = w[old(j)].code
             /\ ~v[j].overtaken => ~w[old(j)].overtaken
             /\ old(j) < i /\ w[old(j)].code = w[i].code /\ w[i].t = "up" =>
                  v[j].overtaken \/ w[i].code \in Excused'
  BY <1>2 DEF Gone, Stays
<1>5. ASSUME NEW j \in 1..Len(w), j # i
      PROVE  /\ new(j) \in 1..Len(v) /\ v[new(j)].t = w[j].t /\ v[new(j)].code = w[j].code
             /\ \A k \in 1..Len(v) : j > old(k) => new(j) > k
  <2>1. new(j) \in 1..Len(v) /\ old(new(j)) = j
    BY <1>2, <1>5
  <2>2. \A k \in 1..Len(v) : j > old(k) => new(j) > k
    BY <1>2, <1>5
  <2> QED BY <1>4, <2>1, <2>2
<1>6. \A q \in Pages : DownAt(q)' = DownAt(q)
  BY DEF DownAt, pageVars
<1>7. \A q \in Pages \ {p} : UpComing(q)' = UpComing(q)
  BY <1>3 DEF UpComing
<1>8. ASSUME NEW j \in 1..Len(w) \ {i}, w[j].t = "up" PROVE w[j].code \in UpComing(p)'
  <2>1. new(j) \in 1..Len(v) /\ v[new(j)].t = "up" /\ v[new(j)].code = w[j].code
    BY <1>5, <1>8
  <2> QED BY <1>2, <2>1 DEF UpComing
<1>9. ASSUME NEW q \in Pages PROVE DownsFollowed(q)'
  <2>1. DownsFollowed(q)
    BY DEF IInv
  <2>2. CASE q # p
    <3>1. \A j, c : Released(q, j, c) => Released(q, j, c)'
      BY <1>3, <2>2 DEF Released
    <3>2. chan'[q] = chan[q] /\ DownAt(q)' = DownAt(q)
      BY <1>3, <1>6, <2>2
    <3> QED BY <2>1, <3>1, <3>2 DEF DownsFollowed
  <2>3. CASE q = p
    <3> SUFFICES ASSUME NEW j \in 1..Len(v), v[j].t = "down", ~v[j].overtaken,
                        v[j].code \notin Excused' \cup DownAt(p)'
                 PROVE  \E k \in 1..Len(v) : k > j /\ v[k].t = "up" /\ v[k].code = v[j].code
      BY <2>3 DEF DownsFollowed, Released
    <3>1. PICK o \in 1..Len(w) : o = old(j)
      BY <1>4
    <3>2. /\ w[o].t = "down" /\ ~w[o].overtaken /\ w[o].code = v[j].code
          /\ w[o].code \notin Excused \cup DownAt(p)
      BY <1>4, <1>6, <3>1
    <3>3. PICK k \in 1..Len(w) : k > o /\ w[k].t = "up" /\ w[k].code = w[o].code
      BY <2>1, <2>3, <3>2 DEF DownsFollowed, Released
    <3>4. k # i
      BY <1>4, <3>1, <3>2, <3>3
    <3>5. new(k) \in 1..Len(v) /\ new(k) > j /\ v[new(k)].t = "up" /\ v[new(k)].code = w[k].code
      BY <1>5, <3>1, <3>3, <3>4
    <3> QED BY <3>2, <3>3, <3>5
  <2> QED BY <2>2, <2>3
<1>10. ASSUME NEW q \in Pages PROVE UpsSent(q)'
  <2>1. UpsSent(q)
    BY DEF IInv
  <2> QED BY <2>1 DEF UpsSent, pageVars
<1>11. ASSUME NEW q \in Pages PROVE ClosedQuiet(q)'
  <2>1. ClosedQuiet(q)
    BY DEF IInv
  <2>2. q = p => chan[q] # <<>>
    BY <1>2, EmptySeq
  <2> QED BY <1>3, <2>1, <2>2 DEF ClosedQuiet
<1> QED BY <1>6, <1>7, <1>8, <1>9, <1>10, <1>11


LEMMA ArrivesKeeps ==
  ASSUME IInv, NEW p \in Pages, NEW i \in DOMAIN chan[p], Arrives(p, i)
  PROVE  IInv'
<1> DEFINE w == chan[p]
           m == w[i]
<1>1. /\ chan \in [Pages -> Seq(Messages)] /\ held \subseteq Codes /\ Excused \subseteq Codes
      /\ w \in Seq(Messages)
  BY DEF IInv, TypeOK, Messages
<1>2. i \in 1..Len(w) /\ DOMAIN w = 1..Len(w) /\ m \in Messages
  <2>1. DOMAIN w = 1..Len(w) /\ w \in [1..Len(w) -> Messages]
    BY <1>1, LenProperties
  <2> QED BY <2>1
<1>3. m.code \in Codes /\ m.t \in {"down", "up"}
  BY <1>2 DEF Messages
<1>4. /\ st[p] \in {"up", "dropping"} /\ chan' = [chan EXCEPT ![p] = Without(@, i)]
      /\ held' = IF m.t = "down" THEN held \cup {m.code} ELSE held \ {m.code}
      /\ garbled' = IF m.overtaken THEN garbled \cup {m.code} ELSE garbled
      /\ UNCHANGED <<pageVars, st, missed, replaced>>
  BY DEF Arrives
<1>5. /\ Excused \subseteq Excused' /\ Excused' \subseteq Codes
      /\ m.overtaken => m.code \in Excused'
  BY <1>1, <1>3, <1>4 DEF Excused
<1>6. Gone(p, i)
  <2>1. chan'[p] = Without(w, i)
    BY <1>1, <1>4
  <2>2. /\ chan'[p] \in Seq(Messages) /\ Len(w) \in Nat /\ Len(chan'[p]) = Len(w) - 1
        /\ \A j \in 1..Len(w) - 1 :
             LET o == IF j < i THEN j ELSE j + 1 IN
             Stays(w, i, chan'[p][j], o) /\ (o < i /\ w[o].code = w[i].code => chan'[p][j].overtaken)
    BY <1>1, <1>2, <2>1, Overtaking
  <2>3. chan' \in [Pages -> Seq(Messages)] /\ \A q \in Pages \ {p} : chan'[q] = chan[q]
    BY <1>1, <1>4, <2>1, <2>2
  <2> QED BY <2>2, <2>3 DEF Gone
<1>7. /\ \A q \in Pages : DownsFollowed(q)' /\ UpsSent(q)' /\ ClosedQuiet(q)'
      /\ \A q \in Pages : DownAt(q)' = DownAt(q)
      /\ \A q \in Pages \ {p} : UpComing(q)' = UpComing(q)
      /\ \A j \in 1..Len(w) \ {i} : w[j].t = "up" => w[j].code \in UpComing(p)'
  BY <1>2, <1>4, <1>5, <1>6, ChannelStep
<1>8. NoStuckKey'
  <2> SUFFICES ASSUME NEW c \in held', c \notin Excused' PROVE Accounted(c)'
    BY DEF NoStuckKey
  <2>1. CASE c \in held /\ (m.t = "up" => c # m.code)
    <3>1. PICK q \in Pages : \/ st[q] = "up" /\ c \in DownAt(q) \cup UpComing(q)
                             \/ st[q] \in {"dropping", "closing"}
      BY <1>5, <2>1 DEF IInv, NoStuckKey, Accounted
    <3>2. ASSUME c \in UpComing(q) PROVE c \in UpComing(q)'
      <4>1. CASE q = p
        <5>1. PICK j \in 1..Len(w) : w[j].t = "up" /\ w[j].code = c
          BY <1>2, <3>2, <4>1 DEF UpComing
        <5> QED BY <1>7, <2>1, <4>1, <5>1
      <4>2. CASE q # p
        BY <1>7, <3>2, <4>2
      <4> QED BY <4>1, <4>2
    <3> QED BY <1>4, <1>7, <3>1, <3>2 DEF Accounted
  <2>2. CASE m.t = "down" /\ c = m.code
    <3>1. CASE st[p] = "dropping"
      BY <1>4, <3>1 DEF Accounted
    <3>2. CASE st[p] = "up"
      <4>1. ~m.overtaken /\ c \notin Excused
        BY <1>5, <2>2
      <4>2. c \in DownAt(p) \/ Released(p, i, c)
        BY <1>2, <2>2, <4>1 DEF IInv, DownsFollowed
      <4>3. Released(p, i, c) => c \in UpComing(p)'
        BY <1>2, <1>7 DEF Released
      <4> QED BY <1>4, <1>7, <3>2, <4>2, <4>3 DEF Accounted
    <3> QED BY <1>4, <3>1, <3>2
  <2> QED BY <1>3, <1>4, <2>1, <2>2
<1>9. AllGoneAllUp'
  BY <1>4 DEF AllGoneAllUp
<1>10. TypeOK' /\ downAs' \in [Pages -> [Keys -> Codes \cup {""}]]
  BY <1>1, <1>3, <1>4, <1>5, <1>6 DEF IInv, TypeOK, Gone, Messages, pageVars
<1> QED BY <1>7, <1>8, <1>9, <1>10 DEF IInv

LEMMA LostKeeps ==
  ASSUME IInv, NEW p \in Pages, NEW i \in DOMAIN chan[p], Lost(p, i)
  PROVE  IInv'
<1> DEFINE w == chan[p]
           m == w[i]
<1>1. /\ chan \in [Pages -> Seq(Messages)] /\ held \subseteq Codes /\ Excused \subseteq Codes
      /\ w \in Seq(Messages)
  BY DEF IInv, TypeOK, Messages
<1>2. i \in 1..Len(w) /\ DOMAIN w = 1..Len(w) /\ m \in Messages
  <2>1. DOMAIN w = 1..Len(w) /\ w \in [1..Len(w) -> Messages]
    BY <1>1, LenProperties
  <2> QED BY <2>1
<1>3. m.code \in Codes
  BY <1>2 DEF Messages
<1>4. /\ chan' = [chan EXCEPT ![p] = RemoveAt(@, i)]
      /\ garbled' = IF m.t = "up" THEN garbled \cup {m.code} ELSE garbled
      /\ UNCHANGED <<pageVars, st, held, missed, replaced>>
  BY DEF Lost
<1>5. /\ Excused \subseteq Excused' /\ Excused' \subseteq Codes
      /\ m.t = "up" => m.code \in Excused'
  BY <1>1, <1>3, <1>4 DEF Excused
<1>6. Gone(p, i)
  <2>1. chan'[p] = RemoveAt(w, i)
    BY <1>1, <1>4
  <2>2. /\ chan'[p] \in Seq(Messages) /\ Len(w) \in Nat /\ Len(chan'[p]) = Len(w) - 1
        /\ \A j \in 1..Len(w) - 1 : chan'[p][j] = w[IF j < i THEN j ELSE j + 1]
    BY <1>1, <1>2, <2>1, TakenOut
  <2>3. chan' \in [Pages -> Seq(Messages)] /\ \A q \in Pages \ {p} : chan'[q] = chan[q]
    BY <1>1, <1>4, <2>1, <2>2
  <2>4. ASSUME NEW j \in 1..Len(w) - 1
        PROVE  LET o == IF j < i THEN j ELSE j + 1 IN
               /\ Stays(w, i, chan'[p][j], o)
               /\ o < i /\ w[o].code = w[i].code /\ w[i].t = "up" =>
                    chan'[p][j].overtaken \/ w[i].code \in Excused'
    <3> DEFINE o == IF j < i THEN j ELSE j + 1
    <3>1. o \in 1..Len(w) /\ o # i /\ chan'[p][j] = w[o]
      BY <1>2, <2>2
    <3> QED BY <1>5, <3>1 DEF Stays
  <2> QED BY <2>2, <2>3, <2>4 DEF Gone
<1>7. /\ \A q \in Pages : DownsFollowed(q)' /\ UpsSent(q)' /\ ClosedQuiet(q)'
      /\ \A q \in Pages : DownAt(q)' = DownAt(q)
      /\ \A q \in Pages \ {p} : UpComing(q)' = UpComing(q)
      /\ \A j \in 1..Len(w) \ {i} : w[j].t = "up" => w[j].code \in UpComing(p)'
  BY <1>2, <1>4, <1>5, <1>6, ChannelStep
<1>8. NoStuckKey'
  <2> SUFFICES ASSUME NEW c \in held, c \notin Excused' PROVE Accounted(c)'
    BY <1>4 DEF NoStuckKey
  <2>1. PICK q \in Pages : \/ st[q] = "up" /\ c \in DownAt(q) \cup UpComing(q)
                           \/ st[q] \in {"dropping", "closing"}
    BY <1>5 DEF IInv, NoStuckKey, Accounted
  <2>2. ASSUME c \in UpComing(q) PROVE c \in UpComing(q)'
    <3>1. CASE q = p
      <4>1. PICK j \in 1..Len(w) : w[j].t = "up" /\ w[j].code = c
        BY <1>2, <2>2, <3>1 DEF UpComing
      <4>2. j # i
        BY <1>5, <4>1
      <4> QED BY <1>7, <3>1, <4>1, <4>2
    <3>2. CASE q # p
      BY <1>7, <2>2, <3>2
    <3> QED BY <3>1, <3>2
  <2> QED BY <1>4, <1>7, <2>1, <2>2 DEF Accounted
<1>9. AllGoneAllUp'
  BY <1>4 DEF IInv, AllGoneAllUp
<1>10. TypeOK' /\ downAs' \in [Pages -> [Keys -> Codes \cup {""}]]
  BY <1>1, <1>4, <1>5, <1>6 DEF IInv, TypeOK, Gone, Messages, pageVars
<1> QED BY <1>7, <1>8, <1>9, <1>10 DEF IInv

---------------------------------------------------------------------------
(* The session. *)

LEMMA SessionKeeps ==
  ASSUME IInv, NEW p \in Pages, Session(p)
  PROVE  IInv'
<1>1. /\ chan \in [Pages -> Seq(Messages)] /\ st \in [Pages -> {"up", "dropping", "closing", "over"}]
      /\ held \subseteq Codes
  BY DEF IInv, TypeOK, Messages
<1>2. UNCHANGED <<fingers, grabbing, focus, downAs, histVars>>
  BY DEF Session, Disconnected, PcCloses, Closed, Reconnects, pageVars
<1>3. \/ chan' = chan
      \/ st[p] = "dropping" /\ st' = [st EXCEPT ![p] = "closing"] /\ chan' = [chan EXCEPT ![p] = <<>>]
  BY DEF Session, Disconnected, PcCloses, Closed, Reconnects
<1>4. \/ st[p] = "up" /\ st' = [st EXCEPT ![p] = "dropping"] /\ held' = {} /\ UNCHANGED chan
      \/ /\ st[p] = "dropping" /\ st' = [st EXCEPT ![p] = "closing"] /\ UNCHANGED held
         /\ chan' = [chan EXCEPT ![p] = <<>>]
      \/ st[p] = "closing" /\ st' = [st EXCEPT ![p] = "over"] /\ held' = {} /\ UNCHANGED chan
      \/ st[p] = "over" /\ st' = [st EXCEPT ![p] = "up"] /\ UNCHANGED <<held, chan>>
  BY DEF Session, Disconnected, PcCloses, Closed, Reconnects
<1>5. /\ st' \in [Pages -> {"up", "dropping", "closing", "over"}]
      /\ held' \subseteq held /\ \A q \in Pages \ {p} : st'[q] = st[q]
  BY <1>1, <1>4
<1>6. chan' \in [Pages -> Seq(Messages)] /\ \A q \in Pages : chan'[q] = chan[q] \/ chan'[q] = <<>>
  <2>1. <<>> \in Seq(Messages)
    BY EmptySeq
  <2> QED BY <1>1, <1>3, <2>1
<1>7. events' \in 0..MaxEvents
  <2>1. Count \/ UNCHANGED events
    BY DEF Session, Disconnected, PcCloses, Closed, Reconnects, pageVars
  <2> QED BY <2>1, Counts
<1>8. Excused' = Excused /\ \A q \in Pages : DownAt(q)' = DownAt(q)
  BY <1>2 DEF Excused, DownAt, histVars
<1>9. TypeOK' /\ downAs' \in [Pages -> [Keys -> Codes \cup {""}]]
  BY <1>1, <1>2, <1>5, <1>6, <1>7, <1>8 DEF IInv, TypeOK, Messages
<1>10. NoStuckKey'
  <2>1. CASE held' = {}
    BY <2>1 DEF NoStuckKey
  <2>2. CASE UNCHANGED held
    <3> SUFFICES ASSUME NEW c \in held, c \notin Excused PROVE Accounted(c)'
      BY <1>8, <2>2 DEF NoStuckKey
    <3>1. PICK q \in Pages : \/ st[q] = "up" /\ c \in DownAt(q) \cup UpComing(q)
                             \/ st[q] \in {"dropping", "closing"}
      BY DEF IInv, NoStuckKey, Accounted
    <3>2. CASE held # {} /\ st[p] = "dropping" /\ st' = [st EXCEPT ![p] = "closing"]
      <4>1. st'[p] = "closing"
        BY <1>1, <3>2
      <4> QED BY <4>1 DEF Accounted
    <3>3. CASE st[p] = "over" /\ UNCHANGED chan
      <4>1. q # p
        BY <3>1, <3>3
      <4>2. st'[q] = st[q] /\ DownAt(q)' = DownAt(q) /\ UpComing(q)' = UpComing(q)
        BY <1>5, <1>8, <3>3, <4>1 DEF UpComing
      <4> QED BY <3>1, <4>2 DEF Accounted
    <3>4. CASE held' = {}
      BY <2>2, <3>4
    <3> QED BY <1>4, <2>2, <3>2, <3>3, <3>4
  <2> QED BY <1>4, <2>1, <2>2
<1>11. AllGoneAllUp'
  <2> SUFFICES ASSUME \A q \in Pages : st'[q] = "over" PROVE held' = {}
    BY DEF AllGoneAllUp
  <2>1. st'[p] = "over"
    OBVIOUS
  <2> QED BY <1>1, <1>4, <2>1
<1>12. ASSUME NEW q \in Pages PROVE DownsFollowed(q)'
  <2>1. DownsFollowed(q)
    BY DEF IInv
  <2>2. CASE chan'[q] = chan[q]
    <3>1. \A j, c : Released(q, j, c) => Released(q, j, c)'
      BY <2>2 DEF Released
    <3> QED BY <1>8, <2>1, <2>2, <3>1 DEF DownsFollowed
  <2>3. CASE chan'[q] = <<>>
    BY <2>3, NothingSent DEF DownsFollowed
  <2> QED BY <1>6, <2>2, <2>3
<1>13. ASSUME NEW q \in Pages PROVE UpsSent(q)'
  <2>1. UpsSent(q)
    BY DEF IInv
  <2> QED BY <1>2, <2>1 DEF UpsSent, histVars
<1>14. ASSUME NEW q \in Pages PROVE ClosedQuiet(q)'
  <2>1. ClosedQuiet(q)
    BY DEF IInv
  <2>2. CASE q # p
    BY <1>5, <1>6, <2>1, <2>2 DEF ClosedQuiet
  <2>3. CASE st'[p] \in {"up", "dropping"} /\ q = p
    BY <2>3 DEF ClosedQuiet
  <2>4. CASE chan'[p] = <<>> /\ q = p
    BY <2>4 DEF ClosedQuiet
  <2>5. st'[p] \in {"up", "dropping"} \/ chan'[p] = <<>>
    <3>1. CASE chan' = [chan EXCEPT ![p] = <<>>]
      BY <1>1, <3>1
    <3>3. CASE st[p] = "closing" /\ chan' = chan
      BY <3>3 DEF IInv, ClosedQuiet
    <3>4. CASE st' = [st EXCEPT ![p] = "dropping"] \/ st' = [st EXCEPT ![p] = "up"]
      BY <1>1, <3>4
    <3> QED BY <1>4, <3>1, <3>3, <3>4
  <2> QED BY <2>2, <2>3, <2>4, <2>5
<1> QED BY <1>9, <1>10, <1>11, <1>12, <1>13, <1>14 DEF IInv

---------------------------------------------------------------------------
(* The theorems. *)

LEMMA InitHolds == Init => IInv
<1> SUFFICES ASSUME Init PROVE IInv
  OBVIOUS
<1>1. chan \in [Pages -> Seq(Messages)] /\ \A p \in Pages : chan[p] = <<>>
  <2>1. <<>> \in Seq(Messages)
    BY EmptySeq
  <2> QED BY <2>1 DEF Init
<1>2. TypeOK /\ downAs \in [Pages -> [Keys -> Codes \cup {""}]]
  <2>1. fingers \in [Pages -> SUBSET Keys] /\ grabbing \in [Pages -> BOOLEAN] /\ focus \in [Pages -> BOOLEAN]
    BY DEF Init
  <2>2. \A p \in Pages : downAs[p] \in [Keys -> CodesOf(p) \cup {""}]
    <3> SUFFICES ASSUME NEW p \in Pages PROVE downAs[p] \in [Keys -> CodesOf(p) \cup {""}]
      OBVIOUS
    <3>1. downAs[p] = [k \in Keys |-> ""]
      BY DEF Init
    <3> QED BY <3>1
  <2>3. downAs \in [Pages -> [Keys -> Codes \cup {""}]]
    BY DEF Init
  <2>4. st \in [Pages -> {"up", "dropping", "closing", "over"}]
    BY DEF Init
  <2>5. held \subseteq Codes /\ Excused \subseteq Codes
    BY DEF Init, Excused
  <2>6. events \in 0..MaxEvents
    <3>1. events = 0 /\ MaxEvents \in Nat
      BY KeyboardAssumption DEF Init
    <3> QED BY <3>1
  <2> QED BY <1>1, <2>1, <2>2, <2>3, <2>4, <2>5, <2>6 DEF TypeOK, Messages
<1>3. NoStuckKey /\ AllGoneAllUp
  BY DEF Init, NoStuckKey, AllGoneAllUp
<1>4. ASSUME NEW p \in Pages PROVE DownsFollowed(p) /\ UpsSent(p) /\ ClosedQuiet(p)
  <2>1. DownsFollowed(p)
    BY <1>1, NothingSent DEF DownsFollowed
  <2> QED BY <1>1, <2>1 DEF Init, UpsSent, ClosedQuiet
<1> QED BY <1>2, <1>3, <1>4 DEF IInv

LEMMA Inductive == IInv /\ [Next]_vars => IInv'
<1> SUFFICES ASSUME IInv, [Next]_vars PROVE IInv'
  OBVIOUS
<1>1. CASE UNCHANGED vars
  <2>1. /\ UNCHANGED <<fingers, grabbing, focus, downAs, events, chan, st, held, missed>>
        /\ Excused' = Excused
    BY <1>1 DEF vars, pageVars, histVars, Excused
  <2>2. TypeOK'
    BY <2>1 DEF IInv, TypeOK
  <2>3. \A p \in Pages : DownAt(p)' = DownAt(p) /\ UpComing(p)' = UpComing(p)
    BY <2>1 DEF DownAt, UpComing
  <2>4. NoStuckKey'
    <3>1. \A c : Accounted(c) => Accounted(c)'
      BY <2>1, <2>3 DEF Accounted
    <3> QED BY <2>1, <3>1 DEF IInv, NoStuckKey
  <2>5. AllGoneAllUp'
    BY <2>1 DEF IInv, AllGoneAllUp
  <2>6. ASSUME NEW p \in Pages PROVE DownsFollowed(p)' /\ UpsSent(p)' /\ ClosedQuiet(p)'
    <3>1. DownsFollowed(p) /\ UpsSent(p) /\ ClosedQuiet(p)
      BY DEF IInv
    <3>2. DownsFollowed(p)'
      <4>1. \A i, c : Released(p, i, c) => Released(p, i, c)'
        BY <2>1 DEF Released
      <4> QED BY <2>1, <2>3, <3>1, <4>1 DEF DownsFollowed
    <3>3. UpsSent(p)'
      BY <2>1, <3>1 DEF UpsSent
    <3>4. ClosedQuiet(p)'
      BY <2>1, <3>1 DEF ClosedQuiet
    <3> QED BY <3>2, <3>3, <3>4
  <2>7. downAs' \in [Pages -> [Keys -> Codes \cup {""}]]
    BY <2>1 DEF IInv
  <2> QED BY <2>2, <2>4, <2>5, <2>6, <2>7 DEF IInv
<1>2. ASSUME NEW p \in Pages, Page(p) PROVE IInv'
  BY <1>2, KeyDownKeeps, KeyUpKeeps, MouseKeeps DEF Page
<1>3. ASSUME NEW p \in Pages, Channel(p) PROVE IInv'
  BY <1>3, ArrivesKeeps, LostKeeps DEF Channel
<1>4. ASSUME NEW p \in Pages, Session(p) PROVE IInv'
  BY <1>4, SessionKeeps
<1> QED BY <1>1, <1>2, <1>3, <1>4 DEF Next

LEMMA Invariant == Spec => []IInv
BY InitHolds, Inductive, PTL DEF Spec

\* Every variable keeps its type, and a page sends no code but those of its keys,
\* whatever its layout: on a Mac never Command.
THEOREM TypeCorrect == Spec => []TypeOK
<1>1. IInv => TypeOK
  BY DEF IInv
<1> QED BY <1>1, Invariant, PTL

\* A key that is down at the desk has a finger on it, a keyup under way, or a
\* session about to release everything, unless its messages were garbled, its
\* keyup missed or its code replaced: for any pages and however much is typed.
THEOREM NoKeyStuck == Spec => []NoStuckKey
<1>1. IInv => NoStuckKey
  BY DEF IInv
<1> QED BY <1>1, Invariant, PTL

\* When no session is left no key is down.
THEOREM AllUpInTheEnd == Spec => []AllGoneAllUp
<1>1. IInv => AllGoneAllUp
  BY DEF IInv
<1> QED BY <1>1, Invariant, PTL

=============================================================================
