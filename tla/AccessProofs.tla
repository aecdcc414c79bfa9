--------------------------- MODULE AccessProofs ---------------------------
(***************************************************************************)
(* Proofs about Access, for any clients and addresses and any bounds: the  *)
(* number of wrong passwords of an address is bounded though the look at   *)
(* the count and the count are two critical sections, the table of         *)
(* addresses keeps its size, and pairings survive restarts of the host and *)
(* crashes while it writes its key.                                        *)
(***************************************************************************)
EXTENDS Access, FiniteSetTheorems, TLAPS

Stands == {"off", "writing", "form", "check", "in", "config", "open", "up", "dropped"}

\* The part of TypeOK that needs no counting.
Typed ==
  /\ fails \in [Addresses -> Nat] /\ age \in [Addresses -> 0..Window + 1]
  /\ st \in [Clients -> Stands]
  /\ right \in [Clients -> BOOLEAN]
  /\ token \in [Pages -> [good : BOOLEAN, life : 0..TokenTTL]]
  /\ pair \in [Pages -> [key : 0..MaxKeys, life : 0..PairTTL]]
  /\ file \in 0..MaxKeys /\ key \in 0..MaxKeys /\ keys \in 0..MaxKeys
  /\ revoked \subseteq 1..MaxKeys

\* The key of a running host is the one in the file, and a pairing was signed
\* with that one or with one that is gone.
KeyIsKept ==
  /\ st["host"] \in {"form", "check", "in"} => key = file /\ key # 0
  /\ st["host"] = "writing" => file = 0 /\ key # 0
  /\ st["host"] \in {"off", "writing", "form", "check", "in"}
  /\ \A p \in Pages : pair[p].key \in revoked \cup {0, file}

\* Clients of an address whose password has passed the look at the count.
Pending(a) == {c \in Neighbours(a) : st[c] = "check"}

\* They may all still be counted.
Room(a) ==
  age[a] <= Window =>
    fails[a] + Cardinality(Pending(a)) < MaxFails + Cardinality(Neighbours(a))

RoomForPending == \A a \in Addresses \ {"loopback"} : Room(a)

---------------------------------------------------------------------------
(* Types and keys. *)

LEMMA Constants ==
  /\ MaxFails \in Nat \ {0} /\ Window \in Nat \ {0} /\ TokenTTL \in Nat \ {0}
  /\ PairTTL \in Nat \ {0} /\ MaxKeys \in Nat \ {0} /\ MaxKnown \in Nat
  /\ Pages \subseteq Clients /\ "host" \in Clients
  /\ "host" \notin Pages /\ "host" \notin Others
  /\ \A c \in Clients : At[c] \in Addresses
  /\ At["host"] = "loopback"
BY AccessAssumption DEF Clients, Addresses

LEMMA TypedInit == Init => Typed
BY Constants DEF Init, Typed, NoToken, NoPair, Stands

LEMMA TypedStep == Typed /\ [Next]_vars => Typed'
<1> SUFFICES ASSUME Typed, [Next]_vars PROVE Typed'
  OBVIOUS
<1> USE Constants DEF Typed, Stands, Go, failVars, keyVars
<1>1. CASE UNCHANGED vars
  BY <1>1 DEF vars
<1>2. ASSUME NEW c \in Clients, Password(c) PROVE Typed'
  BY <1>2 DEF Password
<1>3. ASSUME NEW c \in Clients, Right(c) PROVE Typed'
  BY <1>3 DEF Right
<1>4. ASSUME NEW c \in Clients, Wrong(c) PROVE Typed'
  BY <1>4 DEF Wrong
<1>5. ASSUME NEW p \in Pages, Config(p) \/ OpenFails(p) \/ Drop(p) \/ Quit(p) PROVE Typed'
  <2>1. CASE Config(p)
    <3>1. NoToken \in [good : BOOLEAN, life : 0..TokenTTL]
      BY DEF NoToken
    <3>2. token' \in [Pages -> [good : BOOLEAN, life : 0..TokenTTL]]
      BY <2>1, <3>1 DEF Config
    <3>3. st' \in [Clients -> Stands]
      BY <2>1 DEF Config
    <3> QED BY <2>1, <3>2, <3>3 DEF Config
  <2>2. CASE OpenFails(p)
    BY <2>2 DEF OpenFails
  <2>3. CASE Drop(p)
    BY <2>3 DEF Drop
  <2>4. CASE Quit(p)
    BY <2>4 DEF Quit
  <2> QED BY <1>5, <2>1, <2>2, <2>3, <2>4
<1>6. ASSUME NEW p \in Pages, NEW pinOK \in BOOLEAN, Verdict(p, pinOK) PROVE Typed'
  <2>1. /\ NewPairing \in [key : 0..MaxKeys, life : 0..PairTTL]
        /\ NoPair \in [key : 0..MaxKeys, life : 0..PairTTL]
    BY DEF NewPairing, NoPair
  <2>2. PICK new \in {NewPairing, NoPair} : pair' = [pair EXCEPT ![p] = new]
    BY <1>6 DEF Verdict
  <2>3. pair' \in [Pages -> [key : 0..MaxKeys, life : 0..PairTTL]]
    BY <2>1, <2>2
  <2>4. PICK to \in {"up", "form"} : st' = [st EXCEPT ![p] = to]
    BY <1>6 DEF Verdict
  <2>5. st' \in [Clients -> Stands]
    BY <2>4
  <2>6. UNCHANGED <<failVars, right, token, keyVars>>
    BY <1>6 DEF Verdict
  <2> QED BY <2>3, <2>5, <2>6
<1>7. CASE LoadsKey
  BY <1>7 DEF LoadsKey
<1>8. CASE MakesKey
  BY <1>8 DEF MakesKey
<1>9. CASE KeyWritten
  BY <1>9 DEF KeyWritten
<1>10. CASE HostDies
  <2>1. st' \in [Clients -> Stands]
    BY <1>10 DEF HostDies
  <2> QED BY <1>10, <2>1 DEF HostDies
<1>11. CASE Restart
  <2>1. \A p \in Pages : [token[p] EXCEPT !.good = FALSE] \in [good : BOOLEAN, life : 0..TokenTTL]
    OBVIOUS
  <2>2. token' \in [Pages -> [good : BOOLEAN, life : 0..TokenTTL]]
    BY <1>11, <2>1 DEF Restart
  <2>3. st' \in [Clients -> Stands]
    BY <1>11 DEF Restart
  <2>4. fails' \in [Addresses -> Nat] /\ age' \in [Addresses -> 0..Window + 1]
    BY <1>11 DEF Restart
  <2> QED BY <1>11, <2>2, <2>3, <2>4 DEF Restart
<1>12. CASE Tick
  <2>1. \A n \in Nat : Less(n) \in Nat /\ Less(n) <= n
    BY DEF Less
  <2>2. \A n \in 0..Window + 1 : Older(n, Window) \in 0..Window + 1
    BY DEF Older
  <2>3. \A p \in Pages : [token[p] EXCEPT !.life = Less(@)] \in [good : BOOLEAN, life : 0..TokenTTL]
    BY <2>1
  <2>4. \A p \in Pages : [pair[p] EXCEPT !.life = Less(@)] \in [key : 0..MaxKeys, life : 0..PairTTL]
    BY <2>1
  <2>5. token' \in [Pages -> [good : BOOLEAN, life : 0..TokenTTL]]
    BY <1>12, <2>3 DEF Tick
  <2>6. pair' \in [Pages -> [key : 0..MaxKeys, life : 0..PairTTL]]
    BY <1>12, <2>4 DEF Tick
  <2>7. age' \in [Addresses -> 0..Window + 1]
    BY <1>12, <2>2 DEF Tick
  <2> QED BY <1>12, <2>5, <2>6, <2>7 DEF Tick
<1> HIDE DEF Typed
<1>13. ASSUME NEW p \in Pages, Page(p) PROVE Typed'
  BY <1>5, <1>6, <1>13 DEF Page, Connect, Reconnect
<1>14. CASE Host
  BY <1>7, <1>8, <1>9, <1>10, <1>14 DEF Host
<1> QED
  BY <1>1, <1>2, <1>3, <1>4, <1>11, <1>12, <1>13, <1>14 DEF Next

LEMMA KeyInit == Init => KeyIsKept
BY Constants DEF Init, KeyIsKept, NoPair

LEMMA KeyStep == Typed /\ KeyIsKept /\ [Next]_vars => KeyIsKept'
<1> SUFFICES ASSUME Typed, KeyIsKept, [Next]_vars PROVE KeyIsKept'
  OBVIOUS
<1> USE Constants DEF KeyIsKept, Typed, Stands, Go, failVars, keyVars
<1>1. CASE UNCHANGED vars
  BY <1>1 DEF vars
<1>2. ASSUME NEW c \in Clients, Password(c) PROVE KeyIsKept'
  BY <1>2 DEF Password, Blocked
<1>3. ASSUME NEW c \in Clients, Right(c) PROVE KeyIsKept'
  BY <1>3 DEF Right
<1>4. ASSUME NEW c \in Clients, Wrong(c) PROVE KeyIsKept'
  BY <1>4 DEF Wrong
<1>5. ASSUME NEW p \in Pages, Config(p) \/ OpenFails(p) \/ Drop(p) \/ Quit(p) PROVE KeyIsKept'
  BY <1>5 DEF Config, OpenFails, Drop, Quit
<1>6. ASSUME NEW p \in Pages, NEW pinOK \in BOOLEAN, Verdict(p, pinOK) PROVE KeyIsKept'
  <2>1. st["host"] = "in" /\ key = file /\ p # "host"
    BY <1>6 DEF Verdict
  <2>2. st'["host"] = st["host"] /\ UNCHANGED keyVars
    BY <1>6, <2>1 DEF Verdict
  <2>3. PICK new \in {NewPairing, NoPair} : pair' = [pair EXCEPT ![p] = new]
    BY <1>6 DEF Verdict
  <2>4. new.key \in {0, file}
    BY <2>1, <2>3 DEF NewPairing, NoPair
  <2>5. \A q \in Pages : pair'[q].key \in revoked \cup {0, file}
    BY <2>3, <2>4
  <2> QED BY <2>1, <2>2, <2>5
<1>7. CASE LoadsKey
  BY <1>7 DEF LoadsKey
<1>8. CASE MakesKey
  BY <1>8 DEF MakesKey
<1>9. CASE KeyWritten
  BY <1>9 DEF KeyWritten
<1>10. CASE HostDies
  BY <1>10 DEF HostDies
<1>11. CASE Restart
  BY <1>11 DEF Restart
<1>12. CASE Tick
  <2>1. UNCHANGED <<st, keyVars>>
    BY <1>12 DEF Tick
  <2>2. \A p \in Pages : pair'[p].key = pair[p].key
    <3>1. pair' = [p \in Pages |-> [pair[p] EXCEPT !.life = Less(@)]]
      BY <1>12 DEF Tick
    <3> QED BY <3>1
  <2> QED BY <2>1, <2>2
<1> HIDE DEF Typed, KeyIsKept
<1>13. ASSUME NEW p \in Pages, Page(p) PROVE KeyIsKept'
  BY <1>5, <1>6, <1>13 DEF Page, Connect, Reconnect
<1>14. CASE Host
  BY <1>7, <1>8, <1>9, <1>10, <1>14 DEF Host
<1> QED
  BY <1>1, <1>2, <1>3, <1>4, <1>11, <1>12, <1>13, <1>14 DEF Next

\* A host that runs has the key every pairing was signed with whose key was not
\* given up, though it may have crashed at any point of writing a key.
THEOREM PairingsOutliveRestarts == Spec => []PairingsSurvive
<1>1. Typed /\ KeyIsKept => PairingsSurvive
  BY DEF KeyIsKept, PairingsSurvive
<1> QED BY <1>1, TypedInit, TypedStep, KeyInit, KeyStep, PTL DEF Spec

---------------------------------------------------------------------------
(* Wrong passwords. *)

LEMMA Counts ==
  ASSUME NEW a \in Addresses, NEW S \in SUBSET Neighbours(a)
  PROVE  /\ IsFiniteSet(S) /\ Cardinality(S) \in Nat
         /\ Cardinality(Neighbours(a)) \in Nat
         /\ Cardinality(S) <= Cardinality(Neighbours(a))
         /\ \A T \in SUBSET S : Cardinality(T) <= Cardinality(S)
         /\ \A c \in S : Cardinality(S \ {c}) = Cardinality(S) - 1
<1>1. IsFiniteSet(Neighbours(a))
  <2>1. Neighbours(a) \subseteq Clients
    BY DEF Neighbours
  <2> QED BY <2>1, AccessAssumption, FS_Subset
<1>2. IsFiniteSet(S) /\ Cardinality(S) <= Cardinality(Neighbours(a))
  BY <1>1, FS_Subset
<1>3. \A T \in SUBSET S : Cardinality(T) <= Cardinality(S)
  BY <1>2, FS_Subset
<1>4. \A c \in S : Cardinality(S \ {c}) = Cardinality(S) - 1
  BY <1>2, FS_RemoveElement
<1> QED BY <1>1, <1>2, <1>3, <1>4, FS_CardinalityType

LEMMA RoomInit == Init => RoomForPending
<1> SUFFICES ASSUME Init, NEW a \in Addresses \ {"loopback"} PROVE Room(a)
  BY DEF RoomForPending
<1>1. Pending(a) = {}
  BY DEF Init, Pending, Neighbours
<1>2. Cardinality(Pending(a)) = 0
  BY <1>1, FS_EmptySet
<1>3. fails[a] = 0
  BY DEF Init
<1>4. Cardinality(Neighbours(a)) \in Nat
  BY Counts
<1> QED BY <1>2, <1>3, <1>4, Constants DEF Room

\* What keeps the room of an address: nobody starts to check there, and its count
\* stays, or starts again.
LEMMA RoomKept ==
  ASSUME Typed, Typed', NEW a \in Addresses, Room(a),
         \/ /\ Pending(a)' \subseteq Pending(a)
            /\ fails'[a] = fails[a]
            /\ age'[a] <= Window => age[a] <= Window
         \/ fails'[a] = 0
  PROVE  Room(a)'
<1>1. Pending(a) \in SUBSET Neighbours(a) /\ Pending(a)' \in SUBSET Neighbours(a)
  BY DEF Pending, Neighbours
<1>2. /\ Cardinality(Neighbours(a)) \in Nat
      /\ Cardinality(Pending(a)) \in Nat
      /\ Cardinality(Pending(a)') \in Nat
      /\ Cardinality(Pending(a)') <= Cardinality(Neighbours(a))
      /\ Pending(a)' \subseteq Pending(a) => Cardinality(Pending(a)') <= Cardinality(Pending(a))
  BY <1>1, Counts
<1>3. /\ MaxFails \in Nat /\ MaxFails > 0
      /\ fails[a] \in Nat /\ fails'[a] \in Nat
  BY Constants DEF Typed
<1>4. Neighbours(a)' = Neighbours(a)
  BY DEF Neighbours
<1>5. Cardinality(Pending(a))' = Cardinality(Pending(a)')
  OBVIOUS
<1> QED BY <1>2, <1>3, <1>4, <1>5 DEF Room

LEMMA RoomStep ==
  Typed /\ Typed' /\ RoomForPending /\ [Next]_vars => RoomForPending'
<1> SUFFICES ASSUME Typed, Typed', RoomForPending, [Next]_vars,
                    NEW a \in Addresses \ {"loopback"}
             PROVE  Room(a)'
  BY DEF RoomForPending, Addresses
<1>0. Room(a) /\ a \in Addresses
  BY DEF RoomForPending
<1> USE DEF Go, failVars
<1>1. ASSUME UNCHANGED <<fails, age>>, \A c \in Clients : st'[c] = "check" => st[c] = "check"
      PROVE Room(a)'
  BY <1>0, <1>1, RoomKept DEF Pending, Neighbours
<1>2. ASSUME NEW c \in Clients, Password(c) PROVE Room(a)'
  <2>1. CASE Blocked(At[c]) \/ At[c] # a
    <3>1. Pending(a)' \subseteq Pending(a)
      BY <1>2, <2>1 DEF Password, Pending, Neighbours, Typed
    <3> QED BY <1>0, <1>2, <3>1, RoomKept DEF Password
  <2>2. CASE ~Blocked(a)
    <3>1. Pending(a)' \in SUBSET Neighbours(a)
      BY DEF Pending, Neighbours
    <3>2. Cardinality(Pending(a)') <= Cardinality(Neighbours(a))
          /\ Cardinality(Pending(a)') \in Nat /\ Cardinality(Neighbours(a)) \in Nat
      BY <1>0, <3>1, Counts
    <3>3. age[a] <= Window => fails[a] < MaxFails
      BY <2>2, <1>0, Constants DEF Blocked, Typed
    <3>4. fails[a] \in Nat /\ MaxFails \in Nat /\ fails'[a] = fails[a] /\ age'[a] = age[a]
      BY <1>2, <1>0, Constants DEF Typed, Password
    <3>5. Neighbours(a)' = Neighbours(a)
      BY DEF Neighbours
    <3>6. Cardinality(Pending(a))' = Cardinality(Pending(a)')
      OBVIOUS
    <3> QED BY <3>2, <3>3, <3>4, <3>5, <3>6 DEF Room
  <2> QED BY <2>1, <2>2
<1>3. ASSUME NEW c \in Clients, Wrong(c) PROVE Room(a)'
  <2>1. CASE At[c] # a
    <3>1. Pending(a)' \subseteq Pending(a)
      BY <1>3 DEF Wrong, Pending, Neighbours, Typed
    <3>2. fails'[a] = 0 \/ (fails'[a] = fails[a] /\ (age'[a] <= Window => age[a] <= Window))
      BY <1>0, <1>3, <2>1 DEF Wrong
    <3> QED BY <1>0, <3>1, <3>2, RoomKept
  <2>2. CASE At[c] = a
    <3>1. c \in Pending(a) /\ Pending(a)' = Pending(a) \ {c}
      BY <1>3, <2>2 DEF Wrong, Pending, Neighbours, Typed
    <3>2. Pending(a) \in SUBSET Neighbours(a)
      BY DEF Pending
    <3>3. /\ Cardinality(Pending(a)') = Cardinality(Pending(a)) - 1
          /\ Cardinality(Pending(a)) <= Cardinality(Neighbours(a))
          /\ Cardinality(Pending(a)) \in Nat /\ Cardinality(Neighbours(a)) \in Nat
      BY <1>0, <3>1, <3>2, Counts
    <3>4. fails'[a] = IF fails[a] = 0 \/ age[a] > Window THEN 1 ELSE fails[a] + 1
      BY <1>0, <1>3, <2>2 DEF Wrong
    <3>5. fails[a] \in Nat /\ age[a] \in Nat /\ MaxFails \in Nat \ {0} /\ Window \in Nat
      BY <1>0, Constants DEF Typed
    <3>6. Neighbours(a)' = Neighbours(a)
      BY DEF Neighbours
    <3>7. Cardinality(Pending(a))' = Cardinality(Pending(a)')
      OBVIOUS
    <3>8. CASE fails[a] = 0 \/ age[a] > Window
      BY <3>3, <3>4, <3>5, <3>6, <3>7, <3>8 DEF Room
    <3>9. CASE ~(fails[a] = 0 \/ age[a] > Window)
      <4>1. fails[a] + Cardinality(Pending(a)) < MaxFails + Cardinality(Neighbours(a))
        BY <1>0, <3>5, <3>9 DEF Room
      <4> QED BY <4>1, <3>3, <3>4, <3>5, <3>6, <3>7, <3>9 DEF Room
    <3> QED BY <3>8, <3>9
  <2> QED BY <2>1, <2>2
<1>4. CASE Restart
  <2>1. fails'[a] = 0
    BY <1>0, <1>4 DEF Restart
  <2> QED BY <1>0, <2>1, RoomKept
<1>5. CASE Tick
  <2>1. fails[a] = 0 \/ (age'[a] <= Window => age[a] <= Window)
    BY <1>0, <1>5, Constants DEF Tick, Older, Typed
  <2>2. Pending(a)' = Pending(a) /\ fails'[a] = fails[a]
    BY <1>5 DEF Tick, Pending, Neighbours
  <2> QED BY <1>0, <2>1, <2>2, RoomKept
<1>6. ASSUME NEW c \in Clients, Right(c) PROVE Room(a)'
  BY <1>1, <1>6 DEF Right, Typed
<1>7. ASSUME NEW p \in Pages, Page(p) PROVE Room(a)'
  BY <1>1, <1>7, Constants
     DEF Page, Config, OpenFails, Connect, Reconnect, Verdict, Drop, Quit, Typed
<1>8. CASE Host
  BY <1>1, <1>8, Constants DEF Host, LoadsKey, MakesKey, KeyWritten, HostDies, Typed
<1>9. CASE UNCHANGED vars
  BY <1>1, <1>9 DEF vars
<1> QED BY <1>2, <1>3, <1>4, <1>5, <1>6, <1>7, <1>8, <1>9 DEF Next

\* However many passwords of one address are checked at the same time, the count
\* of a window stays below the limit and one for each client of the address.
THEOREM TriesStayBounded == Spec => []TriesBounded
<1>1. Typed /\ RoomForPending => TriesBounded
  <2> SUFFICES ASSUME Typed, RoomForPending, NEW a \in Addresses \ {"loopback"}, age[a] <= Window
               PROVE  fails[a] < MaxFails + Cardinality(Neighbours(a))
    BY DEF TriesBounded
  <2>1. fails[a] + Cardinality(Pending(a)) < MaxFails + Cardinality(Neighbours(a))
    BY DEF RoomForPending, Room
  <2>2. Pending(a) \in SUBSET Neighbours(a)
    BY DEF Pending
  <2>3. Cardinality(Pending(a)) \in Nat /\ Cardinality(Neighbours(a)) \in Nat
    BY <2>2, Counts
  <2>4. fails[a] \in Nat /\ MaxFails \in Nat
    BY Constants DEF Typed
  <2> QED BY <2>1, <2>3, <2>4
<1> QED BY <1>1, TypedInit, TypedStep, RoomInit, RoomStep, PTL DEF Spec
---------------------------------------------------------------------------
(* The table of addresses. *)

Known == {a \in Addresses : fails[a] > 0}

\* One more than the limit: the first wrong password that finds the table over
\* the limit empties it.
TableBounded == Cardinality(Known) <= MaxKnown + 1

LEMMA KnownFacts ==
  /\ IsFiniteSet(Addresses)
  /\ \A S \in SUBSET Addresses :
       /\ IsFiniteSet(S) /\ Cardinality(S) \in Nat
       /\ \A T \in SUBSET S : Cardinality(T) <= Cardinality(S)
       /\ \A a \in Addresses : Cardinality(S \cup {a}) <= Cardinality(S) + 1
<1>1. IsFiniteSet(Addresses)
  <2> DEFINE f == [c \in Clients |-> At[c]]
  <2>1. f \in Surjection(Clients, Addresses)
    BY DEF Surjection, Addresses
  <2> QED BY <2>1, AccessAssumption, FS_Surjection
<1> SUFFICES ASSUME NEW S \in SUBSET Addresses
             PROVE  /\ IsFiniteSet(S) /\ Cardinality(S) \in Nat
                    /\ \A T \in SUBSET S : Cardinality(T) <= Cardinality(S)
                    /\ \A a \in Addresses : Cardinality(S \cup {a}) <= Cardinality(S) + 1
  BY <1>1
<1>2. IsFiniteSet(S)
  BY <1>1, FS_Subset
<1>3. Cardinality(S) \in Nat
  BY <1>2, FS_CardinalityType
<1>4. \A T \in SUBSET S : Cardinality(T) <= Cardinality(S)
  BY <1>2, FS_Subset
<1>5. ASSUME NEW a \in Addresses PROVE Cardinality(S \cup {a}) <= Cardinality(S) + 1
  <2>1. Cardinality(S \cup {a}) = IF a \in S THEN Cardinality(S) ELSE Cardinality(S) + 1
    BY <1>2, FS_AddElement
  <2> QED BY <1>3, <2>1
<1> QED BY <1>2, <1>3, <1>4, <1>5

LEMMA TableInit == Init => TableBounded
<1> SUFFICES ASSUME Init PROVE TableBounded
  OBVIOUS
<1>1. Known = {}
  BY DEF Init, Known
<1> QED BY <1>1, FS_EmptySet, Constants DEF TableBounded

LEMMA TableStep == Typed /\ TableBounded /\ [Next]_vars => TableBounded'
<1> SUFFICES ASSUME Typed, TableBounded, [Next]_vars PROVE TableBounded'
  OBVIOUS
<1>1. Known \in SUBSET Addresses /\ MaxKnown \in Nat /\ Addresses' = Addresses
  BY Constants DEF Known, Addresses
<1>2. Cardinality(Known) \in Nat /\ Cardinality(Known) <= MaxKnown + 1
  BY <1>1, KnownFacts DEF TableBounded
<1>3. Cardinality(Known)' = Cardinality(Known')
  OBVIOUS
<1>4. ASSUME fails' = fails PROVE TableBounded'
  <2>1. Known' = Known
    BY <1>4 DEF Known, Addresses
  <2> QED BY <1>2, <1>3, <2>1 DEF TableBounded
<1>5. ASSUME NEW c \in Clients, Wrong(c) PROVE TableBounded'
  <2> DEFINE a == At[c]
             new == fails[a] = 0 \/ age[a] > Window
             full == Cardinality(Known) > MaxKnown
  <2>1. a \in Addresses /\ {a} \in SUBSET Addresses
    BY Constants
  <2>2. fails' = [b \in Addresses |->
                    IF b = a THEN (IF new THEN 1 ELSE fails[a] + 1)
                    ELSE IF new /\ full THEN 0 ELSE fails[b]]
    BY <1>5 DEF Wrong, Known
  <2>3. Known' \subseteq Known \cup {a} /\ (new /\ full => Known' \subseteq {a})
    BY <1>1, <2>2 DEF Known, Typed
  <2>4. CASE new /\ full
    <3>1. Cardinality({a}) = 1
      BY FS_Singleton
    <3>2. Known' \in SUBSET {a}
      BY <2>3, <2>4
    <3>3. Cardinality(Known') <= Cardinality({a}) /\ Cardinality(Known') \in Nat
      BY <2>1, <3>2, KnownFacts
    <3> QED BY <1>1, <1>3, <3>1, <3>3 DEF TableBounded
  <2>5. CASE ~full
    <3>1. Known \cup {a} \in SUBSET Addresses /\ Known' \in SUBSET (Known \cup {a})
      BY <1>1, <2>1, <2>3
    <3>2. Cardinality(Known') <= Cardinality(Known \cup {a}) /\ Cardinality(Known') \in Nat
          /\ Cardinality(Known \cup {a}) \in Nat
      BY <1>1, <2>1, <3>1, KnownFacts
    <3>3. Cardinality(Known \cup {a}) <= Cardinality(Known) + 1
      BY <1>1, <2>1, KnownFacts
    <3>4. Cardinality(Known) <= MaxKnown
      BY <1>1, <1>2, <2>5
    <3> QED BY <1>1, <1>2, <1>3, <3>2, <3>3, <3>4 DEF TableBounded
  <2>6. CASE ~new
    <3>1. a \in Known
      BY <2>1, <2>6 DEF Known, Typed
    <3>2. Known' \in SUBSET Known
      BY <2>3, <3>1
    <3>3. Cardinality(Known') <= Cardinality(Known) /\ Cardinality(Known') \in Nat
      BY <1>1, <3>2, KnownFacts
    <3> QED BY <1>1, <1>2, <1>3, <3>3 DEF TableBounded
  <2> QED BY <2>4, <2>5, <2>6
<1>6. CASE Restart
  <2>1. Known' = {}
    BY <1>1, <1>6 DEF Restart, Known
  <2>2. Cardinality(Known') = 0
    BY <2>1, FS_EmptySet
  <2> QED BY <1>1, <1>3, <2>2 DEF TableBounded
<1>7. ASSUME NEW c \in Clients, Password(c) \/ Right(c) PROVE TableBounded'
  BY <1>4, <1>7 DEF Password, Right, failVars
<1>8. ASSUME NEW p \in Pages, Page(p) PROVE TableBounded'
  BY <1>4, <1>8 DEF Page, Config, OpenFails, Connect, Reconnect, Verdict, Drop, Quit, failVars
<1>9. CASE Host \/ Tick
  BY <1>4, <1>9 DEF Host, LoadsKey, MakesKey, KeyWritten, HostDies, Tick, failVars
<1>10. CASE UNCHANGED vars
  BY <1>4, <1>10 DEF vars, failVars
<1> QED BY <1>5, <1>6, <1>7, <1>8, <1>9, <1>10 DEF Next

\* Every variable keeps its type, and the table of addresses its size, whatever
\* is tried and from wherever: it grows one past the limit and is emptied.
THEOREM TypeCorrect == Spec => []TypeOK
<1>1. Typed /\ TableBounded => TypeOK
  BY DEF Typed, Stands, TableBounded, Known, TypeOK
<1> QED BY <1>1, TypedInit, TypedStep, TableInit, TableStep, PTL DEF Spec
=============================================================================
