------------------------------ MODULE Access ------------------------------
(***************************************************************************)
(* Who is let in: the authority of cmd/nc-rendezvous/main.go with its      *)
(* count of wrong passwords and its tokens, the pairing key of             *)
(* cmd/nc-host/pairing.go, and the page that uses both (index.html). What  *)
(* the messages do on their way is in Signaling: here an offer and the     *)
(* host's verdict are one step.                                            *)
(*                                                                         *)
(* Times are ages and lives that stop at their limits, so the model needs  *)
(* no clock.                                                               *)
(***************************************************************************)
EXTENDS Naturals, FiniteSets

CONSTANTS
  Pages,      \* devices with the page
  Others,     \* whoever else sends passwords
  At,         \* the address of each
  MaxFails,   \* wrong passwords before an address is refused
  MaxKnown,   \* addresses remembered (10000 in the code)
  Window,     \* failWindow
  TokenTTL, PairTTL,
  MaxKeys     \* pairing keys made (bound)

Clients   == Pages \cup Others \cup {"host"}
Addresses == {At[c] : c \in Clients}

ASSUME AccessAssumption ==
  /\ Pages \cap Others = {} /\ "host" \notin Pages \cup Others
  /\ IsFiniteSet(Clients)
  /\ Clients \subseteq DOMAIN At /\ At["host"] = "loopback"
  /\ MaxKnown \in Nat
  /\ {MaxFails, Window, TokenTTL, PairTTL, MaxKeys} \subseteq Nat \ {0}

VARIABLES
  fails,    \* authority.fails: wrong passwords of each address remembered
  age,      \* time since the first of them
  st,       \* where each client stands
  right,    \* whether the password it sent is the right one
  token,    \* the page's token: is it of this rendezvous, how long is it good
  pair,     \* the page's pairing: the key it was signed with, how long it is good
  file,     \* pair.key: the key it holds, 0 for none or an unfinished one
  key,      \* the key of the running host
  keys,     \* keys made so far
  revoked   \* history: keys given up on purpose, or that could not be read

failVars == <<fails, age>>
keyVars  == <<file, key, keys, revoked>>
vars     == <<failVars, st, right, token, pair, keyVars>>

NoToken == [good |-> FALSE, life |-> 0]
NoPair  == [key |-> 0, life |-> 0]

Init ==
  /\ fails = [a \in Addresses |-> 0]
  /\ age = [a \in Addresses |-> 0]
  /\ st = [c \in Clients |-> IF c = "host" THEN "off" ELSE "form"]
  /\ right = [c \in Clients |-> FALSE]
  /\ token = [p \in Pages |-> NoToken]
  /\ pair = [p \in Pages |-> NoPair]
  /\ file = 0 /\ key = 0 /\ keys = 0 /\ revoked = {}

Go(c, from, to) == st[c] = from /\ st' = [st EXCEPT ![c] = to]

---------------------------------------------------------------------------
(* authority: passwords. *)

\* Mutants of Blocked: one try more; the window is left to failed().
BlockedLater(a) == a # "loopback" /\ age[a] <= Window /\ fails[a] > MaxFails
BlockedForGood(a) == a # "loopback" /\ fails[a] >= MaxFails

Blocked(a) == a # "loopback" /\ age[a] <= Window /\ fails[a] >= MaxFails

\* checkCredsFrom looks at the count in one critical section. An address that is
\* refused is told so.
Password(c) ==
  /\ Go(c, "form", IF Blocked(At[c]) THEN "form" ELSE "check")
  /\ \E b \in BOOLEAN : right' = [right EXCEPT ![c] = b \/ c = "host"]
  /\ UNCHANGED <<failVars, token, pair, keyVars>>

\* The right one: the page gets a token, the host is connected.
Right(c) ==
  /\ right[c]
  /\ Go(c, "check", IF c \in Pages THEN "config" ELSE IF c = "host" THEN "in" ELSE "form")
  /\ token' = [p \in Pages |-> IF p = c THEN [good |-> TRUE, life |-> TokenTTL] ELSE token[p]]
  /\ UNCHANGED <<failVars, right, pair, keyVars>>

\* Mutant of Wrong: addresses are never forgotten.
WrongKeepingAll(c) ==
  LET a == At[c]
      new == fails[a] = 0 \/ age[a] > Window IN
  /\ ~right[c] /\ Go(c, "check", "form")
  /\ fails' = [fails EXCEPT ![a] = IF new THEN 1 ELSE @ + 1]
  /\ age' = [age EXCEPT ![a] = IF new THEN 0 ELSE @]
  /\ UNCHANGED <<right, token, pair, keyVars>>

\* A wrong one is counted in another critical section, failed(). The first of a
\* window forgets all addresses when there are too many.
Wrong(c) ==
  LET a == At[c]
      new == fails[a] = 0 \/ age[a] > Window
      full == Cardinality({b \in Addresses : fails[b] > 0}) > MaxKnown
  IN
  /\ ~right[c] /\ Go(c, "check", "form")
  /\ fails' = [b \in Addresses |->
                 IF b = a THEN (IF new THEN 1 ELSE fails[a] + 1)
                 ELSE IF new /\ full THEN 0 ELSE fails[b]]
  /\ age' = [b \in Addresses |-> IF (b = a /\ new) \/ fails'[b] = 0 THEN 0 ELSE age[b]]
  /\ UNCHANGED <<right, token, pair, keyVars>>

---------------------------------------------------------------------------
(* The page. *)

ValidToken(p) == token[p].good /\ token[p].life > 0

\* api('/config'): after a 401 the page sends the password again.
Config(p) ==
  /\ Go(p, "config", IF ValidToken(p) THEN "open" ELSE "form")
  /\ token' = [token EXCEPT ![p] = IF ValidToken(p) THEN @ ELSE NoToken]
  /\ UNCHANGED <<failVars, right, pair, keyVars>>

\* openPeer at a press of Connect: without a valid token it gives up.
OpenFails(p) ==
  /\ ~ValidToken(p) /\ Go(p, "open", "form")
  /\ UNCHANGED <<failVars, right, token, pair, keyVars>>

\* pairing.go: a pairing is signed with the key of the host that made it, which
\* also checks it.
NewPairing == [key |-> key, life |-> PairTTL]
Paired(p)  == pair[p].key = key /\ pair[p].life > 0

\* handleOffer: the PIN or a pairing signed with the host's key lets the page in,
\* which gets a new pairing. A refused pairing is forgotten.
Verdict(p, pinOK) ==
  /\ ValidToken(p) /\ st["host"] = "in" /\ st[p] \in {"open", "dropped"}
  /\ IF pinOK \/ Paired(p)
     THEN /\ st' = [st EXCEPT ![p] = "up"]
          /\ pair' = [pair EXCEPT ![p] = NewPairing]
     ELSE /\ st' = [st EXCEPT ![p] = "form"]
          /\ pair' = [pair EXCEPT ![p] = NoPair]
  /\ UNCHANGED <<failVars, right, token, keyVars>>

\* onDropped: the page opens a peer again and again, with the token it has.
Connect(p) == st[p] = "open" /\ \E pinOK \in BOOLEAN : Verdict(p, pinOK)
Reconnect(p) == st[p] = "dropped" /\ Verdict(p, FALSE)

Drop(p) ==
  /\ Go(p, "up", "dropped")
  /\ UNCHANGED <<failVars, right, token, pair, keyVars>>

\* The person leaves the session, or gives up waiting.
Quit(p) ==
  /\ st[p] \in {"up", "dropped"} /\ st' = [st EXCEPT ![p] = "form"]
  /\ UNCHANGED <<failVars, right, token, pair, keyVars>>

---------------------------------------------------------------------------
(* The host, the rendezvous, time. *)

\* loadPairing: a key file that is whole is used, unless -reset-pairings is
\* given or the file cannot be read; then a new key is made.
LoadsKey ==
  /\ file # 0 /\ Go("host", "off", "form")
  /\ key' = file
  /\ UNCHANGED <<failVars, right, token, pair, file, keys, revoked>>

\* Mutant of MakesKey: the host goes on while the file is being written.
MakesKeyEarly ==
  /\ keys < MaxKeys /\ st["host"] = "off"
  /\ st' = [st EXCEPT !["host"] = "form"]
  /\ keys' = keys + 1 /\ key' = keys'
  /\ revoked' = IF file = 0 THEN revoked ELSE revoked \cup {file}
  /\ file' = 0
  /\ UNCHANGED <<failVars, right, token, pair>>

\* The file is emptied first: a crash now leaves it unfinished.
MakesKey ==
  /\ keys < MaxKeys /\ Go("host", "off", "writing")
  /\ keys' = keys + 1 /\ key' = keys'
  /\ revoked' = IF file = 0 THEN revoked ELSE revoked \cup {file}
  /\ file' = 0
  /\ UNCHANGED <<failVars, right, token, pair>>

KeyWritten ==
  /\ Go("host", "writing", "form")
  /\ file' = key
  /\ UNCHANGED <<failVars, right, token, pair, key, keys, revoked>>

\* The host stops or dies, and the sessions with it.
HostDies ==
  /\ st["host"] # "off"
  /\ st' = [c \in Clients |-> IF c = "host" THEN "off" ELSE IF st[c] = "up" THEN "dropped" ELSE st[c]]
  /\ key' = 0
  /\ UNCHANGED <<failVars, right, token, pair, file, keys, revoked>>

\* The rendezvous restarts: it makes a new secret and has counted nothing.
\* Sessions stay up; the host has to dial again.
Restart ==
  /\ token' = [p \in Pages |-> [token[p] EXCEPT !.good = FALSE]]
  /\ fails' = [a \in Addresses |-> 0] /\ age' = [a \in Addresses |-> 0]
  /\ st' = [c \in Clients |-> IF st[c] = "in" \/ st[c] = "check" THEN "form" ELSE st[c]]
  /\ UNCHANGED <<right, pair, keyVars>>

Older(n, limit) == IF n > limit THEN n ELSE n + 1
Less(n) == IF n = 0 THEN 0 ELSE n - 1

Tick ==
  /\ age' = [a \in Addresses |-> IF fails[a] = 0 THEN 0 ELSE Older(age[a], Window)]
  /\ token' = [p \in Pages |-> [token[p] EXCEPT !.life = Less(@)]]
  /\ pair' = [p \in Pages |-> [pair[p] EXCEPT !.life = Less(@)]]
  /\ UNCHANGED <<fails, st, right, keyVars>>

Page(p) == Config(p) \/ OpenFails(p) \/ Connect(p) \/ Reconnect(p) \/ Drop(p) \/ Quit(p)
Host    == LoadsKey \/ MakesKey \/ KeyWritten \/ HostDies

Next ==
  \/ \E c \in Clients : Password(c) \/ Right(c) \/ Wrong(c)
  \/ \E p \in Pages : Page(p)
  \/ Host \/ Restart \/ Tick

\* Time passes and a page retries when it can. The host is there long enough for
\* a retry to meet it.
Fairness == WF_vars(Tick) /\ \A p \in Pages : SF_vars(Reconnect(p))

Spec == Init /\ [][Next]_vars /\ Fairness

---------------------------------------------------------------------------
(* Properties. *)

TypeOK ==
  /\ \A a \in Addresses : fails[a] \in Nat /\ age[a] \in 0..Window + 1
  /\ Cardinality({a \in Addresses : fails[a] > 0}) <= MaxKnown + 1
  /\ st \in [Clients -> {"off", "writing", "form", "check", "in", "config", "open", "up", "dropped"}]
  /\ right \in [Clients -> BOOLEAN]
  /\ token \in [Pages -> [good : BOOLEAN, life : 0..TokenTTL]]
  /\ pair \in [Pages -> [key : 0..MaxKeys, life : 0..PairTTL]]
  /\ {file, key, keys} \subseteq 0..MaxKeys /\ revoked \subseteq 1..MaxKeys

Neighbours(a) == {c \in Clients : At[c] = a}

\* Passwords that are tried at the same time pass the look at the count together;
\* still the count of a window stays below the limit and one for each client of
\* the address.
TriesBounded ==
  \A a \in Addresses \ {"loopback"} :
    age[a] <= Window => fails[a] < MaxFails + Cardinality(Neighbours(a))

\* Pairings survive restarts: the running host has the key any pairing was
\* signed with, though it may have crashed while it wrote a key, unless that key
\* was given up on purpose or could not be read.
PairingsSurvive ==
  \A p \in Pages :
    pair[p].key \notin revoked \cup {0} /\ st["host"] \notin {"off", "writing"}
      => key = pair[p].key

\* A refused address is let try again when the window has passed, however often
\* it tries meanwhile.
RefusalEnds == \A a \in Addresses : (fails[a] > 0 /\ Blocked(a)) ~> ~Blocked(a)
=============================================================================
