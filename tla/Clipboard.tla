----------------------------- MODULE Clipboard -----------------------------
(***************************************************************************)
(* cmd/nc-host/clipboard.go and the clipboard of index.html: one device    *)
(* and the desk exchange texts over the reliable control channel, in       *)
(* pieces. Three kinds of goroutines work on the state of a session: the   *)
(* handler of the channel (receive), the one that polls the desk's         *)
(* clipboard (run), and one for each "clipnow" (now). They read and write  *)
(* the desk's clipboard without the lock that guards what both sides know. *)
(*                                                                         *)
(* A text is the sequence of its pieces. Another device of the desk is one *)
(* of the programs that copy there.                                        *)
(***************************************************************************)
EXTENDS Naturals, Sequences, FiniteSets

CONSTANTS
  DeskTexts,    \* texts that programs copy on the desk, each once
  PageTexts,    \* texts the device pastes, each once
  Pieces,       \* the number of pieces of each text
  MaxPieces,    \* the longest text taken (clipMax)
  Nows,         \* "clipnow" requests, and the goroutine of each
  MaxGets       \* "clipget" requests (bound)

Senders == {"run"} \cup Nows

ASSUME ClipboardAssumption ==
  /\ DeskTexts \cap PageTexts = {}
  /\ "old" \notin DeskTexts \cup PageTexts
  /\ Pieces \in [DeskTexts \cup PageTexts \cup {"old"} -> Nat \ {0}]
  /\ MaxPieces \in Nat /\ MaxGets \in Nat
  /\ Nows \cap {"run", "free"} = {}

VARIABLES
  desk,     \* the desk's clipboard
  up,       \* messages to the host
  in,       \* receive: the pieces so far
  last,     \* what the desk's clipboard holds as far as both sides know
  known,    \* whether last has been set
  writing,  \* the text the handler is putting on the desk's clipboard
  st,       \* where each goroutine that sends texts stands
  text,     \* the text it has read
  poke,     \* run has been poked
  waits,    \* run watches closely for a new text (waitUntil)
  out,      \* who sends pieces (clipSync.out)
  clipIn,   \* page: pieces received
  asked,    \* page: a get or now it has had no answer to
  budget,   \* what desk and device have not done yet
  got,      \* history: the texts the page received
  pasted,   \* history: the texts the handler took
  told,     \* history: the texts run sent
  spoilt,   \* history: pastes that were overwritten by a copy, or not written
  misses,   \* history: other pastes whose keystroke found another text
  raced,    \* history: two of the goroutines overlapped, or a write failed
  again     \* history: run sent a text again, or one of the device's own

hostVars == <<in, last, known, writing>>
sendVars == <<st, text, out>>
runVars  == <<poke, waits>>
pageVars == <<clipIn, asked>>
histVars == <<pasted, told, spoilt, misses, raced, again>>
vars == <<desk, up, hostVars, sendVars, runVars, pageVars, budget, got, histVars>>

None     == <<>>
Text(n)  == [i \in 1..Pieces[n] |-> <<n, i>>]
Whole    == {Text(n) : n \in DOMAIN Pieces}
Fits(t)  == t # None /\ Len(t) <= MaxPieces

Init ==
  /\ desk \in {None, Text("old")}
  /\ up = <<>>
  /\ in = <<>> /\ last = None /\ known = FALSE /\ writing = None
  /\ st = [g \in Senders |-> IF g = "run" THEN "first" ELSE "none"]
  /\ text = [g \in Senders |-> None]
  /\ poke = FALSE /\ waits = FALSE
  /\ out = "free"
  /\ clipIn = <<>> /\ asked = FALSE
  /\ budget \in [todo : SUBSET (DeskTexts \cup PageTexts \cup Nows), gets : 0..MaxGets]
  /\ got = {}
  /\ pasted = {} /\ told = {} /\ spoilt = {} /\ misses = {} /\ raced = FALSE /\ again = FALSE

Go(g, from, to) == st[g] = from /\ st' = [st EXCEPT ![g] = to]
Spend(x) == x \in budget.todo /\ budget' = [budget EXCEPT !.todo = @ \ {x}]

\* A goroutine that has read the clipboard and not compared it yet.
Holding(G) == \E g \in G : st[g] = "read"

---------------------------------------------------------------------------
(* The desk and the page. *)

Copy(n) ==
  /\ n \in DeskTexts /\ Spend(n)
  /\ desk' = Text(n)
  /\ spoilt' = spoilt \cup {m \in PageTexts : Text(m) \in pasted}
  /\ UNCHANGED <<up, hostVars, sendVars, runVars, pageVars, got, pasted, told, misses, raced, again>>

\* sendClip and the keystroke after it, one after the other on the channel.
Paste(n) ==
  /\ n \in PageTexts /\ Spend(n)
  /\ up' = up \o [i \in 1..Pieces[n] |-> [t |-> "clip", text |-> <<n, i>>, more |-> i < Pieces[n]]]
              \o <<[t |-> "key", of |-> n]>>
  /\ UNCHANGED <<desk, hostVars, sendVars, runVars, pageVars, got, histVars>>

\* startCopy: the device's copy key, or the button that asks for the clipboard.
Ask ==
  /\ asked' = TRUE
  /\ \/ /\ budget.gets > 0
        /\ budget' = [budget EXCEPT !.gets = @ - 1]
        /\ up' = Append(up, [t |-> "clipget"])
     \/ \E g \in Nows : Spend(g) /\ up' = Append(up, [t |-> "clipnow", by |-> g])
  /\ UNCHANGED <<desk, hostVars, sendVars, runVars, clipIn, got, histVars>>

\* onCtl: pieces are put together until one says there are no more. What the
\* page does with a text is no message to the host, so a message is taken to
\* arrive when it is sent.
PageHears(piece, more) ==
  IF more THEN clipIn' = Append(clipIn, piece) /\ UNCHANGED <<asked, got>>
  ELSE got' = got \cup {Append(clipIn, piece)} /\ clipIn' = <<>> /\ asked' = FALSE

PageHearsNone == asked' = FALSE /\ UNCHANGED <<clipIn, got>>

---------------------------------------------------------------------------
(* The handler of the control channel: one message at a time. *)

\* Mutant of Take: the text is set in a goroutine of its own.
TakeAnyway(t) == up # <<>> /\ Head(up).t = t /\ up' = Tail(up)

Take(t) == writing = None /\ up # <<>> /\ Head(up).t = t /\ up' = Tail(up)

\* receive: a piece too many drops what came before it, and more may follow.
Overflow ==
  /\ Take("clip") /\ Len(in) + 1 > MaxPieces
  /\ in' = <<>>
  /\ UNCHANGED <<desk, last, known, writing, sendVars, runVars, pageVars, budget, got, histVars>>

\* Mutant of Collect: it does not look at the limit.
CollectAll ==
  /\ Take("clip") /\ Head(up).more
  /\ in' = Append(in, Head(up).text)
  /\ UNCHANGED <<desk, last, known, writing, sendVars, runVars, pageVars, budget, got, histVars>>

Collect ==
  /\ Take("clip") /\ Len(in) + 1 <= MaxPieces /\ Head(up).more
  /\ in' = Append(in, Head(up).text)
  /\ UNCHANGED <<desk, last, known, writing, sendVars, runVars, pageVars, budget, got, histVars>>

\* The last piece: both sides know the text before it is on the clipboard.
Receive ==
  /\ Take("clip") /\ Len(in) + 1 <= MaxPieces /\ ~Head(up).more
  /\ LET t == Append(in, Head(up).text) IN
       /\ last' = t /\ writing' = t
       /\ pasted' = pasted \cup {t}
  /\ known' = TRUE
  /\ in' = <<>>
  /\ raced' = (raced \/ Holding(Senders))
  /\ UNCHANGED <<desk, sendVars, runVars, pageVars, budget, got, told, spoilt, misses, again>>

\* Mutant of Write: what is known is read back from the clipboard.
WriteReadBack ==
  /\ writing # None
  /\ writing' = None
  /\ desk' \in {desk, writing} /\ last' = desk'
  /\ UNCHANGED <<up, in, known, sendVars, runVars, pageVars, budget, got, histVars>>

\* clipWrite returns when the desk sees the text, or gives up.
Write ==
  /\ writing # None
  /\ writing' = None
  /\ \/ desk' = writing /\ UNCHANGED <<spoilt, raced>>
     \/ /\ spoilt' = spoilt \cup {m \in PageTexts : Text(m) = writing}
        /\ raced' = TRUE
        /\ UNCHANGED desk
  /\ UNCHANGED <<up, in, last, known, sendVars, runVars, pageVars, budget, got, pasted, told, misses, again>>

\* The keystroke pastes what the desk's clipboard holds.
Keystroke ==
  /\ Take("key")
  /\ misses' = misses \cup ({Head(up).of} \ (spoilt \cup {m \in PageTexts : desk = Text(m)}))
  /\ UNCHANGED <<desk, hostVars, sendVars, runVars, pageVars, budget, got, pasted, told, spoilt, raced, again>>

\* Mutant of Get: the poke is lost unless run is waiting for it.
GetUnbuffered ==
  /\ Take("clipget")
  /\ poke' = (poke \/ st["run"] = "wait")
  /\ UNCHANGED <<desk, hostVars, sendVars, waits, pageVars, budget, got, histVars>>

Get ==
  /\ Take("clipget")
  /\ poke' = TRUE
  /\ UNCHANGED <<desk, hostVars, sendVars, waits, pageVars, budget, got, histVars>>

SpawnNow ==
  /\ Take("clipnow")
  /\ Go(Head(up).by, "none", "start")
  /\ UNCHANGED <<desk, hostVars, text, out, runVars, pageVars, budget, got, histVars>>

---------------------------------------------------------------------------
(* now. *)

NowRead(g) ==
  /\ IF Fits(desk)
     THEN Go(g, "start", "read") /\ text' = [text EXCEPT ![g] = desk] /\ UNCHANGED <<pageVars, got>>
     ELSE Go(g, "start", "done") /\ PageHearsNone /\ UNCHANGED text
  /\ raced' = (raced \/ writing # None \/ Holding(Senders))
  /\ UNCHANGED <<desk, up, hostVars, out, runVars, budget, pasted, told, spoilt, misses, again>>

NowKnows(g) ==
  /\ g \in Nows /\ Go(g, "read", "lock")
  /\ last' = text[g]
  /\ UNCHANGED <<desk, up, in, known, writing, text, out, runVars, pageVars, budget, got, histVars>>

---------------------------------------------------------------------------
(* run. *)

\* The first look: what was there before the session is not news.
FirstRead ==
  /\ IF desk = None
     THEN Go("run", "first", "wait") /\ UNCHANGED text
     ELSE Go("run", "first", "looked") /\ text' = [text EXCEPT !["run"] = desk]
  /\ UNCHANGED <<desk, up, hostVars, out, runVars, pageVars, budget, got, histVars>>

\* Mutant of FirstLook: although the device has pasted meanwhile.
FirstLookAnyway ==
  /\ Go("run", "looked", "wait")
  /\ last' = text["run"] /\ known' = TRUE
  /\ UNCHANGED <<desk, up, in, writing, text, out, runVars, pageVars, budget, got, histVars>>

FirstLook ==
  /\ Go("run", "looked", "wait")
  /\ last' = IF known THEN last ELSE text["run"]
  /\ known' = TRUE
  /\ UNCHANGED <<desk, up, in, writing, text, out, runVars, pageVars, budget, got, histVars>>

Poked ==
  /\ st["run"] = "wait" /\ poke
  /\ poke' = FALSE /\ waits' = TRUE
  /\ UNCHANGED <<desk, up, hostVars, sendVars, pageVars, budget, got, histVars>>

RunRead ==
  /\ Go("run", "wait", "read")
  /\ text' = [text EXCEPT !["run"] = desk]
  /\ raced' = (raced \/ writing # None \/ Holding(Nows))
  /\ UNCHANGED <<desk, up, hostVars, out, runVars, pageVars, budget, got, pasted, told, spoilt, misses, again>>

Changed == Fits(text["run"]) /\ text["run"] # last

\* A new text: it is known now, and sent.
RunNews ==
  /\ Go("run", "read", "lock") /\ Changed
  /\ last' = text["run"]
  /\ waits' = FALSE
  /\ told' = told \cup {last'}
  /\ again' = (again \/ last' \in told \cup pasted)
  /\ UNCHANGED <<desk, up, in, known, writing, text, out, poke, pageVars, budget, got, pasted, spoilt, misses, raced>>

RunSame ==
  /\ Go("run", "read", "wait") /\ ~Changed
  /\ UNCHANGED <<desk, up, hostVars, text, out, runVars, pageVars, budget, got, histVars>>

\* Nothing new within a second of the "clipget".
RunExpires ==
  /\ Go("run", "read", "wait") /\ ~Changed /\ waits
  /\ waits' = FALSE
  /\ PageHearsNone
  /\ UNCHANGED <<desk, up, hostVars, text, out, poke, budget, histVars>>

---------------------------------------------------------------------------
(* send: one text's pieces at a time. *)

\* Mutant of Lock: run and now send without waiting for each other.
LockNothing(g) ==
  /\ Go(g, "lock", "send")
  /\ UNCHANGED <<desk, up, hostVars, text, out, runVars, pageVars, budget, got, histVars>>

Lock(g) ==
  /\ out = "free" /\ out' = g
  /\ Go(g, "lock", "send")
  /\ UNCHANGED <<desk, up, hostVars, text, runVars, pageVars, budget, got, histVars>>

Send(g) ==
  /\ st[g] = "send"
  /\ LET more == Len(text[g]) > 1 IN
       /\ PageHears(Head(text[g]), more)
       /\ text' = [text EXCEPT ![g] = Tail(@)]
       /\ st' = IF more THEN st ELSE [st EXCEPT ![g] = IF g = "run" THEN "wait" ELSE "done"]
       /\ out' = IF more THEN out ELSE "free"
  /\ UNCHANGED <<desk, up, hostVars, runVars, budget, histVars>>

Handler == Overflow \/ Collect \/ Receive \/ Write \/ Keystroke \/ Get \/ SpawnNow
Run     == FirstRead \/ FirstLook \/ Poked \/ RunRead \/ RunNews \/ RunSame \/ RunExpires

Next ==
  \/ \E n \in DeskTexts : Copy(n)
  \/ \E n \in PageTexts : Paste(n)
  \/ Ask \/ Handler \/ Run
  \/ \E g \in Nows : NowRead(g) \/ NowKnows(g)
  \/ \E g \in Senders : Lock(g) \/ Send(g)

\* Goroutines run, the channel delivers, and a second passes while run polls.
Fairness ==
  /\ WF_vars(Handler) /\ WF_vars(Run)
  /\ SF_vars(Poked) /\ SF_vars(RunExpires)
  /\ \A g \in Nows : WF_vars(NowRead(g) \/ NowKnows(g))
  /\ \A g \in Senders : SF_vars(Lock(g)) /\ WF_vars(Send(g))

Spec == Init /\ [][Next]_vars /\ Fairness

---------------------------------------------------------------------------
(* Properties. *)

TypeOK ==
  /\ Len(desk) <= MaxPieces \/ desk \in Whole
  /\ Len(in) <= MaxPieces
  /\ st["run"] \in {"first", "looked", "wait", "read", "lock", "send"}
  /\ \A g \in Nows : st[g] \in {"none", "start", "read", "lock", "send", "done"}
  /\ out \in Senders \cup {"free"}
  /\ {known, poke, waits, asked, raced, again} \subseteq BOOLEAN

\* What the page puts together from the pieces is a text that was on the desk's
\* clipboard, also when run and now have a text to send at the same time.
NothingMixed ==
  \A t \in got : t \in Whole \cup pasted

\* The keystroke that follows a paste finds the pasted text on the desk, unless
\* a program copied meanwhile, the clipboard could not be set, or the text was
\* over-long: of such a one the pieces after the overflow are taken for a text.
PasteFindsText == \A n \in misses : Pieces[n] > MaxPieces

\* A text that passes in pieces arrives whole and where it is looked for.
TextsWhole == TypeOK /\ NothingMixed /\ PasteFindsText

\* run sends the device a text of the desk once, and none of the device's own
\* pastes, unless a reading of the clipboard overlapped with another one's
\* reading or writing: what is read then may be old by the time it is compared.
NoEcho == raced \/ ~again

\* A text copied on the desk reaches the page, or another takes its place: at
\* any time after run's first look, whatever the device pastes or asks for.
CopyArrives ==
  \A n \in DeskTexts :
    Pieces[n] <= MaxPieces =>
      (desk = Text(n) /\ known /\ last # Text(n)) ~> (Text(n) \in got \/ desk # Text(n))

\* A page that asked is told something: a text or that there is none.
AskAnswered == asked ~> ~asked
=============================================================================
