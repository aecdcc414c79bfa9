# A TLA+ model of network-computer

network-computer gives any device with a browser a desktop that runs elsewhere. This directory holds
TLA+ models of its core, the TLC configurations that check them on small instances, and machine-checked
proofs for all instances. All paths below are relative to the repository (`src/`).

Run TLC with `tlc -workers 2 -config X.cfg M` for a module `M` and one of its configurations, and the
proofs of a module with `tlapm XProofs.tla`. `PROJECT.json` lists runs, mutants, hazards, theorems, and for
each definition the lines it models.

## 1. The system

Three Go programs, a web page, and the tools of the desk.

| Component | State | Operations | Interacts by |
|---|---|---|---|
| Encoder hub `cmd/nc-host/hub.go`, `display.go`, `capture.go` | subscribers and whether each waits for a keyframe, current encoder, keyframe mark, size of the screen | join, leave, stop, restart, WriteSample, "display" requests | goroutines per session, per request and per encoder under one mutex |
| Video stream `capture.go` | byte buffer, access unit | nalUnits, runOnce, firstMB | reads ffmpeg's pipe, writes to the hub |
| Signaling `cmd/nc-rendezvous/main.go`, `cmd/nc-host/main.go`, `web/index.html` | clients, registered hosts, ids; sessions of the host | register, offer, answer, error, ice; redial; closeSession | websocket messages through the rendezvous |
| Files from devices `cmd/nc-host/files.go` | temporary and final files, one upload per channel | header, pieces, "end", close | data channels; the desk's own directory |
| Files to devices `files.go` | the app's channel and its queue of answers | send, answers, timeout | data channels, a unix socket for `nc-send` |
| Keys and pointer `internal/input`, `web/index.html` | keys held down, on the page and on the desk | kd, ku, pointer events, ReleaseAll | an unordered, unreliable data channel |
| Clipboard `clipboard.go`, `web/index.html` | last text known, pieces received, poll deadline | receive, get, now, run | control channel and X clipboard |
| Access `cmd/nc-rendezvous/main.go`, `cmd/nc-host/pairing.go`, `web/index.html` | wrong passwords per address, tokens, pairing key | /auth, tokens, pairings, PIN, reconnection | HTTP and the offer |
| Camera, microphone, sound `camera.go`, `mic.go`, `audio.go` | the camera's owner, ffmpeg processes | take, release, play | tracks of a session |
| Voice `voice.go`, `nc-voice` | microphone on or off, utterances, a question that waits for yes | on, off, once, listen, worker, approve | events over HTTP |
| Idle file `main.go`, `infra/droplet.sh` | number of connected devices, idle since | writeIdle; autostop | a file read over ssh |
| Sites, talkback, TLS `sites.go`, `talkback.go`, `tls.go` | certificate | proxy | HTTP |
| Tools `provision/`, `infra/` | services, files | scripts | processes |

What makes each correct, and what is hard about it:

- **Encoder hub.** One encoder while somebody watches and none otherwise; a device starts at a picture it
  can decode; the encoder runs at the size of the screen. Hard: every operation gives the lock up between
  its decision and its effect, and a stopped encoder goes on writing until it has ended.
- **Video stream.** Samples are exactly the pictures ffmpeg wrote, whatever the size of each read. Hard:
  start codes of two lengths split over reads, the trimmed buffer, several slices per picture.
- **Signaling.** The host can be reached, devices are kept apart, an offer gets an answer. Hard: dead
  connections noticed late, redials, ids that start again after a restart of the rendezvous.
- **Files.** Data never mixes, nothing half-received stays, no file is overwritten. Hard: names are looked
  for and taken in separate steps; the same directory is used by others.
- **Keys.** No key stays down. Hard: an unreliable channel, focus changes, several devices.
- **Clipboard.** A copy arrives, a paste finds its text, and a text is not echoed. Hard: three kinds of
  goroutines read and write the desk's clipboard outside the lock that guards what they know of it.
- **Access.** Wrong passwords are bounded in every window and the refusal ends; a pairing survives restarts.
  Hard: the look at the count and the count are separate; the host may crash while it writes its key.
- **Camera.** One writer on the device, the newest, which keeps it. Hard: the one before ends only later.
- **Voice.** The microphone closes when nobody is left. Hard: connections that replace each other, a queue
  that drops, threads that act on what they saw and have no lock between them.
- **Idle file.** It tells the truth, so that a desk in use is not destroyed and an empty one is. Hard: it
  is composed under the lock and written outside it.

The hazards in `PROJECT.json` list these at their lines, with the properties that cover them or a note.

## 2. Modules

| Module | Models | Lines of the code |
|---|---|---|
| `EncoderHub` | the encoder hub and its goroutines | `hub.go`, `display.go:27-97`, `main.go:385-439`, `capture.go:113-196` |
| `SharedEncoder` | what `EncoderHub` promises: one encoder, for those who watch | |
| `Samples` | what the hub is handed: samples, and what `VideoStream` promises of them | `capture.go:173-180, 198-202` |
| `VideoStream` | ffmpeg's bytes to samples | `capture.go:142-250` |
| `Signaling` | rendezvous, host and device halves of signaling | `nc-rendezvous/main.go:40-165`, `nc-host/main.go:169-279, 446-464`, `web/index.html:391-453` |
| `FileReceive` | uploads to the desk | `files.go:42-142, 361-372` |
| `FileSend` | files from the desk to its devices | `files.go:144-333`, `web/index.html:872-889` |
| `Keyboard` | keys from the pages to the desk's keyboard | `web/index.html:1025-1101`, `input_linux.go:184-253`, `nc-host/main.go:266-268, 346-443` |
| `Clipboard` | the two clipboards of a session | `clipboard.go`, `web/index.html:754-798` |
| `Camera` | the cameras of the sessions and the ffmpegs behind them | `camera.go:66-237` |
| `Webcam` | what `Camera` promises: one webcam, one holder | |
| `Access` | passwords, tokens, pairings | `nc-rendezvous/main.go:299-318, 407-554`, `pairing.go`, `web/index.html:304-486` |
| `IdleFile` | the state of `Presence` and what the idle file promises | |
| `Presence` | sessions, the idle file, the controller | `nc-host/main.go:104-109, 251-279, 414-443, 549-573`, `infra/droplet.sh:77-91` |
| `VoiceState` | the state of `Recorder` and `VoiceRelay`, and where the relay goes | |
| `Recorder` | nc-voice's recorder and the threads that start and stop it | `nc-voice:886-977, 1061-1068, 1224-1232` |
| `VoiceRelay` | the voice button, the relay, and nc-voice behind it | `voice.go:15-79`, `nc-host/main.go:258-279, 378-384`, `nc-voice:1183-1213, 1867-1884` |
| `HubVideoProofs`, `SignalingProofs`, `FileReceiveProofs`, `FileSendProofs`, `KeyboardProofs`, `CameraVoiceProofs`, `AccessProofs`, `ClipboardPresenceProofs` | theorems | |
| `MC...` | instances for TLC | |

The modules share the session: `Signaling` sets it up, `Presence` and `VoiceRelay` end it (the three parts
of closeSession each in one of them), and `EncoderHub`, `Keyboard`, `Clipboard`, `Camera` and the file
modules live inside it. They meet only at its begin and end, which each of them may meet at any moment.

### EncoderHub

`pc` says where each goroutine stands: a session goroutine (`Connected` reads the size of the display,
`Join`, `Leave`, then `StopTake` and `StopWait` if it was the last), or a handler of a "display" message
(`Request`, `StopTake`, `StopWait`, then one of `RestartAgain`, `RestartNobody`, `RestartStart`). Each
critical section of `hub.mu` is one action. `cur` is the pair `hub.cancel`, `hub.done`; `held` is the local
copy stop() waits for. An encoder goroutine is a slot in `enc`: off, on, cancelled, ended. It assembles a
picture (`Picture`, `Slice`: the keyframe mark is set before the write), writes it (`Write`,
hub.WriteSample), may lose its ffmpeg (`FfmpegDies`), and ends once cancelled (`Finish`).
A picture is the "first" of an ffmpeg, whose parameter sets are in the same access unit, a later "key"
frame, whose parameter sets were written at the end of the access unit before it (`ahead`; runOnce flushes at
the next slice, and parameter sets are none), or a "delta". `follows` and `sets` are histories of what each
device's decoder has made of what it got: the stream it follows and the parameter sets it has. A device that
joins mid-stream is given the keyframe and not what was written before it, so it stays `Cold` until the next one. A
decoder that is given a picture of another stream, or a second keyframe it cannot decode, is `Broken`. A
hub for sound is the same module with `Gated = FALSE`.

`SharedEncoder` is the hub as its devices know it: who watches, the live encoder, which can be stopped, the encoders that
run and those that were stopped and drain. `EncoderHub` implements it with `subs` for the watchers, `cur` for the live encoder and
the encoders that are on and cancelled for the last two. A device that watches may be without a live encoder in it, as it may
in the code: during a restart, and after a join that fell between leave()'s decision and its stop() (section 5).

Abstractions: the first picture of an ffmpeg is a keyframe (x264 guarantees it); a repeated request and a
size `nc-display` refuses do nothing. A finished encoder's slot is used again, so the number of encoders
is bounded only at one time: a start waits while there is none. What the bitrate is, and how long a picture lasts, is left out.

### VideoStream

`stream` is the sequence of pictures ffmpeg writes and `BytesOf` its Annex-B encoding, with parameter sets
before each keyframe (libx264 is started with repeat-headers=1) and start codes of three or four bytes. `Read` takes
any number of bytes up to `MaxChunk`; `Cut` is one turn of the inner loop of nalUnits followed by the turn
of runOnce's loop it yields to (`Take`); `Eof` comes at any byte, as when ffmpeg is killed. `buf`, `start`,
`au`, `hasSlice` are the code's variables. Positions are counted from 1, and `start = 0` stands for -1.
The payloads are the shortest that exercise the code: one parameter set holds a zero byte.

### Signaling

A peer is one websocket connection: an attempt of a device, or one of the host's dials. `up` and `down`
are the messages on their way; a connection can be `cut` long before the rendezvous notices
(`ServeEnds`). `ServeRoute` is one turn of a read loop; a write to a cut connection fails or seems to
succeed. On the host, `HostReads` starts a goroutine per offer (`OfferRefused`, `OfferAccepted`,
`OfferAnswered`); `SessionFails` and `CloseSession` are the end of a session, seen and handled in separate
steps. `evicted` and `misled` are histories.

Assumptions: the host's three second pause before it dials again is longer than a register of the
connection before stays unread. Not modelled: ICE candidates, the time a forward blocks on a slow peer, and a peer
connection that cannot be built at all (handleOffer then logs and does not answer).

### FileReceive

All uploads ask for one name, the case in which they meet. A name is the sequence of numbers uniquePath
has added. A handler holds the lock of its own channel only, so looking for a name (`Header`, `Relook`) and
taking it (`OpenPart`, `Rename`) are separate actions, and programs of the desk (`DeskCreates`,
`DeskDeletes`) act in between. A refusal at the header is a choice, as are a failing write and rename.

### Keyboard

Each page has the fingers on its keys, whether it has the browser's `focus`, and `grabbing` and `downAs` of the
code; `KeyDown` and `KeyUp` are its two handlers, which get a key only with the focus and heed it only with the
mouse (`Sees`); `Click` is what takes the mouse and with it the keyboard. `Blur` and `Focus` release nothing, as
in the code, where they show a hint. `chan` is the input channel, which
`Arrives` and `Lost` take messages from in any order; a message is marked when a later one of its code has
overtaken it. `held` is the one injector's set. The end of a session is three steps: the connection is
lost (ReleaseAll), the peer connection is closed, and the state change to Closed that this brings (ReleaseAll
again). The four keys are the ones the handlers tell apart: a modifier, Command (sent as Control on a
Mac, and hiding the keyups of other keys there), Escape, and a key whose character, and so its code, depends on Shift.
`garbled`, `missed` and `replaced` are histories of the codes that may stay down: the channel lost or reordered their
messages, the page missed their keyup because it had not the mouse or not the focus, or a key was pressed again, before its keyup, as another code.
A message that is being handled when the peer connection closes is taken to be handled before the state
change to Closed is.

### FileSend

A sending (`leg`) is one request to one device: start, stream, await, then ok or err. A page gets a channel for each
file, the app has one for all, held by one sending at a time (`Locked`, fileOut.mu). How full a buffer is
is not modelled: a sender may always find it too full, and then an answer or the end of its context is what
it takes (`Stop`). `ReplyCap` is the capacity of `reply`. The app is not in the repository; it is taken to read its
channel as the page does.

### Clipboard

One device. `st` says where run and each now stands; the handler of the channel is `Take` and the actions
that use it, with `writing` for a clipWrite that has not returned. Another device of the desk is one of the programs that copy
there. `raced`, `told`, `pasted` and `spoilt` are histories. What the page does with a text is no message to
the host, so a message to the page is taken to arrive when it is sent.

### Camera and Webcam

A session's goroutine waits, takes the webcam, starts ffmpeg, writes, ends and releases. A run is named by
its session, since a session has one at a time; `newest` is camOwner.id, `owner` whose cancel it holds.
`Webcam` has a holder, the writers and those told to stop; `Camera` implements it with `owner` for the holder, `ffmpeg`
for the writers and the cancelled or ended among them for the told. `ousted` and `early` are histories.

### Access

Each client's stand goes form, check (its password passed `blocked` and is not counted yet), config, open,
up, dropped. Times are ages and lives that stop at their limits, so there is no clock. `file = 0` is a key
file that is missing or unfinished. A page that reconnects uses the token it has, as the code does.

### Presence

Each change of a connection's state runs its handler in a goroutine (`Handlers`), and closing a connection
is such a change. writeIdle is `Look` under the lock and `Write` after it. `lonely`, `newer` and `overtaken`
are histories: the time since the code knew somebody to be connected, and whether the last line written was
composed before another.

### Recorder and VoiceRelay

`sub` and `queue` are the relay's channel, `life` numbers the connections of nc-voice, and `ending` holds
those whose handler has not returned. Behind it, Voice.start and Voice.stop run without a lock in four kinds
of thread (`Parts`): main for the button, the worker for a question (`Asks`, one phrase, with give_up) or a
dictation (`Dictates`, until it is stopped, with none), a listener after its phrase, and give_up. start is
its check (`BeginStart`), `on = True` (`SetOn`) and the recorder (`Run`); stop is `on = False` (`BeginStop`)
and terminate (`Kill`); `doing` says where each part stands. `rec` is the recorder that `Voice.rec` names,
`stray` one that runs without being named. The worker may listen at any time, since what it does may have been
said on a live stream with nobody connected (`stream_command`). `offLost`, `dictated` and `torn` are histories:
the last "off" was dropped, a dictation began after the last stop, and the steps of two threads fell between
each other so that a recorder may be lost. A restart of nc-host, which ends every session and makes nc-voice
stop, is left out. One listener and one give_up are modelled, those of the recorder that is named; the look of
give_up and stop's check of `on` are one step, as are a listener's; and what a killed recorder had left
in its pipe is not heard.

## 3. Runs

| Run | Instance | States | Shows |
|---|---|---|---|
| `hub` | 2 devices, 1 request at a time, 2 encoders, 2 sizes | 198,000 | no encoder is lost or runs for nobody; a device starts at a keyframe and decodes its second at the latest, unless two encoders overlapped; leave() returns; `EncoderHub` implements `SharedEncoder` |
| `signaling` | 2 attempts, 2 dials, 1 restart | 591,000 | the host stays reachable; the session list is exact; devices stay apart while ids are unique; every offer is answered or refused unless something breaks |
| `video` | 3 pictures of up to 2 slices, reads of up to 5 bytes, trimmed at 6 | 15,000 | NAL units and samples are exact for every way to cut the stream and every place to kill ffmpeg |
| `files_in` | 2 channels of 2 files, 1 file of the desk, 1 crash | 272,000 | data never mixes, nothing half-received stays, files that were there stay |
| `files_out` | 2 files of 2 and 1 pieces to a page or to the app | 22,000 | what is saved is whole and what counts as taken is saved, with the exceptions the property names; every program is answered |
| `keyboard` | a Mac and another device, 4 keys, 4 presses, clicks, losses of focus or reconnections in all | 1,640,000 | a key stays down only through the channel's fault, a keyup the page missed or a code it replaced; none does once every session is gone |
| `keyboard_ups` | one Mac, 3 keys, 5 events | until violated | not every keyup matches: violated (section 5) |
| `clipboard` | 3 of: a copy of 2 pieces, pastes of 1 and 4 (limit 2), a clipnow, a clipget | 79,000 | texts arrive whole; no echo unless accesses overlapped; a copy arrives; a page that asks is told |
| `camera` | 3 sessions, one with a codec ffmpeg is not given | 59,000 | `Camera` implements `Webcam`; no taking back; a camera that goes on sending is shown; the webcam is freed |
| `access` | a page and a typist at one address, a visitor at another, 2 wrong passwords, 2 keys | 305,000 | tries are bounded; a refusal ends; pairings survive |
| `presence` | 2 sessions, or a crash of nc-host once one has begun | 653,000 | the idle file is true unless its last line was overtaken; an empty desk is stopped unless the file stays so |
| `voice` | 1 device that comes and goes and presses, 2 lives of nc-voice, a queue of 2 | 552,000 | the relay goes to the live connection; nothing listens in the end unless an "off" was dropped, a dictation began after it, or starts and stops tore each other |

**Bounds.** In the hub two devices and one request are enough for every race in hub.go, which are between
one goroutine that leaves or restarts and one that joins; the run checks a liveness property with the
invariants, and two requests at a time are left to the proofs, which hold for any number. Two encoder
slots are one that ends and one that runs beside it; with both ending a start waits for a slot, and that more
encoders at a time change nothing is again in the proofs. In signaling
two dials are one dead connection and its successor, two attempts the two devices that could be mixed up.
In the stream, `TrimAt = 6` (1 MiB in the code) lets the buffer be trimmed several times in a stream of
about forty bytes; reads of up to five bytes put every kind of split into a start code. `TrimAt` does not
depend on anything else, so a smaller one is only more severe. Four presses are enough for a code that
changes under a finger, for Command with a key under it, for two devices on one key and for a
reconnection in between. Pressing a key again after Command hid its keyup takes a fifth (a click, Shift,
the key, Command, the key): `keyboard_ups` gives it to one Mac with three keys, and that nothing else leaves a key
down, however many events there are, is what the proof shows. Two files on two channels let a
temporary name be used again.

Two files to the app are a half file and the one that completes it (2 = 1 + 1 pieces), or a late answer and
the sending that takes it. `ReplyCap = 1` (4 in the code) fills with the fewest answers. Sendings to
different devices share only the request they end, so the run has one device of either kind connected.
For the clipboard any three events overlap with run's poll, which is always there; a text of two pieces
can be cut into by another sender, and the over-long one leaves a rest that fits. Three cameras
are one that is ousted, its successor, and one that ends or fails meanwhile. In `access` the limits are as
small as lets a window pass while tries are pending; `MaxKnown = 0` makes any second address overflow the
table. In `presence` a minute is the unit and `Limit = 1`; the handlers of one session already overtake each
other, and two sessions are what makes the desk busy and idle at once; a crash in the middle of two sessions adds nothing but states,
since it ends both. In `voice` the one device comes
and presses without a bound, which fills the queue of two in every order; its two handlers already overlap, and
only that nobody is left matters to nc-voice. Two lives are the old connection and
the new. `OneTear` is a bound: once two threads have come between each other's steps, they do not again
until a stop has ended every recorder. `CHECK_DEADLOCK FALSE` is right in all of them: the system may rest with no device
connected, and bounded behaviours end.

**Symmetry** is used for safety only, over channels (`files_in`). In `signaling` attempts and dials are numbered in the
order in which they are made (`InTurn`), which leaves out renamings only and so is sound for liveness too.

**Fairness.** In the hub, a goroutine inside stop() is scheduled (weak fairness), an encoder writes what it has assembled
(weak, with parameter sets behind it or not), and a cancelled encoder that can end again and again does (strong: a killed ffmpeg has a finite amount
of output left in its pipe, so pictures cannot hold the end up for ever). Nothing is assumed of devices or
requests. In signaling, as long as some read loop or handler can run, one does (weak): less than that each is
scheduled, and enough, since each of their steps takes a message or ends a handler. Nothing makes a connection stay up
or a device come back. In `FileSend` contexts and timers run out and senders are scheduled; nothing is
asked of a device. In `Clipboard` goroutines are scheduled and the channel delivers; run takes a poke that
lies there again and again, its second passes, and a mutex is not withheld for ever (strong). In `Camera`
goroutines run and killed processes end. In `Access` time passes. In `Presence` handlers run, systemd starts nc-host
again, and the controller looks again and again. In `VoiceRelay` handlers and threads run, commands are taken, give_up's time passes and a phrase
that was begun ends (listen cuts it at MAX_FRAMES); people, sessions, questions, dictations and nc-voice's
restarts are free.

**Mutants.** Each checked property is broken by a mutant of a modelled definition, defined next to it and
marked as such: a check that is dropped, a flag not reset, a lock not taken, a queue not buffered.

## 4. Proofs

`HubVideoProofs` proves five invariants of `EncoderHub` for any sets of devices, requests, encoders and
sizes, from `EncoderHubAssumption` alone (the sets are apart, the configured size is a size).

`NoLostEncoder` and `StopsWhenEmpty` are not inductive: they say nothing of who will stop an encoder.
`HubInv` adds that the current encoder runs, that whoever waits in stop() waits for an encoder that
was cancelled, that each cancelled encoder has exactly one such waiter, that the subscribers are exactly the sessions
between join and leave, and that with nobody subscribed some goroutine is about to stop the current
encoder. It is shown for `Init` (`InitHolds`) and every action (`TypeStep` for types, `HubStep` for the
rest), and `TypeCorrect`, `EncoderNeverLost`, `StopsWhenLastLeaves` and `KeyMarkNeverStale` follow.

`StartsAtKeyUnlessOverlap` needs `PictureInv`: without an overlap there is one encoder at most, a keyframe that is about to
be written is marked (`KeyframeIsMarked`), and of an encoder whose first picture was written a device that
waits has got nothing, while one that does not follows it, or is `Cold` and has the parameter sets of the keyframe
that comes next (`FollowsTheOne`). `PictureStep` shows that this is kept, and
`GatingWorksUnlessOverlap` follows. The conditions are what the code really offers: gating does fail
when encoders overlap, and the first keyframe of a mid-stream joiner cannot be decoded (section 5).

That `EncoderHub` implements `SharedEncoder` (`OneEncoderOnly`) is shown from `HubInv`, one step of the hub at a time
(`StepImplements`): the encoder that a join or a restart starts neither runs nor drains (`StartImplements`), a
stop() that takes an encoder cancels it in the same step, and an encoder that ends was a draining one. Who is subscribed must be
known (`SubscribedInside`) for a join to be a new watcher and a leave one that was there.

The same module has the proofs about `VideoStream`: it extends `Samples`, and has the behaviour of `VideoStream` as an
instance (`Video!`, whose `au` is called `unit` there, since the hub has an `au` of its own). Nothing is assumed of the bytes, not even that they are a stream:
`SamplesArePictures` and `NalsKept` hold for whatever NAL units come, so for any stream, any cut and any kill. `PicturesExact`
speaks of what was flushed; `VideoInv` adds what is being collected: auHasSlice says whether it has a slice, the hub's mark
whether it has a keyframe, and it is one picture (`UnitKnown`, kept by `TakeKeeps` as `UnitBegins` and
`UnitGrows` say). `NalsKept` states `SamplesExact` without a fold: there is a function that says where each sample's NAL units end among all
that were yielded (`Kept`); a flush extends it (`FlushKept`) and a NAL unit added leaves it alone (`AddKept`).

`SignalingProofs` proves all four invariants of `Signaling` for any finite sets of attempts and dials and any number of
restarts, from `SignalingAssumption` alone. Each is about what one process knows of another, so `IInv` says what
is on the wires. `WireInv`: ids are counted from the connections accepted (`IdsCounted`); a device's
offer is sent once, before the host knows it, and is in one place at a time (`OfferFirst`, `OffersToHost`,
`OneOffer`); the host says its name first, and only on its newest connection (`HostSays`), so that connection has
the name or is about to get it (`NameOrRegister`, from which `HostStaysReachable` follows). `SessionInv` ties each
attempt's session to the list (`SessionListExact`). `ApartInv` holds until the first restart: an id belongs to one peer,
whether it is its client's, the peer id of its session, or on an offer that is under way (`IdsApart`). Without this an id
could be given again while a session under it is being closed, and `DevicesUndisturbed` would fail, as it does after
a restart.

`FileReceiveProofs` proves all four invariants of `FileReceive` for any finite set of channels and any
bounds, from `FileReceiveAssumption` alone. `MinIsLeast`, `SomeNumberFree` (more numbers are tried than
there are files) and `UniquePathIsFree` establish that uniquePath returns a free name. `PartIntact` is
inductive, since what two channels upload differs, and with it `NoOrphanPart`. `OldFilesKept` needs three
more facts (`FreeInv`): the directory never held anything but what was announced or written so far
(`FilesAreKnown`), hence an upload under way has never been in it (`UploadsAreNew`), hence what takes a
name between the second lookup and the rename is newer than the upload's end (`NameStillFree`).

`FileSendProofs` proves `TypeOK` and `DeliveredWhole` for any files, sizes and devices, from `FileSendAssumption` alone.
A channel that keeps the order is the heart of it: for a file that found its channel quiet and was not cut,
what the receiver has and what is under way together are the file from its header to its "end", whatever is
sent after it (`InOrder` with `Ahead` and `Rest`), so what the receiver saves is whole. That an "ok" is about
this file needs that everything on the channel is the file's own (`Private`, `OkOwn`), which on the app's one channel
rests on the mutex (`OneAtATime`) and on the channel having been quiet. `Unsent` is needed so that a quiet channel says
nothing of a file that has not been sent.

`KeyboardProofs` proves the three invariants of `Keyboard` for any pages, Macs, keys of the four and number of events,
from `KeyboardAssumption` alone. `NoStuckKey` speaks of the desk only; `IInv` adds what is under way to it: a
keydown that was not overtaken is of a key that is down, or its keyup follows on the channel, or its code is excused
(`DownsFollowed`); a page has a code for a key that is up only if it missed the keyup or Command hides it (`UpsSent`);
a closed channel carries nothing (`ClosedQuiet`, without which a message of a session that is over could press a key
after the last ReleaseAll). What a page sends is reasoned about once for all its handlers (`PageStep`, `Sent`).
The proof attempt is what found `replaced`: `NoStuckKey` had been checked with four events and without it, and the step
of `KeyDown` could not be proved, since a code still in `downAs` may be overwritten (section 5).

`CameraVoiceProofs` proves, for any sessions and from `CameraAssumption` alone, that `Camera` implements `Webcam`
(`OneWebcamOnly`), hence that whoever writes without having been told to stop is the holder
(`OneWriterOnly`), and that a camera which lost the webcam while writing does not take it back
(`NeverTakesBack`). The invariant `IInv` says that only a session in its writing loop has an ffmpeg, that a
run which is not cancelled is the owner's and the owner is a run (without this the next `take` could cancel nobody), that
a run which found itself preempted is not the newest, and where an ousted camera can be. Each step of
`Camera` is then shown to be a step of `Webcam` or to change nothing of it.

The same module has the proofs about `VoiceRelay`: it extends `VoiceState`, whose variables are none of `Camera`'s, and has
the behaviour of `VoiceRelay` as an instance (`Relay!`), from `VoiceAssumption` alone. `RelayReaches` is not inductive: the end of an earlier connection would clear the
relay if it were its own. `NewestReached` adds that a connection of nc-voice that has not ended is the newest
there was, and that the handlers which have still to return are of others; `RelayReached` follows for any
capacity of the queue and any number of restarts and presses. `RecorderKept` is about the recorder: until two parts
tear each other's steps, none runs that `Voice.rec` does not name, and one that runs with `on` false is about
to be killed. `RecorderInv` adds where the parts can stand: at most one is between its steps, with no recorder yet
if that is in a start, and with `on` false if in a stop. What `MicCloses` adds to it, that somebody does stop listening, is liveness and is checked.

`AccessProofs` proves from `AccessAssumption` alone, for any clients, addresses and bounds, that pairings
survive (`PairingsOutliveRestarts`), that tries are bounded (`TriesStayBounded`), and `TypeOK`, in which the
table of addresses grows one past its limit and no further (`TableStep`). The first needs
`KeyIsKept`: a running host's key is the one in the file, and each pairing was signed with that key or with
one given up. The second needs `RoomForPending`: what is counted and what may still be counted, the clients
of the address whose password has passed the look at the count, stay together below the bound. A new window
starts at one while the others may all be pending, which is why the bound has the number of clients in it.

`ClipboardPresenceProofs` proves `TextsWhole` and `NoEcho` of `Clipboard` for any texts of any number of pieces, any limit and
any requests, from `ClipboardAssumption` alone. Its invariant, `ClipInv`, follows a text through each of its three ways.
To the host: the messages under way are, in order, the pieces of pastes with the keystroke right behind them, and
requests in between (`InOrder`); what has been collected is what went before the piece that comes next, unless the text
is over-long (`Collected`); and when the keystroke comes next its text has been taken and is on the clipboard, about to
be, or spoilt (`KeyFinds`). To the page: whoever has the lock, and nobody else, sends, and what the page holds followed by
what the sender still has is a text (`OneSends`; this is why the name for a free lock must be no request's). And in what both
sides know: as long as nothing overlapped, a text on the clipboard that has been seen is `last`, a text that run
has read and that has been seen is `last` too, and what is on the clipboard is what was read or has never been seen (`InStep`, with
`Fresh` and `Early` for what a program has still to copy and for run's first look). `ClipWhole` needs the first two,
`ClipNoEcho` the third. `ClipInv` was also checked on an instance with two copies and two requests.

The same module proves `PresenceTypeOK` and `IdleTold` of `Presence` for any sessions and any number of crashes, from
`PresenceAssumption` alone. It extends `IdleFile`, whose variables are none of `Clipboard`'s, and has the behaviour of `Presence` as an
instance (`Pres!`). The handlers of one session overlap, so the invariant follows a line from its composition to the file: when
nobody has still to look, what was last known is true (`BusyKnown`); a line that is on its way and not overtaken is the
last that was composed (`NewestIsTrue`); and once the other lines are written the file holds that one (`LastLineStays`).
`HandlersStart` (each change of state starts its handler once) is what makes a change in the connections imply a handler
that has still to look, and `NotOlder` bounds the idleness that is told.

Each invariant was checked by TLC on the instance of its module's run before it was proved.

Every invariant a run checks is stated by a theorem but for one, and so are both refinements. Only model-checked
are liveness (tlapm has no ENABLED) and `StreamExact` of `VideoStream`, which compares with what `BytesOf` and `NalsOf`
compute by folds for every stream: that is induction over data and out of tlapm's reach. What it says of runOnce alone, that the
NAL units go into the samples as they are, is proved (`NalsKept`).

## 5. Limits of the code met while modelling

The properties hold with the conditions they state. These are the behaviours the conditions leave out; each
is a behaviour of the model.

- A device that joins between the decision of leave() and its stop() keeps a place in the hub whose encoder
  is then taken away: it is subscribed without an encoder until somebody else joins or the size changes
  (`hub.go:59`).
- stop() gives the encoder up before it has ended. A device that joins then waits for a keyframe, but the
  mark the new encoder sets may let the old one's delta picture through (`hub.go:98, 118`;
  `hub.go:16` says that such a device "starts at the next keyframe").
- A session that has read the size of the display before a request changed it, and joins after that request
  found nobody to restart for, starts the encoder at the old size (`main.go:425`, `hub.go:74`).
- The parameter sets repeated before a later keyframe are written with the picture before it, since an access
  unit is flushed only at the first slice of the next picture (`capture.go:176`). A device that joins mid-stream
  is not given that sample (`hub.go:120`), so it cannot decode the keyframe it starts at and sees nothing until
  the next one, although `hub.go:16` has it start at the first.
- A restarted rendezvous counts its ids from c1 again; a new device may get the id of a live session, which
  its offer then closes (`nc-host/main.go:259`).
- On a Mac, a key whose keyup Command hid and which is pressed again as another code takes the place of the first
  in `downAs`, and the first is never released: with Command held since before the click, 7 (sent as Digit7), Shift,
  7 up (hidden), 7 again (Slash). Digit7 stays down until the session ends (`web/index.html:1082`; run
  `keyboard_ups`, against the comment at 1065: "so the keyup always matches").
- A page that loses the focus with keys down, as with Alt+Tab or Cmd+Tab, releases nothing: its blur handler shows a
  hint (`web/index.html:833`). A key let go elsewhere stays down at the desk until it is pressed again or the session ends.
- Shift+Escape releases the mouse after Shift was sent down; its keyup is then ignored and Shift stays down at
  the desk (`web/index.html:1073`).
- A file created between the second look for a free name and the rename is replaced (`files.go:121-122`). A
  temporary file a crash left makes every later upload of that name fail (`files.go:100`).
- A sending to the app that is cut short leaves its half on the channel, and the next file completes it; an
  answer still under way then may be taken for the next file's (`files.go:194, 208`).
- The clipboard is read outside the lock: a text read before a paste and compared after it is sent back to
  the device that pasted (`clipboard.go:84, 121`). After an over-long text the rest of its pieces is a text.
- A camera that loses the webcam before its ffmpeg has started sees an error only, and takes it back a second
  later (`camera.go:138-144, 179`).
- The page reconnects with the token it has; once that has run out, or the rendezvous has restarted, it
  retries for ever until the person leaves (`web/index.html:468-476`).
- The idle file may be left with an overtaken line until the next session comes or goes (`main.go:572`), and
  a connection so short that it is over before writeIdle looks leaves no trace in it. A device that connects
  after the controller has read the file is cut off (`droplet.sh:86`).
- A noise while give_up looks leaves listening on until somebody turns it off or leaves
  (`nc-voice:919`), and a dropped command leaves it as it was (`voice.go:39`).
- A dictation keeps listening until it is stopped (`nc-voice:1064`). One that begins after the last device left, from a
  phrase or a live stream that was still being worked on, keeps the microphone open until a device turns it
  off, or the last one leaves again.
- start and stop have no lock. A stop after `on = True` and before the recorder is there (`nc-voice:909-910`)
  leaves it running with `on` false, so that nothing stops it; two starts at once (`nc-voice:907`) leave one
  recorder that `Voice.rec` no longer names; a start before stop's terminate (`nc-voice:932`) may lose its new
  recorder to it, with `on` true and nothing recorded.

## 6. Not modelled

- ICE with its candidates, STUN, TURN, DTLS, RTP: libraries. How long a forward to a slow peer blocks.
- `sites.go`, `talkback.go`, `internal/tlspin`: proxies and checks without state of their own.
- Microphone and sound (`mic.go`, `audio.go`, `oggopus`): sequential copies with pacing.
- Injection into macOS and Windows, `nc-probe`, the shell scripts of `infra/` and `provision/` but for the
  controller: no concurrency of their own, or I/O only.
- nc-voice but for its recorder: what is recognised and answered, confirmations, reminders.
- The pointer, touch, the key bar and the watchdog of the page; layout and widgets.

## 7. Plan

1. `Signaling` with ICE candidates that may arrive before their session, composed with `Presence`.
2. `Keyboard` with buttons and the key bar; confirmations and reminders of nc-voice.
3. A theorem about the turns of nalUnits for one start code, which needs no induction over the stream.
