# A verification project for scva-headless

TLA+ modules that model parts of this repository, the TLC configurations that
check them, and proofs that TLAPS checks. Paths are relative to the repository;
`src/map_policy.c` is the file of that name in its `src` directory.

The repository drives two software synthesizers, Sound Canvas VA (`SCCore.dll`)
and the older VSC, without the programs they shipped in: live from MIDI, from a
MIDI file, and as a plugin. The synthesizers are not in the repository. What is
the program's own is the code between MIDI and the engine: which tone map each
part plays, when a message is played, how audio blocks, sample rates and MIDI
files are cut up, and which thread may touch what. That code is what is
modelled here.

## Inventory

| component | state it keeps | operations | hard about it | correct when |
|---|---|---|---|---|
| tone map policy (`map_policy`, `scva_map.h`) | mode, map and last program of each part | a short message, set a map, note a program | CC32 is both a map and an ordinary bank controller; the engine applies it only at a program change | a chosen map holds against anything on the wire, a part nobody chose for is left alone, a change is heard at once |
| live engine, console (`live_engine`, `console`) | engine, its options, the policy | open, switch sets, typed commands | a new set is a new engine that may not open | what is shown, what the options name and what plays agree |
| Linux daemon (`scva_daemon`) | ALSA handles, control socket | poll loop, console, control socket, MIDI drain, a block | four sources in one loop, each of which may block it | no source stops the audio |
| Windows live tool (`scva_winmidi`) | ring, sysex buffers and their flags | MIDI callback, audio loop | two threads, buffers owned by three parties | messages in order, once, whole; every buffer comes back |
| live scheduler (`live_sched`) | origin, unwrapped position | position, measure, due | counters wrap, readings are coarse or absent | a message sounds where its arrival says |
| waveOut buffers (`audio_waveout`) | buffer flags | write, wait, drain | the device frees buffers at its own time | a buffer is not filled while it waits to be played |
| render loop (`render_loop`) | cursor, frame, counts | send what is due, render, deliver | tempo inside a block, two ports, two timings | each event once, at its block, to its engine |
| MIDI file reader (`midi_song.h`) | events, running status, a track's port | parse, sort | damaged files, ports named late | nothing that can be played is lost or changed |
| resampler (`resample`, `synth_resampled`) | window, position | fill, filter; choice of a rate | a moving window in a fixed array | no access outside it, no drift |
| plugin engine (`scva_engine`) | engine, options, policy | set map, patch, MIDI | a map change can be a new engine | as the live engine |
| CLAP plugin (`scva_clap`) | parameters, pending selection, dirty flags | process, flush, load a preset, editor changes | two threads with no lock | no change is lost or half seen |
| LV2 plugin and editors (`scva_lv2`, `scva_lv2_ui`, `scva_xui`) | ports, lists, rows shown | run, port events, picks, scrolling | values travel both ways at their own time | the editor shows what plays |
| tone lists (`scva_lists`, `scva_tones`) | lists of positions | build, find, carry a position | a position means another patch in another list | a carried position keeps the instrument |
| tone names (`scva_names.h`, `plugin_names`) | patch and key tables | load from one of three sources | files missing, damaged, or out of memory part way | the first source with a patch, and it alone |
| backends (`synth_scva`, `synth_vsc`, `vsc_engine`, `synth_registry`) | engine handle, a block in hand | open, short, long, render | MIDI lands on block boundaries | no frame lost between calls |
| PE loader, runtime, core start (`pe_loader`, `scva_runtime`, `scva_core.h`) | image list, TLS slots | load, unload, TLS callbacks | slots reused, no lock, failures half way | slots neither shared nor leaked |
| instruction shims (`sse2_*`, `sse3_shim.h`) | the core's code, an arena of stubs | check, rewrite in place or in stubs | an arena shared by two passes, sites side by side | the core computes what it did |
| renderers (`scva_native`, `scva_render`) | engines, a file, a device | open, play, deliver, finish | an output fails part way | what was rendered arrives |
| system shims (`rt_priority`, `win9x.h`, `alsa_dl.h`) | none that a protocol depends on | system calls | - | - |

How they interact: a front end (daemon, Windows tool, renderer, plugin) owns an
engine behind the `synth.h` interface and one policy in front of it. Short
messages go through the policy, which calls the engine directly; SysEx goes
around it. Everything is one thread but for three places: the Windows MIDI
callback, the plugins (host audio thread and host main thread), and two plugin
instances of one process, which share the loader. Nothing is stored on disk but
rendered files and the daemon's sockets: a daemon that was killed leaves its
socket behind, and that is the one crash there is to recover from.

`PROJECT.json` lists under `hazards` what of this is hard to test, line by line,
with the properties that watch each place and, where none does yet, why.

## Modules

| module | models | shape |
|---|---|---|
| `ToneEngine` | a part of the engine as far as the map code relies on it (external) | operators |
| `MapPolicy` | `map_policy.c` | one action an operation, shared by the tools |
| `PolicyModes` | the policy under each kind of tool, beside an engine fed without it | actions for a message, reset, map, patch, reopening |
| `PartMaps` | abstract: a part has a chosen map, a last program, and what it plays; no CC32 | refined by `LiveEngine` |
| `LiveEngine` | `live_engine.c`, `console.c`, the daemon's dispatch | opening, wire, console |
| `MidiPath` | abstract: a bounded queue of messages, taken in order or lost | refined by `MidiIn` |
| `MidiIn` | `scva_winmidi.c`: driver, callback, audio loop | three actors, a program counter each |
| `LiveSched` | `live_sched.c` | operators over its struct |
| `LiveTiming` | the audio loop against time, over `LiveSched` | time, arrivals, measure, fill, wait |
| `DaemonLoop` | `scva_daemon.c`: the loop, its sockets, several daemons and their clients | one action for each source the loop serves |
| `Resampler` | `resample.c` | a step for each phase of one output frame |
| `SynthOpen` | opening and closing of `synth_resampled.c`, `synth_vsc.c`, `vsc_engine.c`, `synth_scva.c`, `scva_core.h` | a stage for each thing taken, each of which may fail |
| `AudioPath` | those backends' render calls, over `Resampler` and `SynthOpen` | calls, chunks, blocks, a message on its way |
| `RenderLoop` | `render_loop.c` | a step for each event sent and each block |
| `RenderTool` | `scva_native.c`, `scva_render.c`, `audio_waveout.c`, over `RenderLoop` | opening, a delivery for each output, the device, the end |
| `SongFile` | `parse` and `parse_track` of `midi_song.h` | one action for each kind of event |
| `NameTables` | `scva_names.h`, `plugin_names.c` | one action for each kind of line, source and failure |
| `ToneLists` | `scva_lists.c` | operators |
| `PluginEngine` | `scva_engine.c`, over `MapPolicy` | its operations, shared by the two plugins |
| `ClapPlugin` | `scva_clap.c`, over `PluginEngine` and `ToneLists` | two threads, a step for each access to what they share |
| `EditorWindow` | `scva_xui.c` | operators over lists, selection and rows shown |
| `Lv2Plugin` | `scva_lv2.c`, `scva_lv2_ui.c`, over `PluginEngine` and `EditorWindow` | run(), the editor, and values on their way between them |
| `PeLoader` | `pe_loader.c` | threads and images, a step for each access to what threads share |
| `ShimPatch` | `sse2_shim.h`, `sse3_shim.h`, `scva_runtime_patch` | a step for each instruction rewritten |

A module `MCx` instantiates `x` for TLC; a module `..._proof` holds theorems:
`Tools_proof` those on `PolicyModes`, `MidiIn` and `DaemonLoop`, `Live_proof` on
`LiveEngine` and `LiveTiming`, `AudioPath_proof` on `Resampler`, `AudioPath` and
`SynthOpen`, `RenderTool_proof` on `RenderLoop`, `RenderTool` and the two readers
of files, `SongFile` and `NameTables`, `Loader_proof` on `PeLoader` and
`ShimPatch`, `Clap_proof` and `Lv2_proof` on the two plugins, over the lemmas on
lists and engine in `Plugin_proof`.
`MCFiles` runs the two readers of files in one, and `MCLoader` the loader and
the patch it runs: a variable that never changes (`reading`, `working`) says
which of the two a behaviour is of.

`PROJECT.json` maps each definition to the lines it stands for. Definitions
introduced as mutants are the code with one plausible bug; they show that a
property can fail, and nothing else uses them.

Abstractions worth knowing:

- `PolicyModes`: the second engine `direct` and the set `heard` are history.
  Sending is a direct call, so a message and what is put in front of it are one
  step. The record of a map on an engine without tone maps is part of `Reopen`
  (the console records it after the switch, a plugin's start gives it to the
  new policy), which leaves `set` either way.
- `LiveEngine`: the spellings of a map are `literal` or not, since a backend
  knows only some of those the console takes.
- `MidiIn`: whether a message is due and an output buffer is free are any
  answer. `LiveTiming` models both and takes the queue that `MidiIn` is shown to
  implement, one that never fills.
- `LiveSched`: the origin, a double, counts `Sub`-ths of a frame; with `Sub` =
  16 and a smoothing of 16 its divisions lose at most a sixteenth of a frame a
  step, as a coarser double would.
- `LiveTiming`: `dry` is the time the device stood still after an underrun; the
  timing properties allow for it, since frames that were not played cannot be
  given back.
- `DaemonLoop`: what a command does to the engine is `LiveEngine`'s; here one is
  a map or a stop. `control_listen` can fail at `socket()`, which leaves what is
  at the path, and after the `unlink`, which does not. `poll` can fail and end
  the loop (`PollFails`), and a card whose events cannot be told is written to at
  once (`PollBlind`), where the write waits while the card is full (`Write`). A typed line is one step. Clients that wait are a queue whose
  head is the one accepted.
- `Resampler` and `RenderLoop`: the doubles are exact fractions over `Den`. The
  rounding of doubles is outside the model; the cuts to whole numbers the code
  makes are inside it.
- `AudioPath`: an engine frame is the number it was rendered at, so that a lost,
  repeated or swapped one shows. One message is followed until it plays.
- `SynthOpen`: `held` is what an opening has taken and not given back; a check
  that fails and a file that is missing are both a stage that fails.
- `RenderTool`: samples, peak, out-of-memory and wall-clock pacing are left out.
  `Smpte` = 0 in the runs: the tempo map decides. The device is external and
  plays what it was given in order, at its own time.
- `SongFile`: an event is what its bytes decode to, and the file is chosen as it
  is read. The header's refusals, SMPTE divisions and chunks that are no tracks
  are left out; a cut or overlong event is `damage`. The largest port is 1. The
  song after `qsort` is any order of all the events in which each is before the
  next by `cmp`: the C library says no more of it.
- `NameTables`: a line is what it reads as, and files are chosen line by line.
  Any growth of an array may find no memory; `Junk` is what an entry's memory
  held before. A number is cut to an unsigned char (`Byte`) where the code casts
  it; a header keeps `Columns` cells, as `axis` does, and an empty cell of a row
  is stepped over (`Skip`). Each entry's `at`, the source, line and column it was
  read at, is history.
- `ClapPlugin`: plain C accesses by two threads, each one step in the program's
  order; that a compiler may reorder them is outside the model. `wired`,
  `taken`, `swallowed`, `preset_kit` and `calm` are history, the last true of a
  block during which the main thread changed nothing. `s->gui_dirty &= ~d` is a
  read (`ReportAgain`) and a store (`ReportClear`). Without a map per part the
  host and Windows' list are offered the maps up to `LastSet`, the code's
  `SCVA_MAP_88PRO`; X's buttons are not cut there.
- `Lv2Plugin`: the editor may be a process of its own: its writes and the ports'
  values travel in order and arrive at any time; a host may echo or not. A new
  editor shows the default map, its first tone and the kit of program 0 until it
  is told the ports. It may open with an old editor's writes still on their way,
  but for a host that echoes nothing, which is taken to deliver those first: it
  would not tell the new editor of them.
- `PeLoader`: parsing, relocation, binding and exception tables only pass or
  fail. Ids are never given twice on 32-bit Windows, slots are.
- `ShimPatch`: an instruction computes its own number; a stub takes cells of the
  arena. The generated table of sites is any.

## Runs

| run | question | bounds and why they are enough |
|---|---|---|
| `policy_modes` | do the four modes hold their promises? | two parts (one and a neighbour), Default and two maps (the chosen, another), two programs, one bank |
| `live` | does a live engine amount to `PartMaps`; with one tone set, do shown map, options and engine agree? | both kinds of engine; two parts, three maps of which one has no set, two banks, two programs |
| `midi_in` | is the path from driver to engine a queue, and does a sysex buffer come back? | a ring of 3 holds two, so two messages fill it and four wrap it; two sysex buffers, each used again |
| `timing` | is a message heard on time? | a counter that wraps at 8 within 11 ms, two messages; blocks of 2 frames, 3 buffers and a frame of latency more; the loop held up 2 ms, so that an underrun lets a message through; devices that report samples and that report nothing |
| `daemon` | is every event, client and stop served, and is a socket its owner's? | two daemons, one with a terminal, MIDI and a card, started twice so that it can be killed or stopped and come back; one client, two events at once, one line or signal |
| `audio_path` | do frames pass in order and messages in time, and does an opening that fails leave nothing? | rates 4, 8, 16 and hosts at 1, 4, 6, 32, so every choice (below, at, between, above); blocks of 3, chunks of 5, calls of 2 and 7: none fits another; 44 outputs, many drops of the window |
| `render_loop` | does each event reach its engine at its block, and what was rendered its file and device? | all songs of up to 3 events at ticks 0, 1, 4, 6, three tempos, half frames, two ports and one there is none of, both timings; two waveOut buffers, a card of two blocks that runs dry once; songs of up to two events to every output, others to a file |
| `files` | is the song what the file says, and are the names the first source's? | two tracks, four events, every kind and damage; or four lines of names over ten sources, two kept columns and a header of three, a bank that wraps, a first allocation of one entry, so that a second grows it |
| `clap` | do the two threads settle, and is the host told? | two maps with different lists and Default, a map past `LastSet` with no patches, six patches, presets of each map; two inputs in one activation reach every pair of threads' accesses; an engine with a map per part under X, one without under Windows |
| `lv2` | does the editor come to show what plays? | eight patches, lists of different lengths, one or two rows, both kinds of engine, two inputs and one scroll or resize |
| `loader` | does each thread find its own storage; does a patched core compute what it did? | two threads, four images over two slots (reused, run out, lost), both systems; cores of four instructions, arenas for one stub, for some, for all |

Deadlock is checked in `policy_modes`. The others stop where the program does
or where a bound ends (messages, time, outputs, events, inputs, images), so they
have `CHECK_DEADLOCK FALSE`.

The run `midi_in_whole` is expected to fail and is a finding in `PROJECT.json`:
the end of a sysex longer than a buffer is queued alone and dispatched as a
short message.

What the properties allow for, since the code does:

- `ProgramRemembered` and `SetIsHeard` end at a reset on the wire (below).
- `BufferComesBack` lets the tool stop, and excepts a buffer handed back with
  `MIM_LONGERROR`.
- `HostTold` excepts a change whose bit the audio thread's mask swallowed (set
  between its second read of `gui_dirty` and its store), and the keys of a kit a preset named.
- `PresetWhole` is of hosts that load a preset when the last was taken up
  (`HostWaits`).
- `EachFindsItsOwn` is of hosts that load one image at a time (`Serial`).
- `SlotsAccounted` counts the slots of images whose `DllMain` failed as lost.
- `Answered` has a client that connected write or go away.
- `Delivered` lets a card lose what it held when it was closed, and the blocks
  it ran dry at.
- `InItsBlock` lets an event of block-start timing be early by a block and by a
  frame for each event before it.

## Divergences

Met while modelling, between the code and a comment, the README or another part
of the code. `midi_in_whole` shows the first; no run is kept for the others.

The map policy and the live engine:

- The README says both that a CC32 from the wire is adopted as the part's map
  and that it never is. The code never adopts it (`map_policy.c:39`).
- After a GS Reset from the wire a map change re-sends the program from before
  it (`map_policy.c:46`), where README.md:219 and `map_policy.h:54` speak of the
  part's current one.
- Started with `--set` alone, the console shows map 0 whatever set plays, and a
  failed switch then puts the option back to the default (`live_engine.c:32`,
  `66`). `ShownSetPlays` and `OptionIsOpenSet` begin when a map names a set.
- `--map` records the map and sends nothing, so it is not heard before a part's
  first program change (`live_engine.c:65`). `ChosenMapHolds` begins there.

Windows MIDI and timing:

- A sysex buffer handed back with `MIM_LONGERROR` is not given to the driver
  again (`scva_winmidi.c:118`).
- A position in bytes wraps at 2^32 bytes and is divided by 4 before the
  unwrapping, which expects 2^32 frames (`scva_winmidi.c:146`,
  `live_sched.h:33`).
- The buffers are capped at 32 blocks and the latency is not: over twice their
  depth, every message is further off than the horizon and is let through as it
  comes (`live_sched.c:45`). The run keeps the latency within the buffers.
- After an underrun of more than a block the origin is still where it was, and a
  message that comes before it has followed is further off than the horizon: it
  is let through at once, early by the whole latency and not by the underrun,
  against README.md:379 (`live_sched.c:45`). `HeardOnTime` says when.
- "Held never longer than the horizon" (`live_sched.h:44`) is measured from the
  block, not from the arrival: a position reading that jumps ahead by less than
  a horizon delays messages by as much.

The daemon:

- A client that connects and neither writes nor leaves stops the audio
  (`scva_daemon.c:413`).
- A line that arrives in two reads is lost up to its newline (`:397`).
- Two names that differ in `/` and `_`, or after 127 characters, share a socket
  (`:44`); a second daemon of a name takes the first's path (`:75`).

Rendering and files:

- With block-start timing each event's distance is cut to a frame, so a long
  song drifts early (`render_loop.c:58`, `render_loop.h:4`), and an event due
  exactly at a block's end is sent a block early (`render_loop.c:59`, against
  the comment at line 44).
- A tempo event of 0 is taken for a message and sent as status FF
  (`midi_song.h:108`, `render_loop.c:63`). The runs' tempos are positive.
- `--play` on Linux closes the card without draining it (`scva_native.c:409`);
  Windows drains (`scva_render.c:476`).
- A block whose card will not recover is in the file and not in its header
  (`scva_native.c:80`, `87`); the block a card ran dry at is not written to it
  again (`:85`). A file over 2^32 bytes has a header that wrapped (`midi_song.h:233`),
  one never finished has a header that says none.

The audio path:

- MIDI lands on multiples of the block (`synth.h:21`), but through the resampler
  on those of its chunks' pulls (`synth_resampled.c:81`).
- `vsc_close` calls `CloseWaveBuf` where `ConfigWaveBuf` never ran
  (`vsc_engine.c:416`).
- A host at less than a 48th of the engine's rate would have the resampler drop
  more than it holds (`Resampler`'s assumption).

The CLAP plugin:

- Without `HostWaits` two presets mix (`scva_clap.c:465-473`, `507`).
- `gui_dirty &= ~d` loses a change made meanwhile (`:176`).
- The keys of a kit a preset named are told while the kit is still the old one
  (`:473-476`, `512`), and MIDI that changes the drum part's kit does not change
  the keys.
- A preset of another map loaded before the first `process()` is overridden.
- A position picked in the editor between the look-up and the carry is
  overwritten, and one picked in a list since switched is another patch
  (`:187-196`).

The plugin engine:

- A VSC plugin moved to another set, or an LV2 plugin reset or reopened, does
  not send the patch that was picked again (`scva_engine.c:94`,
  `scva_lv2.c:10`).
- A set that will not open is tried again at every block (`scva_engine.c:95`).

The LV2 editor:

- A map and its carried position are two writes, which may be read a block apart
  (`scva_lv2_ui.c:75`).
- A click below the last whole row picks the row half shown (`scva_xui.c:241`).

The loader and the shims:

- Nothing is locked (`pe_loader.c:613`, `618`): with `Serial` = FALSE
  `EachFindsItsOwn` fails. An image whose `DllMain` fails keeps its slot
  (`:647`).
- A conversion the table and the code disagree about is refused after other
  sites were rewritten (`sse2_shim.h:136`, `273`, against the comments at lines
  20 and 187). `scva_sse2_apply` is
  called by nothing. The two SSE3 stubs end at byte 66 of a space said to be 64
  (`sse3_shim.h:35`); the page allocated for it has room.

Tone names:

- Keys read before a source without patches stay beside the next source's
  patches, against README.md:590; `scva_names_gm` clears them.
- The name of an entry whose cell is empty is not initialised
  (`scva_names.h:306`, `321`); a blank cell of a header reads as bank 0.

## Fairness

- `MidiIn`: weak fairness of the callback (the driver makes the calls it owes
  and a callback returns) and of the audio loop (it never waits for the MIDI
  thread and its wait ends after 100 ms); nothing is asked of arriving messages.
- `RenderTool`: weak fairness of the one thread (`deliver` and `process`
  return) and of the device, which plays what it was given.
- `DaemonLoop`: weak fairness of each daemon's turn (its thread runs, and the
  calls it makes return) and of a client that connected, which writes or goes
  away: `control_send` writes at once (`scva_daemon.c:101`). A full card drains: ALSA
  plays what it was given, and the write waits for it. Nothing else is asked of
  the card, and nothing of MIDI, terminal or signals.

No strong fairness is used. The plugins, the loader, the files and the audio
path have safety and action properties only: a plugin moves when its host calls
it, and no host promises to.

## Proofs

`Tools_proof`, on `PolicyModes`, for any sets of parts, maps, banks and programs
(`EngineAssumption`: the power-on values are among them):

- `TypeCorrect`, by cases on the actions.
- `ChosenMap`: the invariant is inductive as it stands, over `TypeOK`. The step
  that carries it is the program change, before which the chosen map is latched
  again, and `InjectsChosen`: the parts the policy injects for are those whose
  map is chosen.
- `Remembered`, `LeavesAlone` and the action property `SetHeard`, the same way.
  `LeavesAlone` compares the two engines part by part.

`Live_proof`, on `LiveEngine` (`LiveAssumption`: every map a set is named for has one, and
Default is among them): `Inductive` proves the types together with the fact that
the mode fits the kind of engine once it is open, that all parts of an engine
with one set show the same map, and the two properties; `SetAllFails` needs them
together, since it puts the option back by the first part's map. `ShownSet` and
`OptionSet` follow. `Refines` proves that, with a map per part, every step is a
step of `PartMaps` or a stutter.

`Live_proof`, on `LiveTiming`, for any rate, block, latency, wrap and number of
buffers:

- `CountExact`: where the device counts frames or milliseconds, or has no
  position, no wrap of the counter is missed. Its hypotheses are the code's own
  silent ones: that the loop is not kept from running for a whole wrap, and that
  the buffers hold less than one. A card that counts bytes is excluded; there
  the position is wrong (above). `TimingInv` is the types, `Buffered` (what is
  not yet played lies in the buffers, a block each, so that a free buffer means
  room for a block) and `ReadOnce` (what was played since the last reading).
- `NeverOverdue`: with a latency of two blocks or more, no message waits past its
  frame, but for the time the device stood still. `WaitInv` holds played frames and standing time against the clock:
  the origin is never ahead of the device (`OriginHeld`), messages are stamped
  in order (`QueueHeld`) and none was taken late (`HeardHeld`).
- `TimelyHeard` proves `HeardOnTime`; its late half (`NeverLate`) follows from
  `WaitInv`. For the early half `EarlyInv` bounds the origin from below
  (`OriginNear`). A device that has no position is guessed to be a whole buffer
  behind; how far that is short rests on `Laid` (each buffer written holds a
  block of its own, so that one of them lies as deep as all, `Deepest`) and on
  `Visited` (a buffer the loop has passed was busy then, so that what has been
  played of it was played since). `TakenNear` splits on why a message was taken:
  due by the block's end, or further off than the horizon. The second takes an
  origin ahead of the device by more than a block and what the buffers have over
  the latency, and only standing still makes it so.

`Tools_proof`, on `MidiIn`, for a ring of any size, any number of sysex buffers, output
buffers and messages. `PathInv` is `FieldTypes` with `RingOK` (both ends of the ring
within it), `Numbered` (the calls the driver owes are for the messages not dealt
with yet, in order), `Filled` (a buffer one of these calls is for holds its
message) and `Apart` (a sysex buffer is with the driver, in one call it owes, or
flagged, and once). `Apart` keeps the driver from filling a buffer a call is
still for; without it `Filled` is not kept. `PathImplements` maps the ring
between its ends to `MidiPath`'s queue: the step that moves the write end is the
abstract arrival, the one that moves the read end the abstract taking, and all
others stutter.

`Tools_proof`, on `DaemonLoop`, for any daemons, clients and events. `LoopInv` is
the types and, of each daemon, `InTurn`: one about to read has a client to read from, and
between the drain and the block it holds only events that came since, elsewhere
none that missed more than one block. `EventsInTime` follows. `SocketsOwned`
assumes `OwnPaths`, that no two daemons have one path, and adds `Owns` (the
socket at a listening daemon's path is its own, and each socket is at its
owner's path) and `Meant` (clients wait with the daemon they meant): without the
assumption the second daemon takes the first's socket, as the code does.

`AudioPath_proof`, on `Resampler`, for any half width, chunk, denominator and set of steps the
module's assumption allows (the steepest step is what the array has room for).
The inductive invariant `IInv` is `TypeOK`, `Shape` (where position, frames held
and array end lie in each phase), `Contents` (each frame held is the input frame
of its index) and `Clock` (dropped frames and position together are the output's
time). `InBounds`, `InStep` and `LittleAhead` are its consequences. `InStep` is
not inductive alone: it says nothing of the frames outside the window that are
about to enter it.

`AudioPath_proof`, on `AudioPath`, for any rates, blocks, chunks and calls. `PathInv` is the
resampler's `IInv` with `Engine` (what was rendered is what was handed out and
what is left of a block) and `Pulling` (a pull is one render call of a chunk),
without which `FramesInOrder` says nothing of the frame handed out next.
`MidiInv` bounds how far the engine is ahead of the output, in fractions of a
frame, and so where a message that waits will land (`Waiting`).
`PathRefines` maps a pull of a chunk, however many blocks it takes, to one fill
of `Resampler`, so that `PathInBounds` and `PathInStep` follow from the theorems
above. `OpenInv` says, of `SynthOpen`, what each stage of opening holds and that
the engine's rate is the nearest of those it lists, which `synth_backend_rate`
finds in one walk: an induction over the list. `Fits` and `NothingLeft` follow.

`RenderTool_proof`, on `RenderLoop`: `LoopInv` is the types, `Counted` (the
counts of events and frames agree with the cursor and the frame) and `Ahead`
(the next event is not due in a block that was rendered already and, with none
left, the frame is at most a block past the tail). On `RenderTool`, for any
songs, outputs, number of buffers and depth of card: `ToolInv` adds what holds
in each stage of opening (`Opening`, `Quiet`, `Silent`), of the file
(`FileHolds`), of waveOut's ring (`Ring`: the k-th buffer queued holds the k-th
block still to be heard), of the card (`Card`: what it played and holds is in
order, and with the blocks it ran dry at is all there was), and at the end
(`Over`, `AllHeard`). `RenderDelivers` and `RenderRoutes` follow; the second
needs only that every step of the tool is one of the loop or leaves it.
`RenderOnTime` adds `Timed`: the time the loop carries along is the one the
tempo map gives the last event it passed, whatever the tempo changes and blocks
between, so that each event is sent in the block its time is in.

`RenderTool_proof`, on `SongFile`, for any items, any number of tracks and
events: `SongAsWritten` and `SongInOrder`. `SongInv` holds, while the file is
read, that each event is what its track says of it (`Said`), that events come in
the order of their places (`InFileOrder`), that no place that plays is passed
over (`NonePassed`), that every track but the one read has its port
(`PortsGiven`), and that the locals of `parse_track` are what the track says so
far (`Locals`). `Said` stays true as more is read, the port does not: a track may
name it at its end, and it is given to the whole track then. What the sort
leaves is in order because each event's order is its number as it was read.

`RenderTool_proof`, on `NameTables`, for any lines, any number of maps, programs,
columns and entries of a first allocation: `NamesEmptyOnZero` and
`NamesFirstSource`. `NamesKept` is the types, `ZeroIsEmpty` and `RoomKept`: the
reader's capacity is what is allocated, nothing is while nothing is stored, and
a table or an engine's first set is looked for with nothing stored. Without the
last, a capacity carried over from a source given up would let an entry in with
no array to hold it. `NamesInv` adds, while memory lasts:

- `Matched`: each patch stored is what its file says at its place, in the order
  of the places, and every place that names a patch, of the sources taken
  together, is stored or next to be. With it the entry `scva_names_find` comes to
  first is the one at the first place (`FindIs`).
- `ReaderTrue`: the page and header `scva__parse` carries from line to line are
  those the next line lies under.
- `InTurn` and `GivenUp`: no source is read before its turn, and one passed over
  named no patch.

What a line says depends only on the lines before it (`SaysStays`), and what is
made of a line is what it says: `TableRow`, `EngineRow` and `VendorRow`, of which
the last has a column to each cell. When memory runs out a file is left off in
the middle, and only `NamesKept` is claimed.

`Loader_proof`, on `PeLoader`, for any threads, images and slots: `LoaderFinds`
and `LoaderAccounts` assume `Serial`, that one load or unload runs at a time;
the loader has no lock, and without the assumption both fail (the hazard at
`pe_loader.c:613`). `LoaderInv` is the types and `OneAtATime`, what a
thread has of the image it is at (`Jobs`), what an image's state says of it
(`ImagesKept`), and whose each slot is: no two images have one (`OwnSlots`); on
Linux those handed out so far are free or an image's, none twice
(`SlotsKept`); on Windows an id names one image for ever (`IdsKept`).

`Loader_proof`, on `ShimPatch`, for any core, sites and arena: `ShimSameProgram`
and `ShimCounts`. `ShimInv` holds that stubs lie in the part of the arena that is
used up (`StubsKept`), that what a pass has yet to rewrite is as it was
(`PlainYet`) and what the passes have counted (`CountedYet`, `PairsGone`).
`Tiled` carries the first: whatever was rewritten, each place runs a stretch of
the original from itself on, and a place that runs none lies inside the stretch
of one before it; running the core from the top is then running the original.

`Clap_proof`, for any patches, maps and choices (`PatchesAssumption`: the
default map, bank and program are the first there are, and a patch is a record
of them), and any interleaving of the host's two threads:

- `HostKnows`: after a block in which the main thread changed nothing, the host
  knows every value and the key names are told. `TellsHost`: a value it does not
  know is marked, about to be, or was swallowed by the clearing of the marks;
  what the clearing reads is marked until it stores.
- `EditorShows`: an editor refreshed then shows what was sent. `StaysDealt`: once
  the main thread is quiet, what a phase of the block dealt with stays dealt
  with, phase after phase.
- `PresetTaken` and `BlockSettles` assume `HostWaits`, a host that loads no
  preset while a block runs. `PresetHeld` (the numbers of a preset are all there
  while its flag is up) needs it, and with it `PlaysPreset` and `PlaysSent`: a
  part plays the patch last sent for its parameter, unless the wire or a preset
  chose since.

`Lv2_proof`, on `Lv2Plugin`, for any patches, maps, messages on their way and
sizes of the window:

- `EditorShowsPlugin` proves `EditorAgrees`. `Carried`: of each port, either the
  last value on its way to the editor is the port's, or nothing is on its way
  and the two agree, or the editor's own last value is still travelling; where
  the host echoes nothing, nothing travels both ways (`OneWay`). `Drawn`: what
  the lists show is what the editor holds, from its opening on.
  `Dealt`: as far as a block has come, the ports were read and sent.
  `PlaysChosen`: a part nothing else chose for plays what was sent. It assumes
  `KitsApart`: a kit travels as a program, and `send_kit` finds the first kit of
  bank 0 with it, so two kits of a map with one program cannot both be picked.
- `InstrumentKept` proves `MapKeepsInstrument`, where every map lists a tone:
  without one there is no instrument to keep.
- `SelectionInSight` proves `SelectionShown`; `Revealed` is the arithmetic of
  `reveal` and `clamp_top`.

The lists both plugins rest on are recursive functions of the table of patches;
what `Plugin_proof` says of one (`ListHolds`, `AtPosition`) is by induction over
the table. What the engine's operations do to a part (`PatchDoes`, `SetMapDoes`,
`WireDoes`) is there too.

Inductions are made without the library's induction theorems: the least number
that would be a counterexample is taken, by the well-foundedness of `<`, and
shown not to be one.

Only model-checked:

- Every liveness property: `BufferComesBack`, `RenderEnds`, `Stops`, `Answered`.
  The prover treats neither fairness nor `ENABLED`.

## Not modelled

- System shims (`rt_priority`, `win9x.h`, `alsa_dl.h`): single system calls and
  symbol loading.
- Of the daemon and the Windows tool: options, device choice and set-up.
- Of the MIDI reader: bytes, the header's refusals, SMPTE, the WAV writer.
- Of the CLAP plugin: parameter texts, state and preset metadata as bytes,
  factories, extension tables, the layout of the Windows editor.
- Of the editor window: drawing, fonts, X's own calls.
- `scva_tones.c` prints lists; option parsing and the registry's table have no
  state.
- Of VSC's host: the patches at fixed addresses of a driver that is not in the
  repository. Of the SCVA core: search paths and sample conversion.
- Of the loader: relocation, import and exception-table arithmetic over a DLL's
  bytes. Of the runtime: the Windows functions that stand in for missing ones,
  single calls with no state a protocol depends on.

## Plan

In order of what a mistake costs:

1. Done: the policy and live engines, both live tools, the render path from file
   to device, the engine at another rate, both plugins, the loader, the shims,
   the names; proofs of every invariant the runs check.
2. The header's refusals and SMPTE divisions of `SongFile`; the state a CLAP
   host saves and restores.
