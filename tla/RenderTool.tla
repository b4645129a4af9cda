------------------------------ MODULE RenderTool ------------------------------
(***************************************************************************)
(* scva_native.c and scva_render.c: the Linux and the Windows renderer     *)
(* around the render loop.  Engines are opened one for each port, then the *)
(* outputs, the song is played, and what it made is finished: the file's   *)
(* header, the buffers the device still holds.  A block is named by the    *)
(* frame it starts at.  The device is external: it plays what it was given *)
(* in order, at its own time.  Wall-clock pacing (no output) is left out,  *)
(* and so is what the engines are sent before the song (PolicyModes).      *)
(***************************************************************************)
EXTENDS RenderLoop

CONSTANTS
  Outputs,      \* each song's choices of outputs
  NBuf,         \* waveOut's buffers
  CardDepth,    \* blocks an ALSA card holds
  MaxDry        \* how often a card may run dry

(* --out, and --play on Linux and on Windows, where it leaves --out aside. *)
Sinks == {{"wav"}, {"card"}, {"wav", "card"}, {"waveout"}}

ASSUME ToolAssumption ==
  /\ Outputs \in [Songs -> SUBSET Sinks]
  /\ {NBuf, CardDepth} \subseteq Nat \ {0} /\ MaxDry \in Nat

Bufs == 0 .. NBuf - 1

NoFile == [says |-> -1, holds |-> 0]   \* not written; else frames, by the header

VARIABLES
  stage,    \* "opening", "song", "closed" or "failed"
  outs,     \* o.wav, o.pcm, o.play
  open,     \* how many engines are open: e->n
  wav,      \* the file
  pcm,      \* what each waveOut buffer was filled with
  wb,       \* the waveOut buffer to fill next
  queue,    \* what the device has yet to play: buffers, or blocks (external)
  dry,      \* o.underruns: blocks a card refused and got over
  heard     \* the blocks that were played (history)

device == <<pcm, wb, queue, dry>>
loop == vars
tool == <<stage, outs, open, wav, device, heard>>
allvars == <<loop, tool>>

ToolInit ==
  /\ Init
  /\ stage = "opening"
  /\ outs \in Outputs[song]
  /\ open = 0
  /\ wav = NoFile
  /\ pcm = [b \in Bufs |-> -1] /\ wb = 0
  /\ queue = <<>> /\ dry = 0
  /\ heard = <<>>

-----------------------------------------------------------------------------
(* Opening. *)

(* render_engines_synth: one engine for each port, any but SCVA's core. *)
OpenSynth ==
  /\ stage = "opening" /\ nearest /\ open < nports
  /\ open' = open + 1
  /\ UNCHANGED <<loop, stage, outs, wav, device, heard>>

(* One will not open: those before it are closed. *)
SynthFails ==
  /\ stage = "opening" /\ nearest /\ open < nports
  /\ stage' = "failed"
  /\ open' = 0
  /\ UNCHANGED <<loop, outs, wav, device, heard>>

(* core_load and core_open: SCVA's core, which the renderer drives itself and
   which takes MIDI anywhere. *)
OpenCore ==
  /\ stage = "opening" /\ ~nearest /\ open < nports
  /\ open' = open + 1
  /\ UNCHANGED <<loop, stage, outs, wav, device, heard>>

(* One will not open: the other is left to the end of the process. *)
CoreFails ==
  /\ stage = "opening" /\ ~nearest /\ open < nports
  /\ stage' = "failed"
  /\ UNCHANGED <<loop, outs, open, wav, device, heard>>

(* header: written at the file's beginning. *)
Header(n) == IF "wav" \in outs THEN [wav EXCEPT !.says = n] ELSE wav

(* The outputs will not open: the file is the last of them. *)
OutputFails ==
  /\ stage = "opening" /\ open = nports
  /\ stage' = "failed"
  /\ UNCHANGED <<loop, outs, open, wav, device, heard>>

(* The header says no frames until there are any to count; render_song may
   then be out of memory. *)
Start ==
  /\ stage = "opening" /\ open = nports
  /\ wav' = Header(0)
  /\ stage' \in {"song", "failed"}
  /\ UNCHANGED <<loop, outs, open, device, heard>>

-----------------------------------------------------------------------------
(* The song: pace before each block, deliver after it. *)

Sending ==
  /\ stage = "song"
  /\ Begin \/ SendTempo \/ SendMessage \/ SendEnd
  /\ UNCHANGED tool

(* put_frame. *)
WavHolds == IF "wav" \in outs THEN [wav EXCEPT !.holds = @ + Block] ELSE wav

(* No device. *)
DeliverFile ==
  /\ stage = "song" /\ outs = {"wav"}
  /\ Deliver
  /\ wav' = WavHolds
  /\ UNCHANGED <<stage, outs, open, device, heard>>

(* deliver on Linux: the write waits for room. *)
DeliverCard ==
  /\ stage = "song" /\ "card" \in outs
  /\ Deliver
  /\ Len(queue) < CardDepth
  /\ queue' = Append(queue, frame)
  /\ wav' = WavHolds
  /\ UNCHANGED <<stage, outs, open, pcm, wb, dry, heard>>

(* A card that ran dry refuses a block, which is not written again. *)
DeliverDry ==
  /\ stage = "song" /\ "card" \in outs
  /\ Deliver
  /\ queue = <<>> /\ dry < MaxDry
  /\ dry' = dry + 1
  /\ wav' = WavHolds
  /\ UNCHANGED <<stage, outs, open, pcm, wb, queue, heard>>

(* A card that cannot be got over stops the song, and what it held is lost;
   the block is in the file by then. *)
DeliverRefused ==
  /\ stage = "song" /\ "card" \in outs
  /\ Refuse
  /\ queue' = <<>> /\ dry' = dry + 1
  /\ wav' = WavHolds
  /\ UNCHANGED <<stage, outs, open, pcm, wb, heard>>

(* waveout_is_free: WHDR_DONE. *)
Free(b) == \A k \in 1 .. Len(queue) : queue[k] # b

(* Mutant of DeliverWaveOut: it does not wait for the buffer. *)
DeliverWaveOutUnpaced ==
  /\ stage = "song" /\ outs = {"waveout"}
  /\ Deliver
  /\ pcm' = [pcm EXCEPT ![wb] = frame]
  /\ queue' = Append(queue, wb)
  /\ wb' = (wb + 1) % NBuf
  /\ UNCHANGED <<stage, outs, open, wav, dry, heard>>

(* pace on Windows waits for the buffer, deliver fills and writes it. *)
DeliverWaveOut ==
  /\ stage = "song" /\ outs = {"waveout"}
  /\ Free(wb)
  /\ Deliver
  /\ pcm' = [pcm EXCEPT ![wb] = frame]
  /\ queue' = Append(queue, wb)
  /\ wb' = (wb + 1) % NBuf
  /\ UNCHANGED <<stage, outs, open, wav, dry, heard>>

-----------------------------------------------------------------------------
(* The end. *)

(* Linux: the header is written again with the frames the song came to, and
   the card is closed with what it still holds. *)
Finish ==
  /\ stage = "song" /\ pc = "done" /\ outs # {"waveout"}
  /\ wav' = Header(frames)
  /\ queue' = <<>>
  /\ open' = 0
  /\ stage' = "closed"
  /\ UNCHANGED <<loop, outs, pcm, wb, dry, heard>>

(* waveout_drain_close waits for each. *)
Drained == \A b \in Bufs : Free(b)

(* Windows: the device is closed once it has played all. *)
FinishWaveOut ==
  /\ stage = "song" /\ pc = "done" /\ outs = {"waveout"}
  /\ Drained
  /\ open' = 0
  /\ stage' = "closed"
  /\ UNCHANGED <<loop, outs, wav, device, heard>>

(* The device has played the next block (external). *)
Play ==
  /\ queue # <<>>
  /\ queue' = Tail(queue)
  /\ heard' = Append(heard, IF outs = {"waveout"} THEN pcm[Head(queue)]
                            ELSE Head(queue))
  /\ UNCHANGED <<loop, stage, outs, open, wav, pcm, wb, dry>>

Tool ==
  \/ OpenSynth \/ SynthFails \/ OpenCore \/ CoreFails \/ OutputFails \/ Start
  \/ Sending \/ DeliverFile \/ DeliverCard \/ DeliverDry \/ DeliverRefused
  \/ DeliverWaveOut \/ Finish \/ FinishWaveOut

ToolNext == Tool \/ Play

(* One thread whose calls return, but for what it waits for: a device that
   plays what it was given. *)
ToolSpec == ToolInit /\ [][ToolNext]_allvars /\ WF_allvars(Tool) /\ WF_allvars(Play)

-----------------------------------------------------------------------------

ToolTypeOK ==
  /\ TypeOK
  /\ stage \in {"opening", "song", "closed", "failed"}
  /\ outs \in Sinks /\ open \in 0 .. 2
  /\ wav \in [says : Nat \cup {-1}, holds : Nat]
  /\ pcm \in [Bufs -> Nat \cup {-1}] /\ wb \in Bufs
  /\ queue \in Seq(Nat) /\ dry \in 0 .. MaxDry + 1
  /\ heard \in Seq(Nat)

(* A file that was finished says the frames it holds; one whose song the card
   stopped holds the refused block over and above (deliver writes the file
   first).  One that was not finished says it holds none. *)
FileSaysWhatItHolds ==
  IF stage = "closed" /\ "wav" \in outs
  THEN /\ wav.says = frames
       /\ wav.holds = wav.says + IF refused THEN Block ELSE 0
  ELSE wav.says <= 0

(* A device plays each block of the song once and in order: none is filled
   again while it waits to be played. *)
HeardInOrder == \A i \in 1 .. Len(heard) - 1 : heard[i] < heard[i + 1]

(* By the end waveOut has played every block of the song, and a card all but
   those it ran dry at and those it still held. *)
AllHeard ==
  stage = "closed" =>
    /\ outs = {"waveout"} => Block * Len(heard) = frames
    /\ "card" \in outs /\ ~refused =>
         frames - Block * (Len(heard) + dry) \in 0 .. Block * CardDepth

(* What was rendered arrives: in the file, at the device, to the song's end. *)
Delivered == PlaysOut /\ FileSaysWhatItHolds /\ HeardInOrder /\ AllHeard

(* Every render comes to its end, however the tempo changes and whatever
   fails, and closes the engines of a song it played. *)
RenderEnds == <>(stage = "failed" \/ (stage = "closed" /\ open = 0))

=============================================================================
