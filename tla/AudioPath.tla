----------------------------- MODULE AudioPath -----------------------------
(***************************************************************************)
(* From a host's call for frames to the engine: synth_resampled.c pulls    *)
(* chunks for Resampler, synth_vsc.c cuts any number of frames out of the  *)
(* driver's fixed blocks, synth_scva.c has SCCore.dll render them in       *)
(* pieces it was activated for.  An engine frame is the number it was      *)
(* rendered at.  MIDI goes straight to the engine, which plays it from the *)
(* next frame it renders.                                                  *)
(***************************************************************************)
EXTENDS Resampler, SynthOpen

CONSTANTS
  Block,       \* frames in a block of VSC's: vsc_block_frames
  MaxBlock,    \* opt->max_block
  Calls        \* the numbers of frames a host asks for at once

ASSUME PathAssumption ==
  /\ Block \in Nat \ {0} /\ MaxBlock \in Nat \ {0}
  /\ Calls \subseteq Nat \ {0}
  /\ \E n \in Calls \cup {Chunk} : \A k \in Calls \cup {Chunk} : k <= n

VARIABLES
  left,       \* frames of the host's call a resampled synth has still to make
  want,       \* frames of a backend's render call still to come
  had,        \* frames of it that have come
  buf,        \* where they were written
  block,      \* VSC's block
  used,       \* frames of it handed out
  rendered,   \* frames the engine has rendered (history)
  handed,     \* frames the backend has handed out (history)
  msg         \* a MIDI message: when it was sent and played (history)

callVars == <<want, had, buf>>
blockVars == <<block, used>>
pathVars == <<left, callVars, blockVars, rendered, handed, msg>>
allVars == <<vars, openVars, pathVars>>

NoFrame == -1
NoMessage == [is |-> "none", at |-> 0, frame |-> 0]

(* The longest call a backend is given. *)
Longest == CHOOSE n \in Calls \cup {Chunk} : \A k \in Calls \cup {Chunk} : k <= n

(* The input frames per output frame, in Den-ths. *)
StepOf(in_rate, out_rate) ==
  [whole |-> in_rate \div out_rate,
   frac |-> ((Den * in_rate) \div out_rate) % Den]

PathInit ==
  /\ OpenInit
  /\ Init
  /\ step = StepOf(engine_rate, rate)
  /\ left = 0 /\ want = 0 /\ had = 0
  /\ buf = [k \in 0 .. Longest - 1 |-> NoFrame]
  /\ block = [k \in 0 .. Block - 1 |-> NoFrame]
  /\ used = Block
  /\ rendered = 0 /\ handed = 0
  /\ msg = NoMessage

-----------------------------------------------------------------------------
(* The backend: render is given n frames to make. *)

Asks(n) == want' = n /\ had' = 0 /\ UNCHANGED buf

Heard(m) == IF m.is = "sent" THEN [m EXCEPT !.is = "played", !.frame = rendered]
                             ELSE m

(* synth_vsc.c, render: a block all handed out is rendered anew. *)
RenderBlock ==
  /\ backend = "vsc" /\ want > 0
  /\ used = Block
  /\ block' = [k \in 0 .. Block - 1 |-> rendered + k]
  /\ rendered' = rendered + Block
  /\ used' = 0
  /\ msg' = Heard(msg)
  /\ UNCHANGED <<vars, openVars, left, callVars, handed>>

Take == IF Block - used < want THEN Block - used ELSE want

(* Mutants of CopyOut: a block that ends a call is not used up; the copy
   starts at the block's beginning. *)
CopyOutDropsRest ==
  /\ backend = "vsc" /\ want > 0
  /\ used < Block
  /\ buf' = [k \in DOMAIN buf |-> IF k >= had /\ k < had + Take
                                  THEN block[used + k - had] ELSE buf[k]]
  /\ had' = had + Take
  /\ want' = want - Take
  /\ used' = IF want = Take THEN Block ELSE used + Take
  /\ handed' = handed + Take
  /\ UNCHANGED <<vars, openVars, left, block, rendered, msg>>

CopyOutFromStart ==
  /\ backend = "vsc" /\ want > 0
  /\ used < Block
  /\ buf' = [k \in DOMAIN buf |-> IF k >= had /\ k < had + Take
                                  THEN block[k - had] ELSE buf[k]]
  /\ had' = had + Take
  /\ want' = want - Take
  /\ used' = used + Take
  /\ handed' = handed + Take
  /\ UNCHANGED <<vars, openVars, left, block, rendered, msg>>

(* What is left of the block, or as much of it as the call wants. *)
CopyOut ==
  /\ backend = "vsc" /\ want > 0
  /\ used < Block
  /\ buf' = [k \in DOMAIN buf |-> IF k >= had /\ k < had + Take
                                  THEN block[used + k - had] ELSE buf[k]]
  /\ had' = had + Take
  /\ want' = want - Take
  /\ used' = used + Take
  /\ handed' = handed + Take
  /\ UNCHANGED <<vars, openVars, left, block, rendered, msg>>

(* synth_scva.c, render: a piece no longer than the engine takes. *)
Process ==
  /\ backend = "scva" /\ want > 0
  /\ LET n == IF want > MaxBlock THEN MaxBlock ELSE want
     IN /\ buf' = [k \in DOMAIN buf |-> IF k >= had /\ k < had + n
                                        THEN rendered + k - had ELSE buf[k]]
        /\ had' = had + n
        /\ want' = want - n
        /\ rendered' = rendered + n
        /\ handed' = handed + n
  /\ msg' = Heard(msg)
  /\ UNCHANGED <<vars, openVars, left, blockVars>>

-----------------------------------------------------------------------------
(* The host. *)

(* Between two calls. *)
Idle == stage = "open" /\ pc = "frame" /\ left = 0 /\ want = 0

(* synth_render on the outer synth: the resampler makes the frames one by
   one, a bare engine has them rendered. *)
Call(n) ==
  /\ Idle
  /\ (IF Resampled THEN out ELSE handed) + n <= MaxOut
  /\ IF Resampled THEN left' = n /\ UNCHANGED callVars
                  ELSE Asks(n) /\ UNCHANGED left
  /\ UNCHANGED <<vars, openVars, blockVars, rendered, handed, msg>>

(* Engine frames the host has had, in Den-ths of one. *)
HostTime == IF Resampled THEN Time ELSE Den * handed

(* synth_short or synth_long, which the wrapper passes straight on; one
   message is followed until it plays. *)
SendMidi ==
  /\ Idle
  /\ msg.is # "sent"
  /\ msg' = [is |-> "sent", at |-> HostTime, frame |-> 0]
  /\ UNCHANGED <<vars, openVars, left, callVars, blockVars, rendered, handed>>

(* resampler_run: fill and filter, whose pull is a render call of the engine
   inside. *)
Fills ==
  /\ left > 0
  /\ FillDrops \/ FillKeeps
  /\ UNCHANGED <<openVars, pathVars>>

(* Mutant of Pulls: a chunk is pulled whether the window is held or not. *)
PullsAhead ==
  /\ pc = "pull" /\ want = 0 /\ had = 0 /\ have + Chunk <= Cap
  /\ Asks(Chunk)
  /\ UNCHANGED <<vars, openVars, left, blockVars, rendered, handed, msg>>

Pulls ==
  /\ pc = "pull" /\ last >= have /\ want = 0 /\ had = 0
  /\ Asks(Chunk)
  /\ UNCHANGED <<vars, openVars, left, blockVars, rendered, handed, msg>>

PullReturns ==
  /\ pc = "pull" /\ want = 0 /\ had > 0
  /\ in' = [k \in 0 .. Cap - 1 |-> IF k >= have /\ k < have + Chunk
                                   THEN buf[k - have] ELSE in[k]]
  /\ have' = have + Chunk
  /\ pulled' = pulled + Chunk
  /\ had' = 0
  /\ UNCHANGED <<step, i, f, last, pc, out, dropped>>
  /\ UNCHANGED <<openVars, left, want, buf, blockVars, rendered, handed, msg>>

Held ==
  /\ Pulled /\ want = 0 /\ had = 0
  /\ UNCHANGED <<openVars, pathVars>>

FilterOne ==
  /\ Filter
  /\ left' = left - 1
  /\ UNCHANGED <<openVars, callVars, blockVars, rendered, handed, msg>>

Opens == Opening /\ UNCHANGED <<vars, pathVars>>

Closes == Idle /\ Close /\ UNCHANGED <<vars, pathVars>>

PathNext ==
  \/ Opens \/ Closes
  \/ (\E n \in Calls : Call(n)) \/ SendMidi
  \/ RenderBlock \/ CopyOut \/ Process
  \/ Fills \/ Pulls \/ PullReturns \/ Held \/ FilterOne

PathSpec == PathInit /\ [][PathNext]_allVars

-----------------------------------------------------------------------------

PathTypeOK ==
  /\ TypeOK /\ OpenTypeOK
  /\ left \in Nat /\ want \in Nat /\ had \in Nat
  /\ buf \in [0 .. Longest - 1 -> Int]
  /\ block \in [0 .. Block - 1 -> Int] /\ used \in 0 .. Block
  /\ rendered \in Nat /\ handed \in Nat
  /\ msg \in [is : {"none", "sent", "played"}, at : Nat, frame : Nat]

(* A render call is given the engine's frames in the order they were
   rendered, none lost at the end of a block or of a call and none twice:
   "what one call does not take of a block is the start of the next call's
   output". *)
FramesInOrder ==
  /\ \A k \in 0 .. had - 1 : buf[k] = handed - had + k
  /\ handed <= rendered

(* The resampler inside the path is Resampler: a chunk that comes out of the
   engine's blocks is the next Chunk input frames, and nothing but the
   resampler moves its window. *)
ImplementsResampler == Spec

(* When a message sent at a time may play.  On SCCore.dll at once; on a VSC
   that is not resampled on its next block.  Resampled, the engine is ahead
   of the host by what is held of the window, the rest of a chunk and the
   rest of a block, and the message plays after that: not in frames already
   heard, and no later than half a window, a chunk and a block. *)
Prompt(at, frame) ==
  LET late == Den * frame - at
  IN CASE backend = "scva" -> late = 0
       [] backend = "vsc" /\ ~Resampled ->
            /\ late >= 0 /\ late < Den * Block
            /\ \E n \in 0 .. frame : frame = n * Block
       [] OTHER ->
            /\ at > 0 => late > Den * Half - (step.whole * Den + step.frac)
            /\ late < Den * (Half + Chunk + Block)

(* "MIDI sent between calls therefore lands where the next block starts", and
   through a resampler a bounded time after it was sent, whatever the sizes
   of the calls before. *)
MidiPlaysSoon == msg.is = "played" => Prompt(msg.at, msg.frame)
=============================================================================
