----------------------------- MODULE SynthOpen -----------------------------
(***************************************************************************)
(* synth.h's backends opened and closed: synth_resampled.c chooses the     *)
(* engine's rate and wraps the engine, synth_vsc.c and vsc_engine.c load   *)
(* VSC's driver and its tone set, synth_scva.c loads SCCore.dll and        *)
(* scva_core.h starts it.  Any allocation, file or check may fail, and     *)
(* what was taken before it is given back by the function that fails.      *)
(***************************************************************************)
EXTENDS Integers, Sequences

CONSTANTS
  Rates,       \* VSC's caps.rates, in the order the backend lists them
  HostRates    \* the rates a host may ask for

ASSUME RatesAssumption ==
  /\ Rates \in Seq(Nat \ {0}) /\ Rates # <<>>
  /\ HostRates \subseteq Nat \ {0}

VARIABLES
  backend,        \* "vsc" or "scva"
  rate,           \* opt->rate
  engine_rate,    \* the rate the engine is opened at
  stage,          \* what is to be done next, "open", "closed" or "failed"
  held,           \* what was allocated, loaded or read and not given back
  core            \* the state SCCore.dll's rate is in

openVars == <<backend, rate, engine_rate, stage, held, core>>

-----------------------------------------------------------------------------
(* synth_open_at: the nearest rates either side. *)

(* Mutant of Nearer: the last rate above is taken, not the nearest. *)
NearerLast(side, r) ==
  IF r > rate THEN [side EXCEPT !.above = r]
  ELSE IF r > side.below THEN [side EXCEPT !.below = r] ELSE side

Nearer(side, r) ==
  IF r > rate
  THEN IF side.above = 0 \/ r < side.above THEN [side EXCEPT !.above = r] ELSE side
  ELSE IF r > side.below THEN [side EXCEPT !.below = r] ELSE side

Either[k \in 0 .. Len(Rates)] ==
  IF k = 0 THEN [above |-> 0, below |-> 0] ELSE Nearer(Either[k - 1], Rates[k])

RenderedAt ==
  LET side == Either[Len(Rates)]
  IN IF backend = "scva" \/ \E k \in DOMAIN Rates : Rates[k] = rate THEN rate
     ELSE IF side.above # 0 THEN side.above ELSE side.below

Resampled == engine_rate # rate

-----------------------------------------------------------------------------
(* SCCore.dll's rate, as scva_core.h measured it: a block size wants a rate
   before it and makes it stale. *)

SetRate(c) == CASE c = "unset" -> "rated" [] c = "stale" -> "fit" [] OTHER -> c
SetBlock(c) == IF c \in {"rated", "fit"} THEN "stale" ELSE "broken"

(* scva_core_start: rate, block, config, rate, activate. *)
CoreStart == SetRate(SetBlock(SetRate("unset")))

-----------------------------------------------------------------------------

OpenInit ==
  /\ backend \in {"vsc", "scva"}
  /\ rate \in HostRates
  /\ engine_rate = RenderedAt
  /\ stage = "synth"
  /\ held = {}
  /\ core = "unset"

Gets(from, to, what) ==
  /\ stage = from
  /\ stage' = to
  /\ held' = held \cup what
  /\ UNCHANGED <<backend, rate, engine_rate>>

(* open_vsc and, inside it, vsc_open: the driver is loaded and its functions
   found, the tone set read, copied by the driver and freed, and the rate the
   driver says it has compared. *)
OpenVsc ==
  /\ backend = "vsc"
  /\ \/ Gets("synth", "vsc", {"synth"})
     \/ Gets("vsc", "load", {"vsc"})
     \/ Gets("load", "bind", {"image"})
     \/ Gets("bind", "tones", {})
     \/ Gets("tones", "configure", {"tones"})
     \/ Gets("buffers", IF Resampled THEN "wrapper" ELSE "open", {"buffers"})
  /\ UNCHANGED core

Configure ==
  /\ stage = "configure"
  /\ stage' = "buffers"
  /\ held' = held \ {"tones"}
  /\ UNCHANGED <<backend, rate, engine_rate, core>>

(* vsc_open's own failure, a driver whose rate is another included, and
   open_vsc's after it. *)
VscOpenFails ==
  /\ backend = "vsc" /\ stage \in {"synth", "vsc", "load", "bind", "tones", "configure"}
  /\ stage' = "failed"
  /\ held' = held \ {"tones", "image", "vsc", "synth"}
  /\ UNCHANGED <<backend, rate, engine_rate, core>>

(* vsc_close, and what close_vsc frees with it. *)
ClosedVsc == {"image", "vsc", "buffers", "synth"}

(* Either of open_vsc's own buffers is missing. *)
BuffersFail ==
  /\ stage = "buffers"
  /\ stage' = "failed"
  /\ held' = held \ ClosedVsc
  /\ UNCHANGED <<backend, rate, engine_rate, core>>

(* synth_resampled, which owns the engine from here. *)
Wrap ==
  /\ \/ Gets("wrapper", "resampler", {"wrapper"})
     \/ Gets("resampler", "open", {"resampler"})
  /\ UNCHANGED core

(* Mutant of WrapFails: the engine inside is left to the caller. *)
WrapFailsInnerKept ==
  /\ stage \in {"wrapper", "resampler"}
  /\ stage' = "failed"
  /\ held' = held \ {"wrapper"}
  /\ UNCHANGED <<backend, rate, engine_rate, core>>

WrapFails ==
  /\ stage \in {"wrapper", "resampler"}
  /\ stage' = "failed"
  /\ held' = held \ (ClosedVsc \cup {"wrapper"})
  /\ UNCHANGED <<backend, rate, engine_rate, core>>

(* open_scva. *)
OpenScva ==
  /\ backend = "scva"
  /\ \/ Gets("synth", "load", {"synth"}) /\ UNCHANGED core
     \/ Gets("load", "bind", {"image"}) /\ UNCHANGED core
     \/ Gets("bind", "open", {}) /\ core' = CoreStart

(* No memory, no core, or a core without a function it must have. *)
ScvaOpenFails ==
  /\ backend = "scva" /\ stage \in {"synth", "load", "bind"}
  /\ stage' = "failed"
  /\ held' = held \ {"image", "synth"}
  /\ UNCHANGED <<backend, rate, engine_rate, core>>

(* close_resampled over close_vsc, or close_scva. *)
Close ==
  /\ stage = "open"
  /\ stage' = "closed"
  /\ held' = held \ (ClosedVsc \cup {"wrapper", "resampler"})
  /\ UNCHANGED <<backend, rate, engine_rate, core>>

Opening ==
  \/ OpenVsc \/ Configure \/ VscOpenFails \/ BuffersFail \/ Wrap \/ WrapFails
  \/ OpenScva \/ ScvaOpenFails

-----------------------------------------------------------------------------

Stages == {"synth", "vsc", "load", "bind", "tones", "configure", "buffers",
           "wrapper", "resampler", "open", "closed", "failed"}
Things == {"synth", "vsc", "image", "tones", "buffers", "wrapper", "resampler"}

OpenTypeOK ==
  /\ backend \in {"vsc", "scva"}
  /\ rate \in HostRates /\ engine_rate \in Nat
  /\ stage \in Stages /\ held \subseteq Things
  /\ core \in {"unset", "rated", "stale", "fit", "broken"}

(* What is open renders at the rate asked for or is resampled from the
   nearest the engine has, "at or above the rate asked for where it can be";
   SCCore.dll's rate is set on both sides of the block size. *)
HasRate == \E k \in DOMAIN Rates : Rates[k] = engine_rate

OpensFit ==
  stage = "open" =>
    /\ backend = "scva" => core = "fit" /\ ~Resampled
    /\ backend = "vsc" =>
         /\ HasRate
         /\ Resampled => \A k \in DOMAIN Rates :
              /\ Rates[k] # rate
              /\ Rates[k] > rate => engine_rate > rate /\ engine_rate <= Rates[k]
              /\ Rates[k] < rate => engine_rate > rate \/ engine_rate >= Rates[k]

(* An engine that did not open, or was closed, left nothing behind: "which it
   then owns and closes ...; inner is closed then too". *)
NothingLeftBehind == stage \in {"failed", "closed"} => held = {}
=============================================================================
