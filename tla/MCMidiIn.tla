------------------------------ MODULE MCMidiIn ------------------------------
(* A ring of three slots, so that two messages fill it and the indices wrap,
   two sysex buffers, and enough messages to fill the ring, reuse a buffer
   and use both of them up. *)
EXTENDS MidiIn
==============================================================================
