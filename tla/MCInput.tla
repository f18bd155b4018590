------------------------------- MODULE MCInput -------------------------------
(***************************************************************************)
(* The raw input ring, and the path from keys to characters over the queue *)
(* that the ring implements: a behaviour is of one of them.  A short queue *)
(* and a few key strokes.                                                  *)
(***************************************************************************)
EXTENDS InputRing

CONSTANTS Keys, MaxEvents, LineErrors     \* of Input

VARIABLES
  part,   \* what this behaviour is of
  queue, reset, kbd_answer, held, caps, wire, decoder, typed, expected, lost, events

kbd_vars == <<queue, reset, kbd_answer, held, caps, wire, decoder, typed, expected, lost, events>>

Keyboard == INSTANCE Input WITH answer <- kbd_answer

MCInit == part \in {"ring", "keyboard"} /\ input_ring_init /\ Keyboard!InputInit

MCNext ==
  /\ \/ part = "ring" /\ RingNext /\ UNCHANGED kbd_vars
     \/ part = "keyboard" /\ Keyboard!InputNext /\ UNCHANGED ring_vars
  /\ UNCHANGED part

MCSpec == MCInit /\ [][MCNext]_<<part, ring_vars, kbd_vars>>

-----------------------------------------------------------------------------
(* As long as nothing is lost, the decoder's modifiers and the characters   *)
(* are the keyboard's (input_decode_set1, keyboard_read_char).              *)
KeyboardFollowed == Keyboard!KeyboardFollowed

(* A loss of whole byte sequences leaves no modifier stuck and no sequence  *)
(* half read (keyboard_on_irq, keyboard_read_char).                         *)
LossRecovered == Keyboard!LossRecovered
=============================================================================
