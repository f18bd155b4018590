-------------------------------- MODULE Input --------------------------------
(***************************************************************************)
(* From keys to characters: the keyboard, IRQ1 (drivers/input/keyboard.c),  *)
(* the raw queue and the set 1 decoder (kernel/input/input.c).             *)
(*                                                                         *)
(* The keyboard sends one byte per IRQ1.  A key press or release is a      *)
(* sequence of bytes, several for extended keys, and an interrupt may come *)
(* between any two steps of the shell, so the queue overflows or is        *)
(* discarded in the middle of a sequence.  The queue is InputQueue, which  *)
(* the ring of input.c implements (InputRing).                             *)
(*                                                                         *)
(* The translation tables are cut down to the keys of the model.           *)
(***************************************************************************)
EXTENDS InputQueue, Integers, FiniteSets, SequencesExt

CONSTANTS
  Keys,        \* the keys somebody presses, a subset of AllKeys
  MaxEvents,   \* presses and repeats in a run
  LineErrors   \* whether bytes arrive with parity or timeout errors

VARIABLES
  held,        \* keys that are down
  caps,        \* whether Caps Lock is on, as its user sees it
  wire,        \* bytes of the current event not sent yet
  decoder,     \* struct input_decoder
  typed,       \* the characters keyboard_read_char returned
  expected,    \* ghost: the characters the keys stand for
  lost,        \* ghost: "no", or whether a loss "split" a byte sequence
  events       \* presses and repeats so far

kbd_vars == <<queue, reset, answer, held, caps, wire, decoder, typed, expected, lost, events>>

-----------------------------------------------------------------------------
(* The keyboard: scan code set 1                                           *)

Codes ==
  [LShift |-> 42, RShift |-> 54, Caps |-> 58, A |-> 30, One |-> 2, Enter |-> 28]

AllKeys == DOMAIN Codes \cup {"KpEnter", "PrintScreen", "Pause"}

Pressed(k) ==
  CASE k = "KpEnter"     -> <<224, 28>>
    [] k = "PrintScreen" -> <<224, 42, 224, 55>>
    [] k = "Pause"       -> <<225, 29, 69, 225, 157, 197>>
    [] OTHER             -> <<Codes[k]>>

Released(k) ==
  CASE k = "KpEnter"     -> <<224, 156>>
    [] k = "PrintScreen" -> <<224, 183, 224, 170>>
    [] k = "Pause"       -> <<>>
    [] OTHER             -> <<Codes[k] + 128>>

(* The character a press or repeat of k stands for, if any.                *)
Meaning(k) ==
  LET shift == held \cap {"LShift", "RShift"} # {}
  IN  CASE k = "A" -> <<IF shift # caps THEN "A" ELSE "a">>
        [] k = "One" -> <<IF shift THEN "!" ELSE "1">>
        [] k \in {"Enter", "KpEnter"} -> <<"newline">>
        [] OTHER -> <<>>

(* A press, or the repeat of a key that is held.                           *)
Press(k) ==
  /\ wire = <<>> /\ events < MaxEvents
  /\ wire' = Pressed(k)
  /\ held' = held \cup {k}
  /\ caps' = IF k = "Caps" /\ k \notin held THEN ~caps ELSE caps
  /\ expected' = expected \o Meaning(k)
  /\ events' = events + 1
  /\ UNCHANGED <<queue, reset, answer, decoder, typed, lost>>

Release(k) ==
  /\ wire = <<>> /\ k \in held
  /\ wire' = Released(k)
  /\ held' = held \ {k}
  /\ UNCHANGED <<queue, reset, answer, caps, decoder, typed, expected, lost, events>>

-----------------------------------------------------------------------------
(* keyboard_on_irq: the byte is queued, or lost with what is queued when   *)
(* the queue is full or the status reports a parity or timeout error.      *)

AfterLoss(lost_now) ==
  IF ~lost_now THEN lost
  ELSE IF lost = "split" \/ Len(wire) > 1 THEN "split" ELSE "whole"

keyboard_on_irq ==
  /\ wire # <<>>
  /\ wire' = Tail(wire)
  /\ \/ /\ QueuePush(Head(wire))
        /\ lost' = AfterLoss(Len(queue) = Capacity - 1)
     \/ /\ LineErrors
        /\ QueueDiscard /\ answer' = answer
        /\ lost' = AfterLoss(TRUE)
  /\ UNCHANGED <<held, caps, decoder, typed, expected, events>>

-----------------------------------------------------------------------------
(* The decoder                                                             *)

input_decoder_init ==
  [left_shift |-> FALSE, right_shift |-> FALSE, caps_lock |-> FALSE,
   caps_down |-> FALSE, extended |-> FALSE, pause_remaining |-> 0]

Plain == [c \in {30, 2, 28, 55} |->
            CASE c = 30 -> "a" [] c = 2 -> "1" [] c = 28 -> "newline" [] c = 55 -> "*"]

Shifted(c) == CASE c = 30 -> "A" [] c = 2 -> "!" [] OTHER -> Plain[c]

(* The character of a plain key: letters follow Shift and Caps Lock, the   *)
(* others Shift.                                                           *)
Character(d, code) ==
  LET shift == d.left_shift \/ d.right_shift
      upper == IF code = 30 THEN shift # d.caps_lock ELSE shift
  IN  IF upper THEN Shifted(code) ELSE Plain[code]

(* Mutant: Caps Lock toggles on every repeat.                              *)
Modifier_CapsRepeats(d, code, released) ==
  CASE code = 42 -> [d EXCEPT !.left_shift = ~released]
    [] code = 54 -> [d EXCEPT !.right_shift = ~released]
    [] code = 58 -> [d EXCEPT !.caps_lock = IF ~released THEN ~@ ELSE @,
                              !.caps_down = ~released]

Modifier(d, code, released) ==
  CASE code = 42 -> [d EXCEPT !.left_shift = ~released]
    [] code = 54 -> [d EXCEPT !.right_shift = ~released]
    [] code = 58 -> [d EXCEPT !.caps_lock = IF ~released /\ ~d.caps_down THEN ~@ ELSE @,
                              !.caps_down = ~released]

(* The decoder after a byte, and the character it completes, if any.       *)
input_decode_set1(d, byte) ==
  LET code == byte % 128
      released == byte >= 128
      next(e, out) == [decoder |-> e, out |-> out]
  IN  IF d.pause_remaining # 0
      THEN next([d EXCEPT !.pause_remaining = @ - 1], <<>>)
      ELSE IF byte = 225
      THEN next([d EXCEPT !.pause_remaining = 5, !.extended = FALSE], <<>>)
      ELSE IF byte = 224 THEN next([d EXCEPT !.extended = TRUE], <<>>)
      ELSE IF d.extended
      THEN next([d EXCEPT !.extended = FALSE],
                IF ~released /\ code = 28 THEN <<"newline">> ELSE <<>>)
      ELSE IF code \in {42, 54, 58} THEN next(Modifier(d, code, released), <<>>)
      ELSE next(d, IF released \/ code \notin DOMAIN Plain THEN <<>>
                   ELSE <<Character(d, code)>>)

(* Mutant: the decoder survives a loss.                                    *)
keyboard_read_char_NoReset ==
  /\ queue # <<>> \/ reset
  /\ QueuePop
  /\ LET step == input_decode_set1(decoder, Head(queue))
     IN  IF queue = <<>>
         THEN decoder' = decoder /\ typed' = typed
         ELSE decoder' = step.decoder /\ typed' = typed \o step.out
  /\ UNCHANGED <<held, caps, wire, expected, lost, events>>

(* One turn of keyboard_read_char's loop.  The decoder belongs to the      *)
(* shell, so the pop and the decoding of its byte are one step.            *)
keyboard_read_char ==
  /\ queue # <<>> \/ reset
  /\ QueuePop
  /\ LET d == IF reset THEN input_decoder_init ELSE decoder
         step == input_decode_set1(d, Head(queue))
     IN  IF queue = <<>>
         THEN decoder' = d /\ typed' = typed
         ELSE decoder' = step.decoder /\ typed' = typed \o step.out
  /\ UNCHANGED <<held, caps, wire, expected, lost, events>>

-----------------------------------------------------------------------------
InputInit ==
  /\ QueueInit
  /\ held = {}
  /\ caps = FALSE
  /\ wire = <<>>
  /\ decoder = input_decoder_init
  /\ typed = <<>>
  /\ expected = <<>>
  /\ lost = "no"
  /\ events = 0

InputNext ==
  \/ \E k \in Keys : Press(k) \/ Release(k)
  \/ keyboard_on_irq
  \/ keyboard_read_char

InputSpec == InputInit /\ [][InputNext]_kbd_vars

(* The keyboard sends what it has and the shell reads what is queued;      *)
(* nobody has to press a key.                                              *)
FairInputSpec ==
  InputSpec /\ WF_kbd_vars(keyboard_on_irq) /\ WF_kbd_vars(keyboard_read_char)

-----------------------------------------------------------------------------
(* Properties                                                              *)

InputTypeOK ==
  /\ Len(queue) < Capacity
  /\ held \subseteq Keys
  /\ decoder \in [left_shift : BOOLEAN, right_shift : BOOLEAN, caps_lock : BOOLEAN,
                  caps_down : BOOLEAN, extended : BOOLEAN, pause_remaining : 0..5]

Quiet == wire = <<>> /\ queue = <<>> /\ ~reset

(* As long as nothing is lost the decoder follows the keyboard: once every *)
(* byte is read, its modifiers are the keys held and the Caps Lock state,  *)
(* and it is in the middle of no sequence (input_decode_set1).             *)
DecoderInSync ==
  /\ InputTypeOK
  /\ lost = "no" /\ Quiet =>
    decoder = [left_shift |-> "LShift" \in held, right_shift |-> "RShift" \in held,
               caps_lock |-> caps, caps_down |-> "Caps" \in held,
               extended |-> FALSE, pause_remaining |-> 0]

(* As long as nothing is lost the characters typed are the ones the keys   *)
(* stand for, in order: extended keys, fake shifts, Pause and key repeat   *)
(* add none and drop none (keyboard_read_char).                            *)
TypedFaithfully ==
  lost = "no" => IsPrefix(typed, expected) /\ (Quiet => typed = expected)

(* As long as nothing is lost, the keyboard's modifiers and characters are  *)
(* what the decoder says (input_decode_set1, keyboard_read_char).           *)
KeyboardFollowed == DecoderInSync /\ TypedFaithfully

(* After a loss that hit whole byte sequences only, the reset that the next *)
(* pop reports brings the decoder back: once everything is read it is in    *)
(* the middle of no sequence and takes no Shift for held that nobody holds, *)
(* however many releases were lost (keyboard_on_irq, keyboard_read_char).   *)
LossRecovered ==
  lost # "split" /\ Quiet =>
    /\ decoder.left_shift => "LShift" \in held
    /\ decoder.right_shift => "RShift" \in held
    /\ ~decoder.extended /\ decoder.pause_remaining = 0

(* "held modifiers cannot remain stuck indefinitely" (input.h): a Shift    *)
(* the decoder takes for held, and nobody holds, does not stay so.         *)
NoStuckModifier ==
  /\ (decoder.left_shift /\ "LShift" \notin held)
       ~> (~decoder.left_shift \/ "LShift" \in held)
  /\ (decoder.right_shift /\ "RShift" \notin held)
       ~> (~decoder.right_shift \/ "RShift" \in held)
=============================================================================
