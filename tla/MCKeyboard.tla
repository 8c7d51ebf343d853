----------------------------- MODULE MCKeyboard -----------------------------
(* Instances of Keyboard for TLC.                                          *)
EXTENDS Keyboard

(* The keys a and s pressed, and a released.                               *)
MCCodes == {30, 31, 158}

=============================================================================
