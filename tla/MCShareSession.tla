--------------------------- MODULE MCShareSession ---------------------------
(* ShareSession with model values for the folders and the passwords.         *)
EXTENDS ShareSession, TLC

CONSTANTS home, usb, old, new

Renamings == Permutations({home, usb}) \cup Permutations({old, new})
=============================================================================
