------------------------------ MODULE MCFlash ------------------------------
(***************************************************************************)
(* What is kept on flash and must survive a power cut: the configuration   *)
(* store and the system image.  The two share no file, so each behaviour   *)
(* of this instance is about one of them.                                  *)
(***************************************************************************)
EXTENDS MCStore, ImageInstall

VARIABLE kept   \* what this behaviour is about

FlashInit ==
    /\ kept \in {"store", "image"}
    /\ CrashOrCalmInit /\ ImageInit
    /\ kept = "image" => calm

FlashNext ==
    /\ \/ kept = "store" /\ CrashOrCalmNext /\ UNCHANGED imageVars
       \/ kept = "image" /\ ImageNext /\ UNCHANGED <<vars, calm>>
    /\ UNCHANGED kept

FlashSpec == FlashInit /\ [][FlashNext]_<<kept, calm, vars, imageVars>>
=============================================================================
