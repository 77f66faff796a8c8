----------------------------- MODULE MCStorage -----------------------------
(* Three settings, one value of one part and two of two parts. *)
EXTENDS Storage, TLC

CONSTANTS mode, cluster, cv, short, long, longer

MCOrder == <<mode, cluster, cv>>
MCLengthOf == short :> 1 @@ long :> 2 @@ longer :> 2
MCDefault == mode :> long @@ cluster :> short @@ cv :> long

\* Every property is about the EEPROM before a scan was misled, and once it was
\* it stays so: nothing is lost by not exploring further.
NotMisled == ~misled
=============================================================================
