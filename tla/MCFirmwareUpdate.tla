------------------------- MODULE MCFirmwareUpdate -------------------------
(* Instances of FirmwareUpdate for TLC: three binaries on the server. *)
EXTENDS FirmwareUpdate, TLC

CONSTANTS current, new, long, node, other

\* `long` is one page too long for the application region and of another product.
MCFirmware == {current, new, long}
MCFileLen == current :> N @@ new :> N @@ long :> N + 1
MCSmall == {current, long}
MCSmallLen == current :> N @@ long :> N + 1
MCSmallProduct == current :> node @@ long :> node
MCProduct == current :> node @@ new :> node @@ long :> other
=============================================================================
