---------------------------- MODULE MCCoapServer ----------------------------
(* A request that is answered from a resource, a command nobody wants an    *)
(* answer to, one for a resource that is not there, what other methods and  *)
(* responses of other nodes look like, and a message that makes no sense.   *)
EXTENDS CoapServer

MCPacket == {
    [type |-> "CON", code |-> "GET", path |-> "/status", from |-> "a", form |-> "plain"],
    [type |-> "NON", code |-> "PUT", path |-> "/status", from |-> "b", form |-> "plain"],
    [type |-> "CON", code |-> "PUT", path |-> "/other", from |-> "c", form |-> "plain"],
    [type |-> "CON", code |-> "GET", path |-> "/status", from |-> "c", form |-> "malformed"],
    [type |-> "ACK", code |-> "OTHER", path |-> "/status", from |-> "c", form |-> "plain"]}
MCResource == {"/status"}
=============================================================================
