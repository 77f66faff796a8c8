-------------------------- MODULE MCEventCommands --------------------------
(* Instance of EventCommands for TLC. *)
EXTENDS EventCommands

MCStored == {<<{}, {1}>>, <<Channel, Channel>>}

Broadcast == Cluster(Channel, Channel)
Zone == Cluster(Channel, {})

Sensor == {[policy |-> <<Command("F1", 0, 1, 1, 0)>>, cluster |-> Broadcast]}

Request == {
    [policy |-> <<Command("F2", 1, 1, 1, 0), Command("F3", 0, 1, 1, 0)>>, cluster |-> Broadcast],
    [policy |-> <<Command("F9", 0, 1, 1, 0)>>, cluster |-> Zone],
    [policy |-> <<Command("attune", 0, 1, 1, 0)>>, cluster |-> Broadcast]
}
=============================================================================
