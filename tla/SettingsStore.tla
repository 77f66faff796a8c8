--------------------------- MODULE SettingsStore ---------------------------
(***************************************************************************)
(* What the settings storage promises (src/storage.h): for every setting a *)
(* value in use and a stored one, and nothing between two settings.  Of a  *)
(* value that is not written at once a restart may leave a mixture.        *)
(***************************************************************************)
CONSTANTS
    Key, Value, Default,
    Whole,             \* the values that are written at once
    Missing, Corrupt   \* nothing is stored of a setting, or no value of it

VARIABLES
    ram,      \* the value of each setting in use
    stored,   \* what is stored of each
    misled    \* the promise is off

settingsVars == <<ram, stored, misled>>

\* A setter takes a value.
Use(k, v) == ram' = [ram EXCEPT ![k] = v] /\ UNCHANGED stored

\* At startup the stored value is taken, the default if there is none.
Take(k) ==
    /\ ram' = [ram EXCEPT ![k] = IF stored[k] = Missing THEN Default[k] ELSE stored[k]]
    /\ UNCHANGED stored

\* The value in use is stored.
Store(k) == ram[k] \in Value /\ stored' = [stored EXCEPT ![k] = ram[k]] /\ UNCHANGED ram

\* The value in use is stored in part.
Begin(k) == stored[k] \notin Whole /\ stored' = [stored EXCEPT ![k] = Corrupt] /\ UNCHANGED ram

Restart == ram' = Default /\ UNCHANGED stored

Init == ram = Default /\ stored = [k \in Key |-> Missing] /\ misled = FALSE

Next ==
    \/ misled'
    \/ ~misled' /\ \/ Restart
                   \/ \E k \in Key : Take(k) \/ Store(k) \/ Begin(k) \/ \E v \in Value : Use(k, v)

Spec == Init /\ [][Next]_settingsVars
=============================================================================
