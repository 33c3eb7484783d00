------------------------------- MODULE KeyMap -------------------------------
(***************************************************************************)
(* What ed-lesson-7/hash/hash.h promises: a map from keys to values.  A    *)
(* key may be present with no value (hashmap_remove_value takes the value  *)
(* and leaves the entry), which hashmap_get cannot tell from an absent     *)
(* key and hashmap_size can.                                               *)
(***************************************************************************)
EXTENDS Naturals, FiniteSets

CONSTANTS Keys, Values, NULL, ABSENT

VARIABLES
    kv,           \* each key's value, NULL (entry without value) or ABSENT
    ret,          \* what the last call returned
    status        \* "live", "destroyed" or "crashed"

mapVars == <<kv, ret, status>>

Present == {k \in Keys : kv[k] # ABSENT}
ValueOf(k) == IF k \in Present THEN kv[k] ELSE NULL

MapInit == kv = [k \in Keys |-> ABSENT] /\ ret = NULL /\ status = "live"

MapInsert(k, v) == kv' = [kv EXCEPT ![k] = v] /\ ret' = NULL /\ UNCHANGED status

\* An allocation failure: the entry is not made and the process crashes.
MapCrash(k) == k \notin Present /\ status' = "crashed" /\ UNCHANGED <<kv, ret>>

MapGet(k) == ret' = ValueOf(k) /\ UNCHANGED <<kv, status>>

MapRemoveValue(k) ==
    /\ ret' = ValueOf(k)
    /\ kv' = IF k \in Present THEN [kv EXCEPT ![k] = NULL] ELSE kv
    /\ UNCHANGED status

MapRemoveEntry(k) ==
    /\ ret' = ValueOf(k)
    /\ kv' = [kv EXCEPT ![k] = ABSENT]
    /\ UNCHANGED status

MapSize == ret' = Cardinality(Present) /\ UNCHANGED <<kv, status>>

MapDestroy ==
    /\ kv' = [k \in Keys |-> ABSENT]
    /\ ret' = NULL
    /\ status' = "destroyed"

MapNext ==
    /\ status = "live"
    /\ \/ \E k \in Keys : \/ MapGet(k) \/ MapRemoveValue(k) \/ MapRemoveEntry(k)
                          \/ \E v \in Values : MapInsert(k, v)
                          \/ MapCrash(k)
       \/ MapSize
       \/ MapDestroy

MapSpec == MapInit /\ [][MapNext]_mapVars
============================================================================
