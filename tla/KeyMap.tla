------------------------------- MODULE KeyMap -------------------------------
(***************************************************************************)
(* What Int32Map (csrc/suffix_decoding/int32_map.h) promises the suffix    *)
(* tree: a finite map.  emplace does not replace a value that is there.    *)
(***************************************************************************)
EXTENDS TLC

CONSTANTS Keys, Vals, None

VARIABLES
    map,  \* what is stored
    ret   \* what the last call returned

Find(k) ==
    /\ ret' = IF k \in DOMAIN map THEN map[k] ELSE None
    /\ UNCHANGED map

Emplace(k, v) ==
    /\ map' = map @@ (k :> v)
    /\ ret' = map'[k]

Erase(k) ==
    /\ map' = [j \in DOMAIN map \ {k} |-> map[j]]
    /\ ret' = (k \in DOMAIN map)

Init == map = << >> /\ ret = None
Next == \E k \in Keys : Find(k) \/ Erase(k) \/ \E v \in Vals : Emplace(k, v)
Spec == Init /\ [][Next]_<<map, ret>>
=============================================================================
