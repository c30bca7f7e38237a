--------------------------- MODULE ResponseCache ---------------------------
(***************************************************************************)
(* What a suffix-decoding cache promises its caller, with no sequence id,  *)
(* no capacity and no tree in sight: every request is active or not, and   *)
(* its response is either cached whole or not cached at all.  A response   *)
(* grows only by the tokens its own active request reports, and leaves the *)
(* cache whole.  SuffixCache implements this specification.                *)
(***************************************************************************)
EXTENDS Sequences

CONSTANTS
    Reqs,     \* request identifiers (any hashable value)
    Batches,  \* the token sequences a request may report
    None      \* marks a response that is not cached

VARIABLES
    active,   \* requests started and not yet stopped
    response  \* response[r]: tokens cached for r, or None

vars == <<active, response>>

Init ==
    /\ active = {}
    /\ response = [r \in Reqs |-> None]

(* A start opens an empty response (or none, when the global cache is off) *)
(* and may push any set of other responses out.                            *)
Start(r) ==
    /\ r \notin active
    /\ active' = active \union {r}
    /\ \E opened \in {<<>>, None}, dropped \in SUBSET (Reqs \ {r}) :
         response' = [x \in Reqs |-> IF x = r THEN opened
                                     ELSE IF x \in dropped THEN None
                                     ELSE response[x]]

Stop(r) ==
    /\ r \in active
    /\ active' = active \ {r}
    /\ UNCHANGED response

Report(r, b) ==
    /\ r \in active
    /\ response' = [response EXCEPT ![r] = IF @ = None THEN None ELSE @ \o b]
    /\ UNCHANGED active

Drop(r) ==
    /\ response[r] # None
    /\ response' = [response EXCEPT ![r] = None]
    /\ UNCHANGED active

Next ==
    \E r \in Reqs : \/ Start(r)
                    \/ Stop(r)
                    \/ \E b \in Batches : Report(r, b)
                    \/ Drop(r)

Spec == Init /\ [][Next]_vars
=============================================================================
