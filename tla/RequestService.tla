--------------------------- MODULE RequestService ---------------------------
(***************************************************************************)
(* What atlas_coap_client_request promises its callers, whatever scheduler *)
(* and alarms lie below: a request that was accepted calls its callback    *)
(* exactly once.  A request is named by the handle of its CoAP context; a  *)
(* handle can be used again once the request is over.                      *)
(***************************************************************************)
EXTENDS Integers

CONSTANT Handles

VARIABLES
    pending,  \* handles of the requests accepted and not yet over
    calls     \* callbacks made for the last request of each handle

\* main may have issued a request before the loop starts.
Init ==
    /\ pending \subseteq Handles
    /\ calls = [h \in Handles |-> 0]

\* A step ends at most one request, with one callback, and accepts any number:
\* the callback may itself issue requests.  Nothing else touches calls.
Next ==
    LET over == pending \ pending'
        new  == pending' \ pending
    IN  /\ pending' \subseteq Handles
        /\ \A g, h \in over : g = h
        /\ calls' = [h \in Handles |-> IF h \in new THEN 0
                                       ELSE IF h \in over THEN calls[h] + 1
                                       ELSE calls[h]]

Spec == Init /\ [][Next]_<<pending, calls>>
=============================================================================
