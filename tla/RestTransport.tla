--------------------------- MODULE RestTransport ---------------------------
(***************************************************************************)
(* What the gateway relies on when it calls IRestTransport::async_send:    *)
(* the callback of a request is called once, with an answer or with a      *)
(* failure, and never again.  Any set of requests may be sent and any set  *)
(* of open ones answered in one step of the I/O thread (a broken           *)
(* connection answers all of them at once; a refused request is answered   *)
(* in the step that sends it).                                             *)
(***************************************************************************)
CONSTANT Requests

VARIABLE status         \* what has become of each request

Init == status = [r \in Requests |-> "idle"]

\* What may become of a request in a step.
Moves ==
    {<<"idle", "idle">>, <<"idle", "open">>, <<"idle", "answered">>,
     <<"open", "open">>, <<"open", "answered">>, <<"answered", "answered">>}

Follows(before, after) ==
    /\ DOMAIN after = Requests
    /\ \A r \in Requests : <<before[r], after[r]>> \in Moves

Next == Follows(status, status')

Spec == Init /\ [][Next]_status
=============================================================================
