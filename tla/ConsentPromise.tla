--------------------------- MODULE ConsentPromise ---------------------------
(***************************************************************************)
(* What a consent manager promises the executor that calls it, whatever    *)
(* the transport: a question is decided once, either way, and stays        *)
(* decided.  No entry of this module is about HTTP; HttpConsent implements *)
(* it.                                                                     *)
(***************************************************************************)
CONSTANT Calls      \* the tool calls that need consent, each asked about once

VARIABLE outcome    \* outcome[c]: what the executor will be told of call c

Init == outcome = [c \in Calls |-> "unasked"]

Becomes(c, from, to) ==
    /\ outcome[c] = from
    /\ outcome' = [outcome EXCEPT ![c] = to]

Ask(c)   == Becomes(c, "unasked", "open")
Allow(c) == Becomes(c, "open", "allowed")
Deny(c)  == Becomes(c, "open", "denied")

Next == \E c \in Calls : Ask(c) \/ Allow(c) \/ Deny(c)

Spec == Init /\ [][Next]_outcome
=============================================================================
