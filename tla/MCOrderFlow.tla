---------------------------- MODULE MCOrderFlow ----------------------------
(***************************************************************************)
(* Orders that each have an asset, side and price of their own.            *)
(***************************************************************************)
EXTENDS OrderFlow, TLC

MCQuoteOf == [c \in ClientIds |-> c]

\* The orders are interchangeable.
Perms == Permutations(ClientIds)

\* The fatal flag shuts the process down: its last steps are not followed. Nor is
\* what comes after every order has been disowned, which NoLostOrder says nothing of.
Alive == ~fatal /\ disowned # ClientIds
=============================================================================
