-------------------------- MODULE IterativeServer --------------------------
(***************************************************************************)
(* What the server promises: it serves one peer at a time, and numbers the *)
(* datagrams of a session 0, 1, 2, ... modulo the word size.  Server is    *)
(* shown to implement it.                                                  *)
(***************************************************************************)
EXTENDS Words

CONSTANTS Peers, Nobody

VARIABLES
    serving,    \* the peer of the session, or Nobody
    next        \* the number its next datagram will carry

streamVars == <<serving, next>>

IterInit == serving = Nobody /\ next = 0

\* A session starts, with number 0.
Accept(p) ==
    /\ serving = Nobody
    /\ serving' = p
    /\ next' = 0

\* A datagram is sent to the peer.
SendNext ==
    /\ serving # Nobody
    /\ next' = Succ(next)
    /\ UNCHANGED serving

\* The session ends.
End ==
    /\ serving # Nobody
    /\ serving' = Nobody
    /\ next' = 0

IterNext == (\E p \in Peers : Accept(p)) \/ SendNext \/ End

IterSpec == IterInit /\ [][IterNext]_streamVars
=============================================================================
