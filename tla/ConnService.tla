---------------------------- MODULE ConnService ----------------------------
(***************************************************************************)
(* What the daemon's server promises a client: a connection that waits is  *)
(* served, once, until it is closed, and only a served connection is       *)
(* closed.  The server may lose a connection for want of a resource, and   *)
(* may stop for good; what it then serves it still serves to the end.      *)
(***************************************************************************)
CONSTANT Conns

VARIABLES
    life,   \* how far each connection is
    up      \* whether the server still serves new connections

Init ==
    /\ life = [c \in Conns |-> "new"]
    /\ up = TRUE

Becomes(c, from, to) ==
    /\ life[c] = from
    /\ life' = [life EXCEPT ![c] = to]
    /\ UNCHANGED up

Connect(c) == Becomes(c, "new", "waiting")
Serve(c) == up /\ Becomes(c, "waiting", "served")
Lose(c) == up /\ Becomes(c, "waiting", "lost")
Close(c) == Becomes(c, "served", "closed")
Stop == up /\ up' = FALSE /\ UNCHANGED life

Next == Stop \/ \E c \in Conns : Connect(c) \/ Serve(c) \/ Lose(c) \/ Close(c)

vars == <<life, up>>

Spec == /\ Init /\ [][Next]_vars
        /\ \A c \in Conns : WF_vars(Serve(c) \/ Lose(c))
=============================================================================
