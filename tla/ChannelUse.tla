----------------------------- MODULE ChannelUse -----------------------------
(* What the rest of the base station relies on of a dedicated channel, without *)
(* its state machine: a channel is set up, perhaps connects a mobile with MM,   *)
(* is taken down and only then is free for the next use; a connection that MM   *)
(* has been given is ended towards MM before the channel is free.               *)
CONSTANT Chan

VARIABLES
    use,   \* [Chan -> "idle", "setup", "up", "down"]
    owed   \* [Chan -> BOOLEAN], MM has not been told of the end of its connection

vars == <<use, owed>>

Init ==
    /\ use = [c \in Chan |-> "idle"]
    /\ owed = [c \in Chan |-> FALSE]

Move(c, from, to) ==
    /\ use[c] = from
    /\ use' = [use EXCEPT ![c] = to]

Allocate(c) == Move(c, "idle", "setup") /\ UNCHANGED owed
Refuse(c) == Move(c, "setup", "idle") /\ UNCHANGED owed
Fail(c) == Move(c, "setup", "down") /\ UNCHANGED owed
Connect(c) == Move(c, "setup", "up") /\ owed' = [owed EXCEPT ![c] = TRUE]
Lose(c) == Move(c, "up", "down") /\ UNCHANGED owed

\* MM is told once, while the channel is taken down.
Tell(c) ==
    /\ use[c] = "down" /\ owed[c]
    /\ owed' = [owed EXCEPT ![c] = FALSE]
    /\ UNCHANGED use

Free(c) == ~owed[c] /\ Move(c, "down", "idle") /\ UNCHANGED owed

Next ==
    \E c \in Chan :
       \/ Allocate(c) \/ Refuse(c) \/ Fail(c) \/ Connect(c)
       \/ Lose(c) \/ Tell(c) \/ Free(c)

Spec == Init /\ [][Next]_vars
=============================================================================
