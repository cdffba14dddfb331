----------------------------- MODULE ActiveObject -----------------------------
(***************************************************************************)
(* What CmdProcessor promises (src/src/EventManager/Cmd.h:16-23 and        *)
(* CmdProcessor.h:18-26): commands handed in by any number of clients are  *)
(* executed one at a time, each at most once, and none is begun once the   *)
(* object has been told to shut down.  Nothing is said here about order or *)
(* about how commands wait.                                                *)
(***************************************************************************)

CONSTANTS Cmd,     \* the commands that may ever be handed in
          NoCmd    \* "nothing is being executed", not in Cmd

VARIABLES waiting,  \* handed in, not begun
          busy,     \* the command being executed, or NoCmd
          served,   \* begun and ended
          open      \* FALSE once the object was told to shut down

avars == <<waiting, busy, served, open>>

AInit == /\ waiting = {}
         /\ busy = NoCmd
         /\ served = {}
         /\ open = TRUE

Submit == \E c \in Cmd \ (waiting \cup {busy} \cup served) :
             /\ waiting' = waiting \cup {c}
             /\ UNCHANGED <<busy, served, open>>

Begin == /\ open
         /\ busy = NoCmd
         /\ \E c \in waiting : /\ busy' = c
                               /\ waiting' = waiting \ {c}
         /\ UNCHANGED <<served, open>>

End == /\ busy # NoCmd
       /\ served' = served \cup {busy}
       /\ busy' = NoCmd
       /\ UNCHANGED <<waiting, open>>

Close == /\ open
         /\ open' = FALSE
         /\ UNCHANGED <<waiting, busy, served>>

ANext == Submit \/ Begin \/ End \/ Close

ASpec == AInit /\ [][ANext]_avars
===============================================================================
