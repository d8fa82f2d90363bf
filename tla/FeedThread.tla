----------------------------- MODULE FeedThread -----------------------------
(***************************************************************************)
(* What a live feed is to those who hold it: a thread that runs until it   *)
(* is told to stop, ends only then, is not called back, and subscribes one *)
(* generation of instruments at a time, which its holder may replace.      *)
(***************************************************************************)
CONSTANTS Generations, Nothing

VARIABLES
    thread,     \* none, running, or told to stop
    subscribes  \* the generation it is to subscribe, or Nothing without a thread

threadVars == <<thread, subscribes>>

ThreadInit == thread = "none" /\ subscribes = Nothing

Begin  == thread = "none" /\ thread' = "running" /\ subscribes' \in Generations
Change == thread # "none" /\ subscribes' \in Generations /\ UNCHANGED thread
LetGo  == thread = "running" /\ thread' = "told" /\ UNCHANGED subscribes
End    == thread = "told" /\ thread' = "none" /\ subscribes' = Nothing

ThreadNext == Begin \/ Change \/ LetGo \/ End

ThreadSpec == ThreadInit /\ [][ThreadNext]_threadVars
=============================================================================
