----------------------------- MODULE TickPipeline -----------------------------
(***************************************************************************)
(* What the trading client promises of the ticks the server makes and the  *)
(* orders it makes of them, whatever the connection, the queues and the    *)
(* threads in between do.  It handles ticks in the order in which they     *)
(* were made, each at most once, and may miss any of them.  It decides to  *)
(* trade on some of those it has handled, makes their orders oldest first, *)
(* and of a decision that it drops no later one is waiting.  It starts and *)
(* stops once; each thread that was looking for work at the stop takes at  *)
(* most one more tick or one more decision.                                *)
(*                                                                         *)
(* A tick is its place among all ticks: the server process that made it    *)
(* and its number there.                                                   *)
(***************************************************************************)
EXTENDS Integers

VARIABLES
    made,       \* the place of the tick the server makes next
    handled,    \* the last tick handled
    decided,    \* ticks to trade on that no order has been begun for
    ordered,    \* the tick of the last order begun
    sending,    \* whether that order is still to be sent
    sent,       \* orders sent
    life,       \* "new", "on" or "off"
    looking     \* the threads that have seen life "on" and look for work

places == <<made, handled, decided, ordered>>
pipelineVars == <<places, sending, sent, life, looking>>

Precedes(s, t) == s[1] < t[1] \/ (s[1] = t[1] /\ s[2] < t[2])
Nothing == <<-1, 0>>

Init ==
    /\ made = <<0, 0>>
    /\ handled = Nothing /\ decided = {} /\ ordered = Nothing
    /\ sending = FALSE /\ sent = 0
    /\ life = "new" /\ looking = {}

MakeTick ==
    /\ Precedes(made, made')
    /\ UNCHANGED <<handled, decided, ordered, sending, sent, life, looking>>

Start ==
    /\ life = "new" /\ life' = "on"
    /\ UNCHANGED <<places, sending, sent, looking>>

(* The client is stopped or stops itself.  A thread may end with what it    *)
(* was about to do undone.                                                  *)
Stop ==
    /\ life # "new" /\ life' = "off"
    /\ looking' \subseteq looking
    /\ sending' => sending
    /\ UNCHANGED <<places, sent>>

Look(thread) ==
    /\ life = "on"
    /\ looking' = looking \cup {thread}
    /\ UNCHANGED <<places, sending, sent, life>>

FindNothing(thread) ==
    /\ looking' = looking \ {thread}
    /\ UNCHANGED <<places, sending, sent, life>>

Handle ==
    /\ "strategy" \in looking /\ looking' = looking \ {"strategy"}
    /\ Precedes(handled, handled') /\ Precedes(handled', made)
    /\ decided' \in {decided, decided \cup {handled'}}
    /\ UNCHANGED <<made, ordered, sending, sent, life>>

(* Only the latest decision can be dropped. *)
Drop ==
    /\ \E t \in decided :
         /\ \A u \in decided \ {t} : Precedes(u, t)
         /\ decided' = decided \ {t}
    /\ UNCHANGED <<made, handled, ordered, sending, sent, life, looking>>

(* The earliest decision is the next order. *)
BeginOrder ==
    /\ "execution" \in looking /\ looking' = looking \ {"execution"}
    /\ ~sending /\ sending'
    /\ ordered' \in decided
    /\ \A u \in decided \ {ordered'} : Precedes(ordered', u)
    /\ decided' = decided \ {ordered'}
    /\ UNCHANGED <<made, handled, sent, life>>

SendOrder ==
    /\ sending /\ ~sending'
    /\ sent' = sent + 1
    /\ UNCHANGED <<places, life, looking>>

Next ==
    \/ MakeTick
    \/ Start \/ Stop
    \/ \E thread \in {"strategy", "execution"} : Look(thread) \/ FindNothing(thread)
    \/ Handle \/ Drop \/ BeginOrder \/ SendOrder

Spec == Init /\ [][Next]_pipelineVars
===============================================================================
