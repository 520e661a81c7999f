----------------------------- MODULE DepthFeed ------------------------------
(***************************************************************************)
(* What the market depth feed promises its readers, without bytes,         *)
(* buffers or threads: numbered updates are published; a reader hears some *)
(* of them, may find what it heard last in its inbox any number of times,  *)
(* and is shown its inbox in order.  It never sees anything else, except   *)
(* Blank before it has heard anything.                                     *)
(***************************************************************************)
EXTENDS Integers, Sequences

CONSTANTS
    Reader,
    Update,         \* what a reader can be told
    Blank,          \* what it may find before it was told anything
    SeqModulus,     \* the numbers wrap here
    InboxCap

VARIABLES published, heard, inbox, shown

vars == <<published, heard, inbox, shown>>

Init ==
    /\ published = <<>>
    /\ heard = [r \in Reader |-> Blank]
    /\ inbox = [r \in Reader |-> <<>>]
    /\ shown = [r \in Reader |-> <<>>]

Publish ==
    /\ Len(published') = Len(published) + 1
    /\ LET u == published'[Len(published')]
       IN  /\ u \in Update
           /\ u.seq = Len(published) % SeqModulus
           /\ published' = Append(published, u)
    /\ UNCHANGED <<heard, inbox, shown>>

Hear(r) ==
    /\ \E k \in DOMAIN published : heard' = [heard EXCEPT ![r] = published[k]]
    /\ UNCHANGED <<published, inbox, shown>>

Keep(r) ==
    /\ Len(inbox[r]) < InboxCap
    /\ inbox' = [inbox EXCEPT ![r] = Append(@, heard[r])]
    /\ UNCHANGED <<published, heard, shown>>

Show(r) ==
    /\ inbox[r] # <<>>
    /\ shown' = [shown EXCEPT ![r] = <<Head(inbox[r])>>]
    /\ inbox' = [inbox EXCEPT ![r] = Tail(@)]
    /\ UNCHANGED <<published, heard>>

Next == Publish \/ \E r \in Reader : Hear(r) \/ Keep(r) \/ Show(r)

Spec == Init /\ [][Next]_vars
=============================================================================
