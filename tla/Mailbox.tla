------------------------------ MODULE Mailbox ------------------------------
(***************************************************************************)
(* What a message processor promises to those who post to it: messages are *)
(* handled once each, in the order they were posted, and only while the    *)
(* processor is open.  system/MessageProcessor.hpp implements it with a    *)
(* thread, a mutex and a condition variable (module MessageProcessor).     *)
(***************************************************************************)
EXTENDS Sequences

CONSTANT Messages

VARIABLES
  pending,     \* posted and not yet taken
  inHand,      \* the message being handled, in a sequence of at most one
  handled,     \* the messages handled, in order
  open         \* whether a new message may be taken

vars == <<pending, inHand, handled, open>>

Init == pending = <<>> /\ inHand = <<>> /\ handled = <<>> /\ open = FALSE

Post(m) ==
  /\ pending' = Append(pending, m)
  /\ UNCHANGED <<inHand, handled, open>>

Take ==
  /\ open /\ inHand = <<>> /\ pending # <<>>
  /\ inHand' = <<Head(pending)>>
  /\ pending' = Tail(pending)
  /\ UNCHANGED <<handled, open>>

Finish ==
  /\ inHand # <<>>
  /\ handled' = handled \o inHand
  /\ inHand' = <<>>
  /\ UNCHANGED <<pending, open>>

\* The processor opens only once the message of its last opening is finished.
Open ==
  /\ inHand = <<>>
  /\ open' = TRUE
  /\ UNCHANGED <<pending, inHand, handled>>

Close == open' = FALSE /\ UNCHANGED <<pending, inHand, handled>>

Next == (\E m \in Messages : Post(m)) \/ Take \/ Finish \/ Open \/ Close

Spec == Init /\ [][Next]_vars
=============================================================================
