-------------------------- MODULE MessageProcessor --------------------------
(***************************************************************************)
(* The message queue and worker thread of system/MessageProcessor.hpp.     *)
(*                                                                         *)
(* Three kinds of threads: one owner that starts and stops the processor,  *)
(* one poster per message, and the worker that runs run().  A step is what *)
(* happens between two points where another thread can interfere: the      *)
(* acquisition and release of m_mutex, the reads and writes of the atomic  *)
(* m_running, and the notifications of m_cv.                               *)
(***************************************************************************)
EXTENDS Integers, Sequences

CONSTANTS
  Messages,    \* the messages ever posted, each by a thread of its own
  MaxStarts    \* bound on the number of calls of start()

ASSUME MaxStartsAssumption == MaxStarts \in Nat \ {0}

VARIABLES
  running,     \* m_running
  queue,       \* m_queue
  locked,      \* whether the worker holds m_mutex between two of its steps
  worker,      \* where the worker is in run()
  inHand,      \* the message the worker has popped, in a sequence
  handled,     \* history: messages handled, in order
  poster,      \* poster[m]: what the thread that posts m has done
  owner,       \* where the owner is in stop()
  starts       \* number of calls of start()

vars == <<running, queue, locked, worker, inHand, handled, poster, owner, starts>>

Init ==
  /\ running = FALSE /\ queue = <<>> /\ locked = FALSE
  /\ worker = "none" /\ inHand = <<>> /\ handled = <<>>
  /\ poster = [m \in Messages |-> "idle"]
  /\ owner = "stopped" /\ starts = 0
-----------------------------------------------------------------------------
(* The owner.                                                              *)

\* start(): the flag is set before the thread exists.
Start ==
  /\ owner = "stopped" /\ starts < MaxStarts
  /\ running' = TRUE /\ worker' = "loop"
  /\ owner' = "started" /\ starts' = starts + 1
  /\ UNCHANGED <<queue, locked, inHand, handled, poster>>

\* stop() clears the flag without holding the mutex,
StopClear ==
  /\ owner = "started"
  /\ running' = FALSE
  /\ owner' = "cleared"
  /\ UNCHANGED <<queue, locked, worker, inHand, handled, poster, starts>>

\* Mutant: notifications are dropped.
WokenNever(w) == w

\* A notification wakes the worker only if it already sleeps on m_cv.
Woken(w) == IF w = "asleep" THEN "woken" ELSE w

\* calls notify_all,
StopNotify ==
  /\ owner = "cleared"
  /\ worker' = Woken(worker)
  /\ owner' = "joining"
  /\ UNCHANGED <<running, queue, locked, inHand, handled, poster, starts>>

\* Mutant: stop() detaches the thread instead of joining it.
StopDetach ==
  /\ owner = "joining"
  /\ owner' = "stopped"
  /\ UNCHANGED <<running, queue, locked, worker, inHand, handled, poster, starts>>

\* and joins the thread.
StopJoin ==
  /\ owner = "joining" /\ worker = "exited"
  /\ owner' = "stopped" /\ worker' = "none"
  /\ UNCHANGED <<running, queue, locked, inHand, handled, poster, starts>>
-----------------------------------------------------------------------------
(* Posters.  post() does not look at m_running.                            *)

Push(m) ==
  /\ poster[m] = "idle" /\ ~ locked
  /\ queue' = Append(queue, m)
  /\ poster' = [poster EXCEPT ![m] = "pushed"]
  /\ UNCHANGED <<running, locked, worker, inHand, handled, owner, starts>>

Notify(m) ==
  /\ poster[m] = "pushed"
  /\ worker' = Woken(worker)
  /\ poster' = [poster EXCEPT ![m] = "done"]
  /\ UNCHANGED <<running, queue, locked, inHand, handled, owner, starts>>
-----------------------------------------------------------------------------
(* The worker: run().                                                      *)

Others == <<running, handled, poster, owner, starts>>

\* while (m_running)
LoopTest ==
  /\ worker = "loop"
  /\ worker' = IF running THEN "enter" ELSE "exited"
  /\ UNCHANGED <<queue, locked, inHand>> /\ UNCHANGED Others

\* The mutex is taken at the top of the loop and again after a wakeup.
Lock ==
  /\ worker \in {"enter", "woken"} /\ ~ locked
  /\ locked' = TRUE /\ worker' = "predicate"
  /\ UNCHANGED <<queue, inHand>> /\ UNCHANGED Others

WaitOver == queue # <<>> \/ ~ running

TestPredicate ==
  /\ worker = "predicate"
  /\ worker' = IF WaitOver THEN "drain" ELSE "blocking"
  /\ UNCHANGED <<queue, locked, inHand>> /\ UNCHANGED Others

\* wait() releases the mutex and goes to sleep in one step.
Sleep ==
  /\ worker = "blocking"
  /\ locked' = FALSE /\ worker' = "asleep"
  /\ UNCHANGED <<queue, inHand>> /\ UNCHANGED Others

\* Condition variables may wake a thread for no reason.
SpuriousWakeup ==
  /\ worker = "asleep"
  /\ worker' = "woken"
  /\ UNCHANGED <<queue, locked, inHand>> /\ UNCHANGED Others

\* while (!m_queue.empty() && m_running)
CanTake == queue # <<>> /\ running

\* Mutant: the newest message is taken first.
TakeNewest ==
  /\ worker = "drain" /\ CanTake
  /\ inHand' = <<queue[Len(queue)]>> /\ queue' = SubSeq(queue, 1, Len(queue) - 1)
  /\ locked' = FALSE /\ worker' = "handling"
  /\ UNCHANGED Others

Take ==
  /\ worker = "drain" /\ CanTake
  /\ inHand' = <<Head(queue)>> /\ queue' = Tail(queue)
  /\ locked' = FALSE /\ worker' = "handling"
  /\ UNCHANGED Others

DrainDone ==
  /\ worker = "drain" /\ ~ CanTake
  /\ locked' = FALSE /\ worker' = "loop"
  /\ UNCHANGED <<queue, inHand>> /\ UNCHANGED Others

\* processMessage; an exception it throws is swallowed.
Handle ==
  /\ worker = "handling"
  /\ handled' = handled \o inHand /\ inHand' = <<>>
  /\ worker' = "relock"
  /\ UNCHANGED <<queue, locked, running, poster, owner, starts>>

Relock ==
  /\ worker = "relock" /\ ~ locked
  /\ locked' = TRUE /\ worker' = "drain"
  /\ UNCHANGED <<queue, inHand>> /\ UNCHANGED Others
-----------------------------------------------------------------------------
Worker ==
  \/ LoopTest \/ Lock \/ TestPredicate \/ Sleep
  \/ Take \/ DrainDone \/ Handle \/ Relock

Poster(m) == Push(m) \/ Notify(m)

Stopping == StopNotify \/ StopJoin

Next ==
  \/ Start \/ StopClear \/ Stopping
  \/ \E m \in Messages : Poster(m)
  \/ Worker \/ SpuriousWakeup

Spec == Init /\ [][Next]_vars

\* Threads that can run do run: the worker, a poster that has pushed, and a
\* stop() that has begun.  Nothing makes anyone post, start or stop, and no
\* spurious wakeup may be counted on.
FairSpec ==
  /\ Spec
  /\ WF_vars(Worker)
  /\ \A m \in Messages : WF_vars(Notify(m))
  /\ WF_vars(Stopping)
-----------------------------------------------------------------------------
(* Properties.                                                             *)

TypeOK ==
  /\ running \in BOOLEAN /\ locked \in BOOLEAN
  /\ queue \in Seq(Messages) /\ inHand \in Seq(Messages) /\ handled \in Seq(Messages)
  /\ worker \in {"none", "loop", "enter", "woken", "predicate", "blocking",
                 "asleep", "drain", "handling", "relock", "exited"}
  /\ poster \in [Messages -> {"idle", "pushed", "done"}]
  /\ owner \in {"stopped", "started", "cleared", "joining"}
  /\ starts \in 0 .. MaxStarts

\* The worker sleeps through nothing it was notified of: while the processor
\* runs, it is asleep with a message in the queue only while a poster has
\* still to notify it.
NoSleepOnMail ==
  running /\ worker \in {"blocking", "asleep"} /\ queue # <<>>
    => \E m \in Messages : poster[m] = "pushed"

\* Once stop() has returned nothing is handled until the next start(): the
\* objects a handler uses may be destroyed then.
QuietAfterStop == owner = "stopped" => worker = "none" /\ inHand = <<>>

\* Seen from outside the processor is a mailbox: each message is handled at
\* most once, in posting order, also across a stop and a new start.
Abstract == INSTANCE Mailbox WITH pending <- queue, open <- running
ImplementsMailbox == Abstract!Spec

\* Every message that was posted, even before the start, is eventually handled
\* unless the processor is stopped.
PostedIsHandled ==
  \A m \in Messages :
    running /\ poster[m] # "idle"
      ~> (\E i \in DOMAIN handled : handled[i] = m) \/ ~ running

\* A call of stop() returns (the test "start and stop" and the destructor
\* rely on it).
StopReturns == owner = "cleared" ~> owner = "stopped"
=============================================================================
