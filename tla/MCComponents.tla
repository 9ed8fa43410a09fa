---------------------------- MODULE MCComponents ----------------------------
(***************************************************************************)
(* Three components that share nothing; a behaviour uses one of them.      *)
(* Tree: a genesis with a main branch of three, a fork of two from the     *)
(* genesis, a fork of two from the first block, and a block whose parent   *)
(* is the zero id.  Pool: seven transactions over four coins: two that     *)
(* spend the same coin, one that bridges it with a second coin, three with *)
(* coins of their own, and one without inputs; up to six could be pending  *)
(* at once.  Processor: three posters, and a second start.                 *)
(***************************************************************************)
EXTENDS MessageProcessor, TxPowTree, Mempool, TLC

CONSTANTS g, a1, a2, a3, b1, b2, c2, c3, z,
          k1, k2, k3, k4, ta, tb, tc, td, te, tf, tg

MCParent ==
  g :> NoBlock @@ a1 :> g @@ a2 :> a1 @@ a3 :> a2
  @@ b1 :> g @@ b2 :> b1 @@ c2 :> a1 @@ c3 :> c2 @@ z :> NoBlock

MCInputs == ta :> {k1} @@ tb :> {k1} @@ tc :> {k1, k2} @@ td :> {k2}
            @@ te :> {k3} @@ tf :> {k4} @@ tg :> {}

\* A component that is not used is as it was made.  The processor never is
\* again once it has been started or posted to.
ProcessorUnused == starts = 0 /\ \A m \in Messages : poster[m] = "idle"
TreeUnused == TreeInit
PoolUnused == PoolInit

ComponentsInit == Init /\ TreeInit /\ PoolInit
ComponentsNext ==
  \/ TreeUnused /\ PoolUnused /\ Next /\ UNCHANGED <<treeVars, pool>>
  \/ ProcessorUnused /\ PoolUnused /\ TreeNext /\ UNCHANGED <<vars, pool>>
  \/ ProcessorUnused /\ TreeUnused /\ PoolNext /\ UNCHANGED <<vars, treeVars>>

\* The fairness of the processor.
ComponentsSpec ==
  /\ ComponentsInit /\ [][ComponentsNext]_<<vars, treeVars, pool>>
  /\ WF_vars(Worker)
  /\ \A m \in Messages : WF_vars(Notify(m))
  /\ WF_vars(Stopping)
=============================================================================
