------------------------- MODULE ApplianceRefinement -------------------------
(***************************************************************************)
(* The appliance implements RootAuthority, as long as nobody else moves    *)
(* its counter or its root.  A successor is certified when the counter     *)
(* moves for a durable release, not when the flag or the index records it: *)
(* that is the step no crash can undo.                                     *)
(***************************************************************************)
EXTENDS Appliance, Sequences

CONSTANT NoRoot

ASSUME NoRootAssumption == NoRoot \notin Roots

CounterMoved == IsCommitted /\ RecordIndex <= LiveIndex

Chain ==
  [i \in 1..(IF IsCommitted THEN RecordIndex ELSE u + 1) |->
     IF i = 1 THEN Genesis
     ELSE (CHOOSE r \in installed : IndexOfRelease(r) = i - 1)
            .transition.next_root]

Authority == INSTANCE RootAuthority WITH
  Root <- Roots, First <- Genesis, Limit <- H0,
  chain <- Chain,
  certified <- IF CounterMoved THEN record.release.transition.next_root
               ELSE NoRoot,
  index <- LiveIndex,
  released <- {<<IndexOfRelease(r), r.transition.next_root>> : r \in exported}

(* Every behaviour of the appliance, its crashes and recoveries included,  *)
(* is a behaviour of the abstract authority.                               *)
ImplementsAuthority == Authority!AuthoritySpec
=============================================================================
