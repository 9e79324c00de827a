---------------------------- MODULE RootAuthority ----------------------------
(***************************************************************************)
(* What the appliance promises, with nothing about how: one chain of roots *)
(* and a monotonic index.  A successor of the tip becomes certified        *)
(* together with the index moving; from then on it is the only successor,  *)
(* it may be handed out any number of times, and it is installed.  No      *)
(* step goes back, whatever fails and restarts underneath.                 *)
(***************************************************************************)
EXTENDS Naturals, Sequences

CONSTANTS Root, First, Limit, NoRoot

VARIABLES
  chain,      \* the installed roots, First included
  certified,  \* the successor certified and not yet installed, or NoRoot
  index,      \* the monotonic index
  released    \* what was handed out: pairs of an index and its root

authorityVars == <<chain, certified, index, released>>

AuthorityInit ==
  /\ chain = <<First>> /\ certified = NoRoot /\ index = 0 /\ released = {}

(* The tip is the parent at this index and gets its one successor.         *)
Certify ==
  /\ certified = NoRoot
  /\ index = Len(chain) - 1 /\ index < Limit
  /\ certified' \in Root
  /\ index' = index + 1
  /\ UNCHANGED <<chain, released>>

HandOut ==
  /\ certified # NoRoot
  /\ released' = released \cup {<<index, certified>>}
  /\ UNCHANGED <<chain, certified, index>>

Install ==
  /\ certified # NoRoot
  /\ chain' = Append(chain, certified)
  /\ certified' = NoRoot
  /\ UNCHANGED <<index, released>>

AuthorityNext == Certify \/ HandOut \/ Install

AuthoritySpec == AuthorityInit /\ [][AuthorityNext]_authorityVars
=============================================================================
