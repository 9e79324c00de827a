------------------------------- MODULE Tropic -------------------------------
(***************************************************************************)
(* The TROPIC01 secure element as the code sees it through the Tropic      *)
(* trait (tropic.rs, ChipTropic in the firmware): a monotonic down-counter *)
(* and one MACANDD slot whose state every call evolves.                    *)
(*                                                                         *)
(* The chip outlives any power loss of the RP2350.  A call over the L3     *)
(* session can fail after the chip executed it: the reply is lost, so the  *)
(* caller sees an error while the counter or the slot has moved.           *)
(***************************************************************************)
EXTENDS Naturals

CONSTANTS
  H0,           \* the enrolled counter value
  MaxWitness    \* bound on MACANDD calls, for a finite state space

ASSUME H0Assumption == H0 \in Nat
ASSUME MaxWitnessAssumption == MaxWitness \in Nat

VARIABLES
  h,            \* the down-counter
  slot_state    \* how often the MACANDD slot was used

chipVars == <<h, slot_state>>

ChipTypeOK == h \in 0..H0 /\ slot_state \in 0..MaxWitness

(* Freshly enrolled.                                                       *)
ChipInit == h = H0 /\ slot_state = 0

(* counter_update: H <- H - 1, impossible at zero.                         *)
CounterUpdate == h > 0 /\ h' = h - 1

(* counter_update as an error to its caller: the counter is exhausted, the *)
(* call did not reach the chip, or the chip moved and the reply was lost.  *)
CounterUpdateFails == h' = h \/ CounterUpdate

(* mac_and_destroy: the output depends on the slot's state and the input,  *)
(* and the state evolves.                                                  *)
MacAndDestroyOutput(x) == <<"w", slot_state, x>>
MacAndDestroy == slot_state < MaxWitness /\ slot_state' = slot_state + 1
MacAndDestroyFails == slot_state' = slot_state \/ MacAndDestroy

(* The live anchor index, H0 - H.  H never exceeds H0 here (ChipTypeOK),   *)
(* so the checked subtraction of live_index does not fail.                 *)
LiveIndex == H0 - h
=============================================================================
