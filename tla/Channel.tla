------------------------------- MODULE Channel --------------------------------
(***************************************************************************)
(* What a receiver of frames may rely on: a first-in first-out channel     *)
(* that may lose frames but delivers none twice and none out of order, and *)
(* that hands over something that was never sent only after it has lost a  *)
(* frame or was closed.                                                    *)
(***************************************************************************)
EXTENDS Integers, Sequences

CONSTANT Frame

Unsent == -1

VARIABLES
  stamp,      \* when each frame was sent, in the order of sending
  got,        \* frames delivered, in order
  lost,       \* frames that will not be delivered
  spurious,   \* something else was delivered
  closed

chanVars == <<stamp, got, lost, spurious, closed>>

Delivered == {got[i] : i \in DOMAIN got}
Flying == {f \in Frame : stamp[f] # Unsent} \ (Delivered \cup lost)

(* S holds frames on their way together with all that were sent before.      *)
Oldest(S) ==
  S \subseteq Flying /\ \A f \in S : \A g \in Flying : stamp[g] < stamp[f] => g \in S

ChanInit ==
  /\ stamp = [f \in Frame |-> Unsent]
  /\ got = << >>
  /\ lost = {}
  /\ spurious = FALSE
  /\ closed = FALSE

ChanSend(f) ==
  /\ stamp[f] = Unsent
  /\ stamp'[f] \in Nat
  /\ \A g \in Frame : stamp[g] < stamp'[f]
  /\ stamp' = [stamp EXCEPT ![f] = stamp'[f]]
  /\ UNCHANGED <<got, lost, spurious, closed>>

ChanDeliver(f) ==
  /\ Oldest({f})
  /\ got' = Append(got, f)
  /\ UNCHANGED <<stamp, lost, spurious, closed>>

ChanLose ==
  /\ \E S \in SUBSET Flying : Oldest(S) /\ lost' = lost \cup S
  /\ UNCHANGED <<stamp, got, spurious, closed>>

ChanSpurious ==
  /\ \E S \in SUBSET Flying : Oldest(S) /\ lost' = lost \cup S
  /\ lost' # {} \/ closed
  /\ spurious' = TRUE
  /\ UNCHANGED <<stamp, got, closed>>

ChanClose ==
  /\ closed' = TRUE
  /\ UNCHANGED <<stamp, got, lost, spurious>>

ChanNext ==
  \/ \E f \in Frame : ChanSend(f) \/ ChanDeliver(f)
  \/ ChanLose \/ ChanSpurious \/ ChanClose

ChanSpec == ChanInit /\ [][ChanNext]_chanVars
===============================================================================
