-------------------------------- MODULE Roles ---------------------------------
(***************************************************************************)
(* What the game server promises about players' roles, without the queue,  *)
(* the gate and the state of its connection to mongod: a role is given or  *)
(* loaded once in the life of the process and then stays as it is; what is *)
(* kept for the next life is a role that was given, as tighten leaves it.  *)
(***************************************************************************)
CONSTANTS Player, Nick, NoRole, Tighten

VARIABLES
  role,          \* the role each player has in this life of the process
  kept           \* the role each player has in mongod

roleVars == <<role, kept>>

RolesInit ==
  /\ role = [p \in Player |-> NoRole]
  /\ kept = [p \in Player |-> NoRole]

(* A player without a role is given one; it may get lost on its way to       *)
(* mongod.                                                                   *)
Give(p, n) ==
  /\ role[p] = NoRole
  /\ role' = [role EXCEPT ![p] = n]
  /\ kept' \in {kept, [kept EXCEPT ![p] = Tighten[n]]}

(* A player of an earlier life comes back.                                   *)
Load(p) ==
  /\ role[p] = NoRole
  /\ kept[p] # NoRole
  /\ role' = [role EXCEPT ![p] = kept[p]]
  /\ UNCHANGED kept

(* The process ends.                                                         *)
Forget ==
  /\ role' = [p \in Player |-> NoRole]
  /\ UNCHANGED kept

RolesNext ==
  \/ \E p \in Player, n \in Nick : Give(p, n)
  \/ \E p \in Player : Load(p)
  \/ Forget

RolesSpec == RolesInit /\ [][RolesNext]_roleVars
===============================================================================
