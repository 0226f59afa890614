-------------------------- MODULE OneShotRecovery --------------------------
(***************************************************************************)
(* What the automatic recovery of a required LuaPack join promises, with   *)
(* no handoffs, deadlines, callbacks or engine: every account owns at most *)
(* one chance, a chance armed by one connection epoch is spent by another, *)
(* and no slot runs a native recovery epoch that did not spend the chance  *)
(* of its account (docs/luapack.md, "Safety model" and "Configuration").    *)
(***************************************************************************)
EXTENDS Naturals

CONSTANTS Accounts, Slots, Epochs

VARIABLES
  phase,      \* per account: "None", "Armed" or "Consumed"
  failed,     \* per account: the epoch that armed the chance, or 0
  recovery,   \* per account: the epoch that spent it, or 0
  recovering  \* per slot: the native recovery epoch it runs, or 0

vars == <<phase, failed, recovery, recovering>>

Init ==
  /\ phase = [a \in Accounts |-> "None"]
  /\ failed = [a \in Accounts |-> 0]
  /\ recovery = [a \in Accounts |-> 0]
  /\ recovering = [s \in Slots |-> 0]

(* An epoch that failed gives its account a chance, unless one is spent.    *)
Arm(a, c) ==
  /\ phase[a] # "Consumed"
  /\ phase' = [phase EXCEPT ![a] = "Armed"]
  /\ failed' = [failed EXCEPT ![a] = c]
  /\ UNCHANGED <<recovery, recovering>>

(* Another epoch spends the chance and runs native in slot s.               *)
Claim(a, s, c) ==
  /\ phase[a] = "Armed" /\ failed[a] # c
  /\ phase' = [phase EXCEPT ![a] = "Consumed"]
  /\ recovery' = [recovery EXCEPT ![a] = c]
  /\ recovering' = [recovering EXCEPT ![s] = c]
  /\ UNCHANGED failed

(* Chances lapse or are given back after a proven success, and recovery     *)
(* epochs end.                                                              *)
Settle ==
  \E lapsed \in SUBSET Accounts, ended \in SUBSET Slots :
    /\ phase' = [a \in Accounts |-> IF a \in lapsed THEN "None" ELSE phase[a]]
    /\ failed' = [a \in Accounts |-> IF a \in lapsed THEN 0 ELSE failed[a]]
    /\ recovery' = [a \in Accounts |-> IF a \in lapsed THEN 0 ELSE recovery[a]]
    /\ recovering' = [s \in Slots |-> IF s \in ended THEN 0 ELSE recovering[s]]

Next ==
  \/ \E a \in Accounts, c \in Epochs \ {0} :
       Arm(a, c) \/ \E s \in Slots : Claim(a, s, c)
  \/ Settle

Spec == Init /\ [][Next]_vars
=============================================================================
