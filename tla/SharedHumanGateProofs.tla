----------------------- MODULE SharedHumanGateProofs -----------------------
(* For any number of gates, principals and callers: whatever the locking, only  *)
(* humans decide; with the lock held from the read to the write, the ledger     *)
(* implements the atomic one and an opening of a gate is decided at most once.  *)
EXTENDS SharedHumanGate, TLAPS

USE OpeningsAssumption, LockedAssumption
USE DEF vars, callVars, allVars, Principals, Gate, Pending, Absent, Decided

-----------------------------------------------------------------------------
(* What holds with and without the lock. *)

Choices == [status : {"approved", "denied"}, by : Humans]

CallsOK ==
  \A c \in Callers :
    /\ pc[c] # "idle" => target[c] \in Gates
    /\ pc[c] = "deciding" => choice[c] \in Choices

Inv == SharedTypeOK /\ CallsOK /\ OnlyHumansDecide

LEMMA ChoicesOK ==
  ASSUME NEW p \in Humans, NEW approved \in BOOLEAN
  PROVE  Decided(approved, p) \in Choices
  BY DEF Choices

LEMMA InitInv == SharedInit => Inv
  BY DEF SharedInit, Init, Inv, SharedTypeOK, TypeOK, CallsOK, OnlyHumansDecide

(* Open and the write of decide, on a gate. *)
LEMMA OpenKeeps ==
  ASSUME Inv, NEW c \in Callers, RequireWrite(c) PROVE Inv'
<1>1. target[c] \in Gates
  BY DEF RequireWrite, Inv, CallsOK
<1> QED BY <1>1 DEF RequireWrite, Open, Leave, Inv, SharedTypeOK, TypeOK, CallsOK, OnlyHumansDecide

LEMMA WriteKeeps ==
  ASSUME Inv, NEW c \in Callers, DecideWrite(c) PROVE Inv'
<1>1. target[c] \in Gates /\ choice[c] \in Choices
  BY DEF DecideWrite, Inv, CallsOK
<1>2. gates' \in [Gates -> [status : {"absent", "pending", "approved", "denied"},
                           by : Principals \cup {Nobody}]]
  BY <1>1 DEF DecideWrite, Inv, SharedTypeOK, TypeOK, Choices
<1>3. SharedTypeOK'
  BY <1>1, <1>2 DEF DecideWrite, Leave, Inv, SharedTypeOK, TypeOK
<1>4. CallsOK'
  BY DEF DecideWrite, Leave, Inv, SharedTypeOK, CallsOK
<1>5. OnlyHumansDecide'
  BY <1>1 DEF DecideWrite, Inv, SharedTypeOK, TypeOK, OnlyHumansDecide, Choices
<1> QED BY <1>3, <1>4, <1>5 DEF Inv

LEMMA StepInv == Inv /\ [SharedNext]_allVars => Inv'
<1> SUFFICES ASSUME Inv, [SharedNext]_allVars PROVE Inv'
  OBVIOUS
<1>1. ASSUME NEW c \in Callers, NEW g \in Gates, RequireRead(c, g) PROVE Inv'
  BY <1>1 DEF RequireRead, Enter, Inv, SharedTypeOK, TypeOK, CallsOK, OnlyHumansDecide
<1>2. ASSUME NEW c \in Callers, NEW g \in Gates, NEW p \in Principals,
             NEW approved \in BOOLEAN, DecideRead(c, g, p, approved)
      PROVE  Inv'
  <2>1. p \in Humans
    BY <1>2 DEF DecideRead, MayDecide
  <2>2. Decided(approved, p) \in Choices
    BY <2>1, ChoicesOK
  <2> QED BY <1>2, <2>1, <2>2 DEF DecideRead, Enter, Inv, SharedTypeOK, TypeOK, CallsOK, OnlyHumansDecide
<1>3. ASSUME NEW c \in Callers, Die(c) PROVE Inv'
  BY <1>3 DEF Die, Leave, Inv, SharedTypeOK, TypeOK, CallsOK, OnlyHumansDecide
<1>4. CASE UNCHANGED allVars
  BY <1>4 DEF Inv, SharedTypeOK, TypeOK, CallsOK, OnlyHumansDecide
<1> QED BY <1>1, <1>2, <1>3, <1>4, OpenKeeps, WriteKeeps DEF SharedNext

(* Types, with the lock and without.                                           *)
THEOREM Typing == SharedSpec => []SharedTypeOK
<1>1. Inv => SharedTypeOK
  BY DEF Inv
<1> QED BY <1>1, InitInv, StepInv, PTL DEF SharedSpec

(* humangate.py: "Only a human ... can clear it", on one process or many. *)
THEOREM HumansOnly == SharedSpec => []OnlyHumansDecide
<1>1. Inv => OnlyHumansDecide
  BY DEF Inv
<1> QED BY <1>1, InitInv, StepInv, PTL DEF SharedSpec

-----------------------------------------------------------------------------
(* What the lock adds: one call at a time, whose read still stands. *)

Alone == \A c, d \in Callers : pc[c] # "idle" /\ pc[d] # "idle" => c = d

ReadStands ==
  \A c \in Callers :
    /\ pc[c] = "opening" => gates[target[c]].status # "pending"
    /\ pc[c] = "deciding" => gates[target[c]].status = "pending"

GrantsOK ==
  \A g \in Gates :
    grants[g] = IF gates[g].status \in {"approved", "denied"} THEN 1 ELSE 0

LockInv == Inv /\ Alone /\ ReadStands /\ GrantsOK

LEMMA InitLockInv == SharedInit => LockInv
  BY InitInv DEF SharedInit, Init, LockInv, Alone, ReadStands, GrantsOK

LEMMA StepLockInv == Locked /\ LockInv /\ [SharedNext]_allVars => LockInv'
<1> SUFFICES ASSUME Locked, LockInv, [SharedNext]_allVars PROVE LockInv'
  OBVIOUS
<1>0. Inv'
  BY StepInv DEF LockInv
<1>1. ASSUME NEW c \in Callers, NEW g \in Gates, RequireRead(c, g)
      PROVE  Alone' /\ ReadStands' /\ GrantsOK'
  BY <1>1 DEF RequireRead, Enter, LockFree, LockInv, Inv, SharedTypeOK, Alone, ReadStands, GrantsOK
<1>2. ASSUME NEW c \in Callers, NEW g \in Gates, NEW p \in Principals,
             NEW approved \in BOOLEAN, DecideRead(c, g, p, approved)
      PROVE  Alone' /\ ReadStands' /\ GrantsOK'
  BY <1>2 DEF DecideRead, MayDecide, Enter, LockFree, LockInv, Inv, SharedTypeOK, Alone,
              ReadStands, GrantsOK
<1>3. ASSUME NEW c \in Callers, RequireWrite(c) PROVE Alone' /\ ReadStands' /\ GrantsOK'
  <2>1. target[c] \in Gates
    BY <1>3 DEF RequireWrite, LockInv, Inv, CallsOK
  <2> QED BY <1>3, <2>1 DEF RequireWrite, Open, Leave, LockInv, Inv, SharedTypeOK, TypeOK,
                            Alone, ReadStands, GrantsOK
<1>4. ASSUME NEW c \in Callers, DecideWrite(c) PROVE Alone' /\ ReadStands' /\ GrantsOK'
  <2>1. target[c] \in Gates /\ choice[c].status \in {"approved", "denied"}
    BY <1>4 DEF DecideWrite, LockInv, Inv, CallsOK, Choices
  <2>2. Alone' /\ ReadStands'
    BY <1>4 DEF DecideWrite, Leave, LockInv, Inv, SharedTypeOK, Alone, ReadStands
  <2>3. GrantsOK'
    BY <1>4, <2>1 DEF DecideWrite, LockInv, Inv, SharedTypeOK, TypeOK, ReadStands, GrantsOK
  <2> QED BY <2>2, <2>3
<1>5. ASSUME NEW c \in Callers, Die(c) PROVE Alone' /\ ReadStands' /\ GrantsOK'
  BY <1>5 DEF Die, Leave, LockInv, Inv, SharedTypeOK, Alone, ReadStands, GrantsOK
<1>6. CASE UNCHANGED allVars
  BY <1>0, <1>6 DEF LockInv, Alone, ReadStands, GrantsOK
<1> QED BY <1>0, <1>1, <1>2, <1>3, <1>4, <1>5, <1>6 DEF SharedNext, LockInv

(* HumanGateError: "only once", where the lock makes read and write one. *)
THEOREM OnceUnderLock == ASSUME Locked PROVE SharedSpec => []DecidedOnce
<1>1. LockInv => DecidedOnce
  <2> SUFFICES ASSUME LockInv, NEW g \in Gates PROVE grants[g] <= 1
    BY DEF DecidedOnce
  <2>1. grants[g] = 1 \/ grants[g] = 0
    BY DEF LockInv, GrantsOK
  <2> QED BY <2>1
<1>2. LockInv /\ [SharedNext]_allVars => LockInv'
  BY StepLockInv
<1> QED BY <1>1, <1>2, InitLockInv, PTL DEF SharedSpec

(* Under the lock the ledger implements the atomic one: each write is a        *)
(* Require or a Decide of HumanGate, each read a stutter.                      *)
THEOREM LockedRefinement == ASSUME Locked PROVE SharedSpec => ImplementsHumanGate
<1>1. SharedInit => Init
  BY DEF SharedInit
<1>2. LockInv /\ [SharedNext]_allVars => [Next]_vars
  <2> SUFFICES ASSUME LockInv, [SharedNext]_allVars PROVE [Next]_vars
    OBVIOUS
  <2>1. ASSUME NEW c \in Callers, RequireWrite(c) PROVE Next
    <3>1. target[c] \in Gates /\ Require(target[c])
      BY <2>1 DEF RequireWrite, LockInv, Inv, CallsOK, ReadStands, Require
    <3> QED BY <3>1 DEF Next
  <2>2. ASSUME NEW c \in Callers, DecideWrite(c) PROVE Next
    <3>1. PICK p \in Humans, approved \in BOOLEAN : choice[c] = Decided(approved, p)
      BY <2>2 DEF DecideWrite, LockInv, Inv, SharedTypeOK, CallsOK, Choices
    <3>2. target[c] \in Gates /\ Decide(target[c], p, approved)
      BY <2>2, <3>1 DEF DecideWrite, LockInv, Inv, CallsOK, ReadStands, Decide, MayDecide, Grant
    <3> QED BY <3>2 DEF Next
  <2>3. ASSUME NEW c \in Callers, NEW g \in Gates,
               \/ RequireRead(c, g)
               \/ \E p \in Principals, approved \in BOOLEAN : DecideRead(c, g, p, approved)
        PROVE  UNCHANGED vars
    BY <2>3 DEF RequireRead, DecideRead, Enter
  <2>4. ASSUME NEW c \in Callers, Die(c) PROVE UNCHANGED vars
    BY <2>4 DEF Die
  <2> QED BY <2>1, <2>2, <2>3, <2>4 DEF SharedNext
<1>3. LockInv /\ [SharedNext]_allVars => LockInv'
  BY StepLockInv
<1>4. SharedSpec => Init /\ [][Next]_vars
  BY <1>1, <1>2, <1>3, InitLockInv, PTL DEF SharedSpec
<1> QED BY <1>4 DEF ImplementsHumanGate, Spec
=============================================================================
