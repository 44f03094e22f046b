----------------------------- MODULE OwnerLock ------------------------------
(***************************************************************************)
(* The lock the engine's busy flag, cancel handle and generation counter   *)
(* implement together.  It differs from a mutex in that it can be taken    *)
(* over: a newer owner does not wait for the older one, and the older      *)
(* one's release no longer has any effect.  The current owner, and nobody  *)
(* else, can be interrupted, at most once, until it releases.              *)
(***************************************************************************)
EXTENDS Naturals

VARIABLES
  turnstile,    \* the last owner number handed out
  holder,       \* who holds the lock, 0 for nobody
  interrupt,    \* whom an interrupt would reach, 0 for nobody
  sealed        \* no more owners

lockVars == <<turnstile, holder, interrupt, sealed>>

LockInit ==
  turnstile = 0 /\ holder = 0 /\ interrupt = 0 /\ sealed = FALSE

Acquire ==
  /\ ~sealed
  /\ turnstile' = turnstile + 1
  /\ holder' = turnstile' /\ interrupt' = turnstile'
  /\ UNCHANGED sealed

Release ==
  /\ holder # 0
  /\ holder' = 0 /\ interrupt' = 0
  /\ UNCHANGED <<turnstile, sealed>>

Interrupt ==
  /\ interrupt # 0
  /\ interrupt' = 0
  /\ UNCHANGED <<turnstile, holder, sealed>>

\* Sealing interrupts whoever holds the lock and was not interrupted yet.
Seal ==
  /\ ~sealed /\ sealed' = TRUE
  /\ interrupt' = 0
  /\ UNCHANGED <<turnstile, holder>>

LockNext == Acquire \/ Release \/ Interrupt \/ Seal

LockSpec == LockInit /\ [][LockNext]_lockVars
=============================================================================
