------------------------- MODULE LspRegistryProofs -------------------------
(***************************************************************************)
(* What LspRegistry.tla keeps true for any callers, servers, roots and     *)
(* bounds.  Every result is a consequence of one inductive invariant,      *)
(* LspInv, whose parts say which place of a call goes with which session,  *)
(* client and root.                                                        *)
(***************************************************************************)
EXTENDS LspRegistry, TLAPS

Holding == {"init", "abandon", "install", "kill"}

\* What a call's place says of what it holds.
CallerInv ==
  \A a \in Caller :
    /\ want[a] = None <=> pc[a] = "idle"
    /\ hand[a] = None <=> pc[a] \notin Holding
    /\ gate[a] # None => pc[a] = "wait"
    /\ victims[a] # {} => pc[a] = "kill"

\* The sessions are those of the calls that spawn, and who is waited for is still spawning.
SessionInv ==
  /\ \A k \in Key :
       sessions[k] # None => pc[sessions[k]] \in Spawning /\ want[sessions[k]] = k
  /\ \A a \in Caller : pc[a] \in Spawning => sessions[want[a]] = a
  /\ \A a \in Caller : gate[a] # None => pc[gate[a]] \in {"budget", "start", "init", "abandon"}

\* A client belongs to the key it was started for.
ClientInv ==
  /\ \A c \in Client : keyOf[c] = None <=> process[c] = "none"
  /\ \A c \in Client : watcher[c] # "none" => process[c] # "none"
  /\ \A k \in Key : live[k] # None => keyOf[live[k]] = k
  /\ \A a \in Caller : hand[a] # None => keyOf[hand[a]] = want[a]

\* Who spawns finds no live client for its key until it installs its own.
SpawnInv == \A a \in Caller : pc[a] \in Spawning => ~Alive(live[want[a]])

\* A client that is being given up has been killed or torn down; the list of Shutdown is made
\* once.
KilledInv ==
  /\ \A a \in Caller : pc[a] = "abandon" => ~Up(hand[a])
  /\ ~closed => closing = {}

\* A server that is up is in the pool, with a call that will install it, or on a list of
\* clients to kill.
Held(c) ==
  \/ \E k \in Key : live[k] = c
  \/ \E a \in Caller : pc[a] \in {"init", "install"} /\ hand[a] = c
  \/ \E a \in Caller : c \in victims[a]
  \/ c \in evicted \/ c \in closing
HeldInv == \A c \in Client : Up(c) => Held(c)

PastBudget == {"start", "init", "abandon", "install"}

\* A crash still to be counted is one of the key's last client, and whoever has passed the
\* look at the budget leaves room for it.
BudgetInv ==
  /\ \A k \in Key : restarts[k] <= MaxRestarts + 2
  /\ \A k \in Key : live[k] # None => restarts[k] <= MaxRestarts + 1
  /\ \A a \in Caller : pc[a] \in PastBudget =>
       /\ restarts[want[a]] <= MaxRestarts + 1
       /\ live[want[a]] # None => restarts[want[a]] <= MaxRestarts

\* A pool never keeps a client whose root it does not list.
PoolInv ==
  /\ Len(extraRoots) <= MaxExtraRoots
  /\ \A k \in Key : live[k] # None => RootOf(k) \in Roots

LspInv == TypeOK /\ CallerInv /\ SessionInv /\ ClientInv /\ SpawnInv /\ KilledInv
            /\ HeldInv /\ BudgetInv /\ PoolInv

USE NameAssumption, WantedAssumption, ClientAssumption, BoundAssumption, RootAssumption

LEMMA InDoomed ==
  ASSUME NEW c
  PROVE  c \in Doomed <=>
           (\E a \in Caller : c \in victims[a]) \/ c \in evicted \/ c \in closing
<1> QED
  BY DEF Doomed

LEMMA RangeOfAppend ==
  ASSUME NEW S, NEW s \in Seq(S), NEW e \in S
  PROVE  /\ Append(s, e) \in Seq(S) /\ Len(Append(s, e)) = Len(s) + 1
         /\ Range(s) \subseteq Range(Append(s, e)) /\ e \in Range(Append(s, e))
<1>1. /\ Append(s, e) \in Seq(S) /\ Len(Append(s, e)) = Len(s) + 1
      /\ \A i \in 1..Len(s) : Append(s, e)[i] = s[i]
      /\ Append(s, e)[Len(s) + 1] = e
  OBVIOUS
<1> QED
  BY <1>1 DEF Range

LEMMA RangeOfTail ==
  ASSUME NEW S, NEW s \in Seq(S), Len(s) > 0
  PROVE  Range(s) \subseteq {s[1]} \cup Range(Tail(s))
<1> SUFFICES ASSUME NEW i \in 1..Len(s), i # 1
             PROVE  s[i] \in Range(Tail(s))
  BY DEF Range
<1>1. i - 1 \in 1..Len(Tail(s)) /\ Tail(s)[i - 1] = s[i]
  OBVIOUS
<1> QED
  BY <1>1 DEF Range

LEMMA TypeStep == TypeOK /\ CallerInv /\ ClientInv /\ Next => TypeOK'
<1> SUFFICES ASSUME TypeOK, CallerInv, ClientInv, Next
             PROVE  TypeOK'
  OBVIOUS
<1>1. ASSUME NEW a \in Caller, Call(a)
     PROVE TypeOK'
  BY <1>1 DEF Call, TypeOK, Spawning, pool, procs
<1>2. ASSUME NEW a \in Caller, GiveUp(a)
     PROVE TypeOK'
  BY <1>2 DEF GiveUp, Return, TypeOK, Spawning, pool, procs
<1>3. ASSUME NEW a \in Caller, TurnBack(a)
     PROVE TypeOK'
  BY <1>3 DEF TurnBack, Return, TypeOK, Spawning, pool, procs
<1>4. ASSUME NEW a \in Caller, JoinSession(a)
     PROVE TypeOK'
  BY <1>4 DEF JoinSession, TypeOK, CallerInv, Spawning, pool, procs
<1>5. ASSUME NEW a \in Caller, OpenSession(a)
     PROVE TypeOK'
  BY <1>5 DEF OpenSession, TypeOK, Spawning, procs
<1>6. ASSUME NEW a \in Caller, Wake(a)
     PROVE TypeOK'
  BY <1>6 DEF Wake, TypeOK, Spawning, pool, procs
<1>7. ASSUME NEW a \in Caller, WithinBudget(a)
     PROVE TypeOK'
  BY <1>7 DEF WithinBudget, TypeOK, Spawning, pool, procs
<1>8. ASSUME NEW a \in Caller, OverBudget(a)
     PROVE TypeOK'
  BY <1>8 DEF OverBudget, OpenGate, TypeOK, Spawning, pool, procs
<1>9. ASSUME NEW a \in Caller, StartClient(a)
     PROVE TypeOK'
  BY <1>9 DEF StartClient, TypeOK, Spawning, pool
<1>10. ASSUME NEW a \in Caller, StartFails(a)
     PROVE TypeOK'
  BY <1>10 DEF StartFails, OpenGate, TypeOK, Spawning, pool, procs
<1>11. ASSUME NEW a \in Caller, Initialized(a)
     PROVE TypeOK'
  BY <1>11 DEF Initialized, OpenGate, TypeOK, Spawning, pool, procs
<1>12. ASSUME NEW a \in Caller, InitializeFails(a)
     PROVE TypeOK'
  BY <1>12 DEF InitializeFails, ShutDown, Slain, TypeOK, Spawning, pool
<1>13. ASSUME NEW a \in Caller, Abandoned(a)
     PROVE TypeOK'
  BY <1>13 DEF Abandoned, OpenGate, TypeOK, Spawning, pool, procs
<1>14. ASSUME NEW a \in Caller, SpawnFailed(a)
     PROVE TypeOK'
  BY <1>14 DEF SpawnFailed, Return, TypeOK, Spawning, procs
<1>15. ASSUME NEW a \in Caller, Install(a)
     PROVE TypeOK'
  <2> DEFINE k == want[a]
             added == RegisterRoot(RootOf(k))
             out == EvictedKeys(added, extraRoots)
             installed == [live EXCEPT ![k] = hand[a]]
  <2>1. k \in Key /\ RootOf(k) \in Root /\ hand[a] \in Client
    BY <1>15 DEF Install, TypeOK, CallerInv, Holding, Key, RootOf
  <2>2. added \in Seq(Root)
    BY <2>1, RangeOfAppend DEF RegisterRoot, TypeOK
  <2>3. extraRoots' \in Seq(Root)
    <3>1. added # extraRoots => added # <<>>
      <4>1. added # extraRoots => Len(added) = Len(extraRoots) + 1 /\ Len(extraRoots) \in Nat
        BY <2>1, RangeOfAppend DEF RegisterRoot, TypeOK
      <4> QED
        BY <4>1
    <3>2. added # <<>> => Tail(added) \in Seq(Root)
      BY <2>2
    <3> QED
      BY <1>15, <2>2, <3>1, <3>2 DEF Install
  <2>4. installed \in [Key -> Client \cup {None}]
    BY <2>1 DEF TypeOK
  <2>5. out \subseteq Key
    BY DEF EvictedKeys
  <2> HIDE DEF out, installed, added
  <2>6. {installed[j] : j \in out} \ {None} \subseteq Client
    BY <2>4, <2>5
  <2>7. live' \in [Key -> Client \cup {None}] /\ restarts' \in [Key -> Nat]
    BY <1>15, <2>4, <2>5 DEF Install, TypeOK, out, installed, added
  <2>8. victims' \in [Caller -> SUBSET Client]
    BY <1>15, <2>6 DEF Install, TypeOK, out, installed, added
  <2> QED
    BY <1>15, <2>3, <2>7, <2>8 DEF Install, TypeOK, Spawning, procs
<1>16. ASSUME NEW a \in Caller, KillVictim(a)
     PROVE TypeOK'
  BY <1>16 DEF KillVictim, Slain, TypeOK, Spawning, pool
<1>17. ASSUME NEW a \in Caller, Watch(a)
     PROVE TypeOK'
  BY <1>17 DEF Watch, Return, TypeOK, Spawning, pool, procs
<1>18. ASSUME NEW c \in Client, WatcherSeesDeath(c)
     PROVE TypeOK'
  <2>1. keyOf[c] \in Key
    BY <1>18 DEF WatcherSeesDeath, TypeOK, ClientInv
  <2>2. live' \in [Key -> Client \cup {None}] /\ restarts' \in [Key -> Nat]
    <3>1. CASE live' = live /\ restarts' = restarts
      BY <3>1 DEF TypeOK
    <3>2. CASE /\ live' = [live EXCEPT ![keyOf[c]] = None]
               /\ restarts' = [restarts EXCEPT ![keyOf[c]] = restarts[keyOf[c]] + 1]
      BY <2>1, <3>2 DEF TypeOK
    <3>3. \/ live' = live /\ restarts' = restarts
          \/ /\ live' = [live EXCEPT ![keyOf[c]] = None]
             /\ restarts' = [restarts EXCEPT ![keyOf[c]] = restarts[keyOf[c]] + 1]
      BY <1>18 DEF WatcherSeesDeath
    <3> QED
      BY <3>1, <3>2, <3>3
  <2> QED
    BY <1>18, <2>2 DEF WatcherSeesDeath, TypeOK, procs, caller
<1>19. ASSUME NEW c \in Client, WatcherLeaves(c)
     PROVE TypeOK'
  BY <1>19 DEF WatcherLeaves, TypeOK, Spawning, pool, procs, caller
<1>20. ASSUME NEW c \in Client, Crash(c)
     PROVE TypeOK'
  BY <1>20 DEF Crash, TypeOK, Spawning, pool, caller
<1>21. ASSUME NEW c \in Client, TearDown(c)
     PROVE TypeOK'
  BY <1>21 DEF TearDown, TypeOK, Spawning, pool, caller
<1>22. ASSUME NEW c \in Client, KillEvicted(c)
     PROVE TypeOK'
  BY <1>22 DEF KillEvicted, Slain, TypeOK, Spawning, pool, caller
<1>23. ASSUME NEW c \in Client, ShutdownClient(c)
     PROVE TypeOK'
  BY <1>23 DEF ShutdownClient, ShutDown, Slain, TypeOK, Spawning, pool, caller
<1>24. ASSUME NEW k \in Key, KillAndEvict(k)
     PROVE TypeOK'
  BY <1>24 DEF KillAndEvict, TypeOK, Spawning, procs, caller
<1>25. ASSUME Shutdown
     PROVE TypeOK'
  <2>1. Range(live) \ {None} \subseteq Client
    BY DEF TypeOK, Range
  <2> QED
    BY <1>25, <2>1 DEF Shutdown, TypeOK, procs, caller
<1> QED
  BY <1>1, <1>2, <1>3, <1>4, <1>5, <1>6, <1>7, <1>8, <1>9, <1>10, <1>11, <1>12, <1>13,
     <1>14, <1>15, <1>16, <1>17, <1>18, <1>19, <1>20, <1>21, <1>22, <1>23, <1>24, <1>25
     DEF Next, Step, ClientStep

LEMMA CallerStep == TypeOK /\ CallerInv /\ Next => CallerInv'
<1> SUFFICES ASSUME TypeOK, CallerInv, Next
             PROVE  CallerInv'
  OBVIOUS
<1>1. ASSUME NEW a \in Caller, Call(a)
     PROVE CallerInv'
  BY <1>1 DEF Call, TypeOK, CallerInv, Holding, Spawning, pool, procs
<1>2. ASSUME NEW a \in Caller, GiveUp(a)
     PROVE CallerInv'
  BY <1>2 DEF GiveUp, Return, TypeOK, CallerInv, Holding, Spawning, pool, procs
<1>3. ASSUME NEW a \in Caller, TurnBack(a)
     PROVE CallerInv'
  BY <1>3 DEF TurnBack, Return, TypeOK, CallerInv, Holding, Spawning, pool, procs
<1>4. ASSUME NEW a \in Caller, JoinSession(a)
     PROVE CallerInv'
  BY <1>4 DEF JoinSession, TypeOK, CallerInv, Holding, Spawning, pool, procs
<1>5. ASSUME NEW a \in Caller, OpenSession(a)
     PROVE CallerInv'
  BY <1>5 DEF OpenSession, TypeOK, CallerInv, Holding, Spawning, procs
<1>6. ASSUME NEW a \in Caller, Wake(a)
     PROVE CallerInv'
  BY <1>6 DEF Wake, TypeOK, CallerInv, Holding, Spawning, pool, procs
<1>7. ASSUME NEW a \in Caller, WithinBudget(a)
     PROVE CallerInv'
  BY <1>7 DEF WithinBudget, TypeOK, CallerInv, Holding, Spawning, pool, procs
<1>8. ASSUME NEW a \in Caller, OverBudget(a)
     PROVE CallerInv'
  BY <1>8 DEF OverBudget, OpenGate, TypeOK, CallerInv, Holding, Spawning, pool, procs
<1>9. ASSUME NEW a \in Caller, StartClient(a)
     PROVE CallerInv'
  BY <1>9 DEF StartClient, TypeOK, CallerInv, Holding, Spawning, pool
<1>10. ASSUME NEW a \in Caller, StartFails(a)
     PROVE CallerInv'
  BY <1>10 DEF StartFails, OpenGate, TypeOK, CallerInv, Holding, Spawning, pool, procs
<1>11. ASSUME NEW a \in Caller, Initialized(a)
     PROVE CallerInv'
  BY <1>11 DEF Initialized, OpenGate, TypeOK, CallerInv, Holding, Spawning, pool, procs
<1>12. ASSUME NEW a \in Caller, InitializeFails(a)
     PROVE CallerInv'
  BY <1>12 DEF InitializeFails, ShutDown, Slain, TypeOK, CallerInv, Holding, Spawning, pool
<1>13. ASSUME NEW a \in Caller, Abandoned(a)
     PROVE CallerInv'
  BY <1>13 DEF Abandoned, OpenGate, TypeOK, CallerInv, Holding, Spawning, pool, procs
<1>14. ASSUME NEW a \in Caller, SpawnFailed(a)
     PROVE CallerInv'
  BY <1>14 DEF SpawnFailed, Return, TypeOK, CallerInv, Holding, Spawning, procs
<1>15. ASSUME NEW a \in Caller, Install(a)
     PROVE CallerInv'
  BY <1>15 DEF Install, TypeOK, CallerInv, Holding, Spawning, procs
<1>16. ASSUME NEW a \in Caller, KillVictim(a)
     PROVE CallerInv'
  BY <1>16 DEF KillVictim, Slain, TypeOK, CallerInv, Holding, Spawning, pool
<1>17. ASSUME NEW a \in Caller, Watch(a)
     PROVE CallerInv'
  BY <1>17 DEF Watch, Return, TypeOK, CallerInv, Holding, Spawning, pool, procs
<1>18. ASSUME NEW c \in Client,
            \/ WatcherSeesDeath(c) \/ WatcherLeaves(c) \/ Crash(c) \/ TearDown(c)
            \/ KillEvicted(c) \/ ShutdownClient(c)
     PROVE CallerInv'
  BY <1>18 DEF WatcherSeesDeath, WatcherLeaves, Crash, TearDown, KillEvicted, Slain,
       ShutdownClient, ShutDown, CallerInv, pool, procs, caller
<1>19. ASSUME NEW k \in Key,
            KillAndEvict(k)
     PROVE CallerInv'
  BY <1>19 DEF KillAndEvict, CallerInv, procs, caller
<1>20. ASSUME Shutdown PROVE CallerInv'
  BY <1>20 DEF Shutdown, CallerInv, procs, caller
<1> QED
  BY <1>1, <1>2, <1>3, <1>4, <1>5, <1>6, <1>7, <1>8, <1>9, <1>10, <1>11, <1>12, <1>13,
     <1>14, <1>15, <1>16, <1>17, <1>18, <1>19, <1>20 DEF Next, Step, ClientStep

LEMMA SessionStep == TypeOK /\ CallerInv /\ SessionInv /\ Next => SessionInv'
<1> SUFFICES ASSUME TypeOK, CallerInv, SessionInv, Next
             PROVE  SessionInv'
  OBVIOUS
<1>1. ASSUME NEW a \in Caller, Call(a)
     PROVE SessionInv'
  BY <1>1 DEF Call, TypeOK, CallerInv, SessionInv, Spawning, pool, procs
<1>2. ASSUME NEW a \in Caller, GiveUp(a)
     PROVE SessionInv'
  BY <1>2 DEF GiveUp, Return, TypeOK, CallerInv, SessionInv, Spawning, pool, procs
<1>3. ASSUME NEW a \in Caller, TurnBack(a)
     PROVE SessionInv'
  BY <1>3 DEF TurnBack, Return, TypeOK, CallerInv, SessionInv, Spawning, pool, procs
<1>4. ASSUME NEW a \in Caller, JoinSession(a)
     PROVE SessionInv'
  BY <1>4 DEF JoinSession, TypeOK, CallerInv, SessionInv, Spawning, pool, procs
<1>5. ASSUME NEW a \in Caller, OpenSession(a)
     PROVE SessionInv'
  BY <1>5 DEF OpenSession, TypeOK, CallerInv, SessionInv, Spawning, procs
<1>6. ASSUME NEW a \in Caller, Wake(a)
     PROVE SessionInv'
  BY <1>6 DEF Wake, TypeOK, CallerInv, SessionInv, Spawning, pool, procs
<1>7. ASSUME NEW a \in Caller, WithinBudget(a)
     PROVE SessionInv'
  BY <1>7 DEF WithinBudget, TypeOK, CallerInv, SessionInv, Spawning, pool, procs
<1>8. ASSUME NEW a \in Caller, OverBudget(a)
     PROVE SessionInv'
  BY <1>8 DEF OverBudget, OpenGate, TypeOK, CallerInv, SessionInv, Spawning, pool, procs
<1>9. ASSUME NEW a \in Caller, StartClient(a)
     PROVE SessionInv'
  BY <1>9 DEF StartClient, TypeOK, CallerInv, SessionInv, Spawning, pool
<1>10. ASSUME NEW a \in Caller, StartFails(a)
     PROVE SessionInv'
  BY <1>10 DEF StartFails, OpenGate, TypeOK, CallerInv, SessionInv, Spawning, pool, procs
<1>11. ASSUME NEW a \in Caller, Initialized(a)
     PROVE SessionInv'
  BY <1>11 DEF Initialized, OpenGate, TypeOK, CallerInv, SessionInv, Spawning, pool, procs
<1>12. ASSUME NEW a \in Caller, InitializeFails(a)
     PROVE SessionInv'
  BY <1>12 DEF InitializeFails, ShutDown, Slain, TypeOK, CallerInv, SessionInv, Spawning, pool
<1>13. ASSUME NEW a \in Caller, Abandoned(a)
     PROVE SessionInv'
  BY <1>13 DEF Abandoned, OpenGate, TypeOK, CallerInv, SessionInv, Spawning, pool, procs
<1>14. ASSUME NEW a \in Caller, SpawnFailed(a)
     PROVE SessionInv'
  BY <1>14 DEF SpawnFailed, Return, TypeOK, CallerInv, SessionInv, Spawning, procs
<1>15. ASSUME NEW a \in Caller, Install(a)
     PROVE SessionInv'
  BY <1>15 DEF Install, TypeOK, CallerInv, SessionInv, Spawning, procs
<1>16. ASSUME NEW a \in Caller, Watch(a)
     PROVE SessionInv'
  BY <1>16 DEF Watch, Return, TypeOK, CallerInv, SessionInv, Spawning, pool, procs
<1>17. ASSUME NEW a \in Caller,
            KillVictim(a)
     PROVE SessionInv'
  BY <1>17 DEF KillVictim, Slain, SessionInv, pool
<1>18. ASSUME NEW c \in Client,
            \/ WatcherSeesDeath(c) \/ WatcherLeaves(c) \/ Crash(c) \/ TearDown(c)
            \/ KillEvicted(c) \/ ShutdownClient(c)
     PROVE SessionInv'
  BY <1>18 DEF WatcherSeesDeath, WatcherLeaves, Crash, TearDown, KillEvicted, Slain,
       ShutdownClient, ShutDown, SessionInv, pool, procs, caller
<1>19. ASSUME NEW k \in Key,
            KillAndEvict(k)
     PROVE SessionInv'
  BY <1>19 DEF KillAndEvict, SessionInv, procs, caller
<1>20. ASSUME Shutdown PROVE SessionInv'
  BY <1>20 DEF Shutdown, SessionInv, procs, caller
<1> QED
  BY <1>1, <1>2, <1>3, <1>4, <1>5, <1>6, <1>7, <1>8, <1>9, <1>10, <1>11, <1>12, <1>13,
     <1>14, <1>15, <1>16, <1>17, <1>18, <1>19, <1>20 DEF Next, Step, ClientStep

LEMMA ClientStepKeeps == TypeOK /\ CallerInv /\ ClientInv /\ Next => ClientInv'
<1> SUFFICES ASSUME TypeOK, CallerInv, ClientInv, Next
             PROVE  ClientInv'
  OBVIOUS
<1>1. ASSUME NEW a \in Caller, Call(a)
     PROVE ClientInv'
  <2>1. hand[a] = None
    BY <1>1 DEF Call, TypeOK, CallerInv, Holding, Spawning
  <2> QED
    BY <1>1, <2>1 DEF Call, TypeOK, CallerInv, ClientInv, pool, procs
<1>2. ASSUME NEW a \in Caller, GiveUp(a)
     PROVE ClientInv'
  <2>1. hand[a] = None
    BY <1>2 DEF GiveUp, TypeOK, CallerInv, Holding, Spawning
  <2> QED
    BY <1>2, <2>1 DEF GiveUp, Return, TypeOK, CallerInv, ClientInv, pool, procs
<1>3. ASSUME NEW a \in Caller, TurnBack(a)
     PROVE ClientInv'
  <2>1. hand[a] = None
    BY <1>3 DEF TurnBack, TypeOK, CallerInv, Holding, Spawning
  <2> QED
    BY <1>3, <2>1 DEF TurnBack, Return, TypeOK, CallerInv, ClientInv, pool, procs
<1>4. ASSUME NEW a \in Caller, StartClient(a)
     PROVE ClientInv'
  BY <1>4 DEF StartClient, TypeOK, CallerInv, ClientInv, Spawning, Holding, pool
<1>5. ASSUME NEW a \in Caller, InitializeFails(a)
     PROVE ClientInv'
  BY <1>5 DEF InitializeFails, ShutDown, Slain, TypeOK, CallerInv, ClientInv, Spawning, Holding, pool
<1>6. ASSUME NEW a \in Caller, Abandoned(a)
     PROVE ClientInv'
  BY <1>6 DEF Abandoned, OpenGate, TypeOK, CallerInv, ClientInv, Spawning, Holding, pool,
       procs
<1>7. ASSUME NEW a \in Caller, SpawnFailed(a)
     PROVE ClientInv'
  <2>1. hand[a] = None
    BY <1>7 DEF SpawnFailed, TypeOK, CallerInv, Holding, Spawning
  <2> QED
    BY <1>7, <2>1 DEF SpawnFailed, Return, TypeOK, CallerInv, ClientInv, pool, procs
<1>8. ASSUME NEW a \in Caller, Install(a)
     PROVE ClientInv'
  BY <1>8 DEF Install, TypeOK, CallerInv, ClientInv, Spawning, Holding, procs
<1>9. ASSUME NEW a \in Caller, KillVictim(a)
     PROVE ClientInv'
  BY <1>9 DEF KillVictim, Slain, TypeOK, CallerInv, ClientInv, Spawning, Holding, pool
<1>10. ASSUME NEW a \in Caller, Watch(a)
     PROVE ClientInv'
  BY <1>10 DEF Watch, Return, TypeOK, CallerInv, ClientInv, Spawning, Holding, pool, procs
<1>11. ASSUME NEW c \in Client, WatcherSeesDeath(c)
     PROVE ClientInv'
  BY <1>11 DEF WatcherSeesDeath, TypeOK, CallerInv, ClientInv, Spawning, Holding, procs,
       caller
<1>12. ASSUME NEW c \in Client, WatcherLeaves(c)
     PROVE ClientInv'
  BY <1>12 DEF WatcherLeaves, TypeOK, CallerInv, ClientInv, Spawning, Holding, pool,
       procs, caller
<1>13. ASSUME NEW c \in Client, Crash(c)
     PROVE ClientInv'
  BY <1>13 DEF Crash, TypeOK, CallerInv, ClientInv, Spawning, Holding, pool, caller
<1>14. ASSUME NEW c \in Client, TearDown(c)
     PROVE ClientInv'
  BY <1>14 DEF TearDown, TypeOK, CallerInv, ClientInv, Spawning, Holding, pool, caller
<1>15. ASSUME NEW c \in Client, KillEvicted(c)
     PROVE ClientInv'
  BY <1>15 DEF KillEvicted, Slain, TypeOK, CallerInv, ClientInv, Spawning, Holding, pool,
       caller
<1>16. ASSUME NEW c \in Client, ShutdownClient(c)
     PROVE ClientInv'
  BY <1>16 DEF ShutdownClient, ShutDown, Slain, TypeOK, CallerInv, ClientInv, Spawning, Holding,
       pool, caller
<1>17. ASSUME NEW k \in Key, KillAndEvict(k)
     PROVE ClientInv'
  BY <1>17 DEF KillAndEvict, TypeOK, CallerInv, ClientInv, Spawning, Holding, procs, caller
<1>18. ASSUME Shutdown
     PROVE ClientInv'
  BY <1>18 DEF Shutdown, TypeOK, CallerInv, ClientInv, Spawning, Holding, procs, caller
<1>19. ASSUME NEW a \in Caller,
            \/ JoinSession(a) \/ OpenSession(a) \/ Wake(a) \/ WithinBudget(a)
            \/ OverBudget(a) \/ StartFails(a) \/ Initialized(a)
     PROVE ClientInv'
  BY <1>19 DEF JoinSession, OpenSession, Wake, WithinBudget, OverBudget, OpenGate,
       StartFails, Initialized, ClientInv, pool, procs
<1> QED
  BY <1>1, <1>2, <1>3, <1>4, <1>5, <1>6, <1>7, <1>8, <1>9, <1>10, <1>11, <1>12, <1>13,
     <1>14, <1>15, <1>16, <1>17, <1>18, <1>19 DEF Next, Step, ClientStep

LEMMA SpawnStep ==
  TypeOK /\ CallerInv /\ SessionInv /\ ClientInv /\ SpawnInv /\ Next
  => SpawnInv'
<1> SUFFICES ASSUME TypeOK, CallerInv, SessionInv, ClientInv, SpawnInv, Next
             PROVE  SpawnInv'
  OBVIOUS
<1>1. ASSUME NEW a \in Caller, Call(a)
     PROVE SpawnInv'
  BY <1>1 DEF Call, TypeOK, CallerInv, SessionInv, ClientInv, SpawnInv, Alive, Spawning,
       pool, procs
<1>2. ASSUME NEW a \in Caller, GiveUp(a)
     PROVE SpawnInv'
  BY <1>2 DEF GiveUp, Return, TypeOK, CallerInv, SessionInv, ClientInv, SpawnInv, Alive,
       Spawning, pool, procs
<1>3. ASSUME NEW a \in Caller, TurnBack(a)
     PROVE SpawnInv'
  BY <1>3 DEF TurnBack, Return, TypeOK, CallerInv, SessionInv, ClientInv, SpawnInv, Alive,
       Spawning, pool, procs
<1>4. ASSUME NEW a \in Caller, JoinSession(a)
     PROVE SpawnInv'
  BY <1>4 DEF JoinSession, TypeOK, CallerInv, SessionInv, ClientInv, SpawnInv, Alive,
       Spawning, pool, procs
<1>5. ASSUME NEW a \in Caller, OpenSession(a)
     PROVE SpawnInv'
  BY <1>5 DEF OpenSession, TypeOK, CallerInv, SessionInv, ClientInv, SpawnInv, Alive,
       Spawning, procs
<1>6. ASSUME NEW a \in Caller, Wake(a)
     PROVE SpawnInv'
  BY <1>6 DEF Wake, TypeOK, CallerInv, SessionInv, ClientInv, SpawnInv, Alive, Spawning,
       pool, procs
<1>7. ASSUME NEW a \in Caller, WithinBudget(a)
     PROVE SpawnInv'
  BY <1>7 DEF WithinBudget, TypeOK, CallerInv, SessionInv, ClientInv, SpawnInv, Alive,
       Spawning, pool, procs
<1>8. ASSUME NEW a \in Caller, OverBudget(a)
     PROVE SpawnInv'
  BY <1>8 DEF OverBudget, OpenGate, TypeOK, CallerInv, SessionInv, ClientInv, SpawnInv,
       Alive, Spawning, pool, procs
<1>9. ASSUME NEW a \in Caller, StartClient(a)
     PROVE SpawnInv'
  BY <1>9 DEF StartClient, TypeOK, CallerInv, SessionInv, ClientInv, SpawnInv, Alive,
       Spawning, pool
<1>10. ASSUME NEW a \in Caller, StartFails(a)
     PROVE SpawnInv'
  BY <1>10 DEF StartFails, OpenGate, TypeOK, CallerInv, SessionInv, ClientInv, SpawnInv,
       Alive, Spawning, pool, procs
<1>11. ASSUME NEW a \in Caller, Initialized(a)
     PROVE SpawnInv'
  BY <1>11 DEF Initialized, OpenGate, TypeOK, CallerInv, SessionInv, ClientInv, SpawnInv,
       Alive, Spawning, pool, procs
<1>12. ASSUME NEW a \in Caller, InitializeFails(a)
     PROVE SpawnInv'
  BY <1>12 DEF InitializeFails, ShutDown, Slain, TypeOK, CallerInv, SessionInv, ClientInv, SpawnInv, Alive,
       Spawning, pool
<1>13. ASSUME NEW a \in Caller, Abandoned(a)
     PROVE SpawnInv'
  BY <1>13 DEF Abandoned, OpenGate, TypeOK, CallerInv, SessionInv, ClientInv, SpawnInv,
       Alive, Spawning, pool, procs
<1>14. ASSUME NEW a \in Caller, SpawnFailed(a)
     PROVE SpawnInv'
  BY <1>14 DEF SpawnFailed, Return, TypeOK, CallerInv, SessionInv, ClientInv, SpawnInv,
       Alive, Spawning, procs
<1>15. ASSUME NEW a \in Caller, Install(a)
     PROVE SpawnInv'
  BY <1>15 DEF Install, TypeOK, CallerInv, SessionInv, ClientInv, SpawnInv, Alive,
       Spawning, procs
<1>16. ASSUME NEW a \in Caller, KillVictim(a)
     PROVE SpawnInv'
  BY <1>16 DEF KillVictim, Slain, TypeOK, CallerInv, SessionInv, ClientInv, SpawnInv,
       Alive, Spawning, pool
<1>17. ASSUME NEW a \in Caller, Watch(a)
     PROVE SpawnInv'
  BY <1>17 DEF Watch, Return, TypeOK, CallerInv, SessionInv, ClientInv, SpawnInv, Alive,
       Spawning, pool, procs
<1>18. ASSUME NEW c \in Client, WatcherSeesDeath(c)
     PROVE SpawnInv'
  <2>1. UNCHANGED <<dead, pc, want>>
    BY <1>18 DEF WatcherSeesDeath, procs, caller
  <2>2. \A k \in Key : live'[k] \in {live[k], None}
    BY <1>18 DEF WatcherSeesDeath, TypeOK
  <2>3. \A a \in Caller : pc[a] \in Spawning => want[a] \in Key
    BY DEF TypeOK, CallerInv, Spawning
  <2> QED
    BY <2>1, <2>2, <2>3 DEF SpawnInv, Alive
<1>19. ASSUME NEW c \in Client, Crash(c)
     PROVE SpawnInv'
  BY <1>19 DEF Crash, TypeOK, CallerInv, SessionInv, ClientInv, SpawnInv, Alive, Spawning,
       pool, caller
<1>20. ASSUME NEW c \in Client, TearDown(c)
     PROVE SpawnInv'
  BY <1>20 DEF TearDown, TypeOK, CallerInv, SessionInv, ClientInv, SpawnInv, Alive, Spawning,
       pool, caller
<1>21. ASSUME NEW c \in Client, KillEvicted(c)
     PROVE SpawnInv'
  BY <1>21 DEF KillEvicted, Slain, TypeOK, CallerInv, SessionInv, ClientInv, SpawnInv,
       Alive, Spawning, pool, caller
<1>22. ASSUME NEW c \in Client, ShutdownClient(c)
     PROVE SpawnInv'
  BY <1>22 DEF ShutdownClient, ShutDown, Slain, TypeOK, CallerInv, SessionInv, ClientInv, SpawnInv,
       Alive, Spawning, pool, caller
<1>23. ASSUME NEW k \in Key, KillAndEvict(k)
     PROVE SpawnInv'
  BY <1>23 DEF KillAndEvict, TypeOK, CallerInv, SessionInv, ClientInv, SpawnInv, Alive,
       Spawning, procs, caller
<1>24. ASSUME Shutdown
     PROVE SpawnInv'
  BY <1>24 DEF Shutdown, TypeOK, CallerInv, SessionInv, ClientInv, SpawnInv, Alive,
       Spawning, procs, caller
<1>25. ASSUME NEW c \in Client,
            WatcherLeaves(c)
     PROVE SpawnInv'
  BY <1>25 DEF WatcherLeaves, SpawnInv, pool, procs, caller, Alive
<1> QED
  BY <1>1, <1>2, <1>3, <1>4, <1>5, <1>6, <1>7, <1>8, <1>9, <1>10, <1>11, <1>12, <1>13,
     <1>14, <1>15, <1>16, <1>17, <1>18, <1>19, <1>20, <1>21, <1>22, <1>23, <1>24, <1>25
     DEF Next, Step, ClientStep

LEMMA KilledStep == TypeOK /\ CallerInv /\ ClientInv /\ KilledInv /\ Next => KilledInv'
<1> SUFFICES ASSUME TypeOK, CallerInv, ClientInv, KilledInv, Next
             PROVE  KilledInv'
  OBVIOUS
<1>1. ASSUME NEW a \in Caller, Call(a)
     PROVE KilledInv'
  BY <1>1 DEF Call, TypeOK, CallerInv, ClientInv, KilledInv, Up, Spawning, Holding, pool, procs
<1>2. ASSUME NEW a \in Caller, GiveUp(a)
     PROVE KilledInv'
  BY <1>2 DEF GiveUp, Return, TypeOK, CallerInv, ClientInv, KilledInv, Up, Spawning, Holding,
       pool, procs
<1>3. ASSUME NEW a \in Caller, TurnBack(a)
     PROVE KilledInv'
  BY <1>3 DEF TurnBack, Return, TypeOK, CallerInv, ClientInv, KilledInv, Up, Spawning,
       Holding, pool, procs
<1>4. ASSUME NEW a \in Caller, JoinSession(a)
     PROVE KilledInv'
  BY <1>4 DEF JoinSession, TypeOK, CallerInv, ClientInv, KilledInv, Up, Spawning, Holding,
       pool, procs
<1>5. ASSUME NEW a \in Caller, OpenSession(a)
     PROVE KilledInv'
  BY <1>5 DEF OpenSession, TypeOK, CallerInv, ClientInv, KilledInv, Up, Spawning, Holding, procs
<1>6. ASSUME NEW a \in Caller, Wake(a)
     PROVE KilledInv'
  BY <1>6 DEF Wake, TypeOK, CallerInv, ClientInv, KilledInv, Up, Spawning, Holding, pool, procs
<1>7. ASSUME NEW a \in Caller, WithinBudget(a)
     PROVE KilledInv'
  BY <1>7 DEF WithinBudget, TypeOK, CallerInv, ClientInv, KilledInv, Up, Spawning, Holding,
       pool, procs
<1>8. ASSUME NEW a \in Caller, OverBudget(a)
     PROVE KilledInv'
  BY <1>8 DEF OverBudget, OpenGate, TypeOK, CallerInv, ClientInv, KilledInv, Up, Spawning,
       Holding, pool, procs
<1>9. ASSUME NEW a \in Caller, StartClient(a)
     PROVE KilledInv'
  BY <1>9 DEF StartClient, TypeOK, CallerInv, ClientInv, KilledInv, Up, Spawning, Holding, pool
<1>10. ASSUME NEW a \in Caller, StartFails(a)
     PROVE KilledInv'
  BY <1>10 DEF StartFails, OpenGate, TypeOK, CallerInv, ClientInv, KilledInv, Up, Spawning,
       Holding, pool, procs
<1>11. ASSUME NEW a \in Caller, Initialized(a)
     PROVE KilledInv'
  BY <1>11 DEF Initialized, OpenGate, TypeOK, CallerInv, ClientInv, KilledInv, Up, Spawning,
       Holding, pool, procs
<1>12. ASSUME NEW a \in Caller, InitializeFails(a)
     PROVE KilledInv'
  BY <1>12 DEF InitializeFails, ShutDown, Slain, TypeOK, CallerInv, ClientInv, KilledInv, Up, Spawning,
       Holding, pool
<1>13. ASSUME NEW a \in Caller, Abandoned(a)
     PROVE KilledInv'
  BY <1>13 DEF Abandoned, OpenGate, TypeOK, CallerInv, ClientInv, KilledInv, Up, Spawning,
       Holding, pool, procs
<1>14. ASSUME NEW a \in Caller, SpawnFailed(a)
     PROVE KilledInv'
  BY <1>14 DEF SpawnFailed, Return, TypeOK, CallerInv, ClientInv, KilledInv, Up, Spawning,
       Holding, procs
<1>15. ASSUME NEW a \in Caller, Install(a)
     PROVE KilledInv'
  BY <1>15 DEF Install, TypeOK, CallerInv, ClientInv, KilledInv, Up, Spawning, Holding, procs
<1>16. ASSUME NEW a \in Caller, KillVictim(a)
     PROVE KilledInv'
  BY <1>16 DEF KillVictim, Slain, TypeOK, CallerInv, ClientInv, KilledInv, Up, Spawning,
       Holding, pool
<1>17. ASSUME NEW a \in Caller, Watch(a)
     PROVE KilledInv'
  BY <1>17 DEF Watch, Return, TypeOK, CallerInv, ClientInv, KilledInv, Up, Spawning, Holding,
       pool, procs
<1>18. ASSUME NEW c \in Client, Crash(c)
     PROVE KilledInv'
  BY <1>18 DEF Crash, TypeOK, CallerInv, ClientInv, KilledInv, Up, Spawning, Holding, pool,
       caller
<1>19. ASSUME NEW c \in Client, TearDown(c)
     PROVE KilledInv'
  BY <1>19 DEF TearDown, TypeOK, CallerInv, ClientInv, KilledInv, Up, Spawning, Holding, pool,
       caller
<1>20. ASSUME NEW c \in Client, KillEvicted(c)
     PROVE KilledInv'
  BY <1>20 DEF KillEvicted, Slain, TypeOK, CallerInv, ClientInv, KilledInv, Up, Spawning,
       Holding, pool, caller
<1>21. ASSUME NEW c \in Client, ShutdownClient(c)
     PROVE KilledInv'
  BY <1>21 DEF ShutdownClient, ShutDown, Slain, TypeOK, CallerInv, ClientInv, KilledInv, Up, Spawning,
       Holding, pool, caller
<1>22. ASSUME Shutdown
     PROVE KilledInv'
  BY <1>22 DEF Shutdown, TypeOK, CallerInv, ClientInv, KilledInv, Up, Spawning, Holding,
       procs, caller
<1>23. ASSUME NEW c \in Client,
            WatcherSeesDeath(c) \/ WatcherLeaves(c)
     PROVE KilledInv'
  BY <1>23 DEF WatcherSeesDeath, WatcherLeaves, KilledInv, Up, pool, procs, caller
<1>24. ASSUME NEW k \in Key,
            KillAndEvict(k)
     PROVE KilledInv'
  BY <1>24 DEF KillAndEvict, KilledInv, Up, procs, caller
<1> QED
  BY <1>1, <1>2, <1>3, <1>4, <1>5, <1>6, <1>7, <1>8, <1>9, <1>10, <1>11, <1>12, <1>13,
     <1>14, <1>15, <1>16, <1>17, <1>18, <1>19, <1>20, <1>21, <1>22, <1>23, <1>24 DEF
     Next, Step, ClientStep

LEMMA HeldStep ==
  TypeOK /\ CallerInv /\ SpawnInv /\ KilledInv /\ HeldInv /\ Next
  => HeldInv'
<1> SUFFICES ASSUME TypeOK, CallerInv, SpawnInv, KilledInv, HeldInv, Next
             PROVE  HeldInv'
  OBVIOUS
<1>1. ASSUME NEW a \in Caller, Call(a)
     PROVE HeldInv'
  BY <1>1 DEF Call, TypeOK, CallerInv, SpawnInv, KilledInv, HeldInv, Held, Up, Alive,
       Spawning, Holding, pool, procs
<1>2. ASSUME NEW a \in Caller, GiveUp(a)
     PROVE HeldInv'
  BY <1>2 DEF GiveUp, Return, TypeOK, CallerInv, SpawnInv, KilledInv, HeldInv, Held, Up,
       Alive, Spawning, Holding, pool, procs
<1>3. ASSUME NEW a \in Caller, TurnBack(a)
     PROVE HeldInv'
  BY <1>3 DEF TurnBack, Return, TypeOK, CallerInv, SpawnInv, KilledInv, HeldInv, Held, Up,
       Alive, Spawning, Holding, pool, procs
<1>4. ASSUME NEW a \in Caller, JoinSession(a)
     PROVE HeldInv'
  BY <1>4 DEF JoinSession, TypeOK, CallerInv, SpawnInv, KilledInv, HeldInv, Held, Up, Alive,
       Spawning, Holding, pool, procs
<1>5. ASSUME NEW a \in Caller, OpenSession(a)
     PROVE HeldInv'
  BY <1>5 DEF OpenSession, TypeOK, CallerInv, SpawnInv, KilledInv, HeldInv, Held, Up, Alive,
       Spawning, Holding, procs
<1>6. ASSUME NEW a \in Caller, Wake(a)
     PROVE HeldInv'
  BY <1>6 DEF Wake, TypeOK, CallerInv, SpawnInv, KilledInv, HeldInv, Held, Up, Alive,
       Spawning, Holding, pool, procs
<1>7. ASSUME NEW a \in Caller, WithinBudget(a)
     PROVE HeldInv'
  BY <1>7 DEF WithinBudget, TypeOK, CallerInv, SpawnInv, KilledInv, HeldInv, Held, Up, Alive,
       Spawning, Holding, pool, procs
<1>8. ASSUME NEW a \in Caller, OverBudget(a)
     PROVE HeldInv'
  BY <1>8 DEF OverBudget, OpenGate, TypeOK, CallerInv, SpawnInv, KilledInv, HeldInv, Held, Up,
       Alive, Spawning, Holding, pool, procs
<1>9. ASSUME NEW a \in Caller, StartClient(a)
     PROVE HeldInv'
  <2> SUFFICES ASSUME NEW d \in Client, Up(d)'
               PROVE  Held(d)'
    BY DEF HeldInv
  <2>1. hand[a] = None
    BY <1>9 DEF StartClient, TypeOK, CallerInv, Holding
  <2>2. PICK c \in Client : /\ process' = [process EXCEPT ![c] = "running"]
                           /\ hand' = [hand EXCEPT ![a] = c]
    BY <1>9 DEF StartClient
  <2>3. CASE d = c
    <3>1. hand'[a] = d /\ pc'[a] = "init"
      BY <1>9, <2>2, <2>3 DEF StartClient, TypeOK
    <3> QED
      BY <3>1 DEF Held
  <2>4. CASE d # c
    <3>1. Held(d)
      BY <1>9, <2>2, <2>4 DEF StartClient, TypeOK, HeldInv, Up, pool
    <3>2. \A b \in Caller : hand[b] = d => b # a
      BY <2>1, NameAssumption
    <3> QED
      BY <1>9, <2>2, <3>1, <3>2 DEF StartClient, TypeOK, Held, pool
  <2> QED
    BY <2>3, <2>4
<1>10. ASSUME NEW a \in Caller, StartFails(a)
     PROVE HeldInv'
  BY <1>10 DEF StartFails, OpenGate, TypeOK, CallerInv, SpawnInv, KilledInv, HeldInv,
       Held, Up, Alive, Spawning, Holding, pool, procs
<1>11. ASSUME NEW a \in Caller, Initialized(a)
     PROVE HeldInv'
  BY <1>11 DEF Initialized, OpenGate, TypeOK, CallerInv, SpawnInv, KilledInv, HeldInv,
       Held, Up, Alive, Spawning, Holding, pool, procs
<1>12. ASSUME NEW a \in Caller, InitializeFails(a)
     PROVE HeldInv'
  <2> SUFFICES ASSUME NEW d \in Client, Up(d)'
               PROVE  Held(d)'
    BY DEF HeldInv
  <2>1. Up(d) /\ Held(d)
    BY <1>12 DEF InitializeFails, ShutDown, Slain, TypeOK, HeldInv, Up, pool
  <2>2. Up(hand[a]) => d # hand[a]
    BY <1>12 DEF InitializeFails, ShutDown, Slain, TypeOK, Up
  <2>3. hand[a] \in Client
    BY <1>12 DEF InitializeFails, ShutDown, Slain, TypeOK, CallerInv, Holding
  <2>4. d # hand[a]
    BY <2>1, <2>2
  <2> QED
    BY <1>12, <2>1, <2>4 DEF InitializeFails, ShutDown, Slain, TypeOK, Held, pool, procs, caller
<1>13. ASSUME NEW a \in Caller, Abandoned(a)
     PROVE HeldInv'
  BY <1>13 DEF Abandoned, OpenGate, TypeOK, CallerInv, SpawnInv, KilledInv, HeldInv, Held, Up,
       Alive, Spawning, Holding, pool, procs
<1>14. ASSUME NEW a \in Caller, SpawnFailed(a)
     PROVE HeldInv'
  BY <1>14 DEF SpawnFailed, Return, TypeOK, CallerInv, SpawnInv, KilledInv, HeldInv, Held, Up,
       Alive, Spawning, Holding, procs
<1>15. ASSUME NEW a \in Caller, Install(a)
     PROVE HeldInv'
  <2> DEFINE k == want[a]
             out == EvictedKeys(RegisterRoot(RootOf(k)), extraRoots)
             installed == [live EXCEPT ![k] = hand[a]]
  <2> SUFFICES ASSUME NEW d \in Client, Up(d)'
               PROVE  Held(d)'
    BY DEF HeldInv
  <2>1. Held(d) /\ Up(d)
    BY <1>15 DEF Install, HeldInv, Up, procs
  <2>2. k \in Key /\ ~Alive(live[k]) /\ victims[a] = {}
    BY <1>15 DEF Install, TypeOK, CallerInv, SpawnInv, Spawning
  <2>3. /\ live' = [j \in Key |-> IF j \in out THEN None ELSE installed[j]]
        /\ victims' = [victims EXCEPT ![a] = {installed[j] : j \in out} \ {None}]
        /\ pc' = [pc EXCEPT ![a] = "kill"]
        /\ UNCHANGED <<hand, evicted, closing>>
    BY <1>15 DEF Install
  <2>4. out \subseteq Key
    BY DEF EvictedKeys
  <2> HIDE DEF out
  <2>5. CASE \E j \in Key : installed[j] = d
    <3>1. PICK j \in Key : installed[j] = d
      BY <2>5
    <3>2. CASE j \in out
      <4>1. d \in victims'[a]
        BY <2>3, <3>1, <3>2, NameAssumption DEF TypeOK
      <4> QED
        BY <4>1 DEF Held
    <3>3. CASE j \notin out
      <4>1. live'[j] = d
        BY <2>3, <3>1, <3>3
      <4> QED
        BY <4>1 DEF Held
    <3> QED
      BY <3>2, <3>3
  <2>6. CASE \A j \in Key : installed[j] # d
    <3>1. hand[a] # d
      BY <2>2, <2>6 DEF TypeOK
    <3>2. \A j \in Key : live[j] # d
      BY <2>1, <2>2, <2>6 DEF TypeOK, Alive, Up
    <3> QED
      BY <2>1, <2>2, <2>3, <3>1, <3>2 DEF Held, TypeOK
  <2> QED
    BY <2>5, <2>6
<1>16. ASSUME NEW a \in Caller, KillVictim(a)
     PROVE HeldInv'
  <2> SUFFICES ASSUME NEW d \in Client, Up(d)'
               PROVE  Held(d)'
    BY DEF HeldInv
  <2>1. Up(d) /\ Held(d)
    BY <1>16 DEF KillVictim, Slain, TypeOK, HeldInv, Up, pool
  <2> QED
    BY <1>16, <2>1 DEF KillVictim, Slain, TypeOK, Held, Up, pool
<1>17. ASSUME NEW a \in Caller, Watch(a)
     PROVE HeldInv'
  BY <1>17 DEF Watch, Return, TypeOK, CallerInv, SpawnInv, KilledInv, HeldInv, Held, Up,
       Alive, Spawning, Holding, pool, procs
<1>18. ASSUME NEW c \in Client, WatcherSeesDeath(c)
     PROVE HeldInv'
  <2> SUFFICES ASSUME NEW d \in Client, Up(d)'
               PROVE  Held(d)'
    BY DEF HeldInv
  <2>1. Up(d) /\ Held(d) /\ d \notin dead
    BY <1>18 DEF WatcherSeesDeath, TypeOK, HeldInv, Up, procs, caller
  <2>2. d # c /\ UNCHANGED <<pc, hand, victims, evicted, closing>>
    BY <1>18, <2>1 DEF WatcherSeesDeath, caller
  <2>3. \A k \in Key : live[k] = d => live'[k] = d
    BY <1>18, <2>2 DEF WatcherSeesDeath, TypeOK
  <2> QED
    BY <2>1, <2>2, <2>3 DEF Held
<1>19. ASSUME NEW c \in Client, Crash(c)
     PROVE HeldInv'
  <2> SUFFICES ASSUME NEW d \in Client, Up(d)'
               PROVE  Held(d)'
    BY DEF HeldInv
  <2>1. Up(d) /\ Held(d)
    BY <1>19 DEF Crash, TypeOK, HeldInv, Up, pool, caller
  <2> QED
    BY <1>19, <2>1 DEF Crash, TypeOK, Held, pool, procs, caller
<1>20. ASSUME NEW c \in Client, TearDown(c)
     PROVE HeldInv'
  <2> SUFFICES ASSUME NEW d \in Client, Up(d)'
               PROVE  Held(d)'
    BY DEF HeldInv
  <2>1. Up(d) /\ Held(d)
    BY <1>20 DEF TearDown, TypeOK, HeldInv, Up, pool, caller
  <2> QED
    BY <1>20, <2>1 DEF TearDown, TypeOK, Held, pool, procs, caller
<1>21. ASSUME NEW c \in Client, KillEvicted(c)
     PROVE HeldInv'
  <2> SUFFICES ASSUME NEW d \in Client, Up(d)'
               PROVE  Held(d)'
    BY DEF HeldInv
  <2>1. Up(d) /\ Held(d)
    BY <1>21 DEF KillEvicted, Slain, TypeOK, HeldInv, Up, pool, caller
  <2>2. d # c
    BY <1>21, <2>1 DEF KillEvicted, Slain, TypeOK, Up, pool, caller
  <2> QED
    BY <1>21, <2>1, <2>2 DEF KillEvicted, Held, pool, caller
<1>22. ASSUME NEW c \in Client, ShutdownClient(c)
     PROVE HeldInv'
  <2> SUFFICES ASSUME NEW d \in Client, Up(d)'
               PROVE  Held(d)'
    BY DEF HeldInv
  <2>1. Up(d) /\ Held(d)
    BY <1>22 DEF ShutdownClient, ShutDown, Slain, TypeOK, HeldInv, Up, pool, caller
  <2>2. d # c
    BY <1>22, <2>1 DEF ShutdownClient, ShutDown, Slain, TypeOK, Up, pool, caller
  <2> QED
    BY <1>22, <2>1, <2>2 DEF ShutdownClient, Held, pool, caller
<1>23. ASSUME NEW k \in Key, KillAndEvict(k)
     PROVE HeldInv'
  BY <1>23 DEF KillAndEvict, TypeOK, CallerInv, SpawnInv, KilledInv, HeldInv, Held, Up, Alive,
       Spawning, Holding, procs, caller
<1>24. ASSUME Shutdown
     PROVE HeldInv'
  <2> SUFFICES ASSUME NEW d \in Client, Up(d)'
               PROVE  Held(d)'
    BY DEF HeldInv
  <2>1. Held(d) /\ closing = {} /\ d # None
    BY <1>24, NameAssumption DEF Shutdown, HeldInv, KilledInv, Up, procs
  <2>2. (\E k \in Key : live[k] = d) => d \in closing'
    BY <1>24, <2>1 DEF Shutdown, TypeOK, Range
  <2> QED
    BY <1>24, <2>1, <2>2 DEF Shutdown, Held, caller
<1>25. ASSUME NEW c \in Client,
            WatcherLeaves(c)
     PROVE HeldInv'
  BY <1>25 DEF WatcherLeaves, HeldInv, Up, pool, procs, caller, Held
<1> QED
  BY <1>1, <1>2, <1>3, <1>4, <1>5, <1>6, <1>7, <1>8, <1>9, <1>10, <1>11, <1>12, <1>13,
     <1>14, <1>15, <1>16, <1>17, <1>18, <1>19, <1>20, <1>21, <1>22, <1>23, <1>24, <1>25
     DEF Next, Step, ClientStep

LEMMA BudgetStep ==
  TypeOK /\ CallerInv /\ SessionInv /\ ClientInv /\ BudgetInv /\ Next
  => BudgetInv'
<1> SUFFICES ASSUME TypeOK, CallerInv, SessionInv, ClientInv, BudgetInv, Next
             PROVE  BudgetInv'
  OBVIOUS
<1>1. ASSUME NEW a \in Caller, Call(a)
     PROVE BudgetInv'
  BY <1>1 DEF Call, TypeOK, CallerInv, SessionInv, BudgetInv, Spawning, PastBudget, pool,
       procs
<1>2. ASSUME NEW a \in Caller, GiveUp(a)
     PROVE BudgetInv'
  BY <1>2 DEF GiveUp, Return, TypeOK, CallerInv, SessionInv, BudgetInv, Spawning,
       PastBudget, pool, procs
<1>3. ASSUME NEW a \in Caller, TurnBack(a)
     PROVE BudgetInv'
  BY <1>3 DEF TurnBack, Return, TypeOK, CallerInv, SessionInv, BudgetInv, Spawning,
       PastBudget, pool, procs
<1>4. ASSUME NEW a \in Caller, JoinSession(a)
     PROVE BudgetInv'
  BY <1>4 DEF JoinSession, TypeOK, CallerInv, SessionInv, BudgetInv, Spawning, PastBudget,
       pool, procs
<1>5. ASSUME NEW a \in Caller, OpenSession(a)
     PROVE BudgetInv'
  BY <1>5 DEF OpenSession, TypeOK, CallerInv, SessionInv, BudgetInv, Spawning, PastBudget,
       procs
<1>6. ASSUME NEW a \in Caller, Wake(a)
     PROVE BudgetInv'
  BY <1>6 DEF Wake, TypeOK, CallerInv, SessionInv, BudgetInv, Spawning, PastBudget, pool,
       procs
<1>7. ASSUME NEW a \in Caller, WithinBudget(a)
     PROVE BudgetInv'
  BY <1>7 DEF WithinBudget, TypeOK, CallerInv, SessionInv, BudgetInv, Spawning,
       PastBudget, pool, procs
<1>8. ASSUME NEW a \in Caller, OverBudget(a)
     PROVE BudgetInv'
  BY <1>8 DEF OverBudget, OpenGate, TypeOK, CallerInv, SessionInv, BudgetInv, Spawning,
       PastBudget, pool, procs
<1>9. ASSUME NEW a \in Caller, StartClient(a)
     PROVE BudgetInv'
  BY <1>9 DEF StartClient, TypeOK, CallerInv, SessionInv, BudgetInv, Spawning, PastBudget,
       pool
<1>10. ASSUME NEW a \in Caller, StartFails(a)
     PROVE BudgetInv'
  BY <1>10 DEF StartFails, OpenGate, TypeOK, CallerInv, SessionInv, BudgetInv, Spawning,
       PastBudget, pool, procs
<1>11. ASSUME NEW a \in Caller, Initialized(a)
     PROVE BudgetInv'
  BY <1>11 DEF Initialized, OpenGate, TypeOK, CallerInv, SessionInv, BudgetInv, Spawning,
       PastBudget, pool, procs
<1>12. ASSUME NEW a \in Caller, InitializeFails(a)
     PROVE BudgetInv'
  BY <1>12 DEF InitializeFails, ShutDown, Slain, TypeOK, CallerInv, SessionInv, BudgetInv, Spawning,
       PastBudget, pool
<1>13. ASSUME NEW a \in Caller, Abandoned(a)
     PROVE BudgetInv'
  BY <1>13 DEF Abandoned, OpenGate, TypeOK, CallerInv, SessionInv, BudgetInv, Spawning,
       PastBudget, pool, procs
<1>14. ASSUME NEW a \in Caller, SpawnFailed(a)
     PROVE BudgetInv'
  BY <1>14 DEF SpawnFailed, Return, TypeOK, CallerInv, SessionInv, BudgetInv, Spawning,
       PastBudget, procs
<1>15. ASSUME NEW a \in Caller, Install(a)
     PROVE BudgetInv'
  BY <1>15 DEF Install, TypeOK, CallerInv, SessionInv, BudgetInv, Spawning, PastBudget,
       procs
<1>16. ASSUME NEW a \in Caller, Watch(a)
     PROVE BudgetInv'
  BY <1>16 DEF Watch, Return, TypeOK, CallerInv, SessionInv, BudgetInv, Spawning,
       PastBudget, pool, procs
<1>17. ASSUME NEW c \in Client, WatcherSeesDeath(c)
     PROVE BudgetInv'
  <2> DEFINE k == keyOf[c]
  <2>1. CASE live[k] = c
    <3>1. k \in Key
      BY <1>17 DEF WatcherSeesDeath, TypeOK, ClientInv
    <3>2. /\ live' = [live EXCEPT ![k] = None]
          /\ restarts' = [restarts EXCEPT ![k] = restarts[k] + 1]
      BY <1>17, <2>1 DEF WatcherSeesDeath
    <3>3. live[k] # None /\ restarts[k] \in Nat
      BY <2>1, <3>1, NameAssumption DEF TypeOK
    <3> QED
      BY <1>17, <3>1, <3>2, <3>3 DEF WatcherSeesDeath, TypeOK, CallerInv, BudgetInv,
           PastBudget, caller
  <2>2. CASE live[k] # c
    BY <1>17, <2>2 DEF WatcherSeesDeath, BudgetInv, caller
  <2> QED
    BY <2>1, <2>2
<1>18. ASSUME NEW k \in Key, KillAndEvict(k)
     PROVE BudgetInv'
  BY <1>18 DEF KillAndEvict, TypeOK, CallerInv, SessionInv, BudgetInv, Spawning,
       PastBudget, procs, caller
<1>19. ASSUME Shutdown
     PROVE BudgetInv'
  BY <1>19 DEF Shutdown, TypeOK, CallerInv, SessionInv, BudgetInv, Spawning, PastBudget,
       procs, caller
<1>20. ASSUME NEW a \in Caller,
            KillVictim(a)
     PROVE BudgetInv'
  BY <1>20 DEF KillVictim, Slain, BudgetInv, pool
<1>21. ASSUME NEW c \in Client,
            WatcherLeaves(c) \/ Crash(c) \/ TearDown(c) \/ KillEvicted(c) \/ ShutdownClient(c)
     PROVE BudgetInv'
  BY <1>21 DEF WatcherLeaves, Crash, TearDown, KillEvicted, Slain, ShutdownClient, ShutDown, BudgetInv,
       pool, procs, caller
<1> QED
  BY <1>1, <1>2, <1>3, <1>4, <1>5, <1>6, <1>7, <1>8, <1>9, <1>10, <1>11, <1>12, <1>13,
     <1>14, <1>15, <1>16, <1>17, <1>18, <1>19, <1>20, <1>21 DEF Next, Step, ClientStep

LEMMA PoolStep == TypeOK /\ CallerInv /\ PoolInv /\ Next => PoolInv'
<1> SUFFICES ASSUME TypeOK, CallerInv, PoolInv, Next
             PROVE  PoolInv'
  OBVIOUS
<1>1. ASSUME NEW a \in Caller, Install(a)
     PROVE PoolInv'
  <2> DEFINE k == want[a]
             added == RegisterRoot(RootOf(k))
             out == EvictedKeys(added, extraRoots)
  <2>1. k \in Key /\ RootOf(k) \in Root
    BY <1>1 DEF Install, TypeOK, CallerInv, Key, RootOf
  <2>2. /\ added \in Seq(Root)
        /\ added = extraRoots \/ Len(added) = Len(extraRoots) + 1
        /\ Range(extraRoots) \subseteq Range(added)
        /\ RootOf(k) = DefaultRoot \/ RootOf(k) \in Range(added)
    BY <2>1, RangeOfAppend DEF RegisterRoot, TypeOK
  <2>3. \A j \in Key : live'[j] # None =>
          j \notin out /\ (j = k \/ live[j] # None)
    BY <1>1, <2>1 DEF Install, TypeOK
  <2>4. \A j \in Key : j = k \/ live[j] # None => RootOf(j) \in {DefaultRoot} \cup Range(added)
    BY <2>2 DEF PoolInv, Roots
  <2>5. CASE added # extraRoots /\ Len(added) > MaxExtraRoots
    <3>1. extraRoots' = Tail(added) /\ out = {j \in Key : RootOf(j) = added[1]}
      BY <1>1, <2>5 DEF Install, EvictedKeys
    <3>2. Len(Tail(added)) <= MaxExtraRoots
      BY <2>2, <2>5 DEF PoolInv, TypeOK
    <3>3. Range(added) \subseteq {added[1]} \cup Range(Tail(added))
      BY <2>2, <2>5, RangeOfTail
    <3> QED
      BY <2>3, <2>4, <3>1, <3>2, <3>3 DEF PoolInv, Roots
  <2>6. CASE added = extraRoots \/ Len(added) <= MaxExtraRoots
    <3>1. extraRoots' = added
      BY <1>1, <2>6 DEF Install, TypeOK, PoolInv
    <3>2. Len(added) <= MaxExtraRoots
      BY <2>6 DEF PoolInv
    <3> QED
      BY <2>3, <2>4, <3>1, <3>2 DEF PoolInv, Roots
  <2>7. Len(added) \in Nat
    BY <2>2
  <2> QED
    BY <2>5, <2>6, <2>7
<1>2. ASSUME NEW c \in Client, WatcherSeesDeath(c)
     PROVE PoolInv'
  BY <1>2 DEF WatcherSeesDeath, TypeOK, CallerInv, PoolInv, Roots, Holding, procs, caller
<1>3. ASSUME NEW k \in Key, KillAndEvict(k)
     PROVE PoolInv'
  BY <1>3 DEF KillAndEvict, TypeOK, CallerInv, PoolInv, Roots, Holding, procs, caller
<1>4. ASSUME Shutdown
     PROVE PoolInv'
  BY <1>4 DEF Shutdown, TypeOK, CallerInv, PoolInv, Roots, Holding, procs, caller
<1>5. ASSUME NEW a \in Caller,
            \/ Call(a) \/ GiveUp(a) \/ TurnBack(a) \/ JoinSession(a) \/ OpenSession(a)
            \/ Wake(a) \/ WithinBudget(a) \/ OverBudget(a) \/ StartClient(a)
            \/ StartFails(a) \/ Initialized(a) \/ InitializeFails(a) \/ Abandoned(a)
            \/ SpawnFailed(a) \/ KillVictim(a) \/ Watch(a)
     PROVE PoolInv'
  BY <1>5 DEF Call, GiveUp, Return, TurnBack, JoinSession, OpenSession, Wake,
       WithinBudget, OverBudget, OpenGate, StartClient, StartFails, Initialized,
       InitializeFails, ShutDown, Abandoned, SpawnFailed, KillVictim, Slain, Watch, PoolInv, pool,
       procs, Roots
<1>6. ASSUME NEW c \in Client,
            WatcherLeaves(c) \/ Crash(c) \/ TearDown(c) \/ KillEvicted(c) \/ ShutdownClient(c)
     PROVE PoolInv'
  BY <1>6 DEF WatcherLeaves, Crash, TearDown, KillEvicted, Slain, ShutdownClient, ShutDown, PoolInv,
       pool, procs, caller, Roots
<1> QED
  BY <1>1, <1>2, <1>3, <1>4, <1>5, <1>6 DEF Next, Step, ClientStep

LEMMA InvInit == Init => LspInv
<1> SUFFICES ASSUME Init PROVE LspInv
  OBVIOUS
<1>1. TypeOK
  <2>1. extraRoots \in Seq(Root)
    BY DEF Init
  <2> QED
    BY <2>1 DEF Init, TypeOK, Spawning
<1>2. CallerInv /\ SessionInv /\ SpawnInv
  BY DEF Init, CallerInv, SessionInv, SpawnInv, Spawning, Holding
<1>3. ClientInv /\ KilledInv /\ HeldInv
  BY DEF Init, ClientInv, KilledInv, HeldInv, Up
<1>4. BudgetInv /\ PoolInv
  BY DEF Init, BudgetInv, PoolInv, PastBudget
<1> QED
  BY <1>1, <1>2, <1>3, <1>4 DEF LspInv

LEMMA InvStutter == LspInv /\ UNCHANGED vars => LspInv'
<1> SUFFICES ASSUME LspInv, UNCHANGED vars PROVE LspInv'
  OBVIOUS
<1>1. TypeOK' /\ CallerInv' /\ SessionInv'
  BY DEF LspInv, TypeOK, CallerInv, SessionInv, vars, pool, procs, caller
<1>2. ClientInv' /\ SpawnInv' /\ KilledInv' /\ HeldInv'
  BY DEF LspInv, ClientInv, SpawnInv, KilledInv, HeldInv, Held, Alive, Up, vars, pool, procs,
       caller
<1>3. BudgetInv' /\ PoolInv'
  BY DEF LspInv, BudgetInv, PoolInv, Roots, vars, pool, procs, caller
<1> QED
  BY <1>1, <1>2, <1>3 DEF LspInv

LEMMA Inductive == Spec => []LspInv
<1>1. LspInv /\ [Next]_vars => LspInv'
  BY InvStutter, TypeStep, CallerStep, SessionStep, ClientStepKeeps, SpawnStep, KilledStep,
     HeldStep, BudgetStep, PoolStep DEF LspInv
<1> QED
  BY <1>1, InvInit, PTL DEF Spec

\* Every variable keeps its type, for any callers, keys and clients.
THEOREM TypeCorrect == Spec => []TypeOK
<1>1. LspInv => TypeOK
  BY DEF LspInv
<1> QED
  BY <1>1, Inductive, PTL

\* No server that is up is out of everybody's sight, however crashes, torn down clients,
\* evictions, spawns and Shutdown fall together (clientFor, evictOldestRootLocked, KillAndEvict, Shutdown).
THEOREM ServersKept == Spec => []NoneLost
<1>1. LspInv => NoneLost
  <2> SUFFICES ASSUME LspInv, NEW c \in Client, Up(c)
               PROVE  c \in Range(live) \cup Range(hand) \cup Doomed
    BY DEF NoneLost
  <2>1. Held(c)
    BY DEF LspInv, HeldInv
  <2>2. /\ DOMAIN live = Key /\ DOMAIN hand = Caller
    BY DEF LspInv, TypeOK
  <2>3. CASE \E k \in Key : live[k] = c
    BY <2>2, <2>3 DEF Range
  <2>4. CASE \E a \in Caller : pc[a] \in {"init", "install"} /\ hand[a] = c
    BY <2>2, <2>4 DEF Range
  <2>5. CASE (\E a \in Caller : c \in victims[a]) \/ c \in evicted \/ c \in closing
    BY <2>5, InDoomed
  <2> QED
    BY <2>1, <2>3, <2>4, <2>5 DEF Held
<1> QED
  BY <1>1, Inductive, PTL

\* Two servers of one key are up at once only when one of them is to be killed, for any number
\* of callers (clientFor's single flight).
THEOREM SingleFlight == Spec => []OneUpPerKey
<1>1. LspInv => OneUpPerKey
  <2> SUFFICES ASSUME LspInv, NEW c \in Client, NEW d \in Client,
                      Up(c), Up(d),
                      keyOf[c] = keyOf[d], {c, d} \cap Doomed = {}
               PROVE  c = d
    BY DEF OneUpPerKey
  <2> DEFINE Installed(e) == \E k \in Key : live[k] = e
             InHand(e) == \E a \in Caller : pc[a] \in {"init", "install"} /\ hand[a] = e
  <2>1. \A e \in {c, d} : Installed(e) \/ InHand(e)
    <3> SUFFICES ASSUME NEW e \in {c, d} PROVE Installed(e) \/ InHand(e)
      OBVIOUS
    <3>1. Held(e)
      BY DEF LspInv, HeldInv
    <3>2. e \notin Doomed
      OBVIOUS
    <3>3. e \notin evicted /\ e \notin closing /\ \A a \in Caller : e \notin victims[a]
      BY <3>2, InDoomed
    <3> QED
      BY <3>1, <3>3 DEF Held
  <2>2. \A e \in {c, d} : Installed(e) => live[keyOf[e]] = e /\ keyOf[e] \in Key
    BY NameAssumption DEF LspInv, ClientInv
  <2>3. ASSUME NEW e \in {c, d}, InHand(e)
        PROVE  \E a \in Caller : /\ pc[a] \in {"init", "install"} /\ hand[a] = e
                                 /\ want[a] = keyOf[e] /\ sessions[keyOf[e]] = a
                                 /\ ~Alive(live[keyOf[e]])
    BY <2>3, NameAssumption DEF LspInv, ClientInv, SessionInv, SpawnInv, Spawning
  <2>4. CASE Installed(c) /\ Installed(d)
    BY <2>2, <2>4
  <2>5. CASE Installed(c) /\ InHand(d)
    BY <2>2, <2>3, <2>5, NameAssumption DEF Alive, Up
  <2>6. CASE InHand(c) /\ Installed(d)
    BY <2>2, <2>3, <2>6, NameAssumption DEF Alive, Up
  <2>7. CASE InHand(c) /\ InHand(d)
    BY <2>3, <2>7
  <2> QED
    BY <2>1, <2>4, <2>5, <2>6, <2>7
<1> QED
  BY <1>1, Inductive, PTL

\* Nobody waits for a call that will not close its session (clientFor's error paths).
THEOREM WaitersWoken == Spec => []WaitersHaveSpawner
<1>1. LspInv => WaitersHaveSpawner
  BY DEF LspInv, SessionInv, WaitersHaveSpawner, Spawning
<1> QED
  BY <1>1, Inductive, PTL

\* For any maxRestarts, the budget of restarts is overdrawn by one crash at most.
THEOREM BudgetOverdrawnByOne == Spec => []BudgetHolds
<1>1. LspInv => BudgetHolds
  BY DEF LspInv, BudgetInv, BudgetHolds
<1> QED
  BY <1>1, Inductive, PTL

\* For any maxExtraRoots, the pool stays within it and reports every live client.
THEOREM PoolIsReported == Spec => []PoolReported
<1>1. LspInv => PoolReported
  BY DEF LspInv, PoolInv, PoolReported, LiveServers, Alive
<1> QED
  BY <1>1, Inductive, PTL

=============================================================================
