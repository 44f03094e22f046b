------------------------- MODULE McpRegistryProofs -------------------------
(***************************************************************************)
(* What McpRegistry.tla keeps true for any callers, configurations, dials  *)
(* and bounds, from one inductive invariant, McpInv.                       *)
(***************************************************************************)
EXTENDS McpRegistry, TLAPS

Dialled == {"join", "dial", "adopt"}
Connecting == Dialled \cup {"invalidate", "connect"}
Using == {"send", "await", "evict"}

\* What the place of a call or of the reload says of what it holds.
PlaceInv ==
  /\ \A a \in Caller : pc[a] \notin {"drain", "disconnect", "uncache", "close", "finish"}
  /\ pc[Reloader] \notin {"lookup", "reconnect", "invalidate"} \cup Using
  /\ \A a \in Actor : pc[a] \in Connecting => config[a] # None
  /\ \A a \in Actor : entry[a] # None <=> pc[a] \in Dialled
  /\ \A a \in Caller : pc[a] # "idle" => a \in inflight

\* A dial under way is in the cache under its configuration, and one actor makes it; whoever
\* makes a dial or waits for one has it under its own configuration.
CacheInv ==
  /\ \A d \in Dial : configOf[d] = None <=> dial[d] = "none"
  /\ \A c \in Config : cache[c] # None => configOf[cache[c]] = c
  /\ \A d \in Dial : dial[d] = "dialing" =>
       /\ cache[configOf[d]] = d
       /\ \E a \in Actor : pc[a] = "dial" /\ entry[a] = d
  /\ \A a \in Actor : pc[a] = "dial" => dial[entry[a]] = "dialing"
  /\ \A a, b \in Actor : pc[a] = "dial" /\ pc[b] = "dial" /\ entry[a] = entry[b] => a = b

\* A process belongs to a dial that succeeded, and only such a dial is used or closed.
ServerInv ==
  /\ \A d \in Dial : server[d] # "none" <=> dial[d] = "connected"
  /\ \A a \in Caller : pc[a] \in Using => Connected(held[a])
  /\ pc[Reloader] \in {"uncache", "close"} => Connected(held[Reloader])
  /\ \A d \in closing : dial[d] = "connected"

\* How often a call has sent its request, place by place; from the invalidation of the cache on,
\* the connection that failed is out of its way.
SentInv ==
  \A a \in Caller :
    /\ sent[a] = 0 <=> first[a] = None
    /\ sent[a] = 0 \/ Connected(first[a])
    /\ pc[a] \in {"idle", "lookup"} => sent[a] = 0
    /\ pc[a] \in {"await", "evict"} => sent[a] \in {1, 2}
    /\ pc[a] \notin {"await", "evict"} => sent[a] \in {0, 1}
    /\ pc[a] \in {"await", "evict"} /\ sent[a] = 1 => first[a] = held[a]
    /\ pc[a] = "connect" /\ sent[a] = 1 => cache[config[a]] # first[a]
    /\ pc[a] \in Dialled /\ sent[a] = 1 => entry[a] # first[a]
    /\ pc[a] = "send" /\ sent[a] = 1 => held[a] # first[a]
    /\ sent[a] = 2 => held[a] # first[a]

\* From a look at the counter that found no call until the old connection is closed, every
\* call in flight has entered since.
DrainInv ==
  pc[Reloader] \in {"disconnect", "uncache", "close"} /\ ~late => inflight \subseteq entered

McpInv == TypeOK /\ PlaceInv /\ CacheInv /\ ServerInv /\ SentInv /\ DrainInv /\ NothingAfterClose

USE NameAssumption, DialAssumption, BoundAssumption

LEMMA TypeStep == TypeOK /\ PlaceInv /\ ServerInv /\ SentInv /\ Next => TypeOK'
<1> SUFFICES ASSUME TypeOK, PlaceInv, ServerInv, SentInv, Next
             PROVE  TypeOK'
  OBVIOUS
<1>1. ASSUME NEW a \in Caller, EnterCall(a) PROVE TypeOK'
  BY <1>1 DEF EnterCall, Goto, TypeOK, Place, Actor, registry, dials
<1>2. ASSUME NEW a \in Caller, GetConnection(a) PROVE TypeOK'
  BY <1>2 DEF GetConnection, Connected, Goto, TypeOK, Place, Actor, registry, dials,
       reload, bounds
<1>3. ASSUME NEW a \in Caller, Send(a) PROVE TypeOK'
  <2>1. sent[a] \in {0, 1} /\ held[a] \in Dial
    BY <1>3 DEF Send, TypeOK, SentInv, ServerInv, Connected, Using, Actor
  <2> QED
    BY <1>3, <2>1 DEF Send, Goto, TypeOK, Place, Actor, registry, dials, reload, bounds
<1>4. ASSUME NEW a \in Caller, Answered(a) PROVE TypeOK'
  BY <1>4 DEF Answered, Return, Goto, TypeOK, Place, Actor, registry, dials, reload,
       bounds
<1>5. ASSUME NEW a \in Caller, ConnectionDead(a) PROVE TypeOK'
  BY <1>5 DEF ConnectionDead, Goto, TypeOK, Place, Actor, registry, dials, call,
       reload, bounds
<1>6. ASSUME NEW a \in Caller, Evict(a) PROVE TypeOK'
  <2>1. held[a] \in Dial
    BY <1>6 DEF Evict, TypeOK, ServerInv, Connected, Using, Actor
  <2>2. connection' \in Dial \cup {None} /\ closing' \subseteq Dial
    BY <1>6, <2>1 DEF Evict, TypeOK
  <2>3. CASE Return(a)
    BY <1>6, <2>2, <2>3 DEF Evict, Return, Goto, TypeOK, Place, Actor, dials, reload,
         bounds
  <2>4. CASE Goto(a, "reconnect") /\ UNCHANGED <<call, config>>
    BY <1>6, <2>2, <2>4 DEF Evict, Goto, TypeOK, Place, Actor, dials, call, reload, bounds
  <2> QED
    BY <1>6, <2>3, <2>4 DEF Evict
<1>7. ASSUME NEW a \in Caller, Reconnect(a) PROVE TypeOK'
  BY <1>7 DEF Reconnect, Return, Goto, TypeOK, Place, Actor, registry, dials, call,
       reload, bounds
<1>8. ASSUME NEW a \in Caller, InvalidateCache(a) PROVE TypeOK'
  BY <1>8 DEF InvalidateCache, Invalidated, Goto, TypeOK, Place, Actor, registry, call,
       reload, bounds
<1>9. ASSUME NEW a \in Actor, JoinDial(a) PROVE TypeOK'
  BY <1>9 DEF JoinDial, Goto, TypeOK, PlaceInv, Dialled, Connecting, Place, Actor,
       registry, dials, call, reload, bounds
<1>10. ASSUME NEW a \in Actor, OpenDial(a) PROVE TypeOK'
  BY <1>10 DEF OpenDial, Goto, TypeOK, PlaceInv, Dialled, Connecting, Place, Actor,
       registry, dials, call, reload, bounds
<1>11. ASSUME NEW a \in Actor, DialEnds(a) PROVE TypeOK'
  BY <1>11 DEF DialEnds, Goto, TypeOK, PlaceInv, Dialled, Connecting, Place, Actor,
       registry, dials, call, reload, bounds
<1>12. ASSUME NEW a \in Actor, Joined(a) PROVE TypeOK'
  BY <1>12 DEF Joined, Goto, TypeOK, Place, Actor, registry, dials, call, reload, bounds
<1>13. ASSUME NEW a \in Actor, Reject(a) PROVE TypeOK'
  <2>1. entry[a] \in Dial
    BY <1>13 DEF Reject, TypeOK, PlaceInv, Dialled
  <2>2. closing' \subseteq Dial
    BY <1>13, <2>1 DEF Reject, TypeOK
  <2>3. CASE a # Reloader /\ Return(a)
    BY <1>13, <2>2, <2>3 DEF Reject, Return, Goto, TypeOK, Place, Actor, registry, dials,
         reload, bounds
  <2>4. CASE Goto(a, "finish") /\ UNCHANGED <<call, config>>
    BY <1>13, <2>2, <2>4 DEF Reject, Goto, TypeOK, Place, Actor, registry, dials, call,
         reload, bounds
  <2> QED
    BY <1>13, <2>3, <2>4 DEF Reject
<1>14. ASSUME NEW a \in Actor, Adopt(a) PROVE TypeOK'
  BY <1>14 DEF Adopt, Return, Connected, Goto, TypeOK, Place, Actor, dials, call, reload,
       bounds
<1>15. ASSUME StartReload PROVE TypeOK'
  BY <1>15 DEF StartReload, Goto, TypeOK, Place, Actor, registry, dials, call
<1>16. ASSUME DrainServer PROVE TypeOK'
  BY <1>16 DEF DrainServer, Goto, TypeOK, Place, Actor, registry, dials, call, bounds
<1>17. ASSUME Disconnect PROVE TypeOK'
  BY <1>17 DEF Disconnect, Connected, AfterDisconnect, Goto, TypeOK, Place, Actor, dials,
       reload, bounds
<1>18. ASSUME Uncache PROVE TypeOK'
  BY <1>18 DEF Uncache, Invalidated, Goto, TypeOK, Place, Actor, registry, call, reload,
       bounds
<1>19. ASSUME CloseOld PROVE TypeOK'
  BY <1>19 DEF CloseOld, AfterDisconnect, Goto, TypeOK, Place, Actor, registry, call,
       reload, bounds
<1>20. ASSUME FinishReload PROVE TypeOK'
  BY <1>20 DEF FinishReload, Goto, TypeOK, Place, Actor, dials, bounds
<1>21. ASSUME Close PROVE TypeOK'
  BY <1>21 DEF Close, Connected, TypeOK, Place, Actor, dials, call, reload, bounds
<1>22. ASSUME NEW d \in Dial, CloseServer(d) PROVE TypeOK'
  BY <1>22 DEF CloseServer, TypeOK, Place, Actor, registry, call, reload, bounds
<1>23. ASSUME NEW d \in Dial, ServerDies(d) PROVE TypeOK'
  BY <1>23 DEF ServerDies, TypeOK, Place, Actor, registry, call, reload, bounds
<1> QED
  BY <1>1, <1>2, <1>3, <1>4, <1>5, <1>6, <1>7, <1>8, <1>9, <1>10, <1>11, <1>12, <1>13,
       <1>14, <1>15, <1>16, <1>17, <1>18, <1>19, <1>20, <1>21, <1>22, <1>23 DEF Next,
       CallStep, ReloadStep, Connect, Actor

LEMMA PlaceStep == TypeOK /\ PlaceInv /\ Next => PlaceInv'
<1> SUFFICES ASSUME TypeOK, PlaceInv, Next
             PROVE  PlaceInv'
  OBVIOUS
<1>1. ASSUME NEW a \in Caller, EnterCall(a) PROVE PlaceInv'
  BY <1>1 DEF EnterCall, Goto, TypeOK, Actor, PlaceInv, Connecting, Dialled, Using, Place,
       registry, dials
<1>2. ASSUME NEW a \in Caller, GetConnection(a) PROVE PlaceInv'
  BY <1>2 DEF GetConnection, Connected, Goto, TypeOK, Actor, PlaceInv, Connecting,
       Dialled, Using, Place, registry, dials, reload, bounds
<1>3. ASSUME NEW a \in Caller, Send(a) PROVE PlaceInv'
  BY <1>3 DEF Send, Goto, TypeOK, Actor, PlaceInv, Connecting, Dialled, Using, Place,
       registry, dials, reload, bounds
<1>4. ASSUME NEW a \in Caller, Answered(a) PROVE PlaceInv'
  BY <1>4 DEF Answered, Return, Goto, TypeOK, Actor, PlaceInv, Connecting, Dialled, Using,
       Place, registry, dials, reload, bounds
<1>5. ASSUME NEW a \in Caller, ConnectionDead(a) PROVE PlaceInv'
  BY <1>5 DEF ConnectionDead, Goto, TypeOK, Actor, PlaceInv, Connecting, Dialled,
       Using, Place, registry, dials, call, reload, bounds
<1>6. ASSUME NEW a \in Caller, Evict(a) PROVE PlaceInv'
  BY <1>6 DEF Evict, Return, Goto, TypeOK, Actor, PlaceInv, Connecting, Dialled, Using,
       Place, dials, call, reload, bounds
<1>7. ASSUME NEW a \in Caller, Reconnect(a) PROVE PlaceInv'
  BY <1>7 DEF Reconnect, Return, Goto, TypeOK, Actor, PlaceInv, Connecting, Dialled,
       Using, Place, registry, dials, call, reload, bounds
<1>8. ASSUME NEW a \in Caller, InvalidateCache(a) PROVE PlaceInv'
  BY <1>8 DEF InvalidateCache, Invalidated, Goto, TypeOK, Actor, PlaceInv, Connecting,
       Dialled, Using, Place, registry, call, reload, bounds
<1>9. ASSUME NEW a \in Actor, JoinDial(a) PROVE PlaceInv'
  BY <1>9 DEF JoinDial, Goto, TypeOK, Actor, PlaceInv, Connecting, Dialled, Using, Place,
       registry, dials, call, reload, bounds
<1>10. ASSUME NEW a \in Actor, OpenDial(a) PROVE PlaceInv'
  BY <1>10 DEF OpenDial, Goto, TypeOK, Actor, PlaceInv, Connecting, Dialled, Using, Place,
       registry, call, reload, bounds
<1>11. ASSUME NEW a \in Actor, DialEnds(a) PROVE PlaceInv'
  BY <1>11 DEF DialEnds, Goto, TypeOK, Actor, PlaceInv, Connecting, Dialled, Using, Place,
       registry, call, reload, bounds
<1>12. ASSUME NEW a \in Actor, Joined(a) PROVE PlaceInv'
  BY <1>12 DEF Joined, Goto, TypeOK, Actor, PlaceInv, Connecting, Dialled, Using, Place,
       registry, dials, call, reload, bounds
<1>13. ASSUME NEW a \in Actor, Reject(a) PROVE PlaceInv'
  BY <1>13 DEF Reject, Return, Connected, Goto, TypeOK, Actor, PlaceInv, Connecting,
       Dialled, Using, Place, registry, dials, call, reload, bounds
<1>14. ASSUME NEW a \in Actor, Adopt(a) PROVE PlaceInv'
  BY <1>14 DEF Adopt, Return, Connected, Goto, TypeOK, Actor, PlaceInv, Connecting,
       Dialled, Using, Place, dials, call, reload, bounds
<1>15. ASSUME StartReload PROVE PlaceInv'
  BY <1>15 DEF StartReload, Goto, TypeOK, Actor, PlaceInv, Connecting, Dialled, Using,
       Place, registry, dials, call
<1>16. ASSUME DrainServer PROVE PlaceInv'
  BY <1>16 DEF DrainServer, Goto, TypeOK, Actor, PlaceInv, Connecting, Dialled, Using,
       Place, registry, dials, call, bounds
<1>17. ASSUME Disconnect PROVE PlaceInv'
  BY <1>17 DEF Disconnect, Connected, AfterDisconnect, Goto, TypeOK, Actor, PlaceInv,
       Connecting, Dialled, Using, Place, dials, reload, bounds
<1>18. ASSUME Uncache PROVE PlaceInv'
  BY <1>18 DEF Uncache, Invalidated, Goto, TypeOK, Actor, PlaceInv, Connecting, Dialled,
       Using, Place, registry, call, reload, bounds
<1>19. ASSUME CloseOld PROVE PlaceInv'
  BY <1>19 DEF CloseOld, AfterDisconnect, Goto, TypeOK, Actor, PlaceInv, Connecting,
       Dialled, Using, Place, registry, call, reload, bounds
<1>20. ASSUME FinishReload PROVE PlaceInv'
  BY <1>20 DEF FinishReload, Goto, TypeOK, Actor, PlaceInv, Connecting, Dialled, Using,
       Place, dials, bounds
<1>21. ASSUME 
            Close
     PROVE PlaceInv'
  BY <1>21 DEF Close, Connected, PlaceInv, Actor, dials, call, reload, bounds
<1>22. ASSUME NEW d \in Dial,
            \/ CloseServer(d) \/ ServerDies(d)
     PROVE PlaceInv'
  BY <1>22 DEF CloseServer, ServerDies, PlaceInv, Actor, registry, call, reload, bounds
<1> QED
  BY <1>1, <1>2, <1>3, <1>4, <1>5, <1>6, <1>7, <1>8, <1>9, <1>10, <1>11, <1>12, <1>13,
       <1>14, <1>15, <1>16, <1>17, <1>18, <1>19, <1>20, <1>21, <1>22 DEF Next, CallStep,
       ReloadStep, Connect, Actor

LEMMA CacheStep == TypeOK /\ PlaceInv /\ CacheInv /\ Next => CacheInv'
<1> SUFFICES ASSUME TypeOK, PlaceInv, CacheInv, Next
             PROVE  CacheInv'
  OBVIOUS
<1>1. ASSUME NEW a \in Caller, EnterCall(a) PROVE CacheInv'
  BY <1>1 DEF EnterCall, Goto, TypeOK, Actor, PlaceInv, CacheInv, Connecting, Dialled,
       Using, Place, registry, dials
<1>2. ASSUME NEW a \in Caller, GetConnection(a) PROVE CacheInv'
  BY <1>2 DEF GetConnection, Connected, Goto, TypeOK, Actor, PlaceInv, CacheInv,
       Connecting, Dialled, Using, Place, registry, dials, reload, bounds
<1>3. ASSUME NEW a \in Caller, Send(a) PROVE CacheInv'
  BY <1>3 DEF Send, Goto, TypeOK, Actor, PlaceInv, CacheInv, Connecting, Dialled, Using,
       Place, registry, dials, reload, bounds
<1>4. ASSUME NEW a \in Caller, Answered(a) PROVE CacheInv'
  BY <1>4 DEF Answered, Return, Goto, TypeOK, Actor, PlaceInv, CacheInv, Connecting,
       Dialled, Using, Place, registry, dials, reload, bounds
<1>5. ASSUME NEW a \in Caller, ConnectionDead(a) PROVE CacheInv'
  BY <1>5 DEF ConnectionDead, Goto, TypeOK, Actor, PlaceInv, CacheInv, Connecting,
       Dialled, Using, Place, registry, dials, call, reload, bounds
<1>6. ASSUME NEW a \in Caller, Evict(a) PROVE CacheInv'
  BY <1>6 DEF Evict, Return, Goto, TypeOK, Actor, PlaceInv, CacheInv, Connecting, Dialled,
       Using, Place, dials, call, reload, bounds
<1>7. ASSUME NEW a \in Caller, Reconnect(a) PROVE CacheInv'
  BY <1>7 DEF Reconnect, Return, Goto, TypeOK, Actor, PlaceInv, CacheInv, Connecting,
       Dialled, Using, Place, registry, dials, call, reload, bounds
<1>8. ASSUME NEW a \in Caller, InvalidateCache(a) PROVE CacheInv'
  BY <1>8 DEF InvalidateCache, Invalidated, Goto, TypeOK, Actor, PlaceInv, CacheInv,
       Connecting, Dialled, Using, Place, registry, call, reload, bounds
<1>9. ASSUME NEW a \in Actor, JoinDial(a) PROVE CacheInv'
  BY <1>9 DEF JoinDial, Goto, TypeOK, Actor, PlaceInv, CacheInv, Connecting, Dialled,
       Using, Place, registry, dials, call, reload, bounds
<1>10. ASSUME NEW a \in Actor, OpenDial(a) PROVE CacheInv'
  BY <1>10 DEF OpenDial, Goto, TypeOK, Actor, PlaceInv, CacheInv, Connecting, Dialled,
       Using, Place, registry, call, reload, bounds
<1>11. ASSUME NEW a \in Actor, DialEnds(a) PROVE CacheInv'
  BY <1>11 DEF DialEnds, Goto, TypeOK, Actor, PlaceInv, CacheInv, Connecting, Dialled,
       Using, Place, registry, call, reload, bounds
<1>12. ASSUME NEW a \in Actor, Joined(a) PROVE CacheInv'
  BY <1>12 DEF Joined, Goto, TypeOK, Actor, PlaceInv, CacheInv, Connecting, Dialled,
       Using, Place, registry, dials, call, reload, bounds
<1>13. ASSUME NEW a \in Actor, Reject(a) PROVE CacheInv'
  BY <1>13 DEF Reject, Return, Connected, Goto, TypeOK, Actor, PlaceInv, CacheInv,
       Connecting, Dialled, Using, Place, registry, dials, call, reload, bounds
<1>14. ASSUME NEW a \in Actor, Adopt(a) PROVE CacheInv'
  BY <1>14 DEF Adopt, Return, Connected, Goto, TypeOK, Actor, PlaceInv, CacheInv,
       Connecting, Dialled, Using, Place, dials, call, reload, bounds
<1>15. ASSUME StartReload PROVE CacheInv'
  BY <1>15 DEF StartReload, Goto, TypeOK, Actor, PlaceInv, CacheInv, Connecting, Dialled,
       Using, Place, registry, dials, call
<1>16. ASSUME DrainServer PROVE CacheInv'
  BY <1>16 DEF DrainServer, Goto, TypeOK, Actor, PlaceInv, CacheInv, Connecting, Dialled,
       Using, Place, registry, dials, call, bounds
<1>17. ASSUME Disconnect PROVE CacheInv'
  BY <1>17 DEF Disconnect, Connected, AfterDisconnect, Goto, TypeOK, Actor, PlaceInv,
       CacheInv, Connecting, Dialled, Using, Place, dials, reload, bounds
<1>18. ASSUME Uncache PROVE CacheInv'
  BY <1>18 DEF Uncache, Invalidated, Goto, TypeOK, Actor, PlaceInv, CacheInv, Connecting,
       Dialled, Using, Place, registry, call, reload, bounds
<1>19. ASSUME CloseOld PROVE CacheInv'
  BY <1>19 DEF CloseOld, AfterDisconnect, Goto, TypeOK, Actor, PlaceInv, CacheInv,
       Connecting, Dialled, Using, Place, registry, call, reload, bounds
<1>20. ASSUME FinishReload PROVE CacheInv'
  BY <1>20 DEF FinishReload, Goto, TypeOK, Actor, PlaceInv, CacheInv, Connecting, Dialled,
       Using, Place, dials, bounds
<1>21. ASSUME 
            Close
     PROVE CacheInv'
  BY <1>21 DEF Close, Connected, CacheInv, dials, call, reload, bounds
<1>22. ASSUME NEW d \in Dial,
            \/ CloseServer(d) \/ ServerDies(d)
     PROVE CacheInv'
  BY <1>22 DEF CloseServer, ServerDies, CacheInv, registry, call, reload, bounds
<1> QED
  BY <1>1, <1>2, <1>3, <1>4, <1>5, <1>6, <1>7, <1>8, <1>9, <1>10, <1>11, <1>12, <1>13,
       <1>14, <1>15, <1>16, <1>17, <1>18, <1>19, <1>20, <1>21, <1>22 DEF Next, CallStep,
       ReloadStep, Connect, Actor

LEMMA ServerStep == TypeOK /\ PlaceInv /\ CacheInv /\ ServerInv /\ Next => ServerInv'
<1> SUFFICES ASSUME TypeOK, PlaceInv, CacheInv, ServerInv, Next
             PROVE  ServerInv'
  OBVIOUS
<1>1. ASSUME NEW a \in Caller, EnterCall(a) PROVE ServerInv'
  BY <1>1 DEF EnterCall, Goto, TypeOK, Actor, PlaceInv, CacheInv, ServerInv, Connected,
       Dialled, Using, Place, registry, dials
<1>2. ASSUME NEW a \in Caller, GetConnection(a) PROVE ServerInv'
  BY <1>2 DEF GetConnection, Connected, Goto, TypeOK, Actor, PlaceInv, CacheInv,
       ServerInv, Connected, Dialled, Using, Place, registry, dials, reload, bounds
<1>3. ASSUME NEW a \in Caller, Send(a) PROVE ServerInv'
  BY <1>3 DEF Send, Goto, TypeOK, Actor, PlaceInv, CacheInv, ServerInv, Connected,
       Dialled, Using, Place, registry, dials, reload, bounds
<1>4. ASSUME NEW a \in Caller, Answered(a) PROVE ServerInv'
  BY <1>4 DEF Answered, Return, Goto, TypeOK, Actor, PlaceInv, CacheInv, ServerInv,
       Connected, Dialled, Using, Place, registry, dials, reload, bounds
<1>5. ASSUME NEW a \in Caller, ConnectionDead(a) PROVE ServerInv'
  BY <1>5 DEF ConnectionDead, Goto, TypeOK, Actor, PlaceInv, CacheInv, ServerInv,
       Connected, Dialled, Using, Place, registry, dials, call, reload, bounds
<1>6. ASSUME NEW a \in Caller, Evict(a) PROVE ServerInv'
  <2>1. held[a] \in Dial /\ dial[held[a]] = "connected"
    BY <1>6 DEF Evict, TypeOK, ServerInv, Connected, Using, Actor
  <2>2. \A d \in closing' : dial[d] = "connected"
    BY <1>6, <2>1 DEF Evict, ServerInv
  <2>3. UNCHANGED <<server, dial>> /\ \A b \in Actor \ {a} : pc'[b] = pc[b] /\ held'[b] = held[b]
    BY <1>6 DEF Evict, Return, Goto, TypeOK, dials, call
  <2>4. pc'[a] \in {"idle", "reconnect"} /\ a # Reloader
    BY <1>6 DEF Evict, Return, Goto, TypeOK, Actor
  <2> QED
    BY <2>2, <2>3, <2>4 DEF ServerInv, Connected, Using, Actor
<1>7. ASSUME NEW a \in Caller, Reconnect(a) PROVE ServerInv'
  BY <1>7 DEF Reconnect, Return, Goto, TypeOK, Actor, PlaceInv, CacheInv, ServerInv,
       Connected, Dialled, Using, Place, registry, dials, call, reload, bounds
<1>8. ASSUME NEW a \in Caller, InvalidateCache(a) PROVE ServerInv'
  BY <1>8 DEF InvalidateCache, Invalidated, Goto, TypeOK, Actor, PlaceInv, CacheInv,
       ServerInv, Connected, Dialled, Using, Place, registry, call, reload, bounds
<1>9. ASSUME NEW a \in Actor, JoinDial(a) PROVE ServerInv'
  BY <1>9 DEF JoinDial, Goto, TypeOK, Actor, PlaceInv, CacheInv, ServerInv, Connected,
       Dialled, Using, Place, registry, dials, call, reload, bounds
<1>10. ASSUME NEW a \in Actor, OpenDial(a) PROVE ServerInv'
  BY <1>10 DEF OpenDial, Goto, TypeOK, Actor, PlaceInv, CacheInv, ServerInv, Connected,
       Dialled, Using, Place, registry, call, reload, bounds
<1>11. ASSUME NEW a \in Actor, DialEnds(a) PROVE ServerInv'
  BY <1>11 DEF DialEnds, Goto, TypeOK, Actor, PlaceInv, CacheInv, ServerInv, Connected,
       Dialled, Using, Place, registry, call, reload, bounds
<1>12. ASSUME NEW a \in Actor, Joined(a) PROVE ServerInv'
  BY <1>12 DEF Joined, Goto, TypeOK, Actor, PlaceInv, CacheInv, ServerInv, Connected,
       Dialled, Using, Place, registry, dials, call, reload, bounds
<1>13. ASSUME NEW a \in Actor, Reject(a) PROVE ServerInv'
  BY <1>13 DEF Reject, Return, Connected, Goto, TypeOK, Actor, PlaceInv, CacheInv,
       ServerInv, Connected, Dialled, Using, Place, registry, dials, call, reload, bounds
<1>14. ASSUME NEW a \in Actor, Adopt(a) PROVE ServerInv'
  BY <1>14 DEF Adopt, Return, Connected, Goto, TypeOK, Actor, PlaceInv, CacheInv,
       ServerInv, Connected, Dialled, Using, Place, dials, call, reload, bounds
<1>15. ASSUME StartReload PROVE ServerInv'
  BY <1>15 DEF StartReload, Goto, TypeOK, Actor, PlaceInv, CacheInv, ServerInv, Connected,
       Dialled, Using, Place, registry, dials, call
<1>16. ASSUME DrainServer PROVE ServerInv'
  BY <1>16 DEF DrainServer, Goto, TypeOK, Actor, PlaceInv, CacheInv, ServerInv, Connected,
       Dialled, Using, Place, registry, dials, call, bounds
<1>17. ASSUME Disconnect PROVE ServerInv'
  BY <1>17 DEF Disconnect, Connected, AfterDisconnect, Goto, TypeOK, Actor, PlaceInv,
       CacheInv, ServerInv, Connected, Dialled, Using, Place, dials, reload, bounds
<1>18. ASSUME Uncache PROVE ServerInv'
  BY <1>18 DEF Uncache, Invalidated, Goto, TypeOK, Actor, PlaceInv, CacheInv, ServerInv,
       Connected, Dialled, Using, Place, registry, call, reload, bounds
<1>19. ASSUME CloseOld PROVE ServerInv'
  BY <1>19 DEF CloseOld, AfterDisconnect, Goto, TypeOK, Actor, PlaceInv, CacheInv,
       ServerInv, Connected, Dialled, Using, Place, registry, call, reload, bounds
<1>20. ASSUME FinishReload PROVE ServerInv'
  BY <1>20 DEF FinishReload, Goto, TypeOK, Actor, PlaceInv, CacheInv, ServerInv,
       Connected, Dialled, Using, Place, dials, bounds
<1>21. ASSUME Close PROVE ServerInv'
  BY <1>21 DEF Close, Connected, TypeOK, Actor, PlaceInv, CacheInv, ServerInv, Connected,
       Dialled, Using, Place, dials, call, reload, bounds
<1>22. ASSUME NEW d \in Dial, CloseServer(d) PROVE ServerInv'
  BY <1>22 DEF CloseServer, TypeOK, Actor, PlaceInv, CacheInv, ServerInv, Connected,
       Dialled, Using, Place, registry, call, reload, bounds
<1>23. ASSUME NEW d \in Dial, ServerDies(d) PROVE ServerInv'
  BY <1>23 DEF ServerDies, TypeOK, Actor, PlaceInv, CacheInv, ServerInv, Connected,
       Dialled, Using, Place, registry, call, reload, bounds
<1> QED
  BY <1>1, <1>2, <1>3, <1>4, <1>5, <1>6, <1>7, <1>8, <1>9, <1>10, <1>11, <1>12, <1>13,
       <1>14, <1>15, <1>16, <1>17, <1>18, <1>19, <1>20, <1>21, <1>22, <1>23 DEF Next,
       CallStep, ReloadStep, Connect, Actor

LEMMA SentStep ==
  TypeOK /\ PlaceInv /\ CacheInv /\ ServerInv /\ SentInv /\ Next
  => SentInv'
<1> SUFFICES ASSUME TypeOK, PlaceInv, CacheInv, ServerInv, SentInv, Next
             PROVE  SentInv'
  OBVIOUS
<1>1. ASSUME NEW a \in Caller, EnterCall(a) PROVE SentInv'
  BY <1>1 DEF EnterCall, Goto, TypeOK, Actor, PlaceInv, CacheInv, ServerInv, SentInv,
       Connected, Dialled, Using, Place, registry, dials
<1>2. ASSUME NEW a \in Caller, GetConnection(a) PROVE SentInv'
  BY <1>2 DEF GetConnection, Connected, Goto, TypeOK, Actor, PlaceInv, CacheInv,
       ServerInv, SentInv, Connected, Dialled, Using, Place, registry, dials, reload,
       bounds
<1>3. ASSUME NEW a \in Caller, Send(a) PROVE SentInv'
  BY <1>3 DEF Send, Goto, TypeOK, Actor, PlaceInv, CacheInv, ServerInv, SentInv,
       Connected, Dialled, Using, Place, registry, dials, reload, bounds
<1>4. ASSUME NEW a \in Caller, Answered(a) PROVE SentInv'
  BY <1>4 DEF Answered, Return, Goto, TypeOK, Actor, PlaceInv, CacheInv, ServerInv,
       SentInv, Connected, Dialled, Using, Place, registry, dials, reload, bounds
<1>5. ASSUME NEW a \in Caller, ConnectionDead(a) PROVE SentInv'
  BY <1>5 DEF ConnectionDead, Goto, TypeOK, Actor, SentInv, Connected, Dialled, dials, call
<1>6. ASSUME NEW a \in Caller, Evict(a) PROVE SentInv'
  BY <1>6 DEF Evict, Return, Goto, TypeOK, Actor, PlaceInv, CacheInv, ServerInv, SentInv,
       Connected, Dialled, Using, Place, dials, call, reload, bounds
<1>7. ASSUME NEW a \in Caller, Reconnect(a) PROVE SentInv'
  BY <1>7 DEF Reconnect, Return, Goto, TypeOK, Actor, PlaceInv, CacheInv, ServerInv,
       SentInv, Connected, Dialled, Using, Place, registry, dials, call, reload, bounds
<1>8. ASSUME NEW a \in Caller, InvalidateCache(a) PROVE SentInv'
  <2>1. /\ UNCHANGED <<dial, config, entry, held, sent, first>>
        /\ pc[a] = "invalidate" /\ pc' = [pc EXCEPT ![a] = "connect"]
    BY <1>8 DEF InvalidateCache, Goto, call
  <2>2. config[a] \in Config
    BY <2>1 DEF PlaceInv, TypeOK, Connecting, Actor
  <2>3. /\ \A c \in Config : cache'[c] \in {cache[c], None}
        /\ cache'[config[a]] = None \/ dial[cache'[config[a]]] = "dialing"
    BY <1>8, <2>2 DEF InvalidateCache, Invalidated, TypeOK
  <2>4. sent[a] = 1 => cache'[config[a]] # first[a]
    BY <2>3 DEF SentInv, Connected
  <2>5. \A b \in Caller : pc[b] = "connect" /\ sent[b] = 1 => cache'[config[b]] # first[b]
    <3> SUFFICES ASSUME NEW b \in Caller, pc[b] = "connect", sent[b] = 1
                 PROVE  cache'[config[b]] # first[b]
      OBVIOUS
    <3>1. config[b] \in Config
      BY DEF PlaceInv, TypeOK, Connecting, Actor
    <3>2. first[b] # None /\ cache[config[b]] # first[b]
      BY DEF SentInv, Connected
    <3> QED
      BY <2>3, <3>1, <3>2
  <2> QED
    BY <2>1, <2>4, <2>5 DEF SentInv, Connected, TypeOK, Actor, Dialled
<1>9. ASSUME NEW a \in Actor, JoinDial(a) PROVE SentInv'
  BY <1>9 DEF JoinDial, Goto, TypeOK, Actor, PlaceInv, CacheInv, ServerInv, SentInv,
       Connected, Dialled, Using, Place, registry, dials, call, reload, bounds
<1>10. ASSUME NEW a \in Actor, OpenDial(a) PROVE SentInv'
  BY <1>10 DEF OpenDial, Goto, TypeOK, Actor, PlaceInv, CacheInv, ServerInv, SentInv,
       Connected, Dialled, Using, Place, registry, call, reload, bounds
<1>11. ASSUME NEW a \in Actor, DialEnds(a) PROVE SentInv'
  BY <1>11 DEF DialEnds, Goto, TypeOK, Actor, PlaceInv, CacheInv, ServerInv, SentInv,
       Connected, Dialled, Using, Place, registry, call, reload, bounds
<1>12. ASSUME NEW a \in Actor, Joined(a) PROVE SentInv'
  BY <1>12 DEF Joined, Goto, TypeOK, Actor, PlaceInv, CacheInv, ServerInv, SentInv,
       Connected, Dialled, Using, Place, registry, dials, call, reload, bounds
<1>13. ASSUME NEW a \in Actor, Reject(a) PROVE SentInv'
  BY <1>13 DEF Reject, Return, Connected, Goto, TypeOK, Actor, PlaceInv, CacheInv,
       ServerInv, SentInv, Connected, Dialled, Using, Place, registry, dials, call,
       reload, bounds
<1>14. ASSUME NEW a \in Actor, Adopt(a) PROVE SentInv'
  BY <1>14 DEF Adopt, Return, Connected, Goto, TypeOK, Actor, PlaceInv, CacheInv,
       ServerInv, SentInv, Connected, Dialled, Using, Place, dials, call, reload, bounds
<1>15. ASSUME StartReload PROVE SentInv'
  BY <1>15 DEF StartReload, Goto, TypeOK, Actor, PlaceInv, CacheInv, ServerInv, SentInv,
       Connected, Dialled, Using, Place, registry, dials, call
<1>16. ASSUME DrainServer PROVE SentInv'
  BY <1>16 DEF DrainServer, Goto, TypeOK, Actor, PlaceInv, CacheInv, ServerInv, SentInv,
       Connected, Dialled, Using, Place, registry, dials, call, bounds
<1>17. ASSUME Disconnect PROVE SentInv'
  BY <1>17 DEF Disconnect, Connected, AfterDisconnect, Goto, TypeOK, Actor, PlaceInv,
       CacheInv, ServerInv, SentInv, Connected, Dialled, Using, Place, dials, reload,
       bounds
<1>18. ASSUME Uncache PROVE SentInv'
  BY <1>18 DEF Uncache, Invalidated, Goto, TypeOK, Actor, PlaceInv, CacheInv, ServerInv,
       SentInv, Connected, Dialled, Using, Place, registry, call, reload, bounds
<1>19. ASSUME CloseOld PROVE SentInv'
  BY <1>19 DEF CloseOld, AfterDisconnect, Goto, TypeOK, Actor, PlaceInv, CacheInv,
       ServerInv, SentInv, Connected, Dialled, Using, Place, registry, call, reload,
       bounds
<1>20. ASSUME FinishReload PROVE SentInv'
  BY <1>20 DEF FinishReload, Goto, TypeOK, Actor, PlaceInv, CacheInv, ServerInv, SentInv,
       Connected, Dialled, Using, Place, dials, bounds
<1>21. ASSUME NEW d \in Dial, CloseServer(d) PROVE SentInv'
  BY <1>21 DEF CloseServer, TypeOK, Actor, PlaceInv, CacheInv, ServerInv, SentInv,
       Connected, Dialled, Using, Place, registry, call, reload, bounds
<1>22. ASSUME NEW d \in Dial, ServerDies(d) PROVE SentInv'
  BY <1>22 DEF ServerDies, TypeOK, Actor, PlaceInv, CacheInv, ServerInv, SentInv,
       Connected, Dialled, Using, Place, registry, call, reload, bounds
<1>23. ASSUME 
            Close
     PROVE SentInv'
  BY <1>23 DEF Close, Connected, SentInv, Connected, dials, call, reload, bounds
<1> QED
  BY <1>1, <1>2, <1>3, <1>4, <1>5, <1>6, <1>7, <1>8, <1>9, <1>10, <1>11, <1>12, <1>13,
       <1>14, <1>15, <1>16, <1>17, <1>18, <1>19, <1>20, <1>21, <1>22, <1>23 DEF Next,
       CallStep, ReloadStep, Connect, Actor

LEMMA DrainStep == TypeOK /\ PlaceInv /\ DrainInv /\ Next => DrainInv'
<1> SUFFICES ASSUME TypeOK, PlaceInv, DrainInv, Next
             PROVE  DrainInv'
  OBVIOUS
<1>1. ASSUME NEW a \in Caller, EnterCall(a) PROVE DrainInv'
  BY <1>1 DEF EnterCall, Goto, TypeOK, Actor, PlaceInv, DrainInv, Dialled, Using, Place,
       registry, dials
<1>2. ASSUME NEW a \in Caller, GetConnection(a) PROVE DrainInv'
  BY <1>2 DEF GetConnection, Connected, Goto, TypeOK, Actor, PlaceInv, DrainInv, Dialled,
       Using, Place, registry, dials, reload, bounds
<1>3. ASSUME NEW a \in Caller, Send(a) PROVE DrainInv'
  BY <1>3 DEF Send, Goto, TypeOK, Actor, PlaceInv, DrainInv, Dialled, Using, Place,
       registry, dials, reload, bounds
<1>4. ASSUME NEW a \in Caller, Answered(a) PROVE DrainInv'
  BY <1>4 DEF Answered, Return, Goto, TypeOK, Actor, PlaceInv, DrainInv, Dialled, Using,
       Place, registry, dials, reload, bounds
<1>5. ASSUME NEW a \in Caller, ConnectionDead(a) PROVE DrainInv'
  BY <1>5 DEF ConnectionDead, Goto, TypeOK, Actor, PlaceInv, DrainInv, Dialled,
       Using, Place, registry, dials, call, reload, bounds
<1>6. ASSUME NEW a \in Caller, Evict(a) PROVE DrainInv'
  BY <1>6 DEF Evict, Return, Goto, TypeOK, Actor, PlaceInv, DrainInv, Dialled, Using,
       Place, dials, call, reload, bounds
<1>7. ASSUME NEW a \in Caller, Reconnect(a) PROVE DrainInv'
  BY <1>7 DEF Reconnect, Return, Goto, TypeOK, Actor, PlaceInv, DrainInv, Dialled, Using,
       Place, registry, dials, call, reload, bounds
<1>8. ASSUME NEW a \in Caller, InvalidateCache(a) PROVE DrainInv'
  BY <1>8 DEF InvalidateCache, Invalidated, Goto, TypeOK, Actor, PlaceInv, DrainInv,
       Dialled, Using, Place, registry, call, reload, bounds
<1>9. ASSUME NEW a \in Actor, JoinDial(a) PROVE DrainInv'
  BY <1>9 DEF JoinDial, Goto, TypeOK, Actor, PlaceInv, DrainInv, Dialled, Using, Place,
       registry, dials, call, reload, bounds
<1>10. ASSUME NEW a \in Actor, OpenDial(a) PROVE DrainInv'
  BY <1>10 DEF OpenDial, Goto, TypeOK, Actor, PlaceInv, DrainInv, Dialled, Using, Place,
       registry, call, reload, bounds
<1>11. ASSUME NEW a \in Actor, DialEnds(a) PROVE DrainInv'
  BY <1>11 DEF DialEnds, Goto, TypeOK, Actor, PlaceInv, DrainInv, Dialled, Using, Place,
       registry, call, reload, bounds
<1>12. ASSUME NEW a \in Actor, Joined(a) PROVE DrainInv'
  BY <1>12 DEF Joined, Goto, TypeOK, Actor, PlaceInv, DrainInv, Dialled, Using, Place,
       registry, dials, call, reload, bounds
<1>13. ASSUME NEW a \in Actor, Reject(a) PROVE DrainInv'
  BY <1>13 DEF Reject, Return, Connected, Goto, TypeOK, Actor, PlaceInv, DrainInv,
       Dialled, Using, Place, registry, dials, call, reload, bounds
<1>14. ASSUME NEW a \in Actor, Adopt(a) PROVE DrainInv'
  <2>1. \E place \in {"finish", "send", "idle"} : Goto(a, place)
    BY <1>14 DEF Adopt, Return
  <2>2. pc'[Reloader] \in {"disconnect", "uncache", "close"} => pc'[Reloader] = pc[Reloader]
    BY <2>1 DEF Goto, TypeOK, Actor
  <2>3. inflight' \subseteq inflight /\ UNCHANGED reload
    BY <1>14 DEF Adopt, Return, call
  <2> QED
    BY <2>2, <2>3 DEF DrainInv, reload
<1>15. ASSUME StartReload PROVE DrainInv'
  <2>1. PICK drains \in BOOLEAN :
          /\ Goto(Reloader, IF configs = None THEN "connect"
                            ELSE IF drains THEN "drain" ELSE "disconnect")
          /\ late' = ~drains
    BY <1>15 DEF StartReload
  <2> QED
    BY <2>1 DEF Goto, TypeOK, Actor, DrainInv
<1>16. ASSUME DrainServer PROVE DrainInv'
  BY <1>16 DEF DrainServer, Goto, TypeOK, Actor, PlaceInv, DrainInv, Dialled, Using,
       Place, registry, dials, call, bounds
<1>17. ASSUME Disconnect PROVE DrainInv'
  BY <1>17 DEF Disconnect, Connected, AfterDisconnect, Goto, TypeOK, Actor, PlaceInv,
       DrainInv, Dialled, Using, Place, dials, reload, bounds
<1>18. ASSUME Uncache PROVE DrainInv'
  BY <1>18 DEF Uncache, Invalidated, Goto, TypeOK, Actor, PlaceInv, DrainInv, Dialled,
       Using, Place, registry, call, reload, bounds
<1>19. ASSUME CloseOld PROVE DrainInv'
  BY <1>19 DEF CloseOld, AfterDisconnect, Goto, TypeOK, Actor, PlaceInv, DrainInv,
       Dialled, Using, Place, registry, call, reload, bounds
<1>20. ASSUME FinishReload PROVE DrainInv'
  BY <1>20 DEF FinishReload, Goto, TypeOK, Actor, PlaceInv, DrainInv, Dialled, Using,
       Place, dials, bounds
<1>21. ASSUME 
            Close
     PROVE DrainInv'
  BY <1>21 DEF Close, Connected, DrainInv, Actor, dials, call, reload, bounds
<1>22. ASSUME NEW d \in Dial,
            \/ CloseServer(d) \/ ServerDies(d)
     PROVE DrainInv'
  BY <1>22 DEF CloseServer, ServerDies, DrainInv, Actor, registry, call, reload, bounds
<1> QED
  BY <1>1, <1>2, <1>3, <1>4, <1>5, <1>6, <1>7, <1>8, <1>9, <1>10, <1>11, <1>12, <1>13,
       <1>14, <1>15, <1>16, <1>17, <1>18, <1>19, <1>20, <1>21, <1>22 DEF Next, CallStep,
       ReloadStep, Connect, Actor

LEMMA CloseStep == TypeOK /\ NothingAfterClose /\ Next => NothingAfterClose'
<1> SUFFICES ASSUME TypeOK, NothingAfterClose, Next
             PROVE  NothingAfterClose'
  OBVIOUS
<1>1. ASSUME NEW a \in Caller, Evict(a) PROVE NothingAfterClose'
  BY <1>1 DEF Evict, Return, Goto, TypeOK, NothingAfterClose, dials, call, reload, bounds
<1>2. ASSUME NEW a \in Actor, Adopt(a) PROVE NothingAfterClose'
  BY <1>2 DEF Adopt, Return, Connected, Goto, TypeOK, NothingAfterClose, dials, call,
       reload, bounds
<1>3. ASSUME Disconnect PROVE NothingAfterClose'
  BY <1>3 DEF Disconnect, Connected, AfterDisconnect, Goto, TypeOK, NothingAfterClose,
       dials, reload, bounds
<1>4. ASSUME Close PROVE NothingAfterClose'
  BY <1>4 DEF Close, Connected, TypeOK, NothingAfterClose, dials, call, reload, bounds
<1>5. ASSUME NEW a \in Caller,
            \/ EnterCall(a) \/ GetConnection(a) \/ Send(a) \/ Answered(a)
            \/ ConnectionDead(a) \/ Reconnect(a) \/ InvalidateCache(a)
     PROVE NothingAfterClose'
  BY <1>5 DEF EnterCall, Goto, GetConnection, Connected, Send, Answered, Return,
       ConnectionDead, Reconnect, InvalidateCache, Invalidated, NothingAfterClose,
       registry, dials, call, reload, bounds
<1>6. ASSUME NEW a \in Actor,
            \/ JoinDial(a) \/ OpenDial(a) \/ DialEnds(a) \/ Joined(a) \/ Reject(a)
     PROVE NothingAfterClose'
  BY <1>6 DEF JoinDial, Goto, OpenDial, DialEnds, Joined, Reject, Return, Connected,
       NothingAfterClose, registry, dials, call, reload, bounds
<1>7. ASSUME 
            \/ StartReload \/ DrainServer \/ Uncache \/ CloseOld \/ FinishReload
     PROVE NothingAfterClose'
  BY <1>7 DEF StartReload, Goto, DrainServer, Uncache, Invalidated, CloseOld,
       AfterDisconnect, FinishReload, NothingAfterClose, registry, dials, call, reload,
       bounds
<1>8. ASSUME NEW d \in Dial,
            \/ CloseServer(d) \/ ServerDies(d)
     PROVE NothingAfterClose'
  BY <1>8 DEF CloseServer, ServerDies, NothingAfterClose, registry, call, reload, bounds
<1> QED
  BY <1>1, <1>2, <1>3, <1>4, <1>5, <1>6, <1>7, <1>8 DEF Next, CallStep, ReloadStep,
       Connect, Actor

LEMMA InvInit == Init => McpInv
<1> SUFFICES ASSUME Init PROVE McpInv
  OBVIOUS
<1>1. /\ dial \in [Dial -> {"none", "connected", "failed"}]
      /\ \A d \in Dial : dial[d] # "none" <=> d = 1
  BY DEF Init
<1>2. server \in [Dial -> {"none", "live"}] /\ \A d \in Dial : server[d] = "live" <=> dial[d] = "connected"
  BY DEF Init
<1>3. TypeOK
  <2>1. connection \in Dial /\ configs \in Config /\ closed = FALSE /\ closing = {}
    BY DEF Init
  <2>2. cache \in [Config -> Dial \cup {None}] /\ configOf \in [Dial -> Config \cup {None}]
    BY DEF Init
  <2>3. /\ dial \in [Dial -> {"none", "dialing", "connected", "failed"}]
        /\ server \in [Dial -> {"none", "live", "dead"}]
    BY <1>1, <1>2
  <2>4. /\ pc \in [Actor -> Place] /\ config \in [Actor -> Config \cup {None}]
        /\ entry \in [Actor -> Dial \cup {None}] /\ held \in [Actor -> Dial \cup {None}]
    BY DEF Init, Place
  <2>5. /\ sent \in [Caller -> 0..2] /\ first \in [Caller -> Dial \cup {None}]
        /\ inflight = {} /\ entered = {} /\ late = FALSE /\ calls = 0 /\ reloads = 0
    BY DEF Init
  <2> QED
    BY <2>1, <2>2, <2>3, <2>4, <2>5 DEF TypeOK
<1>4. PlaceInv /\ SentInv /\ DrainInv /\ NothingAfterClose
  BY DEF Init, PlaceInv, SentInv, DrainInv, NothingAfterClose, Actor, Connecting, Dialled, Using
<1>5. CacheInv /\ ServerInv
  BY <1>1, <1>2 DEF Init, CacheInv, ServerInv, Actor, Using
<1> QED
  BY <1>3, <1>4, <1>5 DEF McpInv

LEMMA InvStutter == McpInv /\ UNCHANGED vars => McpInv'
<1> SUFFICES ASSUME McpInv, UNCHANGED vars PROVE McpInv'
  OBVIOUS
<1>1. TypeOK' /\ PlaceInv' /\ DrainInv' /\ NothingAfterClose'
  BY DEF McpInv, TypeOK, PlaceInv, DrainInv, NothingAfterClose, vars, registry, dials, call,
         reload, bounds
<1>2. CacheInv' /\ ServerInv' /\ SentInv'
  BY DEF McpInv, CacheInv, ServerInv, SentInv, Connected, vars, registry, dials, call
<1> QED
  BY <1>1, <1>2 DEF McpInv

LEMMA Inductive == Spec => []McpInv
<1>1. McpInv /\ [Next]_vars => McpInv'
  BY InvStutter, TypeStep, PlaceStep, CacheStep, ServerStep, SentStep, DrainStep, CloseStep
     DEF McpInv
<1> QED
  BY <1>1, InvInit, PTL DEF Spec

\* Every variable keeps its type, for any callers, configurations and dials.
THEOREM TypeCorrect == Spec => []TypeOK
<1>1. McpInv => TypeOK
  BY DEF McpInv
<1> QED
  BY <1>1, Inductive, PTL

\* One dial of a configuration at a time, and nobody waits for a dial nobody makes, for any
\* number of callers (ConnectToServer).
THEOREM DialsAreSingle == Spec => []SingleDial
<1>1. McpInv => SingleDial
  <2> SUFFICES ASSUME McpInv PROVE SingleDial
    OBVIOUS
  <2>1. ASSUME NEW d \in Dial, NEW e \in Dial, dial[d] = "dialing", dial[e] = "dialing",
               configOf[d] = configOf[e]
        PROVE  d = e
    BY <2>1 DEF McpInv, CacheInv
  <2>2. ASSUME NEW a \in Actor, pc[a] = "join", dial[entry[a]] = "dialing"
        PROVE  \E b \in Actor : pc[b] = "dial" /\ entry[b] = entry[a]
    <3>1. entry[a] \in Dial
      BY <2>2 DEF McpInv, TypeOK, PlaceInv, Dialled
    <3> QED
      BY <2>2, <3>1 DEF McpInv, CacheInv
  <2> QED
    BY <2>1, <2>2 DEF SingleDial
<1> QED
  BY <1>1, Inductive, PTL

\* A retry goes to another connection than the one that failed, however the cache, other dials
\* and reloads have moved since (MCPTool.Call, Reconnect).
THEOREM RetriesElsewhere == Spec => []RetryElsewhere
<1>1. McpInv => RetryElsewhere
  BY DEF McpInv, SentInv, RetryElsewhere
<1> QED
  BY <1>1, Inductive, PTL

\* A closed registry holds no connection, however many dials end late (adoptConnection).
THEOREM ClosedIsEmpty == Spec => []NothingAfterClose
<1>1. McpInv => NothingAfterClose
  BY DEF McpInv
<1> QED
  BY <1>1, Inductive, PTL

\* A drained server is closed only under calls that entered after the drain (DrainServer).
THEOREM DrainsFirst == Spec => []DrainedFirst
<1>1. McpInv => DrainedFirst
  BY DEF McpInv, DrainInv, PlaceInv, DrainedFirst
<1> QED
  BY <1>1, Inductive, PTL

\* What anybody still has a hand on is not orphaned, step by step: only the adoption of
\* another connection takes the last hand off a live server.
THEOREM LostByAdoptionOnly == Spec => LostOnlyByAdoption
<1> DEFINE Lost == \A d \in Dial : ~Orphaned(d) /\ Orphaned(d)' => connection' \notin {connection, None}
<1>1. McpInv /\ [Next]_vars => Lost
  <2> SUFFICES ASSUME McpInv, [Next]_vars, NEW d \in Dial, ~Orphaned(d), Orphaned(d)',
                      connection' \in {connection, None}
               PROVE  FALSE
    OBVIOUS
  <2> USE DEF McpInv, Orphaned, Live
  <2>1. server[d] = "live" => dial[d] = "connected"
    BY DEF ServerInv
  <2>2. ASSUME NEW a \in Actor, JoinDial(a) \/ OpenDial(a) \/ Joined(a) PROVE FALSE
    BY <2>2 DEF JoinDial, OpenDial, Joined, Goto, TypeOK, PlaceInv, Dialled, Actor, registry, dials, call
  <2>3. ASSUME NEW a \in Actor, DialEnds(a) PROVE FALSE
    BY <2>3 DEF DialEnds, Goto, TypeOK, Actor, registry, call
  <2>4. ASSUME NEW a \in Actor, Reject(a) PROVE FALSE
    BY <2>1, <2>4 DEF Reject, Connected, Return, Goto, TypeOK, Actor, registry, dials, call
  <2>5. ASSUME NEW a \in Actor, Adopt(a) PROVE FALSE
    BY <2>5 DEF Adopt, Connected, Return, Goto, TypeOK, PlaceInv, Dialled, Actor, dials
  <2>6. ASSUME NEW a \in Caller, EnterCall(a) \/ GetConnection(a) \/ Send(a) \/ Answered(a)
               \/ ConnectionDead(a) \/ Reconnect(a) \/ InvalidateCache(a)
        PROVE  FALSE
    BY <2>6 DEF EnterCall, GetConnection, Send, Answered, ConnectionDead, Reconnect,
         InvalidateCache, Return, Goto, TypeOK, PlaceInv, Actor, registry, dials, call
  <2>7. ASSUME NEW a \in Caller, Evict(a) PROVE FALSE
    BY <2>7 DEF Evict, Return, Goto, TypeOK, Actor, dials, call
  <2>8. ASSUME StartReload \/ DrainServer \/ Uncache \/ FinishReload PROVE FALSE
    BY <2>8 DEF StartReload, DrainServer, Uncache, FinishReload, Goto, TypeOK, Actor, registry, dials, call
  <2>9. ASSUME Disconnect PROVE FALSE
    BY <2>1, <2>9 DEF Disconnect, Connected, Goto, TypeOK, Actor, dials
  <2>10. ASSUME CloseOld PROVE FALSE
    BY <2>10 DEF CloseOld, AfterDisconnect, Goto, TypeOK, Actor, registry, call
  <2>11. ASSUME Close PROVE FALSE
    BY <2>1, <2>11 DEF Close, Connected, dials, call
  <2>12. ASSUME NEW e \in Dial, CloseServer(e) \/ ServerDies(e) PROVE FALSE
    BY <2>12 DEF CloseServer, ServerDies, TypeOK, registry, call
  <2>13. ASSUME UNCHANGED vars PROVE FALSE
    BY <2>13 DEF vars, registry, dials, call
  <2> QED
    BY <2>2, <2>3, <2>4, <2>5, <2>6, <2>7, <2>8, <2>9, <2>10, <2>11, <2>12, <2>13
       DEF Next, CallStep, ReloadStep, Connect, Actor
<1> QED
  BY <1>1, Inductive, PTL DEF Spec, LostOnlyByAdoption

=============================================================================
