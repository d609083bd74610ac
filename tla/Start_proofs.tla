---------------------------- MODULE Start_proofs ----------------------------
(***************************************************************************)
(* Theorems about the start of the spider and the routing it leaves        *)
(* behind: for every number of gateways and of test hosts, and for files   *)
(* of every length over every set of ids.                                  *)
(***************************************************************************)
EXTENDS MCStart, FiniteSetTheorems, SequenceTheorems, WellFoundedInduction, TLAPS

-----------------------------------------------------------------------------
(***************************************************************************)
(* The search for a gateway                                                *)
(***************************************************************************)

\* The loops and the history are there for both ends.
SearchTyped == /\ TypeOK
               /\ test_hosts_iter \in [Ends -> Nat] /\ missed \in [Ends -> SUBSET Nat]

\* The hosts that were asked before the present one have been out of reach
\* since the route was set, all of them when the route is about to change.
InVain(e) ==
  /\ pc[e] \in {"test", "retest"} =>
       \A h \in Host(e) : h < test_hosts_iter[e] => h \in missed[e]
  /\ pc[e] = "change" => missed[e] = Host(e)

AskedInVain == \A e \in Ends : InVain(e)

SearchInv == SearchTyped /\ AskedInVain

\* What is known of the constants and of the hosts.
LEMMA SearchConstants ==
  /\ Gateways \in Nat /\ 1 \in Gateway /\ Gateways \in Gateway
  /\ \A e \in Ends : /\ TestHosts[e] \in Nat /\ TestHosts[e] > 0
                     /\ 1 \in Host(e) /\ Host(e) \subseteq Nat
<1>1. \A e \in Ends : TestHosts[e] \in Nat \ {0}
  BY HostsAssumption
<1>2. \A e \in Ends : /\ TestHosts[e] \in Nat /\ TestHosts[e] > 0
                      /\ 1 \in Host(e) /\ Host(e) \subseteq Nat
  <2>1. ASSUME NEW e \in Ends
        PROVE  /\ TestHosts[e] \in Nat /\ TestHosts[e] > 0
               /\ 1 \in Host(e) /\ Host(e) \subseteq Nat
    <3>1. TestHosts[e] \in Nat /\ TestHosts[e] # 0
      BY <1>1
    <3>2. QED
      BY <3>1 DEF Host
  <2>2. QED
    BY <2>1
<1>3. QED
  BY <1>2, GatewaysAssumption DEF Gateway

\* What an end misses is among its hosts, and the history keeps its type.
LEMMA WatchTyped ==
  ASSUME SearchTyped, NEW renewed, Watch(renewed)
  PROVE  /\ missed' \in [Ends -> SUBSET Nat]
         /\ \A e \in Ends : missed'[e] \subseteq Host(e)
         /\ \A e \in Ends : Missed(e)' \subseteq missed'[e]
         /\ \A e \in Ends \ renewed : missed[e] \subseteq missed'[e]
<1>1. \A e \in Ends : Missed(e)' \subseteq Host(e)
  BY DEF Missed, Host
<1>2. \A e \in Ends : missed[e] \subseteq Host(e) /\ Host(e) \subseteq Nat
  BY SearchConstants DEF SearchTyped, TypeOK
<1>3. \A e \in Ends : missed'[e] = IF e \in renewed THEN Missed(e)'
                                   ELSE missed[e] \union Missed(e)'
  BY DEF Watch
<1>4. \A e \in Ends : /\ missed'[e] \subseteq Host(e) /\ Missed(e)' \subseteq missed'[e]
                      /\ e \notin renewed => missed[e] \subseteq missed'[e]
  BY <1>1, <1>2, <1>3
<1>5. missed' \in [Ends -> SUBSET Nat]
  <2>1. missed' = [e \in Ends |-> missed'[e]]
    BY DEF Watch
  <2>2. QED
    BY <1>2, <1>4, <2>1
<1>6. QED
  BY <1>4, <1>5

\* The end that a step does not concern has asked in vain as before.
LEMMA OthersInVain ==
  ASSUME SearchInv, NEW renewed, Watch(renewed), NEW f \in Ends, f \notin renewed,
         pc'[f] = pc[f] \/ pc'[f] \in {"off", "asleep", "ended"},
         test_hosts_iter'[f] = test_hosts_iter[f]
  PROVE  InVain(f)'
<1>1. InVain(f)
  BY DEF SearchInv, AskedInVain
<1>2. missed[f] \subseteq missed'[f] /\ missed'[f] \subseteq Host(f)
  BY WatchTyped DEF SearchInv
<1>3. QED
  BY <1>1, <1>2 DEF InVain, Host

\* The host that is asked now is missed if it does not answer.
LEMMA MissesNow ==
  ASSUME SearchInv, NEW renewed, Watch(renewed), NEW e \in Ends,
         ~Reaches(e, test_hosts_iter[e]), UNCHANGED <<net, route>>
  PROVE  test_hosts_iter[e] \in missed'[e]
<1>1. test_hosts_iter[e] \in Host(e)
  BY DEF SearchInv, SearchTyped, TypeOK
<1>2. \A h : Reaches(e, h)' <=> Reaches(e, h)
  BY DEF Reaches, net
<1>3. test_hosts_iter[e] \in Missed(e)'
  <2>1. Missed(e)' = {h \in Host(e) : ~Reaches(e, h)'}
    BY DEF Missed, Host
  <2>2. QED
    BY <1>1, <1>2, <2>1
<1>4. QED
  BY <1>3, WatchTyped DEF SearchInv

\* Waking and setting the route begin anew with the first host.
LEMMA BegunAnew ==
  ASSUME SearchInv, NEW e \in Ends, Watch({e}),
         pc' = [pc EXCEPT ![e] = "test"] \/ pc' = [pc EXCEPT ![e] = "retest"],
         test_hosts_iter' = [test_hosts_iter EXCEPT ![e] = 1]
  PROVE  AskedInVain'
<1>1. test_hosts_iter \in [Ends -> Nat] /\ pc \in [Ends -> Where]
  BY DEF SearchInv, SearchTyped, TypeOK
<1>2. InVain(e)'
  <2>1. test_hosts_iter'[e] = 1 /\ pc'[e] \in {"test", "retest"}
    BY <1>1
  <2>2. \A h \in Host(e) : ~(h < 1)
    BY DEF Host
  <2>3. QED
    BY <2>1, <2>2 DEF InVain, Host
<1>3. ASSUME NEW f \in Ends, f # e PROVE InVain(f)'
  <2>1. pc'[f] = pc[f] /\ test_hosts_iter'[f] = test_hosts_iter[f]
    BY <1>1, <1>3
  <2>2. QED
    BY <1>3, <2>1, OthersInVain
<1>4. QED
  BY <1>2, <1>3 DEF AskedInVain

\* Every step of an end or of the network leaves what was asked in vain.
LEMMA SearchAsked ==
  ASSUME SearchInv, [Next]_vars
  PROVE  AskedInVain'
<1>0. /\ test_hosts_iter \in [Ends -> Nat] /\ pc \in [Ends -> Where]
      /\ \A e \in Ends : test_hosts_iter[e] \in Host(e) /\ Host(e) \subseteq Nat
      /\ \A e \in Ends : InVain(e)
  BY SearchConstants DEF SearchInv, SearchTyped, TypeOK, AskedInVain
<1>1. CASE NetworkChanges
  <2>1. Watch({}) /\ pc' = pc /\ test_hosts_iter' = test_hosts_iter
    BY <1>1 DEF NetworkChanges
  <2>2. QED
    BY <2>1, OthersInVain DEF AskedInVain
<1>2. ASSUME NEW e \in Ends, Wake(e) PROVE AskedInVain'
  BY <1>2, BegunAnew DEF Wake
<1>3. ASSUME NEW e \in Ends, Answered(e) PROVE AskedInVain'
  <2>1. /\ Watch({}) /\ test_hosts_iter' = test_hosts_iter
        /\ pc' = [pc EXCEPT ![e] = "asleep"]
    BY <1>3 DEF Answered, Sleeps
  <2>2. \A f \in Ends : pc'[f] = pc[f] \/ pc'[f] = "asleep"
    BY <1>0, <2>1
  <2>3. QED
    BY <2>1, <2>2, OthersInVain DEF AskedInVain
<1>4. ASSUME NEW e \in Ends, NextHost(e) PROVE AskedInVain'
  <2>1. /\ Watch({}) /\ pc' = pc /\ pc[e] \in {"test", "retest"}
        /\ test_hosts_iter' = [test_hosts_iter EXCEPT ![e] = @ + 1]
        /\ ~Reaches(e, test_hosts_iter[e]) /\ UNCHANGED <<net, route>>
    BY <1>4 DEF NextHost
  <2>2. \A f \in Ends \ {e} : test_hosts_iter'[f] = test_hosts_iter[f]
    BY <1>0, <2>1
  <2>3. \A f \in Ends \ {e} : InVain(f)'
    BY <2>1, <2>2, OthersInVain
  <2>4. test_hosts_iter[e] \in missed'[e] /\ missed[e] \subseteq missed'[e]
    BY <2>1, MissesNow, WatchTyped DEF SearchInv
  <2>5. \A h \in Host(e) : h < test_hosts_iter[e] => h \in missed[e]
    BY <1>0, <2>1 DEF InVain
  <2>6. test_hosts_iter'[e] = test_hosts_iter[e] + 1
    BY <1>0, <2>1
  <2>7. ASSUME NEW h \in Host(e), h < test_hosts_iter'[e] PROVE h \in missed'[e]
    <3>1. h \in Nat /\ test_hosts_iter[e] \in Nat
      BY <1>0
    <3>2. h < test_hosts_iter[e] \/ h = test_hosts_iter[e]
      BY <2>6, <2>7, <3>1
    <3>3. QED
      BY <2>4, <2>5, <3>2
  <2>8. InVain(e)'
    BY <2>1, <2>7 DEF InVain, Host
  <2>9. QED
    BY <2>3, <2>8 DEF AskedInVain
<1>5. ASSUME NEW e \in Ends, NoneAnswered(e) PROVE AskedInVain'
  <2>1. /\ Watch({}) /\ pc' = [pc EXCEPT ![e] = "change"] /\ pc[e] = "test"
        /\ test_hosts_iter' = test_hosts_iter /\ LastHost(e)
        /\ ~Reaches(e, test_hosts_iter[e]) /\ UNCHANGED <<net, route>>
    BY <1>5 DEF NoneAnswered
  <2>2. \A f \in Ends \ {e} : pc'[f] = pc[f]
    BY <1>0, <2>1
  <2>3. \A f \in Ends \ {e} : InVain(f)'
    BY <2>1, <2>2, OthersInVain
  <2>4. /\ test_hosts_iter[e] \in missed'[e] /\ missed[e] \subseteq missed'[e]
        /\ missed'[e] \subseteq Host(e)
    BY <2>1, MissesNow, WatchTyped DEF SearchInv
  <2>5. \A h \in Host(e) : h < test_hosts_iter[e] => h \in missed[e]
    BY <1>0, <2>1 DEF InVain
  <2>6. ASSUME NEW h \in Host(e) PROVE h \in missed'[e]
    <3>1. h \in 1 .. TestHosts[e] /\ TestHosts[e] \in Nat
      BY SearchConstants DEF Host
    <3>2. h < test_hosts_iter[e] \/ h = test_hosts_iter[e]
      BY <2>1, <3>1 DEF LastHost
    <3>3. QED
      BY <2>4, <2>5, <3>2
  <2>7. pc'[e] = "change" /\ missed'[e] = Host(e)
    BY <1>0, <2>1, <2>4, <2>6
  <2>8. InVain(e)'
    BY <2>7 DEF InVain, Host
  <2>9. QED
    BY <2>3, <2>8 DEF AskedInVain
<1>6. ASSUME NEW e \in Ends, ChangeRoute(e) PROVE AskedInVain'
  BY <1>6, BegunAnew DEF ChangeRoute
<1>7. ASSUME NEW e \in Ends, ChangeFails(e) PROVE AskedInVain'
  <2>1. /\ Watch({}) /\ test_hosts_iter' = test_hosts_iter
        /\ pc' = [pc EXCEPT ![e] = "ended"]
    BY <1>7 DEF ChangeFails
  <2>2. \A f \in Ends : pc'[f] = pc[f] \/ pc'[f] = "ended"
    BY <1>0, <2>1
  <2>3. QED
    BY <2>1, <2>2, OthersInVain DEF AskedInVain
<1>8. ASSUME NEW e \in Ends, NextGateway(e) PROVE AskedInVain'
  <2>1. CASE gateways_iter[e] = Gateways
    <3>1. /\ Watch({}) /\ test_hosts_iter' = test_hosts_iter
          /\ pc' = [pc EXCEPT ![e] = "asleep"]
      BY <1>8, <2>1 DEF NextGateway, Sleeps
    <3>2. \A f \in Ends : pc'[f] = pc[f] \/ pc'[f] = "asleep"
      BY <1>0, <3>1
    <3>3. QED
      BY <3>1, <3>2, OthersInVain DEF AskedInVain
  <2>2. CASE gateways_iter[e] # Gateways
    <3>1. /\ Watch({}) /\ pc' = [pc EXCEPT ![e] = "test"]
          /\ test_hosts_iter' = [test_hosts_iter EXCEPT ![e] = 1]
      BY <1>8, <2>2 DEF NextGateway
    <3>2. \A f \in Ends \ {e} : /\ pc'[f] = pc[f]
                                /\ test_hosts_iter'[f] = test_hosts_iter[f]
      BY <1>0, <3>1
    <3>3. \A f \in Ends \ {e} : InVain(f)'
      BY <3>1, <3>2, OthersInVain
    <3>4. test_hosts_iter'[e] = 1 /\ pc'[e] = "test"
      BY <1>0, <3>1
    <3>5. \A h \in Host(e) : ~(h < 1)
      BY DEF Host
    <3>6. InVain(e)'
      BY <3>4, <3>5 DEF InVain, Host
    <3>7. QED
      BY <3>3, <3>6 DEF AskedInVain
  <2>3. QED
    BY <2>1, <2>2
<1>9. CASE UNCHANGED vars
  BY <1>0, <1>9 DEF vars, AskedInVain, InVain, Host
<1>10. QED
  BY <1>1, <1>2, <1>3, <1>4, <1>5, <1>6, <1>7, <1>8, <1>9 DEF Next, Step

\* Where an end stands and what its loops count, as they are when a step has
\* changed them for one end.
LEMMA LoopsTyped ==
  ASSUME SearchTyped, NEW e \in Ends, NEW p \in Where, NEW g \in Gateway,
         NEW h \in Host(e), NEW r \in Gateway
  PROVE  /\ [pc EXCEPT ![e] = p] \in [Ends -> Where]
         /\ [gateways_iter EXCEPT ![e] = g] \in [Ends -> Gateway]
         /\ [route EXCEPT ![e] = r] \in [Ends -> Gateway]
         /\ [test_hosts_iter EXCEPT ![e] = h] \in [Ends -> Nat]
         /\ \A f \in Ends : [test_hosts_iter EXCEPT ![e] = h][f] \in Host(f)
<1>1. /\ pc \in [Ends -> Where] /\ gateways_iter \in [Ends -> Gateway]
      /\ route \in [Ends -> Gateway] /\ test_hosts_iter \in [Ends -> Nat]
      /\ \A f \in Ends : test_hosts_iter[f] \in Host(f)
  BY DEF SearchTyped, TypeOK
<1>2. h \in Nat
  BY SearchConstants
<1>3. QED
  BY <1>1, <1>2

\* Every step keeps the types.
LEMMA SearchKeepsTypes ==
  ASSUME SearchTyped, [Next]_vars
  PROVE  SearchTyped'
<1>0. /\ up \subseteq Gateway /\ outages \in 0 .. MaxOutages
      /\ answering \in [Ends -> SUBSET UNION {Host(e) : e \in Ends}]
      /\ route \in [Ends -> Gateway] /\ pc \in [Ends -> Where]
      /\ gateways_iter \in [Ends -> Gateway]
      /\ \A e \in Ends : test_hosts_iter[e] \in Host(e)
      /\ rested \in BOOLEAN /\ test_hosts_iter \in [Ends -> Nat]
  BY DEF SearchTyped, TypeOK
<1> DEFINE
  NetTyped == /\ up' \subseteq Gateway /\ outages' \in 0 .. MaxOutages
              /\ answering' \in [Ends -> SUBSET UNION {Host(e) : e \in Ends}]
  EndsTyped == /\ route' \in [Ends -> Gateway] /\ pc' \in [Ends -> Where]
               /\ gateways_iter' \in [Ends -> Gateway]
               /\ \A e \in Ends : test_hosts_iter'[e] \in Host(e)
               /\ rested' \in BOOLEAN /\ test_hosts_iter' \in [Ends -> Nat]
<1>1. ASSUME NetTyped, EndsTyped, NEW renewed, Watch(renewed) PROVE SearchTyped'
  <2>1. missed' \in [Ends -> SUBSET Nat] /\ \A e \in Ends : missed'[e] \subseteq Host(e)
    BY <1>1, WatchTyped
  <2>2. QED
    BY <1>1, <2>1 DEF SearchTyped, TypeOK, Gateway, Host
<1>2. UNCHANGED net => NetTyped
  BY <1>0 DEF net
<1>3. CASE NetworkChanges
  <2>1. EndsTyped /\ Watch({})
    BY <1>0, <1>3 DEF NetworkChanges
  <2>2. outages' \in 0 .. MaxOutages
    BY <1>0, <1>3, OutagesAssumption DEF NetworkChanges
  <2>3. up' \subseteq Gateway
    <3>1. CASE UNCHANGED up
      BY <1>0, <3>1
    <3>2. CASE \E g \in Gateway : up' = Toggle(up, g)
      BY <1>0, <3>2 DEF Toggle
    <3>3. QED
      BY <1>3, <3>1, <3>2 DEF NetworkChanges
  <2>4. answering' \in [Ends -> SUBSET UNION {Host(e) : e \in Ends}]
    <3>1. CASE UNCHANGED answering
      BY <1>0, <3>1
    <3>2. ASSUME NEW e \in Ends, NEW h \in Host(e),
                 answering' = [answering EXCEPT ![e] = Toggle(@, h)]
          PROVE  answering' \in [Ends -> SUBSET UNION {Host(f) : f \in Ends}]
      <4> DEFINE H == UNION {Host(f) : f \in Ends}
      <4>1. h \in H
        OBVIOUS
      <4>2. answering[e] \subseteq H
        BY <1>0
      <4> HIDE DEF H
      <4>3. Toggle(answering[e], h) \in SUBSET H
        BY <4>1, <4>2 DEF Toggle
      <4>4. answering \in [Ends -> SUBSET H]
        BY <1>0 DEF H
      <4>5. [answering EXCEPT ![e] = Toggle(answering[e], h)] \in [Ends -> SUBSET H]
        BY <4>3, <4>4
      <4>6. QED
        BY <3>2, <4>5 DEF H
    <3>3. QED
      BY <1>3, <3>1, <3>2 DEF NetworkChanges
  <2>5. QED
    BY <1>1, <2>1, <2>2, <2>3, <2>4
<1>4. ASSUME NEW e \in Ends, Step(e) \/ ChangeFails(e) PROVE SearchTyped'
  <2>0. /\ "test" \in Where /\ "asleep" \in Where /\ "change" \in Where
        /\ "retest" \in Where /\ "ended" \in Where
        /\ (e = "spider") \in BOOLEAN
        /\ 1 \in Gateway /\ 1 \in Host(e) /\ gateways_iter[e] \in Gateway
        /\ route[e] \in Gateway /\ test_hosts_iter[e] \in Host(e)
    BY <1>0, SearchConstants DEF Where
  <2>1. CASE Wake(e)
    <3>1. EndsTyped
      BY <1>0, <2>0, <2>1, LoopsTyped DEF Wake, First
    <3>2. NetTyped /\ Watch({e})
      BY <1>2, <2>1 DEF Wake
    <3>3. QED
      BY <1>1, <3>1, <3>2
  <2>2. CASE Answered(e)
    <3>1. EndsTyped
      BY <1>0, <2>0, <2>2, LoopsTyped DEF Answered, Sleeps
    <3>2. NetTyped /\ Watch({})
      BY <1>2, <2>2 DEF Answered
    <3>3. QED
      BY <1>1, <3>1, <3>2
  <2>3. CASE NextHost(e)
    <3>1. test_hosts_iter[e] + 1 \in Host(e)
      BY <2>0, <2>3, SearchConstants DEF NextHost, LastHost, Host
    <3>2. EndsTyped
      BY <1>0, <2>0, <2>3, <3>1, LoopsTyped DEF NextHost
    <3>3. NetTyped /\ Watch({})
      BY <1>2, <2>3 DEF NextHost
    <3>4. QED
      BY <1>1, <3>2, <3>3
  <2>4. CASE NoneAnswered(e)
    <3>1. EndsTyped
      BY <1>0, <2>0, <2>4, LoopsTyped DEF NoneAnswered
    <3>2. NetTyped /\ Watch({})
      BY <1>2, <2>4 DEF NoneAnswered
    <3>3. QED
      BY <1>1, <3>1, <3>2
  <2>5. CASE ChangeRoute(e)
    <3>1. EndsTyped
      BY <1>0, <2>0, <2>5, LoopsTyped DEF ChangeRoute, Target
    <3>2. NetTyped /\ Watch({e})
      BY <1>2, <2>5 DEF ChangeRoute
    <3>3. QED
      BY <1>1, <3>1, <3>2
  <2>6. CASE ChangeFails(e)
    <3>1. EndsTyped
      BY <1>0, <2>0, <2>6, LoopsTyped DEF ChangeFails
    <3>2. NetTyped /\ Watch({})
      BY <1>2, <2>6 DEF ChangeFails
    <3>3. QED
      BY <1>1, <3>1, <3>2
  <2>7. CASE NextGateway(e)
    <3>1. NetTyped /\ Watch({})
      BY <1>2, <2>7 DEF NextGateway
    <3>2. CASE gateways_iter[e] = Gateways
      <4>1. EndsTyped
        BY <1>0, <2>0, <2>7, <3>2, LoopsTyped DEF NextGateway, Sleeps
      <4>2. QED
        BY <1>1, <3>1, <4>1
    <3>3. CASE gateways_iter[e] # Gateways
      <4>1. gateways_iter[e] + 1 \in Gateway
        BY <2>0, <3>3, GatewaysAssumption DEF Gateway
      <4>2. EndsTyped
        BY <1>0, <2>0, <2>7, <3>3, <4>1, LoopsTyped DEF NextGateway
      <4>3. QED
        BY <1>1, <3>1, <4>2
    <3>4. QED
      BY <3>2, <3>3
  <2>8. QED
    BY <1>4, <2>1, <2>2, <2>3, <2>4, <2>5, <2>6, <2>7 DEF Step
<1>5. CASE UNCHANGED vars
  BY <1>5 DEF vars, net, SearchTyped, TypeOK, Gateway, Host
<1>6. QED
  BY <1>3, <1>4, <1>5 DEF Next

\* At the start everybody reaches everybody and has asked nobody.
LEMMA SearchBegins == Init => SearchInv
<1> SUFFICES ASSUME Init PROVE SearchInv
  OBVIOUS
<1>1. TypeOK
  <2>1. \A e \in Ends : Host(e) \in SUBSET UNION {Host(f) : f \in Ends}
    OBVIOUS
  <2>2. [e \in Ends |-> Host(e)] \in [Ends -> SUBSET UNION {Host(f) : f \in Ends}]
    BY <2>1
  <2>3. [e \in Ends |-> 1] \in [Ends -> Gateway] /\ \A e \in Ends : 1 \in Host(e)
    BY SearchConstants
  <2>4. pc \in [Ends -> Where]
    BY DEF Init, Where
  <2>5. /\ up \subseteq Gateway /\ outages \in 0 .. MaxOutages
        /\ route \in [Ends -> Gateway]
    <3>1. up = Gateway /\ outages = 0 /\ route \in [Ends -> Gateway]
      BY DEF Init
    <3>2. QED
      BY <3>1, OutagesAssumption
  <2>10. rested \in BOOLEAN
    BY DEF Init
  <2>9. \A e \in Ends : missed[e] \subseteq Host(e)
    BY Zenon DEF Init
  <2>6. /\ answering \in [Ends -> SUBSET UNION {Host(f) : f \in Ends}]
        /\ gateways_iter \in [Ends -> Gateway]
    BY <2>2, <2>3 DEF Init
  <2>7. \A e \in Ends : test_hosts_iter[e] \in Host(e)
    BY <2>3 DEF Init
  <2>8. QED
    BY <2>4, <2>5, <2>6, <2>7, <2>9, <2>10 DEF TypeOK
<1>2. SearchTyped
  BY <1>1 DEF Init, SearchTyped
<1>3. AskedInVain
  BY DEF Init, AskedInVain, InVain
<1>4. QED
  BY <1>2, <1>3 DEF SearchInv

\* The search keeps its invariant.
THEOREM SearchInvariant == Init /\ [][Next]_vars => []SearchInv
<1>1. SearchInv /\ [Next]_vars => SearchInv'
  BY SearchKeepsTypes, SearchAsked DEF SearchInv
<1>2. QED
  BY SearchBegins, <1>1, PTL

\* However many gateways and hosts there are, and whatever fails: an end gives
\* up a route only when each of its test hosts has been out of reach at some
\* moment since the route was set or the end woke.
THEOREM RoutesChangeForCause == Spec => SearchSound
<1>1. SearchInv /\ [Next]_vars
        => [\A e \in Ends : route'[e] # route[e] => missed[e] = Host(e)]_vars
  <2> SUFFICES ASSUME SearchInv, [Next]_vars, NEW e \in Ends, route'[e] # route[e]
               PROVE  missed[e] = Host(e)
    OBVIOUS
  <2>1. route \in [Ends -> Gateway] /\ pc \in [Ends -> Where]
    BY DEF SearchInv, SearchTyped, TypeOK
  <2>2. route' # route
    OBVIOUS
  <2>3. PICK f \in Ends : ChangeRoute(f)
    BY <2>2 DEF Next, Step, vars, NetworkChanges, Wake, Answered, NextHost,
                NoneAnswered, NextGateway, ChangeFails
  <2>4. f = e
    BY <2>1, <2>3 DEF ChangeRoute
  <2>5. QED
    BY <2>3, <2>4 DEF ChangeRoute, SearchInv, AskedInVain, InVain
<1>2. SearchInv => TypeOK
  BY DEF SearchInv, SearchTyped
<1>3. QED
  BY SearchInvariant, <1>1, <1>2, PTL DEF Spec, SearchSound, ChangedForCause

-----------------------------------------------------------------------------
(***************************************************************************)
(* The files.  A section without an owner belongs to the last section of   *)
(* the owner's kind before it.                                             *)
(***************************************************************************)
HasBefore(q, kind, i) == \E j \in 1 .. i - 1 : q[j].kind = kind

LastIn(q, kind, i) ==
  LET before == {j \in 1 .. i - 1 : q[j].kind = kind}
  IN  q[CHOOSE j \in before : \A k \in before : k <= j].id

(***************************************************************************)
(* Numbers.  The library's theorem on minimal elements needs no operator   *)
(* as a parameter.                                                         *)
(***************************************************************************)
LEMMA Least ==
  ASSUME NEW S, S \subseteq Nat, S # {}
  PROVE  \E x \in S : \A y \in S : x <= y
<1> DEFINE R == OpToRel(<, Nat)
<1>1. IsWellFoundedOn(R, Nat)
  BY NatLessThanWellFounded
<1>2. \A x, y \in Nat : x < y => <<x, y>> \in R
  BY DEF OpToRel
<1> HIDE DEF R
<1>3. PICK x \in S : \A y \in S : ~(<<y, x>> \in R)
  BY <1>1, WFMin
<1>4. \A y \in S : x <= y
  <2>1. ASSUME NEW y \in S PROVE x <= y
    <3>1. x \in Nat /\ y \in Nat
      OBVIOUS
    <3>2. ~(y < x)
      BY <1>2, <1>3, <3>1
    <3>3. QED
      BY <3>1, <3>2
  <2>2. QED
    BY <2>1
<1>5. QED
  BY <1>4

\* The same for the greatest of a bounded set.
LEMMA Greatest ==
  ASSUME NEW n \in Nat, NEW S, S \subseteq 0 .. n, S # {}
  PROVE  \E x \in S : \A y \in S : x >= y
<1> DEFINE T == {x \in 0 .. n : n - x \in S}
<1>1. T \subseteq Nat
  OBVIOUS
<1>2. T # {}
  <2>1. PICK y \in S : TRUE
    OBVIOUS
  <2>2. n - y \in 0 .. n /\ n - (n - y) = y
    OBVIOUS
  <2>3. n - y \in T
    BY <2>2
  <2>4. QED
    BY <2>3
<1>3. PICK x \in T : \A y \in T : x <= y
  BY <1>1, <1>2, Least
<1>4. \A y \in S : n - y \in T
  <2>1. ASSUME NEW y \in S PROVE n - y \in T
    <3>1. n - y \in 0 .. n /\ n - (n - y) = y
      OBVIOUS
    <3>2. QED
      BY <3>1
  <2>2. QED
    BY <2>1
<1>5. n - x \in S /\ x \in 0 .. n
  OBVIOUS
<1>6. \A y \in S : n - x >= y
  <2>1. ASSUME NEW y \in S PROVE n - x >= y
    <3>1. x <= n - y
      BY <1>3, <1>4
    <3>2. QED
      BY <1>5, <3>1
  <2>2. QED
    BY <2>1
<1>7. QED
  BY <1>5, <1>6
\* The last section of a kind is there, if any is.
LEMMA LastIsThere ==
  ASSUME NEW q, NEW kind, NEW i \in Nat, HasBefore(q, kind, i)
  PROVE  LET before == {j \in 1 .. i - 1 : q[j].kind = kind}
             last == CHOOSE j \in before : \A k \in before : k <= j
         IN  last \in before /\ \A k \in before : k <= last
<1> DEFINE before == {j \in 1 .. i - 1 : q[j].kind = kind}
<1>1. before # {} /\ before \subseteq 0 .. i
  BY DEF HasBefore
<1>2. \E j \in before : \A k \in before : j >= k
  <2> HIDE DEF before
  <2>1. QED
    BY <1>1, Greatest
<1>3. \E j \in before : \A k \in before : k <= j
  <2>1. PICK j \in before : \A k \in before : j >= k
    BY <1>2
  <2>2. \A k \in before : k <= j
    BY <2>1
  <2>3. QED
    BY <2>2
<1> HIDE DEF before
<1>4. QED
  BY <1>3 DEF before

\* What follows changes nothing before it.
LEMMA LastKept ==
  ASSUME NEW S, NEW q \in Seq(S), NEW s \in S, NEW kind,
         NEW i \in 1 .. Len(q) + 1, HasBefore(q, kind, i)
  PROVE  /\ HasBefore(Append(q, s), kind, i)
         /\ LastIn(Append(q, s), kind, i) = LastIn(q, kind, i)
<1> DEFINE r == Append(q, s)
           before == {j \in 1 .. i - 1 : q[j].kind = kind}
           last == CHOOSE j \in before : \A k \in before : k <= j
<1>0. i \in Nat /\ Len(q) \in Nat
  OBVIOUS
<1>1. \A j \in 1 .. i - 1 : r[j] = q[j]
  <2>1. \A j \in 1 .. i - 1 : j \in 1 .. Len(q)
    OBVIOUS
  <2>2. QED
    BY <2>1, AppendProperties
<1> HIDE DEF r
<1>2. {j \in 1 .. i - 1 : r[j].kind = kind} = before
  BY <1>1
<1>3. last \in before
  BY <1>0, LastIsThere
<1>4. r[last] = q[last]
  BY <1>1, <1>3
<1>5. LastIn(r, kind, i) = r[last].id
  BY <1>2 DEF LastIn
<1>6. LastIn(q, kind, i) = q[last].id
  BY DEF LastIn
<1>7. HasBefore(r, kind, i)
  BY <1>1 DEF HasBefore
<1>8. QED
  BY <1>4, <1>5, <1>6, <1>7 DEF r

\* The section just read is the last of its kind.
LEMMA LastNew ==
  ASSUME NEW S, NEW q \in Seq(S), NEW s \in S
  PROVE  /\ HasBefore(Append(q, s), s.kind, Len(q) + 2)
         /\ LastIn(Append(q, s), s.kind, Len(q) + 2) = s.id
<1> DEFINE r == Append(q, s)
           n == Len(q) + 1
           before == {j \in 1 .. n : r[j].kind = s.kind}
           last == CHOOSE j \in before : \A k \in before : k <= j
<1>0. n \in Nat /\ Len(q) + 2 - 1 = n /\ n \in 1 .. n
  OBVIOUS
<1>1. r[n] = s
  BY AppendProperties
<1> HIDE DEF r, n
<1>2. n \in before /\ \A k \in before : k <= n
  BY <1>0, <1>1
<1>3. last \in before /\ \A k \in before : k <= last
  BY <1>2
<1>4. last \in 1 .. n /\ last <= n /\ n <= last
  BY <1>2, <1>3
<1>5. last = n
  <2> HIDE DEF last, before
  <2>1. QED
    BY <1>0, <1>4
<1>6. LastIn(r, s.kind, Len(q) + 2) = r[last].id
  <2> DEFINE i == Len(q) + 2
  <2>1. 1 .. i - 1 = 1 .. n
    BY <1>0
  <2> HIDE DEF i
  <2>2. {j \in 1 .. i - 1 : r[j].kind = s.kind} = before
    BY <2>1
  <2>3. LastIn(r, s.kind, i) = r[last].id
    BY <2>2 DEF LastIn
  <2>4. QED
    BY <2>3 DEF i
<1>7. HasBefore(r, s.kind, Len(q) + 2)
  BY <1>0, <1>1 DEF HasBefore
<1>8. QED
  BY <1>1, <1>5, <1>6, <1>7 DEF r

\* A section of another kind leaves the last one as it is.
LEMMA LastOther ==
  ASSUME NEW S, NEW q \in Seq(S), NEW s \in S, NEW kind, s.kind # kind,
         HasBefore(q, kind, Len(q) + 1)
  PROVE  /\ HasBefore(Append(q, s), kind, Len(q) + 2)
         /\ LastIn(Append(q, s), kind, Len(q) + 2) = LastIn(q, kind, Len(q) + 1)
<1> DEFINE r == Append(q, s)
           n == Len(q) + 1
           before == {j \in 1 .. n - 1 : r[j].kind = kind}
<1>0. n \in Nat /\ Len(q) + 2 - 1 = n /\ n \in 1 .. n /\ n \in 1 .. Len(q) + 1
  OBVIOUS
<1>1. r[n] = s
  BY AppendProperties
<1>2. HasBefore(r, kind, n) /\ LastIn(r, kind, n) = LastIn(q, kind, n)
  BY LastKept
<1> HIDE DEF r, n
<1>3. {j \in 1 .. n : r[j].kind = kind} = before
  <2>1. \A j \in 1 .. n : j \in 1 .. n - 1 \/ j = n
    BY <1>0
  <2>2. \A j \in 1 .. n - 1 : j \in 1 .. n
    BY <1>0
  <2>3. QED
    BY <1>1, <2>1, <2>2
<1>4. LastIn(r, kind, Len(q) + 2) = LastIn(r, kind, n)
  <2> DEFINE i == Len(q) + 2
  <2>1. 1 .. i - 1 = 1 .. n
    BY <1>0
  <2> HIDE DEF i
  <2>2. {j \in 1 .. i - 1 : r[j].kind = kind} = before
    BY <1>3, <2>1
  <2>3. LastIn(r, kind, i) = LastIn(r, kind, n)
    BY <2>2 DEF LastIn
  <2>4. QED
    BY <2>3 DEF i
<1>5. HasBefore(r, kind, Len(q) + 2)
  BY <1>0, <1>2 DEF HasBefore
<1>6. QED
  BY <1>2, <1>4, <1>5 DEF r, n

-----------------------------------------------------------------------------
(***************************************************************************)
(* The dictionaries                                                        *)
(***************************************************************************)
Owned == {"block", "signal", "parameter", "message", "input circut"}

\* A section that leaves out its owner had one before it.
OwnersRead ==
  \A i \in DOMAIN sections :
    /\ sections[i].kind \in Owned /\ sections[i].type = Absent
         => HasBefore(sections, "type", i)
    /\ IsUnit(sections[i]) /\ sections[i].block = Absent
         => HasBefore(sections, "block", i)

\* The iterators stand at the last type and the last block, if any was read.
CurrentIsLast(kind, iterator) ==
  \/ iterator = Uninitialised
  \/ /\ HasBefore(sections, kind, Len(sections) + 1)
     /\ iterator = LastIn(sections, kind, Len(sections) + 1)

CurrentsSaid == /\ CurrentIsLast("type", current_devices_type)
                /\ CurrentIsLast("block", current_device_type_block)

\* A file is named by a section.
FilesNamed == appended_files_names <= Len(sections)

TypesInv == /\ TypesTyped /\ TypesAsSaid /\ OwnersRead /\ CurrentsSaid /\ FilesNamed
            /\ IsFiniteSet(data_units)

\* What a section's kind says of its entries.
LEMMA SectionFields ==
  ASSUME NEW s \in Section
  PROVE  /\ s.kind = "type" => s.id \in Types
         /\ s.kind = "block" => s.id \in Blocks
         /\ IsUnit(s) => s.id \in Units
         /\ s.kind = "message" => s.id \in MessageTypes
         /\ s.type \in Types \cup {Absent} /\ s.block \in Blocks \cup {Absent}
         /\ s.kind \in {"type", "append file"} \cup Owned
  BY DEF Section, IsUnit, Owned, Absent

\* A section is read at the end.
LEMMA SectionAppended ==
  ASSUME TypesInv, NEW s \in Section, sections' = Append(sections, s)
  PROVE  /\ Len(sections) \in Nat /\ Len(sections') = Len(sections) + 1
         /\ DOMAIN sections = 1 .. Len(sections)
         /\ DOMAIN sections' = 1 .. Len(sections) + 1
         /\ \A i \in DOMAIN sections : i \in DOMAIN sections' /\ sections'[i] = sections[i]
         /\ sections'[Len(sections) + 1] = s
         /\ sections \in Seq(Section) /\ sections' \in Seq(Section)
<1>1. sections \in Seq(Section)
  BY DEF TypesInv, TypesTyped
<1>2. /\ Append(sections, s) \in Seq(Section)
      /\ Len(Append(sections, s)) = Len(sections) + 1
      /\ \A i \in 1 .. Len(sections) : Append(sections, s)[i] = sections[i]
      /\ Append(sections, s)[Len(sections) + 1] = s
  BY <1>1, AppendProperties
<1>3. /\ Len(sections) \in Nat /\ DOMAIN sections = 1 .. Len(sections)
      /\ DOMAIN sections' = 1 .. Len(sections')
  BY <1>1, <1>2
<1>4. QED
  BY <1>1, <1>2, <1>3

\* The owners of the sections read before are who they were.
LEMMA OwnersStay ==
  ASSUME TypesInv, NEW s \in Section, sections' = Append(sections, s)
  PROVE  \A i \in DOMAIN sections :
           /\ sections[i].kind \in Owned => TypeSaid(i)' = TypeSaid(i)
           /\ IsUnit(sections[i]) => BlockSaid(i)' = BlockSaid(i)
<1>1. SUFFICES ASSUME NEW i \in DOMAIN sections
               PROVE  /\ sections[i].kind \in Owned => TypeSaid(i)' = TypeSaid(i)
                      /\ IsUnit(sections[i]) => BlockSaid(i)' = BlockSaid(i)
  OBVIOUS
<1>2. /\ sections \in Seq(Section) /\ i \in 1 .. Len(sections) + 1
      /\ sections'[i] = sections[i]
  BY SectionAppended
<1>3. \A kind : HasBefore(sections, kind, i)
                  => LastIn(sections', kind, i) = LastIn(sections, kind, i)
  BY <1>2, LastKept
<1>4. \A kind : /\ LastBefore(kind, i) = LastIn(sections, kind, i)
                /\ LastBefore(kind, i)' = LastIn(sections', kind, i)
  BY DEF LastBefore, LastIn
<1>5. sections[i].kind \in Owned => TypeSaid(i)' = TypeSaid(i)
  <2>1. sections[i].kind \in Owned /\ sections[i].type = Absent
          => LastBefore("type", i)' = LastBefore("type", i)
    BY <1>3, <1>4 DEF TypesInv, OwnersRead
  <2>2. QED
    BY <1>2, <2>1 DEF TypeSaid
<1>6. IsUnit(sections[i]) => BlockSaid(i)' = BlockSaid(i)
  <2>1. IsUnit(sections[i]) /\ sections[i].block = Absent
          => LastBefore("block", i)' = LastBefore("block", i)
    BY <1>3, <1>4 DEF TypesInv, OwnersRead
  <2>2. QED
    BY <1>2, <2>1 DEF BlockSaid
<1>7. QED
  BY <1>5, <1>6

\* The owner that is used for a section is the one the file says.
LEMMA OwnerOfNew ==
  ASSUME TypesInv, NEW s \in Section, sections' = Append(sections, s),
         NEW n \in Nat, n = Len(sections) + 1
  PROVE  /\ TypeOf(s) # Uninitialised =>
              /\ TypeSaid(n)' = TypeOf(s)
              /\ s.type = Absent => HasBefore(sections', "type", n)
         /\ BlockOf(s) # Uninitialised =>
              /\ BlockSaid(n)' = BlockOf(s)
              /\ s.block = Absent => HasBefore(sections', "block", n)
<1>1. sections \in Seq(Section) /\ n \in 1 .. Len(sections) + 1 /\ sections'[n] = s
  BY SectionAppended
<1>2. \A kind : HasBefore(sections, kind, n)
                  => /\ LastIn(sections', kind, n) = LastIn(sections, kind, n)
                     /\ HasBefore(sections', kind, n)
  BY <1>1, LastKept
<1>3. \A kind : LastBefore(kind, n)' = LastIn(sections', kind, n)
  BY DEF LastBefore, LastIn
<1>4. CurrentIsLast("type", current_devices_type)
  BY DEF TypesInv, CurrentsSaid
<1>5. CurrentIsLast("block", current_device_type_block)
  BY DEF TypesInv, CurrentsSaid
<1>6. TypeOf(s) # Uninitialised =>
        /\ TypeSaid(n)' = TypeOf(s)
        /\ s.type = Absent => HasBefore(sections', "type", n)
  BY <1>1, <1>2, <1>3, <1>4 DEF TypeOf, TypeSaid, CurrentIsLast
<1>7. BlockOf(s) # Uninitialised =>
        /\ BlockSaid(n)' = BlockOf(s)
        /\ s.block = Absent => HasBefore(sections', "block", n)
  BY <1>1, <1>2, <1>3, <1>5 DEF BlockOf, BlockSaid, CurrentIsLast
<1>8. QED
  BY <1>6, <1>7

\* The places of some kinds of sections.
LEMMA SaidAppended ==
  ASSUME TypesInv, NEW s \in Section, sections' = Append(sections, s), NEW kinds
  PROVE  /\ Said(kinds) \subseteq DOMAIN sections /\ IsFiniteSet(Said(kinds))
         /\ Len(sections) + 1 \notin Said(kinds)
         /\ s.kind \in kinds => Said(kinds)' = Said(kinds) \cup {Len(sections) + 1}
         /\ s.kind \notin kinds => Said(kinds)' = Said(kinds)
<1>1. /\ DOMAIN sections = 1 .. Len(sections) /\ Len(sections) \in Nat
      /\ DOMAIN sections' = 1 .. Len(sections) + 1
      /\ \A i \in DOMAIN sections : sections'[i] = sections[i]
      /\ sections'[Len(sections) + 1] = s
  BY SectionAppended
<1>2. 1 .. Len(sections) + 1 = (1 .. Len(sections)) \cup {Len(sections) + 1}
  BY <1>1
<1>3. Said(kinds) \subseteq DOMAIN sections /\ Len(sections) + 1 \notin Said(kinds)
  BY <1>1 DEF Said
<1>4. IsFiniteSet(1 .. Len(sections))
  BY <1>1, FS_Interval
<1>5. IsFiniteSet(Said(kinds))
  BY <1>1, <1>3, <1>4, FS_Subset
<1>6. s.kind \in kinds => Said(kinds)' = Said(kinds) \cup {Len(sections) + 1}
  BY <1>1, <1>2 DEF Said
<1>7. s.kind \notin kinds => Said(kinds)' = Said(kinds)
  BY <1>1, <1>2 DEF Said
<1>8. QED
  BY <1>3, <1>5, <1>6, <1>7

\* The contents as the files say them.
TypesOfFiles == {sections[i].id : i \in Said({"type"})}
BlocksOfFiles == {<<TypeSaid(i), sections[i].id>> : i \in Said({"block"})}
UnitsOfFiles == {[type |-> TypeSaid(i), block |-> BlockSaid(i),
                  id |-> sections[i].id, kind |-> sections[i].kind] :
                   i \in Said({"signal", "parameter"})}
CircutsOfFiles(t) == {i \in Said({"input circut"}) : TypeSaid(i) = t}

\* What a section adds to the types and the blocks.
LEMMA TypesAndBlocksSaid ==
  ASSUME TypesInv, NEW s \in Section, sections' = Append(sections, s)
  PROVE  /\ s.kind = "type" => TypesOfFiles' = TypesOfFiles \cup {s.id}
         /\ s.kind # "type" => TypesOfFiles' = TypesOfFiles
         /\ s.kind = "block" /\ TypeOf(s) # Uninitialised
              => BlocksOfFiles' = BlocksOfFiles \cup {<<TypeOf(s), s.id>>}
         /\ s.kind # "block" => BlocksOfFiles' = BlocksOfFiles
<1>1. PICK n \in Nat : n = Len(sections) + 1
  BY SectionAppended
<1>2. /\ \A i \in DOMAIN sections : sections'[i] = sections[i]
      /\ sections'[n] = s
  BY <1>1, SectionAppended
<1>3. \A i \in DOMAIN sections : sections[i].kind \in Owned => TypeSaid(i)' = TypeSaid(i)
  BY OwnersStay
<1>4. TypeOf(s) # Uninitialised => TypeSaid(n)' = TypeOf(s)
  BY <1>1, OwnerOfNew
<1>5. \A i \in Said({"type"}) : sections'[i] = sections[i]
  BY <1>2 DEF Said
<1>6. \A i \in Said({"block"}) : sections'[i] = sections[i] /\ TypeSaid(i)' = TypeSaid(i)
  BY <1>2, <1>3 DEF Said, Owned
<1>7. CASE s.kind = "type"
  <2>1. Said({"type"})' = Said({"type"}) \cup {n} /\ Said({"block"})' = Said({"block"})
    BY <1>1, <1>7, SaidAppended
  <2>2. TypesOfFiles' = TypesOfFiles \cup {s.id}
    BY <1>2, <1>5, <2>1 DEF TypesOfFiles
  <2>3. BlocksOfFiles' = BlocksOfFiles
    BY <1>6, <2>1 DEF BlocksOfFiles
  <2>4. QED
    BY <1>7, <2>2, <2>3
<1>8. CASE s.kind = "block"
  <2>1. Said({"type"})' = Said({"type"}) /\ Said({"block"})' = Said({"block"}) \cup {n}
    BY <1>1, <1>8, SaidAppended
  <2>2. TypesOfFiles' = TypesOfFiles
    BY <1>5, <2>1 DEF TypesOfFiles
  <2>3. TypeOf(s) # Uninitialised
          => BlocksOfFiles' = BlocksOfFiles \cup {<<TypeOf(s), s.id>>}
    BY <1>2, <1>4, <1>6, <2>1 DEF BlocksOfFiles
  <2>4. QED
    BY <1>8, <2>2, <2>3
<1>9. CASE s.kind \notin {"type", "block"}
  <2>1. Said({"type"})' = Said({"type"}) /\ Said({"block"})' = Said({"block"})
    BY <1>9, SaidAppended
  <2>2. TypesOfFiles' = TypesOfFiles
    BY <1>5, <2>1 DEF TypesOfFiles
  <2>3. BlocksOfFiles' = BlocksOfFiles
    BY <1>6, <2>1 DEF BlocksOfFiles
  <2>4. QED
    BY <1>9, <2>2, <2>3
<1>10. QED
  BY <1>7, <1>8, <1>9

\* What it adds to the units and to the circuts.
LEMMA UnitsAndCircutsSaid ==
  ASSUME TypesInv, NEW s \in Section, sections' = Append(sections, s)
  PROVE  /\ IsUnit(s) /\ TypeOf(s) # Uninitialised /\ BlockOf(s) # Uninitialised
              => UnitsOfFiles' = UnitsOfFiles \cup
                   {[type |-> TypeOf(s), block |-> BlockOf(s), id |-> s.id, kind |-> s.kind]}
         /\ ~IsUnit(s) => UnitsOfFiles' = UnitsOfFiles
         /\ \A t : s.kind = "input circut" /\ TypeOf(s) # Uninitialised
              => CircutsOfFiles(t)' = IF t = TypeOf(s)
                                      THEN CircutsOfFiles(t) \cup {Len(sections) + 1}
                                      ELSE CircutsOfFiles(t)
         /\ \A t : s.kind # "input circut" => CircutsOfFiles(t)' = CircutsOfFiles(t)
<1> DEFINE UnitKinds == {"signal", "parameter"}
           CircutKinds == {"input circut"}
<1>1. PICK n \in Nat : n = Len(sections) + 1
  BY SectionAppended
<1>2. /\ \A i \in DOMAIN sections : sections'[i] = sections[i]
      /\ sections'[n] = s
  BY <1>1, SectionAppended
<1>3. \A i \in DOMAIN sections :
        /\ sections[i].kind \in Owned => TypeSaid(i)' = TypeSaid(i)
        /\ IsUnit(sections[i]) => BlockSaid(i)' = BlockSaid(i)
  BY OwnersStay
<1>4. /\ TypeOf(s) # Uninitialised => TypeSaid(n)' = TypeOf(s)
      /\ BlockOf(s) # Uninitialised => BlockSaid(n)' = BlockOf(s)
  BY <1>1, OwnerOfNew
<1>5. \A i \in Said(UnitKinds) : /\ sections'[i] = sections[i]
                                 /\ TypeSaid(i)' = TypeSaid(i)
                                 /\ BlockSaid(i)' = BlockSaid(i)
  BY <1>2, <1>3 DEF Said, Owned, IsUnit
<1>6. \A i \in Said(CircutKinds) : TypeSaid(i)' = TypeSaid(i)
  BY <1>3 DEF Said, Owned
<1>7. /\ s.kind \in UnitKinds => Said(UnitKinds)' = Said(UnitKinds) \cup {n}
      /\ s.kind \notin UnitKinds => Said(UnitKinds)' = Said(UnitKinds)
      /\ s.kind \in CircutKinds => Said(CircutKinds)' = Said(CircutKinds) \cup {n}
      /\ s.kind \notin CircutKinds => Said(CircutKinds)' = Said(CircutKinds)
  BY <1>1, SaidAppended
<1>8. ASSUME IsUnit(s), TypeOf(s) # Uninitialised, BlockOf(s) # Uninitialised
      PROVE  UnitsOfFiles' = UnitsOfFiles \cup
               {[type |-> TypeOf(s), block |-> BlockOf(s), id |-> s.id, kind |-> s.kind]}
  <2>1. Said(UnitKinds)' = Said(UnitKinds) \cup {n}
    BY <1>7, <1>8 DEF IsUnit
  <2>2. UnitsOfFiles' = {[type |-> TypeSaid(i)', block |-> BlockSaid(i)',
                          id |-> sections'[i].id, kind |-> sections'[i].kind] :
                            i \in Said(UnitKinds)'}
    BY DEF UnitsOfFiles
  <2>3. /\ TypeSaid(n)' = TypeOf(s) /\ BlockSaid(n)' = BlockOf(s)
        /\ sections'[n].id = s.id /\ sections'[n].kind = s.kind
    BY <1>2, <1>4, <1>8
  <2>4. \A i \in Said(UnitKinds) :
          [type |-> TypeSaid(i)', block |-> BlockSaid(i)',
           id |-> sections'[i].id, kind |-> sections'[i].kind]
          = [type |-> TypeSaid(i), block |-> BlockSaid(i),
             id |-> sections[i].id, kind |-> sections[i].kind]
    BY <1>5
  <2>5. UnitsOfFiles = {[type |-> TypeSaid(i), block |-> BlockSaid(i),
                         id |-> sections[i].id, kind |-> sections[i].kind] :
                           i \in Said(UnitKinds)}
    BY DEF UnitsOfFiles
  <2>6. UnitsOfFiles' = {[type |-> TypeSaid(i)', block |-> BlockSaid(i)',
                          id |-> sections'[i].id, kind |-> sections'[i].kind] :
                            i \in Said(UnitKinds)}
                        \cup {[type |-> TypeSaid(n)', block |-> BlockSaid(n)',
                               id |-> sections'[n].id, kind |-> sections'[n].kind]}
    BY <2>1, <2>2, Zenon
  <2>7. QED
    BY <2>3, <2>4, <2>5, <2>6, Zenon
<1>9. ~IsUnit(s) => UnitsOfFiles' = UnitsOfFiles
  BY <1>5, <1>7 DEF UnitsOfFiles, IsUnit
<1>10. ASSUME NEW t, s.kind = "input circut", TypeOf(s) # Uninitialised
       PROVE  CircutsOfFiles(t)' = IF t = TypeOf(s) THEN CircutsOfFiles(t) \cup {n}
                                   ELSE CircutsOfFiles(t)
  <2>1. Said(CircutKinds)' = Said(CircutKinds) \cup {n}
    BY <1>7, <1>10
  <2>2. TypeSaid(n)' = TypeOf(s)
    BY <1>4, <1>10
  <2>3. CircutsOfFiles(t)' = {i \in Said(CircutKinds) \cup {n} : TypeSaid(i)' = t}
    BY <2>1 DEF CircutsOfFiles
  <2>4. QED
    BY <1>6, <2>2, <2>3 DEF CircutsOfFiles
<1>11. ASSUME NEW t, s.kind # "input circut"
       PROVE  CircutsOfFiles(t)' = CircutsOfFiles(t)
  BY <1>6, <1>7, <1>11 DEF CircutsOfFiles
<1>12. QED
  BY <1>1, <1>8, <1>9, <1>10, <1>11

\* A section that is loaded has its owners.
LEMMA OwnersOfLoaded ==
  ASSUME TypesInv, NEW s \in Section, ReadSection(s)
  PROVE  /\ s.kind \in Owned => TypeOf(s) # Uninitialised /\ TypeOf(s) \in types
         /\ IsUnit(s) => BlockOf(s) # Uninitialised
<1>1. ~Undefined(s) /\ Loads(s)
  BY DEF ReadSection
<1>2. s.kind \in Owned => TypeOf(s) # Uninitialised
  BY <1>1 DEF Undefined, Owned
<1>3. s.kind \in Owned => TypeOf(s) \in types
  BY <1>1 DEF Loads, LoadType, LoadBlock, LoadDataUnit, LoadTypeMessage, LoadInputCircut,
              AppendFile, NewBlock, NewUnit, NewMessage, KnownType, Owned
<1>4. IsUnit(s) => s.kind \in Owned
  BY DEF IsUnit, Owned
<1>5. IsUnit(s) => BlockOf(s) # Uninitialised
  BY <1>1, <1>3, <1>4 DEF Undefined, IsUnit
<1>6. QED
  BY <1>2, <1>3, <1>5

\* It leaves the owners of all the sections read.
LEMMA OwnersKept ==
  ASSUME TypesInv, NEW s \in Section, ReadSection(s)
  PROVE  OwnersRead'
<1>0. sections' = Append(sections, s)
  BY DEF ReadSection
<1>1. PICK n \in Nat : n = Len(sections) + 1
  BY <1>0, SectionAppended
<1>2. /\ DOMAIN sections = 1 .. Len(sections) /\ Len(sections) \in Nat
      /\ DOMAIN sections' = 1 .. Len(sections) + 1
      /\ \A i \in DOMAIN sections : sections'[i] = sections[i]
      /\ sections'[n] = s /\ sections \in Seq(Section)
  BY <1>0, <1>1, SectionAppended
<1>3. ASSUME NEW i \in DOMAIN sections
      PROVE  \A kind : HasBefore(sections, kind, i) => HasBefore(sections', kind, i)
  <2>1. i \in 1 .. Len(sections) + 1
    BY <1>2
  <2>2. QED
    BY <1>0, <1>2, <2>1, LastKept
<1>4. ASSUME NEW i \in DOMAIN sections
      PROVE  /\ sections'[i].kind \in Owned /\ sections'[i].type = Absent
                  => HasBefore(sections', "type", i)
             /\ IsUnit(sections'[i]) /\ sections'[i].block = Absent
                  => HasBefore(sections', "block", i)
  BY <1>2, <1>3 DEF TypesInv, OwnersRead
<1>5. /\ s.kind \in Owned /\ s.type = Absent => HasBefore(sections', "type", n)
      /\ IsUnit(s) /\ s.block = Absent => HasBefore(sections', "block", n)
  BY <1>0, <1>1, OwnersOfLoaded, OwnerOfNew
<1>6. \A i \in DOMAIN sections' : i \in DOMAIN sections \/ i = n
  BY <1>1, <1>2
<1>7. ASSUME NEW i \in DOMAIN sections'
      PROVE  /\ sections'[i].kind \in Owned /\ sections'[i].type = Absent
                  => HasBefore(sections', "type", i)
             /\ IsUnit(sections'[i]) /\ sections'[i].block = Absent
                  => HasBefore(sections', "block", i)
  BY <1>2, <1>4, <1>5, <1>6
<1>8. QED
  BY <1>7 DEF OwnersRead, IsUnit

\* An iterator that is left where it is stands at the last one of its kind,
\* if the section is of another.
LEMMA CurrentStays ==
  ASSUME NEW q \in Seq(Section), NEW s \in Section, NEW kind, NEW iterator,
         s.kind # kind,
         \/ iterator = Uninitialised
         \/ /\ HasBefore(q, kind, Len(q) + 1)
            /\ iterator = LastIn(q, kind, Len(q) + 1)
  PROVE  \/ iterator = Uninitialised
         \/ /\ HasBefore(Append(q, s), kind, Len(Append(q, s)) + 1)
            /\ iterator = LastIn(Append(q, s), kind, Len(Append(q, s)) + 1)
<1>1. Len(Append(q, s)) + 1 = Len(q) + 2
  OBVIOUS
<1>2. CASE iterator = Uninitialised
  BY <1>2
<1>3. CASE iterator # Uninitialised
  <2>1. /\ HasBefore(Append(q, s), kind, Len(q) + 2)
        /\ LastIn(Append(q, s), kind, Len(q) + 2) = LastIn(q, kind, Len(q) + 1)
    BY <1>3, LastOther
  <2>2. QED
    BY <1>1, <1>3, <2>1
<1>4. QED
  BY <1>2, <1>3

\* The iterators stand at the last type and the last block after it.
LEMMA CurrentsKept ==
  ASSUME TypesInv, NEW s \in Section, ReadSection(s)
  PROVE  CurrentsSaid'
<1>0. sections' = Append(sections, s) /\ sections \in Seq(Section) /\ Loads(s)
  BY DEF ReadSection, TypesInv, TypesTyped
<1>1. Len(sections') + 1 = Len(sections) + 2
  BY <1>0
<1>2. /\ HasBefore(sections', s.kind, Len(sections) + 2)
      /\ LastIn(sections', s.kind, Len(sections) + 2) = s.id
  BY <1>0, LastNew
<1>3. /\ HasBefore(sections', s.kind, Len(sections') + 1)
      /\ LastIn(sections', s.kind, Len(sections') + 1) = s.id
  BY <1>1, <1>2
<1>4. /\ s.kind = "type" => current_devices_type' = s.id
      /\ s.kind # "type" => current_devices_type' = current_devices_type
      /\ s.kind = "block" => current_device_type_block' = s.id
      /\ s.kind # "block" => current_device_type_block' = current_device_type_block
  BY <1>0 DEF Loads, LoadType, LoadBlock, LoadDataUnit, LoadTypeMessage, LoadInputCircut,
              AppendFile, IsUnit, current, contents
<1>5. s.kind # "type" =>
        \/ current_devices_type = Uninitialised
        \/ /\ HasBefore(sections', "type", Len(sections') + 1)
           /\ current_devices_type = LastIn(sections', "type", Len(sections') + 1)
  BY <1>0, CurrentStays DEF TypesInv, CurrentsSaid, CurrentIsLast
<1>6. s.kind # "block" =>
        \/ current_device_type_block = Uninitialised
        \/ /\ HasBefore(sections', "block", Len(sections') + 1)
           /\ current_device_type_block = LastIn(sections', "block", Len(sections') + 1)
  BY <1>0, CurrentStays DEF TypesInv, CurrentsSaid, CurrentIsLast
<1>7. /\ \/ current_devices_type' = Uninitialised
         \/ /\ HasBefore(sections', "type", Len(sections') + 1)
            /\ current_devices_type' = LastIn(sections', "type", Len(sections') + 1)
      /\ \/ current_device_type_block' = Uninitialised
         \/ /\ HasBefore(sections', "block", Len(sections') + 1)
            /\ current_device_type_block' = LastIn(sections', "block", Len(sections') + 1)
  BY <1>3, <1>4, <1>5, <1>6
<1>8. QED
  BY <1>7 DEF CurrentsSaid, CurrentIsLast

\* Circuts are counted from sections, and no more than there are.
LEMMA CircutsCounted ==
  ASSUME TypesInv, NEW t
  PROVE  /\ IsFiniteSet(CircutsOfFiles(t)) /\ Len(sections) + 1 \notin CircutsOfFiles(t)
         /\ Cardinality(CircutsOfFiles(t)) \in Nat
         /\ Cardinality(CircutsOfFiles(t)) <= Len(sections)
<1>1. Len(sections) \in Nat /\ DOMAIN sections = 1 .. Len(sections)
  <2>1. sections \in Seq(Section)
    BY DEF TypesInv, TypesTyped
  <2>2. QED
    BY <2>1, LenProperties
<1>2. CircutsOfFiles(t) \subseteq 1 .. Len(sections)
  BY <1>1 DEF CircutsOfFiles, Said
<1>3. IsFiniteSet(1 .. Len(sections)) /\ Cardinality(1 .. Len(sections)) = Len(sections)
  <2>1. PICK n \in Nat : n = Len(sections)
    BY <1>1
  <2>2. IsFiniteSet(1 .. n) /\ Cardinality(1 .. n) = IF 1 > n THEN 0 ELSE n - 1 + 1
    BY FS_Interval
  <2>3. QED
    BY <2>1, <2>2
<1>4. /\ IsFiniteSet(CircutsOfFiles(t))
      /\ Cardinality(CircutsOfFiles(t)) <= Cardinality(1 .. Len(sections))
  BY <1>2, <1>3, FS_Subset
<1>5. Len(sections) + 1 \notin CircutsOfFiles(t)
  BY <1>1, <1>2
<1>6. QED
  BY <1>3, <1>4, <1>5, FS_CardinalityType

\* The dictionaries are what the files say, where nothing is undefined.
AsSaid ==
  /\ types = TypesOfFiles /\ blocks = BlocksOfFiles /\ data_units = UnitsOfFiles
  /\ \A u, v \in data_units : u.type = v.type /\ u.id = v.id => u = v
  /\ Cardinality(data_units) = Cardinality(Said({"signal", "parameter"}))
  /\ \A u \in data_units : <<u.type, u.block>> \in blocks
  /\ \A t \in Types : circuts[t] = Cardinality(CircutsOfFiles(t))
  /\ messages \subseteq msg_types
  /\ \A m \in type_messages : m[1] \in types /\ m[2] \in msg_types

\* It is what TypesAsSaid says.
LEMMA AsSaidDef == TypesAsSaid <=> (reading # "crashed" => AsSaid)
BY DEF TypesAsSaid, AsSaid, TypesOfFiles, BlocksOfFiles, UnitsOfFiles, CircutsOfFiles

\* A section of a type.
LEMMA TypeLoaded ==
  ASSUME TypesInv, AsSaid, NEW s \in Section, ReadSection(s), s.kind = "type"
  PROVE  AsSaid' /\ IsFiniteSet(data_units')
<1>0. sections' = Append(sections, s) /\ LoadType(s) /\ UNCHANGED dictionaries
  BY DEF ReadSection, Loads, LoadBlock, LoadDataUnit, LoadTypeMessage, LoadInputCircut,
         AppendFile, IsUnit
<1>1. ~IsUnit(s) /\ s.kind # "block" /\ s.kind # "input circut"
  BY DEF IsUnit
<1>2. types' = TypesOfFiles'
  BY <1>0, TypesAndBlocksSaid DEF AsSaid, LoadType
<1>3. blocks' = BlocksOfFiles'
  BY <1>0, <1>1, TypesAndBlocksSaid DEF AsSaid, LoadType
<1>4. data_units' = UnitsOfFiles'
  BY <1>0, <1>1, UnitsAndCircutsSaid DEF AsSaid, LoadType
<1>5. Said({"signal", "parameter"})' = Said({"signal", "parameter"})
  BY <1>0, SaidAppended
<1>6. \A t \in Types : circuts'[t] = Cardinality(CircutsOfFiles(t)')
  BY <1>0, <1>1, UnitsAndCircutsSaid DEF AsSaid, LoadType
<1>7. \A m \in type_messages' : m[1] \in types' /\ m[2] \in msg_types'
  BY <1>0 DEF AsSaid, LoadType, dictionaries
<1>8. /\ blocks' = blocks /\ data_units' = data_units /\ messages' = messages
      /\ msg_types' = msg_types
  BY <1>0 DEF LoadType, dictionaries
<1>9. IsFiniteSet(data_units')
  BY <1>8 DEF TypesInv
<1>10. QED
  BY <1>2, <1>3, <1>4, <1>5, <1>6, <1>7, <1>8, <1>9 DEF AsSaid

\* A section of a block.
LEMMA BlockLoaded ==
  ASSUME TypesInv, AsSaid, NEW s \in Section, ReadSection(s), s.kind = "block"
  PROVE  AsSaid' /\ IsFiniteSet(data_units')
<1>0. sections' = Append(sections, s) /\ LoadBlock(s) /\ UNCHANGED dictionaries
  BY DEF ReadSection, Loads, LoadType, LoadDataUnit, LoadTypeMessage, LoadInputCircut,
         AppendFile, IsUnit
<1>1. ~IsUnit(s) /\ s.kind # "type" /\ s.kind # "input circut"
  BY DEF IsUnit
<1>2. TypeOf(s) # Uninitialised
  BY OwnersOfLoaded DEF Owned
<1>3. types' = TypesOfFiles'
  BY <1>0, <1>1, TypesAndBlocksSaid DEF AsSaid, LoadBlock
<1>4. blocks' = BlocksOfFiles'
  BY <1>0, <1>2, TypesAndBlocksSaid DEF AsSaid, LoadBlock
<1>5. data_units' = UnitsOfFiles'
  BY <1>0, <1>1, UnitsAndCircutsSaid DEF AsSaid, LoadBlock
<1>6. Said({"signal", "parameter"})' = Said({"signal", "parameter"})
  BY <1>0, SaidAppended
<1>7. \A t \in Types : circuts'[t] = Cardinality(CircutsOfFiles(t)')
  BY <1>0, <1>1, UnitsAndCircutsSaid DEF AsSaid, LoadBlock
<1>8. /\ types' = types /\ data_units' = data_units /\ messages' = messages
      /\ msg_types' = msg_types /\ type_messages' = type_messages
  BY <1>0 DEF LoadBlock, dictionaries
<1>9. \A u \in data_units' : <<u.type, u.block>> \in blocks'
  BY <1>0, <1>8 DEF AsSaid, LoadBlock
<1>10. IsFiniteSet(data_units')
  BY <1>8 DEF TypesInv
<1>11. QED
  BY <1>3, <1>4, <1>5, <1>6, <1>7, <1>8, <1>9, <1>10 DEF AsSaid

\* A section of a unit: it is not yet there, so there is one more of each.
LEMMA UnitLoaded ==
  ASSUME TypesInv, AsSaid, NEW s \in Section, ReadSection(s), IsUnit(s)
  PROVE  AsSaid' /\ IsFiniteSet(data_units')
<1> DEFINE UnitKinds == {"signal", "parameter"}
           unit == [type |-> TypeOf(s), block |-> BlockOf(s), id |-> s.id, kind |-> s.kind]
<1>0. sections' = Append(sections, s) /\ LoadDataUnit(s) /\ UNCHANGED dictionaries
  BY DEF ReadSection, Loads, LoadType, LoadBlock, LoadTypeMessage, LoadInputCircut,
         AppendFile, IsUnit
<1>1. s.kind # "type" /\ s.kind # "block" /\ s.kind # "input circut" /\ s.kind \in UnitKinds
  BY DEF IsUnit
<1>2. TypeOf(s) # Uninitialised /\ BlockOf(s) # Uninitialised
  BY <1>1, OwnersOfLoaded DEF Owned
<1>3. types' = TypesOfFiles'
  BY <1>0, <1>1, TypesAndBlocksSaid DEF AsSaid, LoadDataUnit
<1>4. blocks' = BlocksOfFiles'
  BY <1>0, <1>1, TypesAndBlocksSaid DEF AsSaid, LoadDataUnit
<1>5. data_units' = data_units \cup {unit}
  BY <1>0 DEF LoadDataUnit
<1>6. data_units' = UnitsOfFiles'
  BY <1>0, <1>2, <1>5, UnitsAndCircutsSaid DEF AsSaid
<1>7. \A t \in Types : circuts'[t] = Cardinality(CircutsOfFiles(t)')
  BY <1>0, <1>1, UnitsAndCircutsSaid DEF AsSaid, LoadDataUnit
<1>8. /\ types' = types /\ blocks' = blocks /\ messages' = messages
      /\ msg_types' = msg_types /\ type_messages' = type_messages
  BY <1>0 DEF LoadDataUnit, dictionaries
<1>9. /\ <<TypeOf(s), BlockOf(s)>> \in blocks
      /\ \A u \in data_units : ~(u.type = TypeOf(s) /\ u.id = s.id)
  BY <1>0 DEF LoadDataUnit, NewUnit
<1>10. unit.type = TypeOf(s) /\ unit.block = BlockOf(s) /\ unit.id = s.id
  OBVIOUS
<1> HIDE DEF unit
<1>11. unit \notin data_units
  BY <1>9, <1>10
<1>12. \A u, v \in data_units' : u.type = v.type /\ u.id = v.id => u = v
  BY <1>5, <1>9, <1>10 DEF AsSaid
<1>13. \A u \in data_units' : <<u.type, u.block>> \in blocks'
  BY <1>5, <1>8, <1>9, <1>10 DEF AsSaid
<1>14. /\ IsFiniteSet(data_units')
       /\ Cardinality(data_units') = Cardinality(data_units) + 1
  BY <1>5, <1>11, FS_AddElement DEF TypesInv
<1>15. /\ IsFiniteSet(Said(UnitKinds)) /\ Len(sections) + 1 \notin Said(UnitKinds)
       /\ Said(UnitKinds)' = Said(UnitKinds) \cup {Len(sections) + 1}
  BY <1>0, <1>1, SaidAppended
<1>16. Cardinality(Said(UnitKinds)') = Cardinality(Said(UnitKinds)) + 1
  BY <1>15, FS_AddElement
<1>17. Cardinality(data_units') = Cardinality(Said(UnitKinds)')
  BY <1>14, <1>16 DEF AsSaid
<1>18. QED
  BY <1>3, <1>4, <1>6, <1>7, <1>8, <1>12, <1>13, <1>14, <1>17 DEF AsSaid

\* A section of a circut: its type has one more.
LEMMA CircutLoaded ==
  ASSUME TypesInv, AsSaid, NEW s \in Section, ReadSection(s), s.kind = "input circut"
  PROVE  AsSaid' /\ IsFiniteSet(data_units')
<1>0. sections' = Append(sections, s) /\ LoadInputCircut(s) /\ UNCHANGED dictionaries
  BY DEF ReadSection, Loads, LoadType, LoadBlock, LoadDataUnit, LoadTypeMessage,
         AppendFile, IsUnit
<1>1. ~IsUnit(s) /\ s.kind # "type" /\ s.kind # "block"
  BY DEF IsUnit
<1>2. TypeOf(s) # Uninitialised
  BY OwnersOfLoaded DEF Owned
<1>3. types' = TypesOfFiles'
  BY <1>0, <1>1, TypesAndBlocksSaid DEF AsSaid, LoadInputCircut
<1>4. blocks' = BlocksOfFiles'
  BY <1>0, <1>1, TypesAndBlocksSaid DEF AsSaid, LoadInputCircut
<1>5. data_units' = UnitsOfFiles'
  BY <1>0, <1>1, UnitsAndCircutsSaid DEF AsSaid, LoadInputCircut
<1>6. Said({"signal", "parameter"})' = Said({"signal", "parameter"})
  BY <1>0, SaidAppended
<1>7. ASSUME NEW t \in Types
      PROVE  circuts'[t] = Cardinality(CircutsOfFiles(t)')
  <2>1. CircutsOfFiles(t)' = IF t = TypeOf(s)
                             THEN CircutsOfFiles(t) \cup {Len(sections) + 1}
                             ELSE CircutsOfFiles(t)
    BY <1>0, <1>2, UnitsAndCircutsSaid
  <2>2. Cardinality(CircutsOfFiles(t) \cup {Len(sections) + 1})
          = Cardinality(CircutsOfFiles(t)) + 1
    BY CircutsCounted, FS_AddElement
  <2>3. circuts'[t] = IF t = TypeOf(s) THEN circuts[t] + 1 ELSE circuts[t]
    BY <1>0 DEF LoadInputCircut, TypesInv, TypesTyped
  <2>4. circuts[t] = Cardinality(CircutsOfFiles(t))
    BY DEF AsSaid
  <2>5. QED
    BY <2>1, <2>2, <2>3, <2>4
<1>8. /\ types' = types /\ blocks' = blocks /\ data_units' = data_units
      /\ messages' = messages /\ msg_types' = msg_types /\ type_messages' = type_messages
  BY <1>0 DEF LoadInputCircut, dictionaries
<1>9. IsFiniteSet(data_units')
  BY <1>8 DEF TypesInv
<1>10. QED
  BY <1>3, <1>4, <1>5, <1>6, <1>7, <1>8, <1>9 DEF AsSaid

\* A message of a type, or the name of a further file.
LEMMA OtherLoaded ==
  ASSUME TypesInv, AsSaid, NEW s \in Section, ReadSection(s),
         s.kind \in {"message", "append file"}
  PROVE  AsSaid' /\ IsFiniteSet(data_units')
<1>0. /\ sections' = Append(sections, s)
      /\ LoadTypeMessage(s) \/ AppendFile(s)
      /\ UNCHANGED dictionaries
  BY DEF ReadSection, Loads, LoadType, LoadBlock, LoadDataUnit, LoadInputCircut, IsUnit
<1>1. ~IsUnit(s) /\ s.kind # "type" /\ s.kind # "block" /\ s.kind # "input circut"
  BY DEF IsUnit
<1>2. /\ types' = types /\ blocks' = blocks /\ data_units' = data_units
      /\ circuts' = circuts /\ messages' = messages /\ msg_types' = msg_types
  BY <1>0 DEF LoadTypeMessage, AppendFile, dictionaries, contents
<1>3. types' = TypesOfFiles'
  BY <1>0, <1>1, <1>2, TypesAndBlocksSaid DEF AsSaid
<1>4. blocks' = BlocksOfFiles'
  BY <1>0, <1>1, <1>2, TypesAndBlocksSaid DEF AsSaid
<1>5. data_units' = UnitsOfFiles'
  BY <1>0, <1>1, <1>2, UnitsAndCircutsSaid DEF AsSaid
<1>6. Said({"signal", "parameter"})' = Said({"signal", "parameter"})
  BY <1>0, <1>1, SaidAppended DEF IsUnit
<1>7. \A t \in Types : circuts'[t] = Cardinality(CircutsOfFiles(t)')
  BY <1>0, <1>1, <1>2, UnitsAndCircutsSaid DEF AsSaid
<1>8. \A m \in type_messages' : m[1] \in types' /\ m[2] \in msg_types'
  <2>1. ASSUME LoadTypeMessage(s), NEW m \in type_messages'
        PROVE  m \in type_messages \/ (m[1] \in types /\ m[2] \in msg_types)
    <3> DEFINE pair == <<TypeOf(s), s.id>>
    <3>1. m \in type_messages \/ m = pair
      BY <2>1 DEF LoadTypeMessage
    <3>2. pair[1] \in types /\ pair[2] \in msg_types
      BY <2>1 DEF LoadTypeMessage, NewMessage
    <3> HIDE DEF pair
    <3>3. QED
      BY <3>1, <3>2
  <2>2. AppendFile(s) => type_messages' = type_messages
    BY DEF AppendFile, contents
  <2>3. QED
    BY <1>0, <1>2, <2>1, <2>2 DEF AsSaid
<1>9. IsFiniteSet(data_units')
  BY <1>2 DEF TypesInv
<1>10. QED
  BY <1>2, <1>3, <1>4, <1>5, <1>6, <1>7, <1>8, <1>9 DEF AsSaid

\* Whatever is read, the dictionaries stay what the files say.
LEMMA SectionSaid ==
  ASSUME TypesInv, NEW s \in Section, ReadSection(s)
  PROVE  TypesAsSaid' /\ IsFiniteSet(data_units')
<1>1. reading # "crashed"
  BY DEF ReadSection, ReadsTypes
<1>2. AsSaid
  BY <1>1, AsSaidDef DEF TypesInv
<1>3. \/ s.kind = "type" \/ s.kind = "block" \/ IsUnit(s) \/ s.kind = "input circut"
      \/ s.kind \in {"message", "append file"}
  BY SectionFields DEF Owned, IsUnit
<1>4. AsSaid' /\ IsFiniteSet(data_units')
  BY <1>2, <1>3, TypeLoaded, BlockLoaded, UnitLoaded, CircutLoaded, OtherLoaded
<1>5. TypesAsSaid'
  BY <1>4 DEF TypesAsSaid, AsSaid, TypesOfFiles, BlocksOfFiles, UnitsOfFiles, CircutsOfFiles
<1>6. QED
  BY <1>4, <1>5

\* A file is counted with the section that names it.
LEMMA FilesKept ==
  ASSUME TypesInv, NEW s \in Section, ReadSection(s)
  PROVE  /\ FilesNamed' /\ appended_files_names' \in Nat
         /\ appended_files_names' <= MaxSections
<1>1. /\ Len(sections) \in Nat /\ Len(sections') = Len(sections) + 1
      /\ Len(sections) < MaxSections
  BY SectionAppended DEF ReadSection
<1>2. MaxSections \in Nat /\ appended_files_names \in Nat
  <2>1. appended_files_names \in 0 .. MaxSections
    BY DEF TypesInv, TypesTyped
  <2>2. QED
    BY <2>1, SectionsAssumption
<1>3. \/ appended_files_names' = appended_files_names
      \/ appended_files_names' = appended_files_names + 1
  BY DEF ReadSection, Loads, LoadType, LoadBlock, LoadDataUnit, LoadTypeMessage,
         LoadInputCircut, AppendFile
<1>4. appended_files_names <= Len(sections)
  BY DEF TypesInv, FilesNamed
<1>5. QED
  BY <1>1, <1>2, <1>3, <1>4 DEF FilesNamed

\* The types of what a section changes.
LEMMA ContentsTyped ==
  ASSUME TypesInv, NEW s \in Section, ReadSection(s)
  PROVE  /\ types' \subseteq Types /\ blocks' \subseteq Types \X Blocks
         /\ data_units' \subseteq [type : Types, block : Blocks, id : Units,
                                   kind : {"signal", "parameter"}]
         /\ type_messages' \subseteq Types \X MessageTypes
         /\ current_devices_type' \in Types \cup {Uninitialised}
         /\ current_device_type_block' \in Blocks \cup {Uninitialised}
<1>0. /\ types \subseteq Types /\ blocks \subseteq Types \X Blocks
      /\ data_units \subseteq [type : Types, block : Blocks, id : Units,
                               kind : {"signal", "parameter"}]
      /\ type_messages \subseteq Types \X MessageTypes
      /\ current_devices_type \in Types \cup {Uninitialised}
      /\ current_device_type_block \in Blocks \cup {Uninitialised}
  BY DEF TypesInv, TypesTyped
<1>1. Loads(s)
  BY DEF ReadSection
<1>2. CASE LoadType(s)
  <2>1. s.id \in Types
    BY <1>2, SectionFields DEF LoadType
  <2>2. QED
    BY <1>0, <1>2, <2>1 DEF LoadType
<1>3. CASE LoadBlock(s)
  <2>1. s.id \in Blocks /\ TypeOf(s) \in Types
    BY <1>0, <1>3, SectionFields DEF LoadBlock, NewBlock
  <2>2. <<TypeOf(s), s.id>> \in Types \X Blocks
    BY <2>1
  <2>3. QED
    BY <1>0, <1>3, <2>1, <2>2 DEF LoadBlock
<1>4. CASE LoadDataUnit(s)
  <2>1. s.id \in Units /\ TypeOf(s) \in Types
    BY <1>0, <1>4, SectionFields DEF LoadDataUnit, NewUnit
  <2>2. BlockOf(s) \in Blocks
    <3>1. <<TypeOf(s), BlockOf(s)>> \in Types \X Blocks
      BY <1>0, <1>4 DEF LoadDataUnit, NewUnit
    <3>2. QED
      BY <3>1
  <2>3. s.kind \in {"signal", "parameter"}
    BY <1>4 DEF LoadDataUnit, IsUnit
  <2>4. [type |-> TypeOf(s), block |-> BlockOf(s), id |-> s.id, kind |-> s.kind]
          \in [type : Types, block : Blocks, id : Units, kind : {"signal", "parameter"}]
    BY <2>1, <2>2, <2>3
  <2>5. QED
    BY <1>0, <1>4, <2>4 DEF LoadDataUnit, current
<1>5. CASE LoadTypeMessage(s)
  <2>1. s.id \in MessageTypes /\ TypeOf(s) \in Types
    BY <1>0, <1>5, SectionFields DEF LoadTypeMessage, NewMessage
  <2>2. <<TypeOf(s), s.id>> \in Types \X MessageTypes
    BY <2>1
  <2>3. QED
    BY <1>0, <1>5, <2>2 DEF LoadTypeMessage, current
<1>6. CASE LoadInputCircut(s)
  BY <1>0, <1>6 DEF LoadInputCircut, current
<1>7. CASE AppendFile(s)
  BY <1>0, <1>7 DEF AppendFile, contents, current
<1>8. QED
  BY <1>1, <1>2, <1>3, <1>4, <1>5, <1>6, <1>7 DEF Loads

\* No type has more circuts than there are sections.
LEMMA CircutsTyped ==
  ASSUME TypesInv, NEW s \in Section, ReadSection(s)
  PROVE  circuts' \in [Types -> 0 .. MaxSections]
<1>1. /\ Len(sections) \in Nat /\ Len(sections) < MaxSections
      /\ circuts \in [Types -> 0 .. MaxSections] /\ MaxSections \in Nat
  BY SectionAppended, SectionsAssumption DEF ReadSection, TypesInv, TypesTyped
<1>2. AsSaid
  BY AsSaidDef DEF TypesInv, ReadSection, ReadsTypes
<1>3. \A t \in Types : circuts[t] < MaxSections
  <2>1. \A t \in Types : /\ circuts[t] = Cardinality(CircutsOfFiles(t))
                         /\ Cardinality(CircutsOfFiles(t)) \in Nat
                         /\ Cardinality(CircutsOfFiles(t)) <= Len(sections)
    BY <1>2, CircutsCounted DEF AsSaid
  <2>2. QED
    BY <1>1, <2>1
<1>4. CASE circuts' = circuts
  BY <1>1, <1>4
<1>5. CASE circuts' = [circuts EXCEPT ![TypeOf(s)] = @ + 1]
  <2>1. \A t \in Types : circuts[t] + 1 \in 0 .. MaxSections
    BY <1>1, <1>3
  <2>2. QED
    BY <1>1, <1>5, <2>1
<1>6. QED
  BY <1>4, <1>5 DEF ReadSection, Loads, LoadType, LoadBlock, LoadDataUnit, LoadTypeMessage,
                    LoadInputCircut, AppendFile, contents

\* A section that is read.
LEMMA SectionRead ==
  ASSUME TypesInv, NEW s \in Section, ReadSection(s)
  PROVE  TypesInv'
<1>1. /\ TypesAsSaid' /\ IsFiniteSet(data_units') /\ OwnersRead' /\ CurrentsSaid'
      /\ FilesNamed'
  BY SectionSaid, OwnersKept, CurrentsKept, FilesKept
<1>2. appended_files_names' \in 0 .. MaxSections
  <2>1. /\ appended_files_names' \in Nat /\ appended_files_names' <= MaxSections
        /\ MaxSections \in Nat
    BY FilesKept, SectionsAssumption
  <2>2. QED
    BY <2>1
<1>3. /\ reading' = reading /\ msg_types' = msg_types /\ messages' = messages
      /\ sections' = Append(sections, s) /\ Len(sections) < MaxSections
  BY DEF ReadSection, dictionaries
<1>4. sections' \in Seq(Section) /\ Len(sections') <= MaxSections
  <2>1. /\ Len(sections) \in Nat /\ Len(sections') = Len(sections) + 1
        /\ sections' \in Seq(Section) /\ MaxSections \in Nat
    BY <1>3, SectionAppended, SectionsAssumption
  <2>2. QED
    BY <1>3, <2>1
<1>5. /\ reading' \in {"message types", "messages", "devices types", "appended file"} \cup Ended
      /\ msg_types' \subseteq MessageTypes /\ messages' \subseteq MessageTypes
  BY <1>3 DEF TypesInv, TypesTyped
<1>6. TypesTyped'
  BY <1>2, <1>4, <1>5, ContentsTyped, CircutsTyped DEF TypesTyped
<1>7. QED
  BY <1>1, <1>6 DEF TypesInv

\* Fewer files than sections stay fewer.
LEMMA FewerFiles ==
  ASSUME NEW a \in 0 .. MaxSections, NEW b \in 0 .. MaxSections, NEW q \in Seq(Section),
         b <= a, a <= Len(q)
  PROVE  b <= Len(q)
<1>1. a \in Nat /\ b \in Nat /\ Len(q) \in Nat
  BY SectionsAssumption
<1>2. QED
  BY <1>1

\* What leaves the types of devices and the sections alone.
LEMMA FilesStay ==
  ASSUME TypesInv, contents' = contents, current' = current, sections' = sections,
         reading' \in {"message types", "messages", "devices types", "appended file"} \cup Ended,
         reading = "crashed" => reading' = "crashed",
         msg_types \subseteq msg_types', msg_types' \subseteq MessageTypes,
         messages' \subseteq MessageTypes,
         reading' # "crashed" => messages' \subseteq msg_types',
         appended_files_names' \in 0 .. MaxSections,
         appended_files_names' <= appended_files_names
  PROVE  TypesInv'
<1>1. /\ types' = types /\ blocks' = blocks /\ data_units' = data_units
      /\ type_messages' = type_messages /\ circuts' = circuts
      /\ current_devices_type' = current_devices_type
      /\ current_device_type_block' = current_device_type_block
      /\ sections' = sections
  BY DEF contents, current
<1>2. /\ TypesOfFiles' = TypesOfFiles /\ BlocksOfFiles' = BlocksOfFiles
      /\ UnitsOfFiles' = UnitsOfFiles
      /\ Said({"signal", "parameter"})' = Said({"signal", "parameter"})
      /\ \A t : CircutsOfFiles(t)' = CircutsOfFiles(t)
  <2>1. TypesOfFiles' = TypesOfFiles
    BY <1>1 DEF TypesOfFiles, Said
  <2>2. BlocksOfFiles' = BlocksOfFiles
    BY <1>1 DEF BlocksOfFiles, Said, TypeSaid, LastBefore
  <2>3. UnitsOfFiles' = UnitsOfFiles
    <3>1. UnitsOfFiles' = {[type |-> TypeSaid(i)', block |-> BlockSaid(i)',
                            id |-> sections'[i].id, kind |-> sections'[i].kind] :
                              i \in Said({"signal", "parameter"})'}
      BY DEF UnitsOfFiles
    <3>2. Said({"signal", "parameter"})' = Said({"signal", "parameter"})
      BY <1>1 DEF Said
    <3>3. \A i : TypeSaid(i)' = TypeSaid(i) /\ BlockSaid(i)' = BlockSaid(i)
      <4>1. \A kind, i : LastBefore(kind, i)' = LastBefore(kind, i)
        BY <1>1 DEF LastBefore
      <4>2. QED
        BY <1>1, <4>1 DEF TypeSaid, BlockSaid
    <3>4. QED
      BY <1>1, <3>1, <3>2, <3>3, Zenon DEF UnitsOfFiles
  <2>4. Said({"signal", "parameter"})' = Said({"signal", "parameter"})
    BY <1>1 DEF Said
  <2>5. ASSUME NEW t PROVE CircutsOfFiles(t)' = CircutsOfFiles(t)
    BY <1>1 DEF CircutsOfFiles, Said, TypeSaid, LastBefore
  <2>6. QED
    BY <2>1, <2>2, <2>3, <2>4, <2>5
<1>3. TypesTyped'
  BY <1>1 DEF TypesInv, TypesTyped
<1>4. reading' # "crashed" /\ AsSaid => AsSaid'
  BY <1>1, <1>2 DEF AsSaid
<1>5. TypesAsSaid'
  <2>1. reading' # "crashed" => AsSaid'
    BY <1>4, AsSaidDef DEF TypesInv
  <2>2. QED
    BY <2>1 DEF TypesAsSaid, AsSaid, TypesOfFiles, BlocksOfFiles, UnitsOfFiles, CircutsOfFiles
<1>6. OwnersRead' /\ CurrentsSaid' /\ IsFiniteSet(data_units')
  BY <1>1 DEF TypesInv, OwnersRead, CurrentsSaid, CurrentIsLast, IsUnit
<1>7. FilesNamed'
  <2>1. appended_files_names <= Len(sections)
    BY DEF TypesInv, FilesNamed
  <2>2. appended_files_names \in 0 .. MaxSections /\ sections \in Seq(Section)
    BY DEF TypesInv, TypesTyped
  <2>3. appended_files_names' <= Len(sections)
    BY <2>1, <2>2, FewerFiles
  <2>4. QED
    BY <1>1, <2>3 DEF FilesNamed
<1>8. QED
  BY <1>3, <1>5, <1>6, <1>7 DEF TypesInv

\* The reading begins with nothing read.
LEMMA NothingRead ==
  ASSUME TypesInit
  PROVE  TypesInv
<1>1. /\ types = {} /\ blocks = {} /\ data_units = {} /\ type_messages = {}
      /\ messages = {} /\ msg_types = {} /\ sections = <<>>
      /\ circuts = [t \in Types |-> 0] /\ appended_files_names = 0
      /\ current_devices_type = Uninitialised /\ current_device_type_block = Uninitialised
      /\ reading = "message types"
  BY DEF TypesInit
<1>2. MaxSections \in Nat /\ Len(<<>>) = 0 /\ <<>> \in Seq(Section) /\ DOMAIN <<>> = {}
  BY SectionsAssumption
<1>3. ASSUME NEW kinds PROVE Said(kinds) = {}
  BY <1>1, <1>2 DEF Said
<1>4. IsFiniteSet({}) /\ Cardinality({}) = 0
  BY FS_EmptySet
<1>5. TypesTyped
  <2>1. 0 \in 0 .. MaxSections /\ Len(sections) <= MaxSections
    <3>1. 0 <= MaxSections /\ 0 \in 0 .. MaxSections
      BY SectionsAssumption
    <3>2. Len(sections) = 0
      BY <1>1, <1>2
    <3>3. QED
      BY <3>1, <3>2
  <2>2. circuts \in [Types -> 0 .. MaxSections]
    BY <1>1, <2>1
  <2>3. QED
    BY <1>1, <1>2, <2>1, <2>2 DEF TypesTyped
<1>6. AsSaid
  <2>1. \A t : CircutsOfFiles(t) = {}
    BY <1>3 DEF CircutsOfFiles
  <2>2. TypesOfFiles = {} /\ BlocksOfFiles = {} /\ UnitsOfFiles = {}
    BY <1>3, Zenon DEF TypesOfFiles, BlocksOfFiles, UnitsOfFiles
  <2>3. QED
    BY <1>1, <1>3, <1>4, <2>1, <2>2 DEF AsSaid
<1>7. TypesAsSaid
  BY <1>6, AsSaidDef
<1>8. OwnersRead /\ CurrentsSaid /\ IsFiniteSet(data_units)
  BY <1>1, <1>2, <1>4 DEF OwnersRead, CurrentsSaid, CurrentIsLast
<1>9. FilesNamed
  <2>1. appended_files_names = 0 /\ Len(sections) = 0
    BY <1>1, <1>2
  <2>2. QED
    BY <2>1 DEF FilesNamed
<1>10. QED
  BY <1>5, <1>7, <1>8, <1>9 DEF TypesInv

\* One file fewer is named still.
LEMMA OneFileFewer ==
  ASSUME NEW a \in 0 .. MaxSections
  PROVE  a <= a /\ (a > 0 => a - 1 \in 0 .. MaxSections /\ a - 1 <= a)
<1>1. a \in Int /\ MaxSections \in Int /\ 0 <= a /\ a <= MaxSections
  BY SectionsAssumption
<1>2. QED
  BY <1>1

\* Each step of the reading keeps the dictionaries.
LEMMA ReadingKeeps ==
  ASSUME TypesInv, [TypesNext]_files
  PROVE  TypesInv'
<1>0. /\ reading \in {"message types", "messages", "devices types", "appended file"} \cup Ended
      /\ msg_types \subseteq MessageTypes
      /\ appended_files_names \in 0 .. MaxSections
      /\ appended_files_names \in Nat
  <2>1. appended_files_names \in 0 .. MaxSections
    BY DEF TypesInv, TypesTyped
  <2>2. appended_files_names \in Nat
    BY <2>1, SectionsAssumption
  <2>3. QED
    BY <2>1, <2>2 DEF TypesInv, TypesTyped
<1>1. /\ reading # "crashed" => messages \subseteq msg_types
      /\ messages \subseteq MessageTypes
  BY AsSaidDef DEF TypesInv, AsSaid, TypesTyped
<1>2. CASE UNCHANGED files
  <2>1. /\ contents' = contents /\ current' = current /\ sections' = sections
        /\ reading' \in {"message types", "messages", "devices types", "appended file"} \cup Ended
        /\ reading = "crashed" => reading' = "crashed"
    BY <1>0, <1>2 DEF files, dictionaries, Ended
  <2>2. /\ msg_types \subseteq msg_types' /\ msg_types' \subseteq MessageTypes
        /\ messages' \subseteq MessageTypes
        /\ reading' # "crashed" => messages' \subseteq msg_types'
    BY <1>0, <1>1, <1>2, <2>1 DEF files, dictionaries
  <2>3. /\ appended_files_names' \in 0 .. MaxSections
        /\ appended_files_names' <= appended_files_names
    BY <1>0, <1>2, OneFileFewer DEF files, dictionaries
  <2>4. QED
    BY <2>1, <2>2, <2>3, FilesStay
<1>3. CASE FileFails
  <2>1. /\ contents' = contents /\ current' = current /\ sections' = sections
        /\ reading' \in {"message types", "messages", "devices types", "appended file"} \cup Ended
        /\ reading = "crashed" => reading' = "crashed"
    BY <1>3 DEF FileFails, dictionaries, Ended
  <2>2. /\ msg_types \subseteq msg_types' /\ msg_types' \subseteq MessageTypes
        /\ messages' \subseteq MessageTypes
        /\ reading' # "crashed" => messages' \subseteq msg_types'
    BY <1>0, <1>1, <1>3, <2>1 DEF FileFails, dictionaries, Ended
  <2>3. /\ appended_files_names' \in 0 .. MaxSections
        /\ appended_files_names' <= appended_files_names
    BY <1>0, <1>3, OneFileFewer DEF FileFails, dictionaries, Ended
  <2>4. QED
    BY <2>1, <2>2, <2>3, FilesStay
<1>4. CASE LoadMessageType
  <2>1. /\ contents' = contents /\ current' = current /\ sections' = sections
        /\ reading' \in {"message types", "messages", "devices types", "appended file"} \cup Ended
        /\ reading = "crashed" => reading' = "crashed"
    BY <1>0, <1>4 DEF LoadMessageType, Ended
  <2>2. /\ msg_types \subseteq msg_types' /\ msg_types' \subseteq MessageTypes
        /\ messages' \subseteq MessageTypes
        /\ reading' # "crashed" => messages' \subseteq msg_types'
    BY <1>0, <1>1, <1>4, <2>1 DEF LoadMessageType
  <2>3. /\ appended_files_names' \in 0 .. MaxSections
        /\ appended_files_names' <= appended_files_names
    BY <1>0, <1>4, OneFileFewer DEF LoadMessageType
  <2>4. QED
    BY <2>1, <2>2, <2>3, FilesStay
<1>5. CASE LoadMessage
  <2>1. /\ contents' = contents /\ current' = current /\ sections' = sections
        /\ reading' \in {"message types", "messages", "devices types", "appended file"} \cup Ended
        /\ reading = "crashed" => reading' = "crashed"
    BY <1>0, <1>5 DEF LoadMessage, Ended
  <2>2. /\ msg_types \subseteq msg_types' /\ msg_types' \subseteq MessageTypes
        /\ messages' \subseteq MessageTypes
        /\ reading' # "crashed" => messages' \subseteq msg_types'
    BY <1>0, <1>1, <1>5, <2>1 DEF LoadMessage
  <2>3. /\ appended_files_names' \in 0 .. MaxSections
        /\ appended_files_names' <= appended_files_names
    BY <1>0, <1>5, OneFileFewer DEF LoadMessage
  <2>4. QED
    BY <2>1, <2>2, <2>3, FilesStay
<1>6. CASE DictionaryEnds
  <2>1. /\ contents' = contents /\ current' = current /\ sections' = sections
        /\ reading' \in {"message types", "messages", "devices types", "appended file"} \cup Ended
        /\ reading = "crashed" => reading' = "crashed"
    BY <1>6 DEF DictionaryEnds, dictionaries, Ended
  <2>2. /\ msg_types \subseteq msg_types' /\ msg_types' \subseteq MessageTypes
        /\ messages' \subseteq MessageTypes
        /\ reading' # "crashed" => messages' \subseteq msg_types'
    BY <1>0, <1>1, <1>6, <2>1 DEF DictionaryEnds, dictionaries
  <2>3. /\ appended_files_names' \in 0 .. MaxSections
        /\ appended_files_names' <= appended_files_names
    BY <1>0, <1>6, OneFileFewer DEF DictionaryEnds, dictionaries
  <2>4. QED
    BY <2>1, <2>2, <2>3, FilesStay
<1>7. CASE NextFile
  <2>1. /\ contents' = contents /\ current' = current /\ sections' = sections
        /\ reading' \in {"message types", "messages", "devices types", "appended file"} \cup Ended
        /\ reading = "crashed" => reading' = "crashed"
    BY <1>7 DEF NextFile, ReadsTypes, dictionaries, Ended
  <2>2. /\ msg_types \subseteq msg_types' /\ msg_types' \subseteq MessageTypes
        /\ messages' \subseteq MessageTypes
        /\ reading' # "crashed" => messages' \subseteq msg_types'
    BY <1>0, <1>1, <1>7, <2>1 DEF NextFile, ReadsTypes, dictionaries
  <2>3. /\ appended_files_names' \in 0 .. MaxSections
        /\ appended_files_names' <= appended_files_names
    BY <1>0, <1>7, OneFileFewer DEF NextFile, ReadsTypes, dictionaries
  <2>4. QED
    BY <2>1, <2>2, <2>3, FilesStay
<1>8. ASSUME NEW s \in Section, ReadSection(s)
      PROVE  TypesInv'
  BY <1>8, SectionRead
<1>9. ASSUME NEW s \in Section, ReadUndefined(s)
      PROVE  TypesInv'
  <2>1. /\ contents' = contents /\ current' = current /\ sections' = sections
        /\ reading' \in {"message types", "messages", "devices types", "appended file"} \cup Ended
        /\ reading = "crashed" => reading' = "crashed"
    BY <1>9 DEF ReadUndefined, ReadsTypes, dictionaries, Ended
  <2>2. /\ msg_types \subseteq msg_types' /\ msg_types' \subseteq MessageTypes
        /\ messages' \subseteq MessageTypes
        /\ reading' # "crashed" => messages' \subseteq msg_types'
    BY <1>0, <1>1, <1>9, <2>1 DEF ReadUndefined, ReadsTypes, dictionaries
  <2>3. /\ appended_files_names' \in 0 .. MaxSections
        /\ appended_files_names' <= appended_files_names
    BY <1>0, <1>9, OneFileFewer DEF ReadUndefined, ReadsTypes, dictionaries
  <2>4. QED
    BY <2>1, <2>2, <2>3, FilesStay
<1>10. QED
  BY <1>2, <1>3, <1>4, <1>5, <1>6, <1>7, <1>8, <1>9 DEF TypesNext

\* However the sections are ordered and spread over files, the dictionaries
\* hold what the files say, each thing once, until the reading is over.
THEOREM DictionariesHoldWhatFilesSay ==
  TypesInit /\ [][TypesNext]_files => []DictionariesSound
<1>1. TypesInit => TypesInv
  BY NothingRead
<1>2. TypesInv /\ [TypesNext]_files => TypesInv'
  BY ReadingKeeps
<1>3. TypesInv => DictionariesSound
  BY DEF TypesInv, DictionariesSound
<1>4. QED
  BY <1>1, <1>2, <1>3, PTL

-----------------------------------------------------------------------------
(***************************************************************************)
(* The map and the threads                                                 *)
(***************************************************************************)

\* A section that leaves out its owner had one before it.
MapOwnersRead ==
  \A i \in DOMAIN map_sections :
    /\ map_sections[i].kind = "station" /\ map_sections[i].line = None
         => HasBefore(map_sections, "line", i)
    /\ map_sections[i].kind \in Kinds /\ map_sections[i].station = None
         => HasBefore(map_sections, "station", i)

\* The iterators stand at the last line and the last station, if there is
\* one and the map is not yet read.
MapCurrentIsLast(kind, iterator) ==
  \/ iterator \in {None, Unset}
  \/ /\ HasBefore(map_sections, kind, Len(map_sections) + 1)
     /\ iterator = LastIn(map_sections, kind, Len(map_sections) + 1)

MapCurrentsSaid == /\ MapCurrentIsLast("line", current_line)
                   /\ MapCurrentIsLast("station", current_station)

\* Every station is in a line and every device in a station, under an id of
\* its own.
MapConnected ==
  /\ \A s \in stations : \E l \in lines : s \in stations_ids[l]
  /\ \A d \in devices : d.station \in stations
  /\ \A d, c \in devices : d.id = c.id => d = c
  /\ devices_id \in [Stations -> Seq(Devices)] /\ IsFiniteSet(devices)
  /\ \A s \in Stations : IsFiniteSet(ListedIn(s))

MapInv == MapOwnersRead /\ MapCurrentsSaid /\ MapConnected /\ MapAsSaid

\* The stages before the widgets and those after the threads.
BeforeWidgets == {"globals", "window", "panels", "channel", "images", "fonts", "input",
                  "dictionaries", "map"}
BeforeThreads == BeforeWidgets \cup {"widgets", "threads"}
AfterThreads == {"dispatchers", "log", "router", "timer", "routing thread", "first record",
                 "main loop"}

Enabled == {d.id : d \in {c \in devices : c.enabled}}
WidgetsOf(l) == UNION {ListedIn(s) : s \in stations_ids[l]}

\* The widgets are those of the lines that are done; the threads come after.
WidgetsDone ==
  /\ stage \in BeforeWidgets => device_widgets = {}
  /\ stage = "widgets" => /\ lines_left \subseteq lines
                          /\ \A l \in lines \ lines_left : WidgetsOf(l) \subseteq device_widgets
  /\ device_widgets \subseteq DeviceIds
  /\ stage \in {"threads"} \cup AfterThreads => device_widgets = DeviceIds

ThreadsDone ==
  /\ threads \cup untold \cup pulses \subseteq Enabled \cap device_widgets
  /\ stage \in BeforeThreads => threads \cup untold \cup pulses = {}
  /\ stage \in AfterThreads => threads \cup untold = Enabled
  /\ stage = "main loop" => indicator = "red"

RecordsDone ==
  /\ records \in Seq([id : Nat, tells : {"former", "started", "device"}])
  /\ stage = "main loop" => \E j \in DOMAIN records : records[j].tells = "started"

StartInv == /\ StartTyped /\ MapInv /\ WidgetsDone /\ ThreadsDone
            /\ StartedFirst /\ RecordsDone
\* What a section's kind says of its entries; the kinds of devices are their own.
LEMMA MapFields ==
  ASSUME NEW s \in MapSection
  PROVE  /\ s.kind \in {"line", "station", "settings"} \cup Kinds
         /\ "line" \notin Kinds /\ "station" \notin Kinds /\ "settings" \notin Kinds
         /\ s.kind = "line" => s.id \in Lines
         /\ s.kind = "station" => s.id \in Stations /\ s.line \in Lines \cup {None}
         /\ s.kind \in Kinds => /\ s.id \in Devices /\ s.station \in Stations \cup {None}
                                /\ s.enabled \in BOOLEAN /\ s.related \in SUBSET Devices
<1>1. Kinds \subseteq {"escalator", "shavr", "udku", "door"}
  BY MapAssumption
<1>2. "line" \notin Kinds /\ "station" \notin Kinds /\ "settings" \notin Kinds
  BY <1>1
<1>3. CASE s \in [kind : {"line"}, id : Lines]
  BY <1>2, <1>3
<1>4. CASE s \in [kind : {"station"}, id : Stations, line : Lines \cup {None}]
  BY <1>2, <1>4
<1>5. CASE s \in [kind : Kinds \ {"shavr"}, id : Devices, station : Stations \cup {None},
                  enabled : BOOLEAN, related : {{}}]
  BY <1>2, <1>5
<1>6. CASE s \in [kind : Kinds \cap {"shavr"}, id : Devices,
                  station : Stations \cup {None}, enabled : BOOLEAN,
                  related : SUBSET Devices]
  BY <1>2, <1>6
<1>7. CASE s \in [kind : {"settings"}, id : {None}]
  BY <1>2, <1>7
<1>8. QED
  BY <1>3, <1>4, <1>5, <1>6, <1>7 DEF MapSection

\* Neither an entry left out nor an unset iterator names anything.
LEMMA NobodyNamed ==
  ASSUME StartTyped
  PROVE  /\ None \notin lines /\ Unset \notin lines
         /\ None \notin stations /\ Unset \notin stations
         /\ None \notin Stations /\ Unset \notin Stations
<1>1. lines \subseteq Nat \ {0} /\ stations \subseteq Nat \ {0} /\ Stations \subseteq Nat \ {0}
  BY MapAssumption DEF StartTyped
<1>2. None \notin Nat \ {0} /\ Unset \notin Nat \ {0}
  BY DEF None, Unset
<1>3. QED
  BY <1>1, <1>2

\* A section is read at the end.
LEMMA MapAppended ==
  ASSUME StartTyped, NEW s \in MapSection, map_sections' = Append(map_sections, s)
  PROVE  /\ Len(map_sections) \in Nat /\ Len(map_sections') = Len(map_sections) + 1
         /\ DOMAIN map_sections = 1 .. Len(map_sections)
         /\ DOMAIN map_sections' = 1 .. Len(map_sections) + 1
         /\ \A i \in DOMAIN map_sections :
              i \in DOMAIN map_sections' /\ map_sections'[i] = map_sections[i]
         /\ map_sections'[Len(map_sections) + 1] = s
         /\ map_sections \in Seq(MapSection) /\ map_sections' \in Seq(MapSection)
<1>1. map_sections \in Seq(MapSection)
  BY DEF StartTyped
<1>2. /\ Append(map_sections, s) \in Seq(MapSection)
      /\ Len(Append(map_sections, s)) = Len(map_sections) + 1
      /\ \A i \in 1 .. Len(map_sections) : Append(map_sections, s)[i] = map_sections[i]
      /\ Append(map_sections, s)[Len(map_sections) + 1] = s
  BY <1>1, AppendProperties
<1>3. /\ Len(map_sections) \in Nat /\ DOMAIN map_sections = 1 .. Len(map_sections)
      /\ DOMAIN map_sections' = 1 .. Len(map_sections')
  BY <1>1, <1>2
<1>4. QED
  BY <1>1, <1>2, <1>3

\* The owners of the sections read before are who they were.
LEMMA MapOwnersStay ==
  ASSUME StartTyped, MapOwnersRead, NEW s \in MapSection,
         map_sections' = Append(map_sections, s)
  PROVE  \A i \in DOMAIN map_sections :
           /\ map_sections[i].kind = "station" => LineSaid(i)' = LineSaid(i)
           /\ map_sections[i].kind \in Kinds => StationSaid(i)' = StationSaid(i)
<1>1. SUFFICES ASSUME NEW i \in DOMAIN map_sections
               PROVE  /\ map_sections[i].kind = "station" => LineSaid(i)' = LineSaid(i)
                      /\ map_sections[i].kind \in Kinds => StationSaid(i)' = StationSaid(i)
  OBVIOUS
<1>2. /\ map_sections \in Seq(MapSection) /\ i \in 1 .. Len(map_sections) + 1
      /\ map_sections'[i] = map_sections[i]
  BY MapAppended
<1>3. \A kind : HasBefore(map_sections, kind, i)
                  => LastIn(map_sections', kind, i) = LastIn(map_sections, kind, i)
  BY <1>2, LastKept
<1>4. \A kind : /\ IdBefore(kind, i) = LastIn(map_sections, kind, i)
                /\ IdBefore(kind, i)' = LastIn(map_sections', kind, i)
  BY DEF IdBefore, LastIn
<1>5. map_sections[i].kind = "station" => LineSaid(i)' = LineSaid(i)
  <2>1. map_sections[i].kind = "station" /\ map_sections[i].line = None
          => IdBefore("line", i)' = IdBefore("line", i)
    BY <1>3, <1>4 DEF MapOwnersRead
  <2>2. QED
    BY <1>2, <2>1 DEF LineSaid
<1>6. map_sections[i].kind \in Kinds => StationSaid(i)' = StationSaid(i)
  <2>1. map_sections[i].kind \in Kinds /\ map_sections[i].station = None
          => IdBefore("station", i)' = IdBefore("station", i)
    BY <1>3, <1>4 DEF MapOwnersRead
  <2>2. QED
    BY <1>2, <2>1 DEF StationSaid
<1>7. QED
  BY <1>5, <1>6

\* The owner that is used for a section is the one the file says.
LEMMA MapOwnerOfNew ==
  ASSUME StartTyped, MapCurrentsSaid, NEW s \in MapSection,
         map_sections' = Append(map_sections, s),
         NEW n \in Nat, n = Len(map_sections) + 1
  PROVE  /\ LineOf(s) \in lines =>
              /\ LineSaid(n)' = LineOf(s)
              /\ s.line = None => HasBefore(map_sections', "line", n)
         /\ StationOf(s) \in stations =>
              /\ StationSaid(n)' = StationOf(s)
              /\ s.station = None => HasBefore(map_sections', "station", n)
<1>1. /\ map_sections \in Seq(MapSection) /\ n \in 1 .. Len(map_sections) + 1
      /\ map_sections'[n] = s
  BY MapAppended
<1>2. \A kind : HasBefore(map_sections, kind, n)
                  => /\ LastIn(map_sections', kind, n) = LastIn(map_sections, kind, n)
                     /\ HasBefore(map_sections', kind, n)
  BY <1>1, LastKept
<1>3. \A kind : IdBefore(kind, n)' = LastIn(map_sections', kind, n)
  BY DEF IdBefore, LastIn
<1>4. LineOf(s) \in lines =>
        /\ LineSaid(n)' = LineOf(s)
        /\ s.line = None => HasBefore(map_sections', "line", n)
  <2>1. MapCurrentIsLast("line", current_line)
    BY DEF MapCurrentsSaid
  <2>2. QED
    BY <1>1, <1>2, <1>3, <2>1, NobodyNamed DEF LineOf, LineSaid, MapCurrentIsLast
<1>5. StationOf(s) \in stations =>
        /\ StationSaid(n)' = StationOf(s)
        /\ s.station = None => HasBefore(map_sections', "station", n)
  <2>1. MapCurrentIsLast("station", current_station)
    BY DEF MapCurrentsSaid
  <2>2. QED
    BY <1>1, <1>2, <1>3, <2>1, NobodyNamed DEF StationOf, StationSaid, MapCurrentIsLast
<1>6. QED
  BY <1>4, <1>5

\* The places of some kinds of sections.
LEMMA MapSaidAppended ==
  ASSUME StartTyped, NEW s \in MapSection, map_sections' = Append(map_sections, s), NEW kinds
  PROVE  /\ SaidOf(kinds) \subseteq DOMAIN map_sections /\ IsFiniteSet(SaidOf(kinds))
         /\ Len(map_sections) + 1 \notin SaidOf(kinds)
         /\ s.kind \in kinds => SaidOf(kinds)' = SaidOf(kinds) \cup {Len(map_sections) + 1}
         /\ s.kind \notin kinds => SaidOf(kinds)' = SaidOf(kinds)
<1>1. /\ DOMAIN map_sections = 1 .. Len(map_sections) /\ Len(map_sections) \in Nat
      /\ DOMAIN map_sections' = 1 .. Len(map_sections) + 1
      /\ \A i \in DOMAIN map_sections : map_sections'[i] = map_sections[i]
      /\ map_sections'[Len(map_sections) + 1] = s
  BY MapAppended
<1>2. 1 .. Len(map_sections) + 1 = (1 .. Len(map_sections)) \cup {Len(map_sections) + 1}
  BY <1>1
<1>3. /\ SaidOf(kinds) \subseteq DOMAIN map_sections
      /\ Len(map_sections) + 1 \notin SaidOf(kinds)
  BY <1>1 DEF SaidOf
<1>4. IsFiniteSet(1 .. Len(map_sections))
  BY <1>1, FS_Interval
<1>5. IsFiniteSet(SaidOf(kinds))
  BY <1>1, <1>3, <1>4, FS_Subset
<1>6. s.kind \in kinds => SaidOf(kinds)' = SaidOf(kinds) \cup {Len(map_sections) + 1}
  BY <1>1, <1>2 DEF SaidOf
<1>7. s.kind \notin kinds => SaidOf(kinds)' = SaidOf(kinds)
  BY <1>1, <1>2 DEF SaidOf
<1>8. QED
  BY <1>3, <1>5, <1>6, <1>7

\* What a section that is read demands and leaves.
LEMMA MapRead ==
  ASSUME StartTyped, NEW s \in MapSection, ReadMap(s)
  PROVE  /\ map_sections' = Append(map_sections, s)
         /\ \/ s.kind = "line" /\ LoadLine(s)
            \/ s.kind = "station" /\ LoadStation(s)
            \/ s.kind \in Kinds /\ LoadDevice(s)
            \/ s.kind = "settings" /\ LoadSettings(s)
  BY DEF ReadMap, LoadLine, LoadStation, LoadDevice, LoadSettings, IsDevice

\* It leaves the owners of all the sections read.
LEMMA MapOwnersKept ==
  ASSUME StartTyped, MapInv, NEW s \in MapSection, ReadMap(s)
  PROVE  MapOwnersRead'
<1>0. map_sections' = Append(map_sections, s)
  BY MapRead
<1>1. PICK n \in Nat : n = Len(map_sections) + 1
  BY <1>0, MapAppended
<1>2. /\ DOMAIN map_sections = 1 .. Len(map_sections) /\ Len(map_sections) \in Nat
      /\ DOMAIN map_sections' = 1 .. Len(map_sections) + 1
      /\ \A i \in DOMAIN map_sections : map_sections'[i] = map_sections[i]
      /\ map_sections'[n] = s /\ map_sections \in Seq(MapSection)
  BY <1>0, <1>1, MapAppended
<1>3. ASSUME NEW i \in DOMAIN map_sections
      PROVE  \A kind : HasBefore(map_sections, kind, i) => HasBefore(map_sections', kind, i)
  <2>1. i \in 1 .. Len(map_sections) + 1
    BY <1>2
  <2>2. QED
    BY <1>0, <1>2, <2>1, LastKept
<1>4. ASSUME NEW i \in DOMAIN map_sections
      PROVE  /\ map_sections'[i].kind = "station" /\ map_sections'[i].line = None
                  => HasBefore(map_sections', "line", i)
             /\ map_sections'[i].kind \in Kinds /\ map_sections'[i].station = None
                  => HasBefore(map_sections', "station", i)
  BY <1>2, <1>3 DEF MapInv, MapOwnersRead
<1>5. /\ s.kind = "station" => LineOf(s) \in lines
      /\ s.kind \in Kinds => StationOf(s) \in stations
  BY MapRead, MapFields DEF LoadStation, LoadDevice
<1>6. /\ s.kind = "station" /\ s.line = None => HasBefore(map_sections', "line", n)
      /\ s.kind \in Kinds /\ s.station = None => HasBefore(map_sections', "station", n)
  BY <1>0, <1>1, <1>5, MapOwnerOfNew DEF MapInv
<1>7. \A i \in DOMAIN map_sections' : i \in DOMAIN map_sections \/ i = n
  BY <1>1, <1>2
<1>8. ASSUME NEW i \in DOMAIN map_sections'
      PROVE  /\ map_sections'[i].kind = "station" /\ map_sections'[i].line = None
                  => HasBefore(map_sections', "line", i)
             /\ map_sections'[i].kind \in Kinds /\ map_sections'[i].station = None
                  => HasBefore(map_sections', "station", i)
  BY <1>2, <1>4, <1>6, <1>7
<1>9. QED
  BY <1>8 DEF MapOwnersRead

\* An iterator that is left where it is stands at the last one of its kind,
\* if the section is of another.
LEMMA MapCurrentStays ==
  ASSUME NEW q \in Seq(MapSection), NEW s \in MapSection, NEW kind, NEW iterator,
         s.kind # kind,
         \/ iterator \in {None, Unset}
         \/ /\ HasBefore(q, kind, Len(q) + 1)
            /\ iterator = LastIn(q, kind, Len(q) + 1)
  PROVE  \/ iterator \in {None, Unset}
         \/ /\ HasBefore(Append(q, s), kind, Len(Append(q, s)) + 1)
            /\ iterator = LastIn(Append(q, s), kind, Len(Append(q, s)) + 1)
<1>1. Len(Append(q, s)) + 1 = Len(q) + 2
  OBVIOUS
<1>2. CASE iterator \in {None, Unset}
  BY <1>2
<1>3. CASE iterator \notin {None, Unset}
  <2>1. /\ HasBefore(Append(q, s), kind, Len(q) + 2)
        /\ LastIn(Append(q, s), kind, Len(q) + 2) = LastIn(q, kind, Len(q) + 1)
    BY <1>3, LastOther
  <2>2. QED
    BY <1>1, <1>3, <2>1
<1>4. QED
  BY <1>2, <1>3

\* The iterators stand at the last line and the last station after it.
LEMMA MapCurrentsKept ==
  ASSUME StartTyped, MapInv, NEW s \in MapSection, ReadMap(s)
  PROVE  MapCurrentsSaid'
<1>0. map_sections' = Append(map_sections, s) /\ map_sections \in Seq(MapSection)
  BY MapRead DEF StartTyped
<1>1. Len(map_sections') + 1 = Len(map_sections) + 2
  BY <1>0
<1>2. /\ HasBefore(map_sections', s.kind, Len(map_sections) + 2)
      /\ LastIn(map_sections', s.kind, Len(map_sections) + 2) = s.id
  BY <1>0, LastNew
<1>3. /\ HasBefore(map_sections', s.kind, Len(map_sections') + 1)
      /\ LastIn(map_sections', s.kind, Len(map_sections') + 1) = s.id
  BY <1>1, <1>2
<1>4. /\ s.kind = "line" => current_line' = s.id
      /\ s.kind # "line" => current_line' = current_line
      /\ s.kind = "station" => current_station' = s.id
      /\ s.kind # "station" => current_station' = current_station
  BY MapRead, MapFields DEF LoadLine, LoadStation, LoadDevice, LoadSettings
<1>5. s.kind # "line" =>
        \/ current_line \in {None, Unset}
        \/ /\ HasBefore(map_sections', "line", Len(map_sections') + 1)
           /\ current_line = LastIn(map_sections', "line", Len(map_sections') + 1)
  BY <1>0, MapCurrentStays DEF MapInv, MapCurrentsSaid, MapCurrentIsLast
<1>6. s.kind # "station" =>
        \/ current_station \in {None, Unset}
        \/ /\ HasBefore(map_sections', "station", Len(map_sections') + 1)
           /\ current_station = LastIn(map_sections', "station", Len(map_sections') + 1)
  BY <1>0, MapCurrentStays DEF MapInv, MapCurrentsSaid, MapCurrentIsLast
<1>7. /\ \/ current_line' \in {None, Unset}
         \/ /\ HasBefore(map_sections', "line", Len(map_sections') + 1)
            /\ current_line' = LastIn(map_sections', "line", Len(map_sections') + 1)
      /\ \/ current_station' \in {None, Unset}
         \/ /\ HasBefore(map_sections', "station", Len(map_sections') + 1)
            /\ current_station' = LastIn(map_sections', "station", Len(map_sections') + 1)
  BY <1>3, <1>4, <1>5, <1>6
<1>8. QED
  BY <1>7 DEF MapCurrentsSaid, MapCurrentIsLast

\* The stations of a line as the configuration says them.
StationsOfFile(l) ==
  {map_sections[i].id : i \in {j \in SaidOf({"station"}) : LineSaid(j) = l}}

\* What a section adds to the stations of the lines.
LEMMA StationsSaid ==
  ASSUME StartTyped, MapInv, NEW s \in MapSection, ReadMap(s)
  PROVE  /\ s.kind = "station" => \A l : StationsOfFile(l)' =
              IF l = LineOf(s) THEN StationsOfFile(l) \cup {s.id} ELSE StationsOfFile(l)
         /\ s.kind # "station" => \A l : StationsOfFile(l)' = StationsOfFile(l)
<1> DEFINE K == {"station"}
           Of(l) == {j \in SaidOf(K) : LineSaid(j) = l}
<1>0. map_sections' = Append(map_sections, s)
  BY MapRead
<1>1. PICK n \in Nat : n = Len(map_sections) + 1
  BY <1>0, MapAppended
<1>2. /\ \A i \in DOMAIN map_sections : map_sections'[i] = map_sections[i]
      /\ map_sections'[n] = s /\ SaidOf(K) \subseteq DOMAIN map_sections
  BY <1>0, <1>1, MapAppended, MapSaidAppended
<1>3. \A i \in SaidOf(K) : /\ LineSaid(i)' = LineSaid(i)
                           /\ map_sections'[i].id = map_sections[i].id
  BY <1>0, <1>2, MapOwnersStay DEF MapInv, SaidOf
<1>4. ASSUME s.kind = "station", NEW l
      PROVE  StationsOfFile(l)' =
               IF l = LineOf(s) THEN StationsOfFile(l) \cup {s.id} ELSE StationsOfFile(l)
  <2>1. SaidOf(K)' = SaidOf(K) \cup {n}
    BY <1>0, <1>1, <1>4, MapSaidAppended
  <2>2. LineSaid(n)' = LineOf(s)
    BY <1>0, <1>1, <1>4, MapOwnerOfNew, MapRead, MapFields DEF MapInv, LoadStation
  <2>3. {j \in SaidOf(K)' : LineSaid(j)' = l} = IF l = LineOf(s) THEN Of(l) \cup {n} ELSE Of(l)
    BY <1>3, <2>1, <2>2
  <2>4. StationsOfFile(l)' = {map_sections'[i].id : i \in {j \in SaidOf(K)' : LineSaid(j)' = l}}
    BY DEF StationsOfFile
  <2>5. {map_sections'[i].id : i \in Of(l)} = StationsOfFile(l)
    BY <1>3 DEF StationsOfFile
  <2>6. map_sections'[n].id = s.id
    BY <1>2
  <2>7. {map_sections'[i].id : i \in Of(l) \cup {n}} = StationsOfFile(l) \cup {s.id}
    BY <2>5, <2>6
  <2> HIDE DEF Of
  <2>8. QED
    BY <2>3, <2>4, <2>5, <2>7
<1>5. ASSUME s.kind # "station", NEW l
      PROVE  StationsOfFile(l)' = StationsOfFile(l)
  <2>1. SaidOf(K)' = SaidOf(K)
    BY <1>0, <1>5, MapSaidAppended
  <2>2. {j \in SaidOf(K)' : LineSaid(j)' = l} = Of(l)
    BY <1>3, <2>1
  <2>3. StationsOfFile(l)' = {map_sections'[i].id : i \in {j \in SaidOf(K)' : LineSaid(j)' = l}}
    BY DEF StationsOfFile
  <2>4. {map_sections'[i].id : i \in Of(l)} = StationsOfFile(l)
    BY <1>3 DEF StationsOfFile
  <2> HIDE DEF Of
  <2>5. QED
    BY <2>2, <2>3, <2>4
<1>6. QED
  BY <1>4, <1>5

\* The map is as said: the lines, the devices, and the lists of the stations.
LinesAsSaid == \A l \in Lines : stations_ids[l] = StationsOfFile(l)
DevicesAsSaid ==
  /\ \A i \in SaidOf(Kinds) : \E d \in devices : /\ d.id = map_sections[i].id
                                                 /\ d.station = StationSaid(i)
  /\ Cardinality(devices) = Cardinality(SaidOf(Kinds))
ListsAsSaid ==
  \A s \in Stations : /\ ListedIn(s) = {d.id : d \in {c \in devices : c.station = s}}
                      /\ Cardinality(ListedIn(s)) = Len(devices_id[s])

\* These are the parts of MapAsSaid.
LEMMA MapAsSaidParts == MapAsSaid <=> LinesAsSaid /\ DevicesAsSaid /\ ListsAsSaid
BY DEF MapAsSaid, LinesAsSaid, DevicesAsSaid, ListsAsSaid, StationsOfFile

\* A section of something else leaves the devices as they are said.
LEMMA DevicesStay ==
  ASSUME StartTyped, MapInv, NEW s \in MapSection, ReadMap(s), s.kind \notin Kinds
  PROVE  /\ devices' = devices /\ devices_id' = devices_id
         /\ DevicesAsSaid' /\ ListsAsSaid'
         /\ \A r : ListedIn(r)' = ListedIn(r)
<1>0. map_sections' = Append(map_sections, s)
  BY MapRead
<1>1. devices' = devices /\ devices_id' = devices_id
  BY MapRead DEF LoadLine, LoadStation, LoadSettings
<1>2. SaidOf(Kinds)' = SaidOf(Kinds) /\ SaidOf(Kinds) \subseteq DOMAIN map_sections
  BY <1>0, MapSaidAppended
<1>3. \A i \in SaidOf(Kinds) : /\ StationSaid(i)' = StationSaid(i)
                               /\ map_sections'[i] = map_sections[i]
  BY <1>0, <1>2, MapAppended, MapOwnersStay DEF MapInv, SaidOf
<1>4. DevicesAsSaid /\ ListsAsSaid
  BY MapAsSaidParts DEF MapInv
<1>5. DevicesAsSaid'
  BY <1>1, <1>2, <1>3, <1>4 DEF DevicesAsSaid
<1>6. ASSUME NEW r PROVE ListedIn(r)' = ListedIn(r)
  BY <1>1 DEF ListedIn
<1>7. ListsAsSaid'
  BY <1>1, <1>4, <1>6 DEF ListsAsSaid
<1>8. QED
  BY <1>1, <1>5, <1>6, <1>7

\* A line.
LEMMA LineLoaded ==
  ASSUME StartTyped, MapInv, NEW s \in MapSection, ReadMap(s), s.kind = "line"
  PROVE  MapConnected' /\ MapAsSaid'
<1>0. LoadLine(s) /\ s.kind \notin Kinds
  BY MapRead, MapFields
<1>1. /\ devices' = devices /\ devices_id' = devices_id /\ DevicesAsSaid' /\ ListsAsSaid'
      /\ \A r : ListedIn(r)' = ListedIn(r)
  BY <1>0, DevicesStay
<1>2. /\ lines' = lines \cup {s.id} /\ stations' = stations /\ stations_ids' = stations_ids
  BY <1>0 DEF LoadLine
<1>3. LinesAsSaid'
  <2>1. LinesAsSaid
    BY MapAsSaidParts DEF MapInv
  <2>2. QED
    BY <1>2, <2>1, StationsSaid DEF LinesAsSaid
<1>4. MapConnected'
  BY <1>1, <1>2 DEF MapInv, MapConnected
<1>5. MapAsSaid'
  BY <1>1, <1>3 DEF MapAsSaid, LinesAsSaid, DevicesAsSaid, ListsAsSaid, StationsOfFile
<1>6. QED
  BY <1>4, <1>5

\* A station: it is one of its line from then on.
LEMMA StationLoaded ==
  ASSUME StartTyped, MapInv, NEW s \in MapSection, ReadMap(s), s.kind = "station"
  PROVE  MapConnected' /\ MapAsSaid'
<1>0. LoadStation(s) /\ s.kind \notin Kinds
  BY MapRead, MapFields
<1>1. /\ devices' = devices /\ devices_id' = devices_id /\ DevicesAsSaid' /\ ListsAsSaid'
      /\ \A r : ListedIn(r)' = ListedIn(r)
  BY <1>0, DevicesStay
<1>2. /\ lines' = lines /\ stations' = stations \cup {s.id} /\ LineOf(s) \in lines
      /\ stations_ids' = [stations_ids EXCEPT ![LineOf(s)] = @ \cup {s.id}]
  BY <1>0 DEF LoadStation
<1>3. \A l \in Lines : stations_ids'[l] = IF l = LineOf(s) THEN stations_ids[l] \cup {s.id}
                                                         ELSE stations_ids[l]
  BY <1>2 DEF StartTyped
<1>4. LinesAsSaid'
  <2>1. LinesAsSaid
    BY MapAsSaidParts DEF MapInv
  <2>2. QED
    BY <1>3, <2>1, StationsSaid DEF LinesAsSaid
<1>5. \A r \in stations' : \E l \in lines' : r \in stations_ids'[l]
  <2>1. lines \subseteq Lines
    BY DEF StartTyped
  <2>2. \A r \in stations : \E l \in lines : r \in stations_ids[l]
    BY DEF MapInv, MapConnected
  <2>3. QED
    BY <1>2, <1>3, <2>1, <2>2
<1>6. MapConnected'
  <2>1. \A d \in devices' : d.station \in stations'
    BY <1>1, <1>2 DEF MapInv, MapConnected
  <2>2. QED
    BY <1>1, <1>5, <2>1 DEF MapInv, MapConnected
<1>7. MapAsSaid'
  BY <1>1, <1>4 DEF MapAsSaid, LinesAsSaid, DevicesAsSaid, ListsAsSaid, StationsOfFile
<1>8. QED
  BY <1>6, <1>7

\* What a list holds, also when an element is added at its end.
ElementsOf(q) == {q[i] : i \in DOMAIN q}

LEMMA ListAppended ==
  ASSUME NEW S, NEW q \in Seq(S), NEW x \in S
  PROVE  ElementsOf(Append(q, x)) = ElementsOf(q) \cup {x}
<1>1. /\ \A i \in 1 .. Len(q) : Append(q, x)[i] = q[i]
      /\ Append(q, x)[Len(q) + 1] = x
      /\ DOMAIN q = 1 .. Len(q) /\ DOMAIN Append(q, x) = 1 .. Len(q) + 1
      /\ Len(q) \in Nat
  BY AppendProperties, LenProperties
<1>2. 1 .. Len(q) + 1 = (1 .. Len(q)) \cup {Len(q) + 1}
  BY <1>1
<1>3. QED
  BY <1>1, <1>2 DEF ElementsOf

\* A device: it is in one list, under an id that no other has.
LEMMA DeviceLoaded ==
  ASSUME StartTyped, MapInv, NEW s \in MapSection, ReadMap(s), s.kind \in Kinds
  PROVE  MapConnected' /\ MapAsSaid'
<1> DEFINE device == [id |-> s.id, kind |-> s.kind, station |-> StationOf(s),
                      enabled |-> s.enabled, related |-> s.related]
           at == StationOf(s)
<1>0. LoadDevice(s) /\ map_sections' = Append(map_sections, s) /\ s.kind # "station"
  BY MapRead, MapFields
<1>1. /\ devices' = devices \cup {device} /\ at \in stations
      /\ devices_id' = [devices_id EXCEPT ![at] = Append(@, s.id)]
      /\ \A d \in devices : d.id # s.id
      /\ lines' = lines /\ stations' = stations /\ stations_ids' = stations_ids
  BY <1>0 DEF LoadDevice
<1>2. device.id = s.id /\ device.station = at
  OBVIOUS
<1> HIDE DEF device
<1>3. /\ stations \subseteq Stations /\ s.id \in Devices
      /\ devices_id \in [Stations -> Seq(Devices)] /\ IsFiniteSet(devices)
  BY <1>0, MapFields DEF StartTyped, MapInv, MapConnected
<1>4. at \in Stations
  BY <1>1, <1>3
<1> HIDE DEF at
<1>5. \A r \in Stations : devices_id'[r] = IF r = at THEN Append(devices_id[r], s.id)
                                                    ELSE devices_id[r]
  BY <1>1, <1>3
<1>6. \A r \in Stations : ListedIn(r)' = IF r = at THEN ListedIn(r) \cup {s.id}
                                                   ELSE ListedIn(r)
  <2>1. ASSUME NEW r \in Stations
        PROVE  ListedIn(r)' = IF r = at THEN ListedIn(r) \cup {s.id} ELSE ListedIn(r)
    <3>1. devices_id[r] \in Seq(Devices)
      BY <1>3
    <3>2. ElementsOf(Append(devices_id[r], s.id)) = ElementsOf(devices_id[r]) \cup {s.id}
      BY <1>3, <3>1, ListAppended
    <3>3. ListedIn(r) = ElementsOf(devices_id[r]) /\ ListedIn(r)' = ElementsOf(devices_id'[r])
      BY DEF ListedIn, ElementsOf
    <3>4. QED
      BY <1>5, <3>2, <3>3
  <2>2. QED
    BY <2>1
<1>7. LinesAsSaid /\ DevicesAsSaid /\ ListsAsSaid
  BY MapAsSaidParts DEF MapInv
<1>8. LinesAsSaid'
  BY <1>0, <1>1, <1>7, StationsSaid DEF LinesAsSaid
<1>9. DevicesAsSaid'
  <2>1. PICK n \in Nat : n = Len(map_sections) + 1
    BY <1>0, MapAppended
  <2>2. /\ SaidOf(Kinds)' = SaidOf(Kinds) \cup {n} /\ n \notin SaidOf(Kinds)
        /\ IsFiniteSet(SaidOf(Kinds)) /\ SaidOf(Kinds) \subseteq DOMAIN map_sections
        /\ map_sections'[n] = s
    BY <1>0, <2>1, MapAppended, MapSaidAppended
  <2>3. \A i \in SaidOf(Kinds) : /\ StationSaid(i)' = StationSaid(i)
                                 /\ map_sections'[i] = map_sections[i]
    BY <1>0, <2>2, MapAppended, MapOwnersStay DEF MapInv, SaidOf
  <2>4. StationSaid(n)' = at
    BY <1>0, <1>1, <2>1, MapOwnerOfNew DEF MapInv, at
  <2>5. \A i \in SaidOf(Kinds)' : \E d \in devices' : /\ d.id = map_sections'[i].id
                                                      /\ d.station = StationSaid(i)'
    BY <1>1, <1>2, <1>7, <2>2, <2>3, <2>4 DEF DevicesAsSaid
  <2>6. device \notin devices
    BY <1>1, <1>2
  <2>7. /\ Cardinality(devices') = Cardinality(devices) + 1
        /\ Cardinality(SaidOf(Kinds)') = Cardinality(SaidOf(Kinds)) + 1
    BY <1>1, <1>3, <2>2, <2>6, FS_AddElement
  <2>8. Cardinality(devices') = Cardinality(SaidOf(Kinds)')
    BY <1>7, <2>7 DEF DevicesAsSaid
  <2>9. QED
    BY <2>5, <2>8 DEF DevicesAsSaid
<1>10. ListsAsSaid' /\ \A r \in Stations : IsFiniteSet(ListedIn(r)')
  <2>1. ASSUME NEW r \in Stations
        PROVE  /\ ListedIn(r)' = {d.id : d \in {c \in devices' : c.station = r}}
               /\ Cardinality(ListedIn(r)') = Len(devices_id'[r])
               /\ IsFiniteSet(ListedIn(r)')
    <3>1. /\ ListedIn(r) = {d.id : d \in {c \in devices : c.station = r}}
          /\ Cardinality(ListedIn(r)) = Len(devices_id[r])
          /\ IsFiniteSet(ListedIn(r)) /\ devices_id[r] \in Seq(Devices)
      BY <1>3, <1>7 DEF ListsAsSaid, MapInv, MapConnected
    <3>2. CASE r = at
      <4>1. ListedIn(r)' = ListedIn(r) \cup {s.id} /\ devices_id'[r] = Append(devices_id[r], s.id)
        BY <1>5, <1>6, <3>2
      <4>2. s.id \notin ListedIn(r)
        BY <1>1, <3>1
      <4>3. /\ IsFiniteSet(ListedIn(r)')
            /\ Cardinality(ListedIn(r)') = Cardinality(ListedIn(r)) + 1
        BY <3>1, <4>1, <4>2, FS_AddElement
      <4>4. Len(devices_id'[r]) = Len(devices_id[r]) + 1
        BY <1>3, <3>1, <4>1, AppendProperties
      <4>5. {c \in devices' : c.station = r} = {c \in devices : c.station = r} \cup {device}
        BY <1>1, <1>2, <3>2
      <4>6. {d.id : d \in {c \in devices' : c.station = r}} = ListedIn(r) \cup {s.id}
        BY <1>2, <3>1, <4>5
      <4>7. QED
        BY <3>1, <4>1, <4>3, <4>4, <4>6
    <3>3. CASE r # at
      <4>1. ListedIn(r)' = ListedIn(r) /\ devices_id'[r] = devices_id[r]
        BY <1>5, <1>6, <3>3
      <4>2. {c \in devices' : c.station = r} = {c \in devices : c.station = r}
        BY <1>1, <1>2, <3>3
      <4>3. QED
        BY <3>1, <4>1, <4>2
    <3>4. QED
      BY <3>2, <3>3
  <2>2. QED
    BY <2>1 DEF ListsAsSaid
<1>11. devices_id' \in [Stations -> Seq(Devices)]
  <2>1. \A r \in Stations : Append(devices_id[r], s.id) \in Seq(Devices)
    BY <1>3, AppendProperties
  <2>2. QED
    BY <1>1, <1>3, <2>1
<1>12. /\ \A d \in devices' : d.station \in stations'
       /\ \A d, c \in devices' : d.id = c.id => d = c
       /\ IsFiniteSet(devices')
  BY <1>1, <1>2, <1>3, FS_AddElement DEF MapInv, MapConnected
<1>13. \A r \in stations' : \E l \in lines' : r \in stations_ids'[l]
  BY <1>1 DEF MapInv, MapConnected
<1>14. MapConnected'
  BY <1>10, <1>11, <1>12, <1>13 DEF MapConnected
<1>15. MapAsSaid'
  BY <1>8, <1>9, <1>10 DEF MapAsSaid, LinesAsSaid, DevicesAsSaid, ListsAsSaid, StationsOfFile
<1>16. QED
  BY <1>14, <1>15

\* Settings.
LEMMA SettingsLoaded ==
  ASSUME StartTyped, MapInv, NEW s \in MapSection, ReadMap(s), s.kind = "settings"
  PROVE  MapConnected' /\ MapAsSaid'
<1>0. LoadSettings(s) /\ s.kind \notin Kinds
  BY MapRead, MapFields
<1>1. /\ devices' = devices /\ devices_id' = devices_id /\ DevicesAsSaid' /\ ListsAsSaid'
      /\ \A r : ListedIn(r)' = ListedIn(r)
  BY <1>0, DevicesStay
<1>2. /\ lines' = lines /\ stations' = stations /\ stations_ids' = stations_ids
  BY <1>0 DEF LoadSettings
<1>3. LinesAsSaid'
  <2>1. LinesAsSaid
    BY MapAsSaidParts DEF MapInv
  <2>2. QED
    BY <1>2, <2>1, StationsSaid DEF LinesAsSaid
<1>4. MapConnected'
  BY <1>1, <1>2 DEF MapInv, MapConnected
<1>5. MapAsSaid'
  BY <1>1, <1>3 DEF MapAsSaid, LinesAsSaid, DevicesAsSaid, ListsAsSaid, StationsOfFile
<1>6. QED
  BY <1>4, <1>5

\* Whatever section is read, the map stays what the configuration says.
LEMMA MapKept ==
  ASSUME StartTyped, MapInv, NEW s \in MapSection, ReadMap(s)
  PROVE  MapInv'
<1>1. MapConnected' /\ MapAsSaid'
  BY MapFields, LineLoaded, StationLoaded, DeviceLoaded, SettingsLoaded
<1>2. QED
  BY <1>1, MapOwnersKept, MapCurrentsKept DEF MapInv

\* The stages of main, each in its place.
LEMMA StageList ==
  /\ DOMAIN Stages = 1 .. 18
  /\ Stages[1] = "globals" /\ Stages[2] = "window" /\ Stages[3] = "panels"
  /\ Stages[4] = "channel" /\ Stages[5] = "images" /\ Stages[6] = "fonts"
  /\ Stages[7] = "input" /\ Stages[8] = "dictionaries" /\ Stages[9] = "map"
  /\ Stages[10] = "widgets" /\ Stages[11] = "threads" /\ Stages[12] = "dispatchers"
  /\ Stages[13] = "log" /\ Stages[14] = "router" /\ Stages[15] = "timer"
  /\ Stages[16] = "routing thread" /\ Stages[17] = "first record"
  /\ Stages[18] = "main loop"
BY DEF Stages

\* No stage comes twice.
LEMMA StageOnce ==
  ASSUME NEW i \in 1 .. 18
  PROVE  /\ (Stages[i] = "globals" => i = 1) /\ (Stages[i] = "window" => i = 2)
         /\ (Stages[i] = "panels" => i = 3) /\ (Stages[i] = "channel" => i = 4)
         /\ (Stages[i] = "images" => i = 5) /\ (Stages[i] = "fonts" => i = 6)
         /\ (Stages[i] = "input" => i = 7) /\ (Stages[i] = "dictionaries" => i = 8)
         /\ (Stages[i] = "map" => i = 9) /\ (Stages[i] = "widgets" => i = 10)
         /\ (Stages[i] = "threads" => i = 11) /\ (Stages[i] = "dispatchers" => i = 12)
         /\ (Stages[i] = "log" => i = 13) /\ (Stages[i] = "router" => i = 14)
         /\ (Stages[i] = "timer" => i = 15) /\ (Stages[i] = "routing thread" => i = 16)
         /\ (Stages[i] = "first record" => i = 17)
         /\ (Stages[i] = "main loop" => i = 18)
<1>1. \/ i = 1 \/ i = 2 \/ i = 3 \/ i = 4 \/ i = 5 \/ i = 6 \/ i = 7 \/ i = 8 \/ i = 9
      \/ i = 10 \/ i = 11 \/ i = 12 \/ i = 13 \/ i = 14 \/ i = 15 \/ i = 16 \/ i = 17 \/ i = 18
  OBVIOUS
<1>2. QED
  BY <1>1, StageList

\* What comes after a stage that stands in one place.
LEMMA AfterPlace ==
  ASSUME NEW s, NEW t, NEW n \in 1 .. 18, NEW m, m = 1 + n, Stages[n] = s, Stages[m] = t,
         \A i \in 1 .. 18 : Stages[i] = s => i = n
  PROVE  After(s) = t
<1>1. DOMAIN Stages = 1 .. 18
  BY StageList
<1>2. (CHOOSE i \in DOMAIN Stages : Stages[i] = s) = n
  BY <1>1, Zenon
<1>3. QED
  BY <1>2, Zenon DEF After

\* The stages follow each other.
LEMMA StageOrder ==
  /\ After("globals") = "window" /\ After("window") = "panels"
  /\ After("panels") = "channel" /\ After("channel") = "images"
  /\ After("images") = "fonts" /\ After("fonts") = "input"
  /\ After("input") = "dictionaries" /\ After("dictionaries") = "map"
  /\ After("map") = "widgets" /\ After("widgets") = "threads"
  /\ After("threads") = "dispatchers" /\ After("dispatchers") = "log"
  /\ After("log") = "router" /\ After("router") = "timer"
  /\ After("timer") = "routing thread" /\ After("routing thread") = "first record"
  /\ After("first record") = "main loop"
<1>1. After("globals") = "window"
  <2>1. \A i \in 1 .. 18 : Stages[i] = "globals" => i = 1
    BY StageOnce, Zenon
  <2>2. Stages[1] = "globals" /\ Stages[2] = "window"
    BY StageList
  <2>3. 1 \in 1 .. 18 /\ 2 = 1 + 1
    OBVIOUS
  <2>4. QED
    BY <2>1, <2>2, <2>3, AfterPlace, Zenon
<1>2. After("window") = "panels"
  <2>1. \A i \in 1 .. 18 : Stages[i] = "window" => i = 2
    BY StageOnce, Zenon
  <2>2. Stages[2] = "window" /\ Stages[3] = "panels"
    BY StageList
  <2>3. 2 \in 1 .. 18 /\ 3 = 1 + 2
    OBVIOUS
  <2>4. QED
    BY <2>1, <2>2, <2>3, AfterPlace, Zenon
<1>3. After("panels") = "channel"
  <2>1. \A i \in 1 .. 18 : Stages[i] = "panels" => i = 3
    BY StageOnce, Zenon
  <2>2. Stages[3] = "panels" /\ Stages[4] = "channel"
    BY StageList
  <2>3. 3 \in 1 .. 18 /\ 4 = 1 + 3
    OBVIOUS
  <2>4. QED
    BY <2>1, <2>2, <2>3, AfterPlace, Zenon
<1>4. After("channel") = "images"
  <2>1. \A i \in 1 .. 18 : Stages[i] = "channel" => i = 4
    BY StageOnce, Zenon
  <2>2. Stages[4] = "channel" /\ Stages[5] = "images"
    BY StageList
  <2>3. 4 \in 1 .. 18 /\ 5 = 1 + 4
    OBVIOUS
  <2>4. QED
    BY <2>1, <2>2, <2>3, AfterPlace, Zenon
<1>5. After("images") = "fonts"
  <2>1. \A i \in 1 .. 18 : Stages[i] = "images" => i = 5
    BY StageOnce, Zenon
  <2>2. Stages[5] = "images" /\ Stages[6] = "fonts"
    BY StageList
  <2>3. 5 \in 1 .. 18 /\ 6 = 1 + 5
    OBVIOUS
  <2>4. QED
    BY <2>1, <2>2, <2>3, AfterPlace, Zenon
<1>6. After("fonts") = "input"
  <2>1. \A i \in 1 .. 18 : Stages[i] = "fonts" => i = 6
    BY StageOnce, Zenon
  <2>2. Stages[6] = "fonts" /\ Stages[7] = "input"
    BY StageList
  <2>3. 6 \in 1 .. 18 /\ 7 = 1 + 6
    OBVIOUS
  <2>4. QED
    BY <2>1, <2>2, <2>3, AfterPlace, Zenon
<1>7. After("input") = "dictionaries"
  <2>1. \A i \in 1 .. 18 : Stages[i] = "input" => i = 7
    BY StageOnce, Zenon
  <2>2. Stages[7] = "input" /\ Stages[8] = "dictionaries"
    BY StageList
  <2>3. 7 \in 1 .. 18 /\ 8 = 1 + 7
    OBVIOUS
  <2>4. QED
    BY <2>1, <2>2, <2>3, AfterPlace, Zenon
<1>8. After("dictionaries") = "map"
  <2>1. \A i \in 1 .. 18 : Stages[i] = "dictionaries" => i = 8
    BY StageOnce, Zenon
  <2>2. Stages[8] = "dictionaries" /\ Stages[9] = "map"
    BY StageList
  <2>3. 8 \in 1 .. 18 /\ 9 = 1 + 8
    OBVIOUS
  <2>4. QED
    BY <2>1, <2>2, <2>3, AfterPlace, Zenon
<1>9. After("map") = "widgets"
  <2>1. \A i \in 1 .. 18 : Stages[i] = "map" => i = 9
    BY StageOnce, Zenon
  <2>2. Stages[9] = "map" /\ Stages[10] = "widgets"
    BY StageList
  <2>3. 9 \in 1 .. 18 /\ 10 = 1 + 9
    OBVIOUS
  <2>4. QED
    BY <2>1, <2>2, <2>3, AfterPlace, Zenon
<1>10. After("widgets") = "threads"
  <2>1. \A i \in 1 .. 18 : Stages[i] = "widgets" => i = 10
    BY StageOnce, Zenon
  <2>2. Stages[10] = "widgets" /\ Stages[11] = "threads"
    BY StageList
  <2>3. 10 \in 1 .. 18 /\ 11 = 1 + 10
    OBVIOUS
  <2>4. QED
    BY <2>1, <2>2, <2>3, AfterPlace, Zenon
<1>11. After("threads") = "dispatchers"
  <2>1. \A i \in 1 .. 18 : Stages[i] = "threads" => i = 11
    BY StageOnce, Zenon
  <2>2. Stages[11] = "threads" /\ Stages[12] = "dispatchers"
    BY StageList
  <2>3. 11 \in 1 .. 18 /\ 12 = 1 + 11
    OBVIOUS
  <2>4. QED
    BY <2>1, <2>2, <2>3, AfterPlace, Zenon
<1>12. After("dispatchers") = "log"
  <2>1. \A i \in 1 .. 18 : Stages[i] = "dispatchers" => i = 12
    BY StageOnce, Zenon
  <2>2. Stages[12] = "dispatchers" /\ Stages[13] = "log"
    BY StageList
  <2>3. 12 \in 1 .. 18 /\ 13 = 1 + 12
    OBVIOUS
  <2>4. QED
    BY <2>1, <2>2, <2>3, AfterPlace, Zenon
<1>13. After("log") = "router"
  <2>1. \A i \in 1 .. 18 : Stages[i] = "log" => i = 13
    BY StageOnce, Zenon
  <2>2. Stages[13] = "log" /\ Stages[14] = "router"
    BY StageList
  <2>3. 13 \in 1 .. 18 /\ 14 = 1 + 13
    OBVIOUS
  <2>4. QED
    BY <2>1, <2>2, <2>3, AfterPlace, Zenon
<1>14. After("router") = "timer"
  <2>1. \A i \in 1 .. 18 : Stages[i] = "router" => i = 14
    BY StageOnce, Zenon
  <2>2. Stages[14] = "router" /\ Stages[15] = "timer"
    BY StageList
  <2>3. 14 \in 1 .. 18 /\ 15 = 1 + 14
    OBVIOUS
  <2>4. QED
    BY <2>1, <2>2, <2>3, AfterPlace, Zenon
<1>15. After("timer") = "routing thread"
  <2>1. \A i \in 1 .. 18 : Stages[i] = "timer" => i = 15
    BY StageOnce, Zenon
  <2>2. Stages[15] = "timer" /\ Stages[16] = "routing thread"
    BY StageList
  <2>3. 15 \in 1 .. 18 /\ 16 = 1 + 15
    OBVIOUS
  <2>4. QED
    BY <2>1, <2>2, <2>3, AfterPlace, Zenon
<1>16. After("routing thread") = "first record"
  <2>1. \A i \in 1 .. 18 : Stages[i] = "routing thread" => i = 16
    BY StageOnce, Zenon
  <2>2. Stages[16] = "routing thread" /\ Stages[17] = "first record"
    BY StageList
  <2>3. 16 \in 1 .. 18 /\ 17 = 1 + 16
    OBVIOUS
  <2>4. QED
    BY <2>1, <2>2, <2>3, AfterPlace, Zenon
<1>17. After("first record") = "main loop"
  <2>1. \A i \in 1 .. 18 : Stages[i] = "first record" => i = 17
    BY StageOnce, Zenon
  <2>2. Stages[17] = "first record" /\ Stages[18] = "main loop"
    BY StageList
  <2>3. 17 \in 1 .. 18 /\ 18 = 1 + 17
    OBVIOUS
  <2>4. QED
    BY <2>1, <2>2, <2>3, AfterPlace, Zenon
<1>18. QED
  BY <1>1, <1>2, <1>3, <1>4, <1>5, <1>6, <1>7, <1>8, <1>9, <1>10, <1>11, <1>12, <1>13, <1>14, <1>15, <1>16, <1>17

\* The names of the stages are stages.
LEMMA StageNamed ==
  ASSUME NEW s \in BeforeThreads \cup AfterThreads
  PROVE  s \in {Stages[i] : i \in DOMAIN Stages}
<1>1. DOMAIN Stages = 1 .. 18
  BY StageList
<1>2. \A i \in 1 .. 18 : Stages[i] \in {Stages[j] : j \in DOMAIN Stages}
  BY <1>1
<1>3. /\ 1 \in 1 .. 18 /\ 2 \in 1 .. 18 /\ 3 \in 1 .. 18 /\ 4 \in 1 .. 18 /\ 5 \in 1 .. 18
      /\ 6 \in 1 .. 18 /\ 7 \in 1 .. 18 /\ 8 \in 1 .. 18 /\ 9 \in 1 .. 18 /\ 10 \in 1 .. 18
      /\ 11 \in 1 .. 18 /\ 12 \in 1 .. 18 /\ 13 \in 1 .. 18 /\ 14 \in 1 .. 18
      /\ 15 \in 1 .. 18 /\ 16 \in 1 .. 18 /\ 17 \in 1 .. 18 /\ 18 \in 1 .. 18
  OBVIOUS
<1> DEFINE names == {Stages[j] : j \in DOMAIN Stages}
<1>4. /\ Stages[1] \in names /\ Stages[2] \in names /\ Stages[3] \in names
      /\ Stages[4] \in names /\ Stages[5] \in names /\ Stages[6] \in names
      /\ Stages[7] \in names /\ Stages[8] \in names /\ Stages[9] \in names
      /\ Stages[10] \in names /\ Stages[11] \in names /\ Stages[12] \in names
      /\ Stages[13] \in names /\ Stages[14] \in names /\ Stages[15] \in names
      /\ Stages[16] \in names /\ Stages[17] \in names /\ Stages[18] \in names
  BY <1>2, <1>3
<1> HIDE DEF names
<1>5. /\ "globals" \in names /\ "window" \in names /\ "panels" \in names
      /\ "channel" \in names /\ "images" \in names /\ "fonts" \in names
      /\ "input" \in names /\ "dictionaries" \in names /\ "map" \in names
      /\ "widgets" \in names /\ "threads" \in names /\ "dispatchers" \in names
      /\ "log" \in names /\ "router" \in names /\ "timer" \in names
      /\ "routing thread" \in names /\ "first record" \in names
      /\ "main loop" \in names
  BY <1>4, StageList
<1>6. s \in names
  BY <1>5 DEF BeforeThreads, BeforeWidgets, AfterThreads
<1>7. QED
  BY <1>6 DEF names

\* What the map gives to the rest is the same while it is the same.
LEMMA SameMap ==
  ASSUME devices' = devices, devices_id' = devices_id, stations_ids' = stations_ids
  PROVE  /\ Enabled' = Enabled /\ DeviceIds' = DeviceIds
         /\ \A l : WidgetsOf(l)' = WidgetsOf(l)
<1>1. \A s : ListedIn(s)' = ListedIn(s)
  BY DEF ListedIn
<1>2. Enabled' = Enabled /\ DeviceIds' = DeviceIds
  BY DEF Enabled, DeviceIds
<1>3. ASSUME NEW l PROVE WidgetsOf(l)' = WidgetsOf(l)
  BY <1>1 DEF WidgetsOf
<1>4. QED
  BY <1>2, <1>3

\* Nothing but the iterators is lost when the reading is over.
LEMMA MapStays ==
  ASSUME StartTyped, MapInv, lines' = lines, stations_ids' = stations_ids,
         stations' = stations, devices_id' = devices_id, devices' = devices,
         map_sections' = map_sections,
         current_line' \in {current_line, None}, current_station' \in {current_station, None}
  PROVE  MapInv'
<1>1. \A s : ListedIn(s)' = ListedIn(s)
  BY DEF ListedIn
<1>2. \A kind, i : IdBefore(kind, i)' = IdBefore(kind, i)
  BY DEF IdBefore
<1>3. \A i : StationSaid(i)' = StationSaid(i) /\ LineSaid(i)' = LineSaid(i)
  BY <1>2 DEF StationSaid, LineSaid
<1>4. ASSUME NEW kinds PROVE SaidOf(kinds)' = SaidOf(kinds)
  BY DEF SaidOf
<1>5. MapOwnersRead'
  BY DEF MapInv, MapOwnersRead
<1>6. MapCurrentsSaid'
  BY DEF MapInv, MapCurrentsSaid, MapCurrentIsLast
<1>7. MapConnected'
  BY <1>1 DEF MapInv, MapConnected
<1>8. LinesAsSaid /\ DevicesAsSaid /\ ListsAsSaid
  BY MapAsSaidParts DEF MapInv
<1>9. LinesAsSaid'
  <2>1. ASSUME NEW l PROVE StationsOfFile(l)' = StationsOfFile(l)
    BY <1>3, <1>4 DEF StationsOfFile
  <2>2. QED
    BY <1>8, <2>1 DEF LinesAsSaid
<1>10. DevicesAsSaid' /\ ListsAsSaid'
  BY <1>1, <1>3, <1>4, <1>8 DEF DevicesAsSaid, ListsAsSaid
<1>11. MapAsSaid'
  BY <1>9, <1>10 DEF MapAsSaid, LinesAsSaid, DevicesAsSaid, ListsAsSaid, StationsOfFile
<1>12. QED
  BY <1>5, <1>6, <1>7, <1>11 DEF MapInv

\* The threads and the widgets are what they were where neither is touched,
\* or where a thread tells something and is heard.
LEMMA StageMoves ==
  ASSUME WidgetsDone, ThreadsDone,
         lines' = lines, devices' = devices, devices_id' = devices_id,
         stations_ids' = stations_ids,
         device_widgets' = device_widgets, lines_left' = lines_left,
         threads' = threads, untold' = untold, pulses' \subseteq pulses \cup threads,
         \/ stage' = stage
         \/ stage \in BeforeWidgets /\ stage' \in BeforeWidgets
         \/ stage \in AfterThreads /\ stage' \in AfterThreads,
         stage' = "main loop" => indicator' = "red"
  PROVE  WidgetsDone' /\ ThreadsDone'
<1>1. /\ Enabled' = Enabled /\ DeviceIds' = DeviceIds
      /\ \A l : WidgetsOf(l)' = WidgetsOf(l)
  BY SameMap
<1>2. /\ stage' \in BeforeWidgets => stage \in BeforeWidgets
      /\ stage' = "widgets" => stage = "widgets"
      /\ stage' \in BeforeThreads => stage \in BeforeThreads
      /\ stage' \in AfterThreads => stage \in AfterThreads
      /\ stage' \in {"threads"} \cup AfterThreads => stage \in {"threads"} \cup AfterThreads
  BY DEF BeforeThreads, BeforeWidgets, AfterThreads
<1>3. WidgetsDone'
  BY <1>1, <1>2 DEF WidgetsDone
<1>4. threads' \cup untold' \cup pulses' \subseteq threads \cup untold \cup pulses
  OBVIOUS
<1>5. ThreadsDone'
  BY <1>1, <1>2, <1>4 DEF ThreadsDone
<1>6. QED
  BY <1>3, <1>5

\* A process that ends takes its threads with it.
LEMMA ExitKeeps ==
  ASSUME StartInv, NEW how \in Over, Exits(how)
  PROVE  StartInv'
<1>1. /\ stage' = how /\ threads' = {} /\ routing_thread' = FALSE /\ pulses' = {}
      /\ lines' = lines /\ stations_ids' = stations_ids /\ stations' = stations
      /\ devices_id' = devices_id /\ devices' = devices /\ map_sections' = map_sections
      /\ current_line' = current_line /\ current_station' = current_station
      /\ buttons' = buttons /\ device_widgets' = device_widgets /\ lines_left' = lines_left
      /\ indicator' = indicator /\ untold' = untold
      /\ persons' = persons /\ current_dispatcher' = current_dispatcher
      /\ records' = records
  BY DEF Exits, maps, shown, people
<1>2. how \notin BeforeThreads \cup AfterThreads
  BY DEF BeforeThreads, BeforeWidgets, AfterThreads, Over
<1>3. StartTyped'
  BY <1>1 DEF StartInv, StartTyped
<1>4. MapInv'
  BY <1>1, MapStays DEF StartInv
<1>5. Enabled' = Enabled /\ DeviceIds' = DeviceIds
  BY <1>1, SameMap
<1>6. WidgetsDone'
  BY <1>1, <1>2, <1>5 DEF StartInv, WidgetsDone, BeforeThreads, AfterThreads
<1>7. ThreadsDone'
  BY <1>1, <1>2, <1>5 DEF StartInv, ThreadsDone, BeforeThreads, AfterThreads
<1>8. StartedFirst' /\ RecordsDone'
  BY <1>1, <1>2 DEF StartInv, StartedFirst, RecordsDone, AfterThreads
<1>9. QED
  BY <1>3, <1>4, <1>6, <1>7, <1>8 DEF StartInv

\* A step that moves main on, or a thread's or the channel's, and does no
\* more to the map, the widgets and the threads.
LEMMA MoveKeeps ==
  ASSUME StartInv, maps' = maps,
         device_widgets' = device_widgets, lines_left' = lines_left,
         threads' = threads, untold' = untold, pulses' \subseteq pulses \cup threads,
         \/ stage' = stage
         \/ stage \in BeforeWidgets /\ stage' \in BeforeWidgets
         \/ stage \in AfterThreads /\ stage' \in AfterThreads,
         stage' = "main loop" => indicator' = "red",
         buttons' \subseteq CommandButtons \cup LogButtons \cup OtherButtons,
         persons' \subseteq {1}, current_dispatcher' \in persons' \cup {None},
         routing_thread' \in BOOLEAN, indicator' \in {"none", "red", "green"},
         StartedFirst', RecordsDone'
  PROVE  StartInv'
<1>1. /\ lines' = lines /\ stations_ids' = stations_ids /\ stations' = stations
      /\ devices_id' = devices_id /\ devices' = devices /\ map_sections' = map_sections
      /\ current_line' = current_line /\ current_station' = current_station
  BY DEF maps
<1>2. MapInv'
  BY <1>1, MapStays DEF StartInv
<1>3. WidgetsDone' /\ ThreadsDone'
  BY <1>1, StageMoves DEF StartInv
<1>4. stage' \in {Stages[i] : i \in DOMAIN Stages} \cup Over
  <2>1. stage' = stage \/ stage' \in BeforeThreads \cup AfterThreads
    BY DEF BeforeThreads
  <2>2. QED
    BY <2>1, StageNamed DEF StartInv, StartTyped
<1>5. threads' \subseteq Devices /\ untold' \subseteq Devices /\ pulses' \subseteq Devices
  BY DEF StartInv, StartTyped
<1>6. StartTyped'
  BY <1>1, <1>4, <1>5 DEF StartInv, StartTyped
<1>7. QED
  BY <1>2, <1>3, <1>6 DEF StartInv

\* The stages that only pass.
LEMMA PassKeeps ==
  ASSUME StartInv, NEW s, Passes(s),
         \/ s \in BeforeWidgets /\ After(s) \in BeforeWidgets
         \/ s \in AfterThreads /\ After(s) \in AfterThreads \ {"main loop"}
  PROVE  StartInv'
<1>1. /\ stage = s /\ stage' = After(s) /\ maps' = maps
      /\ buttons' = buttons /\ device_widgets' = device_widgets /\ lines_left' = lines_left
      /\ indicator' = indicator
      /\ threads' = threads /\ untold' = untold /\ routing_thread' = routing_thread
      /\ pulses' = pulses
      /\ persons' = persons /\ current_dispatcher' = current_dispatcher /\ records' = records
  BY DEF Passes, Goes, shown, running, people
<1>2. stage' # "main loop"
  BY <1>1 DEF BeforeWidgets
<1>3. StartedFirst' /\ RecordsDone'
  BY <1>1, <1>2 DEF StartInv, StartedFirst, RecordsDone
<1>4. /\ buttons' \subseteq CommandButtons \cup LogButtons \cup OtherButtons
      /\ persons' \subseteq {1} /\ current_dispatcher' \in persons' \cup {None}
      /\ indicator' \in {"none", "red", "green"}
  BY <1>1 DEF StartInv, StartTyped
<1>5. routing_thread' \in BOOLEAN
  BY <1>1 DEF StartInv, StartTyped
<1>6. \/ stage \in BeforeWidgets /\ stage' \in BeforeWidgets
      \/ stage \in AfterThreads /\ stage' \in AfterThreads
  BY <1>1
<1>7. QED
  BY <1>1, <1>2, <1>3, <1>4, <1>5, <1>6, MoveKeeps

\* The nine of them.
LEMMA StagesPass ==
  ASSUME StartInv,
         \/ GlobalsMade \/ WindowMade \/ ChannelAttached \/ ImagesLoaded \/ FontsLoaded
         \/ InputAttached \/ DictionariesLoaded \/ RouterLoaded \/ TimerCreated
  PROVE  StartInv'
<1>1. /\ After("globals") \in BeforeWidgets /\ After("window") \in BeforeWidgets
      /\ After("channel") \in BeforeWidgets /\ After("images") \in BeforeWidgets
      /\ After("fonts") \in BeforeWidgets /\ After("input") \in BeforeWidgets
      /\ After("dictionaries") \in BeforeWidgets
  BY StageOrder DEF BeforeWidgets
<1>2. /\ After("router") \in AfterThreads \ {"main loop"}
      /\ After("timer") \in AfterThreads \ {"main loop"}
  BY StageOrder DEF AfterThreads
<1>3. /\ "globals" \in BeforeWidgets /\ "window" \in BeforeWidgets
      /\ "channel" \in BeforeWidgets /\ "images" \in BeforeWidgets
      /\ "fonts" \in BeforeWidgets /\ "input" \in BeforeWidgets
      /\ "dictionaries" \in BeforeWidgets
      /\ "router" \in AfterThreads /\ "timer" \in AfterThreads
  BY DEF BeforeWidgets, AfterThreads
<1>4. \E s : /\ Passes(s)
             /\ \/ s \in BeforeWidgets /\ After(s) \in BeforeWidgets
                \/ s \in AfterThreads /\ After(s) \in AfterThreads \ {"main loop"}
  BY <1>1, <1>2, <1>3 DEF GlobalsMade, WindowMade, ChannelAttached, ImagesLoaded, FontsLoaded,
                          InputAttached, DictionariesLoaded, RouterLoaded, TimerCreated
<1>5. QED
  BY <1>4, PassKeeps

\* The panels and their buttons.
LEMMA PanelsKeep ==
  ASSUME StartInv, CreatePanels
  PROVE  StartInv'
<1>1. /\ stage = "panels" /\ stage' = "channel" /\ maps' = maps
      /\ buttons' = CommandButtons \cup LogButtons \cup OtherButtons
      /\ device_widgets' = device_widgets /\ lines_left' = lines_left
      /\ indicator' = indicator
      /\ threads' = threads /\ untold' = untold /\ routing_thread' = routing_thread
      /\ pulses' = pulses
      /\ persons' = persons /\ current_dispatcher' = current_dispatcher /\ records' = records
  BY StageOrder DEF CreatePanels, Goes, running, people
<1>2. stage' # "main loop" /\ stage \in BeforeWidgets /\ stage' \in BeforeWidgets
  BY <1>1 DEF BeforeWidgets
<1>3. StartedFirst' /\ RecordsDone'
  BY <1>1, <1>2 DEF StartInv, StartedFirst, RecordsDone
<1>4. /\ persons' \subseteq {1} /\ current_dispatcher' \in persons' \cup {None}
      /\ indicator' \in {"none", "red", "green"}
  BY <1>1 DEF StartInv, StartTyped
<1>5. routing_thread' \in BOOLEAN
  BY <1>1 DEF StartInv, StartTyped
<1>6. QED
  BY <1>1, <1>2, <1>3, <1>4, <1>5, MoveKeeps

\* The persons and the one on duty.
LEMMA PersonsKeep ==
  ASSUME StartInv, LoadPerson \/ LoadCurrent \/ PersonsEnd
  PROVE  StartInv'
<1>1. /\ stage = "dispatchers" /\ stage' \in {"dispatchers", "log"} /\ maps' = maps
      /\ buttons' = buttons /\ device_widgets' = device_widgets /\ lines_left' = lines_left
      /\ indicator' = indicator
      /\ threads' = threads /\ untold' = untold /\ routing_thread' = routing_thread
      /\ pulses' = pulses /\ records' = records
  BY StageOrder DEF LoadPerson, LoadCurrent, PersonsEnd, Goes, shown, running
<1>2. stage' # "main loop" /\ stage \in AfterThreads /\ stage' \in AfterThreads
  BY <1>1 DEF AfterThreads
<1>3. StartedFirst' /\ RecordsDone'
  BY <1>1, <1>2 DEF StartInv, StartedFirst, RecordsDone
<1>4. persons \subseteq {1} /\ current_dispatcher \in persons \cup {None}
  BY DEF StartInv, StartTyped
<1>5. persons' \subseteq {1} /\ current_dispatcher' \in persons' \cup {None}
  BY <1>4 DEF LoadPerson, LoadCurrent, PersonsEnd, people
<1>6. /\ buttons' \subseteq CommandButtons \cup LogButtons \cup OtherButtons
      /\ indicator' \in {"none", "red", "green"}
  BY <1>1 DEF StartInv, StartTyped
<1>7. routing_thread' \in BOOLEAN
  BY <1>1 DEF StartInv, StartTyped
<1>8. QED
  BY <1>1, <1>2, <1>3, <1>5, <1>6, <1>7, MoveKeeps

\* The log goes on where it ended: only records of former starts.
LEMMA LogKeeps ==
  ASSUME StartInv, LoadLog
  PROVE  StartInv'
<1>1. /\ stage = "log" /\ stage' = "router" /\ maps' = maps
      /\ buttons' = buttons /\ device_widgets' = device_widgets /\ lines_left' = lines_left
      /\ indicator' = indicator
      /\ threads' = threads /\ untold' = untold /\ routing_thread' = routing_thread
      /\ pulses' = pulses
      /\ persons' = persons /\ current_dispatcher' = current_dispatcher
  BY StageOrder DEF LoadLog, Goes, shown, running, people
<1>2. stage' # "main loop" /\ stage \in AfterThreads /\ stage' \in AfterThreads
  BY <1>1 DEF AfterThreads
<1>3. PICK last \in {0, 1} :
        records' = [i \in 1 .. last |-> [id |-> i, tells |-> "former"]]
  BY DEF LoadLog
<1>4. DOMAIN records' = 1 .. last
  BY <1>3
<1>5. \A i \in 1 .. last : i \in Nat /\ records'[i] = [id |-> i, tells |-> "former"]
  BY <1>3
<1>6. StartedFirst'
  <2>1. \A i \in DOMAIN records' : records'[i].id = i /\ records'[i].tells = "former"
    BY <1>4, <1>5
  <2>2. QED
    BY <2>1 DEF StartedFirst
<1>7. RecordsDone'
  <2>1. \A i \in 1 .. last :
          [id |-> i, tells |-> "former"] \in [id : Nat, tells : {"former", "started", "device"}]
    OBVIOUS
  <2>2. records' \in [1 .. last -> [id : Nat, tells : {"former", "started", "device"}]]
    BY <1>3, <2>1
  <2>3. last \in Nat
    OBVIOUS
  <2>4. records' \in Seq([id : Nat, tells : {"former", "started", "device"}])
    <3> DEFINE Record == [id : Nat, tells : {"former", "started", "device"}]
    <3>1. \E n \in Nat : records' \in [1 .. n -> Record]
      BY <2>2, <2>3
    <3> HIDE DEF Record
    <3>2. records' \in Seq(Record)
      BY <3>1, SeqDef
    <3>3. QED
      BY <3>2 DEF Record
  <2>5. QED
    BY <1>2, <2>4 DEF RecordsDone
<1>8. /\ buttons' \subseteq CommandButtons \cup LogButtons \cup OtherButtons
      /\ persons' \subseteq {1} /\ current_dispatcher' \in persons' \cup {None}
      /\ indicator' \in {"none", "red", "green"}
  BY <1>1 DEF StartInv, StartTyped
<1>9. routing_thread' \in BOOLEAN
  BY <1>1 DEF StartInv, StartTyped
<1>10. QED
  BY <1>1, <1>2, <1>6, <1>7, <1>8, <1>9, MoveKeeps

\* The thread of the routing.
LEMMA RoutingKeeps ==
  ASSUME StartInv, CreateRouting
  PROVE  StartInv'
<1>1. /\ stage = "routing thread" /\ stage' = "first record" /\ maps' = maps
      /\ buttons' = buttons /\ device_widgets' = device_widgets /\ lines_left' = lines_left
      /\ indicator' = indicator
      /\ threads' = threads /\ untold' = untold /\ pulses' = pulses
      /\ persons' = persons /\ current_dispatcher' = current_dispatcher /\ records' = records
  BY StageOrder DEF CreateRouting, Goes, shown, people
<1>2. stage' # "main loop" /\ stage \in AfterThreads /\ stage' \in AfterThreads
  BY <1>1 DEF AfterThreads
<1>3. StartedFirst' /\ RecordsDone'
  BY <1>1, <1>2 DEF StartInv, StartedFirst, RecordsDone
<1>4. /\ buttons' \subseteq CommandButtons \cup LogButtons \cup OtherButtons
      /\ persons' \subseteq {1} /\ current_dispatcher' \in persons' \cup {None}
      /\ indicator' \in {"none", "red", "green"}
  BY <1>1 DEF StartInv, StartTyped
<1>5. routing_thread' \in BOOLEAN
  BY DEF CreateRouting
<1>6. QED
  BY <1>1, <1>2, <1>3, <1>4, <1>5, MoveKeeps

\* A record is added at the end, with the id that follows.
LEMMA RecordTold ==
  ASSUME StartedFirst, NEW what \in {"started", "device"}, Tell(what),
         records \in Seq([id : Nat, tells : {"former", "started", "device"}]),
         what = "device" => \E j \in DOMAIN records : records[j].tells = "started"
  PROVE  /\ StartedFirst'
         /\ records' \in Seq([id : Nat, tells : {"former", "started", "device"}])
         /\ \E j \in DOMAIN records' : records'[j].tells = "started"
<1> DEFINE Record == [id : Nat, tells : {"former", "started", "device"}]
           r == [id |-> Len(records) + 1, tells |-> what]
<1>1. records \in Seq(Record) /\ Len(records) \in Nat
  BY LenProperties
<1>2. r \in Record /\ r.id = Len(records) + 1 /\ r.tells = what
  BY <1>1
<1> HIDE DEF Record
<1>3. records' = Append(records, r)
  BY DEF Tell
<1> HIDE DEF r
<1>4. /\ records' \in Seq(Record) /\ Len(records') = Len(records) + 1
      /\ \A i \in 1 .. Len(records) : records'[i] = records[i]
      /\ records'[Len(records) + 1] = r
      /\ DOMAIN records = 1 .. Len(records) /\ DOMAIN records' = 1 .. Len(records) + 1
  BY <1>1, <1>2, <1>3, AppendProperties, LenProperties
<1>5. PICK n \in Nat : n = Len(records) + 1
  BY <1>1
<1>6. /\ DOMAIN records = 1 .. n - 1 /\ DOMAIN records' = 1 .. n
      /\ \A i \in 1 .. n - 1 : records'[i] = records[i]
      /\ records'[n].id = n /\ records'[n].tells = what
  BY <1>1, <1>2, <1>4, <1>5
<1>7. \A i \in 1 .. n : i \in 1 .. n - 1 \/ i = n
  OBVIOUS
<1>8. \A i \in 1 .. n - 1 : /\ i \in 1 .. n
                            /\ \A j \in 1 .. i - 1 : j \in 1 .. n - 1
  OBVIOUS
<1>9. \A i \in DOMAIN records' : records'[i].id = i
  BY <1>6, <1>7 DEF StartedFirst
<1>10. ASSUME NEW i \in DOMAIN records', records'[i].tells = "device"
       PROVE  \E j \in 1 .. i - 1 : records'[j].tells = "started"
  <2>1. CASE i \in 1 .. n - 1
    <3>1. records[i].tells = "device" /\ i \in DOMAIN records
      BY <1>6, <1>10, <2>1
    <3>2. PICK j \in 1 .. i - 1 : records[j].tells = "started"
      BY <3>1 DEF StartedFirst
    <3>3. records'[j].tells = "started"
      BY <1>6, <1>8, <2>1, <3>2
    <3>4. QED
      BY <3>2, <3>3
  <2>2. CASE i = n
    <3>1. PICK j \in DOMAIN records : records[j].tells = "started"
      BY <1>6, <1>10, <2>2
    <3>2. QED
      BY <1>6, <2>2, <3>1
  <2>3. QED
    BY <1>6, <1>7, <2>1, <2>2
<1>11. StartedFirst'
  BY <1>9, <1>10 DEF StartedFirst
<1>12. \E j \in DOMAIN records' : records'[j].tells = "started"
  <2>1. CASE what = "started"
    <3>1. n \in 1 .. n
      <4>1. n >= 1
        BY <1>1, <1>5
      <4>2. QED
        BY <4>1
    <3>2. QED
      BY <1>6, <2>1, <3>1
  <2>2. CASE what = "device"
    BY <1>6, <1>8, <2>2
  <2>3. QED
    BY <2>1, <2>2
<1>13. QED
  BY <1>4, <1>11, <1>12 DEF Record

\* The first record: the main loop begins with it.
LEMMA FirstKeeps ==
  ASSUME StartInv, FirstRecord
  PROVE  StartInv'
<1>1. /\ stage = "first record" /\ stage' = "main loop" /\ maps' = maps
      /\ buttons' = buttons /\ device_widgets' = device_widgets /\ lines_left' = lines_left
      /\ indicator' = "red"
      /\ threads' = threads /\ untold' = untold /\ routing_thread' = routing_thread
      /\ pulses' = pulses
      /\ persons' = persons /\ current_dispatcher' = current_dispatcher /\ Tell("started")
  BY StageOrder DEF FirstRecord, Goes, running, people, sending_commands_disabled
<1>2. stage \in AfterThreads /\ stage' \in AfterThreads
  BY <1>1 DEF AfterThreads
<1>3. StartedFirst' /\ RecordsDone'
  BY <1>1, RecordTold DEF StartInv, RecordsDone
<1>4. /\ buttons' \subseteq CommandButtons \cup LogButtons \cup OtherButtons
      /\ persons' \subseteq {1} /\ current_dispatcher' \in persons' \cup {None}
  BY <1>1 DEF StartInv, StartTyped
<1>5. routing_thread' \in BOOLEAN
  BY <1>1 DEF StartInv, StartTyped
<1>6. QED
  BY <1>1, <1>2, <1>3, <1>4, <1>5, MoveKeeps

\* A thread tells, at whatever stage, and the main loop hears it.
LEMMA PulsesKeep ==
  ASSUME StartInv, DevicePulse \/ HandlePulse
  PROVE  StartInv'
<1>1. /\ stage' = stage /\ maps' = maps
      /\ buttons' = buttons /\ device_widgets' = device_widgets /\ lines_left' = lines_left
      /\ indicator' = indicator
      /\ threads' = threads /\ untold' = untold /\ routing_thread' = routing_thread
      /\ pulses' \subseteq pulses \cup threads
      /\ persons' = persons /\ current_dispatcher' = current_dispatcher
  BY DEF DevicePulse, HandlePulse, shown, people
<1>2. \/ records' = records
      \/ stage = "main loop" /\ Tell("device")
  BY DEF DevicePulse, HandlePulse, HandlesAt
<1>3. StartedFirst' /\ RecordsDone'
  <2>1. CASE records' = records
    BY <1>1, <2>1 DEF StartInv, StartedFirst, RecordsDone
  <2>2. CASE stage = "main loop" /\ Tell("device")
    BY <1>1, <2>2, RecordTold DEF StartInv, RecordsDone
  <2>3. QED
    BY <1>2, <2>1, <2>2
<1>4. /\ buttons' \subseteq CommandButtons \cup LogButtons \cup OtherButtons
      /\ persons' \subseteq {1} /\ current_dispatcher' \in persons' \cup {None}
      /\ indicator' \in {"none", "red", "green"}
      /\ stage' = "main loop" => indicator' = "red"
  BY <1>1 DEF StartInv, StartTyped, ThreadsDone
<1>5. routing_thread' \in BOOLEAN
  BY <1>1 DEF StartInv, StartTyped
<1>6. QED
  BY <1>1, <1>3, <1>4, <1>5, MoveKeeps

\* While the map is read nothing else is there.
LEMMA MapReadKeeps ==
  ASSUME StartInv, NEW s \in MapSection, ReadMap(s)
  PROVE  StartInv'
<1>1. /\ stage = "map" /\ stage' = stage
      /\ buttons' = buttons /\ device_widgets' = device_widgets /\ lines_left' = lines_left
      /\ indicator' = indicator
      /\ threads' = threads /\ untold' = untold /\ routing_thread' = routing_thread
      /\ pulses' = pulses
      /\ persons' = persons /\ current_dispatcher' = current_dispatcher /\ records' = records
      /\ map_sections' = Append(map_sections, s)
  BY DEF ReadMap, shown, running, people
<1>2. StartTyped /\ MapInv /\ WidgetsDone /\ ThreadsDone /\ StartedFirst /\ RecordsDone
  BY DEF StartInv
<1>3. MapInv'
  BY <1>2, MapKept
<1>4. /\ device_widgets = {} /\ threads = {} /\ untold = {} /\ pulses = {}
  BY <1>1, <1>2 DEF WidgetsDone, ThreadsDone, BeforeThreads, BeforeWidgets
<1>5. WidgetsDone' /\ ThreadsDone'
  BY <1>1, <1>4 DEF WidgetsDone, ThreadsDone, BeforeThreads, BeforeWidgets, AfterThreads
<1>6. StartedFirst' /\ RecordsDone'
  BY <1>1, <1>2 DEF StartedFirst, RecordsDone
<1>7. map_sections' \in Seq(MapSection)
  BY <1>1, <1>2, MapAppended
<1>8. /\ lines' \subseteq Lines /\ stations_ids' \in [Lines -> SUBSET Stations]
      /\ stations' \subseteq Stations /\ current_line' \in Lines \cup {None}
  <2>1. /\ lines \subseteq Lines /\ stations_ids \in [Lines -> SUBSET Stations]
        /\ stations \subseteq Stations /\ current_line \in Lines \cup {None}
    BY <1>2 DEF StartTyped
  <2>2. CASE LoadLine(s)
    BY <2>1, <2>2, MapFields DEF LoadLine
  <2>3. CASE LoadStation(s)
    BY <2>1, <2>3, MapFields DEF LoadStation
  <2>4. CASE LoadDevice(s) \/ LoadSettings(s)
    BY <2>1, <2>4 DEF LoadDevice, LoadSettings
  <2>5. QED
    BY <1>2, <2>2, <2>3, <2>4, MapRead
<1>9. devices' \subseteq [id : Devices, kind : Kinds, station : Stations,
                          enabled : BOOLEAN, related : SUBSET Devices]
  <2>1. devices \subseteq [id : Devices, kind : Kinds, station : Stations,
                           enabled : BOOLEAN, related : SUBSET Devices]
    BY <1>2 DEF StartTyped
  <2>2. CASE LoadDevice(s)
    <3>1. /\ s.id \in Devices /\ s.kind \in Kinds /\ s.related \in SUBSET Devices
          /\ StationOf(s) \in Stations
      BY <1>2, <2>2, MapFields DEF LoadDevice, IsDevice, StartTyped
    <3>2. s.enabled \in BOOLEAN
      BY <2>2, MapFields DEF LoadDevice, IsDevice
    <3>3. [id |-> s.id, kind |-> s.kind, station |-> StationOf(s),
           enabled |-> s.enabled, related |-> s.related]
            \in [id : Devices, kind : Kinds, station : Stations,
                 enabled : BOOLEAN, related : SUBSET Devices]
      BY <3>1, <3>2, Zenon
    <3>4. QED
      BY <2>1, <2>2, <3>3 DEF LoadDevice
  <2>3. CASE ~LoadDevice(s)
    BY <1>2, <2>1, <2>3, MapRead DEF LoadLine, LoadStation, LoadSettings
  <2>4. QED
    BY <2>2, <2>3
<1>10. \A r \in Stations : devices_id'[r] \in Seq(Devices)
  BY <1>3 DEF MapInv, MapConnected
<1>11. StartTyped'
  BY <1>1, <1>2, <1>7, <1>8, <1>9, <1>10 DEF StartTyped
<1>12. QED
  BY <1>3, <1>5, <1>6, <1>11 DEF StartInv

\* The map is over: the widgets of all its lines are still to come.
LEMMA MapEndKeeps ==
  ASSUME StartInv, MapEnds
  PROVE  StartInv'
<1>1. /\ stage = "map" /\ stage' = "widgets" /\ lines_left' = lines
      /\ current_line' = None /\ current_station' = None
      /\ lines' = lines /\ stations_ids' = stations_ids /\ stations' = stations
      /\ devices_id' = devices_id /\ devices' = devices /\ map_sections' = map_sections
      /\ buttons' = buttons /\ device_widgets' = device_widgets /\ indicator' = indicator
      /\ threads' = threads /\ untold' = untold /\ routing_thread' = routing_thread
      /\ pulses' = pulses
      /\ persons' = persons /\ current_dispatcher' = current_dispatcher /\ records' = records
  BY StageOrder DEF MapEnds, Goes, running, people
<1>2. StartTyped /\ MapInv /\ WidgetsDone /\ ThreadsDone /\ StartedFirst /\ RecordsDone
  BY DEF StartInv
<1>3. MapInv'
  BY <1>1, <1>2, MapStays
<1>4. device_widgets = {} /\ threads = {} /\ untold = {} /\ pulses = {}
  BY <1>1, <1>2 DEF WidgetsDone, ThreadsDone, BeforeThreads, BeforeWidgets
<1>5. WidgetsDone' /\ ThreadsDone'
  BY <1>1, <1>4 DEF WidgetsDone, ThreadsDone, BeforeThreads, BeforeWidgets, AfterThreads
<1>6. StartedFirst' /\ RecordsDone'
  BY <1>1, <1>2 DEF StartedFirst, RecordsDone
<1>7. "widgets" \in {Stages[i] : i \in DOMAIN Stages}
  BY StageNamed DEF BeforeThreads
<1>8. StartTyped'
  BY <1>1, <1>2, <1>7 DEF StartTyped
<1>9. QED
  BY <1>3, <1>5, <1>6, <1>8 DEF StartInv

\* A line's widgets are those of the devices in the lists of its stations.
LEMMA LineKeeps ==
  ASSUME StartInv, NEW l \in Lines, CreateLine(l)
  PROVE  StartInv'
<1>1. /\ stage = "widgets" /\ stage' = stage /\ lines_left' = lines_left \ {l}
      /\ device_widgets' = device_widgets \cup WidgetsOf(l) /\ maps' = maps
      /\ lines' = lines /\ stations_ids' = stations_ids /\ stations' = stations
      /\ devices_id' = devices_id /\ devices' = devices /\ map_sections' = map_sections
      /\ current_line' = current_line /\ current_station' = current_station
      /\ buttons' = buttons /\ indicator' = indicator
      /\ threads' = threads /\ untold' = untold /\ routing_thread' = routing_thread
      /\ pulses' = pulses
      /\ persons' = persons /\ current_dispatcher' = current_dispatcher /\ records' = records
  BY DEF CreateLine, maps, running, people, WidgetsOf
<1>2. StartTyped /\ MapInv /\ WidgetsDone /\ ThreadsDone /\ StartedFirst /\ RecordsDone
  BY DEF StartInv
<1>3. MapInv'
  BY <1>1, <1>2, MapStays
<1>4. /\ Enabled' = Enabled /\ DeviceIds' = DeviceIds
      /\ \A k : WidgetsOf(k)' = WidgetsOf(k)
  BY <1>1, SameMap
<1>5. WidgetsOf(l) \subseteq DeviceIds /\ DeviceIds \subseteq Devices
  <2>1. \A s \in Stations : ListedIn(s) \subseteq DeviceIds
    <3>1. ListsAsSaid
      BY <1>2, MapAsSaidParts DEF MapInv
    <3>2. QED
      BY <3>1 DEF ListsAsSaid, DeviceIds
  <2>2. stations_ids[l] \subseteq Stations
    BY <1>2 DEF StartTyped
  <2>3. DeviceIds \subseteq Devices
    BY <1>2 DEF StartTyped, DeviceIds
  <2>4. QED
    BY <2>1, <2>2, <2>3 DEF WidgetsOf
<1>6. WidgetsDone'
  <2>1. /\ stage' = "widgets" /\ stage' \notin BeforeWidgets
        /\ stage' \notin {"threads"} \cup AfterThreads
    BY <1>1 DEF BeforeWidgets, AfterThreads
  <2>2. lines_left' \subseteq lines'
    BY <1>1, <1>2 DEF WidgetsDone
  <2>3. \A k \in lines' \ lines_left' : WidgetsOf(k)' \subseteq device_widgets'
    <3>1. \A k \in lines \ lines_left : WidgetsOf(k) \subseteq device_widgets
      BY <1>1, <1>2 DEF WidgetsDone
    <3>2. QED
      BY <1>1, <1>4, <3>1
  <2>4. device_widgets' \subseteq DeviceIds'
    BY <1>1, <1>2, <1>4, <1>5 DEF WidgetsDone
  <2>5. QED
    BY <2>1, <2>2, <2>3, <2>4 DEF WidgetsDone
<1>7. ThreadsDone'
  BY <1>1, <1>2, <1>4 DEF ThreadsDone
<1>8. StartedFirst' /\ RecordsDone'
  BY <1>1, <1>2 DEF StartedFirst, RecordsDone
<1>9. device_widgets' \subseteq Devices /\ lines_left' \subseteq Lines
  BY <1>1, <1>2, <1>5 DEF StartTyped
<1>10. StartTyped'
  BY <1>1, <1>2, <1>9 DEF StartTyped
<1>11. QED
  BY <1>3, <1>6, <1>7, <1>8, <1>10 DEF StartInv

\* When no line is left every device has its widget, and none before had a thread.
LEMMA LinesEndKeeps ==
  ASSUME StartInv, LinesEnd
  PROVE  StartInv'
<1>1. /\ stage = "widgets" /\ stage' = "threads" /\ lines_left = {} /\ maps' = maps
      /\ lines' = lines /\ stations_ids' = stations_ids /\ stations' = stations
      /\ devices_id' = devices_id /\ devices' = devices /\ map_sections' = map_sections
      /\ current_line' = current_line /\ current_station' = current_station
      /\ buttons' = buttons /\ device_widgets' = device_widgets /\ lines_left' = lines_left
      /\ indicator' = indicator
      /\ threads' = threads /\ untold' = untold /\ routing_thread' = routing_thread
      /\ pulses' = pulses
      /\ persons' = persons /\ current_dispatcher' = current_dispatcher /\ records' = records
  BY StageOrder DEF LinesEnd, Goes, maps, shown, running, people
<1>2. StartTyped /\ MapInv /\ WidgetsDone /\ ThreadsDone /\ StartedFirst /\ RecordsDone
  BY DEF StartInv
<1>3. MapInv'
  BY <1>1, <1>2, MapStays
<1>4. Enabled' = Enabled /\ DeviceIds' = DeviceIds
  BY <1>1, SameMap
<1>5. \A d \in devices : d.id \in device_widgets
  <2>1. ASSUME NEW d \in devices PROVE d.id \in device_widgets
    <3>1. d.station \in stations /\ d.station \in Stations
      BY <1>2 DEF MapInv, MapConnected, StartTyped
    <3>2. PICK l \in lines : d.station \in stations_ids[l]
      BY <1>2, <3>1 DEF MapInv, MapConnected
    <3>3. d.id \in ListedIn(d.station)
      <4>1. ListsAsSaid
        BY <1>2, MapAsSaidParts DEF MapInv
      <4>2. QED
        BY <3>1, <4>1 DEF ListsAsSaid
    <3>4. d.id \in WidgetsOf(l)
      BY <3>2, <3>3 DEF WidgetsOf
    <3>5. WidgetsOf(l) \subseteq device_widgets
      BY <1>1, <1>2 DEF WidgetsDone
    <3>6. QED
      BY <3>4, <3>5
  <2>2. QED
    BY <2>1
<1>6. device_widgets = DeviceIds
  BY <1>2, <1>5 DEF WidgetsDone, DeviceIds
<1>7. WidgetsDone'
  BY <1>1, <1>4, <1>6 DEF WidgetsDone, BeforeWidgets
<1>8. ThreadsDone'
  BY <1>1, <1>2, <1>4 DEF ThreadsDone, BeforeThreads, AfterThreads
<1>9. StartedFirst' /\ RecordsDone'
  BY <1>1, <1>2 DEF StartedFirst, RecordsDone
<1>10. "threads" \in {Stages[i] : i \in DOMAIN Stages}
  BY StageNamed DEF BeforeThreads
<1>11. StartTyped'
  BY <1>1, <1>2, <1>10 DEF StartTyped
<1>12. QED
  BY <1>3, <1>7, <1>8, <1>9, <1>11 DEF StartInv

\* Every enabled device gets its thread, or a window tells that it has none.
LEMMA ThreadsKeep ==
  ASSUME StartInv, CreateThreads
  PROVE  StartInv'
<1>1. /\ stage = "threads" /\ stage' = "dispatchers" /\ maps' = maps
      /\ lines' = lines /\ stations_ids' = stations_ids /\ stations' = stations
      /\ devices_id' = devices_id /\ devices' = devices /\ map_sections' = map_sections
      /\ current_line' = current_line /\ current_station' = current_station
      /\ buttons' = buttons /\ device_widgets' = device_widgets /\ lines_left' = lines_left
      /\ indicator' = indicator
      /\ routing_thread' = routing_thread /\ pulses' = pulses
      /\ persons' = persons /\ current_dispatcher' = current_dispatcher /\ records' = records
  BY StageOrder DEF CreateThreads, Goes, maps, shown, people
<1>2. StartTyped /\ MapInv /\ WidgetsDone /\ ThreadsDone /\ StartedFirst /\ RecordsDone
  BY DEF StartInv
<1>3. MapInv'
  BY <1>1, <1>2, MapStays
<1>4. Enabled' = Enabled /\ DeviceIds' = DeviceIds
  BY <1>1, SameMap
<1>5. device_widgets = DeviceIds /\ pulses = {}
  BY <1>1, <1>2 DEF WidgetsDone, ThreadsDone, BeforeThreads
<1>6. threads' \cup untold' = Enabled
  BY DEF CreateThreads, GetsThread, Enabled
<1>7. Enabled \subseteq DeviceIds /\ DeviceIds \subseteq Devices
  BY <1>2 DEF Enabled, DeviceIds, StartTyped
<1>8. WidgetsDone'
  BY <1>1, <1>4, <1>5 DEF WidgetsDone, BeforeWidgets
<1>9. ThreadsDone'
  BY <1>1, <1>4, <1>5, <1>6, <1>7 DEF ThreadsDone, BeforeThreads, BeforeWidgets
<1>10. StartedFirst' /\ RecordsDone'
  BY <1>1, <1>2 DEF StartedFirst, RecordsDone
<1>11. "dispatchers" \in {Stages[i] : i \in DOMAIN Stages}
  BY StageNamed DEF AfterThreads
<1>12. threads' \subseteq Devices /\ untold' \subseteq Devices
  BY <1>6, <1>7
<1>13. StartTyped'
  BY <1>1, <1>2, <1>11, <1>12 DEF StartTyped
<1>14. QED
  BY <1>3, <1>8, <1>9, <1>10, <1>13 DEF StartInv

\* The start begins with nothing.
LEMMA NothingStarted ==
  ASSUME StartInit
  PROVE  StartInv
<1>1. /\ stage = "globals" /\ buttons = {} /\ lines = {} /\ stations = {} /\ devices = {}
      /\ stations_ids = [l \in Lines |-> {}] /\ devices_id = [s \in Stations |-> <<>>]
      /\ current_line = None /\ current_station = Unset
      /\ device_widgets = {} /\ lines_left = {} /\ threads = {} /\ untold = {}
      /\ persons = {} /\ current_dispatcher = None
      /\ routing_thread = FALSE /\ pulses = {}
      /\ records = <<>> /\ indicator = "none" /\ map_sections = <<>>
  BY DEF StartInit
<1>2. /\ Len(<<>>) = 0 /\ DOMAIN <<>> = {} /\ <<>> \in Seq(MapSection)
      /\ <<>> \in Seq(Devices)
      /\ <<>> \in Seq([id : Nat, tells : {"former", "started", "device"}])
  OBVIOUS
<1>3. IsFiniteSet({}) /\ Cardinality({}) = 0
  BY FS_EmptySet
<1>4. ASSUME NEW kinds PROVE SaidOf(kinds) = {}
  BY <1>1, <1>2 DEF SaidOf
<1>5. \A s \in Stations : ListedIn(s) = {} /\ devices_id[s] = <<>>
  BY <1>1, <1>2 DEF ListedIn
<1>6. "globals" \in {Stages[i] : i \in DOMAIN Stages}
  BY StageNamed DEF BeforeThreads, BeforeWidgets
<1>7. StartTyped
  BY <1>1, <1>2, <1>6 DEF StartTyped
<1>8. MapOwnersRead /\ MapCurrentsSaid
  BY <1>1, <1>2 DEF MapOwnersRead, MapCurrentsSaid, MapCurrentIsLast
<1>9. MapConnected
  BY <1>1, <1>2, <1>3, <1>5 DEF MapConnected
<1>10. LinesAsSaid
  <2>1. ASSUME NEW l \in Lines PROVE StationsOfFile(l) = {}
    BY <1>4 DEF StationsOfFile
  <2>2. QED
    BY <1>1, <2>1 DEF LinesAsSaid
<1>11. DevicesAsSaid
  BY <1>1, <1>4 DEF DevicesAsSaid
<1>12. ListsAsSaid
  BY <1>1, <1>2, <1>3, <1>5 DEF ListsAsSaid
<1>13. MapInv
  BY <1>8, <1>9, <1>10, <1>11, <1>12, MapAsSaidParts DEF MapInv
<1>14. WidgetsDone /\ ThreadsDone
  BY <1>1 DEF WidgetsDone, ThreadsDone, AfterThreads
<1>15. StartedFirst /\ RecordsDone
  BY <1>1, <1>2 DEF StartedFirst, RecordsDone
<1>16. QED
  BY <1>7, <1>13, <1>14, <1>15 DEF StartInv

\* Each step of the start keeps its order.
LEMMA StartKeeps ==
  ASSUME StartInv, [StartNext]_start
  PROVE  StartInv'
<1>1. CASE UNCHANGED start
  <2>1. /\ stage' = stage /\ maps' = maps
        /\ buttons' = buttons /\ device_widgets' = device_widgets /\ lines_left' = lines_left
        /\ indicator' = indicator
        /\ threads' = threads /\ untold' = untold /\ routing_thread' = routing_thread
        /\ pulses' = pulses
        /\ persons' = persons /\ current_dispatcher' = current_dispatcher
        /\ records' = records
    BY <1>1 DEF start, shown, running, people
  <2>2. /\ buttons' \subseteq CommandButtons \cup LogButtons \cup OtherButtons
        /\ persons' \subseteq {1} /\ current_dispatcher' \in persons' \cup {None}
        /\ indicator' \in {"none", "red", "green"}
        /\ stage' = "main loop" => indicator' = "red"
    BY <2>1 DEF StartInv, StartTyped, ThreadsDone
  <2>3. routing_thread' \in BOOLEAN
    BY <2>1 DEF StartInv, StartTyped
  <2>4. StartedFirst' /\ RecordsDone'
    BY <2>1 DEF StartInv, StartedFirst, RecordsDone
  <2>5. QED
    BY <2>1, <2>2, <2>3, <2>4, MoveKeeps
<1>2. CASE StartFails
  BY <1>2, ExitKeeps DEF StartFails, Over
<1>3. ASSUME NEW s \in MapSection, ReadUnset(s)
      PROVE  StartInv'
  BY <1>3, ExitKeeps DEF ReadUnset
<1>4. ASSUME NEW l \in Lines, NotPlaced(l)
      PROVE  StartInv'
  BY <1>4, ExitKeeps DEF NotPlaced, Over
<1>5. QED
  BY <1>1, <1>2, <1>3, <1>4, StagesPass, PanelsKeep, PersonsKeep, LogKeeps, RoutingKeeps,
     FirstKeeps, PulsesKeep, MapReadKeeps, MapEndKeeps, LineKeeps, LinesEndKeeps, ThreadsKeep
     DEF StartNext

\* The invariant says what is asked of the start.
LEMMA StartInvSound ==
  ASSUME StartInv
  PROVE  StartSound
<1>1. StartTyped /\ MapAsSaid /\ StartedFirst
  BY DEF StartInv, MapInv
<1>2. WidgetsDone /\ ThreadsDone
  BY DEF StartInv
<1>3. stage = "main loop" => /\ threads \cup untold = Enabled /\ device_widgets = DeviceIds
                             /\ indicator = "red"
  BY <1>2 DEF WidgetsDone, ThreadsDone, AfterThreads
<1>4. threads \cup untold \cup pulses \subseteq Enabled \cap device_widgets
  BY <1>2 DEF ThreadsDone
<1>5. ThreadsSound
  BY <1>3, <1>4 DEF ThreadsSound, Enabled
<1>6. QED
  BY <1>1, <1>5 DEF StartSound

\* The map is what the configuration says, every device stands in the list of
\* one station, and when the main loop begins every enabled device has its
\* widget and its thread and the first record is told.
THEOREM StartInOrder == StartInit /\ [][StartNext]_start => []StartSound
<1>1. StartInit => StartInv
  BY NothingStarted
<1>2. StartInv /\ [StartNext]_start => StartInv'
  BY StartKeeps
<1>3. StartInv => StartSound
  BY StartInvSound
<1>4. QED
  BY <1>1, <1>2, <1>3, PTL

\* The two together, as the run follows one of them: whatever the files say
\* and however the steps come, the dictionaries and the start are sound.
THEOREM ReadAndStartedInOrder == MCSpec => []ReadAndStarted
<1>1. MCInit => TypesInv /\ StartInv
  BY NothingRead, NothingStarted DEF MCInit
<1>2. ASSUME TypesInv /\ StartInv, [MCNext]_<<vars, files, start, followed>>
      PROVE  TypesInv' /\ StartInv'
  <2>1. [TypesNext]_files /\ [StartNext]_start
    BY <1>2 DEF MCNext
  <2>2. QED
    BY <1>2, <2>1, ReadingKeeps, StartKeeps
<1>3. TypesInv /\ StartInv => ReadAndStarted
  BY StartInvSound DEF TypesInv, ReadAndStarted, DictionariesSound
<1>4. QED
  BY <1>1, <1>2, <1>3, PTL DEF MCSpec
=============================================================================
