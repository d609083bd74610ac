------------------------------ MODULE Failover ------------------------------
(***************************************************************************)
(* The routing threads. The spider and the gateway of the station each     *)
(* keep a route to the other's network, over one of the same gateways of   *)
(* the metro's network, and each looks for a gateway that works: it sends  *)
(* an echo to its test hosts and, when none answers, tries the gateways    *)
(* from the first one. An echo goes out over the route of one end and      *)
(* comes back over the route of the other, so each end's search is seen by *)
(* the other as an outage.                                                 *)
(***************************************************************************)
EXTENDS Integers, FiniteSets

CONSTANTS Gateways,   \* the gateways, in the order of the configuration
          TestHosts,  \* the number of test hosts of each end
          MaxOutages  \* bound: changes of the network in a behaviour

Ends == {"spider", "station"}
Peer(e) == IF e = "spider" THEN "station" ELSE "spider"

ASSUME GatewaysAssumption == Gateways \in Nat /\ Gateways >= 2
ASSUME HostsAssumption == TestHosts \in [Ends -> Nat \ {0}]
ASSUME OutagesAssumption == MaxOutages \in Nat

(* The configurations kept beside the programs: routing.ini, with one test *)
(* host, and modbus_srv.conf, with two.                                    *)
ConfiguredHosts == [e \in Ends |-> IF e = "spider" THEN 1 ELSE 2]

Gateway == 1 .. Gateways
Host(e) == 1 .. TestHosts[e]

VARIABLES
  up,          \* the gateways that pass packets
  answering,   \* the test hosts of each end that are switched on
  outages,     \* changes of the network so far
  route,       \* the gateway of each end's route
  pc,          \* where each routing thread stands
  gateways_iter, test_hosts_iter,   \* its loops
  rested,      \* has the spider ended a pass while the station sleeps?
  missed       \* history: the test hosts out of reach at some moment since
               \* the end woke or last set its route

net  == <<up, answering, outages>>
vars == <<net, route, pc, gateways_iter, test_hosts_iter, rested, missed>>

Where == {"off", "asleep", "test", "change", "retest", "ended"}
Runs(e) == pc[e] \notin {"off", "ended"}
-----------------------------------------------------------------------------
(* The round trip of an echo.                                              *)
Reaches(e, h) == h \in answering[e] /\ {route["spider"], route["station"]} \subseteq up

Missed(e) == {h \in Host(e) : ~Reaches(e, h)}

(* The history: who wakes or sets his route begins anew.                   *)
Watch(renewed) ==
  missed' = [e \in Ends |-> IF e \in renewed THEN Missed(e)'
                            ELSE missed[e] \union Missed(e)']

(* Routing may be disabled, have fewer than two gateways or no route: the  *)
(* thread does not run, and the route stays as the system has it.          *)
Init ==
  /\ up = Gateway /\ answering = [e \in Ends |-> Host(e)] /\ outages = 0
  /\ route \in [Ends -> Gateway]
  /\ pc \in [Ends -> {"off", "asleep"}]
  /\ gateways_iter = [e \in Ends |-> 1] /\ test_hosts_iter = [e \in Ends |-> 1]
  /\ rested = FALSE
  /\ missed = [e \in Ends |-> {}]

(* The end falls asleep before the next pass.                              *)
Sleeps(e) ==
  /\ pc' = [pc EXCEPT ![e] = "asleep"]
  /\ rested' = (e = "spider")

First == 1

(* sleep(5) of the spider, sleep(20) of the station: with one test host    *)
(* and two gateways a pass of the spider that fails takes 5 + 4 * 3        *)
(* seconds, so that one ends while the station sleeps.                     *)
Wake(e) ==
  /\ pc[e] = "asleep"
  /\ (e = "station" /\ Runs("spider")) => rested
  /\ pc' = [pc EXCEPT ![e] = "test"]
  /\ gateways_iter' = [gateways_iter EXCEPT ![e] = First]
  /\ test_hosts_iter' = [test_hosts_iter EXCEPT ![e] = 1]
  /\ UNCHANGED <<net, route, rested>>
  /\ Watch({e})

(* Mutant: only the first test host is asked. *)
LastHostFirst(e) == TRUE

LastHost(e) == test_hosts_iter[e] = TestHosts[e]

(* The first host that answers ends the pass.                              *)
Answered(e) ==
  /\ pc[e] \in {"test", "retest"}
  /\ Reaches(e, test_hosts_iter[e])
  /\ Sleeps(e)
  /\ UNCHANGED <<net, route, gateways_iter, test_hosts_iter>>
  /\ Watch({})

NextHost(e) ==
  /\ pc[e] \in {"test", "retest"}
  /\ ~Reaches(e, test_hosts_iter[e])
  /\ ~LastHost(e)
  /\ test_hosts_iter' = [test_hosts_iter EXCEPT ![e] = @ + 1]
  /\ UNCHANGED <<net, route, pc, gateways_iter, rested>>
  /\ Watch({})

(* No host answered over the route as it was.                              *)
NoneAnswered(e) ==
  /\ pc[e] = "test"
  /\ ~Reaches(e, test_hosts_iter[e])
  /\ LastHost(e)
  /\ pc' = [pc EXCEPT ![e] = "change"]
  /\ UNCHANGED <<net, route, gateways_iter, test_hosts_iter, rested>>
  /\ Watch({})

(* Mutant: the gateway after the one that failed is never reached. *)
TargetFirst(e) == 1

Target(e) == gateways_iter[e]

(* change_route: add the route, or change the one there is.                *)
ChangeRoute(e) ==
  /\ pc[e] = "change"
  /\ route' = [route EXCEPT ![e] = Target(e)]
  /\ pc' = [pc EXCEPT ![e] = "retest"]
  /\ test_hosts_iter' = [test_hosts_iter EXCEPT ![e] = 1]
  /\ UNCHANGED <<net, gateways_iter, rested>>
  /\ Watch({e})

(* Any other error of the routing socket ends the thread for good.         *)
ChangeFails(e) ==
  /\ pc[e] = "change"
  /\ pc' = [pc EXCEPT ![e] = "ended"]
  /\ UNCHANGED <<net, route, gateways_iter, test_hosts_iter, rested>>
  /\ Watch({})

(* No host answers over the new gateway: on to the next one, whose turn    *)
(* begins with a test of the one just set.                                 *)
NextGateway(e) ==
  /\ pc[e] = "retest"
  /\ ~Reaches(e, test_hosts_iter[e])
  /\ LastHost(e)
  /\ IF gateways_iter[e] = Gateways
     THEN Sleeps(e) /\ UNCHANGED <<gateways_iter, test_hosts_iter>>
     ELSE /\ gateways_iter' = [gateways_iter EXCEPT ![e] = @ + 1]
          /\ test_hosts_iter' = [test_hosts_iter EXCEPT ![e] = 1]
          /\ pc' = [pc EXCEPT ![e] = "test"]
          /\ UNCHANGED rested
  /\ UNCHANGED <<net, route>>
  /\ Watch({})

Step(e) == \/ Wake(e) \/ Answered(e) \/ NextHost(e) \/ NoneAnswered(e)
           \/ ChangeRoute(e) \/ NextGateway(e)

(* A gateway or a test host fails or works again.                          *)
Toggle(S, x) == IF x \in S THEN S \ {x} ELSE S \union {x}

NetworkChanges ==
  /\ outages < MaxOutages /\ outages' = outages + 1
  /\ \/ \E g \in Gateway : up' = Toggle(up, g) /\ UNCHANGED answering
     \/ \E e \in Ends : \E h \in Host(e) :
          /\ answering' = [answering EXCEPT ![e] = Toggle(@, h)]
          /\ UNCHANGED up
  /\ UNCHANGED <<route, pc, gateways_iter, test_hosts_iter, rested>>
  /\ Watch({})

Next == NetworkChanges \/ \E e \in Ends : Step(e) \/ ChangeFails(e)

Spec == Init /\ [][Next]_vars
             /\ \A e \in Ends : WF_vars(Step(e))
-----------------------------------------------------------------------------
TypeOK ==
  /\ up \subseteq Gateway /\ outages \in 0 .. MaxOutages
  /\ answering \in [Ends -> SUBSET UNION {Host(e) : e \in Ends}]
  /\ route \in [Ends -> Gateway]
  /\ pc \in [Ends -> Where]
  /\ gateways_iter \in [Ends -> Gateway]
  /\ \A e \in Ends : test_hosts_iter[e] \in Host(e)
  /\ rested \in BOOLEAN
  /\ \A e \in Ends : missed[e] \subseteq Host(e)

(* A route is given up only for cause: each of the end's test hosts was    *)
(* out of reach at some moment of the pass since the route last changed,   *)
(* however the outages and the other end's search fall between the tests.  *)
ChangedForCause ==
  [][\A e \in Ends : route'[e] # route[e] => missed[e] = Host(e)]_vars

(* The last gateway is where the search rests: when it alone stays up, and *)
(* the hosts do, both ends come to it and stay, though each end's search   *)
(* looks like an outage to the other.                                      *)
OnlyLast == up = {Gateways} /\ \A e \in Ends : answering[e] = Host(e)
Connected == \A e \in Ends : route[e] \in up

RestsOnLast ==
  ((\A e \in Ends : [](Runs(e))) /\ <>[]OnlyLast) => <>[]Connected

(* With the other end's route fixed and in order, the search finds any     *)
(* gateway that stays up, the first or the last.                           *)
SteadyFor(e) == /\ pc[Peer(e)] \in {"off", "ended"} /\ route[Peer(e)] \in up
                /\ answering[e] # {}

FindsAny ==
  \A e \in Ends :
    \A g \in Gateway :
      ([](Runs(e)) /\ <>[](SteadyFor(e) /\ g \in up)) => <>[](route[e] \in up)

(* Both hold of every search that goes on.                                 *)
SearchEnds == RestsOnLast /\ FindsAny

(* Within the types, no route is given up without cause.                   *)
SearchSound == []TypeOK /\ ChangedForCause
=============================================================================
