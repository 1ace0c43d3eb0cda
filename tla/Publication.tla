----------------------------- MODULE Publication -----------------------------
(***************************************************************************)
(* The way of a service instance to Envoy: the worker renders its          *)
(* resources into the bucket (services/osb/osb/sovereign_yaml.py), the     *)
(* context plugin reads the bucket, Sovereign's templates put the clusters *)
(* and listeners of all artifacts together, and Envoy subscribes to both   *)
(* (cds_config, lds_config of envoy/bootstrap.yaml.tmpl) and to no routes. *)
(* How the parts fail is in OsbInstances and ContextPlugin; here nothing   *)
(* does.  A name is a sequence: f"{name}-route" appends to it.             *)
(***************************************************************************)
EXTENDS Sequences

CONSTANTS Instances, Ports, NoArtifact

VARIABLES rows,         \* state of the instances table
          bucket,       \* artifacts
          context,      \* artifacts in the context of the templates
          clusters,     \* Envoy's clusters beside the static ones
          listeners     \* Envoy's listeners

vars == <<rows, bucket, context, clusters, listeners>>

------------------------------------------------------------------------------
(* What is rendered.  The upstream of an instance is known by it. *)

Static == {<<"sovereign">>, <<"otel-collector">>}

ClusterName(i) == <<i, "cluster">>
RouteName(i) == <<i, "route">>

Cluster(i) == [name |-> ClusterName(i), upstream |-> i]
Route(i) == [name |-> RouteName(i), cluster |-> ClusterName(i)]

(* _http_connection_manager: the filters a request does not pass without   *)
(* an answer (ext_authz has failure_mode_allow False, ratelimit and the    *)
(* access log let it pass), and the inline route, which names its cluster  *)
(* after the route.                                                        *)
ConnectionManager(route) == [required |-> {<<"auth-sidecar">>},
                             cluster |-> Append(route, "cluster")]

Listener(i, port) == [name |-> <<i, "listener">>, port |-> port,
                      manager |-> ConnectionManager(RouteName(i))]

Rendered(i, port) == [clusters |-> {Cluster(i)}, routes |-> {Route(i)},
                      listeners |-> {Listener(i, port)}]

------------------------------------------------------------------------------

Init ==
    /\ rows = [i \in Instances |-> "none"]
    /\ bucket = [i \in Instances |-> NoArtifact]
    /\ context = bucket
    /\ clusters = {} /\ listeners = {}

(* provision_instance and deprovision_instance *)
Accept(i) ==
    /\ \/ rows[i] = "none" /\ rows' = [rows EXCEPT ![i] = "provisioning"]
       \/ rows[i] = "available" /\ rows' = [rows EXCEPT ![i] = "deprovisioning"]
    /\ UNCHANGED <<bucket, context, clusters, listeners>>

(* _provision: the artifact, then the row. *)
Write(i) ==
    /\ rows[i] = "provisioning" /\ bucket[i] = NoArtifact
    /\ \E port \in Ports : bucket' = [bucket EXCEPT ![i] = Rendered(i, port)]
    /\ UNCHANGED <<rows, context, clusters, listeners>>

Record(i) ==
    /\ rows[i] = "provisioning" /\ bucket[i] # NoArtifact
    /\ rows' = [rows EXCEPT ![i] = "available"]
    /\ UNCHANGED <<bucket, context, clusters, listeners>>

(* _deprovision: likewise. *)
Erase(i) ==
    /\ rows[i] = "deprovisioning" /\ bucket[i] # NoArtifact
    /\ bucket' = [bucket EXCEPT ![i] = NoArtifact]
    /\ UNCHANGED <<rows, context, clusters, listeners>>

Remove(i) ==
    /\ rows[i] = "deprovisioning" /\ bucket[i] = NoArtifact
    /\ rows' = [rows EXCEPT ![i] = "none"]
    /\ UNCHANGED <<bucket, context, clusters, listeners>>

(* A refreshed context has of every artifact what was there lately: that   *)
(* is ContextPlugin's RefreshIsRegular.                                    *)
Refresh(i) ==
    /\ context' = [context EXCEPT ![i] = bucket[i]]
    /\ UNCHANGED <<rows, bucket, clusters, listeners>>

(* clusters.yaml.j2, listeners.yaml.j2 *)
Artifacts == {context[i] : i \in Instances} \ {NoArtifact}

TakeClusters ==
    /\ clusters' = UNION {a.clusters : a \in Artifacts}
    /\ UNCHANGED <<rows, bucket, context, listeners>>

(* Envoy takes the listeners it can: those it has, and others on ports     *)
(* that are free.                                                          *)
TakeListeners ==
    LET offered == UNION {a.listeners : a \in Artifacts}
        Fits(taken) == \A x, y \in taken : x.port = y.port => x = y
    IN /\ \E taken \in SUBSET offered :
             /\ listeners \cap offered \subseteq taken
             /\ Fits(taken)
             /\ \A l \in offered \ taken : ~Fits(taken \cup {l})
             /\ listeners' = taken
       /\ UNCHANGED <<rows, bucket, context, clusters>>

Work(i) == Write(i) \/ Record(i) \/ Erase(i) \/ Remove(i)

Next == \/ \E i \in Instances : Accept(i) \/ Work(i) \/ Refresh(i)
        \/ TakeClusters \/ TakeListeners

(* The worker, the plugin and the subscriptions of Envoy run on. *)
Fairness == /\ \A i \in Instances : WF_vars(Work(i)) /\ WF_vars(Refresh(i))
            /\ WF_vars(TakeClusters) /\ WF_vars(TakeListeners)

FairSpec == Init /\ [][Next]_vars /\ Fairness

------------------------------------------------------------------------------

(* A request on a listener gets through its filters to an upstream if      *)
(* Envoy knows the clusters of the services they need and of the route.    *)
Known == Static \cup {c.name : c \in clusters}
Routed(i) ==
    \E l \in listeners :
        /\ l.name = <<i, "listener">>
        /\ l.manager.required \subseteq Known
        /\ \E c \in clusters : c.name = l.manager.cluster /\ c.upstream = i

(* No other artifact asks for the port of this one: else only one of the   *)
(* listeners is taken, as the default 10000 of listen_port makes likely.   *)
Alone(i) ==
    \A j \in Instances \ {i} :
        bucket[i] # NoArtifact /\ bucket[j] # NoArtifact =>
            \A x \in bucket[i].listeners, y \in bucket[j].listeners : x.port # y.port

(* "The next request [...] hit the freshly added listener, was authorized  *)
(* by the auth sidecar, ratelimited by Steward, [...] then routed to the   *)
(* backend" (README.md:628): sooner or later, requests to an instance that *)
(* stays available, on a port of its own, reach its upstream               *)
(* (sovereign_yaml.py:149-224).                                            *)
Offered(i) == rows[i] = "available" /\ Alone(i)
AvailableIsRouted ==
    \A i \in Instances : Offered(i) ~> (Routed(i) \/ ~Offered(i))
==============================================================================
