-------------------------- MODULE PublicationProofs --------------------------
(***************************************************************************)
(* What no interleaving of Publication can bring about, for any set of     *)
(* instances and of ports: a request that gets to its upstream.  Two names *)
(* in what the renderer writes stand in the way, each of them alone.       *)
(***************************************************************************)
EXTENDS Publication, TLAPS

(* The artifacts of an instance, in the bucket or as the context has them. *)
OfInstance(i, a) == a = NoArtifact \/ \E port \in Ports : a = Rendered(i, port)

RenderedInv ==
    /\ DOMAIN bucket = Instances /\ DOMAIN context = Instances
    /\ \A i \in Instances : OfInstance(i, bucket[i]) /\ OfInstance(i, context[i])
    /\ clusters \subseteq {Cluster(i) : i \in Instances}
    /\ listeners \subseteq {Listener(i, port) : i \in Instances, port \in Ports}

(* What the templates put together is what the renderer wrote. *)
LEMMA Templates ==
    ASSUME RenderedInv, NEW a \in Artifacts
    PROVE  /\ a.clusters \subseteq {Cluster(i) : i \in Instances}
           /\ a.listeners \subseteq {Listener(i, port) : i \in Instances, port \in Ports}
  <1>1. PICK i \in Instances : a = context[i] /\ a # NoArtifact
    BY DEF Artifacts
  <1>2. PICK port \in Ports : a = Rendered(i, port)
    BY <1>1 DEF RenderedInv, OfInstance
  <1>3. a.clusters = {Cluster(i)} /\ a.listeners = {Listener(i, port)}
    BY <1>2 DEF Rendered
  <1> QED BY <1>3

LEMMA RenderedInductive == FairSpec => []RenderedInv
  <1>1. Init => RenderedInv
    BY DEF Init, RenderedInv, OfInstance
  <1>2. RenderedInv /\ [Next]_vars => RenderedInv'
    <2> SUFFICES ASSUME RenderedInv, [Next]_vars PROVE RenderedInv'
      OBVIOUS
    <2>1. CASE UNCHANGED vars
      BY <2>1 DEF vars, RenderedInv, OfInstance
    <2>2. ASSUME NEW i \in Instances, Accept(i) \/ Record(i) \/ Remove(i) PROVE RenderedInv'
      BY <2>2 DEF Accept, Record, Remove, RenderedInv, OfInstance
    <2>3. ASSUME NEW i \in Instances, Write(i) \/ Erase(i) PROVE RenderedInv'
      BY <2>3 DEF Write, Erase, RenderedInv, OfInstance
    <2>4. ASSUME NEW i \in Instances, Refresh(i) PROVE RenderedInv'
      BY <2>4 DEF Refresh, RenderedInv, OfInstance
    <2>5. CASE TakeClusters
      BY <2>5, Templates DEF TakeClusters, RenderedInv, OfInstance
    <2>6. CASE TakeListeners
      <3>1. listeners' \subseteq UNION {a.listeners : a \in Artifacts}
        BY <2>6 DEF TakeListeners
      <3> QED BY <2>6, <3>1, Templates DEF TakeListeners, RenderedInv, OfInstance
    <2> QED BY <2>1, <2>2, <2>3, <2>4, <2>5, <2>6 DEF Next, Work
  <1> QED BY <1>1, <1>2, PTL DEF FairSpec

(* The filters of a listener need a service that Envoy has no cluster of.  *)
LEMMA ServiceUnknown ==
    ASSUME RenderedInv, NEW l \in listeners
    PROVE  ~(l.manager.required \subseteq Known)
  <1>1. <<"auth-sidecar">> \in l.manager.required
    BY DEF RenderedInv, Listener, ConnectionManager
  <1>2. ASSUME NEW c \in clusters PROVE c.name # <<"auth-sidecar">>
    <2>1. PICK i \in Instances : c.name = <<i, "cluster">>
      BY DEF RenderedInv, Cluster, ClusterName
    <2>2. Len(c.name) = 2
      BY <2>1
    <2>3. Len(<<"auth-sidecar">>) = 1
      OBVIOUS
    <2> QED BY <2>2, <2>3
  <1>3. <<"auth-sidecar">> \notin Static
    BY DEF Static
  <1> QED BY <1>1, <1>2, <1>3 DEF Known

(* Its inline route names a cluster that no artifact has.                  *)
LEMMA RouteDangles ==
    ASSUME RenderedInv, NEW l \in listeners, NEW c \in clusters
    PROVE  c.name # l.manager.cluster
  <1>1. PICK i \in Instances, port \in Ports : l = Listener(i, port)
    BY DEF RenderedInv
  <1>2. l.manager.cluster = <<i, "route", "cluster">>
    BY <1>1 DEF Listener, ConnectionManager, RouteName
  <1>3. PICK j \in Instances : c.name = <<j, "cluster">>
    BY DEF RenderedInv, Cluster, ClusterName
  <1> QED BY <1>2, <1>3

(* Of the two names a listener depends on neither ever resolves: its       *)
(* filters need the auth-sidecar and its route leads to a cluster, and     *)
(* Envoy knows neither (sovereign_yaml.py:149-224).                        *)
NeitherResolves ==
    \A l \in listeners : /\ ~(l.manager.required \subseteq Known)
                         /\ \A c \in clusters : c.name # l.manager.cluster

THEOREM ListenersResolveNothing == FairSpec => []NeitherResolves
  <1>1. RenderedInv => NeitherResolves
    BY ServiceUnknown, RouteDangles DEF NeitherResolves
  <1> QED BY <1>1, RenderedInductive, PTL

(* Whatever is provisioned, and in whatever order Sovereign and Envoy take *)
(* it up, no request reaches the upstream of an instance: that the run of  *)
(* AvailableIsRouted finds none routed is no matter of its bounds.         *)
NothingRouted == \A i \in Instances : ~Routed(i)

THEOREM NothingIsRouted == FairSpec => []NothingRouted
  <1>1. NeitherResolves => NothingRouted
    BY DEF NeitherResolves, NothingRouted, Routed
  <1> QED BY <1>1, ListenersResolveNothing, PTL
==============================================================================
