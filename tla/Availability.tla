---------------------------- MODULE Availability ----------------------------
(***************************************************************************)
(* How the work applier tells whether an object it has applied to the      *)
(* member cluster is available there, from what the object reports.        *)
(*                                                                         *)
(* An object is a record with resource (its type), generation and the      *)
(* fields of its kind; replicas is Unset when the field is left out.  A    *)
(* bundle is what the applier knows of one manifest: applied (its apply    *)
(* operation went through), readable (the object converts to its type) and *)
(* object.                                                                 *)
(***************************************************************************)
EXTENDS Integers

Unset == -1

\* The types of objects that are available as soon as they exist.
DataResources ==
    {"namespaces", "secrets", "configmaps", "roles", "clusterroles", "rolebindings",
     "clusterrolebindings", "serviceaccounts", "networkpolicies", "csidrivers", "csinodes",
     "storageclasses", "csistoragecapacities", "controllerrevisions", "ingressclasses",
     "limitranges", "resourcequotas", "priorityclasses"}

Ready(condition) == IF condition THEN "Available" ELSE "NotYetAvailable"

\* Both kinds of workloads run one replica by default.
Required(o) == IF o.replicas = Unset THEN 1 ELSE o.replicas

trackDeploymentAvailability(o) ==
    Ready(/\ o.observed = o.generation
          /\ o.available = Required(o)
          /\ o.updated = Required(o)
          /\ o.unavailable = 0)

trackStatefulSetAvailability(o) ==
    Ready(/\ o.observed = o.generation
          /\ o.available = Required(o)
          /\ o.current = o.updated
          /\ o.currentRevision = o.updateRevision)

trackDaemonSetAvailability(o) ==
    Ready(/\ o.observed = o.generation
          /\ o.available = o.desired
          /\ o.current = o.updated)

\* An address is assigned: the first cluster IP, or the first ingress point
\* with an IP or a host name.  Nothing is known of external names.
trackServiceAvailability(o) ==
    CASE o.type \in {"", "ClusterIP", "NodePort"} -> Ready(o.clusterIP)
      [] o.type = "LoadBalancer" -> Ready(o.ingressIP \/ o.ingressHost)
      [] OTHER -> "NotTrackable"

trackCRDAvailability(o) == Ready(o.established /\ o.namesAccepted)

\* ConditionsAreUpToDate: the condition of disruptions belongs to this
\* generation and agrees with the number of disruptions allowed.
ConditionsAreUpToDate(o) ==
    /\ o.observed = o.generation
    /\ o.condition # "missing"
    /\ o.conditionGeneration = o.observed
    /\ (o.condition = "True") = (o.allowed > 0)

trackPDBAvailability(o) == Ready(ConditionsAreUpToDate(o))

ByGVR(o) ==
    CASE o.resource = "deployments" -> trackDeploymentAvailability(o)
      [] o.resource = "statefulsets" -> trackStatefulSetAvailability(o)
      [] o.resource = "daemonsets" -> trackDaemonSetAvailability(o)
      [] o.resource = "services" -> trackServiceAvailability(o)
      [] o.resource = "customresourcedefinitions" -> trackCRDAvailability(o)
      [] o.resource = "poddisruptionbudgets" -> trackPDBAvailability(o)
      [] o.resource \in DataResources -> "Available"
      [] OTHER -> "NotTrackable"

IsTracked(o) ==
    o.resource \in {"deployments", "statefulsets", "daemonsets", "services",
                    "customresourcedefinitions", "poddisruptionbudgets"}

\* trackInMemberClusterObjAvailability, for one bundle.  An object is only
\* converted to the type whose fields are looked at.
Track(bundle) ==
    CASE ~bundle.applied -> "Skipped"
      [] bundle.applied /\ IsTracked(bundle.object) /\ ~bundle.readable -> "Failed"
      [] OTHER -> ByGVR(bundle.object)
=============================================================================
