----------------------------- MODULE MC_Scanner -----------------------------
(* A small cluster for TLC: three namespaces, one skipped; pods, deployments *)
(* and a cluster-scoped type; one policy of each selector kind.  r5 is of *)
(* a type a policy binds in its namespace, but no selector matches it.     *)
EXTENDS Scanner, TLC

CONSTANTS n1, n2, n3, cluster, pods, deploys, nodes, r1, r2, r3, r4, r5,
          la, lb, p1, p2, p3, p4

MCNamespaces == {n1, n2, n3}
MCAuditedNs == {n1, n2}
MCGVRs == {pods, deploys, nodes}
MCResources == {r1, r2, r3, r4, r5}
MCNsOf == (r1 :> n1 @@ r2 :> n2 @@ r3 :> n1 @@ r4 :> cluster @@ r5 :> n2)
MCGvrOf == (r1 :> pods @@ r2 :> pods @@ r3 :> deploys @@ r4 :> nodes
            @@ r5 :> deploys)
MCLabelPairs == {la, lb}
MCLabels == (r1 :> {la} @@ r2 :> {} @@ r3 :> {la, lb} @@ r4 :> {lb}
             @@ r5 :> {lb})
MCPolicies == {p1, p2, p3, p4}
\* p1 has no selector, p2 selects la, p3's selector does not compile,
\* p4 is a cluster policy selecting lb.
MCPolicyGvrs == (p1 :> {pods} @@ p2 :> {pods, deploys} @@ p3 :> {deploys}
                 @@ p4 :> {nodes})
MCApplies == (p1 :> {n1, n2, n3} @@ p2 :> {n1, n2} @@ p3 :> {n1, cluster}
              @@ p4 :> {cluster})
MCSelector(nil, bad) == (p1 :> nil @@ p2 :> {la} @@ p3 :> bad @@ p4 :> {lb})
MCSelectorFn == MCSelector(NilSelector, BadSelector)
=============================================================================
