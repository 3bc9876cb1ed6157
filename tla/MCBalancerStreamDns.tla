------------------------ MODULE MCBalancerStreamDns -------------------------
(* A shim for load balancers, event streams or zones. *)
EXTENDS LoadBalancer, EventStream, Dns, TLC

MCDeployments ==
    BalancerServices \X {"inmem", "k8s", "aws"}
    \cup {"eventstream"} \X {"inmem", "strimzi"}
    \cup {"dns"} \X {"inmem", "coredns", "gcp", "azure", "aws"}
MCSymmetry == Permutations(Clients) \cup Permutations(StreamTopics)

MCInit == ShimInit /\ BalancerInit /\ StreamInit /\ DnsInit
\* A service that was not started does not change.
MCNext ==
    \/ BalancerNext /\ UNCHANGED <<streamVars, dnsVars>>
    \/ StreamNext /\ UNCHANGED <<lbVars, dnsVars>>
    \/ DnsNext /\ UNCHANGED <<lbVars, streamVars>>
MCSpec == MCInit /\ [][MCNext]_<<shimVars, lbVars, streamVars, dnsVars>>
=============================================================================
