-------------------------- MODULE MCComputePubsub ---------------------------
(* A shim for machines, networks or publish-subscribe. *)
EXTENDS Machines, Network, Pubsub, TLC

MCDeployments ==
    MachineServices \X {"inmem", "k8s", "gcp", "azure", "aws"}
    \cup {"network", "address", "firewall", "group"} \X {"inmem", "k8s", "gcp", "azure", "aws"}
    \cup {"pubsub"} \X {"inmem", "nats", "gcp", "azure", "aws"}
MCMatches == [dir : {"in", "out"}, proto : {"udp"}, from : {53}, to : {53}]
MCUdp(ports) == [proto |-> "udp", ports |-> ports]
MCTcp53 == [proto |-> "tcp", ports |-> <<<<53, 53>>>>]
MCAllowLists == {<<MCUdp(<<<<53, 53>>>>)>>, <<MCUdp(<<<<53, 53>>, <<54, 54>>>>), MCTcp53>>}
MCRangeLists == {<<>>, <<"any">>}
MCSymmetry == Permutations(Clients) \cup Permutations(Topics)

MCInit == ShimInit /\ MachinesInit /\ NetworkInit /\ PubsubInit
\* A service that was not started does not change.
MCNext ==
    \/ MachinesNext /\ UNCHANGED <<netVars, pubsubVars>>
    \/ NetworkNext /\ UNCHANGED <<machineVars, pubsubVars>>
    \/ PubsubNext /\ UNCHANGED <<machineVars, netVars>>
MCSpec == MCInit /\ [][MCNext]_<<shimVars, machineVars, netVars, pubsubVars>>
=============================================================================
