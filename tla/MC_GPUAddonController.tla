------------------------ MODULE MC_GPUAddonController ------------------------
(***************************************************************************)
(* The GPUAddon controller on a small instance: two RDMA configurations    *)
(* and two valid parameter values, so that a stale object is told apart   *)
(* from an up-to-date one, the five reconcilers in a dependency-respecting *)
(* order (the network operator's subscription before the NicClusterPolicy *)
(* and MacvlanNetwork custom resources it serves), two faults and two user *)
(* edits.                                                                  *)
(***************************************************************************)
EXTENDS GPUAddonController

\* Two RDMA configurations that differ in every field the rendered specs
\* carry: the device list, the IPAM range and exclusions, and the master
\* interface (the second names another port than the hard-coded one).
MCRdma1 ==
    [devices |-> << [resourceName |-> "rdma_shared_a",
                     selectors    |-> [ifNames |-> <<"ens2f0np0">>]] >>,
     macvlanNetwork |-> [master |-> "ens2f0np0",
                         ipam   |-> [range |-> "192.168.2.0/24", omitRanges |-> << >>]]]

MCRdma2 ==
    [devices |-> << [resourceName |-> "rdma_shared_a",
                     selectors    |-> [ifNames |-> <<"ens2f0np0">>]],
                    [resourceName |-> "rdma_shared_b",
                     selectors    |-> [ifNames |-> <<"ens3f0np0">>]] >>,
     macvlanNetwork |-> [master |-> "ens3f0np0",
                         ipam   |-> [range |-> "192.168.3.0/24",
                                     omitRanges |-> <<"192.168.3.0/30">>]]]

MCRdmaConfigs == {MCRdma1, MCRdma2}

\* One configuration, for the runs whose traces need no edit of it.
MCRdmaConfigs1 == {MCRdma2}

MCOrder == <<"NGCSecret", "ClusterPolicy", "NetworkOperator",
             "NicClusterPolicy", "MacvlanNetwork">>

=============================================================================
