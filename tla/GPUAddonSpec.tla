---------------------------- MODULE GPUAddonSpec ----------------------------
(***************************************************************************)
(* GPUAddonSpec.RDMA and what the RDMA reconcilers render from it.  The    *)
(* API types of gpuaddon_types.go are sets of records; json.Marshal of a   *)
(* rendered config is modelled by the record it encodes (the encoding is   *)
(* injective and cannot fail on these types, so equal records are equal   *)
(* strings and no error path is lost).                                     *)
(***************************************************************************)
EXTENDS Naturals, Sequences

CONSTANTS
    NoRdma,        \* GPUAddonSpec.RDMA == nil
    RdmaConfigs    \* the non-nil RDMASpec values a user may write

Selectors == [ifNames : Seq(STRING)]

DeviceSpec == [resourceName : STRING, selectors : Selectors]

IPAMSpec == [range : STRING, omitRanges : Seq(STRING)]

MacvlanNetworkSpec == [master : STRING, ipam : IPAMSpec]

RDMASpec == [devices : Seq(DeviceSpec), macvlanNetwork : MacvlanNetworkSpec]

ASSUME RdmaAssumption ==
    /\ RdmaConfigs \subseteq RDMASpec
    /\ NoRdma \notin RdmaConfigs

\* GPUAddonSpec.RDMA: nil or one of the configurations.
RdmaValues == RdmaConfigs \cup {NoRdma}

\* Mutant: the loop over the devices stops one short.
RdmaSharedDevicePluginConfigDropsLast(rdma) ==
    [configList |->
        [i \in 1..Len(rdma.devices) - 1 |->
            [resourceName |-> rdma.devices[i].resourceName,
             selectors    |-> [ifNames |-> rdma.devices[i].selectors.ifNames],
             rdmaHcaMax   |-> 1000]]]

\* getK8sRdmaSharedDevicePluginConfig: one UserConfig per device, in order,
\* with its resource name, its interface-name selectors and rdmaHcaMax 1000.
RdmaSharedDevicePluginConfig(rdma) ==
    [configList |->
        [i \in DOMAIN rdma.devices |->
            [resourceName |-> rdma.devices[i].resourceName,
             selectors    |-> [ifNames |-> rdma.devices[i].selectors.ifNames],
             rdmaHcaMax   |-> 1000]]]

\* getMacvlanNetworkIPAMConfig: a whereabouts IPAM config with the range and
\* the excluded ranges of the RDMA macvlan network.
MacvlanNetworkIPAMConfig(rdma) ==
    [type       |-> "whereabouts",
     range      |-> rdma.macvlanNetwork.ipam.range,
     omitRanges |-> rdma.macvlanNetwork.ipam.omitRanges]

\* The shapes of the two rendered configs.
UserConfig == [resourceName : STRING, selectors : Selectors, rdmaHcaMax : Nat]

UserConfigList == [configList : Seq(UserConfig)]

\* The IPAM type is the literal the code writes.
IPAMConfig == [type : {"whereabouts"}, range : STRING, omitRanges : Seq(STRING)]

=============================================================================
