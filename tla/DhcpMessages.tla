---------------------------- MODULE DhcpMessages ----------------------------
(***************************************************************************)
(* The commands that the manager sends to the nodes, each by the set of    *)
(* its fields (pkg/proto/dhcp-agent).  A batch carries a list of the       *)
(* messages below.                                                         *)
(***************************************************************************)

\* What the messages of a subnet share in both families.
Network ==
    {"Id", "Subnet", "ValidLifetime", "MaxValidLifetime", "MinValidLifetime",
     "RenewTime", "RebindTime", "WhiteClientClassStrategy", "WhiteClientClasses",
     "BlackClientClassStrategy", "BlackClientClasses", "RelayAgentAddresses",
     "IfaceName", "SubnetOptions"}

CreateSubnet4Request ==
    Network \cup {"RelayAgentCircuitId", "RelayAgentRemoteId", "NextServer"}

DeleteSubnet4Request == {"Id"}

UpdateSubnet4Request == CreateSubnet4Request

CreateSubnet6Request ==
    Network \cup {"RelayAgentInterfaceId", "RapidCommit", "EmbedIpv4", "UseEui64",
                  "AddressCode", "PreferredLifetime", "MinPreferredLifetime",
                  "MaxPreferredLifetime"}

DeleteSubnet6Request == {"Id"}

UpdateSubnet6Request == CreateSubnet6Request

CreatePool4Request == {"SubnetId", "BeginAddress", "EndAddress"}
DeletePool4Request == CreatePool4Request
CreateReservedPool4Request == CreatePool4Request
DeleteReservedPool4Request == CreatePool4Request
CreatePool6Request == {"SubnetId", "BeginAddress", "EndAddress"}
DeletePool6Request == CreatePool6Request
CreateReservedPool6Request == CreatePool6Request
DeleteReservedPool6Request == CreatePool6Request

CreateReservation4Request == {"SubnetId", "HwAddress", "Hostname", "IpAddress"}
DeleteReservation4Request == CreateReservation4Request
CreateReservation6Request ==
    {"SubnetId", "HwAddress", "Duid", "Hostname", "IpAddresses", "Prefixes"}
DeleteReservation6Request == CreateReservation6Request

CreatePdPoolRequest == {"SubnetId", "Prefix", "PrefixLen", "DelegatedLen"}
DeletePdPoolRequest == CreatePdPoolRequest
CreateReservedPdPoolRequest == CreatePdPoolRequest
DeleteReservedPdPoolRequest == CreatePdPoolRequest

CreateSharedNetwork4Request == {"Name", "SubnetIds"}
DeleteSharedNetwork4Request == {"Name"}
UpdateSharedNetwork4Request == [Old |-> DeleteSharedNetwork4Request,
                                New |-> CreateSharedNetwork4Request]

CreateClientClass4Request == {"Name", "Code", "Regexp"}
DeleteClientClass4Request == {"Name"}
UpdateClientClass4Request == CreateClientClass4Request
CreateClientClass6Request == {"Name", "Code", "Regexp"}
DeleteClientClass6Request == {"Name"}
UpdateClientClass6Request == CreateClientClass6Request

CreateFingerprintRequest ==
    {"Fingerprint", "VendorId", "OperatingSystem", "ClientType", "MatchPattern"}
DeleteFingerprintRequest ==
    {"Fingerprint", "VendorId", "OperatingSystem", "ClientType"}
UpdateFingerprintRequest == [Old |-> DeleteFingerprintRequest,
                             New |-> CreateFingerprintRequest]

CreateOuiRequest == {"Oui", "Organization"}
DeleteOuiRequest == {"Oui"}
UpdateOuiRequest == CreateOuiRequest

CreateAdmitMacRequest == {"HwAddress", "IsAdmitted"}
DeleteAdmitMacRequest == {"HwAddress"}
UpdateAdmitMacRequest == CreateAdmitMacRequest
CreateAdmitDuidRequest == {"Duid", "IsAdmitted"}
DeleteAdmitDuidRequest == {"Duid"}
UpdateAdmitDuidRequest == CreateAdmitDuidRequest
CreateAdmitFingerprintRequest == {"ClientType", "IsAdmitted"}
DeleteAdmitFingerprintRequest == {"ClientType"}
UpdateAdmitFingerprintRequest == CreateAdmitFingerprintRequest

CreateRateLimitMacRequest == {"HwAddress", "Limit"}
DeleteRateLimitMacRequest == {"HwAddress"}
UpdateRateLimitMacRequest == CreateRateLimitMacRequest
CreateRateLimitDuidRequest == {"Duid", "Limit"}
DeleteRateLimitDuidRequest == {"Duid"}
UpdateRateLimitDuidRequest == CreateRateLimitDuidRequest

UpdateAdmitRequest == {"Enabled"}
UpdateRateLimitRequest == {"Enabled", "Limit"}
UpdatePingerRequest == {"Enabled", "Timeout"}

CreateAssetRequest ==
    {"HwAddress", "AssetType", "Manufacturer", "Model", "OperatingSystem",
     "AccessNetworkTime"}
DeleteAssetRequest == {"HwAddress"}
UpdateAssetRequest == CreateAssetRequest

=============================================================================
