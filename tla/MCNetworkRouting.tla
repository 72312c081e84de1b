--------------------------- MODULE MCNetworkRouting ---------------------------
(* Instances of NetworkRouting for TLC: three policies, one of them not      *)
(* well-formed, and three states of Android's networks.                       *)
EXTENDS NetworkRouting

CONSTANTS iface1, iface2

Cidr(a, b, p) == [network |-> Octets(a, b), prefix |-> p]
PolicyFor(target, cidr) ==
  [target |-> target, lan |-> {cidr}, probes |-> {cidr.network}, timeout |-> 10]

MCPolicies ==
  {PolicyFor("carrier", Cidr(192, 168, 16)), PolicyFor("default", Cidr(10, 0, 8)),
   PolicyFor("wifi", Cidr(192, 169, 16))}

MCCalm == [wifi |-> TRUE, carrier |-> iface1, ipv6 |-> {"wifi"}, vpn |-> FALSE,
           data |-> TRUE, telecom |-> TRUE, management |-> "usb", default |-> "wifi"]
MCNetworks ==
  {MCCalm,
   [MCCalm EXCEPT !.carrier = iface2, !.ipv6 = {"carrier"}, !.telecom = FALSE],
   [MCCalm EXCEPT !.wifi = FALSE, !.default = "carrier"]}
=============================================================================
