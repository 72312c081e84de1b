---------------------------- MODULE NetworkPolicy ----------------------------
(***************************************************************************)
(* The policy of a routing request as parseNetworkRoutingPolicy accepts    *)
(* it, mobile/src/network-routing.ts.  An IPv4 address is given by its two *)
(* leading octets, one number below 2^16: the private blocks and every     *)
(* block that could reach beyond them are decided there.  A CIDR is a      *)
(* record [network, prefix]; the probes of a policy are addresses.         *)
(***************************************************************************)
EXTENDS Integers, FiniteSets

Bits == 16
Octets(a, b) == a * 256 + b
MaxItems == 16                 \* items lanCidrs and lanProbeUrls may hold
TimeoutRange == 3..30          \* probeTimeoutMs, in seconds

\* (address & mask) >>> 0
Masked(address, prefix) ==
  LET size == 2 ^ (Bits - prefix) IN (address \div size) * size

InPrivateRange(network) ==
  \/ network \in Octets(10, 0)..Octets(10, 255)
  \/ network \in Octets(172, 16)..Octets(172, 31)
  \/ network = Octets(192, 168)

NormalizesPrivate(cidr) ==
  /\ cidr.prefix \in 1..Bits
  /\ Masked(cidr.network, cidr.prefix) = cidr.network
  /\ InPrivateRange(cidr.network)

InCidr(address, cidr) == Masked(address, cidr.prefix) = cidr.network
InCidrs(address, cidrs) == \E c \in cidrs : InCidr(address, c)

Accepted(policy) ==
  /\ policy.target \in {"default", "wifi", "carrier"}
  /\ Cardinality(policy.lan) \in 1..MaxItems
  /\ \A c \in policy.lan : NormalizesPrivate(c)
  /\ Cardinality(policy.probes) \in 1..MaxItems
  /\ \A a \in policy.probes : InCidrs(a, policy.lan)
  /\ policy.timeout \in TimeoutRange

=============================================================================
