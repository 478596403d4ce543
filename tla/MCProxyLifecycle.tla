-------------------------- MODULE MCProxyLifecycle --------------------------
(* Model-checking instances of ProxyLifecycle: which proxies there are and  *)
(* which faults may strike.                                                 *)
EXTENDS ProxyLifecycle

CONSTANTS p1, p2

OneProxy == {p1}
TwoProxies == {p1, p2}

NoFaults == {}
AllFaults == {"wsbind", "udpbind", "recverror", "slow"}
FastFaults == {"wsbind", "udpbind", "recverror"}
OnlySlow == {"slow"}
OnlyUdpBind == {"udpbind"}
=============================================================================
