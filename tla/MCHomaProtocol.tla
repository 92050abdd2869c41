--------------------------- MODULE MCHomaProtocol ---------------------------
(***************************************************************************)
(* Small instances of HomaProtocol for TLC: calls between two hosts.       *)
(***************************************************************************)
EXTENDS HomaProtocol

Config(rpcs, req, resp, unsched, resend, timeout, capacity, losses, faults) ==
    [rpcs |-> rpcs, length |-> [client |-> req, server |-> resp],
     unsched_bytes |-> unsched, resend_ticks |-> resend, resend_interval |-> 1,
     timeout_ticks |-> timeout, request_ack_ticks |-> 1,
     capacity |-> capacity, losses |-> losses, faults |-> faults]

\* Long messages, buffers that come late, packets that are repeated, sockets
\* that are closed, and two calls whose acks share packets.
MCConfigs == {
    Config({1}, 2, 1, 1, 1, 2, 3, 0, {}),
    Config({1}, 1, 2, 1, 1, 2, 2, 0, {"nobuf", "slow_nic"}),
    Config({1}, 1, 1, 1, 1, 2, 30, 0, {"duplicate", "slow_nic"}),
    Config({1}, 1, 1, 1, 1, 2, 2, 0,
           {"fail", "abort", "close_client", "close_server"}),
    Config({1, 2}, 1, 1, 1, 1, 1, 2, 0, {})}

\* Packets are lost because the network is full, and some without a reason.
LiveConfigs == {
    Config({1}, 1, 1, 1, 1, 2, 2, 2, {}),
    Config({1}, 1, 2, 2, 1, 2, 2, 1, {}),
    Config({1}, 1, 1, 1, 1, 2, 2, 1, {"close_client", "abort"})}

OnceConfigs == {Config({1}, 1, 1, 1, 1, 2, 9, 0, {"duplicate"})}
=============================================================================
