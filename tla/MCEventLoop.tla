---------------------------- MODULE MCEventLoop -----------------------------
EXTENDS EventLoop

CONSTANT Probe

\* request_alarm_cb and coap_client_sched_callback: every request accepted under
\* the handle Probe calls back in the end, unless select has come to fail for
\* good on a closed descriptor that is still in the list.
ProbeEnds == Probe \in Socks(st) ~> (Probe \notin Socks(st) \/ Spinning)
=============================================================================
