----------------------------- MODULE MCDiscovery -----------------------------
EXTENDS Discovery
\* A subnet of two usable hosts, and a network of one inside it: a host is
\* probed twice.
MCNetworks == <<[base |-> 0, total |-> 4], [base |-> 1, total |-> 1]>>
=============================================================================
