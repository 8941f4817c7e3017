------------------------------- MODULE MCWiFi -------------------------------
(* Two stations: begin needs one more than the one it replaces.             *)
EXTENDS WiFi

CONSTANTS s1, s2
TwoStations == {s1, s2}
AllCalls == {"begin", "connect", "end", "softAP", "softAPend", "scanNetworks"}
=============================================================================
