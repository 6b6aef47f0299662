---------------------------- MODULE MCDnsLookup ----------------------------
(* DnsLookup for TLC: one name in DNS, two in HDNS, one in neither; two     *)
(* hosts share an address.                                                  *)
EXTENDS DnsLookup

MCNames == {"teja", "chintu", "surya", "nohost"}
MCDns == <<"teja", "ip1">>
MCHdns == <<"chintu", "ip2", "surya", "ip1">>

\* Strings with their first character overwritten, and the words of "not found".
Plain == MCNames \cup {"ip1", "ip2", "not found", "not", "found", "?"}
Marked == [teja |-> "1eja", chintu |-> "1hintu", surya |-> "1urya", nohost |-> "1ohost",
           ip1 |-> "1p1", ip2 |-> "1p2", not |-> "1ot", found |-> "1ound"]
MCStrings == Plain \cup {Marked[s] : s \in DOMAIN Marked} \cup {"1ot found", "1?"}
MCOver == [s \in MCStrings |->
             IF s \in DOMAIN Marked THEN Marked[s]
             ELSE IF s = "not found" THEN "1ot found"
             ELSE IF s = "?" THEN "1?"
             ELSE s]
MCWords == [s \in MCStrings |->
              IF s = "not found" THEN <<"not", "found">>
              ELSE IF s = "1ot found" THEN <<"1ot", "found">>
              ELSE <<s>>]

=============================================================================
