---------------------------- MODULE MCHttpProxy ----------------------------
(* HttpProxy for TLC: two browsers; the word "ab", and URIs where it is,    *)
(* where it is behind a beginning of it, and where it is not.               *)
EXTENDS HttpProxy

MCUris == {<<"a", "a", "b">>, <<"a", "c", "b">>, <<"b", "a">>, <<"c">>}
MCWord == <<"a", "b">>
MCAddresses == [u \in MCUris |-> IF u = <<"c">> THEN 0
                                 ELSE IF u = <<"b", "a">> THEN 2 ELSE 1]

\* Answers with a 0 in them, which is the byte "0", and answers without.
MCReply == [u \in MCUris |-> IF u = <<"b", "a">> THEN <<"p", "q", "0", "r", "s">>
                             ELSE <<"0", "x">>]
MCTextReply == [u \in MCUris |-> IF u = <<"b", "a">> THEN <<"p", "q", "r", "s", "t">>
                                 ELSE <<"x", "y">>]

=============================================================================
