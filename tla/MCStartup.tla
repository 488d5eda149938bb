------------------------------ MODULE MCStartup ------------------------------
(* Ports of at most 12 and arguments of up to five symbols: no comma, one, *)
(* several; signs, blanks, leading zeros, numbers too large.  Lists with   *)
(* another family, another address first, a name that is too long.         *)
EXTENDS Startup

MCArguments == UNION {[1 .. n -> {"0", "1", "2", "-", COMMA}] : n \in 0 .. 5} \cup
               {<<"1", "2", COMMA, "1", "3">>, <<"9", "9", "9", "9", "9", COMMA, "1">>,
                <<"1", COMMA, "2", COMMA, "-">>, <<"1", COMMA, "0", "0", "2">>,
                <<"0", "1", COMMA, "0", "0", "1">>}

If(address, family, ifa_name, fits) ==
  [address |-> address, family |-> family, name |-> ifa_name, fits |-> fits]

MCLists ==
  {<<>>,
   <<If("127.0.0.1", "AF_INET", "lo", TRUE), If("10.0.0.2", "AF_INET", "eth0", TRUE)>>,
   <<If("10.0.0.2", "AF_INET6", "tun", TRUE), If("10.0.0.2", "AF_INET", "eth0", TRUE)>>,
   <<If("10.0.0.2", "AF_INET", "longname", FALSE), If("10.0.0.2", "AF_INET", "eth0", TRUE)>>,
   <<If("10.0.0.3", "AF_INET", "wlan0", TRUE)>>}
=============================================================================
