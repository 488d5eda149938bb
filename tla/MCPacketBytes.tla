---------------------------- MODULE MCPacketBytes ----------------------------
(* Length fields on both sides of every boundary, in frames that end       *)
(* inside each header, exactly behind it, and with padding.                *)
EXTENDS PacketBytes

Captured == {13, 14, 33, 34, 38, 53, 54, 57, 58, 61, 62, 66}

Ip == {[caplen |-> c, ethernet |-> e, ipv4 |-> v, ihl |-> h, total |-> t,
        fragment |-> f] :
         c \in Captured, e \in {TRUE}, v \in BOOLEAN, h \in {4, 5, 6, 15},
         t \in {19, 20, 27, 28, 39, 40, 44, 47, 48, 49, 52}, f \in BOOLEAN}

Join(a, p, o, good, type, q) ==
  [caplen |-> a.caplen, ethernet |-> a.ethernet, ipv4 |-> a.ipv4, ihl |-> a.ihl,
   total |-> a.total, fragment |-> a.fragment, protocol |-> p, offset |-> o,
   options |-> good, type |-> type, quoted |-> q]

NoQuote == [ipv4 |-> FALSE, ihl |-> 0]
Plain   == {a \in Ip : a.ipv4 /\ ~a.fragment}

MCFrames ==
  {Join(a, "other", 0, FALSE, "other", NoQuote) : a \in Ip}
  \cup {Join([a EXCEPT !.ethernet = FALSE], "tcp", 5, TRUE, "other", NoQuote) : a \in Plain}
  \cup {Join(a, "tcp", o, g, "other", NoQuote) :
          a \in Plain, o \in {4, 5, 6, 15}, g \in BOOLEAN}
  \cup {Join(a, "icmp", 0, FALSE, t, NoQuote) : a \in Plain, t \in {"echo", "other"}}
  \cup {Join(a, "icmp", 0, FALSE, "unreachable", [ipv4 |-> v, ihl |-> h]) :
          a \in Plain, v \in BOOLEAN, h \in {4, 5, 6}}
=============================================================================
