------------------------------- MODULE MCWire -------------------------------
(* Nodes with every kind of string, and with lengths at each boundary.      *)
EXTENDS WireNodes

MCTokens == [n \in {"s.whatsapp.net", "iq", "id", "w:stats"} |->
               CASE n = "s.whatsapp.net" -> [dict |-> None, index |-> 3]
                 [] n = "iq" -> [dict |-> None, index |-> 25]
                 [] n = "id" -> [dict |-> None, index |-> 8]
                 [] OTHER -> [dict |-> 2, index |-> 250]]
MCBytes == [n \in {"lid", "hosted", "hosted.lid", "g.us", "x", "x256", "xMiB"} |->
              CASE n = "x256" -> 256 [] n = "xMiB" -> 2 ^ 20 [] OTHER -> Len(n)]
Digits(n) == Chars([k \in 1 .. n |-> k % 10])
User == Digits(3)
Simple == {Name("w:stats"), Name("x"), Name("x256"), Name("xMiB"), Chars(<< >>), Digits(4), Digits(127), Digits(128),
           Chars(<<Dash, 1, Dot>>), Chars(<<10, 15>>), Chars(<<15, 15, 15>>), Chars(<<10, Dot>>), Chars(<<Other>>)}
Addresses ==
  {Address(User, None, d, s) : d \in {None, 0, 2, 255, 256}, s \in {"s.whatsapp.net", "lid", "hosted", "hosted.lid", "g.us"}}
  \cup {Address(User, 2, None, "lid"), Address(User, 2, 3, "s.whatsapp.net"), Address(Name("x"), None, None, "g.us"),
        [t |-> "fb", user |-> User, device |-> 300, server |-> "g.us"],
        [t |-> "interop", user |-> User, device |-> 1, integrator |-> 257, server |-> "x"]}
Node(attrs, content) == [tag |-> "iq", attrs |-> attrs, content |-> content]
With(v) == <<[key |-> "id", value |-> v]>>
Empty == [c |-> "none"]
Leaf == Node(<< >>, Empty)
MCNodes ==
  {Node(With(v), Empty) : v \in Simple \cup Addresses}
  \cup {Node(<< >>, [c |-> "str", v |-> v]) : v \in Simple \cup Addresses}
  \cup {Node(With(None), [c |-> "bytes", v |-> IF n = 0 THEN Chars(<< >>) ELSE Name("x"), length |-> n]) :
          n \in {0, 1, 255, 256, 2 ^ 20 - 1, 2 ^ 20}}
  \cup {Node(With(Name("x")), [c |-> "list", nodes |-> [k \in 1 .. n |-> Leaf]]) : n \in {0, 1, 255, 256}}
  \cup {Node(<< >>, [c |-> "list", nodes |-> <<Node(With(User), [c |-> "list", nodes |-> <<Leaf, Node(With(Name("x")), Empty)>>])>>])}
MCWritable == {n \in MCNodes : encode_binary_node(n) # None}
=============================================================================
