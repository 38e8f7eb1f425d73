-------------------------------- MODULE MCPath --------------------------------
(* Sessions: each has a list, a format, periods and counters of its own.     *)
EXTENDS Path

CONSTANT MCTime   \* bound: how long a session is followed

Num(n)   == [sep |-> COMMA, num |-> n]
Upto(n) == [sep |-> DASH, num |-> n]

(* What follows the first number, right and wrong.                          *)
MCItems == {Num(n) : n \in {NOTNUM, 0, 2, 3, 5}} \cup {Upto(n) : n \in {2, 4}}
             \cup {[sep |-> ";", num |-> 4]}
MCTexts == {<<Num(n)>> : n \in {NOTNUM, 0, 1, 4, 5}}
             \cup {<<Num(1), a>> : a \in MCItems} \cup {<<Num(1), a, b>> : a, b \in MCItems}
             \cup {<<Num(2), Upto(4)>>}

(* A host with addresses of both families, another one, and a group.         *)
Ip4(host) == [family |-> AF_INET, host |-> host]
Ip6(host) == [family |-> AF_INET6, host |-> host]
MCGroups  == {Ip4("group"), Ip6("group")}
MCNames   == { <<>>, <<Ip4("here")>>, <<Ip6("here")>>, <<Ip6("here"), Ip4("here")>>,
               <<Ip4("here"), Ip6("here")>>, <<Ip4("there")>>, <<Ip4("group")>>,
               <<Ip6("group")>> }
MCArguments == [names : MCNames, port : {0, 1, 3, 4}, dev : {NODEV, "eth0", "eth7"}]

(* Other programs: none, another receiver, one of the same group.            *)
Holds(addr, port, reuse) ==
  [addr |-> addr, port |-> port, reuse |-> reuse, group |-> addr, dev |-> DEFAULT]
MCHeld == { {}, {Holds(Ip4("here"), 2, FALSE)},
            {Holds(ANYHOST, 1, TRUE), Holds(ANYHOST, 2, TRUE)} }
Asks(tx, rx, held) ==
  [tx |-> tx, rx |-> rx, own |-> {Ip4("here"), Ip6("here")}, held |-> held]
HostWish  == [names |-> <<Ip4("here")>>, port |-> 1, dev |-> NODEV]
GroupWish == [names |-> <<Ip4("group")>>, port |-> 1, dev |-> "eth0"]
MCSame   == {Asks(args, args, held) : args \in MCArguments, held \in MCHeld}
MCWishes == MCSame \cup {Asks(HostWish, [HostWish EXCEPT !.port = 3], {})}

Of(list, wanted, form, nchan, tx_fsize, psmax, rx_bsize) ==
  [list |-> list, wish |-> wanted, form |-> form, nchan |-> nchan, tx_fsize |-> tx_fsize,
   psmax |-> psmax, bsize |-> rx_bsize, buff |-> rx_bsize + Late + Jitter,
   phase |-> 0, count |-> 0, clock |-> 0, time |-> 0]

(* Followed from when the receiver's cycle starts, with the counters or the    *)
(* clock about to change their sign or to begin again.                      *)
Followed(shape, phase, count0, clock0) ==
  [shape EXCEPT !.phase = phase, !.count = count0, !.clock = clock0, !.time = MCTime]

ToHost  == Asks(HostWish, HostWish, {})
ToGroup == Asks(GroupWish, GroupWish, {Holds(ANYHOST, 1, TRUE), Holds(ANYHOST, 2, TRUE)})

MCSessions ==
  {Of(list, ToHost, FM_16BIT, 1, 4, 36, 4) : list \in MCTexts} \cup
  {Of(<<Num(1)>>, wanted, FM_16BIT, 1, 4, 36, 4) : wanted \in MCWishes} \cup
  { Followed(Of(<<Num(1), Num(2)>>, ToHost, FM_16BIT, 2, 5, 36, 3), 2, 52, 20),
    Followed(Of(<<Num(2), Upto(4)>>, ToGroup, FM_24BIT, 3, 3, 38, 2), 1, 20, 52),
    Followed(Of(<<Num(1)>>, ToHost, FM_FLOAT, 1, 4, 36, 5), 0, 52, 52) }
=============================================================================
