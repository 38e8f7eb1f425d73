-------------------------------- MODULE Sockets --------------------------------
(***************************************************************************)
(* How a sender and a receiver get their sockets: what main() of either       *)
(* program looks at first, the look-up of the address, opensocket() and the   *)
(* functions of zsockets.cc it calls.  What the resolver knows and which      *)
(* sockets other programs have is given.  A function that may fail has the    *)
(* set of its results, which is then empty.                                 *)
(***************************************************************************)
EXTENDS Integers, Sequences

CONSTANTS
  MaxPort,      \* 65535, the largest number that a port's bits hold
  Groups,       \* the multicast addresses
  Devices,      \* the network devices, known on both hosts by the same name
  Wishes        \* what the two programs are asked for, and where

AF_INET   == "ip4"
AF_INET6  == "ip6"
AF_UNSPEC == "any"

NODEV   == "no device"
DEFAULT == "default device"
ANYHOST == [family |-> AF_INET, host |-> "any"]

(* Arguments of a program: the addresses a name stands for, in the resolver's *)
(* order, port_arg and dev_arg.                                             *)
IsArguments(args) ==
  /\ args.names \in Seq([family : {AF_INET, AF_INET6}, host : STRING])
  /\ args.port \in Int
  /\ args.dev \in STRING

ASSUME SocketsParams ==
  /\ MaxPort \in Nat
  /\ {NODEV, DEFAULT} \cap Devices = {}
  /\ \A w \in Wishes : IsArguments(w.tx) /\ IsArguments(w.rx) /\ ANYHOST \notin w.own

VARIABLES
  wish,         \* [tx, rx: arguments, own: the receiver's own addresses, held: the
                \* sockets other programs have on its host]
  txat, rxat,   \* each program is at its "start", "up", or "exit"
  txsock,       \* A, connected
  rxsocks       \* Arx and Asy, bound

sockvars == <<wish, txat, rxat, txsock, rxsocks>>

-----------------------------------------------------------------------------
(* Sockaddr                                                                *)

(* getaddrinfo() finds only what has the family asked for; the first is taken. *)
set_addr(family, names) ==
  LET found == {i \in DOMAIN names : family \in {AF_UNSPEC, names[i].family}}
  IN  {names[i] : i \in {n \in found : \A m \in found : n <= m}}

set_port(port) == port % (MaxPort + 1)

is_multicast(addr) == addr \in Groups

-----------------------------------------------------------------------------
(* Sockets                                                                 *)

(* bind(): a port is shared only by sockets that all allow it; 0 is any free   *)
(* port.                                                                   *)
bind(sock, others) ==
  IF \E other \in others :
       /\ other.port = sock.port /\ sock.port # 0
       /\ other.addr = sock.addr \/ ANYHOST \in {other.addr, sock.addr}
       /\ ~(other.reuse /\ sock.reuse)
  THEN {} ELSE {sock}

(* With remote or with local alone, as it is called.                        *)
OpenRemote(remote, port) == {[peer |-> remote, port |-> port, dev |-> DEFAULT]}

OpenLocal(local, port, others) ==
  IF local \in wish.own
  THEN bind([addr |-> local, port |-> port, reuse |-> FALSE, group |-> local, dev |-> DEFAULT],
            others)
  ELSE {}

(* Only the functions for IPv4 notice a device that is not there.            *)
Device(addr, dev) ==
  IF dev \in Devices THEN {dev} ELSE IF addr.family = AF_INET THEN {} ELSE {DEFAULT}

sock_open_mcsend(addr, port, dev) ==
  {[peer |-> addr, port |-> port, dev |-> d] : d \in Device(addr, dev)}

(* Mutant: SO_REUSEADDR is not set.                                         *)
NotShared == FALSE

Shared == TRUE

sock_open_mcrecv(addr, port, dev, others) ==
  UNION {bind([addr |-> ANYHOST, port |-> port, reuse |-> Shared, group |-> addr, dev |-> d],
              others) : d \in Device(addr, dev)}

-----------------------------------------------------------------------------
(* main()                                                                  *)

PortInRange(args) == args.port \in 1..MaxPort

(* opensocket() of zita-j2n                                                 *)
TxOpen(addr, port) ==
  IF ~is_multicast(addr) THEN OpenRemote(addr, port)
  ELSE IF wish.tx.dev = NODEV THEN {} ELSE sock_open_mcsend(addr, port, wish.tx.dev)

TxSockets ==
  UNION {TxOpen(addr, set_port(wish.tx.port)) : addr \in set_addr(AF_UNSPEC, wish.tx.names)}

TxSetUp ==
  /\ txat = "start"
  /\ IF PortInRange(wish.tx) /\ TxSockets # {}
     THEN txat' = "up" /\ txsock' \in TxSockets
     ELSE txat' = "exit" /\ UNCHANGED txsock
  /\ UNCHANGED <<wish, rxat, rxsocks>>

(* opensocket() of zita-n2j                                                 *)
RxOpen(addr, port, others) ==
  IF ~is_multicast(addr) THEN OpenLocal(addr, port, others)
  ELSE IF wish.rx.dev = NODEV THEN {} ELSE sock_open_mcrecv(addr, port, wish.rx.dev, others)

(* Mutant: both sockets get the port of the first.                           *)
SamePort == wish.rx.port

SecondPort == wish.rx.port + 1

RxSockets ==
  UNION {UNION {{<<arx, asy>> : asy \in RxOpen(addr, set_port(SecondPort), wish.held \cup {arx})}
                  : arx \in RxOpen(addr, set_port(wish.rx.port), wish.held)}
           : addr \in set_addr(AF_INET, wish.rx.names)}

RxSetUp ==
  /\ rxat = "start"
  /\ IF PortInRange(wish.rx) /\ RxSockets # {}
     THEN rxat' = "up" /\ rxsocks' \in RxSockets
     ELSE rxat' = "exit" /\ UNCHANGED rxsocks
  /\ UNCHANGED <<wish, txat, txsock>>

SocketsInit ==
  /\ wish \in Wishes
  /\ txat = "start" /\ rxat = "start"
  /\ txsock = <<>> /\ rxsocks = <<>>

-----------------------------------------------------------------------------
(* A datagram of the sender's is delivered to a socket of the receiver's.     *)
Reaches(sock, port, peer, dev) ==
  /\ sock.port = port
  /\ sock.group = peer
  /\ is_multicast(peer) => sock.dev = dev

Meet ==
  /\ Reaches(rxsocks[1], txsock.port, txsock.peer, txsock.dev)
  /\ ~Reaches(rxsocks[2], txsock.port, txsock.peer, txsock.dev)

(* The ports the receiver asks for, as far as there are such ports.          *)
PortsAsked == {wish.rx.port, wish.rx.port + 1} \cap 1..MaxPort

(* Both programs are given the same address and port, as the manual says, the  *)
(* resolver's first answer is an IPv4 address, a group comes with a device, a  *)
(* host is the receiver's own, and nobody holds its ports who will not share. *)
GoodWish ==
  /\ wish.tx = wish.rx
  /\ PortInRange(wish.rx)
  /\ wish.rx.names # <<>> /\ wish.rx.names[1].family = AF_INET
  /\ LET addr == wish.rx.names[1]
     IN  /\ IF is_multicast(addr) THEN wish.rx.dev \in Devices ELSE addr \in wish.own
         /\ \A other \in wish.held :
              /\ other.port \in PortsAsked
              /\ is_multicast(addr) \/ other.addr \in {addr, ANYHOST}
              => is_multicast(addr) /\ other.reuse

(* Then both programs get their sockets, and what the sender sends reaches     *)
(* the receiver's first socket and not its second, for hosts and groups, the   *)
(* largest port and a host with other receivers (zsockets.cc, opensocket).    *)
SocketsMeet ==
  GoodWish => /\ txat # "exit" /\ rxat # "exit"
              /\ txat = "up" /\ rxat = "up" => Meet
=============================================================================
