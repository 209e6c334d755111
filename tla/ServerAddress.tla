--------------------------- MODULE ServerAddress ----------------------------
(***************************************************************************)
(* Which address a query or a transfer is dialled at: splitResolvers and   *)
(* New of internal/audit, DefaultServer, joinPort and the defaulting in    *)
(* Query of internal/resolver.                                             *)
(*                                                                         *)
(* The text of --resolver, and any address made from it, is the list of    *)
(* hosts between its commas and whether they carry a port.                 *)
(***************************************************************************)
EXTENDS Integers, Sequences

Address(hosts, port) == [hosts |-> hosts, port |-> port]

\* The first server in /etc/resolv.conf: a host without a port.
SystemResolver == Address(<<"system">>, FALSE)

SplitResolvers(r) == [i \in 1..Len(r.hosts) |-> Address(<<r.hosts[i]>>, r.port)]
JoinPort(a) == [a EXCEPT !.port = TRUE]
DefaultServer(list) == IF list # <<>> THEN JoinPort(list[1]) ELSE JoinPort(SystemResolver)

\* Config.UDPAddr as New sets it.
UDPAddr(r) == DefaultServer(SplitResolvers(r))

\* Runner.query passes the option on as it was typed; Query replaces it only
\* when it is empty.  Runner.transfer passes it on and Transfer has no default.
QueryServer(r)    == IF r.hosts = <<>> THEN UDPAddr(r) ELSE r
TransferServer(r) == r

\* net.Dial takes one host and needs a port.
Dialable(a) == Len(a.hosts) = 1 /\ a.port
=============================================================================
