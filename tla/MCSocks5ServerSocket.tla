------------------------ MODULE MCSocks5ServerSocket ------------------------
(***************************************************************************)
(* Clients of Socks5ServerSocket for TLC: one of each kind that the code   *)
(* tells apart.                                                            *)
(***************************************************************************)
EXTENDS Socks5ServerSocket

IPv4Client ==
  [greet_version |-> 5, methods |-> <<0>>, version |-> 5, command |-> 1,
   reserved |-> 0, address_type |-> 1, address |-> <<192, 0, 2, 1>>,
   port |-> 443, payload |-> <<1, 2, 3>>]
DomainClient ==
  [IPv4Client EXCEPT !.methods = <<2, 0, 1>>, !.address_type = 3,
                     !.address = <<97, 46, 98>>]
IPv6Client ==
  [IPv4Client EXCEPT !.address_type = 4, !.address = [i \in 1..16 |-> 256 - i]]

AllClients ==
  {IPv4Client, DomainClient, IPv6Client}
    \cup {[IPv4Client EXCEPT !.greet_version = 4],
          [IPv4Client EXCEPT !.methods = <<>>],
          [IPv4Client EXCEPT !.methods = <<2, 1>>],
          [IPv4Client EXCEPT !.version = 4],
          [IPv4Client EXCEPT !.reserved = 1],
          [IPv4Client EXCEPT !.address_type = 2],
          [DomainClient EXCEPT !.address = <<>>]}
    \cup {[DomainClient EXCEPT !.command = c] : c \in {2, 3, 9}}
=============================================================================
