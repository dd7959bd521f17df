-------------------------- MODULE MCHttpProxySocket --------------------------
(***************************************************************************)
(* Clients of HttpProxySocket for TLC: one of each kind that the code      *)
(* tells apart, among them a payload that looks like header text.          *)
(***************************************************************************)
EXTENDS HttpProxySocket

Plain ==
  [line |-> <<"CONNECT", "SP", "host:port", "SP", "text">>,
   headers |-> <<>>, payload |-> <<"data1", "data2", "data3">>]
Padding == <<"padding", "SP", "text">>
OtherHeader == <<"other", "SP", "text">>

AllClients ==
  {Plain,
   [Plain EXCEPT !.headers = <<Padding>>],
   [Plain EXCEPT !.headers = <<OtherHeader, Padding>>],
   [Plain EXCEPT !.headers = <<OtherHeader>>,
                 !.payload = <<"CR", "LF", "padding", "CR", "LF", "CR", "LF">>],
   [Plain EXCEPT !.headers = <<OtherHeader, OtherHeader, Padding>>],
   [Plain EXCEPT !.line[1] = "GET"],
   [Plain EXCEPT !.line[3] = "text"],
   [Plain EXCEPT !.line = <<"CONNECT">>, !.headers = <<Padding>>],
   [Plain EXCEPT !.line = <<"CONNECT", "SP">>],
   [Plain EXCEPT !.line = <<"CONNECT", "SP", "host:port">>,
                 !.headers = <<OtherHeader>>]}

OneTwo == 1..2
=============================================================================
