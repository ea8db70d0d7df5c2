------------------------------- MODULE MCWsFeed -------------------------------
(***************************************************************************)
(* A small instance of the WebSocket feed for TLC.                         *)
(***************************************************************************)
EXTENDS WsFeed

CONSTANTS alice, bob, one, two, three

MCSigner == [s \in Sockets |-> IF s = three THEN bob ELSE alice]

\* bob takes an order of alice; alice cancels another one.
MCRequests ==
  {[id |-> 1, taker |-> bob, makers |-> <<alice>>], [id |-> 2, maker |-> alice]}
=============================================================================
