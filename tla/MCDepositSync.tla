---------------------------- MODULE MCDepositSync ----------------------------
(***************************************************************************)
(* Small instances of the deposit service for TLC.                         *)
(***************************************************************************)
EXTENDS DepositSync

CONSTANTS alice, bob, base

Amount(user, amount) == [user |-> user, token |-> base, amount |-> amount]

\* The first block has a deposit, so that there is something to replay; the second
\* may have two, and the third none, so that a head is not a deposit's block.
MCChains ==
  {<<<<Amount(alice, 1)>>, second, third, <<Amount(alice, 2)>>>> :
     second \in {<<>>, <<Amount(alice, 1), Amount(bob, 2)>>}, third \in {<<>>, <<Amount(bob, 1)>>}}

\* A chain with a live deposit.
OneChain == {<<<<Amount(alice, 1)>>, <<Amount(alice, 1)>>>>}
=============================================================================
