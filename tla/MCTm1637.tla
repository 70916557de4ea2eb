------------------------------ MODULE MCTm1637 ------------------------------
(* Two pages for TLC: ICMP with 4 packets, and a count that overflows.     *)
EXTENDS Tm1637Properties

MCPages == {<<1, 4>>, <<3, 1000>>}
=============================================================================
