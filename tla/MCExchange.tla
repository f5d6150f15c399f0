------------------------------ MODULE MCExchange ------------------------------
(* An instance of Exchange: three byte values, identities of two bytes. *)
EXTENDS Exchange

\* One that does not fit its field, two that agree as far as it goes.
ShortAndLong == {<<>>, <<1>>, <<2, 1>>, <<2, 1, 2>>}

\* Lengths of one digit and of more.
PayloadsTried == {<<>>, <<0>>, <<2, 1, 0, 1>>, [i \in 1..10 |-> 1]}

Followers == {<<0>>, <<1, 2>>}

=============================================================================
