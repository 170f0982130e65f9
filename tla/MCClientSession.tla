-------------------------- MODULE MCClientSession --------------------------
(***************************************************************************)
(* An instance of ClientSession for TLC: a price that is rounded, a word   *)
(* where it belongs, and as quantities and ids the least int and a number  *)
(* beyond the ints; a cancel that another client sends without a number,   *)
(* and an order that ends in a comma, which the parser takes.              *)
(***************************************************************************)
EXTENDS ClientSession

MCPriceTexts == {Empty, Word, 16}

MCNumberTexts == {Empty, -6, 9}

Piece(what, number) == [what |-> what, number |-> number]

MCOtherLines ==
  {<<Piece("CANCEL", 0), Piece("abc", 0)>>,
   <<Piece("SELL", 0), Piece("AAPL", 0), Piece("integer", 1), Piece("decimal", 1),
     Piece("", 0)>>}

=============================================================================
