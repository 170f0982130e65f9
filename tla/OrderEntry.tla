----------------------------- MODULE OrderEntry -----------------------------
(***************************************************************************)
(* From the dashboard's buttons to the engine: what is read from the input *)
(* fields, the line TcpClient sends, the dispatch in the session's read    *)
(* handler and MessageParser.                                              *)
(*                                                                         *)
(* A text is the sequence of the pieces between its commas, so that texts  *)
(* are put together with commas by concatenation.  A piece is a name or a  *)
(* number.  What is typed as a price counts tenths of the sixth decimal,   *)
(* since what is printed of a double ends at that decimal; a decimal on a  *)
(* line and a price in the engine count whole ones.                        *)
(***************************************************************************)
EXTENDS Integers, Sequences, SequencesExt

CONSTANTS
  Empty,        \* an input field without text
  Word,         \* a text that is no number
  PriceTexts,   \* what is typed as a price: Empty, Word or a number
  NumberTexts,  \* what is typed as a quantity or an order id, likewise
  OtherLines,   \* what other clients of the same server send
  IntMax,       \* the largest int
  MaxClicks     \* bound: buttons pressed

VARIABLES
  entered,  \* history: what the user entered, button by button
  wire,     \* the lines on their way to the session
  calls,    \* history: the calls the engine got
  session   \* "reading"; "threw", when an exception left its read handler;
            \* "lost", when one left the handler of another session

vars == <<entered, wire, calls, session>>

Init == entered = <<>> /\ wire = <<>> /\ calls = <<>> /\ session = "reading"

Unit == 1000000     \* sixth decimals in one

Ints == -IntMax - 1 .. IntMax

Name(name) == [what |-> name, number |-> 0]
Integer(n) == [what |-> "integer", number |-> n]
Decimal(p) == [what |-> "decimal", number |-> p]

-----------------------------------------------------------------------------
(* Plausible bugs, each in place of the operator its comment names.        *)

\* PriceText: under a locale whose decimal point is a comma.
PriceTextLocal(price) == <<Integer(price \div Unit), Integer(price % Unit)>>

\* OrderLine: quantity and price in the order of the class's fields.
OrderLineAsDeclared(side, quantity, price) ==
  <<Name(side), Name("AAPL"), Decimal((price + 5) \div 10), Integer(quantity)>>

-----------------------------------------------------------------------------
(* The dashboard.                                                          *)

\* QString::toDouble and toInt: 0 for what is no number, or no int.
Price(text) == IF text = Word THEN 0 ELSE text
Number(text) == IF text = Word THEN 0 ELSE IF text \in Ints THEN text ELSE 0

\* std::to_string of a double rounds to the sixth decimal.
Printed(price) == (price + 5) \div 10

PriceText(price) == <<Decimal(Printed(price))>>

OrderLine(side, quantity, price) ==
  <<Name(side), Name("AAPL"), Integer(quantity)>> \o PriceText(price)

CancelLine(id) == <<Name("CANCEL"), Integer(id)>>

SendOrder(type, quantity, price) ==
  LET side == CASE type = "BUY"         -> "BUY"
                [] type = "SELL"        -> "SELL"
                [] type = "MARKET BUY"  -> "MKT_BUY"
                [] type = "MARKET SELL" -> "MKT_SELL"
  IN  wire' = Append(wire, OrderLine(side, quantity, price))

\* Nothing comes of what is sent to a server that has ended.
Entered(what, numberText, priceText) ==
  /\ session = "reading"
  /\ Len(entered) < MaxClicks
  /\ entered' = Append(entered, [what |-> what, number |-> numberText, price |-> priceText])

\* BUY and SELL: nothing happens unless both fields are filled in.
ClickLimit(type, priceText, qtyText) ==
  /\ priceText # Empty /\ qtyText # Empty
  /\ Entered(type, qtyText, priceText)
  /\ SendOrder(type, Number(qtyText), Price(priceText))
  /\ UNCHANGED <<calls, session>>

\* MKT BUY and MKT SELL: price 0.
ClickMarket(type, qtyText) ==
  /\ qtyText # Empty
  /\ Entered(type, qtyText, 0)
  /\ SendOrder(type, Number(qtyText), 0)
  /\ UNCHANGED <<calls, session>>

ClickCancel(idText) ==
  /\ idText # Empty
  /\ Entered("CANCEL", idText, 0)
  /\ wire' = Append(wire, CancelLine(Number(idText)))
  /\ UNCHANGED <<calls, session>>

-----------------------------------------------------------------------------
(* The session.                                                            *)

\* stoi reads an integer as far as it goes, stod a decimal; both throw at what
\* does not begin with a number, stoi also at what is no int.
Numeric(piece) == piece.what \in {"integer", "decimal"}
Stod(piece) == IF piece.what = "integer" THEN Unit * piece.number ELSE piece.number
Stoi(piece) ==
  CASE piece.what = "integer"                       -> piece.number
    [] piece.what = "decimal" /\ piece.number >= 0  -> piece.number \div Unit
    [] OTHER                                        -> -((-piece.number) \div Unit)

IsInt(piece) == Numeric(piece) /\ Stoi(piece) \in Ints

\* The message begins with "CANCEL,".
IsCancel(line) == Len(line) >= 2 /\ line[1] = Name("CANCEL")

\* getline at ',' finds no token after a comma that ends the message.
Tokens(line) == IF Last(line) = Name("") THEN Front(line) ELSE line

\* Handling the line throws: a cancel of no int, an order without four fields or
\* whose last two are not the numbers they should be.
Throws(line) ==
  IF IsCancel(line) THEN ~IsInt(line[2])
  ELSE LET tokens == Tokens(line)
       IN  Len(tokens) # 4 \/ ~Numeric(tokens[4]) \/ ~IsInt(tokens[3])

\* MessageParser::parse: BUY is a purchase, everything else a sale.
Parsed(tokens) ==
  [call |-> "processOrder", type |-> IF tokens[1] = Name("BUY") THEN "BUY" ELSE "SELL",
   number |-> Stoi(tokens[3]), price |-> Stod(tokens[4])]

\* The engine's call for a line that does not throw.
CallOf(line) ==
  IF IsCancel(line) THEN [call |-> "cancelOrder", number |-> Stoi(line[2])]
                    ELSE Parsed(Tokens(line))

\* The read handler, for one line.  Nothing between it and the I/O thread
\* catches an exception.
ReadHandler ==
  /\ wire # <<>> /\ session = "reading"
  /\ wire' = Tail(wire)
  /\ IF Throws(Head(wire))
     THEN session' = "threw" /\ UNCHANGED calls
     ELSE calls' = Append(calls, CallOf(Head(wire))) /\ UNCHANGED session
  /\ UNCHANGED entered

\* The read handler of another session of the process, at a line it throws at.
OtherHandler(line) ==
  /\ session = "reading"
  /\ Throws(line)
  /\ session' = "lost"
  /\ UNCHANGED <<entered, wire, calls>>

Next ==
  \/ \E type \in {"BUY", "SELL"}, price \in PriceTexts, qty \in NumberTexts :
       ClickLimit(type, price, qty)
  \/ \E type \in {"MARKET BUY", "MARKET SELL"}, qty \in NumberTexts : ClickMarket(type, qty)
  \/ \E id \in NumberTexts : ClickCancel(id)
  \/ ReadHandler
  \/ \E line \in OtherLines : OtherHandler(line)

Spec == Init /\ [][Next]_vars

-----------------------------------------------------------------------------

\* The number is the one typed; 0 for a text that is none.
IsNumberOf(n, text) ==
  \/ n = text
  \/ n = 0 /\ (text = Word \/ text \notin Ints)

\* The price is the one typed to within half of the last decimal printed; 0 for
\* a text that is none.
IsPriceOf(p, text) ==
  \/ text = Word /\ p = 0
  \/ text # Word /\ -5 <= 10 * p - text /\ 10 * p - text <= 5

Agree(entry, call) ==
  /\ IsNumberOf(call.number, entry.number)
  /\ IF entry.what = "CANCEL" THEN call.call = "cancelOrder"
     ELSE call.call = "processOrder" /\ IsPriceOf(call.price, entry.price)
  /\ entry.what = "BUY" => call.type = "BUY"
  /\ entry.what \in {"SELL", "MARKET SELL"} => call.type = "SELL"

\* The engine gets what was entered, call by call, whatever else was entered
\* before: a cancel for a cancel, an order for an order, of the quantity and the
\* price entered (0 for a text that is no number) and of the side of the button,
\* except that no side is claimed for MKT BUY: Parsed makes sales of them.
EngineGetsWhatWasEntered == \A i \in DOMAIN calls : Agree(entered[i], calls[i])

\* Whatever is typed into the dashboard, none of its lines makes the read handler
\* throw, which would end the server: the numbers it prints are read back by
\* stoi and stod, in the fields where they are looked for.
LinesParse == session # "threw"

=============================================================================
