---------------------------- MODULE MCTrackerSet ----------------------------
(* A small instance of TrackerSet: a call that expires on the first day and *)
(* a put that expires on the second.                                       *)
EXTENDS TrackerSet

MCInstruments == {1, 2}

MCContractOf ==
  <<[contract_type |-> "call", expiration |-> 10],
    [contract_type |-> "put", expiration |-> 11]>>

quote(id, bid, ask, class) ==
  [instrument_id |-> id, action |-> "A", price |-> 99, size |-> 3,
   bid_px |-> bid, ask_px |-> ask, bid_sz |-> 1, ask_sz |-> 0, classified |-> class]

trade(id, price, size, bid, ask, class) ==
  [quote(id, bid, ask, class) EXCEPT !.action = "T", !.price = price, !.size = size]

(* Quotes wide, wider and locked; a CBBO record with its last trade price, *)
(* whose bid is undefined and whose contract cannot be classified; trades  *)
(* inside the BBO, at its middle and aside, at and outside it, of no       *)
(* contract, without a BBO and in a locked market.                         *)
MCRecords ==
  { quote(1, 4, 6, "atm"),
    quote(2, 3, 8, "atm"),
    quote(2, 5, 5, "atm"),
    [quote(1, 99, 6, "none") EXCEPT !.action = "unavailable", !.price = 5],
    trade(1, 5, 2, 4, 6, "atm"),
    trade(1, 6, 2, 4, 7, "atm"),
    trade(2, 6, 1, 4, 6, "deep_otm"),
    trade(2, 9, 7, 4, 6, "atm"),
    trade(1, 4, 0, 4, 6, "atm"),
    trade(1, 5, 1, -1, 6, "atm"),
    trade(1, 5, 1, 5, 5, "atm") }
=============================================================================
