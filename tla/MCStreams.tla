------------------------------ MODULE MCStreams ------------------------------
(* A strategy whose stream is of a subclass of MarketStream, one that asks the
   same of a MarketStream and shares it, and one that records raw data. *)
EXTENDS Streams, TLC

CONSTANTS a, b, c, books, special, raw

Filters == (a :> special) @@ (b :> books) @@ (c :> raw)
Subclasses == (books :> {books, special}) @@ (special :> {special}) @@ (raw :> {raw})
OrderAdded == <<a, c, b>>
Updates == (special :> 2) @@ (books :> 0) @@ (raw :> 2)
=============================================================================
