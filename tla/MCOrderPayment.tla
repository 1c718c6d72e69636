--------------------------- MODULE MCOrderPayment ---------------------------
(***************************************************************************)
(* A small store for TLC.  Three orders, one of each channel, compete for  *)
(* the same products, each can be confirmed by two requests at once.       *)
(***************************************************************************)
EXTENDS OrderPayment, TLC

CONSTANTS o1, o2, o3, shirt, book, r1, r2

Line(p, n) == [product |-> p, quantity |-> n]

\* The first order needs both products, the second lists the book twice, and
\* the last wants a book as well.
MCCart == o1 :> <<Line(shirt, 1), Line(book, 1)>>
       @@ o2 :> <<Line(book, 1), Line(book, 1)>>
       @@ o3 :> <<Line(book, 1)>>

MCChannel == o1 :> "paystack" @@ o2 :> "paypal" @@ o3 :> "legacy"

MCInitialStock == shirt :> 1 @@ book :> 2
=============================================================================
