-------------------------- MODULE MCMemberPayments --------------------------
(***************************************************************************)
(* One member with two payments: pairs in which every kind of payment and   *)
(* every way to pay it meets another one of the same member.               *)
(***************************************************************************)
EXTENDS MemberPayments

CONSTANTS p1, p2, ada

What(k, v) == [owner |-> ada, kind |-> k, via |-> v]

Pair(k1, v1, k2, v2) ==
    [p \in Payments |-> IF p = p1 THEN What(k1, v1) ELSE What(k2, v2)]

MCPlans ==
    {Pair("annual", "paystack", "next", "admin"),
     Pair("lifetime", "paystack", "next", "admin"),
     Pair("annual", "old", "next", "paystack"),
     Pair("donation", "paystack", "annual", "admin"),
     Pair("donation", "old", "lifetime", "admin"),
     Pair("annual", "paypal", "next", "paypal"),
     Pair("lifetime", "paypal", "vision", "paypal"),
     Pair("donation", "paypal", "next", "admin")}
=============================================================================
