------------------------ MODULE MCEventRegistration ------------------------
(* One event or conference, and two checkouts of one member, or of two     *)
(* members.                                                                *)
EXTENDS EventRegistration

MCSetups ==
    {s \in [conference : BOOLEAN, paid : BOOLEAN,
            owner : [Checkouts -> Members], paypal : {{}, Members}] :
        /\ \A m \in Members : \E t \in Checkouts : s.owner[t] = m
        /\ s.paypal # {} => s.conference /\ s.paid}
=============================================================================
