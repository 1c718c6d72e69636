--------------------------- MODULE MCChatDelivery ---------------------------
(***************************************************************************)
(* One member writes to another with a clientMessageId and to the          *)
(* administrators, and an administrator writes back without one.           *)
(***************************************************************************)
EXTENDS ChatDelivery, TLC

CONSTANTS ann, ben, hello, notice, uuid, c1, worker

MCSender   == hello :> ann @@ notice :> Admin
MCReceiver == hello :> ben @@ notice :> ann
MCKey      == hello :> uuid @@ notice :> NoKey
=============================================================================
