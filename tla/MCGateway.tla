----------------------------- MODULE MCGateway -----------------------------
(* Requests for the gateway: MaxUint32 = 7, so "9" is a number too large.  *)
EXTENDS Gateway

MCUnsigned == [text \in {"1", "5", "9"} |->
                 CASE text = "1" -> 1 [] text = "5" -> 5 [] text = "9" -> 9]
MCSigned == [text \in {"1", "5", "9", "-1"} |->
               IF text = "-1" THEN -1 ELSE MCUnsigned[text]]
=============================================================================
