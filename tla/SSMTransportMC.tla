--------------------------- MODULE SSMTransportMC ---------------------------
(* Two sensors with uids of their own; or with one uid, and then the first   *)
(* may have no property.                                                     *)
EXTENDS SSMTransport, TLC

MCFile == <<"odm", "urg">>
Same == "odm" :> 0 @@ "urg" :> 0
Own  == "odm" :> 0 @@ "urg" :> 1
MCSetups ==
  {[uid |-> Own, sized |-> {"odm", "urg"}],
   [uid |-> Same, sized |-> {"odm", "urg"}],
   [uid |-> Same, sized |-> {"urg"}]}
MCLast == "odm" :> 6 @@ "urg" :> 1
=============================================================================
