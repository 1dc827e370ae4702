---------------------------- MODULE MCAggregator ----------------------------
(* Aggregator for TLC: one TCP conversation seen from both sides, a scan frame
   without hardware addresses, a frame without a flow, two shards per table. *)
EXTENDS Aggregator, TLC

A == <<1, 443>>
B == <<2, 80>>
AB == [proto |-> "Tcp", src |-> A, dst |-> B]
BA == [proto |-> "Tcp", src |-> B, dst |-> A]

MCFlows == {AB, BA}
MCAddrs == {1, 2}
MCMacs == {"ma", "mb"}

Request == [dir |-> "Tx", flow |-> AB, macs |-> <<"ma", "mb">>, app |-> "Http"]
Reply   == [dir |-> "Rx", flow |-> BA, macs |-> <<"mb", "ma">>, app |-> "Unknown"]
Scan    == [dir |-> "Rx", flow |-> BA, macs |-> NoMacs, app |-> "Unknown"]
Ping    == [dir |-> "Rx", flow |-> NoFlow, macs |-> <<"mb", "mb">>, app |-> "Unknown"]

MCFrames == {Request, Reply, Scan, Ping}

(* The two ends of the conversation hash to different shards. *)
MCFlowShard == AB :> 0 @@ BA :> 1
MCAddrShard == 1 :> 0 @@ 2 :> 1
MCMacShard == "ma" :> 0 @@ "mb" :> 1
=============================================================================
