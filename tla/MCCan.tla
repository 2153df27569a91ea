------------------------------- MODULE MCCan -------------------------------
(* The two directions of Can one at a time: a behaviour either sends or     *)
(* receives, with every call on the controller in both.  Three frames, one  *)
(* extended; a filter for both standard ones by its mask and a filter for   *)
(* one of them; two filter slots, which share a hardware bank.              *)
EXTENDS Can

VARIABLE direction

MCVars == <<vars, direction>>

Std(bits) == [id |-> bits, extended |-> FALSE]

MCFrames == {Std({0}), Std({0, 1}), [id |-> {0}, extended |-> TRUE]}

MCFilters ==
    {[id_mask |-> {0}, id_filter |-> {0}, extended |-> FALSE],
     [id_mask |-> {1}, id_filter |-> {2}, extended |-> FALSE]}

MCModes == {"normal", "loopback"}

OneWay ==
    /\ direction = "send" => <<rx, filterVars>>' = <<rx, filterVars>>
    /\ direction = "receive" => txVars' = txVars
    /\ UNCHANGED direction

MCInit == Init /\ direction \in {"send", "receive"}

MCSpec ==
    /\ MCInit
    /\ [][Next /\ OneWay]_MCVars
    /\ WF_MCVars(InCall /\ OneWay)
    /\ WF_MCVars(TxInterrupt /\ OneWay)
    /\ WF_MCVars(Transmit /\ OneWay)
=============================================================================
