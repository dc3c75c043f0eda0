---------------------------- MODULE MC_BtWifiMac ----------------------------
(***************************************************************************)
(* Instances of BtWifiMac for TLC.                                         *)
(***************************************************************************)
EXTENDS BtWifiMac

CONSTANTS a, m

\* With and without the file an earlier build left behind.
RandFileContents == {Absent, [wifi |-> a, bt |-> m]}

\* Nothing yet, root copies only, main files only, one of each.
FactoryContents ==
  {[wifi |-> w, bt |-> b, wifi_root |-> wr, bt_root |-> br] :
     <<w, b, wr, br>> \in
       {<<Absent, Absent, Absent, Absent>>, <<Absent, Absent, a, m>>,
        <<a, m, Absent, Absent>>, <<Absent, a, a, Absent>>}}
=============================================================================
