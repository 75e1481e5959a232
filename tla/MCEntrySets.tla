---------------------------- MODULE MCEntrySets ----------------------------
(***************************************************************************)
(* A small instance of AnySets: sets of one to three slots, slots of one *)
(* or two alternatives, verification and payment entries, with and without *)
(* every option, the same credential in two positions and in two sets, on  *)
(* every host level that has entry sets.                                   *)
(***************************************************************************)
EXTENDS AnySets

VEntry(id, link, text, delegation, fields) ==
  [id |-> id, kind |-> "verification", icon |-> "icon", info |-> FALSE, data |-> "json",
   delegation |-> delegation, link |-> link, text |-> text, fields |-> fields]

PEntry(id, info, text) ==
  [id |-> id, kind |-> "payment", icon |-> None, info |-> info, data |-> None,
   delegation |-> None, link |-> FALSE, text |-> text, fields |-> << "f1" >>]

Slots ==
  { << << VEntry("c1", FALSE, FALSE, None, << >>) >> >>,
    << << VEntry("c1", TRUE, TRUE, 1, << "f1", "f2" >>), PEntry("c2", TRUE, FALSE) >>,
       << VEntry("c1", FALSE, TRUE, 0, << "f2" >>) >> >>,
    << << PEntry("c2", TRUE, TRUE) >>,
       << VEntry("c2", TRUE, FALSE, None, << "f1" >>), VEntry("c1", FALSE, FALSE, 0, << >>) >>,
       << PEntry("c2", FALSE, FALSE) >> >> }

MCEntrySet == [id : {"s1", "s2"}, slots : Slots]
=============================================================================
