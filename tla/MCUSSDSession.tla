---------------------------- MODULE MCUSSDSession ----------------------------
(***************************************************************************)
(* Small instances of USSDSession for TLC.  The keys of the menus are      *)
(* amounts as well ("0" is none), which is what makes a key sent twice, or *)
(* to the wrong prompt, interesting.                                       *)
(***************************************************************************)
EXTENDS USSDSession

MCInputs == {"0", "1", "2", "3", "4", "text"}
MCValue == [i \in MCInputs |->
              CASE i = "0" -> 0 [] i = "1" -> 1 [] i = "2" -> 2
                [] OTHER -> -1]
=============================================================================
