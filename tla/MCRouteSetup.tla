---------------------------- MODULE MCRouteSetup ----------------------------
(***************************************************************************)
(* Two editions of the ITMS folder: one whose book says one route and has  *)
(* an entry more, with more stations than display files on it; and one of  *)
(* ten routes, of which the last has settings and the first display files. *)
(***************************************************************************)
EXTENDS RouteSetup, TLC

MCRouteCounts == <<1, 10>>
MCEntries == << 0 :> 1 @@ 1 :> 2, [x \in 0 .. 9 |-> x + 1] >>
MCStations == << 1 :> 1 @@ 2 :> 3, 10 :> 2 >>
MCDatFiles == << 1 :> {1, 2} @@ 2 :> {1}, 1 :> {2} >>
MCInputs == {-1, 0, 1, 9, 10, 50}
MCFewInputs == {-1, 1, 10}

=============================================================================
