-------------------------- MODULE StoreConnectionMC --------------------------
(* A hit, a download that is counted, two pages that share a link, and an   *)
(* importer.                                                                *)
EXTENDS StoreConnection, TLC

CONSTANTS hit, usage, page, other, archive

TheRows == {"artifact", "client", "daily", "link1", "link2", "row"}
TheRowsOf ==
  hit :> {"artifact"} @@ usage :> {"client", "daily"} @@
  page :> {"link1", "link2"} @@ other :> {"link2"} @@ archive :> {"row"}
=============================================================================
