-------------------------------- MODULE MCQuic --------------------------------
(***************************************************************************)
(* TLC instance of Quic: three tasks with one call each, one host that     *)
(* moves once.                                                             *)
(***************************************************************************)
EXTENDS Quic

MCUrls == {"here"}
MCKeys == {"a", "b"}
MCRefs == {[url |-> "here", key |-> "a"]}
MCClasses == {"summary", "event"}
=============================================================================
