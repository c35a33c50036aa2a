---------------------------- MODULE MCRelayLog ----------------------------
(* RelayLog for TLC: two files of the master's log, with a transaction, a   *)
(* query that has an Intvar, and events that the slave itself had written. *)
EXTENDS RelayLog

MCMasterLog == << <<"begin", "query", "query", "commit", "own">>, <<"intvar", "query">> >>
=============================================================================
