---------------------------- MODULE MCCliSession ----------------------------
(***************************************************************************)
(* An instance of CliSession: a line for every branch of the client and of *)
(* the server.                                                             *)
(***************************************************************************)
EXTENDS CliSession

AddLpm == <<"add-table", "ipv4_lpm", "ipv4.dst", "4", "discard", "1000">>
AddEntry == <<"add-table-entry", "ipv4_lpm", "10.0.0.1", "32">>
Show == <<"show-afi-objects">>

MCLines ==
    {\* handled by the client: nothing, blanks, help, quit, an unknown command
     <<"">>, <<"", "">>, <<"help">>, <<"quit">>, <<"show">>,
     \* refused by the server: a missing argument, a leading blank
     <<"add-table", "ipv4_lpm">>, <<"", "show-afi-objects">>,
     \* a prefix length that is not a number
     <<"add-table-entry", "ipv4_lpm", "10.0.0.1", "all">>,
     AddLpm, AddEntry, Show}
=============================================================================
