---------------------------- MODULE MCRuleEngine ----------------------------
(* Instances of RuleEngine for TLC.                                          *)
EXTENDS RuleEngine

(* A tolerant and an intolerant thread whose insert statements share a name  *)
(* but not a text, on two connections or on one.  The first row of either    *)
(* table always throws, one of them before its alert is inserted, with the   *)
(* statement prepared; behind it are a sound row and one with broken JSON.   *)
MCThreads == {"bpf_file", "win"}
MCRows == 1..4
MCWorker == <<"bpf_file", "win", "bpf_file", "win">>
MCVerdict == << <<"dump", "miss">>, <<"match", "throw">>,
                <<"miss", "match">>, <<"json", "miss">> >>
=============================================================================
