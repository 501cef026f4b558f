---------------------------- MODULE MC_AgentStream ----------------------------
(* Texts that report, that break off in a report, or that report and then    *)
(* give a correction that does not parse.                                    *)
EXTENDS AgentStream

Texts == {<<"good">>, <<"open">>, <<"good", "bad">>}
===============================================================================
