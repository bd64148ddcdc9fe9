---------------------------- MODULE MCPlayground ----------------------------
(* The playground with a language without and one with a stdin field, of a   *)
(* server that lets its runs pass and of one that asks for a token.          *)
EXTENDS Playground

CONSTANTS t1, t2

MCFilters == {{t1, t2}, {t2}}
MCConfs == {[token |-> FALSE, originListed |-> TRUE],
            [token |-> TRUE, originListed |-> FALSE]}
=============================================================================
