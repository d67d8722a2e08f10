--------------------------- MODULE MCIoPluginHost ---------------------------
(***************************************************************************)
(* IoPluginHost with two ports of two values, and libraries that fail at   *)
(* each of the points they can, with all, some or none of the callbacks.   *)
(***************************************************************************)
EXTENDS IoPluginHost

Works == [given |-> TRUE, opens |-> TRUE, exports |-> TRUE, api |-> "match",
          has |-> Callbacks, creates |-> "object"]

MCLibraries ==
  {[Works EXCEPT !.given = FALSE], [Works EXCEPT !.opens = FALSE],
   [Works EXCEPT !.exports = FALSE], [Works EXCEPT !.api = "null"]}
  \union
  {[Works EXCEPT !.api = a, !.creates = c, !.has = Callbacks \ without] :
     a \in {"mismatch", "match"}, c \in {"object", "nothing", "error"},
     without \in {{}, {"create"}, {"destroy"}, {"read_port", "reset"},
                  {"write_port", "after_instruction"}}}
=============================================================================
