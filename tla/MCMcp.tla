-------------------------------- MODULE MCMcp --------------------------------
(* Small instances of the endpoint: one tool with two versions, and what a *)
(* client does with it.                                                    *)
EXTENDS Mcp

(* The second version asks for something else than the first. *)
TwoForms == <<"first", "second">>

(* A client that looks for two things and then calls, one that calls twice *)
(* at once, and one that asks and reads the list of tools.                 *)
ThreeClients ==
  { << <<"search", "search">>, <<"call">> >>,
    << <<"call", "call">> >>,
    << <<"local", "answer">> >> }

Meets == [lost_reply |-> {"call", "search", "answer"},
          kill |-> {"search", "call", "sandbox", "answer", "mcp"}]
=============================================================================
