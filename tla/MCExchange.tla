----------------------------- MODULE MCExchange -----------------------------
(* Instance of Exchange: requests that are pipelined, joined in one        *)
(* segment, cut in two, and followed by a body.                            *)
EXTENDS Exchange

MCScripts ==
    { << <<"get">>, <<"close">> >>,
      << <<"get", "get">>, <<"head">> >>,
      << <<"start">>, <<"rest">>, <<"get">> >>,
      << <<"post", "body">>, <<"put">>, <<"bad">> >>,
      << <<"post">>, <<"body">>, <<"get">> >> }
=============================================================================
