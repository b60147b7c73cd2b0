----------------------------- MODULE MCSlottedPage -----------------------------
(* A page of six cells, one of them reserved: three short entries fill it.   *)
(* The cached heads of the empty key and of <<0>> collide by zero padding,   *)
(* and keys of the fixed length share the page with another.  The value of   *)
(* <<1>> is rewritten in place, grown and shrunk.                            *)
EXTENDS SlottedPage

MCPairs ==
    { << <<>>, <<>> >>, << <<0>>, <<>> >>,
      << <<1>>, <<>> >>, << <<1>>, <<0>> >>, << <<1>>, <<1>> >> }
MCLinks == {<<1>>}
================================================================================
