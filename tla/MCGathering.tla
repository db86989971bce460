---------------------------- MODULE MCGathering ----------------------------
(* Source lists for model checking Gathering: one that is cut at its pipes, *)
(* one source that is switched off, and a blank between two URLs.           *)
EXTENDS Gathering

On(urls)  == [enabled |-> TRUE, parts |-> urls]
Off(urls) == [enabled |-> FALSE, parts |-> urls]

ThreeFeeds == {<<On(<<"url", "blank", "url">>), Off(<<"url">>), On(<<"url">>)>>}
MixedLists ==
  {<<On(<<"url", "url">>), On(<<"blank">>)>>, <<Off(<<"url">>), On(<<"url">>)>>}
=============================================================================
