---------------------------- MODULE MCChannelDB ----------------------------
(* Two clients and a status reader. Three items go through a queue of two,  *)
(* so that it overflows before and while requests take from it. A request   *)
(* asks for two items, from the head or past the first: its page is whole,  *)
(* is cut at the end of the queue, or skips an item.                        *)
EXTENDS ChannelDB

MCPages == {<<2, 0>>, <<2, 1>>}
=============================================================================
