---------------------------- MODULE MCBoltQueue ----------------------------
(* Four items through a bucket whose size moves between one and two, so    *)
(* that a shrink finds more items than fit; two clients, one page from the *)
(* head and one that skips an item.                                        *)
EXTENDS BoltQueue, TLC

MCPages == {<<2, 0>>, <<1, 1>>}
Symmetry == Permutations(Clients)
=============================================================================
