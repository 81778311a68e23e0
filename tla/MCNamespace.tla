---------------------------- MODULE MCNamespace -----------------------------
(* Instances of Namespace: one volume with a file in a directory and one with WORM entries. *)
EXTENDS Namespace

Obj(uid, isdir, worm) == [uid |-> uid, isdir |-> isdir, worm |-> worm]

TwoLevels ==
  (<< >> :> Obj(1, TRUE, {})) @@ (<<1>> :> Obj(2, TRUE, {})) @@ (<<1, 1>> :> Obj(3, FALSE, {}))
WormVolume ==
  (<< >> :> Obj(1, TRUE, {})) @@ (<<1>> :> Obj(2, TRUE, {"appendonly"})) @@ (<<2>> :> Obj(3, FALSE, {"immutable"}))

Volume(tree, threads, n) == [tree |-> tree, threads |-> threads, ops |-> n]
SomeVolumes == {Volume(TwoLevels, 1, 4), Volume(TwoLevels, 2, 3), Volume(WormVolume, 2, 3)}
=============================================================================
