---------------------------- MODULE MCWebsocket -----------------------------
(***************************************************************************)
(* An instance of Websocket for TLC.  The sockets share a bucket of the    *)
(* hash table.  Masks have two bytes, and lengths 0, 2 and 3 are written   *)
(* in the three forms; a ring starts with two slots, so that two packages  *)
(* in one read make it grow.                                               *)
(***************************************************************************)
EXTENDS Websocket, TLC

CONSTANTS f1, f2

Fds2 == {f1, f2}
OneBucket == [f \in {f1, f2} |-> 0]
FdSymmetry == Permutations(Fds2)

header(op, mask, len) == [op |-> op, mask |-> mask, len |-> len]
data(mask, len) == header("data", mask, len)
Frames6 == {data(FALSE, 0), data(TRUE, 3), data(FALSE, 2),
            header("skip", FALSE, 0), header("skip", TRUE, 0), header("close", TRUE, 0)}

\* Out of step, a byte may look like the beginning of anything, and announce
\* more than MaxPack bytes.
Look6 == [x \in (1..MaxSent) \X (1..9) |->
            CASE x[2] % 3 = 0 -> data(TRUE, 1) [] x[2] % 3 = 1 -> data(FALSE, 4)
              [] OTHER -> header(IF x[2] = 5 THEN "close" ELSE "data", FALSE, 0)]
=============================================================================
