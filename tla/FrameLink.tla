----------------------------- MODULE FrameLink ------------------------------
(***************************************************************************)
(* What ZnpApi relies on below it (ZnpRawInterface): a channel that carries *)
(* whole frames, in the order SendFrame was called, and may lose some.  This *)
(* is the link ZnpApi.tla assumes, in each direction.                       *)
(***************************************************************************)
EXTENDS Naturals, Sequences

CONSTANT Frame
VARIABLES queue, received

linkVars == <<queue, received>>

Init == queue = <<>> /\ received = <<>>

Send(f) ==
  /\ queue' = Append(queue, f)
  /\ UNCHANGED received

Deliver ==
  /\ queue # <<>>
  /\ received' = Append(received, Head(queue))
  /\ queue' = Tail(queue)

Lose ==
  /\ queue # <<>>
  /\ queue' = Tail(queue)
  /\ UNCHANGED received

Next == (\E f \in Frame : Send(f)) \/ Deliver \/ Lose

Spec == Init /\ [][Next]_linkVars
=============================================================================
