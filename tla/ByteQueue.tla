----------------------------- MODULE ByteQueue -----------------------------
(***************************************************************************)
(* What net::IOBuffer promises its users, without indices or storage: a    *)
(* queue of bytes.  Bytes enter at the back, leave at the front in the     *)
(* order they entered, and may be pushed back in front (Prepend) or        *)
(* withdrawn from the back (Unwrite).  result is the last string or        *)
(* integer that a call handed out.                                         *)
(***************************************************************************)
EXTENDS Integers, Sequences

CONSTANT Byte

VARIABLES content, result

vars == <<content, result>>

\* s occurs in t from position k + 1 on.
OccursAt(s, t, k) ==
    /\ k >= 0
    /\ k + Len(s) <= Len(t)
    /\ \A i \in 1 .. Len(s) : t[k + i] = s[i]

Init == content = <<>> /\ result = <<>>

\* Bytes are added at the back: the old content stays in front.
Enqueue ==
    /\ OccursAt(content, content', 0)
    /\ UNCHANGED result

\* Bytes are put in front: the old content stays at the back.
PushFront ==
    /\ OccursAt(content, content', Len(content') - Len(content))
    /\ UNCHANGED result

\* Drop the first bytes and hand out none, or some, of those dropped.
Dequeue ==
    /\ OccursAt(content', content, Len(content) - Len(content'))
    /\ \/ UNCHANGED result
       \/ /\ OccursAt(result', content, 0)
          /\ Len(result') <= Len(content) - Len(content')

\* Withdraw the last bytes.
Withdraw ==
    /\ OccursAt(content', content, 0)
    /\ UNCHANGED result

Next ==
    /\ content' \in Seq(Byte)
    /\ result' \in Seq(Byte)
    /\ Enqueue \/ PushFront \/ Dequeue \/ Withdraw

Spec == Init /\ [][Next]_vars
=============================================================================
