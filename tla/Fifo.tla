-------------------------------- MODULE Fifo --------------------------------
(***************************************************************************)
(* What a shared-memory queue promises: a bounded FIFO between the ends    *)
(* attached to it.  Its contents live as long as some end is attached.     *)
(***************************************************************************)
EXTENDS Naturals, Sequences

CONSTANTS
  Data,       \* values that can be pushed
  Bound       \* most values it can hold

VARIABLES
  q,          \* values pushed and not popped
  out,        \* what Pop returned and its caller still holds
  ends        \* ends attached: "prod" and "cons"

fifoVars == <<q, out, ends>>

Init == q = <<>> /\ ends = {} /\ out \notin Data

Attach(e) == e \notin ends /\ ends' = ends \cup {e} /\ UNCHANGED <<q, out>>

Detach(e) ==
  /\ e \in ends /\ ends' = ends \ {e}
  /\ q' = IF ends' = {} THEN <<>> ELSE q
  /\ UNCHANGED out

Push(d) ==
  /\ "prod" \in ends /\ Len(q) < Bound
  /\ q' = Append(q, d)
  /\ UNCHANGED <<out, ends>>

Pop ==
  /\ "cons" \in ends /\ q # <<>>
  /\ out' = Head(q) /\ q' = Tail(q)
  /\ UNCHANGED ends

Forget == out' \notin Data /\ UNCHANGED <<q, ends>>

Next ==
  \/ \E e \in {"prod", "cons"} : Attach(e) \/ Detach(e)
  \/ \E d \in Data : Push(d)
  \/ Pop \/ Forget

Spec == Init /\ [][Next]_fifoVars
=============================================================================
