----------------------------- MODULE Allocator ------------------------------
(***************************************************************************)
(* What the callers of kmalloc and kfree rely on: every pointer they hold  *)
(* is aligned as they asked, and the bytes behind it belong to nobody else.*)
(***************************************************************************)
EXTENDS Integers

CONSTANTS Low, High         \* the bounds of the heap

VARIABLE live               \* pointer -> what was asked for

Init == live = << >>

Disjoint(p, m, q, n) == p + m <= q \/ q + n <= p

Alloc(p, size, align) ==
  /\ p \notin DOMAIN live
  /\ Low <= p /\ p + size <= High
  /\ align # 0 => p % align = 0
  /\ \A q \in DOMAIN live : Disjoint(p, size, q, live[q].size)
  /\ live' = [q \in DOMAIN live \cup {p} |->
                IF q = p THEN [size |-> size, align |-> align] ELSE live[q]]

Free(p) ==
  /\ p \in DOMAIN live
  /\ live' = [q \in DOMAIN live \ {p} |-> live[q]]

Next == \/ \E p \in DOMAIN live' : Alloc(p, live'[p].size, live'[p].align)
        \/ \E p \in DOMAIN live : Free(p)

Spec == Init /\ [][Next]_live
=============================================================================
