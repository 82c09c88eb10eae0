----------------------------- MODULE HeapProofs -----------------------------
(***************************************************************************)
(* The heap's list stays a chain of blocks that do not overlap, and the    *)
(* heap implements the allocator its callers rely on, for every size of    *)
(* header, page and heap and for all requests.                             *)
(***************************************************************************)
EXTENDS Heap, TLAPS

\* ALIGN_UP gives the multiple of the alignment that is at most align - 1 above.
LEMMA AlignUp ==
  ASSUME NEW x \in Nat, NEW a \in Nat \ {0}
  PROVE  ALIGN_UP(x, a) \in Nat /\ x <= ALIGN_UP(x, a) /\ ALIGN_UP(x, a) % a = 0
<1> DEFINE y == x + (a - 1)
           q == y \div a
<1>1. y \in Nat OBVIOUS
<1> HIDE DEF y
<1>2. q \in Nat /\ y < a * q + a
  BY <1>1
<1> HIDE DEF q
<1>3. (a * q) % a = 0 /\ a * q \in Nat
  BY <1>2
<1>4. x <= a * q
  BY <1>2, <1>3 DEF y
<1> QED BY <1>3, <1>4 DEF ALIGN_UP, q, y

\* The aligned header is at or after the start, and the payload behind it is aligned.
LEMMA AlignedHeader ==
  ASSUME NEW start \in Nat, NEW align \in Nat
  PROVE  /\ aligned_header(start, align) \in Nat /\ start <= aligned_header(start, align)
         /\ align # 0 => (aligned_header(start, align) + HDR) % align = 0
<1> DEFINE p == ALIGN_UP(start + HDR, align)
<1>1. HDR \in Nat /\ start + HDR \in Nat
  BY HeapConstants
<1>2. CASE align = 0
  BY <1>1, <1>2 DEF aligned_header
<1>3. CASE align # 0
  <2>1. p \in Nat /\ start + HDR <= p /\ p % align = 0
    BY <1>1, <1>3, AlignUp
  <2> HIDE DEF p
  <2>2. aligned_header(start, align) = p - HDR
    BY <1>3 DEF aligned_header, p
  <2>3. (p - HDR) + HDR = p
    BY <2>1, <1>1
  <2> QED BY <1>1, <2>1, <2>2, <2>3
<1> QED BY <1>2, <1>3

\* The parts of a header.
LEMMA HeaderParts ==
  ASSUME NEW l, ListType(l), NEW b \in DOMAIN l.hdr
  PROVE  /\ b \in Nat /\ b # NULL /\ heap_base <= b /\ b <= heap_end
         /\ l.hdr[b] \in Header /\ l.hdr[b].size \in Nat /\ l.hdr[b].free \in BOOLEAN
         /\ l.hdr[b].next \in Nat /\ l.hdr[b].prev \in Nat
         /\ block_end(l, b) \in Nat /\ b + HDR <= block_end(l, b)
<1>1. b \in Addresses /\ l.hdr[b] \in Header
  BY DEF ListType
<1>2. b \in Nat /\ b # NULL /\ heap_base <= b /\ b <= heap_end
  BY <1>1, HeapConstants DEF Addresses, NULL
<1>3. /\ l.hdr[b].size \in Nat /\ l.hdr[b].free \in BOOLEAN
      /\ l.hdr[b].next \in Addresses \cup {NULL} /\ l.hdr[b].prev \in Addresses \cup {NULL}
  BY <1>1 DEF Header
<1>4. l.hdr[b].next \in Nat /\ l.hdr[b].prev \in Nat
  BY <1>3, HeapConstants DEF Addresses, NULL
<1>5. block_end(l, b) \in Nat /\ b + HDR <= block_end(l, b)
  BY <1>2, <1>3, HeapConstants DEF block_end
<1> QED BY <1>1, <1>2, <1>3, <1>4, <1>5

\* What the operations need of a list.
Good(l, end) == ListType(l) /\ Linked(l) /\ Apart(l) /\ Below(l, end)

\* An address inside a block is not the address of a header.
LEMMA InsideNoHeader ==
  ASSUME NEW l, NEW end, Good(l, end), NEW a \in DOMAIN l.hdr, NEW b \in Nat, a < b, b < block_end(l, a)
  PROVE  b \notin DOMAIN l.hdr
<1> SUFFICES ASSUME b \in DOMAIN l.hdr PROVE FALSE
  OBVIOUS
<1>1. a \in Nat /\ block_end(l, a) \in Nat
  BY HeaderParts DEF Good
<1>2. block_end(l, a) <= b
  BY DEF Good, Apart
<1> QED BY <1>1, <1>2

\* The list after a block has been divided, header by header.
LEMMA LinkShape ==
  ASSUME NEW l, NEW a \in DOMAIN l.hdr, NEW b, b # a,
         NEW m, m = LinkBehind(l, a, b)
  PROVE  /\ m = [hdr |-> m.hdr, head |-> m.head, tail |-> m.tail]
         /\ m.head = l.head /\ m.tail = IF l.tail = a THEN b ELSE l.tail
         /\ DOMAIN m.hdr = DOMAIN l.hdr \cup {b}
         /\ m.hdr = [x \in DOMAIN m.hdr |-> m.hdr[x]]
         /\ m.hdr[b] = [size |-> block_end(l, a) - (b + HDR), next |-> l.hdr[a].next, prev |-> a, free |-> TRUE]
         /\ m.hdr[a] = [size |-> b - (a + HDR), next |-> b, prev |-> l.hdr[a].prev, free |-> l.hdr[a].free]
         /\ \A x \in DOMAIN l.hdr \ {a, b} :
              /\ x = l.hdr[a].next =>
                   m.hdr[x] = [l.hdr[x] EXCEPT !.prev = b]
              /\ x # l.hdr[a].next => m.hdr[x] = l.hdr[x]
<1> DEFINE next == l.hdr[a].next
           F(x) == IF x = b THEN [size |-> block_end(l, a) - (b + HDR), next |-> next, prev |-> a, free |-> TRUE]
                     ELSE IF x = a THEN [size |-> b - (a + HDR), next |-> b, prev |-> l.hdr[a].prev, free |-> l.hdr[a].free]
                     ELSE IF x = next THEN [l.hdr[x] EXCEPT !.prev = b]
                     ELSE l.hdr[x]
           D == DOMAIN l.hdr \cup {b}
<1>1. m = [hdr |-> [x \in D |-> F(x)], head |-> l.head, tail |-> IF l.tail = a THEN b ELSE l.tail]
  BY Zenon DEF LinkBehind
<1>2. F(b) = [size |-> block_end(l, a) - (b + HDR), next |-> next, prev |-> a, free |-> TRUE]
  OBVIOUS
<1>3. F(a) = [size |-> b - (a + HDR), next |-> b, prev |-> l.hdr[a].prev, free |-> l.hdr[a].free]
  OBVIOUS
<1>4. \A x : x \notin {a, b} =>
        /\ x = next => F(x) = [l.hdr[x] EXCEPT !.prev = b]
        /\ x # next => F(x) = l.hdr[x]
  OBVIOUS
<1> HIDE DEF F, D
<1>5. m.hdr = [x \in D |-> F(x)] /\ m.head = l.head /\ m.tail = IF l.tail = a THEN b ELSE l.tail
  BY <1>1
<1>6. m = [hdr |-> m.hdr, head |-> m.head, tail |-> m.tail]
  BY <1>1
<1>7. DOMAIN m.hdr = D /\ \A x \in D : m.hdr[x] = F(x)
  BY <1>5
<1>8. m.hdr = [x \in DOMAIN m.hdr |-> m.hdr[x]]
  BY <1>5
<1>9. a \in D /\ b \in D /\ DOMAIN l.hdr \subseteq D /\ D = DOMAIN l.hdr \cup {b}
  BY DEF D
<1> HIDE DEF next
<1>10. m.hdr[b] = F(b) /\ m.hdr[a] = F(a) /\ \A x \in DOMAIN l.hdr \ {a, b} : m.hdr[x] = F(x)
  BY <1>7, <1>9
<1> QED BY <1>2, <1>3, <1>4, <1>5, <1>6, <1>7, <1>8, <1>9, <1>10 DEF next

\* What has become of list l when b was split off block a.
Divided(l, end, a, b, m) ==
  /\ Good(m, end)
  /\ b \notin DOMAIN l.hdr /\ DOMAIN m.hdr = DOMAIN l.hdr \cup {b}
  /\ m.hdr[b].free = TRUE /\ block_end(m, b) = block_end(l, a) /\ block_end(m, a) = b
  /\ \A x \in DOMAIN l.hdr : m.hdr[x].free = l.hdr[x].free
  /\ \A x \in DOMAIN l.hdr \ {a} : m.hdr[x].size = l.hdr[x].size

\* Dividing a block in two keeps a good list good and changes no other block's extent.
LEMMA LinkGood ==
  ASSUME NEW l, NEW end \in Nat, Good(l, end), end <= heap_end,
         NEW a \in DOMAIN l.hdr, NEW b \in Nat, a + HDR <= b, b + HDR <= block_end(l, a),
         NEW m, m = LinkBehind(l, a, b)
  PROVE  Divided(l, end, a, b, m)
<1> DEFINE next == l.hdr[a].next
           B == DOMAIN l.hdr
<1>0. ListType(l) /\ Linked(l) /\ Apart(l) /\ Below(l, end)
  BY DEF Good
<1>1. /\ HDR \in Nat \ {0} /\ heap_base \in Nat \ {0} /\ heap_end \in Nat
      /\ \A x \in B : /\ x \in Nat /\ x # NULL /\ heap_base <= x /\ x <= heap_end
                      /\ l.hdr[x] \in Header /\ l.hdr[x].size \in Nat /\ l.hdr[x].free \in BOOLEAN
                      /\ l.hdr[x].next \in Nat /\ l.hdr[x].prev \in Nat
                      /\ block_end(l, x) \in Nat /\ x + HDR <= block_end(l, x)
  BY <1>0, HeaderParts, HeapConstants
<1>2. a < b /\ b < block_end(l, a)
  BY <1>1
<1>3. b \notin B
  BY <1>2, InsideNoHeader
<1>4. /\ m = [hdr |-> m.hdr, head |-> m.head, tail |-> m.tail]
      /\ m.head = l.head /\ m.tail = IF l.tail = a THEN b ELSE l.tail
      /\ DOMAIN m.hdr = B \cup {b}
      /\ m.hdr = [x \in DOMAIN m.hdr |-> m.hdr[x]]
      /\ m.hdr[b] = [size |-> block_end(l, a) - (b + HDR), next |-> next, prev |-> a, free |-> TRUE]
      /\ m.hdr[a] = [size |-> b - (a + HDR), next |-> b, prev |-> l.hdr[a].prev, free |-> l.hdr[a].free]
      /\ \A x \in B \ {a, b} :
           /\ x = next =>
                m.hdr[x] = [l.hdr[x] EXCEPT !.prev = b]
           /\ x # next => m.hdr[x] = l.hdr[x]
  BY <1>2, <1>1, LinkShape
<1>41. \A x \in B \ {a} : /\ m.hdr[x].size = l.hdr[x].size /\ m.hdr[x].next = l.hdr[x].next
                          /\ m.hdr[x].free = l.hdr[x].free
                          /\ m.hdr[x].prev = IF x = next THEN b ELSE l.hdr[x].prev
  <2> SUFFICES ASSUME NEW x \in B \ {a}
               PROVE  /\ m.hdr[x].size = l.hdr[x].size /\ m.hdr[x].next = l.hdr[x].next
                      /\ m.hdr[x].free = l.hdr[x].free
                      /\ m.hdr[x].prev = IF x = next THEN b ELSE l.hdr[x].prev
    OBVIOUS
  <2>1. x \in B \ {a, b}
    BY <1>3
  <2>2. CASE x = next
    <3>1. m.hdr[x] = [l.hdr[x] EXCEPT !.prev = b]
      BY <2>1, <2>2, <1>4
    <3>2. l.hdr[x] \in Header BY <1>1
    <3> QED BY <2>2, <3>1, <3>2 DEF Header
  <2>3. CASE x # next BY <2>1, <2>3, <1>4
  <2> QED BY <2>2, <2>3
<1>5. block_end(l, a) <= heap_end
  BY <1>0, <1>1 DEF Below
<1>6. b \in Addresses /\ b # NULL /\ b <= heap_end
  BY <1>1, <1>2, <1>5 DEF Addresses, NULL
<1>7. ListType(m)
  <2>1. m.hdr[b] \in Header /\ m.hdr[a] \in Header
    <3>1. /\ block_end(l, a) - (b + HDR) \in Nat /\ b - (a + HDR) \in Nat /\ a \in Addresses
          /\ next \in Addresses \cup {NULL} /\ l.hdr[a].prev \in Addresses \cup {NULL}
      BY <1>0, <1>1 DEF Header, ListType
    <3> QED BY <3>1, <1>1, <1>4, <1>6 DEF Header
  <2>2. \A x \in B \ {a, b} : m.hdr[x] \in Header
    <3> SUFFICES ASSUME NEW x \in B \ {a, b} PROVE m.hdr[x] \in Header
      OBVIOUS
    <3>1. CASE x = next
      <4>1. l.hdr[x].size \in Nat /\ l.hdr[x].next \in Addresses \cup {NULL} /\ l.hdr[x].free \in BOOLEAN
        BY <1>1 DEF Header
      <4>2. m.hdr[x] = [l.hdr[x] EXCEPT !.prev = b]
        BY <3>1, <1>4
      <4>3. l.hdr[x] \in Header BY <1>1
      <4> QED BY <4>2, <4>3, <1>6 DEF Header
    <3>2. CASE x # next BY <3>2, <1>1, <1>4
    <3> QED BY <3>1, <3>2
  <2>3. \A x \in DOMAIN m.hdr : m.hdr[x] \in Header
    BY <1>4, <2>1, <2>2
  <2>4. DOMAIN m.hdr \subseteq Addresses
    BY <1>0, <1>4, <1>6 DEF ListType
  <2> QED BY <1>4, <2>3, <2>4 DEF ListType
<1>8. /\ block_end(m, b) = block_end(l, a) /\ block_end(m, a) = b
      /\ \A x \in B \ {a} : m.hdr[x].size = l.hdr[x].size /\ block_end(m, x) = block_end(l, x)
      /\ \A x \in B : m.hdr[x].free = l.hdr[x].free
  <2>1. m.hdr[b].size = block_end(l, a) - (b + HDR) /\ m.hdr[a].size = b - (a + HDR) /\ m.hdr[a].free = l.hdr[a].free
    BY <1>4
  <2>2. block_end(m, b) = block_end(l, a) /\ block_end(m, a) = b
    BY <2>1, <1>1 DEF block_end
  <2> QED BY <2>1, <2>2, <1>41 DEF block_end
<1>9. Apart(m)
  <2>1. \A x \in B \ {a} : x < a => block_end(l, x) <= a
    BY <1>0 DEF Apart
  <2>2. \A x \in B : a < x => block_end(l, a) <= x
    BY <1>0 DEF Apart
  <2>3. \A x \in B \ {a} : (x < b => block_end(l, x) <= a) /\ (b < x => block_end(l, a) <= x)
    BY <1>1, <1>2, <2>1, <2>2
  <2>4. \A x, y \in B \ {a} : x < y => block_end(l, x) <= y
    BY <1>0 DEF Apart
  <2>5. ASSUME NEW x \in B \cup {b}, NEW y \in B \cup {b}, x < y
        PROVE  block_end(m, x) <= y
    <3>1. CASE x \in B \ {a} /\ y \in B \ {a}
      BY <3>1, <2>4, <2>5, <1>8
    <3>2. CASE x = a
      BY <3>2, <2>5, <2>2, <1>1, <1>2, <1>8
    <3>3. CASE x = b
      BY <3>3, <2>5, <2>3, <1>1, <1>2, <1>8
    <3>4. CASE y = a /\ x \in B \ {a}
      BY <3>4, <2>5, <2>1, <1>8
    <3>5. CASE y = b /\ x \in B \ {a}
      BY <3>5, <2>5, <2>3, <1>1, <1>2, <1>8
    <3> QED BY <3>1, <3>2, <3>3, <3>4, <3>5
  <2> QED BY <2>5, <1>4 DEF Apart
<1>10. Below(m, end)
  BY <1>0, <1>1, <1>2, <1>4, <1>8 DEF Below
<1>11. Linked(m)
  <2>1. /\ b # NULL /\ a # NULL /\ a # b /\ l.head \in B /\ l.tail \in B
        /\ l.head # NULL /\ l.tail # NULL /\ l.head # b /\ l.tail # b
    BY <1>0, <1>1, <1>2, <1>3, <1>6 DEF Linked
  <2>2. ASSUME NEW x \in B
        PROVE  /\ x = l.head <=> l.hdr[x].prev = NULL
               /\ x = l.tail <=> l.hdr[x].next = NULL
               /\ l.hdr[x].next # NULL => l.hdr[x].next \in B /\ l.hdr[l.hdr[x].next].prev = x /\ x < l.hdr[x].next
               /\ l.hdr[x].prev # NULL => l.hdr[x].prev \in B /\ l.hdr[l.hdr[x].prev].next = x /\ l.hdr[x].prev < x
    BY <1>0 DEF Linked
  <2>3. next # NULL => next \in B /\ next # a /\ b < next
    BY <1>0, <1>1, <1>2, <2>2 DEF Apart
  <2> DEFINE OK(x) ==
        LET n == m.hdr[x].next
            p == m.hdr[x].prev IN
        /\ x = m.head <=> p = NULL
        /\ x = m.tail <=> n = NULL
        /\ n # NULL => n \in DOMAIN m.hdr /\ m.hdr[n].prev = x /\ x < n
        /\ p # NULL => p \in DOMAIN m.hdr /\ m.hdr[p].next = x /\ p < x
  <2>4. OK(b)
    <3>1. m.hdr[b].next = next /\ m.hdr[b].prev = a /\ m.hdr[a].next = b
      BY <1>4
    <3>2. next # NULL => m.hdr[next].prev = b
      BY <2>3, <1>41
    <3>3. b = m.tail <=> next = NULL
      BY <1>4, <2>1, <2>2
    <3> QED BY <3>1, <3>2, <3>3, <2>1, <2>3, <1>2, <1>4
  <2>5. OK(a)
    <3>1. m.hdr[a].next = b /\ m.hdr[a].prev = l.hdr[a].prev /\ m.hdr[b].prev = a
      BY <1>4
    <3> DEFINE p == l.hdr[a].prev
    <3>2. p # NULL => p \in B /\ p # a /\ l.hdr[p].next = a /\ p < a
      BY <2>2, <1>1
    <3>3. p # NULL => m.hdr[p].next = a
      BY <3>2, <1>41
    <3>4. a = m.head <=> p = NULL
      BY <1>4, <2>2
    <3>5. a # m.tail
      BY <1>4, <2>1
    <3> HIDE DEF p
    <3> QED BY <3>1, <3>2, <3>3, <3>4, <3>5, <2>1, <1>2, <1>4 DEF p
  <2>6. ASSUME NEW x \in B \ {a} PROVE OK(x)
    <3> DEFINE n == l.hdr[x].next
               p == l.hdr[x].prev
    <3>1. m.hdr[x].next = n /\ m.hdr[x].prev = IF x = next THEN b ELSE p
      BY <1>41
    <3>2. n # NULL => n \in B /\ n # next /\ l.hdr[n].prev = x /\ x < n
      BY <2>2, <2>6
    <3>3. n # NULL => m.hdr[n].prev = x
      <4>1. n # NULL /\ n # a => m.hdr[n].prev = x BY <3>2, <1>41
      <4>2. n = a => m.hdr[n].prev = x
        <5>1. m.hdr[a].prev = l.hdr[a].prev BY <1>4
        <5> QED BY <5>1, <3>2, <2>1
      <4> QED BY <4>1, <4>2
    <3>4. x = m.tail <=> n = NULL
      BY <1>3, <1>4, <2>2, <2>1
    <3>5. CASE x = next
      <4>1. p = a /\ x # l.head
        BY <3>5, <2>2, <2>3, <1>1
      <4> HIDE DEF n, p
      <4> QED BY <4>1, <3>1, <3>2, <3>3, <3>4, <3>5, <2>1, <2>3, <1>1, <1>4
    <3>6. CASE x # next
      <4>1. p # NULL => p \in B /\ p # a /\ l.hdr[p].next = x /\ p < x
        BY <3>6, <2>2
      <4>2. p # NULL => m.hdr[p].next = x
        BY <4>1, <1>41
      <4>3. x = m.head <=> p = NULL
        BY <1>4, <2>2
      <4> HIDE DEF n, p
      <4> QED BY <4>1, <4>2, <4>3, <3>1, <3>2, <3>3, <3>4, <3>6, <1>4
    <3> QED BY <3>5, <3>6
  <2>7. \A x \in DOMAIN m.hdr : OK(x)
    BY <2>4, <2>5, <2>6, <1>4
  <2>8. m.head \in DOMAIN m.hdr /\ m.tail \in DOMAIN m.hdr /\ m.head # NULL /\ m.tail # NULL
    BY <2>1, <1>4
  <2> HIDE DEF OK
  <2>9. DOMAIN m.hdr # {}
    BY <1>4
  <2> QED BY <2>7, <2>8, <2>9 DEF Linked, OK
<1>12. Good(m, end)
  BY <1>7, <1>9, <1>10, <1>11 DEF Good
<1>13. m.hdr[b].free = TRUE
  BY <1>4
<1> QED BY <1>3, <1>4, <1>8, <1>12, <1>13 DEF Divided

\* The list after two blocks have become one, header by header.
Merged(l, a, b, m) ==
  /\ m = [hdr |-> m.hdr, head |-> m.head, tail |-> m.tail]
  /\ m.head = l.head /\ m.tail = IF l.tail = b THEN a ELSE l.tail
  /\ DOMAIN m.hdr = DOMAIN l.hdr \ {b}
  /\ m.hdr = [x \in DOMAIN m.hdr |-> m.hdr[x]]
  /\ m.hdr[a] = [size |-> l.hdr[a].size + HDR + l.hdr[b].size, next |-> l.hdr[b].next,
                 prev |-> l.hdr[a].prev, free |-> l.hdr[a].free]
  /\ \A x \in DOMAIN l.hdr \ {a, b} :
       /\ x = l.hdr[b].next => m.hdr[x] = [l.hdr[x] EXCEPT !.prev = a]
       /\ x # l.hdr[b].next => m.hdr[x] = l.hdr[x]

\* kfree's unlinking of the following block gives that list.
LEMMA MergeShape ==
  ASSUME NEW l, NEW a \in DOMAIN l.hdr, NEW b, b = l.hdr[a].next, b # a,
         NEW m, m = MergeNext(l, a)
  PROVE  Merged(l, a, b, m)
<1> DEFINE next == l.hdr[b].next
           F(x) == IF x = a THEN [size |-> l.hdr[a].size + HDR + l.hdr[b].size, next |-> next,
                                  prev |-> l.hdr[a].prev, free |-> l.hdr[a].free]
                   ELSE IF x = next THEN [l.hdr[x] EXCEPT !.prev = a]
                   ELSE l.hdr[x]
           D == DOMAIN l.hdr \ {b}
<1>1. m = [hdr |-> [x \in D |-> F(x)], head |-> l.head, tail |-> IF l.tail = b THEN a ELSE l.tail]
  BY Zenon DEF MergeNext
<1>2. F(a) = [size |-> l.hdr[a].size + HDR + l.hdr[b].size, next |-> next,
              prev |-> l.hdr[a].prev, free |-> l.hdr[a].free]
  OBVIOUS
<1>3. \A x : x # a => /\ x = next => F(x) = [l.hdr[x] EXCEPT !.prev = a]
                      /\ x # next => F(x) = l.hdr[x]
  OBVIOUS
<1> HIDE DEF F, D
<1>4. m.hdr = [x \in D |-> F(x)] /\ m.head = l.head /\ m.tail = IF l.tail = b THEN a ELSE l.tail
  BY <1>1
<1>5. m = [hdr |-> m.hdr, head |-> m.head, tail |-> m.tail]
  BY <1>1
<1>6. DOMAIN m.hdr = D /\ \A x \in D : m.hdr[x] = F(x)
  BY <1>4
<1>7. m.hdr = [x \in DOMAIN m.hdr |-> m.hdr[x]]
  BY <1>4
<1>8. a \in D /\ D = DOMAIN l.hdr \ {b}
  BY DEF D
<1> HIDE DEF next
<1>9. m.hdr[a] = F(a) /\ \A x \in DOMAIN l.hdr \ {a, b} : m.hdr[x] = F(x)
  BY <1>6, <1>8
<1> QED BY <1>2, <1>3, <1>4, <1>5, <1>6, <1>7, <1>8, <1>9 DEF next, Merged

\* What has become of list l when block b was joined to a.
Joined(l, end, a, b, m) ==
  /\ Good(m, end)
  /\ a # b /\ b \in DOMAIN l.hdr /\ DOMAIN m.hdr = DOMAIN l.hdr \ {b}
  /\ l.hdr[a].size <= m.hdr[a].size
  /\ \A x \in DOMAIN m.hdr : m.hdr[x].free = l.hdr[x].free
  /\ \A x \in DOMAIN m.hdr \ {a} : m.hdr[x].size = l.hdr[x].size

\* Joining a block with the one right behind it keeps a good list good and changes no
\* other block's extent.
LEMMA MergeGood ==
  ASSUME NEW l, NEW end \in Nat, Good(l, end), end <= heap_end,
         NEW a \in DOMAIN l.hdr, NEW b, b = l.hdr[a].next, b # NULL, block_end(l, a) = b,
         NEW m, m = MergeNext(l, a)
  PROVE  Joined(l, end, a, b, m)
<1> DEFINE next == l.hdr[b].next
           B == DOMAIN l.hdr
<1>0. ListType(l) /\ Linked(l) /\ Apart(l) /\ Below(l, end)
  BY DEF Good
<1>1. /\ HDR \in Nat \ {0} /\ heap_base \in Nat \ {0} /\ heap_end \in Nat
      /\ \A x \in B : /\ x \in Nat /\ x # NULL /\ heap_base <= x /\ x <= heap_end
                      /\ l.hdr[x] \in Header /\ l.hdr[x].size \in Nat /\ l.hdr[x].free \in BOOLEAN
                      /\ l.hdr[x].next \in Nat /\ l.hdr[x].prev \in Nat
                      /\ block_end(l, x) \in Nat /\ x + HDR <= block_end(l, x)
  BY <1>0, HeaderParts, HeapConstants
<1>2. \A x \in B :
        /\ x = l.head <=> l.hdr[x].prev = NULL
        /\ x = l.tail <=> l.hdr[x].next = NULL
        /\ l.hdr[x].next # NULL => l.hdr[x].next \in B /\ l.hdr[l.hdr[x].next].prev = x /\ x < l.hdr[x].next
        /\ l.hdr[x].prev # NULL => l.hdr[x].prev \in B /\ l.hdr[l.hdr[x].prev].next = x /\ l.hdr[x].prev < x
  BY <1>0 DEF Linked
<1>3. b \in B /\ a < b /\ a # b /\ l.hdr[b].prev = a
  BY <1>1, <1>2
<1>4. /\ m = [hdr |-> m.hdr, head |-> m.head, tail |-> m.tail]
      /\ m.head = l.head /\ m.tail = IF l.tail = b THEN a ELSE l.tail
      /\ DOMAIN m.hdr = B \ {b}
      /\ m.hdr = [x \in DOMAIN m.hdr |-> m.hdr[x]]
      /\ m.hdr[a] = [size |-> l.hdr[a].size + HDR + l.hdr[b].size, next |-> next,
                     prev |-> l.hdr[a].prev, free |-> l.hdr[a].free]
      /\ \A x \in B \ {a, b} :
           /\ x = next => m.hdr[x] = [l.hdr[x] EXCEPT !.prev = a]
           /\ x # next => m.hdr[x] = l.hdr[x]
  <2>1. m = MergeNext(l, a) /\ a \in DOMAIN l.hdr /\ b = l.hdr[a].next /\ b # a
    BY <1>3
  <2>2. Merged(l, a, b, m)
    BY <2>1, MergeShape
  <2> QED BY <2>2 DEF Merged
<1>5. next # NULL => next \in B \ {a, b} /\ l.hdr[next].prev = b /\ b < next
  BY <1>1, <1>2, <1>3
<1>6. \A x \in B \ {a, b} : /\ m.hdr[x].size = l.hdr[x].size /\ m.hdr[x].next = l.hdr[x].next
                            /\ m.hdr[x].free = l.hdr[x].free
                            /\ m.hdr[x].prev = IF x = next THEN a ELSE l.hdr[x].prev
                            /\ m.hdr[x] \in Header
  <2> SUFFICES ASSUME NEW x \in B \ {a, b}
               PROVE  /\ m.hdr[x].size = l.hdr[x].size /\ m.hdr[x].next = l.hdr[x].next
                      /\ m.hdr[x].free = l.hdr[x].free
                      /\ m.hdr[x].prev = IF x = next THEN a ELSE l.hdr[x].prev
                      /\ m.hdr[x] \in Header
    OBVIOUS
  <2>1. CASE x = next
    <3>1. m.hdr[x] = [l.hdr[x] EXCEPT !.prev = a] BY <2>1, <1>4
    <3>2. l.hdr[x] \in Header /\ a \in Addresses BY <1>0, <1>1 DEF ListType
    <3> QED BY <2>1, <3>1, <3>2 DEF Header
  <2>2. CASE x # next BY <2>2, <1>1, <1>4
  <2> QED BY <2>1, <2>2
<1>7. /\ m.hdr[a].size = l.hdr[a].size + HDR + l.hdr[b].size /\ m.hdr[a].next = next
      /\ m.hdr[a].prev = l.hdr[a].prev /\ m.hdr[a].free = l.hdr[a].free
  <2>1. m.hdr[a] = [size |-> l.hdr[a].size + HDR + l.hdr[b].size, next |-> next,
                    prev |-> l.hdr[a].prev, free |-> l.hdr[a].free]
    BY <1>4
  <2> QED BY <2>1
<1>8. ListType(m)
  <2>1. m.hdr[a] \in Header
    <3>1. next \in Addresses \cup {NULL} /\ l.hdr[a].prev \in Addresses \cup {NULL}
      BY <1>1, <1>3 DEF Header
    <3>2. l.hdr[a].size + HDR + l.hdr[b].size \in Nat
      BY <1>1, <1>3
    <3> QED BY <3>1, <3>2, <1>1, <1>4 DEF Header
  <2>2. \A x \in DOMAIN m.hdr : m.hdr[x] \in Header
    BY <1>4, <1>6, <2>1
  <2>3. DOMAIN m.hdr \subseteq Addresses
    BY <1>0, <1>4 DEF ListType
  <2> QED BY <1>4, <2>2, <2>3 DEF ListType
<1>9. /\ block_end(m, a) = block_end(l, b) /\ l.hdr[a].size <= m.hdr[a].size
      /\ \A x \in B \ {a, b} : block_end(m, x) = block_end(l, x)
  <2>1. block_end(m, a) = block_end(l, b) /\ l.hdr[a].size <= m.hdr[a].size
    BY <1>1, <1>3, <1>7 DEF block_end
  <2> QED BY <2>1, <1>6 DEF block_end
<1>10. Apart(m)
  <2>1. ASSUME NEW x \in B \ {b}, NEW y \in B \ {b}, x < y
        PROVE  block_end(m, x) <= y
    <3>1. block_end(l, x) <= y
      BY <2>1, <1>0 DEF Apart
    <3>2. CASE x = a
      <4>1. b < y BY <3>1, <3>2, <1>1, <1>3
      <4>2. block_end(l, b) <= y BY <4>1, <1>0, <1>3 DEF Apart
      <4> QED BY <4>2, <3>2, <1>9
    <3>3. CASE x # a BY <3>1, <3>3, <1>9
    <3> QED BY <3>2, <3>3
  <2> QED BY <2>1, <1>4 DEF Apart
<1>11. Below(m, end)
  <2>1. \A x \in B : block_end(l, x) <= end BY <1>0 DEF Below
  <2> QED BY <2>1, <1>3, <1>4, <1>9 DEF Below
<1>12. Linked(m)
  <2>1. l.head \in B /\ l.tail \in B /\ l.head # NULL /\ l.tail # NULL /\ l.head # b /\ l.tail # a
    BY <1>0, <1>1, <1>2, <1>3 DEF Linked
  <2> DEFINE OK(x) ==
        LET n == m.hdr[x].next
            p == m.hdr[x].prev IN
        /\ x = m.head <=> p = NULL
        /\ x = m.tail <=> n = NULL
        /\ n # NULL => n \in DOMAIN m.hdr /\ m.hdr[n].prev = x /\ x < n
        /\ p # NULL => p \in DOMAIN m.hdr /\ m.hdr[p].next = x /\ p < x
  <2>2. OK(a)
    <3> DEFINE p == l.hdr[a].prev
    <3>1. p # NULL => p \in B \ {a, b} /\ l.hdr[p].next = a /\ p < a
      BY <1>1, <1>2, <1>3
    <3>2. p # NULL => m.hdr[p].next = a
      BY <3>1, <1>6
    <3>3. next # NULL => m.hdr[next].prev = a /\ a < next
      BY <1>1, <1>3, <1>5, <1>6
    <3>4. a = m.head <=> p = NULL
      BY <1>2, <1>4
    <3>5. a = m.tail <=> next = NULL
      BY <1>2, <1>3, <1>4, <2>1
    <3> HIDE DEF p, next
    <3> QED BY <3>1, <3>2, <3>3, <3>4, <3>5, <1>4, <1>5, <1>7 DEF p
  <2>3. ASSUME NEW x \in B \ {a, b} PROVE OK(x)
    <3> DEFINE n == l.hdr[x].next
               p == l.hdr[x].prev
    <3>1. m.hdr[x].next = n /\ m.hdr[x].prev = IF x = next THEN a ELSE p
      BY <1>6
    <3>2. n # NULL => n \in B \ {b} /\ n # next /\ l.hdr[n].prev = x /\ x < n
      BY <1>2, <1>3, <1>5, <2>3
    <3>3. n # NULL => m.hdr[n].prev = x
      <4>1. n # NULL /\ n # a => m.hdr[n].prev = x BY <3>2, <1>6
      <4>2. n # NULL /\ n = a => m.hdr[n].prev = x BY <3>2, <1>7
      <4> QED BY <4>1, <4>2
    <3>4. x = m.tail <=> n = NULL
      BY <1>2, <1>4, <2>1
    <3>5. CASE x = next
      <4>1. x # l.head /\ a < x /\ a # NULL
        BY <3>5, <1>1, <1>2, <1>3, <1>5
      <4>2. m.hdr[a].next = x BY <3>5, <1>7
      <4> HIDE DEF n, p, next
      <4> QED BY <4>1, <4>2, <3>1, <3>2, <3>3, <3>4, <3>5, <1>3, <1>4
    <3>6. CASE x # next
      <4>1. p # NULL => p \in B \ {b} /\ p # a /\ l.hdr[p].next = x /\ p < x
        BY <3>6, <1>2, <2>3
      <4>2. p # NULL => m.hdr[p].next = x
        BY <4>1, <1>6
      <4>3. x = m.head <=> p = NULL
        BY <1>2, <1>4
      <4> HIDE DEF n, p, next
      <4> QED BY <4>1, <4>2, <4>3, <3>1, <3>2, <3>3, <3>4, <3>6, <1>4
    <3> QED BY <3>5, <3>6
  <2>4. \A x \in DOMAIN m.hdr : OK(x)
    BY <2>2, <2>3, <1>4
  <2>5. m.head \in DOMAIN m.hdr /\ m.tail \in DOMAIN m.hdr /\ m.head # NULL /\ m.tail # NULL
    BY <2>1, <1>1, <1>3, <1>4
  <2> HIDE DEF OK
  <2>6. DOMAIN m.hdr # {}
    BY <2>5
  <2> QED BY <2>4, <2>5, <2>6 DEF Linked, OK
<1>13. Good(m, end)
  BY <1>8, <1>10, <1>11, <1>12 DEF Good
<1> QED BY <1>3, <1>4, <1>6, <1>7, <1>9, <1>13 DEF Joined

\* A header whose links stay and whose block still ends before the next one may change.
LEMMA SetHeaderGood ==
  ASSUME NEW l, NEW end \in Nat, Good(l, end), NEW end2 \in Nat, end <= end2,
         NEW b \in DOMAIN l.hdr, NEW h \in Header,
         h.next = l.hdr[b].next, h.prev = l.hdr[b].prev, b + HDR + h.size <= end2,
         \A x \in DOMAIN l.hdr : b < x => b + HDR + h.size <= x
  PROVE  LET m == SetHeader(l, b, h) IN
         /\ Good(m, end2) /\ DOMAIN m.hdr = DOMAIN l.hdr
         /\ m.hdr[b] = h /\ \A x \in DOMAIN l.hdr \ {b} : m.hdr[x] = l.hdr[x]
<1> DEFINE m == SetHeader(l, b, h)
           B == DOMAIN l.hdr
<1>1. ListType(l) /\ Linked(l) /\ Apart(l) /\ Below(l, end)
  BY DEF Good
<1>2. /\ m = [hdr |-> m.hdr, head |-> m.head, tail |-> m.tail]
      /\ m.hdr = [l.hdr EXCEPT ![b] = h] /\ m.head = l.head /\ m.tail = l.tail
  BY DEF SetHeader
<1> HIDE DEF m
<1>3. /\ DOMAIN m.hdr = B /\ m.hdr[b] = h /\ \A x \in B \ {b} : m.hdr[x] = l.hdr[x]
      /\ m.hdr \in [B -> Header]
  BY <1>1, <1>2 DEF ListType
<1>4. ListType(m)
  BY <1>1, <1>2, <1>3 DEF ListType
<1>5. \A x \in B : m.hdr[x].next = l.hdr[x].next /\ m.hdr[x].prev = l.hdr[x].prev
  BY <1>3
<1>6. Linked(m)
  BY <1>1, <1>2, <1>3, <1>5 DEF Linked
<1>7. /\ block_end(m, b) = b + HDR + h.size
      /\ \A x \in B \ {b} : block_end(m, x) = block_end(l, x)
  BY <1>3 DEF block_end
<1>8. \A x \in B : block_end(l, x) \in Nat /\ block_end(l, x) <= end
  BY <1>1, HeaderParts DEF Below
<1>9. Apart(m)
  BY <1>1, <1>3, <1>7 DEF Apart
<1>10. Below(m, end2)
  BY <1>3, <1>7, <1>8 DEF Below
<1> QED BY <1>3, <1>4, <1>6, <1>9, <1>10 DEF Good, m

\* What has become of list l when block b was marked.
Marked(l, end, b, free, m) ==
  /\ Good(m, end) /\ DOMAIN m.hdr = DOMAIN l.hdr
  /\ m.hdr[b].free = free /\ m.hdr[b].size = l.hdr[b].size
  /\ m.hdr[b].next = l.hdr[b].next /\ m.hdr[b].prev = l.hdr[b].prev
  /\ \A x \in DOMAIN l.hdr \ {b} : m.hdr[x] = l.hdr[x]

\* Marking a block free or used.
LEMMA SetFreeGood ==
  ASSUME NEW l, NEW end \in Nat, Good(l, end), NEW b \in DOMAIN l.hdr, NEW free \in BOOLEAN,
         NEW m, m = SetFree(l, b, free)
  PROVE  Marked(l, end, b, free, m)
<1> DEFINE h == [l.hdr[b] EXCEPT !.free = free]
<1>1. l.hdr[b] \in Header
  BY HeaderParts DEF Good
<1>2. /\ h \in Header /\ h.next = l.hdr[b].next /\ h.prev = l.hdr[b].prev
      /\ h.size = l.hdr[b].size /\ h.free = free
  BY <1>1 DEF Header
<1> HIDE DEF h
<1>3. b + HDR + h.size = block_end(l, b)
  BY <1>2 DEF block_end
<1>4. b + HDR + h.size <= end /\ \A x \in DOMAIN l.hdr : b < x => b + HDR + h.size <= x
  BY <1>3 DEF Good, Below, Apart
<1>5. SetFree(l, b, free) = SetHeader(l, b, h)
  BY DEF SetFree, h
<1>6. end <= end
  OBVIOUS
<1> QED BY <1>2, <1>4, <1>5, <1>6, SetHeaderGood DEF Marked

\* What has become of list l when its last block b took n bytes.
Grown(l, end, b, n, m) ==
  /\ Good(m, end + n) /\ DOMAIN m.hdr = DOMAIN l.hdr
  /\ m.hdr[b].free = l.hdr[b].free /\ l.hdr[b].size <= m.hdr[b].size
  /\ \A x \in DOMAIN l.hdr \ {b} : m.hdr[x] = l.hdr[x]

\* The last block takes the gap behind it.
LEMMA GrowGood ==
  ASSUME NEW l, NEW end \in Nat, Good(l, end), NEW b \in DOMAIN l.hdr, block_end(l, b) = end,
         NEW n \in Nat,
         NEW m, m = Grow(l, b, n)
  PROVE  Grown(l, end, b, n, m)
<1> DEFINE h == [l.hdr[b] EXCEPT !.size = @ + n]
<1>1. l.hdr[b] \in Header /\ l.hdr[b].size \in Nat /\ b \in Nat /\ HDR \in Nat \ {0}
  BY HeaderParts, HeapConstants DEF Good
<1>2. /\ h \in Header /\ h.next = l.hdr[b].next /\ h.prev = l.hdr[b].prev
      /\ h.size = l.hdr[b].size + n /\ h.free = l.hdr[b].free
  BY <1>1 DEF Header
<1> HIDE DEF h
<1>3. b + HDR + h.size = end + n
  BY <1>1, <1>2 DEF block_end
<1>4. ASSUME NEW x \in DOMAIN l.hdr, b < x PROVE FALSE
  <2>1. block_end(l, b) <= x /\ block_end(l, x) <= end
    BY <1>4 DEF Good, Apart, Below
  <2>2. x \in Nat /\ block_end(l, x) \in Nat /\ x + HDR <= block_end(l, x)
    BY HeaderParts DEF Good
  <2> QED BY <1>1, <2>1, <2>2
<1>5. Grow(l, b, n) = SetHeader(l, b, h)
  BY DEF Grow, h
<1>6. end + n \in Nat /\ end <= end + n /\ b + HDR + h.size <= end + n
  BY <1>3
<1>7. l.hdr[b].size <= h.size
  BY <1>1, <1>2
<1> QED BY <1>2, <1>4, <1>5, <1>6, <1>7, SetHeaderGood DEF Grown

\* The list with one more block at its end, header by header.
Appended(l, b, size, free, m) ==
  /\ m = [hdr |-> m.hdr, head |-> m.head, tail |-> b]
  /\ m.head = (IF l.tail = NULL THEN b ELSE l.head) /\ m.tail = b
  /\ DOMAIN m.hdr = DOMAIN l.hdr \cup {b}
  /\ m.hdr = [x \in DOMAIN m.hdr |-> m.hdr[x]]
  /\ m.hdr[b] = [size |-> size, next |-> NULL, prev |-> l.tail, free |-> free]
  /\ \A x \in DOMAIN l.hdr \ {b} :
       /\ x = l.tail => m.hdr[x] = [l.hdr[x] EXCEPT !.next = b]
       /\ x # l.tail => m.hdr[x] = l.hdr[x]

\* The linking at the end of allocate_new_block gives that list.
LEMMA AppendShape ==
  ASSUME NEW l, NEW b, NEW size, NEW free, NEW m, m = AppendBlock(l, b, size, free)
  PROVE  Appended(l, b, size, free, m)
<1> DEFINE F(x) == IF x = b THEN [size |-> size, next |-> NULL, prev |-> l.tail, free |-> free]
                   ELSE IF x = l.tail THEN [l.hdr[x] EXCEPT !.next = b]
                   ELSE l.hdr[x]
           D == DOMAIN l.hdr \cup {b}
           H == IF l.tail = NULL THEN b ELSE l.head
<1>1. m = [hdr |-> [x \in D |-> F(x)], head |-> H, tail |-> b]
  BY Zenon DEF AppendBlock
<1>2. F(b) = [size |-> size, next |-> NULL, prev |-> l.tail, free |-> free]
  OBVIOUS
<1>3. \A x : x # b => /\ x = l.tail => F(x) = [l.hdr[x] EXCEPT !.next = b]
                      /\ x # l.tail => F(x) = l.hdr[x]
  OBVIOUS
<1> HIDE DEF F, D, H
<1>4. m.hdr = [x \in D |-> F(x)] /\ m.head = H /\ m.tail = b
  BY <1>1
<1>5. m = [hdr |-> m.hdr, head |-> m.head, tail |-> b]
  BY <1>1
<1>6. DOMAIN m.hdr = D /\ \A x \in D : m.hdr[x] = F(x)
  BY <1>4
<1>7. m.hdr = [x \in DOMAIN m.hdr |-> m.hdr[x]]
  BY <1>4
<1>8. b \in D /\ D = DOMAIN l.hdr \cup {b}
  BY DEF D
<1>9. m.hdr[b] = F(b) /\ \A x \in DOMAIN l.hdr \ {b} : m.hdr[x] = F(x)
  BY <1>6, <1>8
<1> QED BY <1>2, <1>3, <1>4, <1>5, <1>6, <1>7, <1>8, <1>9 DEF Appended, H

\* What has become of list l when block b was put behind it.
Added(l, b, size, free, m) ==
  /\ Good(m, b + HDR + size)
  /\ b \notin DOMAIN l.hdr /\ DOMAIN m.hdr = DOMAIN l.hdr \cup {b}
  /\ m.hdr[b].free = free /\ m.hdr[b].size = size
  /\ \A x \in DOMAIN l.hdr : m.hdr[x].free = l.hdr[x].free /\ m.hdr[x].size = l.hdr[x].size

\* A block put behind the end of a good list keeps it good and changes no other extent.
LEMMA AppendGood ==
  ASSUME NEW l, NEW end \in Nat, Good(l, end),
         NEW b \in Addresses, end <= b, NEW size \in Nat, NEW free \in BOOLEAN,
         NEW m, m = AppendBlock(l, b, size, free)
  PROVE  Added(l, b, size, free, m)
<1> DEFINE B == DOMAIN l.hdr
           t == l.tail
<1>0. ListType(l) /\ Linked(l) /\ Apart(l) /\ Below(l, end)
  BY DEF Good
<1>1. /\ HDR \in Nat \ {0} /\ b \in Nat /\ b # NULL
      /\ \A x \in B : /\ x \in Nat /\ x # NULL
                      /\ l.hdr[x] \in Header /\ l.hdr[x].size \in Nat /\ l.hdr[x].free \in BOOLEAN
                      /\ block_end(l, x) \in Nat /\ x + HDR <= block_end(l, x)
  BY <1>0, HeaderParts, HeapConstants DEF Addresses, NULL
<1>2. \A x \in B : block_end(l, x) <= b /\ x < b
  BY <1>0, <1>1 DEF Below
<1>3. b \notin B
  BY <1>1, <1>2
<1>4. Appended(l, b, size, free, m)
  BY AppendShape
<1>5. \A x \in B : /\ m.hdr[x].size = l.hdr[x].size /\ m.hdr[x].prev = l.hdr[x].prev
                   /\ m.hdr[x].free = l.hdr[x].free /\ m.hdr[x] \in Header
                   /\ m.hdr[x].next = IF x = t THEN b ELSE l.hdr[x].next
  <2> SUFFICES ASSUME NEW x \in B
               PROVE  /\ m.hdr[x].size = l.hdr[x].size /\ m.hdr[x].prev = l.hdr[x].prev
                      /\ m.hdr[x].free = l.hdr[x].free /\ m.hdr[x] \in Header
                      /\ m.hdr[x].next = IF x = t THEN b ELSE l.hdr[x].next
    OBVIOUS
  <2>1. x \in B \ {b} /\ l.hdr[x] \in Header
    BY <1>1, <1>3
  <2>2. CASE x = t
    <3>1. m.hdr[x] = [l.hdr[x] EXCEPT !.next = b]
      BY <2>1, <2>2, <1>4 DEF Appended
    <3> QED BY <2>1, <2>2, <3>1 DEF Header
  <2>3. CASE x # t
    BY <2>1, <2>3, <1>4 DEF Appended
  <2> QED BY <2>2, <2>3
<1>6. /\ m.hdr[b].size = size /\ m.hdr[b].next = NULL /\ m.hdr[b].prev = t /\ m.hdr[b].free = free
      /\ DOMAIN m.hdr = B \cup {b} /\ m.tail = b /\ m.head = (IF t = NULL THEN b ELSE l.head)
      /\ m = [hdr |-> m.hdr, head |-> m.head, tail |-> m.tail]
      /\ m.hdr = [x \in DOMAIN m.hdr |-> m.hdr[x]]
      /\ m.hdr[b] = [size |-> size, next |-> NULL, prev |-> t, free |-> free]
  BY <1>4 DEF Appended
<1>7. t = NULL \/ t \in B
  BY <1>0 DEF Linked
<1>8. ListType(m)
  <2>1. t \in Addresses \cup {NULL} /\ B \subseteq Addresses
    BY <1>0, <1>7 DEF ListType
  <2>2. m.hdr[b] \in Header
    BY <1>6, <2>1 DEF Header
  <2>3. \A x \in DOMAIN m.hdr : m.hdr[x] \in Header
    BY <2>2, <1>5, <1>6
  <2> QED BY <1>6, <2>1, <2>3 DEF ListType
<1>9. block_end(m, b) = b + HDR + size /\ \A x \in B : block_end(m, x) = block_end(l, x)
  BY <1>5, <1>6 DEF block_end
<1>10. Apart(m)
  <2>1. ASSUME NEW x \in B \cup {b}, NEW y \in B \cup {b}, x < y PROVE block_end(m, x) <= y
    <3>1. CASE x = b
      BY <3>1, <2>1, <1>1, <1>2
    <3>2. CASE x \in B /\ y = b
      BY <3>2, <1>2, <1>9
    <3>3. CASE x \in B /\ y \in B
      BY <3>3, <2>1, <1>0, <1>9 DEF Apart
    <3> QED BY <3>1, <3>2, <3>3
  <2> QED BY <2>1, <1>6 DEF Apart
<1>11. Below(m, b + HDR + size)
  BY <1>1, <1>2, <1>6, <1>9 DEF Below
<1>12. Linked(m)
  <2>1. \A x \in B :
          /\ x = l.head <=> l.hdr[x].prev = NULL
          /\ x = t <=> l.hdr[x].next = NULL
          /\ l.hdr[x].next # NULL => l.hdr[x].next \in B /\ l.hdr[l.hdr[x].next].prev = x /\ x < l.hdr[x].next
          /\ l.hdr[x].prev # NULL => l.hdr[x].prev \in B /\ l.hdr[l.hdr[x].prev].next = x /\ l.hdr[x].prev < x
    BY <1>0 DEF Linked
  <2>2. (t = NULL <=> B = {}) /\ (B # {} => l.head \in B /\ l.head # NULL)
    BY <1>0 DEF Linked
  <2> DEFINE OK(x) ==
        LET n == m.hdr[x].next
            p == m.hdr[x].prev IN
        /\ x = m.head <=> p = NULL
        /\ x = m.tail <=> n = NULL
        /\ n # NULL => n \in DOMAIN m.hdr /\ m.hdr[n].prev = x /\ x < n
        /\ p # NULL => p \in DOMAIN m.hdr /\ m.hdr[p].next = x /\ p < x
  <2>3. OK(b)
    <3>1. b = m.head <=> t = NULL
      BY <1>3, <1>6, <2>2
    <3>2. t # NULL => t \in B /\ m.hdr[t].next = b /\ t < b
      BY <1>2, <1>5, <1>7
    <3> QED BY <3>1, <3>2, <1>6
  <2>4. ASSUME NEW x \in B PROVE OK(x)
    <3> DEFINE n == l.hdr[x].next
               p == l.hdr[x].prev
    <3>1. m.hdr[x].next = (IF x = t THEN b ELSE n) /\ m.hdr[x].prev = p
      BY <1>5
    <3>2. x # b /\ t # NULL /\ m.head = l.head
      BY <1>3, <1>6, <2>2
    <3>3. p # NULL => p \in B /\ p # t /\ m.hdr[p].next = x /\ p < x
      BY <2>1, <1>1, <1>5
    <3>4. x # t => n # NULL /\ n \in B /\ m.hdr[n].prev = x /\ x < n
      BY <2>1, <1>5
    <3>5. x = l.head <=> p = NULL
      BY <2>1
    <3>6. x < b
      BY <1>2
    <3> HIDE DEF n, p
    <3> QED BY <3>1, <3>2, <3>3, <3>4, <3>5, <3>6, <1>1, <1>6
  <2>5. \A x \in DOMAIN m.hdr : OK(x)
    BY <2>3, <2>4, <1>6
  <2>6. m.head \in DOMAIN m.hdr /\ m.tail \in DOMAIN m.hdr /\ m.head # NULL /\ m.tail # NULL
    BY <2>2, <1>1, <1>6
  <2> HIDE DEF OK
  <2>7. DOMAIN m.hdr # {}
    BY <1>6
  <2> QED BY <2>5, <2>6, <2>7 DEF Linked, OK
<1> QED BY <1>3, <1>5, <1>6, <1>8, <1>10, <1>11, <1>12 DEF Good, Added

\* From list l to list m the used blocks stay used and none of them shrinks.
SameUsed(l, m) == Used(m) = Used(l) /\ \A x \in Used(l) : l.hdr[x].size <= m.hdr[x].size

\* FillGap keeps the list good up to the start of the new block, and the used blocks.
LEMMA FillGapGood ==
  ASSUME NEW l, NEW end \in Addresses, Good(l, end), NEW gap \in Nat
  PROVE  LET m == FillGap(l, end, gap) IN Good(m, end + gap) /\ SameUsed(l, m)
<1> DEFINE m == FillGap(l, end, gap)
<1>1. /\ HDR \in Nat \ {0} /\ MIN_BLOCK_SIZE \in Nat /\ HDR <= MIN_BLOCK_SIZE /\ end \in Nat
      /\ \A x \in DOMAIN l.hdr : l.hdr[x].size \in Nat
  BY HeaderParts, HeapConstants DEF MIN_BLOCK_SIZE, Addresses, Good
<1>2. CASE gap >= MIN_BLOCK_SIZE
  <2>1. m = AppendBlock(l, end, gap - HDR, TRUE)
    BY <1>2 DEF FillGap
  <2>2. gap - HDR \in Nat /\ end <= end /\ end + HDR + (gap - HDR) = end + gap
    BY <1>1, <1>2
  <2> HIDE DEF m
  <2>3. /\ Good(m, end + HDR + (gap - HDR)) /\ end \notin DOMAIN l.hdr
        /\ DOMAIN m.hdr = DOMAIN l.hdr \cup {end} /\ m.hdr[end].free = TRUE
        /\ \A x \in DOMAIN l.hdr : m.hdr[x].free = l.hdr[x].free /\ m.hdr[x].size = l.hdr[x].size
    <3>1. Added(l, end, gap - HDR, TRUE, m)
      BY <1>1, <2>1, <2>2, AppendGood
    <3> QED BY <3>1 DEF Added
  <2>4. Good(m, end + gap)
    BY <2>2, <2>3
  <2>5. Used(m) = Used(l)
    BY <2>3 DEF Used
  <2>6. \A x \in Used(l) : l.hdr[x].size <= m.hdr[x].size
    BY <1>1, <2>3 DEF Used
  <2> QED BY <2>4, <2>5, <2>6 DEF SameUsed, m
<1>3. CASE /\ ~(gap >= MIN_BLOCK_SIZE) /\ gap > 0 /\ l.tail # NULL
           /\ l.hdr[l.tail].free /\ blocks_adjacent(l, l.tail, end)
  <2>1. m = Grow(l, l.tail, gap)
    BY <1>3 DEF FillGap
  <2>2. l.tail \in DOMAIN l.hdr /\ block_end(l, l.tail) = end
    BY <1>3 DEF Good, Linked, blocks_adjacent
  <2> HIDE DEF m
  <2>3. /\ Good(m, end + gap) /\ DOMAIN m.hdr = DOMAIN l.hdr
        /\ m.hdr[l.tail].free = l.hdr[l.tail].free /\ l.hdr[l.tail].size <= m.hdr[l.tail].size
        /\ \A x \in DOMAIN l.hdr \ {l.tail} : m.hdr[x] = l.hdr[x]
    <3>1. Grown(l, end, l.tail, gap, m)
      BY <1>1, <2>1, <2>2, GrowGood
    <3> QED BY <3>1 DEF Grown
  <2>4. Used(m) = Used(l)
    BY <2>3 DEF Used
  <2>5. \A x \in Used(l) : l.hdr[x].size <= m.hdr[x].size
    BY <1>1, <2>3 DEF Used
  <2> QED BY <2>3, <2>4, <2>5 DEF SameUsed, m
<1>4. CASE /\ ~(gap >= MIN_BLOCK_SIZE)
           /\ ~(gap > 0 /\ l.tail # NULL /\ l.hdr[l.tail].free /\ blocks_adjacent(l, l.tail, end))
  <2>1. m = l
    BY <1>4 DEF FillGap
  <2>2. \A x \in DOMAIN l.hdr : block_end(l, x) \in Nat /\ block_end(l, x) <= end
    BY HeaderParts DEF Good, Below
  <2>3. Below(l, end + gap)
    BY <1>1, <2>2 DEF Below
  <2>4. \A x \in Used(l) : l.hdr[x].size <= l.hdr[x].size
    BY <1>1 DEF Used
  <2> QED BY <2>1, <2>3, <2>4 DEF SameUsed, Good
<1> QED BY <1>2, <1>3, <1>4

\* Dividing a free block keeps the used blocks.
LEMMA LinkUsed ==
  ASSUME NEW l, NEW end, Good(l, end), NEW a \in DOMAIN l.hdr, l.hdr[a].free,
         NEW b, NEW m, Divided(l, end, a, b, m)
  PROVE  SameUsed(l, m)
<1>1. /\ b \notin DOMAIN l.hdr /\ DOMAIN m.hdr = DOMAIN l.hdr \cup {b} /\ m.hdr[b].free = TRUE
      /\ \A x \in DOMAIN l.hdr : m.hdr[x].free = l.hdr[x].free
      /\ \A x \in DOMAIN l.hdr \ {a} : m.hdr[x].size = l.hdr[x].size
  BY DEF Divided
<1>2. Used(m) = Used(l)
  BY <1>1 DEF Used
<1>3. \A x \in Used(l) : x \in DOMAIN l.hdr \ {a} /\ l.hdr[x].size \in Nat
  BY HeaderParts DEF Used, Good
<1>4. \A x \in Used(l) : l.hdr[x].size <= m.hdr[x].size
  BY <1>1, <1>3
<1> QED BY <1>2, <1>4 DEF SameUsed

\* A free block that fits becomes a used one, large enough, and the other used blocks stay.
LEMMA AllocateGood ==
  ASSUME NEW l, NEW end \in Nat, Good(l, end), end <= heap_end,
         NEW b \in DOMAIN l.hdr, l.hdr[b].free, NEW h \in Nat, b <= h,
         h = b \/ h - b >= MIN_BLOCK_SIZE, NEW size \in Nat, h + HDR + size <= block_end(l, b)
  PROVE  LET m == allocate_from_block(l, b, h, size) IN
         /\ Good(m, end) /\ h \notin Used(l) /\ Used(m) = Used(l) \cup {h}
         /\ size <= m.hdr[h].size /\ \A x \in Used(l) : l.hdr[x].size <= m.hdr[x].size
<1> DEFINE l1 == IF h = b THEN l ELSE LinkBehind(l, b, h)
           l2 == split_block(l1, h, size)
           m == SetFree(l2, h, FALSE)
<1>1. /\ HDR \in Nat \ {0} /\ MIN_BLOCK_SIZE \in Nat /\ HDR <= MIN_BLOCK_SIZE
      /\ b \in Nat /\ block_end(l, b) \in Nat
  BY HeaderParts, HeapConstants DEF MIN_BLOCK_SIZE, Good
<1>2. /\ Good(l1, end) /\ h \in DOMAIN l1.hdr /\ l1.hdr[h].free /\ block_end(l1, h) = block_end(l, b)
      /\ SameUsed(l, l1) /\ h \notin Used(l)
  <2>1. CASE h = b
    <3>1. \A x \in Used(l) : l.hdr[x].size <= l.hdr[x].size
      BY HeaderParts DEF Used, Good
    <3> QED BY <2>1, <3>1 DEF SameUsed, Used
  <2>2. CASE h # b
    <3>1. b + HDR <= h /\ h + HDR <= block_end(l, b)
      BY <1>1, <2>2
    <3>2. l1 = LinkBehind(l, b, h)
      BY <2>2
    <3> HIDE DEF l1
    <3>5. Divided(l, end, b, h, l1)
      BY <3>1, <3>2, LinkGood
    <3>3. SameUsed(l, l1)
      BY <3>5, LinkUsed
    <3>4. /\ Good(l1, end) /\ h \notin DOMAIN l.hdr /\ DOMAIN l1.hdr = DOMAIN l.hdr \cup {h}
          /\ l1.hdr[h].free = TRUE /\ block_end(l1, h) = block_end(l, b)
      BY <3>5 DEF Divided
    <3> QED BY <3>3, <3>4 DEF Used
  <2> QED BY <2>1, <2>2
<1> HIDE DEF l1
<1>3. l1.hdr[h].size \in Nat /\ size <= l1.hdr[h].size
  <2>1. l1.hdr[h].size \in Nat
    BY <1>2, HeaderParts DEF Good
  <2>2. block_end(l1, h) = h + HDR + l1.hdr[h].size
    BY DEF block_end
  <2> QED BY <2>1, <2>2, <1>1, <1>2
<1>4. /\ Good(l2, end) /\ h \in DOMAIN l2.hdr /\ l2.hdr[h].free /\ size <= l2.hdr[h].size
      /\ SameUsed(l1, l2)
  <2>1. CASE l1.hdr[h].size - size < MIN_BLOCK_SIZE
    <3>1. l2 = l1
      BY <2>1 DEF split_block
    <3>2. \A x \in Used(l1) : l1.hdr[x].size <= l1.hdr[x].size
      BY <1>2, HeaderParts DEF Used, Good
    <3> QED BY <3>1, <3>2, <1>2, <1>3 DEF SameUsed
  <2>2. CASE ~(l1.hdr[h].size - size < MIN_BLOCK_SIZE)
    <3> DEFINE c == h + HDR + size
    <3>1. l2 = LinkBehind(l1, h, c)
      BY <2>2 DEF split_block
    <3>2. block_end(l1, h) = h + HDR + l1.hdr[h].size
      BY DEF block_end
    <3>3. c \in Nat /\ h + HDR <= c /\ c + HDR <= block_end(l1, h)
      BY <3>2, <2>2, <1>1, <1>3
    <3> HIDE DEF l2, c
    <3>9. Divided(l1, end, h, c, l2)
      BY <3>1, <3>3, <1>2, LinkGood
    <3>4. SameUsed(l1, l2)
      BY <3>9, <1>2, LinkUsed
    <3>5. /\ Good(l2, end) /\ DOMAIN l2.hdr = DOMAIN l1.hdr \cup {c} /\ block_end(l2, h) = c
          /\ \A x \in DOMAIN l1.hdr : l2.hdr[x].free = l1.hdr[x].free
      BY <3>9 DEF Divided
    <3>6. l2.hdr[h].size \in Nat
      BY <3>5, <1>2, HeaderParts DEF Good
    <3>7. h + HDR + l2.hdr[h].size = h + HDR + size
      BY <3>5 DEF block_end, c
    <3>8. size <= l2.hdr[h].size
      BY <3>6, <3>7, <1>1
    <3> QED BY <3>4, <3>5, <3>8, <1>2
  <2> QED BY <2>1, <2>2
<1> HIDE DEF l2
<1>5. /\ Good(m, end) /\ DOMAIN m.hdr = DOMAIN l2.hdr
      /\ m.hdr[h].free = FALSE /\ m.hdr[h].size = l2.hdr[h].size
      /\ \A x \in DOMAIN l2.hdr \ {h} : m.hdr[x] = l2.hdr[x]
  <2>1. Marked(l2, end, h, FALSE, m)
    BY <1>4, SetFreeGood
  <2> QED BY <2>1 DEF Marked
<1>6. allocate_from_block(l, b, h, size) = m
  BY DEF allocate_from_block, l1, l2
<1> HIDE DEF m
<1>7. Used(m) = Used(l2) \cup {h}
  BY <1>4, <1>5 DEF Used
<1>8. Used(l2) = Used(l)
  BY <1>2, <1>4 DEF SameUsed
<1>9. \A x \in Used(l) : l.hdr[x].size <= m.hdr[x].size
  <2> SUFFICES ASSUME NEW x \in Used(l) PROVE l.hdr[x].size <= m.hdr[x].size
    OBVIOUS
  <2>1. x \in Used(l1) /\ x \in Used(l2) /\ x # h
    BY <1>2, <1>4 DEF SameUsed
  <2>2. l.hdr[x].size <= l1.hdr[x].size /\ l1.hdr[x].size <= l2.hdr[x].size
    BY <2>1, <1>2, <1>4 DEF SameUsed
  <2>3. l.hdr[x].size \in Nat /\ l1.hdr[x].size \in Nat /\ l2.hdr[x].size \in Nat
    BY <2>1, <1>2, <1>4, HeaderParts DEF Used, Good
  <2>4. m.hdr[x] = l2.hdr[x]
    BY <2>1, <1>5 DEF Used
  <2> QED BY <2>2, <2>3, <2>4
<1>10. size <= m.hdr[h].size
  BY <1>4, <1>5
<1> QED BY <1>2, <1>5, <1>6, <1>7, <1>8, <1>9, <1>10

\* Joining a free block to the one before it keeps the used blocks.
LEMMA JoinUsed ==
  ASSUME NEW l, NEW end, Good(l, end), NEW a \in DOMAIN l.hdr, NEW b, l.hdr[b].free,
         NEW m, Joined(l, end, a, b, m)
  PROVE  SameUsed(l, m)
<1>1. /\ DOMAIN m.hdr = DOMAIN l.hdr \ {b} /\ l.hdr[a].size <= m.hdr[a].size
      /\ \A x \in DOMAIN m.hdr : m.hdr[x].free = l.hdr[x].free
      /\ \A x \in DOMAIN m.hdr \ {a} : m.hdr[x].size = l.hdr[x].size
  BY DEF Joined
<1>2. Used(m) = Used(l)
  BY <1>1 DEF Used
<1>3. \A x \in Used(l) : x \in DOMAIN m.hdr /\ l.hdr[x].size \in Nat
  BY <1>1, HeaderParts DEF Used, Good
<1>4. \A x \in Used(l) : l.hdr[x].size <= m.hdr[x].size
  BY <1>1, <1>3
<1> QED BY <1>2, <1>4 DEF SameUsed

\* A list has the same used blocks as itself.
LEMMA SameUsedRefl ==
  ASSUME NEW l, NEW end, Good(l, end)
  PROVE  SameUsed(l, l)
<1>1. \A x \in Used(l) : l.hdr[x].size \in Nat
  BY HeaderParts DEF Used, Good
<1> QED BY <1>1 DEF SameUsed

\* kfree makes one block free, joined with its free neighbours, and keeps the others.
LEMMA FreeGood ==
  ASSUME NEW l, NEW end \in Nat, Good(l, end), end <= heap_end, NEW b \in Used(l),
         NEW m, m = MergeBefore(MergeAfter(SetFree(l, b, TRUE), b), b)
  PROVE  /\ Good(m, end) /\ Used(m) = Used(l) \ {b}
         /\ \A x \in Used(m) : l.hdr[x].size <= m.hdr[x].size
<1> DEFINE l1 == SetFree(l, b, TRUE)
           l2 == MergeAfter(l1, b)
<1>1. b \in DOMAIN l.hdr
  BY DEF Used
<1>2. /\ Good(l1, end) /\ DOMAIN l1.hdr = DOMAIN l.hdr
      /\ l1.hdr[b].free = TRUE /\ l1.hdr[b].size = l.hdr[b].size
      /\ \A x \in DOMAIN l.hdr \ {b} : l1.hdr[x] = l.hdr[x]
  <2>1. Marked(l, end, b, TRUE, l1)
    BY <1>1, SetFreeGood
  <2> QED BY <2>1 DEF Marked
<1>3. m = MergeBefore(l2, b)
  OBVIOUS
<1> HIDE DEF l1
<1>4. Used(l1) = Used(l) \ {b} /\ \A x \in Used(l1) : l1.hdr[x].size = l.hdr[x].size
  BY <1>2 DEF Used
<1>5. Good(l2, end) /\ SameUsed(l1, l2) /\ b \in DOMAIN l2.hdr
  <2> DEFINE n == l1.hdr[b].next
  <2>1. CASE n # NULL /\ l1.hdr[n].free /\ blocks_adjacent(l1, b, n)
    <3>1. l2 = MergeNext(l1, b)
      BY <2>1 DEF MergeAfter
    <3> HIDE DEF l2
    <3>2. block_end(l1, b) = n
      BY <2>1 DEF blocks_adjacent
    <3>3. Joined(l1, end, b, n, l2)
      BY <2>1, <3>1, <3>2, <1>1, <1>2, MergeGood
    <3>4. SameUsed(l1, l2)
      BY <2>1, <3>3, <1>1, <1>2, JoinUsed
    <3> QED BY <3>3, <3>4, <1>1, <1>2 DEF Joined
  <2>2. CASE ~(n # NULL /\ l1.hdr[n].free /\ blocks_adjacent(l1, b, n))
    <3>1. l2 = l1
      BY <2>2 DEF MergeAfter
    <3> QED BY <3>1, <1>1, <1>2, SameUsedRefl
  <2> QED BY <2>1, <2>2
<1> HIDE DEF l2
<1>6. l2.hdr[b].free
  <2>1. b \notin Used(l2)
    BY <1>4, <1>5 DEF SameUsed
  <2>2. l2.hdr[b].free \in BOOLEAN
    BY <1>5, HeaderParts DEF Good
  <2> QED BY <2>1, <2>2, <1>5 DEF Used
<1>7. Good(m, end) /\ SameUsed(l2, m)
  <2> DEFINE p == l2.hdr[b].prev
  <2>1. CASE p # NULL /\ l2.hdr[p].free /\ blocks_adjacent(l2, p, b)
    <3>1. m = MergeNext(l2, p)
      BY <2>1, <1>3 DEF MergeBefore
    <3>2. p \in DOMAIN l2.hdr /\ l2.hdr[p].next = b
      BY <2>1, <1>5 DEF Good, Linked
    <3>3. b # NULL
      BY <1>5, HeaderParts DEF Good
    <3>4. block_end(l2, p) = b
      BY <2>1 DEF blocks_adjacent
    <3> HIDE DEF p
    <3>5. Joined(l2, end, p, b, m)
      BY <3>1, <3>2, <3>3, <3>4, <1>5, MergeGood
    <3>6. SameUsed(l2, m)
      BY <3>2, <3>5, <1>5, <1>6, JoinUsed
    <3> QED BY <3>5, <3>6 DEF Joined
  <2>2. CASE ~(p # NULL /\ l2.hdr[p].free /\ blocks_adjacent(l2, p, b))
    <3>1. m = l2
      BY <2>2, <1>3 DEF MergeBefore
    <3> QED BY <3>1, <1>5, SameUsedRefl
  <2> QED BY <2>1, <2>2
<1>8. Used(m) = Used(l1)
  BY <1>5, <1>7 DEF SameUsed
<1>9. ASSUME NEW x \in Used(m) PROVE l.hdr[x].size <= m.hdr[x].size
  <2>1. x \in Used(l1) /\ x \in Used(l2)
    BY <1>5, <1>7 DEF SameUsed
  <2>2. l1.hdr[x].size <= l2.hdr[x].size /\ l2.hdr[x].size <= m.hdr[x].size
    BY <2>1, <1>5, <1>7 DEF SameUsed
  <2>3. l1.hdr[x].size \in Nat /\ l2.hdr[x].size \in Nat /\ m.hdr[x].size \in Nat
    BY <2>1, <1>2, <1>5, <1>7, HeaderParts DEF Used, Good
  <2>4. l1.hdr[x].size = l.hdr[x].size
    BY <2>1, <1>4
  <2>5. \A i, j, k \in Nat : i <= j /\ j <= k => i <= k
    OBVIOUS
  <2> QED BY ONLY <2>2, <2>3, <2>4, <2>5
<1> QED BY <1>4, <1>7, <1>8, <1>9

-----------------------------------------------------------------------------
(* The steps of the heap *)

\* The inductive invariant: what is checked, without the bound on holes.
IInv == TypeOK /\ ListOK /\ HeldBlocks /\ CurrMapped

\* A request whose block has been found or made is held by its caller.
LEMMA HoldStep ==
  ASSUME IInv, NEW h \in Nat, NEW size \in Nat, NEW align \in Nat,
         Hold(h + HDR, size, align), heap_curr' \in Addresses,
         Good(list', heap_curr'), h \notin Used(list), Used(list') = Used(list) \cup {h},
         size <= list'.hdr[h].size,
         \A x \in Used(list) : list.hdr[x].size <= list'.hdr[x].size
  PROVE  /\ ListType(list') /\ Linked(list') /\ Apart(list') /\ Below(list', heap_curr')
         /\ HeldBlocks' /\ DOMAIN live' \subseteq Nat
         /\ live' \in [DOMAIN live' -> [size : Nat, align : Nat]]
         /\ h + HDR \notin DOMAIN live
<1>1. HDR \in Nat \ {0}
  BY HeapConstants
<1>2. /\ DOMAIN live \subseteq Nat /\ live \in [DOMAIN live -> [size : Nat, align : Nat]]
      /\ Used(list) = {p - HDR : p \in DOMAIN live}
      /\ \A p \in DOMAIN live : live[p].size <= list.hdr[p - HDR].size
  BY DEF IInv, TypeOK, HeldBlocks
<1>3. h + HDR \in Nat /\ (h + HDR) - HDR = h
  BY <1>1
<1> DEFINE new == h + HDR
<1>4. h + HDR \notin DOMAIN live
  BY <1>2, <1>3
<1>5. /\ DOMAIN live' = DOMAIN live \cup {new} /\ live'[new] = [size |-> size, align |-> align]
      /\ \A q \in DOMAIN live : live'[q] = live[q]
      /\ live' = [q \in DOMAIN live' |-> live'[q]]
  BY <1>4 DEF Hold
<1> HIDE DEF new
<1>6. Used(list') = {p - HDR : p \in DOMAIN live'}
  BY <1>2, <1>3, <1>5 DEF new
<1>7. ASSUME NEW p \in DOMAIN live' PROVE live'[p].size <= list'.hdr[p - HDR].size
  <2>1. CASE p = new
    BY <2>1, <1>3, <1>5 DEF new
  <2>2. CASE p \in DOMAIN live
    <3>1. p - HDR \in Used(list)
      BY <2>2, <1>2
    <3>2. /\ live'[p] = live[p] /\ live[p].size <= list.hdr[p - HDR].size
          /\ list.hdr[p - HDR].size <= list'.hdr[p - HDR].size
      BY <2>2, <3>1, <1>2, <1>5
    <3>3. live[p].size \in Nat /\ list.hdr[p - HDR].size \in Nat
      BY <2>2, <3>1, <1>2, HeaderParts DEF Used, IInv, TypeOK
    <3>4. list'.hdr[p - HDR].size \in Nat
      <4>1. p - HDR \in DOMAIN list'.hdr
        BY <3>1 DEF Used
      <4> QED BY <4>1, HeaderParts DEF Good
    <3> QED BY <3>2, <3>3, <3>4
  <2> QED BY <2>1, <2>2, <1>5
<1>8. HeldBlocks'
  BY <1>6, <1>7 DEF HeldBlocks, Used
<1>9. DOMAIN live' \subseteq Nat /\ live' \in [DOMAIN live' -> [size : Nat, align : Nat]]
  BY <1>2, <1>3, <1>5 DEF new
<1> QED BY <1>4, <1>8, <1>9 DEF Good

\* A request that is now held is an allocation of the abstract allocator: the block lies in
\* the heap and apart from every other used block.
LEMMA HoldAllocates ==
  ASSUME IInv, IInv', NEW h \in Nat, NEW size \in Nat, NEW align \in Nat,
         Hold(h + HDR, size, align), h + HDR \notin DOMAIN live,
         align # 0 => (h + HDR) % align = 0
  PROVE  Abs!Next
<1> DEFINE p == h + HDR
<1>1. HDR \in Nat \ {0} /\ p \in Nat /\ p - HDR = h /\ heap_base \in Nat /\ heap_end \in Nat
  BY HeapConstants
<1>2. /\ DOMAIN live' = DOMAIN live \cup {p} /\ live'[p] = [size |-> size, align |-> align]
      /\ \A q \in DOMAIN live : live'[q] = live[q]
      /\ live' = [q \in DOMAIN live \cup {p} |->
                    IF q = p THEN [size |-> size, align |-> align] ELSE live[q]]
  BY DEF Hold
<1>3. /\ \A q \in DOMAIN live' : q - HDR \in Used(list') /\ live'[q].size <= list'.hdr[q - HDR].size
      /\ ListType(list') /\ Apart(list') /\ Below(list', heap_curr')
      /\ heap_curr' \in Nat /\ heap_curr' <= heap_end
      /\ DOMAIN live' \subseteq Nat /\ \A q \in DOMAIN live' : live'[q].size \in Nat
  <2>1. /\ Used(list') = {q - HDR : q \in DOMAIN live'}
        /\ \A q \in DOMAIN live' : live'[q].size <= list'.hdr[q - HDR].size
    BY DEF IInv, HeldBlocks, Used
  <2>2. ListType(list') /\ Apart(list') /\ Below(list', heap_curr')
    BY DEF IInv, TypeOK, ListOK, ListType, Apart, Below, block_end
  <2>3. /\ heap_curr' \in Nat /\ heap_curr' <= heap_end
        /\ DOMAIN live' \subseteq Nat /\ \A q \in DOMAIN live' : live'[q].size \in Nat
    BY <1>1 DEF IInv, TypeOK, Addresses
  <2> QED BY <2>1, <2>2, <2>3
<1>4. ASSUME NEW q \in DOMAIN live'
      PROVE  /\ q - HDR \in DOMAIN list'.hdr /\ q - HDR \in Nat /\ heap_base <= q - HDR
             /\ block_end(list', q - HDR) \in Nat
             /\ q + live'[q].size <= block_end(list', q - HDR)
             /\ block_end(list', q - HDR) <= heap_end
  <2> DEFINE x == q - HDR
  <2>1. x \in DOMAIN list'.hdr /\ q \in Nat /\ live'[q].size \in Nat /\ live'[q].size <= list'.hdr[x].size
    BY <1>3 DEF Used
  <2> HIDE DEF x
  <2>2. /\ x \in Nat /\ heap_base <= x /\ list'.hdr[x].size \in Nat /\ block_end(list', x) \in Nat
    BY <2>1, <1>3, HeaderParts
  <2>3. block_end(list', x) = x + HDR + list'.hdr[x].size
    BY DEF block_end
  <2>4. x + HDR = q
    BY <2>1, <1>1 DEF x
  <2>5. block_end(list', x) <= heap_curr'
    BY <2>1, <1>3 DEF Below
  <2>6. q + live'[q].size <= block_end(list', x) /\ block_end(list', x) <= heap_end
    BY <2>1, <2>2, <2>3, <2>4, <2>5, <1>1, <1>3
  <2> QED BY <2>1, <2>2, <2>6 DEF x
<1> HIDE DEF p
<1>5. heap_base <= p /\ p + size <= heap_end
  <2>1. p \in DOMAIN live' /\ live'[p].size = size
    BY <1>2
  <2>2. /\ heap_base <= h /\ block_end(list', h) \in Nat
        /\ p + size <= block_end(list', h) /\ block_end(list', h) <= heap_end
    BY <2>1, <1>1, <1>4
  <2> QED BY <2>2, <1>1 DEF p
<1>6. ASSUME NEW q \in DOMAIN live PROVE Abs!Disjoint(p, size, q, live[q].size)
  <2>1. q \in DOMAIN live' /\ p \in DOMAIN live' /\ live'[q] = live[q] /\ live'[p].size = size /\ q # p
    BY <1>2 DEF p
  <2> DEFINE x == q - HDR
  <2>2. q \in Nat /\ live[q].size \in Nat /\ x # h /\ x + HDR = q
    BY <2>1, <1>1, <1>3
  <2>3. /\ h \in DOMAIN list'.hdr /\ block_end(list', h) \in Nat /\ p + size <= block_end(list', h)
    BY <2>1, <1>1, <1>4
  <2>4. /\ x \in DOMAIN list'.hdr /\ x \in Nat /\ block_end(list', x) \in Nat
        /\ q + live[q].size <= block_end(list', x)
    BY <2>1, <1>4
  <2> HIDE DEF x
  <2>5. x < h \/ h < x
    BY <2>2, <2>4
  <2>6. (x < h => block_end(list', x) <= h) /\ (h < x => block_end(list', h) <= x)
    BY <2>3, <2>4, <1>3 DEF Apart
  <2>7. p + size <= q \/ q + live[q].size <= p
    BY <2>2, <2>3, <2>4, <2>5, <2>6, <1>1 DEF p
  <2> QED BY <2>7 DEF Abs!Disjoint
<1>7. Abs!Alloc(p, size, align)
  BY <1>2, <1>5, <1>6 DEF Abs!Alloc, p
<1>8. p \in DOMAIN live' /\ live'[p].size = size /\ live'[p].align = align
  BY <1>2
<1> QED BY <1>7, <1>8 DEF Abs!Next

\* Taking a block from the list keeps the invariant and allocates.
LEMMA FromListStep ==
  ASSUME IInv, NEW size \in Nat, NEW align \in Nat, FromList(size, align)
  PROVE  IInv' /\ Abs!Next
<1>1. PICK b \in Blocks :
        LET h == aligned_header(b, align) IN
        /\ find_free_block(list, b, size, align)
        /\ list' = allocate_from_block(list, b, h, size)
        /\ Hold(h + HDR, size, align)
        /\ UNCHANGED <<heap_curr, heap_commit_end, mapped>>
  BY DEF FromList
<1> DEFINE h == aligned_header(b, align)
<1>2. Good(list, heap_curr) /\ heap_curr \in Nat /\ heap_curr <= heap_end /\ heap_curr \in Addresses
  BY HeapConstants DEF IInv, TypeOK, ListOK, Good, Addresses
<1>3. b \in DOMAIN list.hdr /\ b \in Nat
  BY <1>2, HeaderParts DEF Good, Blocks
<1>4. list.hdr[b].free /\ h + HDR + size <= block_end(list, b) /\ (h = b \/ h - b >= MIN_BLOCK_SIZE)
  BY <1>1 DEF find_free_block, Fitting, block_can_fit
<1>5. h \in Nat /\ b <= h /\ (align # 0 => (h + HDR) % align = 0)
  BY <1>3, AlignedHeader
<1>6. list' = allocate_from_block(list, b, h, size) /\ Hold(h + HDR, size, align)
      /\ heap_curr' = heap_curr /\ heap_commit_end' = heap_commit_end /\ mapped' = mapped
  BY <1>1
<1> HIDE DEF h
<1>7. /\ Good(list', heap_curr) /\ h \notin Used(list) /\ Used(list') = Used(list) \cup {h}
      /\ size <= list'.hdr[h].size /\ \A x \in Used(list) : list.hdr[x].size <= list'.hdr[x].size
  BY <1>2, <1>3, <1>4, <1>5, <1>6, AllocateGood
<1>8. /\ ListType(list') /\ Linked(list') /\ Apart(list') /\ Below(list', heap_curr')
      /\ HeldBlocks' /\ DOMAIN live' \subseteq Nat
      /\ live' \in [DOMAIN live' -> [size : Nat, align : Nat]]
      /\ h + HDR \notin DOMAIN live
  BY <1>2, <1>5, <1>6, <1>7, HoldStep
<1>9. IInv'
  <2>1. TypeOK'
    BY <1>2, <1>6, <1>8 DEF TypeOK, IInv, ListType
  <2>2. ListOK'
    BY <1>8 DEF ListOK, Linked, Apart, Below, block_end
  <2>3. CurrMapped'
    BY <1>6 DEF IInv, CurrMapped
  <2> QED BY <1>8, <2>1, <2>2, <2>3 DEF IInv
<1> QED BY <1>5, <1>6, <1>8, <1>9, HoldAllocates

\* After heap_commit_to has succeeded the pages up to need_end are mapped; after it has
\* failed nothing mapped has been lost.
LEMMA CommitMaps ==
  ASSUME IInv, NEW need_end \in Nat, NEW ok \in BOOLEAN, heap_commit_to(need_end, ok)
  PROVE  /\ heap_commit_end' \in Nat /\ mapped' \in Nat
         /\ heap_commit_end <= heap_commit_end' /\ heap_commit_end' <= mapped'
         /\ ok => need_end <= heap_commit_end'
<1> DEFINE new == ALIGN_UP(need_end, PAGE_SIZE)
<1>1. new \in Nat /\ need_end <= new /\ PAGE_SIZE \in Nat \ {0}
  BY AlignUp, HeapConstants
<1>2. heap_commit_end \in Nat /\ mapped \in Nat /\ heap_commit_end <= mapped
  BY DEF IInv, TypeOK, CurrMapped
<1>3. CASE ok
  <2>1. /\ heap_commit_end' = IF new <= heap_commit_end THEN heap_commit_end ELSE new
        /\ mapped' = IF new <= mapped THEN mapped ELSE new
    BY <1>3 DEF heap_commit_to
  <2> HIDE DEF new
  <2> QED BY <2>1, <1>1, <1>2
<1>4. CASE ~ok
  <2>1. heap_commit_end' = heap_commit_end
    BY <1>4 DEF heap_commit_to
  <2>2. PICK n \in 0 .. (new - heap_commit_end) \div PAGE_SIZE - 1 :
          LET reached == heap_commit_end + n * PAGE_SIZE IN
          mapped' = IF reached <= mapped THEN mapped ELSE reached
    BY <1>4 DEF heap_commit_to
  <2> HIDE DEF new
  <2>3. n \in Nat
    BY <2>2
  <2>4. n * PAGE_SIZE \in Nat
    BY <2>3, <1>1
  <2>5. heap_commit_end + n * PAGE_SIZE \in Nat
    BY <2>4, <1>2
  <2>6. mapped' \in Nat /\ mapped <= mapped'
    BY <2>2, <2>5, <1>2
  <2> QED BY <2>1, <2>6, <1>2, <1>4
<1> QED BY <1>3, <1>4

\* Making a new block keeps the invariant, and allocates unless the pages cannot be had.
LEMMA NewBlockStep ==
  ASSUME IInv, NEW size \in Nat, NEW align \in Nat, NewBlock(size, align)
  PROVE  IInv' /\ (Abs!Next \/ UNCHANGED live)
<1> DEFINE h == aligned_header(heap_curr, align)
           end == h + HDR + size
<1>1. /\ Good(list, heap_curr) /\ heap_curr \in Nat /\ heap_curr <= heap_end /\ heap_curr \in Addresses
      /\ HDR \in Nat \ {0} /\ heap_base \in Nat /\ heap_end \in Nat /\ heap_base <= heap_curr
      /\ heap_commit_end \in Nat /\ heap_curr <= heap_commit_end
  BY HeapConstants DEF IInv, TypeOK, ListOK, Good, Addresses, CurrMapped
<1>2. h \in Nat /\ heap_curr <= h /\ (align # 0 => (h + HDR) % align = 0)
  BY <1>1, AlignedHeader
<1>3. end <= heap_end
  BY DEF NewBlock
<1>4. CASE /\ heap_commit_to(end, TRUE)
           /\ list' = AppendBlock(FillGap(list, heap_curr, h - heap_curr), h, size, FALSE)
           /\ heap_curr' = end
           /\ Hold(h + HDR, size, align)
  <2> HIDE DEF h
  <2> DEFINE gap == h - heap_curr
             l1 == FillGap(list, heap_curr, gap)
  <2>1. gap \in Nat /\ heap_curr + gap = h /\ h \in Addresses /\ end \in Nat /\ end \in Addresses
    BY <1>1, <1>2, <1>3 DEF Addresses
  <2>2. list' = AppendBlock(l1, h, size, FALSE) /\ heap_curr' = end
    BY <1>4
  <2>3. Good(l1, heap_curr + gap) /\ SameUsed(list, l1)
    BY <2>1, <1>1, FillGapGood
  <2>4. Good(l1, h) /\ h <= h
    BY <2>1, <2>3, <1>2
  <2> HIDE DEF l1, gap
  <2>5. Added(l1, h, size, FALSE, list')
    BY <2>1, <2>2, <2>4, <1>2, AppendGood
  <2>6. /\ Good(list', end) /\ h \notin DOMAIN l1.hdr /\ DOMAIN list'.hdr = DOMAIN l1.hdr \cup {h}
        /\ list'.hdr[h].free = FALSE /\ list'.hdr[h].size = size
        /\ \A x \in DOMAIN l1.hdr : list'.hdr[x].free = l1.hdr[x].free /\ list'.hdr[x].size = l1.hdr[x].size
    BY <2>5 DEF Added
  <2> HIDE DEF end
  <2>7. Used(list') = Used(list) \cup {h} /\ h \notin Used(list)
    <3>1. Used(list') = Used(l1) \cup {h} /\ h \notin Used(l1)
      BY <2>6 DEF Used
    <3> QED BY <3>1, <2>3 DEF SameUsed
  <2>8. ASSUME NEW x \in Used(list) PROVE list.hdr[x].size <= list'.hdr[x].size
    <3>1. x \in Used(l1) /\ list.hdr[x].size <= l1.hdr[x].size
      BY <2>3 DEF SameUsed
    <3> QED BY <3>1, <2>6 DEF Used
  <2>9. size <= list'.hdr[h].size
    BY <2>6
  <2>10. /\ ListType(list') /\ Linked(list') /\ Apart(list') /\ Below(list', heap_curr')
         /\ HeldBlocks' /\ DOMAIN live' \subseteq Nat
         /\ live' \in [DOMAIN live' -> [size : Nat, align : Nat]]
         /\ h + HDR \notin DOMAIN live
    BY <1>2, <1>4, <2>1, <2>2, <2>6, <2>7, <2>8, <2>9, HoldStep
  <2>11. /\ heap_commit_end' \in Nat /\ mapped' \in Nat
         /\ heap_commit_end' <= mapped' /\ end <= heap_commit_end'
    BY <1>4, <2>1, CommitMaps
  <2>12. TypeOK'
    BY <2>1, <2>2, <2>10, <2>11 DEF TypeOK, ListType
  <2>13. ListOK'
    BY <2>10 DEF ListOK, Linked, Apart, Below, block_end
  <2>14. CurrMapped'
    BY <2>2, <2>11 DEF CurrMapped
  <2>15. IInv'
    BY <2>10, <2>12, <2>13, <2>14 DEF IInv
  <2> QED BY <1>2, <1>4, <2>10, <2>15, HoldAllocates
<1>5. CASE heap_commit_to(end, FALSE) /\ UNCHANGED <<list, heap_curr, live>>
  <2>1. end \in Nat
    BY <1>1, <1>2
  <2> HIDE DEF end
  <2>2. /\ heap_commit_end' \in Nat /\ mapped' \in Nat
        /\ heap_commit_end <= heap_commit_end' /\ heap_commit_end' <= mapped'
    BY <1>5, <2>1, CommitMaps
  <2>3. TypeOK' /\ ListOK' /\ HeldBlocks'
    BY <1>5, <2>2 DEF IInv, TypeOK, ListType, ListOK, Linked, Apart, Below, block_end, HeldBlocks, Used
  <2>4. CurrMapped'
    BY <1>1, <1>5, <2>2 DEF CurrMapped
  <2> QED BY <1>5, <2>3, <2>4 DEF IInv
<1> QED BY <1>4, <1>5 DEF NewBlock

\* kfree keeps the invariant and gives up exactly the pointer it was passed.
LEMMA FreeStep ==
  ASSUME IInv, NEW p \in DOMAIN live, kfree(p)
  PROVE  IInv' /\ Abs!Next
<1> DEFINE b == p - HDR
<1>1. /\ Good(list, heap_curr) /\ heap_curr \in Nat /\ heap_curr <= heap_end /\ heap_curr \in Addresses
      /\ HDR \in Nat \ {0} /\ DOMAIN live \subseteq Nat
      /\ live \in [DOMAIN live -> [size : Nat, align : Nat]]
      /\ Used(list) = {q - HDR : q \in DOMAIN live}
      /\ \A q \in DOMAIN live : live[q].size <= list.hdr[q - HDR].size
  BY HeapConstants DEF IInv, TypeOK, ListOK, Good, Addresses, HeldBlocks
<1>2. /\ list' = MergeBefore(MergeAfter(SetFree(list, b, TRUE), b), b)
      /\ live' = [q \in DOMAIN live \ {p} |-> live[q]]
      /\ heap_curr' = heap_curr /\ heap_commit_end' = heap_commit_end /\ mapped' = mapped
  BY DEF kfree
<1>3. b \in Used(list)
  BY <1>1
<1> HIDE DEF b
<1>4. /\ Good(list', heap_curr) /\ Used(list') = Used(list) \ {b}
      /\ \A x \in Used(list') : list.hdr[x].size <= list'.hdr[x].size
  BY <1>1, <1>2, <1>3, FreeGood
<1>5. /\ DOMAIN live' = DOMAIN live \ {p} /\ \A q \in DOMAIN live' : live'[q] = live[q]
      /\ live' \in [DOMAIN live' -> [size : Nat, align : Nat]]
  BY <1>1, <1>2
<1>6. \A q \in DOMAIN live : q - HDR = b <=> q = p
  BY <1>1 DEF b
<1>7. Used(list') = {q - HDR : q \in DOMAIN live'}
  BY <1>1, <1>4, <1>5, <1>6
<1>8. ASSUME NEW q \in DOMAIN live' PROVE live'[q].size <= list'.hdr[q - HDR].size
  <2> DEFINE x == q - HDR
  <2>1. q \in DOMAIN live /\ x \in Used(list') /\ x \in Used(list)
    BY <1>4, <1>5, <1>7
  <2>2. live'[q].size <= list.hdr[x].size /\ list.hdr[x].size <= list'.hdr[x].size
    BY <2>1, <1>1, <1>4, <1>5
  <2> HIDE DEF x
  <2>3. live'[q].size \in Nat /\ list.hdr[x].size \in Nat /\ list'.hdr[x].size \in Nat
    BY <2>1, <1>1, <1>4, <1>5, HeaderParts DEF Used, Good
  <2>4. \A i, j, k \in Nat : i <= j /\ j <= k => i <= k
    OBVIOUS
  <2>5. live'[q].size <= list'.hdr[x].size
    BY ONLY <2>2, <2>3, <2>4
  <2> QED BY <2>5 DEF x
<1>9. HeldBlocks'
  BY <1>7, <1>8 DEF HeldBlocks, Used
<1>10. TypeOK'
  BY <1>1, <1>2, <1>4, <1>5 DEF TypeOK, IInv, Good, ListType
<1>11. ListOK'
  BY <1>2, <1>4 DEF Good, ListOK, Linked, Apart, Below, block_end
<1>12. CurrMapped'
  BY <1>2 DEF IInv, CurrMapped
<1>13. Abs!Free(p)
  BY <1>2 DEF Abs!Free
<1> QED BY <1>9, <1>10, <1>11, <1>12, <1>13 DEF IInv, Abs!Next

\* The empty heap satisfies the invariant.
LEMMA InitInv == Init => IInv /\ Abs!Init
<1> SUFFICES ASSUME Init PROVE IInv /\ Abs!Init
  OBVIOUS
<1>1. /\ list = [hdr |-> << >>, head |-> NULL, tail |-> NULL] /\ heap_curr = heap_base
      /\ live = << >> /\ heap_commit_end \in {heap_base, ALIGN_UP(heap_base + 1, PAGE_SIZE)}
      /\ mapped = heap_commit_end
  BY DEF Init
<1>2. DOMAIN list.hdr = {} /\ list.head = NULL /\ list.tail = NULL /\ DOMAIN live = {}
  BY <1>1
<1>3. heap_commit_end \in Nat /\ heap_base <= heap_commit_end /\ heap_base \in Addresses
  <2>1. heap_base + 1 \in Nat /\ PAGE_SIZE \in Nat \ {0} /\ heap_base \in Nat /\ heap_base \in Addresses
    BY HeapConstants DEF Addresses
  <2>2. ALIGN_UP(heap_base + 1, PAGE_SIZE) \in Nat /\ heap_base + 1 <= ALIGN_UP(heap_base + 1, PAGE_SIZE)
    BY <2>1, AlignUp
  <2> QED BY <2>1, <2>2, <1>1
<1>4. ListType(list)
  BY <1>1, <1>2 DEF ListType
<1>5. TypeOK
  BY <1>1, <1>2, <1>3, <1>4 DEF TypeOK
<1>6. ListOK
  BY <1>2 DEF ListOK, Linked, Apart, Below
<1>7. HeldBlocks
  BY <1>2 DEF HeldBlocks, Used
<1>8. CurrMapped
  BY <1>1, <1>3 DEF CurrMapped
<1> QED BY <1>1, <1>5, <1>6, <1>7, <1>8 DEF IInv, Abs!Init

\* Every step of the heap keeps the invariant and is a step of the allocator, or one that
\* the callers do not see.
LEMMA NextStep ==
  ASSUME IInv, [Next]_vars
  PROVE  IInv' /\ [Abs!Next]_live
<1>1. CASE \E size \in Sizes, align \in Aligns : kmalloc(size, align)
  <2>1. PICK size \in Sizes, align \in Aligns : kmalloc(size, align)
    BY <1>1
  <2> DEFINE size4 == ALIGN_UP(size, 4)
             norm == normalize_align(align)
  <2>2. norm \in Nat /\ size \in Nat
    BY HeapConstants
  <2>3. size4 \in Nat
    BY <2>2, AlignUp
  <2>4. FromList(size4, norm) \/ NewBlock(size4, norm)
    BY <2>1 DEF kmalloc
  <2> HIDE DEF size4, norm
  <2> QED BY <2>2, <2>3, <2>4, FromListStep, NewBlockStep
<1>2. CASE \E p \in DOMAIN live : kfree(p)
  BY <1>2, FreeStep
<1>3. CASE UNCHANGED vars
  BY <1>3 DEF vars, IInv, TypeOK, ListType, ListOK, Linked, Apart, Below, block_end,
              HeldBlocks, Used, CurrMapped
<1> QED BY <1>1, <1>2, <1>3 DEF Next

\* The invariant that everything below rests on, for every sequence of kmalloc and kfree.
LEMMA Invariance == Spec => []IInv
<1>1. Init => IInv
  BY InitInv
<1>2. IInv /\ [Next]_vars => IInv'
  BY NextStep
<1> QED BY <1>1, <1>2, PTL DEF Spec

\* The list stays a chain of blocks in address order that do not overlap.
THEOREM HeapSafe == Spec => []ListOK
<1>1. IInv => ListOK BY DEF IInv
<1> QED BY <1>1, Invariance, PTL

\* Every byte of the heap that is in use is mapped, whichever commits failed half way.
THEOREM HeapMapped == Spec => []CurrMapped
<1>1. IInv => CurrMapped BY DEF IInv
<1> QED BY <1>1, Invariance, PTL

\* The used blocks are exactly the ones callers hold: kfree of one never touches another.
THEOREM BlocksAreHeld == Spec => [](TypeOK /\ HeldBlocks)
<1>1. IInv => TypeOK /\ HeldBlocks BY DEF IInv
<1> QED BY <1>1, Invariance, PTL

\* The heap implements the allocator: kmalloc returns aligned memory inside the heap that
\* no other caller holds, and kfree gives up only what it was passed.
THEOREM HeapAllocates == Spec => Allocates
<1>1. Init => IInv /\ Abs!Init
  BY InitInv
<1>2. IInv /\ [Next]_vars => IInv' /\ [Abs!Next]_live
  BY NextStep
<1> QED BY <1>1, <1>2, PTL DEF Spec, Allocates, Abs!Spec
=============================================================================
