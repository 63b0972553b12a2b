----------------------------- MODULE Exit_proofs -----------------------------
(* Exit handlers and fork handlers, for any threads and libraries, however   *)
(* deep their calls nest: what __cxa_finalize leaves in the array and on the *)
(* list, the order of the callbacks, and which handlers a fork has called.   *)
EXTENDS Atexit, TLAPS

\* Appending to a sequence leaves what was there in its place.
LEMMA Appended ==
    ASSUME NEW S, NEW s \in Seq(S), NEW e \in S
    PROVE  /\ Append(s, e) \in Seq(S)
           /\ Len(s) \in Nat /\ Len(Append(s, e)) = Len(s) + 1
           /\ DOMAIN s = 1 .. Len(s) /\ DOMAIN Append(s, e) = 1 .. Len(s) + 1
           /\ \A k \in 1 .. Len(s) : Append(s, e)[k] = s[k]
           /\ Append(s, e)[Len(s) + 1] = e
  OBVIOUS

\* So does taking the innermost frame away.
LEMMA Lowered ==
    ASSUME NEW S, NEW s \in Seq(S), s # <<>>
    PROVE  /\ Below(s) \in Seq(S)
           /\ Len(s) \in Nat \ {0} /\ Len(Below(s)) = Len(s) - 1
           /\ DOMAIN s = 1 .. Len(s) /\ DOMAIN Below(s) = 1 .. Len(s) - 1
           /\ \A k \in 1 .. Len(s) - 1 : Below(s)[k] = s[k]
  BY DEF Below

\* An element of a sequence may be replaced.
LEMMA Replaced ==
    ASSUME NEW S, NEW s \in Seq(S), NEW j \in Nat, NEW e \in S
    PROVE  [s EXCEPT ![j] = e] \in Seq(S)
  <1>1. [s EXCEPT ![j] = e] = [k \in 1 .. Len(s) |-> IF k = j THEN e ELSE s[k]]
    OBVIOUS
  <1>2. [k \in 1 .. Len(s) |-> IF k = j THEN e ELSE s[k]] \in Seq(S)
    OBVIOUS
  <1> QED
    BY <1>1, <1>2, Zenon

\* The elements at ascending positions of a sequence are a sequence of some of
\* its elements, in their order.
LEMMA Thinned ==
    ASSUME NEW S, NEW s \in Seq(S), NEW P \in SUBSET DOMAIN s, NEW at \in Ascending(s, P)
    PROVE  LET r == [k \in DOMAIN at |-> s[at[k]]]
           IN  /\ r \in Seq(S)
               /\ DOMAIN r = DOMAIN at /\ DOMAIN at \subseteq Nat
               /\ \A k \in DOMAIN at : at[k] \in P /\ r[k] = s[at[k]]
               /\ \A j, k \in DOMAIN at : j < k => at[j] < at[k]
               /\ \A p \in P : \E k \in DOMAIN at : at[k] = p
  <1>1. PICK n \in 0 .. Len(s) : at \in [1 .. n -> P]
    BY Zenon DEF Ascending
  <1>2. n \in Nat
    OBVIOUS
  <1> QED
    BY <1>1, <1>2 DEF Ascending

\* The libraries, and the program itself.
Dsos == Dso \cup {NoDso}

\* Entries stand in the order of their numbers.
Sorted(list) == \A i, j \in DOMAIN list : i < j => list[i].id < list[j].id

\* The fields of the entries of a list.
LEMMA EntriesOf ==
    ASSUME NEW list \in Seq(Entry)
    PROVE  /\ DOMAIN list = 1 .. Len(list) /\ Len(list) \in Nat
           /\ \A k \in DOMAIN list : list[k].id \in Nat /\ list[k].dso \in Dsos
  <1>1. DOMAIN list = 1 .. Len(list) /\ Len(list) \in Nat /\ \A k \in DOMAIN list : list[k] \in Entry
    OBVIOUS
  <1>2. \A e \in Entry : e.id \in Nat /\ e.dso \in Dsos
    BY Zenon DEF Entry, Dsos
  <1> QED
    BY <1>1, <1>2, Zenon

\* The neighbours of an entry, in a list whose ids ascend.
LEMMA Neighbours ==
    ASSUME NEW list \in Seq(Entry), NEW id \in Ids(list), Sorted(list)
    PROVE  /\ id \in Nat /\ id # None
           /\ \/ Before(list, id) = None /\ \A x \in Ids(list) : id <= x
              \/ /\ Before(list, id) \in Ids(list) /\ Before(list, id) < id
                 /\ \A x \in Ids(list) : Before(list, id) < x => id <= x
           /\ \/ After(list, id) = None /\ \A x \in Ids(list) : x <= id
              \/ /\ After(list, id) \in Ids(list) /\ id < After(list, id)
                 /\ \A x \in Ids(list) : x < After(list, id) => x <= id
  <1>1. PICK i \in DOMAIN list : list[i].id = id
    BY Zenon DEF Ids
  <1>2. /\ DOMAIN list = 1 .. Len(list) /\ Len(list) \in Nat
        /\ \A k \in DOMAIN list : list[k].id \in Nat
    BY EntriesOf, Zenon
  <1>3. id \in Nat /\ id # None
    BY <1>1, <1>2, NoneAssumption, Zenon
  <1>4. \A k \in DOMAIN list : (list[k].id = id => k = i) /\ (k < i => list[k].id < id)
                               /\ (i < k => id < list[k].id)
    BY <1>1, <1>2, <1>3 DEF Sorted
  <1>5. \/ Before(list, id) = None /\ \A x \in Ids(list) : id <= x
        \/ /\ Before(list, id) \in Ids(list) /\ Before(list, id) < id
           /\ \A x \in Ids(list) : Before(list, id) < x => id <= x
    <2>1. CASE i = 1
      <3>1. {k \in DOMAIN list : k > 1 /\ list[k].id = id} = {}
        BY <1>4, <2>1
      <3>2. Before(list, id) = None
        BY <3>1, Zenon DEF Before
      <3>3. \A x \in Ids(list) : id <= x
        BY <1>1, <1>2, <1>4, <2>1 DEF Ids
      <3> QED
        BY <3>2, <3>3, Zenon
    <2>2. CASE i > 1
      <3>1. {k \in DOMAIN list : k > 1 /\ list[k].id = id} = {i}
        BY <1>1, <1>4, <2>2, Zenon
      <3>2. Before(list, id) = list[i - 1].id
        BY <3>1, Zenon DEF Before
      <3>3. i - 1 \in DOMAIN list /\ i - 1 < i
        BY <1>2, <2>2
      <3>4. \A k \in DOMAIN list : list[i - 1].id < list[k].id => i <= k
        BY <1>2, <3>3 DEF Sorted
      <3>5. \A k \in DOMAIN list : list[i - 1].id < list[k].id => id <= list[k].id
        BY <1>1, <1>2, <1>3, <1>4, <3>4
      <3> QED
        BY <1>4, <3>2, <3>3, <3>5, Zenon DEF Ids
    <2> QED
      BY <1>2, <2>1, <2>2
  <1>6. \/ After(list, id) = None /\ \A x \in Ids(list) : x <= id
        \/ /\ After(list, id) \in Ids(list) /\ id < After(list, id)
           /\ \A x \in Ids(list) : x < After(list, id) => x <= id
    <2>1. CASE i = Len(list)
      <3>1. {k \in DOMAIN list : k < Len(list) /\ list[k].id = id} = {}
        BY <1>4, <2>1
      <3>2. After(list, id) = None
        BY <3>1, Zenon DEF After
      <3>3. \A x \in Ids(list) : x <= id
        BY <1>1, <1>2, <1>4, <2>1 DEF Ids
      <3> QED
        BY <3>2, <3>3, Zenon
    <2>2. CASE i < Len(list)
      <3>1. {k \in DOMAIN list : k < Len(list) /\ list[k].id = id} = {i}
        BY <1>1, <1>4, <2>2, Zenon
      <3>2. After(list, id) = list[i + 1].id
        BY <3>1, Zenon DEF After
      <3>3. i + 1 \in DOMAIN list /\ i < i + 1
        BY <1>2, <2>2
      <3>4. \A k \in DOMAIN list : list[k].id < list[i + 1].id => k <= i
        BY <1>2, <3>3, SMTT(30) DEF Sorted
      <3>5. \A k \in DOMAIN list : list[k].id < list[i + 1].id => list[k].id <= id
        BY <1>1, <1>2, <1>3, <1>4, <3>4
      <3> QED
        BY <1>4, <3>2, <3>3, <3>5, Zenon DEF Ids
    <2> QED
      BY <1>2, <2>1, <2>2
  <1> QED
    BY <1>3, <1>5, <1>6, Zenon

\* The ends of a list whose ids ascend.
LEMMA Ends ==
    ASSUME NEW list \in Seq(Entry), Sorted(list)
    PROVE  /\ Ids(list) \subseteq Nat
           /\ \/ FirstEntry(list) = None /\ LastEntry(list) = None /\ Ids(list) = {}
              \/ /\ FirstEntry(list) \in Ids(list) /\ LastEntry(list) \in Ids(list)
                 /\ \A x \in Ids(list) : FirstEntry(list) <= x /\ x <= LastEntry(list)
  <1>2. /\ DOMAIN list = 1 .. Len(list) /\ Len(list) \in Nat
        /\ \A k \in DOMAIN list : list[k].id \in Nat
    BY EntriesOf, Zenon
  <1>3. CASE list = <<>>
    BY <1>2, <1>3 DEF FirstEntry, LastEntry, Ids
  <1>4. CASE list # <<>>
    <2>1. Len(list) \in DOMAIN list /\ 1 \in DOMAIN list
      BY <1>2, <1>4
    <2>2. \A k \in DOMAIN list : list[1].id <= list[k].id /\ list[k].id <= list[Len(list)].id
      <3> TAKE k \in DOMAIN list
      <3>1. k = 1 \/ 1 < k
        BY <1>2
      <3>2. k = Len(list) \/ k < Len(list)
        BY <1>2
      <3> QED
        BY <1>2, <2>1, <3>1, <3>2 DEF Sorted
    <2> QED
      BY <1>2, <1>4, <2>1, <2>2, Zenon DEF FirstEntry, LastEntry, Ids
  <1> QED
    BY <1>3, <1>4, Zenon

-----------------------------------------------------------------------------

\* S has no more than n elements.
Fits(S, n) == \E f \in [S -> 1 .. n] : \A p, q \in S : f[p] = f[q] => p = q

\* A set that one element joins has no more than one more.
LEMMA OneMore ==
    ASSUME NEW S, NEW n \in Nat, Fits(S, n), NEW q
    PROVE  Fits(S \cup {q}, n + 1)
  <1>1. PICK f \in [S -> 1 .. n] : \A p, r \in S : f[p] = f[r] => p = r
    BY Zenon DEF Fits
  <1> DEFINE g == [p \in S \cup {q} |-> IF p = q THEN n + 1 ELSE f[p]]
  <1>2. g \in [S \cup {q} -> 1 .. n + 1]
    BY <1>1
  <1>3. \A p, r \in S \cup {q} : g[p] = g[r] => p = r
    BY <1>1
  <1> QED
    BY <1>2, <1>3, Zenon DEF Fits

\* A set that one element leaves has one less.
LEMMA OneLess ==
    ASSUME NEW S, NEW n \in Nat, Fits(S, n), NEW q \in S
    PROVE  n # 0 /\ Fits(S \ {q}, n - 1)
  <1>1. PICK f \in [S -> 1 .. n] : \A p, r \in S : f[p] = f[r] => p = r
    BY Zenon DEF Fits
  <1> DEFINE g == [p \in S \ {q} |-> IF f[p] = n THEN f[q] ELSE f[p]]
  <1>2. \A p \in S \ {q} : f[p] # f[q] /\ f[p] \in 1 .. n
    BY <1>1, Zenon
  <1>3. f[q] \in 1 .. n /\ n # 0
    BY <1>1
  <1>4. g \in [S \ {q} -> 1 .. n - 1]
    BY <1>2, <1>3
  <1>5. \A p, r \in S \ {q} : g[p] = g[r] => p = r
    BY <1>1, <1>2, Zenon
  <1> QED
    BY <1>3, <1>4, <1>5, Zenon DEF Fits

\* Nothing is in a set with no more than 0 elements.
LEMMA NoneLeft ==
    ASSUME NEW S, Fits(S, 0)
    PROVE  S = {}
  BY DEF Fits

\* What a fork knows in a phase of its walk over a list: entries registered
\* since it began come after those it began with; it has called the handlers
\* of the entries it began with that are still there and lie behind it, in
\* descending order to prepare and in ascending order after the clone; and
\* what is under the walk is on the list.
Walk(f, phase, list) ==
    LET still == Ids(f.start) \cap Ids(list)
    IN  /\ Sorted(f.start)
        /\ f.it # None => f.it \in Ids(list)
        /\ \A x \in Ids(list) : x \in Ids(f.start) \/ \A s \in Ids(f.start) : s < x
        /\ \A j \in DOMAIN f.prepared : f.prepared[j] \in Ids(f.start)
        /\ \A j, k \in DOMAIN f.prepared : j < k => f.prepared[k] < f.prepared[j]
        /\ \A j, k \in DOMAIN f.done : j < k => f.done[j] < f.done[k]
        /\ phase = "prepare" =>
              /\ f.done = <<>>
              /\ f.it # None => f.it \in Ids(f.start) /\ \A j \in DOMAIN f.prepared : f.it < f.prepared[j]
              /\ \A x \in still : f.it = None \/ f.it < x => \E j \in DOMAIN f.prepared : f.prepared[j] = x
        /\ phase # "prepare" => \A x \in still : \E j \in DOMAIN f.prepared : f.prepared[j] = x
        /\ phase = "start" => f.done = <<>> /\ f.it = None
        /\ phase \in {"parent", "walk"} =>
              /\ f.it # None => \A j \in DOMAIN f.done : f.done[j] < f.it
              /\ \A x \in still : f.it = None \/ x < f.it => \E j \in DOMAIN f.done : f.done[j] = x

\* A walk stands where it is when other entries come and go.
LEMMA WalkOther ==
    ASSUME NEW f, NEW phase, NEW list, NEW new, Walk(f, phase, list),
           Ids(f.start) \subseteq Nat,
           f.it # None => f.it \in Ids(new),
           \A x \in Ids(new) : x \in Ids(list) \/ \A y \in Ids(f.start) : y < x
    PROVE  Walk(f, phase, new)
  <1>1. \A x \in Ids(f.start) \cap Ids(new) : x \in Ids(list)
    <2> TAKE x \in Ids(f.start) \cap Ids(new)
    <2>1. x \in Nat /\ ~(x < x)
      BY SMTT(30)
    <2> QED
      BY <2>1, Zenon
  <1>2. \A x \in Ids(new) : x \in Ids(f.start) \/ \A y \in Ids(f.start) : y < x
    BY Zenon DEF Walk
  <1> DEFINE a == Ids(f.start) b == Ids(list) c == Ids(new)
  <1>3. /\ f.it # None => f.it \in c
        /\ \A x \in c : x \in a \/ \A y \in a : y < x
        /\ \A x \in a \cap c : x \in a \cap b
    BY <1>1, <1>2, Zenon
  <1> HIDE DEF a, b, c
  <1> QED
    BY <1>3, Zenon DEF Walk, a, b, c

\* A walk backwards begins at the last entry with nothing called.
LEMMA WalkNew ==
    ASSUME NEW list \in Seq(Entry), Sorted(list), NEW f,
           f.start = list, f.it = LastEntry(list), f.prepared = <<>>, f.done = <<>>
    PROVE  Walk(f, "prepare", list)
  <1>1. \/ f.it = None /\ Ids(list) = {}
        \/ f.it \in Ids(list) /\ \A x \in Ids(list) : x <= f.it
    BY Ends, Zenon
  <1>2. Ids(list) \subseteq Nat
    BY Ends, Zenon
  <1>3. f.it # None => f.it \in Ids(list)
    BY <1>1, Zenon
  <1>4. \A x \in Ids(list) : ~(f.it = None \/ f.it < x)
    BY <1>1, <1>2, NoneAssumption, SMTT(30)
  <1> QED
    BY <1>3, <1>4 DEF Walk

\* The walk backwards calls one handler and goes to the entry before.
LEMMA WalkBack ==
    ASSUME NEW list \in Seq(Entry), Sorted(list), NEW f, NEW g, Walk(f, "prepare", list),
           f.it # None, f.start \in Seq(Entry), f.prepared \in Seq(Nat),
           g.start = f.start, g.it = Before(list, f.it),
           g.prepared = Append(f.prepared, f.it), g.done = f.done
    PROVE  Walk(g, "prepare", list)
  <1> DEFINE a == Ids(f.start) b == Ids(list)
  <1>1. /\ f.it \in b /\ f.it \in a /\ f.it \in Nat /\ Sorted(f.start) /\ f.done = <<>>
        /\ \A x \in b : x \in a \/ \A y \in a : y < x
        /\ \A j \in DOMAIN f.prepared : f.prepared[j] \in a /\ f.it < f.prepared[j]
        /\ \A j, k \in DOMAIN f.prepared : j < k => f.prepared[k] < f.prepared[j]
        /\ \A x \in a \cap b : f.it < x => \E j \in DOMAIN f.prepared : f.prepared[j] = x
    <2>1. f.it \in Ids(list)
      BY ZenonT(30) DEF Walk
    <2>2. f.it \in Nat
      BY <2>1, Neighbours, ZenonT(30)
    <2> QED
      BY <2>1, <2>2, ZenonT(30) DEF Walk
  <1>2. \/ g.it = None /\ \A x \in b : f.it <= x
        \/ g.it \in b /\ g.it < f.it /\ \A x \in b : g.it < x => f.it <= x
    BY <1>1, Neighbours, SMTT(30)
  <1>3. a \subseteq Nat /\ b \subseteq Nat
    BY EntriesOf, Zenon DEF Ids
  <1> DEFINE n == Len(f.prepared)
  <1>4. /\ n \in Nat /\ DOMAIN f.prepared = 1 .. n /\ DOMAIN g.prepared = 1 .. n + 1
        /\ \A k \in 1 .. n : g.prepared[k] = f.prepared[k] /\ f.prepared[k] \in Nat
        /\ g.prepared[n + 1] = f.it
    BY <1>1, Appended, SMTT(30)
  <1> HIDE DEF n, a, b
  <1>5. \A j \in DOMAIN g.prepared : g.prepared[j] \in a
    BY <1>1, <1>4, SMTT(30)
  <1>6. \A j, k \in DOMAIN g.prepared : j < k => g.prepared[k] < g.prepared[j]
    <2> TAKE j, k \in DOMAIN g.prepared
    <2> HAVE j < k
    <2>1. j \in 1 .. n
      BY <1>4, SMTT(30)
    <2>2. CASE k \in 1 .. n
      BY <1>1, <1>4, <2>1, <2>2, ZenonT(30)
    <2>3. CASE k = n + 1
      BY <1>1, <1>4, <2>1, <2>3, Zenon
    <2> QED
      BY <1>4, <2>2, <2>3
  <1>7. g.it # None => g.it \in b /\ g.it \in a /\ \A j \in DOMAIN g.prepared : g.it < g.prepared[j]
    <2> SUFFICES ASSUME g.it # None
                 PROVE  g.it \in b /\ g.it \in a /\ \A j \in DOMAIN g.prepared : g.it < g.prepared[j]
      BY Zenon
    <2>1. g.it \in b /\ g.it < f.it /\ g.it \in Nat
      BY <1>2, <1>3, Zenon
    <2>2. g.it \in a
      BY <1>1, <2>1
    <2>3. \A j \in DOMAIN g.prepared : g.it < g.prepared[j]
      BY <1>1, <1>4, <2>1, SMTT(30)
    <2> QED
      BY <2>1, <2>2, <2>3, Zenon
  <1>8. \A x \in a \cap b : g.it = None \/ g.it < x => \E j \in DOMAIN g.prepared : g.prepared[j] = x
    <2> TAKE x \in a \cap b
    <2> HAVE g.it = None \/ g.it < x
    <2>1. f.it <= x /\ x \in Nat
      BY <1>2, <1>3, NoneAssumption, Zenon
    <2>2. CASE x = f.it
      <3>1. n + 1 \in DOMAIN g.prepared /\ g.prepared[n + 1] = x
        BY <1>4, <2>2
      <3> QED
        BY <3>1, Zenon
    <2>3. CASE f.it < x
      <3>1. PICK j \in DOMAIN f.prepared : f.prepared[j] = x
        BY <1>1, <2>3, Zenon
      <3>2. j \in DOMAIN g.prepared /\ g.prepared[j] = x
        BY <1>4, <3>1, SMTT(30)
      <3> QED
        BY <3>2, Zenon
    <2> QED
      BY <1>1, <2>1, <2>2, <2>3, SMTT(30)
  <1>9. \A j, k \in DOMAIN g.done : j < k => g.done[j] < g.done[k]
    BY ZenonT(30) DEF Walk
  <1>10. /\ a = Ids(g.start) /\ b = Ids(list) /\ Sorted(g.start) /\ g.done = <<>>
         /\ \A x \in b : x \in a \/ \A y \in a : y < x
    BY <1>1, ZenonT(30) DEF a, b
  <1> QED
    BY <1>5, <1>6, <1>7, <1>8, <1>9, <1>10, ZenonT(30) DEF Walk

\* The walk forward calls one handler and goes to the entry after.
LEMMA WalkOn ==
    ASSUME NEW list \in Seq(Entry), Sorted(list), NEW f, NEW g,
           NEW phase \in {"parent", "walk"}, Walk(f, phase, list),
           f.it # None, f.start \in Seq(Entry), f.done \in Seq(Nat),
           g.start = f.start, g.it = After(list, f.it),
           g.prepared = f.prepared, g.done = Append(f.done, f.it)
    PROVE  Walk(g, phase, list)
  <1> DEFINE a == Ids(f.start) b == Ids(list)
  <1>1. /\ f.it \in b /\ f.it \in Nat
        /\ \A j \in DOMAIN f.done : f.done[j] < f.it
        /\ \A j, k \in DOMAIN f.done : j < k => f.done[j] < f.done[k]
        /\ \A x \in a \cap b : x < f.it => \E j \in DOMAIN f.done : f.done[j] = x
    <2>1. f.it \in Ids(list)
      BY ZenonT(30) DEF Walk
    <2>2. f.it \in Nat
      BY <2>1, Neighbours, ZenonT(30)
    <2> QED
      BY <2>1, <2>2, ZenonT(30) DEF Walk
  <1>2. \/ g.it = None /\ \A x \in b : x <= f.it
        \/ g.it \in b /\ f.it < g.it /\ \A x \in b : x < g.it => x <= f.it
    BY <1>1, Neighbours, SMTT(30)
  <1>3. a \subseteq Nat /\ b \subseteq Nat
    BY EntriesOf, Zenon DEF Ids
  <1> DEFINE n == Len(f.done)
  <1>4. /\ n \in Nat /\ DOMAIN f.done = 1 .. n /\ DOMAIN g.done = 1 .. n + 1
        /\ \A k \in 1 .. n : g.done[k] = f.done[k] /\ f.done[k] \in Nat
        /\ g.done[n + 1] = f.it
    BY <1>1, Appended, SMTT(30)
  <1> HIDE DEF n, a, b
  <1>5. \A j, k \in DOMAIN g.done : j < k => g.done[j] < g.done[k]
    <2> TAKE j, k \in DOMAIN g.done
    <2> HAVE j < k
    <2>1. j \in 1 .. n
      BY <1>4, SMTT(30)
    <2>2. CASE k \in 1 .. n
      BY <1>1, <1>4, <2>1, <2>2, Zenon
    <2>3. CASE k = n + 1
      BY <1>1, <1>4, <2>1, <2>3, Zenon
    <2> QED
      BY <1>4, <2>2, <2>3, SMTT(30)
  <1>6. g.it # None => g.it \in b /\ \A j \in DOMAIN g.done : g.done[j] < g.it
    <2> SUFFICES ASSUME g.it # None
                 PROVE  g.it \in b /\ \A j \in DOMAIN g.done : g.done[j] < g.it
      BY Zenon
    <2>1. g.it \in b /\ f.it < g.it /\ g.it \in Nat
      BY <1>2, <1>3, Zenon
    <2>2. \A j \in DOMAIN g.done : g.done[j] < g.it
      BY <1>1, <1>4, <2>1, SMTT(30)
    <2> QED
      BY <2>1, <2>2, Zenon
  <1>7. \A x \in a \cap b : g.it = None \/ x < g.it => \E j \in DOMAIN g.done : g.done[j] = x
    <2> TAKE x \in a \cap b
    <2> HAVE g.it = None \/ x < g.it
    <2>1. x <= f.it /\ x \in Nat
      BY <1>2, <1>3, NoneAssumption, Zenon
    <2>2. CASE x = f.it
      <3>1. n + 1 \in DOMAIN g.done /\ g.done[n + 1] = x
        BY <1>4, <2>2
      <3> QED
        BY <3>1, Zenon
    <2>3. CASE x < f.it
      <3>1. PICK j \in DOMAIN f.done : f.done[j] = x
        BY <1>1, <2>3, Zenon
      <3>2. j \in DOMAIN g.done /\ g.done[j] = x
        BY <1>4, <3>1, SMTT(30)
      <3> QED
        BY <3>2, Zenon
    <2> QED
      BY <1>1, <2>1, <2>2, <2>3
  <1>8. /\ a = Ids(g.start) /\ b = Ids(list) /\ Sorted(g.start)
        /\ \A x \in b : x \in a \/ \A y \in a : y < x
        /\ \A j \in DOMAIN g.prepared : g.prepared[j] \in a
        /\ \A j, k \in DOMAIN g.prepared : j < k => g.prepared[k] < g.prepared[j]
        /\ \A x \in a \cap b : \E j \in DOMAIN g.prepared : g.prepared[j] = x
        /\ phase # "prepare" /\ phase # "start"
    BY ZenonT(30) DEF Walk, a, b
  <1> QED
    BY <1>5, <1>6, <1>7, <1>8, ZenonT(30) DEF Walk

\* The walk forward begins, when the walk back is through.
LEMMA WalkTurns ==
    ASSUME NEW list \in Seq(Entry), Sorted(list), NEW f, NEW g,
           f.it = None, Walk(f, "prepare", list) \/ Walk(f, "start", list),
           g.start = f.start, g.prepared = f.prepared, g.done = <<>>,
           NEW phase \in {"start", "parent", "walk"},
           g.it = IF phase = "start" THEN None ELSE FirstEntry(list)
    PROVE  Walk(g, phase, list)
  <1>1. /\ Sorted(g.start) 
        /\ \A x \in Ids(list) : x \in Ids(g.start) \/ \A y \in Ids(g.start) : y < x
        /\ \A j \in DOMAIN g.prepared : g.prepared[j] \in Ids(g.start)
        /\ \A j, k \in DOMAIN g.prepared : j < k => g.prepared[k] < g.prepared[j]
        /\ \A x \in Ids(g.start) \cap Ids(list) : \E j \in DOMAIN g.prepared : g.prepared[j] = x
    BY Zenon DEF Walk
  <1>2. g.it # None => g.it \in Ids(list)
    BY Ends, Zenon
  <1>3. ASSUME phase # "start"
        PROVE  \A x \in Ids(list) : ~(g.it = None \/ x < g.it)
    <2>1. Ids(list) \subseteq Nat
      BY Ends, Zenon
    <2>2. \/ g.it = None /\ Ids(list) = {}
          \/ g.it \in Ids(list) /\ \A x \in Ids(list) : g.it <= x
      BY <1>3, Ends, Zenon
    <2> QED
      BY <2>1, <2>2, NoneAssumption
  <1>4. DOMAIN g.done = {}
    OBVIOUS
  <1> QED
    BY <1>1, <1>2, <1>3, <1>4, ZenonT(30) DEF Walk

\* A walk that is through has called every handler, in both orders.
LEMMA WalkPairs ==
    ASSUME NEW f, NEW list, NEW phase \in {"parent", "walk"}, Walk(f, phase, list),
           f.it = None, f.start \in Seq(Entry)
    PROVE  Paired(f, list)
  <1> DEFINE still == Ids(f.start) \cap Ids(list)
  <1>1. /\ Sorted(f.start)
        /\ \A x \in still : \E j \in DOMAIN f.prepared : f.prepared[j] = x
        /\ \A x \in still : \E j \in DOMAIN f.done : f.done[j] = x
        /\ \A j, k \in DOMAIN f.prepared : j < k => f.prepared[k] < f.prepared[j]
        /\ \A j, k \in DOMAIN f.done : j < k => f.done[j] < f.done[k]
    BY Zenon DEF Walk
  <1>2. ASSUME NEW x \in Ids(f.start), NEW y \in Ids(f.start), x < y
        PROVE  InFront(f.start, x, y)
    <2>1. PICK i \in DOMAIN f.start : f.start[i].id = x
      BY Zenon DEF Ids
    <2>2. PICK j \in DOMAIN f.start : f.start[j].id = y
      BY Zenon DEF Ids
    <2>3. i \in Nat /\ j \in Nat /\ x \in Nat /\ y \in Nat
      BY <2>1, <2>2, EntriesOf
    <2>4. i < j
      BY <1>1, <1>2, <2>1, <2>2, <2>3, SMTT(30) DEF Sorted
    <2> QED
      BY <2>1, <2>2, <2>4, Zenon DEF InFront
  <1> HIDE DEF still
  <1>3. \A j, k \in DOMAIN f.prepared :
           j < k /\ {f.prepared[j], f.prepared[k]} \subseteq still
               => InFront(f.start, f.prepared[k], f.prepared[j])
    BY <1>1, <1>2, Zenon DEF still
  <1>4. \A j, k \in DOMAIN f.done :
           j < k /\ {f.done[j], f.done[k]} \subseteq still
               => InFront(f.start, f.done[j], f.done[k])
    BY <1>1, <1>2, Zenon DEF still
  <1> QED
    BY <1>1, <1>3, <1>4, ZenonT(30) DEF Paired, still

-----------------------------------------------------------------------------

\* The frame of a fork: the entry under its walk, the list it began with, and
\* the handlers it has called.
ForkFrames ==
    [op : {"fork"}, phase : {"prepare", "parent"}, it : Nat \cup {None},
     start : Seq(Entry), prepared : Seq(Nat), done : Seq(Nat)]

\* The frame of a pass of __cxa_finalize that is in a callback.
CallFrames == [op : {"callback"}, dso : Dsos, i : Nat, appends : Nat]

\* The frame of a pass that is through with the array.
PassFrames == [op : {"passed"}, dso : Dsos]

\* The frames on the stacks of threads.
Frame == ForkFrames \cup CallFrames \cup PassFrames

\* The child of a fork, with its copy of the list and of the mutex.
Child ==
    [at : {"start", "walk"}, it : Nat \cup {None},
     mutex : [owner : Thread \cup {None}, depth : Nat],
     list : Seq(Entry), start : Seq(Entry), prepared : Seq(Nat), done : Seq(Nat)]

\* The types of the variables.
ExitTypes ==
    /\ g_atfork_list \in Seq(Entry)
    /\ work \in Nat
    /\ stack \in [Thread -> Seq(Frame)]
    /\ child = None \/ child \in Child
    /\ array \in Seq(Entry \cup {None})
    /\ total_appends \in Nat
    /\ g_atfork_list_mutex \in [owner : Thread \cup {None}, depth : Nat]

-----------------------------------------------------------------------------

\* The passes of __cxa_finalize that are in a callback.
Passes ==
    {p \in Thread \X Nat : p[2] \in DOMAIN stack[p[1]] /\ stack[p[1]][p[2]].op = "callback"}

\* call_depth counts at least the passes under way.
DepthInv == call_depth \in Nat /\ Fits(Passes, call_depth)

\* The list and the array hold their entries in the order of registration,
\* with numbers given out so far.
SortedInv ==
    /\ Sorted(g_atfork_list)
    /\ \A i \in DOMAIN g_atfork_list : g_atfork_list[i].id <= work
    /\ \A i, j \in DOMAIN array :
          i < j /\ array[i] # None /\ array[j] # None => array[i].id < array[j].id
    /\ \A i \in DOMAIN array : array[i] # None => array[i].id <= total_appends

\* The frame k of t is that of a fork.
ForkAt(t, k) == k \in DOMAIN stack[t] /\ stack[t][k].op = "fork"

\* One thread at most is in a fork, once, and it alone has the mutex.
OneFork ==
    /\ \A t \in Thread : \A j, k \in DOMAIN stack[t] : ForkAt(t, j) /\ ForkAt(t, k) => j = k
    /\ \/ g_atfork_list_mutex = Unlocked /\ \A t \in Thread : ~InFork(t)
       \/ \E t \in Thread :
             /\ g_atfork_list_mutex = [owner |-> t, depth |-> 1]
             /\ InFork(t)
             /\ \A u \in Thread : InFork(u) => u = t

\* Calls made by a fork handler are for other libraries than the handler's.
InHandler ==
    \A t \in Thread : \A j, k \in DOMAIN stack[t] :
        ForkAt(t, j) /\ j < k =>
            /\ stack[t][j].it # None
            /\ \A i \in DOMAIN g_atfork_list :
                  g_atfork_list[i].id = stack[t][j].it => g_atfork_list[i].dso # stack[t][k].dso

\* Every fork under way has called what lies behind it.
Walks == \A t \in Thread : \A k \in DOMAIN stack[t] :
    ForkAt(t, k) =>
        /\ Walk(stack[t][k], stack[t][k].phase, g_atfork_list)
        /\ \A x \in Ids(stack[t][k].start) : x <= work

\* So has the child.
ChildWalk == child # None => Sorted(child.list) /\ Walk(child, child.at, child.list)

\* A pass in a callback has left nothing to call at its index or above,
\* unless something was appended since it looked.
Caught ==
    \A t \in Thread : \A k \in DOMAIN stack[t] :
        stack[t][k].op = "callback" =>
            /\ stack[t][k].appends <= total_appends
            /\ stack[t][k].appends = total_appends =>
                  \A j \in Hits(stack[t][k].dso, Len(array)) : j < stack[t][k].i

\* The inductive invariant.
ExitInv ==
    /\ ExitTypes /\ DepthInv /\ SortedInv /\ OneFork /\ InHandler /\ Walks /\ ChildWalk /\ Caught

\* A step that changes nothing keeps it.
LEMMA Stutters ==
    ASSUME ExitInv, UNCHANGED vars
    PROVE  ExitInv'
  <1>1. UNCHANGED <<g_atfork_list, g_atfork_list_mutex, work, child, stack, array>>
    BY Zenon DEF vars, atforkVars, atexitVars
  <1>2. UNCHANGED <<total_appends, call_depth>>
    BY Zenon DEF vars, atexitVars
  <1>3. ExitTypes' /\ SortedInv' /\ ChildWalk'
    BY <1>1, <1>2, Zenon DEF ExitInv, ExitTypes, SortedInv, ChildWalk
  <1>4. DepthInv'
    BY <1>1, <1>2, Zenon DEF ExitInv, DepthInv, Passes
  <1>5. OneFork'
    BY <1>1 DEF ExitInv, OneFork, InFork, ForkAt
  <1>6. InHandler' /\ Walks'
    BY <1>1 DEF ExitInv, InHandler, Walks, ForkAt
  <1>7. Caught'
    BY <1>1, <1>2, Zenon DEF ExitInv, Caught, Hits
  <1> QED
    BY <1>3, <1>4, <1>5, <1>6, <1>7, Zenon DEF ExitInv

\* The process that exits has no call left.
LEMMA Exits ==
    ASSUME NEW t \in Thread, Exit(t)
    PROVE  /\ \A u \in Thread : stack'[u] = <<>> /\ DOMAIN stack'[u] = {} /\ ~InFork(u)'
           /\ g_atfork_list_mutex' = Unlocked
           /\ UNCHANGED <<array, total_appends>>
  <1>1. \A u \in Thread : stack'[u] = <<>>
    BY Zenon DEF Exit
  <1>2. DOMAIN <<>> = {}
    OBVIOUS
  <1>3. g_atfork_list_mutex' = Unlocked /\ UNCHANGED <<array, total_appends>>
    BY Zenon DEF Exit
  <1> QED
    BY <1>1, <1>2, <1>3, Zenon DEF InFork

-----------------------------------------------------------------------------

\* t's stack is now n frames high, this one the innermost; below it is what was.
Stacked(t, n, frame) ==
    /\ stack' \in [Thread -> Seq(Frame)]
    /\ Len(stack[t]) \in Nat /\ DOMAIN stack[t] = 1 .. Len(stack[t])
    /\ n \in 1 .. Len(stack[t]) + 1
    /\ Len(stack'[t]) = n /\ DOMAIN stack'[t] = 1 .. n
    /\ \A k \in 1 .. n - 1 : stack'[t][k] = stack[t][k]
    /\ stack'[t][n] = frame
    /\ \A u \in Thread : u # t => stack'[u] = stack[u]

\* t's innermost frame is gone.
Popped(t) ==
    /\ stack' \in [Thread -> Seq(Frame)]
    /\ Len(stack[t]) \in Nat \ {0} /\ DOMAIN stack[t] = 1 .. Len(stack[t])
    /\ DOMAIN stack'[t] = 1 .. Len(stack[t]) - 1
    /\ \A k \in 1 .. Len(stack[t]) - 1 : stack'[t][k] = stack[t][k]
    /\ \A u \in Thread : u # t => stack'[u] = stack[u]

\* A call adds a frame to the thread's stack.
LEMMA Pushed ==
    ASSUME ExitTypes, NEW t \in Thread, NEW frame \in Frame,
           stack' = [stack EXCEPT ![t] = Append(stack[t], frame)]
    PROVE  Stacked(t, Len(stack[t]) + 1, frame)
  <1>1. stack[t] \in Seq(Frame) /\ stack \in [Thread -> Seq(Frame)]
    BY Zenon DEF ExitTypes
  <1>2. stack'[t] = Append(stack[t], frame) /\ \A u \in Thread : u # t => stack'[u] = stack[u]
    BY <1>1, Zenon
  <1>3. Append(stack[t], frame) \in Seq(Frame)
    BY <1>1, Appended, Zenon
  <1> QED
    BY <1>1, <1>2, <1>3, Appended DEF Stacked

\* A step inside a call replaces the innermost frame.
LEMMA Became ==
    ASSUME ExitTypes, NEW t \in Thread, NEW frame \in Frame, stack[t] # <<>>,
           stack' = [stack EXCEPT ![t] = Append(Below(stack[t]), frame)]
    PROVE  Stacked(t, Len(stack[t]), frame)
  <1>1. stack[t] \in Seq(Frame) /\ stack \in [Thread -> Seq(Frame)]
    BY Zenon DEF ExitTypes
  <1> DEFINE low == Below(stack[t])
  <1>2. /\ low \in Seq(Frame) /\ Len(low) = Len(stack[t]) - 1 /\ Len(stack[t]) \in Nat \ {0}
        /\ DOMAIN stack[t] = 1 .. Len(stack[t])
        /\ \A k \in 1 .. Len(stack[t]) - 1 : low[k] = stack[t][k]
    BY <1>1, Lowered, Zenon
  <1>3. stack'[t] = Append(low, frame) /\ \A u \in Thread : u # t => stack'[u] = stack[u]
    BY <1>1, Zenon
  <1> HIDE DEF low
  <1>4. /\ Append(low, frame) \in Seq(Frame)
        /\ Len(Append(low, frame)) = Len(stack[t])
        /\ DOMAIN Append(low, frame) = 1 .. Len(stack[t])
        /\ \A k \in 1 .. Len(stack[t]) - 1 : Append(low, frame)[k] = low[k]
        /\ Append(low, frame)[Len(stack[t])] = frame
    BY <1>2, Appended
  <1>5. stack' \in [Thread -> Seq(Frame)]
    BY <1>1, <1>3, <1>4, Zenon
  <1>6. /\ Len(stack'[t]) = Len(stack[t]) /\ DOMAIN stack'[t] = 1 .. Len(stack[t])
        /\ \A k \in 1 .. Len(stack[t]) - 1 : stack'[t][k] = stack[t][k]
        /\ stack'[t][Len(stack[t])] = frame
    BY <1>2, <1>3, <1>4, Zenon
  <1>7. Len(stack[t]) \in 1 .. Len(stack[t]) + 1 /\ Len(stack[t]) \in Nat
    BY <1>2
  <1> QED
    BY <1>2, <1>3, <1>5, <1>6, <1>7, Zenon DEF Stacked

\* A return takes the innermost frame away.
LEMMA PopsOne ==
    ASSUME ExitTypes, NEW t \in Thread, stack[t] # <<>>, Pop(t)
    PROVE  Popped(t)
  <1>1. stack[t] \in Seq(Frame) /\ stack \in [Thread -> Seq(Frame)]
    BY Zenon DEF ExitTypes
  <1>2. stack'[t] = Below(stack[t]) /\ \A u \in Thread : u # t => stack'[u] = stack[u]
    BY <1>1, Zenon DEF Pop
  <1>3. stack' \in [Thread -> Seq(Frame)]
    BY <1>1, Lowered, Zenon DEF Pop
  <1> QED
    BY <1>1, <1>2, <1>3, Lowered, Zenon DEF Popped

-----------------------------------------------------------------------------

\* A thread that may make a call.
CallsMade(t) ==
    \/ stack[t] = <<>>
    \/ stack[t] # <<>> /\ Top(t).op = "callback"
    \/ stack[t] # <<>> /\ Top(t).op = "fork" /\ Top(t).it # None

\* A step of a pass for dso that begins, or goes on after a callback.
InPass(t, n, dso, depth) ==
    /\ dso \in Dsos
    /\ \/ /\ n = Len(stack[t]) + 1 /\ depth = call_depth + 1 /\ CallsMade(t) /\ work' = work + 1
          /\ \A i \in DOMAIN g_atfork_list :
                InFork(t) /\ ForkFrame(t).it = g_atfork_list[i].id => g_atfork_list[i].dso # dso
       \/ /\ n = Len(stack[t]) /\ depth = call_depth /\ stack[t] # <<>> /\ UNCHANGED work
          /\ Top(t).op = "callback" /\ Top(t).dso = dso
    /\ UNCHANGED <<g_atfork_list, g_atfork_list_mutex, child, total_appends, exited>>

\* The frame of a pass that has extracted entry j.
Callback(dso, j) == [op |-> "callback", dso |-> dso, i |-> j, appends |-> total_appends]

\* It calls the newest entry of dso.
Extracts(t, n, dso, depth, j) ==
    /\ j \in Hits(dso, Len(array)) /\ \A k \in Hits(dso, Len(array)) : k <= j
    /\ array' = [array EXCEPT ![j] = None]
    /\ call_depth' = depth
    /\ Stacked(t, n, Callback(dso, j))

\* It is through: no entry of dso is left.
Passed(t, n, dso, depth) ==
    /\ Hits(dso, Len(array)) = {}
    /\ call_depth' = depth - 1
    /\ \/ UNCHANGED array
       \/ /\ call_depth' = 0
          /\ \E at \in Ascending(array, {i \in DOMAIN array : array[i] # None}) :
                array' = [k \in DOMAIN at |-> array[at[k]]]
    /\ Stacked(t, n, [op |-> "passed", dso |-> dso])

\* A step of a pass: one more callback, or its end.
PassStep(t, n, dso, depth) ==
    /\ InPass(t, n, dso, depth)
    /\ \/ \E j \in Nat : Extracts(t, n, dso, depth, j)
       \/ Passed(t, n, dso, depth)

\* The op of a frame tells which kind it is.
LEMMA FrameFacts ==
    ASSUME NEW f \in Frame
    PROVE  /\ f.op = "fork" => f \in ForkFrames
           /\ f.op = "callback" => f \in CallFrames
           /\ f.op = "passed" => f \in PassFrames
           /\ f.op \in {"fork", "callback", "passed"}
           /\ f.op # "fork" => f.dso \in Dsos
  BY Zenon DEF Frame, ForkFrames, CallFrames, PassFrames

\* The innermost frame is on the stack.
LEMMA TopFrame ==
    ASSUME ExitTypes, NEW t \in Thread, stack[t] # <<>>
    PROVE  /\ Top(t) \in Frame /\ Len(stack[t]) \in Nat \ {0}
           /\ DOMAIN stack[t] = 1 .. Len(stack[t]) /\ Len(stack[t]) \in DOMAIN stack[t]
  <1>1. stack[t] \in Seq(Frame)
    BY Zenon DEF ExitTypes
  <1> QED
    BY <1>1 DEF Top

\* The loop from i down is the loop from the end of the array down, when no
\* entry of dso is at i or beyond.
LEMMA ScanAll ==
    ASSUME ExitTypes, NEW t \in Thread, NEW rest, NEW dso \in Dsos, NEW i,
           Hits(dso, i) = Hits(dso, Len(array)),
           NEW depth, Scan(t, rest, dso, i, total_appends, depth),
           NEW n,
           \A f \in Frame :
              stack' = [stack EXCEPT ![t] = Append(rest, f)] => Stacked(t, n, f)
    PROVE  \/ \E j \in Nat : Extracts(t, n, dso, depth, j)
           \/ Passed(t, n, dso, depth)
  <1>1. array \in Seq(Entry \cup {None}) /\ total_appends \in Nat
    BY Zenon DEF ExitTypes
  <1>2. ASSUME NEW j \in Hits(dso, i), \A k \in Hits(dso, i) : k <= j,
               ExtractEntry(j), call_depth' = depth,
               stack' = [stack EXCEPT ![t] = Append(rest,
                   [op |-> "callback", dso |-> dso, i |-> j, appends |-> total_appends])]
        PROVE  j \in Nat /\ Extracts(t, n, dso, depth, j)
    <2>1. j \in Nat
      BY <1>1, <1>2 DEF Hits
    <2>2. Callback(dso, j) \in Frame
      BY <2>1, <1>1, Zenon DEF Callback, Frame, CallFrames
    <2>3. Stacked(t, n, Callback(dso, j))
      BY <1>2, <2>2, Zenon DEF Callback
    <2> QED
      BY <1>2, <2>1, <2>3, Zenon DEF Extracts, ExtractEntry
  <1>3. ASSUME Hits(dso, i) = {}, call_depth' = depth - 1,
               IF Recompacts(dso, depth - 1) THEN Recompact
               ELSE UNCHANGED <<array, extracted_count>>,
               stack' = [stack EXCEPT ![t] = Append(rest, [op |-> "passed", dso |-> dso])]
        PROVE  Passed(t, n, dso, depth)
    <2>1. [op |-> "passed", dso |-> dso] \in Frame
      BY Zenon DEF Frame, PassFrames
    <2>2. Stacked(t, n, [op |-> "passed", dso |-> dso])
      BY <1>3, <2>1, Zenon
    <2>3. \/ UNCHANGED array
          \/ /\ call_depth' = 0
             /\ \E at \in Ascending(array, {k \in DOMAIN array : array[k] # None}) :
                   array' = [k \in DOMAIN at |-> array[at[k]]]
      BY <1>3, Zenon DEF Recompacts, Recompact
    <2> QED
      BY <1>3, <2>2, <2>3, Zenon DEF Passed
  <1> QED
    BY <1>2, <1>3, Zenon DEF Scan

\* A __cxa_finalize that is called takes a step of a pass.
LEMMA Begins ==
    ASSUME ExitTypes, NEW t \in Thread, NEW dso \in Dsos, CxaFinalize(t, dso)
    PROVE  \E n \in Nat : \E depth : PassStep(t, n, dso, depth)
  <1> DEFINE n == Len(stack[t]) + 1
  <1>1. stack[t] \in Seq(Frame) /\ Len(stack[t]) \in Nat /\ n \in Nat
    BY DEF ExitTypes
  <1>2. InPass(t, n, dso, call_depth + 1)
    BY Zenon DEF CxaFinalize, InPass, CanCall, CallsMade, In, Work, Scan
  <1>3. \A f \in Frame :
           stack' = [stack EXCEPT ![t] = Append(stack[t], f)] => Stacked(t, n, f)
    BY Pushed, Zenon
  <1>5. Scan(t, stack[t], dso, Len(array), total_appends, call_depth + 1)
    BY Zenon DEF CxaFinalize
  <1> HIDE DEF n
  <1>6. \/ \E j \in Nat : Extracts(t, n, dso, call_depth + 1, j)
        \/ Passed(t, n, dso, call_depth + 1)
    BY <1>3, <1>5, ScanAll, Zenon
  <1> QED
    BY <1>1, <1>2, <1>6, Zenon DEF PassStep

\* A callback that returns does so too: starting anew at the end of the array
\* and going on below the index come to the same.
LEMMA GoesOn ==
    ASSUME ExitTypes, Caught, NEW t \in Thread, CallbackReturns(t)
    PROVE  \E n \in Nat, dso \in Dsos : \E depth : PassStep(t, n, dso, depth)
  <1> DEFINE n == Len(stack[t])
             f == Top(t)
  <1>1. stack[t] # <<>> /\ f.op = "callback" /\ UNCHANGED work
    BY Zenon DEF CallbackReturns, In
  <1>2. f \in CallFrames /\ n \in Nat \ {0} /\ n \in DOMAIN stack[t] /\ f.dso \in Dsos
    BY <1>1, TopFrame, FrameFacts, Zenon
  <1>3. PICK i : /\ Scan(t, Below(stack[t]), f.dso, i, total_appends, call_depth)
                 /\ i = Len(array) \/ (total_appends = f.appends /\ i = f.i - 1)
    BY Zenon DEF CallbackReturns
  <1>4. Hits(f.dso, i) = Hits(f.dso, Len(array))
    <2>1. CASE i = Len(array)
      BY <2>1, Zenon
    <2>2. CASE total_appends = f.appends /\ i = f.i - 1
      <3>1. \A j \in Hits(f.dso, Len(array)) : j < f.i
        BY <1>1, <1>2, <2>2, Zenon DEF Caught, Top
      <3>2. array \in Seq(Entry \cup {None}) /\ f.i \in Nat
        BY <1>2, Zenon DEF ExitTypes, CallFrames
      <3> QED
        BY <2>2, <3>1, <3>2 DEF Hits
    <2> QED
      BY <1>3, <2>1, <2>2, Zenon
  <1>5. InPass(t, n, f.dso, call_depth)
    BY <1>1, <1>2, <1>3, Zenon DEF InPass, Scan
  <1>6. \A g \in Frame :
           stack' = [stack EXCEPT ![t] = Append(Below(stack[t]), g)] => Stacked(t, n, g)
    BY <1>1, Became, Zenon
  <1> HIDE DEF n, f
  <1>8. (\E j \in Nat : Extracts(t, n, f.dso, call_depth, j)) \/ Passed(t, n, f.dso, call_depth)
    BY <1>2, <1>3, <1>4, <1>6, ScanAll, Zenon
  <1> QED
    BY <1>2, <1>5, <1>8, Zenon DEF PassStep

-----------------------------------------------------------------------------

\* The frame of a fork that begins.
NewFork ==
    [op |-> "fork", phase |-> "prepare", it |-> LastEntry(g_atfork_list),
     start |-> g_atfork_list, prepared |-> <<>>, done |-> <<>>]

\* A fork takes the mutex and begins to walk backwards.
LEMMA ForkPushes ==
    ASSUME ExitTypes, SortedInv, NEW t \in Thread, Fork(t)
    PROVE  /\ NewFork \in ForkFrames
           /\ Stacked(t, Len(stack[t]) + 1, NewFork)
           /\ CallsMade(t) /\ ~InFork(t) /\ work' = work + 1
           /\ UNCHANGED <<g_atfork_list, child>>
           /\ g_atfork_list_mutex.owner \in {None, t}
           /\ g_atfork_list_mutex' = [owner |-> t, depth |-> g_atfork_list_mutex.depth + 1]
  <1>1. LastEntry(g_atfork_list) \in Nat \cup {None}
    BY Ends, Zenon DEF ExitTypes, SortedInv
  <1>2. NewFork \in ForkFrames
    BY <1>1 DEF NewFork, ForkFrames, ExitTypes
  <1>3. NewFork \in Frame
    BY <1>2, Zenon DEF Frame
  <1>4. stack' = [stack EXCEPT ![t] = Append(stack[t], NewFork)]
    BY Zenon DEF Fork, Push, NewFork
  <1>5. Stacked(t, Len(stack[t]) + 1, NewFork)
    BY <1>3, <1>4, Pushed, Zenon
  <1> QED
    BY <1>2, <1>5, Zenon DEF Fork, Lock, Available, CanCall, CallsMade, In, Work

\* The frame of a fork after the handler of the entry under the walk.
Walked(f) ==
    IF f.phase = "prepare"
      THEN [f EXCEPT !.prepared = Append(@, f.it), !.it = Before(g_atfork_list, f.it)]
      ELSE [f EXCEPT !.done = Append(@, f.it), !.it = After(g_atfork_list, f.it)]

\* A handler returns, and the walk goes on.
LEMMA HandlerWalks ==
    ASSUME ExitTypes, SortedInv, Walks, NEW t \in Thread, HandlerReturns(t)
    PROVE  /\ stack[t] # <<>> /\ Top(t) \in ForkFrames /\ Top(t).it # None
           /\ ForkAt(t, Len(stack[t])) /\ Walk(Top(t), Top(t).phase, g_atfork_list)
           /\ Top(t).it \in Ids(g_atfork_list)
           /\ Walked(Top(t)) \in ForkFrames
           /\ Stacked(t, Len(stack[t]), Walked(Top(t)))
           /\ UNCHANGED <<g_atfork_list, g_atfork_list_mutex, work, child>>
  <1> DEFINE f == Top(t)
  <1>1. stack[t] # <<>> /\ f.op = "fork" /\ f.it # None
    BY Zenon DEF HandlerReturns, In
  <1>2. f \in ForkFrames /\ ForkAt(t, Len(stack[t]))
    BY <1>1, TopFrame, FrameFacts, Zenon DEF ForkAt, Top
  <1>3. Walk(f, f.phase, g_atfork_list)
    BY <1>2, TopFrame, <1>1, Zenon DEF Walks, Top
  <1>4. f.it \in Ids(g_atfork_list)
    BY <1>1, <1>3, Zenon DEF Walk
  <1>5. g_atfork_list \in Seq(Entry) /\ Sorted(g_atfork_list)
    BY Zenon DEF ExitTypes, SortedInv
  <1>6. /\ Before(g_atfork_list, f.it) \in Nat \cup {None}
        /\ After(g_atfork_list, f.it) \in Nat \cup {None}
        /\ f.it \in Nat
    <2>1. Ids(g_atfork_list) \subseteq Nat
      BY <1>5, Ends, Zenon
    <2> QED
      BY <1>4, <1>5, <2>1, Neighbours, Zenon
  <1>7. stack' = [stack EXCEPT ![t] = Append(Below(stack[t]), Walked(f))]
    BY Zenon DEF HandlerReturns, Becomes, Walked
  <1>8. Walked(f) \in ForkFrames
    <2>1. Append(f.prepared, f.it) \in Seq(Nat) /\ Append(f.done, f.it) \in Seq(Nat)
      BY <1>2, <1>6, Appended, Zenon DEF ForkFrames
    <2> HIDE DEF f
    <2> QED
      BY <1>2, <1>6, <2>1, Zenon DEF ForkFrames, Walked
  <1>9. Stacked(t, Len(stack[t]), Walked(f))
    BY <1>1, <1>7, <1>8, Became, Zenon DEF Frame
  <1> QED
    BY <1>1, <1>2, <1>3, <1>4, <1>8, <1>9, Zenon DEF HandlerReturns

\* The frame of a fork in the parent, and the child.
Cloned(f) == [f EXCEPT !.phase = "parent", !.it = FirstEntry(g_atfork_list)]

\* The child that a fork leaves.
NewChild(f) ==
    [at |-> "start", it |-> None, mutex |-> g_atfork_list_mutex, list |-> g_atfork_list,
     start |-> f.start, prepared |-> f.prepared, done |-> <<>>]

\* The clone turns the walk round, and makes a child or fails.
LEMMA ForkClones ==
    ASSUME ExitTypes, SortedInv, Walks, NEW t \in Thread, CloneForFork(t)
    PROVE  /\ stack[t] # <<>> /\ Top(t) \in ForkFrames
           /\ ForkAt(t, Len(stack[t])) /\ Walk(Top(t), "prepare", g_atfork_list)
           /\ Top(t).phase = "prepare" /\ Top(t).it = None
           /\ Cloned(Top(t)) \in ForkFrames
           /\ Stacked(t, Len(stack[t]), Cloned(Top(t)))
           /\ (child' = NewChild(Top(t)) /\ NewChild(Top(t)) \in Child) \/ child' = child
           /\ UNCHANGED <<g_atfork_list, g_atfork_list_mutex, work>>
  <1> DEFINE f == Top(t)
  <1>1. stack[t] # <<>> /\ f.op = "fork" /\ f.phase = "prepare" /\ f.it = None
    BY Zenon DEF CloneForFork, In
  <1>2. f \in ForkFrames /\ ForkAt(t, Len(stack[t]))
    BY <1>1, TopFrame, FrameFacts, Zenon DEF ForkAt, Top
  <1>3. Walk(f, "prepare", g_atfork_list)
    BY <1>2, TopFrame, <1>1, Zenon DEF Walks, Top
  <1>4. FirstEntry(g_atfork_list) \in Nat \cup {None}
    BY Ends, Zenon DEF ExitTypes, SortedInv
  <1>5. stack' = [stack EXCEPT ![t] = Append(Below(stack[t]), Cloned(f))]
    BY Zenon DEF CloneForFork, Becomes, Cloned
  <1>6. Cloned(f) \in ForkFrames
    <2> HIDE DEF f
    <2> QED
      BY <1>2, <1>4, Zenon DEF ForkFrames, Cloned
  <1>7. Stacked(t, Len(stack[t]), Cloned(f))
    BY <1>1, <1>5, <1>6, Became, Zenon DEF Frame
  <1>8. NewChild(f) \in Child
    BY <1>2 DEF ForkFrames, NewChild, Child, ExitTypes
  <1>9. child' = NewChild(f) \/ child' = child
    BY Zenon DEF CloneForFork, NewChild
  <1> QED
    BY <1>1, <1>2, <1>3, <1>6, <1>7, <1>8, <1>9, Zenon DEF CloneForFork

\* A fork that returns gives the mutex back.
LEMMA ForkPops ==
    ASSUME ExitTypes, NEW t \in Thread, ForkReturns(t)
    PROVE  /\ stack[t] # <<>> /\ ForkAt(t, Len(stack[t])) /\ Popped(t) /\ InFork(t)
           /\ UNCHANGED <<g_atfork_list, work, child>>
           /\ g_atfork_list_mutex' = IF g_atfork_list_mutex.depth = 1 THEN Unlocked
                                     ELSE [g_atfork_list_mutex EXCEPT !.depth = @ - 1]
  <1>1. stack[t] # <<>> /\ Top(t).op = "fork" /\ Pop(t)
    BY Zenon DEF ForkReturns, In
  <1>2. ForkAt(t, Len(stack[t])) /\ InFork(t)
    BY <1>1, TopFrame, Zenon DEF ForkAt, Top, InFork
  <1> QED
    BY <1>1, <1>2, PopsOne, Zenon DEF ForkReturns, Unlock

\* What __unregister_atfork leaves of the list.
LEMMA Unregisters ==
    ASSUME ExitTypes, NEW t \in Thread, FinalizeEnds(t)
    PROVE  /\ stack[t] # <<>> /\ Top(t).op = "passed" /\ Top(t).dso \in Dso /\ Popped(t)
           /\ g_atfork_list' \in Seq(Entry)
           /\ \A k \in DOMAIN g_atfork_list' : \E i \in DOMAIN g_atfork_list :
                 g_atfork_list'[k] = g_atfork_list[i] /\ g_atfork_list[i].dso # Top(t).dso
           /\ \A i \in DOMAIN g_atfork_list : g_atfork_list[i].dso # Top(t).dso =>
                 \E k \in DOMAIN g_atfork_list' : g_atfork_list'[k] = g_atfork_list[i]
           /\ Sorted(g_atfork_list) => Sorted(g_atfork_list')
           /\ UNCHANGED <<g_atfork_list_mutex, work, child, atexitVars>>
           /\ g_atfork_list_mutex.owner \in {None, t}
  <1> DEFINE dso == Top(t).dso
             P == {i \in DOMAIN g_atfork_list : g_atfork_list[i].dso # dso}
  <1>1. stack[t] # <<>> /\ Top(t).op = "passed" /\ dso # NoDso /\ Pop(t)
    BY Zenon DEF FinalizeEnds, In
  <1>2. dso \in Dso
    BY <1>1, TopFrame, FrameFacts, Zenon DEF Dsos
  <1>3. PICK at \in Ascending(g_atfork_list, P) :
           g_atfork_list' = [k \in DOMAIN at |-> g_atfork_list[at[k]]]
    BY Zenon DEF FinalizeEnds, UnregisterAtfork
  <1>4. g_atfork_list \in Seq(Entry) /\ P \in SUBSET DOMAIN g_atfork_list
    BY Zenon DEF ExitTypes
  <1>5. /\ g_atfork_list' \in Seq(Entry)
        /\ DOMAIN g_atfork_list' = DOMAIN at
        /\ \A k \in DOMAIN at : at[k] \in P /\ g_atfork_list'[k] = g_atfork_list[at[k]]
        /\ \A j, k \in DOMAIN at : j < k => at[j] < at[k]
        /\ \A p \in P : \E k \in DOMAIN at : at[k] = p
    <2> HIDE DEF P
    <2> QED
      BY <1>3, <1>4, Thinned
  <1>6. Sorted(g_atfork_list) => Sorted(g_atfork_list')
    BY <1>5 DEF Sorted
  <1> QED
    BY <1>1, <1>2, <1>5, <1>6, PopsOne DEF FinalizeEnds, UnregisterAtfork, Available

\* The steps of the specification, by what the invariants tell of them.
LEMMA Steps ==
    ASSUME ExitTypes, Caught, Next
    PROVE  \/ \E t \in Thread, dso \in Dsos : CxaAtexit(t, dso)
           \/ \E t \in Thread, dso \in Dsos, n \in Nat : \E depth : PassStep(t, n, dso, depth)
           \/ \E t \in Thread, dso \in Dso : RegisterAtfork(t, dso) /\ UNCHANGED atexitVars
           \/ \E t \in Thread : FinalizeEnds(t) \/ Exit(t)
           \/ \E t \in Thread :
                 /\ Fork(t) \/ HandlerReturns(t) \/ CloneForFork(t) \/ ForkReturns(t)
                 /\ UNCHANGED atexitVars
           \/ ChildSteps /\ UNCHANGED atexitVars
  <1>1. CASE ChildSteps /\ UNCHANGED atexitVars
    BY <1>1, Zenon
  <1>2. ASSUME NEW t \in Thread, NEW dso \in Dsos, CxaFinalize(t, dso)
        PROVE  \E n \in Nat : \E depth : PassStep(t, n, dso, depth)
    BY <1>2, Begins, Zenon
  <1>3. ASSUME NEW t \in Thread, CallbackReturns(t)
        PROVE  \E n \in Nat, dso \in Dsos : \E depth : PassStep(t, n, dso, depth)
    BY <1>3, GoesOn, Zenon
  <1> QED
    BY <1>1, <1>2, <1>3, Zenon DEF Next, Inside, ForkSteps, Dsos

\* Every step keeps the types.
LEMMA TypesStep ==
    ASSUME ExitTypes, SortedInv, OneFork, Walks, Caught, Next
    PROVE  ExitTypes'
  <1>1. ASSUME NEW t \in Thread, NEW dso \in Dsos, CxaAtexit(t, dso)
        PROVE  ExitTypes'
    <2>1. [id |-> total_appends', dso |-> dso] \in Entry /\ total_appends' \in Nat
      BY <1>1 DEF CxaAtexit, AppendEntry, Entry, Dsos, ExitTypes
    <2>2. array' \in Seq(Entry \cup {None})
      BY <1>1, <2>1, Appended, Zenon DEF CxaAtexit, AppendEntry, ExitTypes
    <2> QED
      BY <1>1, <2>1, <2>2 DEF CxaAtexit, Work, ExitTypes
  <1>2. ASSUME NEW t \in Thread, NEW dso \in Dsos, NEW n \in Nat, NEW depth,
               PassStep(t, n, dso, depth)
        PROVE  ExitTypes'
    <2>1. array \in Seq(Entry \cup {None})
      BY Zenon DEF ExitTypes
    <2>2. array' \in Seq(Entry \cup {None})
      <3>1. CASE UNCHANGED array
        BY <2>1, <3>1, Zenon
      <3>2. ASSUME NEW j \in Nat, array' = [array EXCEPT ![j] = None]
            PROVE  array' \in Seq(Entry \cup {None})
        BY <2>1, <3>2, Replaced, Zenon
      <3>3. ASSUME NEW at \in Ascending(array, {i \in DOMAIN array : array[i] # None}),
                   array' = [k \in DOMAIN at |-> array[at[k]]]
            PROVE  array' \in Seq(Entry \cup {None})
        BY <2>1, <3>3, Thinned, ZenonT(30)
      <3> QED
        BY <1>2, <3>1, <3>2, <3>3, Zenon DEF PassStep, Extracts, Passed
    <2>3. stack' \in [Thread -> Seq(Frame)]
      BY <1>2, Zenon DEF PassStep, Extracts, Passed, Stacked
    <2> QED
      BY <1>2, <2>2, <2>3 DEF PassStep, InPass, ExitTypes
  <1>3. ASSUME NEW t \in Thread, NEW dso \in Dso, RegisterAtfork(t, dso), UNCHANGED atexitVars
        PROVE  ExitTypes'
    <2>1. [id |-> work', dso |-> dso] \in Entry /\ work' \in Nat
      BY <1>3 DEF RegisterAtfork, Work, Entry, ExitTypes
    <2>2. g_atfork_list' \in Seq(Entry)
      BY <1>3, <2>1, Appended, Zenon DEF RegisterAtfork, ExitTypes
    <2> QED
      BY <1>3, <2>1, <2>2, Zenon DEF RegisterAtfork, ExitTypes, atexitVars
  <1>4. ASSUME NEW t \in Thread, FinalizeEnds(t)
        PROVE  ExitTypes'
    BY <1>4, Unregisters, Zenon DEF ExitTypes, Popped, atexitVars
  <1>5. ASSUME NEW t \in Thread, Exit(t)
        PROVE  ExitTypes'
    BY <1>5 DEF Exit, ExitTypes, Unlocked
  <1>6. ASSUME NEW t \in Thread, UNCHANGED atexitVars, Fork(t)
        PROVE  ExitTypes'
    BY <1>6, ForkPushes DEF ExitTypes, Stacked, atexitVars
  <1>7. ASSUME NEW t \in Thread, UNCHANGED atexitVars, HandlerReturns(t)
        PROVE  ExitTypes'
    BY <1>7, HandlerWalks, Zenon DEF ExitTypes, Stacked, atexitVars
  <1>8. ASSUME NEW t \in Thread, UNCHANGED atexitVars, CloneForFork(t)
        PROVE  ExitTypes'
    BY <1>8, ForkClones, Zenon DEF ExitTypes, Stacked, atexitVars
  <1>9. ASSUME NEW t \in Thread, UNCHANGED atexitVars, ForkReturns(t)
        PROVE  ExitTypes'
    <2>1. g_atfork_list_mutex.depth = 1
      BY <1>9, ForkPops DEF OneFork
    <2> QED
      BY <1>9, <2>1, ForkPops DEF ExitTypes, Popped, atexitVars, Unlocked
  <1>10. CASE ChildSteps /\ UNCHANGED atexitVars
    <2>1. CASE ChildStarts
      <3>1. child \in Child
        BY <2>1, Zenon DEF ChildStarts, ExitTypes
      <3>2. FirstEntry(child.list) \in Nat \cup {None}
        BY <3>1, EntriesOf DEF Child, FirstEntry
      <3> QED
        BY <1>10, <2>1, <3>1, <3>2, Zenon DEF ChildStarts, ExitTypes, Child, atexitVars
    <2>2. CASE ChildHandlerReturns
      <3>1. child \in Child /\ child.it # None
        BY <2>2, Zenon DEF ChildHandlerReturns, ExitTypes
      <3>2. child.it \in Nat /\ child.list \in Seq(Entry) /\ child.done \in Seq(Nat)
        BY <3>1, Zenon DEF Child
      <3>3. Append(child.done, child.it) \in Seq(Nat)
        BY <3>2
      <3>4. After(child.list, child.it) \in Nat \cup {None}
        <4> DEFINE S == {i \in DOMAIN child.list : i < Len(child.list) /\ child.list[i].id = child.it}
        <4>1. ASSUME S # {} PROVE (CHOOSE i \in S : TRUE) \in S
          BY <4>1, Zenon
        <4>2. \A i \in S : child.list[i + 1].id \in Nat
          BY <3>2, EntriesOf
        <4> QED
          BY <4>1, <4>2, Zenon DEF After
      <3> QED
        BY <1>10, <2>2, <3>1, <3>3, <3>4, Zenon
           DEF ChildHandlerReturns, ExitTypes, Child, atexitVars
    <2>3. CASE ChildReturns
      BY <1>10, <2>3, Zenon DEF ChildReturns, ExitTypes, atexitVars
    <2> QED
      BY <1>10, <2>1, <2>2, <2>3, Zenon DEF ChildSteps
  <1> QED
    BY <1>1, <1>2, <1>3, <1>4, <1>5, <1>6, <1>7, <1>8, <1>9, <1>10, Steps, Zenon

-----------------------------------------------------------------------------

\* A pass leaves a part of the array, in its order.
LEMMA ArrayThins ==
    ASSUME ExitTypes, NEW t, NEW dso, NEW n, NEW depth, PassStep(t, n, dso, depth)
    PROVE  \E at : /\ \A k \in DOMAIN array' : array'[k] # None =>
                         at[k] \in DOMAIN array /\ array'[k] = array[at[k]]
                   /\ \A j, k \in DOMAIN array' :
                         j < k /\ array'[j] # None /\ array'[k] # None => at[j] < at[k]
  <1>1. array \in Seq(Entry \cup {None})
    BY Zenon DEF ExitTypes
  <1>2. ASSUME UNCHANGED array \/ \E j \in Nat : array' = [array EXCEPT ![j] = None]
        PROVE  LET at == [k \in DOMAIN array |-> k]
               IN  /\ \A k \in DOMAIN array' : array'[k] # None =>
                         at[k] \in DOMAIN array /\ array'[k] = array[at[k]]
                   /\ \A j, k \in DOMAIN array' :
                         j < k /\ array'[j] # None /\ array'[k] # None => at[j] < at[k]
    BY <1>1, <1>2, Zenon
  <1>3. ASSUME NEW at \in Ascending(array, {i \in DOMAIN array : array[i] # None}),
               array' = [k \in DOMAIN at |-> array[at[k]]]
        PROVE  /\ \A k \in DOMAIN array' : array'[k] # None =>
                     at[k] \in DOMAIN array /\ array'[k] = array[at[k]]
               /\ \A j, k \in DOMAIN array' :
                     j < k /\ array'[j] # None /\ array'[k] # None => at[j] < at[k]
    BY <1>1, <1>3, Thinned
  <1> QED
    BY <1>2, <1>3, Zenon DEF PassStep, Extracts, Passed

\* Every step keeps the entries in order.
LEMMA SortedStep ==
    ASSUME ExitTypes, SortedInv, Caught, Next
    PROVE  SortedInv'
  <1> DEFINE ListSorted == /\ Sorted(g_atfork_list)
                           /\ \A i \in DOMAIN g_atfork_list : g_atfork_list[i].id <= work
             ArraySorted ==
                 /\ \A i, j \in DOMAIN array :
                       i < j /\ array[i] # None /\ array[j] # None => array[i].id < array[j].id
                 /\ \A i \in DOMAIN array : array[i] # None => array[i].id <= total_appends
  <1>a. ListSorted /\ ArraySorted
    BY Zenon DEF SortedInv
  <1>b. /\ array \in Seq(Entry \cup {None}) /\ g_atfork_list \in Seq(Entry)
        /\ work \in Nat /\ total_appends \in Nat
        /\ \A k \in DOMAIN g_atfork_list : g_atfork_list[k].id \in Nat
    BY EntriesOf, Zenon DEF ExitTypes
  <1>c. \A k \in DOMAIN array : array[k] # None => array[k].id \in Nat
    BY <1>b DEF Entry
  <1>d. work' = work \/ work' = work + 1
        => (UNCHANGED g_atfork_list => ListSorted')
    BY <1>a, <1>b DEF Sorted
  <1>e. UNCHANGED <<array, total_appends>> => ArraySorted'
    BY <1>a, Zenon
  <1>1. ASSUME NEW t \in Thread, NEW dso \in Dsos, CxaAtexit(t, dso)
        PROVE  SortedInv'
    <2> DEFINE e == [id |-> total_appends + 1, dso |-> dso]
    <2>1. e \in Entry /\ e.id = total_appends + 1 /\ array' = Append(array, e)
          /\ total_appends' = total_appends + 1
      BY <1>1, <1>b DEF CxaAtexit, AppendEntry, Entry, Dsos
    <2> HIDE DEF e
    <2>2. /\ DOMAIN array = 1 .. Len(array) /\ Len(array) \in Nat
          /\ DOMAIN array' = 1 .. Len(array) + 1
          /\ \A k \in 1 .. Len(array) : array'[k] = array[k]
          /\ array'[Len(array) + 1] = e
      BY <1>b, <2>1, Appended
    <2>3. ArraySorted'
      <3>1. ASSUME NEW i \in DOMAIN array', array'[i] # None
            PROVE  array'[i].id <= total_appends'
        BY <1>a, <1>b, <1>c, <2>1, <2>2, <3>1
      <3>2. ASSUME NEW i \in DOMAIN array', NEW j \in DOMAIN array', i < j,
                   array'[i] # None, array'[j] # None
            PROVE  array'[i].id < array'[j].id
        <4>1. i \in DOMAIN array /\ array'[i] = array[i]
          BY <2>2, <3>2
        <4>2. CASE j \in DOMAIN array
          BY <1>a, <2>2, <3>2, <4>1, <4>2, Zenon
        <4>3. CASE j = Len(array) + 1
          BY <1>a, <1>b, <1>c, <2>1, <2>2, <3>2, <4>1, <4>3
        <4> QED
          BY <2>2, <4>2, <4>3
      <3> QED
        BY <3>1, <3>2, Zenon
    <2>4. ListSorted'
      BY <1>1, <1>d, Zenon DEF CxaAtexit, Work
    <2> QED
      BY <2>3, <2>4, Zenon DEF SortedInv
  <1>2. ASSUME NEW t \in Thread, NEW dso \in Dsos, NEW n \in Nat, NEW depth,
               PassStep(t, n, dso, depth)
        PROVE  SortedInv'
    <2>1. ListSorted' /\ total_appends' = total_appends
      BY <1>2, <1>d, Zenon DEF PassStep, InPass
    <2>2. PICK at :
             /\ \A k \in DOMAIN array' : array'[k] # None =>
                   at[k] \in DOMAIN array /\ array'[k] = array[at[k]]
             /\ \A j, k \in DOMAIN array' :
                   j < k /\ array'[j] # None /\ array'[k] # None => at[j] < at[k]
      BY <1>2, ArrayThins, Zenon
    <2>3. ArraySorted'
      BY <1>a, <2>1, <2>2, Zenon
    <2> QED
      BY <2>1, <2>3, Zenon DEF SortedInv
  <1>3. ASSUME NEW t \in Thread, NEW dso \in Dso, RegisterAtfork(t, dso), UNCHANGED atexitVars
        PROVE  SortedInv'
    <2> DEFINE e == [id |-> work + 1, dso |-> dso]
    <2>1. /\ e \in Entry /\ e.id = work + 1 /\ g_atfork_list' = Append(g_atfork_list, e)
          /\ work' = work + 1
      BY <1>3, <1>b DEF RegisterAtfork, Work, Entry
    <2> HIDE DEF e
    <2>2. /\ DOMAIN g_atfork_list = 1 .. Len(g_atfork_list) /\ Len(g_atfork_list) \in Nat
          /\ DOMAIN g_atfork_list' = 1 .. Len(g_atfork_list) + 1
          /\ \A k \in 1 .. Len(g_atfork_list) : g_atfork_list'[k] = g_atfork_list[k]
          /\ g_atfork_list'[Len(g_atfork_list) + 1] = e
      BY <1>b, <2>1, Appended
    <2>3. \A i \in DOMAIN g_atfork_list' : g_atfork_list'[i].id <= work'
      BY <1>a, <1>b, <2>1, <2>2
    <2>4. Sorted(g_atfork_list')
      <3>1. ASSUME NEW i \in DOMAIN g_atfork_list', NEW j \in DOMAIN g_atfork_list', i < j
            PROVE  g_atfork_list'[i].id < g_atfork_list'[j].id
        <4>1. i \in DOMAIN g_atfork_list /\ g_atfork_list'[i] = g_atfork_list[i]
          BY <2>2, <3>1
        <4>2. CASE j \in DOMAIN g_atfork_list
          BY <1>a, <2>2, <3>1, <4>1, <4>2, Zenon DEF Sorted
        <4>3. CASE j = Len(g_atfork_list) + 1
          BY <1>a, <1>b, <2>1, <2>2, <4>1, <4>3
        <4> QED
          BY <2>2, <4>2, <4>3
      <3> QED
        BY <3>1, Zenon DEF Sorted
    <2>5. ArraySorted'
      BY <1>3, <1>e, Zenon DEF atexitVars
    <2> QED
      BY <2>3, <2>4, <2>5, Zenon DEF SortedInv
  <1>4. ASSUME NEW t \in Thread, FinalizeEnds(t)
        PROVE  SortedInv'
    <2>1. Sorted(g_atfork_list') /\ UNCHANGED <<work, array, total_appends>>
      BY <1>4, <1>a, Unregisters, Zenon DEF atexitVars
    <2>2. \A i \in DOMAIN g_atfork_list' : g_atfork_list'[i].id <= work'
      BY <1>4, <1>a, <2>1, Unregisters
    <2> QED
      BY <1>e, <2>1, <2>2, Zenon DEF SortedInv
  <1>5. ASSUME NEW t \in Thread, Exit(t)
        PROVE  SortedInv'
    <2>1. g_atfork_list' = <<>> /\ UNCHANGED <<array, total_appends>>
      BY <1>5, Zenon DEF Exit
    <2> QED
      BY <1>e, <2>1 DEF SortedInv, Sorted
  <1>6. ASSUME NEW t \in Thread, UNCHANGED atexitVars,
               Fork(t) \/ HandlerReturns(t) \/ CloneForFork(t) \/ ForkReturns(t)
        PROVE  SortedInv'
    <2>1. UNCHANGED <<g_atfork_list, array, total_appends>> /\ (work' = work \/ work' = work + 1)
      BY <1>6, Zenon DEF Fork, HandlerReturns, CloneForFork, ForkReturns, Work, atexitVars
    <2> QED
      BY <1>d, <1>e, <2>1, Zenon DEF SortedInv
  <1>7. CASE ChildSteps /\ UNCHANGED atexitVars
    <2>1. UNCHANGED <<g_atfork_list, array, total_appends, work>>
      BY <1>7, Zenon DEF ChildSteps, ChildStarts, ChildHandlerReturns, ChildReturns, atexitVars
    <2> QED
      BY <1>d, <1>e, <2>1, Zenon DEF SortedInv
  <1> QED
    BY <1>1, <1>2, <1>3, <1>4, <1>5, <1>6, <1>7, Steps, Zenon

-----------------------------------------------------------------------------

\* Every step keeps the count of the passes under way.
LEMMA DepthStep ==
    ASSUME ExitTypes, SortedInv, Walks, Caught, DepthInv, Next
    PROVE  DepthInv'
  <1>a. UNCHANGED call_depth /\ Passes' = Passes => DepthInv'
    BY Zenon DEF DepthInv
  <1>b. \A t \in Thread, k \in Nat :
           /\ <<t, k>> \in Passes <=> k \in DOMAIN stack[t] /\ stack[t][k].op = "callback"
           /\ <<t, k>> \in Passes' <=> k \in DOMAIN stack'[t] /\ stack'[t][k].op = "callback"
    BY Zenon DEF Passes
  <1>c. \A p \in Passes \cup Passes' : \E t \in Thread, k \in Nat : p = <<t, k>>
    BY DEF Passes
  <1>d. ASSUME NEW t \in Thread, NEW n \in Nat, NEW frame, Stacked(t, n, frame),
               n = Len(stack[t]) + 1
        PROVE  /\ <<t, n>> \notin Passes
               /\ Passes' = IF frame.op = "callback" THEN Passes \cup {<<t, n>>} ELSE Passes
    <2>1. \A u \in Thread, k \in Nat :
             <<u, k>> \in Passes' <=> \/ <<u, k>> \in Passes
                                      \/ u = t /\ k = n /\ frame.op = "callback"
      <3> TAKE u \in Thread, k \in Nat
      <3>1. CASE u # t
        BY <1>b, <1>d, <3>1, Zenon DEF Stacked
      <3>2. CASE u = t
        <4>1. DOMAIN stack[t] = 1 .. n - 1 /\ DOMAIN stack'[t] = 1 .. n /\ stack'[t][n] = frame
              /\ \A i \in 1 .. n - 1 : stack'[t][i] = stack[t][i]
          BY <1>d DEF Stacked
        <4>2. k \in 1 .. n - 1 \/ k = n \/ k \notin 1 .. n
          OBVIOUS
        <4>3. CASE k = n
          BY <1>b, <1>d, <3>2, <4>1, <4>3, Zenon DEF Stacked
        <4>4. CASE k # n
          BY <1>b, <3>2, <4>1, <4>2, <4>4
        <4> QED
          BY <4>3, <4>4, Zenon
      <3> QED
        BY <3>1, <3>2, Zenon
    <2>2. <<t, n>> \notin Passes
      BY <1>b, <1>d DEF Stacked
    <2> QED
      BY <1>c, <2>1, <2>2
  <1>e. ASSUME NEW t \in Thread, NEW n \in Nat, NEW frame, Stacked(t, n, frame),
               n = Len(stack[t])
        PROVE  /\ Passes' = IF frame.op = "callback" THEN Passes \cup {<<t, n>>}
                            ELSE Passes \ {<<t, n>>}
               /\ <<t, n>> \in Passes <=> stack[t][n].op = "callback"
    <2>1. \A u \in Thread, k \in Nat :
             <<u, k>> \in Passes' <=>
                 IF u = t /\ k = n THEN frame.op = "callback" ELSE <<u, k>> \in Passes
      <3> TAKE u \in Thread, k \in Nat
      <3>1. CASE u # t
        BY <1>b, <1>e, <3>1, Zenon DEF Stacked
      <3>2. CASE u = t
        <4>1. DOMAIN stack[t] = 1 .. n /\ DOMAIN stack'[t] = 1 .. n /\ stack'[t][n] = frame
              /\ \A i \in 1 .. n - 1 : stack'[t][i] = stack[t][i]
          BY <1>e, Zenon DEF Stacked
        <4>2. k \in 1 .. n - 1 \/ k = n \/ k \notin 1 .. n
          OBVIOUS
        <4>3. CASE k = n
          BY <1>b, <1>e, <3>2, <4>1, <4>3 DEF Stacked
        <4>4. CASE k # n
          BY <1>b, <3>2, <4>1, <4>2, <4>4, Zenon
        <4> QED
          BY <4>3, <4>4, Zenon
      <3> QED
        BY <3>1, <3>2, Zenon
    <2>2. <<t, n>> \in Passes <=> stack[t][n].op = "callback"
      BY <1>b, <1>e DEF Stacked
    <2> QED
      BY <1>c, <2>1, <2>2
  <1>f. ASSUME NEW t \in Thread, Popped(t), stack[t][Len(stack[t])].op # "callback"
        PROVE  Passes' = Passes
    <2>1. \A u \in Thread, k \in Nat : <<u, k>> \in Passes' <=> <<u, k>> \in Passes
      <3> TAKE u \in Thread, k \in Nat
      <3>1. CASE u # t
        BY <1>b, <1>f, <3>1, Zenon DEF Popped
      <3>2. CASE u = t
        <4> DEFINE n == Len(stack[t])
        <4>1. /\ DOMAIN stack[t] = 1 .. n /\ DOMAIN stack'[t] = 1 .. n - 1 /\ n \in Nat
              /\ \A i \in 1 .. n - 1 : stack'[t][i] = stack[t][i]
              /\ stack[t][n].op # "callback"
          BY <1>f, Zenon DEF Popped
        <4> HIDE DEF n
        <4>2. k \in 1 .. n - 1 \/ k = n \/ k \notin 1 .. n
          BY <4>1
        <4>3. CASE k = n
          BY <1>b, <3>2, <4>1, <4>3, Zenon
        <4>4. CASE k # n
          BY <1>b, <3>2, <4>1, <4>2, <4>4
        <4> QED
          BY <4>3, <4>4, Zenon
      <3> QED
        BY <3>1, <3>2, Zenon
    <2> QED
      BY <1>c, <2>1
  <1>1. ASSUME NEW t \in Thread, NEW dso \in Dsos, CxaAtexit(t, dso)
        PROVE  DepthInv'
    BY <1>1, <1>a, Zenon DEF CxaAtexit, Passes
  <1>2. ASSUME NEW t \in Thread, NEW dso \in Dsos, NEW n \in Nat, NEW depth,
               PassStep(t, n, dso, depth)
        PROVE  DepthInv'
    <2>0. call_depth \in Nat /\ Fits(Passes, call_depth)
      BY Zenon DEF DepthInv
    <2>1. ASSUME NEW j \in Nat, Extracts(t, n, dso, depth, j)
          PROVE  DepthInv'
      <3>1. Stacked(t, n, Callback(dso, j)) /\ Callback(dso, j).op = "callback" /\ call_depth' = depth
        BY <2>1, Zenon DEF Extracts, Callback
      <3>2. CASE n = Len(stack[t]) + 1 /\ depth = call_depth + 1
        <4>1. Passes' = Passes \cup {<<t, n>>} /\ call_depth' = call_depth + 1
          BY <1>d, <3>1, <3>2, Zenon
        <4>2. Fits(Passes \cup {<<t, n>>}, call_depth + 1)
          BY <2>0, OneMore, Zenon
        <4> QED
          BY <2>0, <4>1, <4>2 DEF DepthInv
      <3>3. CASE n = Len(stack[t]) /\ depth = call_depth /\ Top(t).op = "callback"
        <4>1. Passes' = Passes
          BY <1>e, <3>1, <3>3, ZenonT(30) DEF Top
        <4> QED
          BY <1>a, <3>1, <3>3, <4>1, Zenon
      <3> QED
        BY <1>2, <3>2, <3>3, Zenon DEF PassStep, InPass
    <2>2. ASSUME Passed(t, n, dso, depth)
          PROVE  DepthInv'
      <3> DEFINE f == [op |-> "passed", dso |-> dso]
      <3>1. Stacked(t, n, f) /\ f.op # "callback" /\ call_depth' = depth - 1
        BY <2>2, Zenon DEF Passed
      <3> HIDE DEF f
      <3>2. CASE n = Len(stack[t]) + 1 /\ depth = call_depth + 1
        <4>1. Passes' = Passes
          BY <1>d, <3>1, <3>2, Zenon
        <4>2. call_depth' = call_depth
          BY <2>0, <3>1, <3>2
        <4> QED
          BY <1>a, <4>1, <4>2, Zenon
      <3>3. CASE n = Len(stack[t]) /\ depth = call_depth /\ Top(t).op = "callback"
        <4>1. Passes' = Passes \ {<<t, n>>} /\ <<t, n>> \in Passes
          BY <1>e, <3>1, <3>3, Zenon DEF Top
        <4>2. call_depth # 0 /\ Fits(Passes \ {<<t, n>>}, call_depth - 1)
          BY <2>0, <4>1, OneLess, Zenon
        <4> QED
          BY <2>0, <3>1, <3>3, <4>1, <4>2 DEF DepthInv
      <3> QED
        BY <1>2, <3>2, <3>3, Zenon DEF PassStep, InPass
    <2> QED
      BY <1>2, <2>1, <2>2, Zenon DEF PassStep
  <1>3. ASSUME NEW t \in Thread, NEW dso \in Dso, RegisterAtfork(t, dso), UNCHANGED atexitVars
        PROVE  DepthInv'
    BY <1>3, <1>a, Zenon DEF RegisterAtfork, Passes, atexitVars
  <1>4. ASSUME NEW t \in Thread, FinalizeEnds(t)
        PROVE  DepthInv'
    BY <1>4, <1>a, <1>f, Unregisters, Zenon DEF Top, atexitVars
  <1>5. ASSUME NEW t \in Thread, Exit(t)
        PROVE  DepthInv'
    <2>1. Passes' = {} /\ call_depth' = 0
      BY <1>5 DEF Exit, Passes
    <2>2. [p \in {} |-> p] \in [{} -> 1 .. 0]
      BY Zenon
    <2> QED
      BY <2>1, <2>2, Zenon DEF DepthInv, Fits
  <1>6. ASSUME NEW t \in Thread, UNCHANGED atexitVars, Fork(t)
        PROVE  DepthInv'
    <2>1. NewFork.op # "callback" /\ Len(stack[t]) + 1 \in Nat
      BY <1>6, ForkPushes DEF NewFork, Stacked
    <2> QED
      BY <1>6, <1>a, <1>d, <2>1, ForkPushes, ZenonT(30) DEF atexitVars
  <1>7. ASSUME NEW t \in Thread, UNCHANGED atexitVars, HandlerReturns(t) \/ CloneForFork(t)
        PROVE  DepthInv'
    <2>1. PICK f \in ForkFrames : Stacked(t, Len(stack[t]), f)
      BY <1>7, HandlerWalks, ForkClones, Zenon
    <2>2. f.op # "callback" /\ Len(stack[t]) \in Nat
      BY <2>1, Zenon DEF ForkFrames, Stacked
    <2>3. stack[t][Len(stack[t])].op # "callback"
      BY <1>7, HandlerWalks, ForkClones, Zenon DEF ForkAt
    <2> QED
      BY <1>7, <1>a, <1>e, <2>1, <2>2, <2>3, ZenonT(30) DEF atexitVars
  <1>8. ASSUME NEW t \in Thread, UNCHANGED atexitVars, ForkReturns(t)
        PROVE  DepthInv'
    BY <1>8, <1>a, <1>f, ForkPops, Zenon DEF ForkAt, atexitVars
  <1>9. CASE ChildSteps /\ UNCHANGED atexitVars
    <2>1. UNCHANGED <<stack, call_depth>>
      BY <1>9, Zenon DEF ChildSteps, ChildStarts, ChildHandlerReturns, ChildReturns, atexitVars
    <2> QED
      BY <1>a, <2>1, Zenon DEF Passes
  <1> QED
    BY <1>1, <1>2, <1>3, <1>4, <1>5, <1>6, <1>7, <1>8, <1>9, Steps, Zenon

-----------------------------------------------------------------------------

\* No fork begins or ends.
SameForks == \A u \in Thread, k \in Nat : ForkAt(u, k)' <=> ForkAt(u, k)

\* A thread is in a fork when one of its frames is.
ForksMean ==
    \A u \in Thread :
        /\ InFork(u) <=> \E k \in Nat : ForkAt(u, k)
        /\ \A k \in DOMAIN stack[u] : k \in Nat

\* The positions of a stack are numbers.
LEMMA ForkMeans == ExitTypes => ForksMean
  <1> SUFFICES ASSUME ExitTypes, NEW u \in Thread
               PROVE  /\ InFork(u) <=> \E k \in Nat : ForkAt(u, k)
                      /\ \A k \in DOMAIN stack[u] : k \in Nat
    BY Zenon DEF ForksMean
  <1>1. stack[u] \in Seq(Frame)
    BY Zenon DEF ExitTypes
  <1> QED
    BY <1>1 DEF InFork, ForkAt

\* Where forks are after a frame was added or replaced.
LEMMA StackedForks ==
    ASSUME NEW t \in Thread, NEW n \in Nat, NEW frame, Stacked(t, n, frame)
    PROVE  \A u \in Thread, k \in Nat :
              ForkAt(u, k)' <=> IF u = t /\ k = n THEN frame.op = "fork"
                                ELSE ForkAt(u, k) /\ (u = t => k < n)
  <1> TAKE u \in Thread, k \in Nat
  <1>1. CASE u # t
    BY <1>1, Zenon DEF Stacked, ForkAt
  <1>2. CASE u = t
    <2>1. /\ Len(stack[t]) \in Nat /\ DOMAIN stack[t] = 1 .. Len(stack[t])
          /\ n \in 1 .. Len(stack[t]) + 1 /\ DOMAIN stack'[t] = 1 .. n
          /\ \A i \in 1 .. n - 1 : stack'[t][i] = stack[t][i]
          /\ stack'[t][n] = frame
      BY Zenon DEF Stacked
    <2>2. CASE k = n
      BY <1>2, <2>1, <2>2 DEF ForkAt
    <2>3. CASE k < n
      <3>1. k \in 1 .. n - 1 \/ k = 0
        BY <2>3
      <3> QED
        BY <1>2, <2>1, <2>3, <3>1 DEF ForkAt
    <2>4. CASE k > n
      BY <1>2, <2>1, <2>4 DEF ForkAt
    <2> QED
      BY <2>2, <2>3, <2>4
  <1> QED
    BY <1>1, <1>2, Zenon

\* Where they are after one was taken away.
LEMMA PoppedForks ==
    ASSUME NEW t \in Thread, Popped(t)
    PROVE  \A u \in Thread, k \in Nat : ForkAt(u, k)' <=> ForkAt(u, k) /\ (u = t => k # Len(stack[t]))
  <1> TAKE u \in Thread, k \in Nat
  <1>1. CASE u # t
    BY <1>1, Zenon DEF Popped, ForkAt
  <1>2. CASE u = t
    <2> DEFINE n == Len(stack[t])
    <2>1. /\ DOMAIN stack[t] = 1 .. n /\ DOMAIN stack'[t] = 1 .. n - 1 /\ n \in Nat
          /\ \A i \in 1 .. n - 1 : stack'[t][i] = stack[t][i]
      BY Zenon DEF Popped
    <2> HIDE DEF n
    <2>2. k \in 1 .. n - 1 \/ k = n \/ k \notin 1 .. n
      BY <2>1
    <2> QED
      BY <1>2, <2>1, <2>2 DEF ForkAt, n
  <1> QED
    BY <1>1, <1>2, Zenon

\* The frame below which a fork began stays below it.
LEMMA PassKeepsForks ==
    ASSUME ExitTypes, NEW t \in Thread, NEW dso, NEW n \in Nat, NEW depth,
                      PassStep(t, n, dso, depth)
    PROVE  SameForks
  <1>1. PICK frame : Stacked(t, n, frame) /\ frame.op # "fork"
    <2>1. \A j : Callback(dso, j).op # "fork"
      BY Zenon DEF Callback
    <2>2. [op |-> "passed", dso |-> dso].op # "fork"
      BY Zenon
    <2>3. CASE \E j \in Nat : Extracts(t, n, dso, depth, j)
      BY <2>1, <2>3, Zenon DEF Extracts
    <2>4. CASE Passed(t, n, dso, depth)
      BY <2>2, <2>4, ZenonT(30) DEF Passed
    <2> QED
      BY <2>3, <2>4, Zenon DEF PassStep
  <1>2. n = Len(stack[t]) + 1 \/ (n = Len(stack[t]) /\ stack[t][n].op # "fork")
    BY Zenon DEF PassStep, InPass, Top
  <1>3. /\ Len(stack[t]) \in Nat /\ DOMAIN stack[t] = 1 .. Len(stack[t])
    BY <1>1, Zenon DEF Stacked
  <1>4. \A k \in Nat : ForkAt(t, k) => k < n
    BY <1>2, <1>3 DEF ForkAt
  <1> QED
    BY <1>1, <1>4, StackedForks DEF SameForks

\* The end of a pass leaves the forks alone.
LEMMA UnregisterKeepsForks ==
    ASSUME ExitTypes, NEW t \in Thread, FinalizeEnds(t)
    PROVE  SameForks
  <1>1. Popped(t) /\ ~ForkAt(t, Len(stack[t]))
    BY Unregisters, Zenon DEF ForkAt, Top
  <1> QED
    BY <1>1, PoppedForks, Zenon DEF SameForks

\* A fork that goes on is where it was.
LEMMA WalkKeepsForks ==
    ASSUME ExitTypes, SortedInv, Walks, NEW t \in Thread, HandlerReturns(t) \/ CloneForFork(t)
    PROVE  SameForks
  <1>1. PICK f \in ForkFrames : Stacked(t, Len(stack[t]), f) /\ ForkAt(t, Len(stack[t]))
    BY HandlerWalks, ForkClones, Zenon
  <1>2. f.op = "fork" /\ Len(stack[t]) \in Nat /\ DOMAIN stack[t] = 1 .. Len(stack[t])
    BY <1>1, Zenon DEF ForkFrames, Stacked
  <1>3. \A k \in Nat : ForkAt(t, k) => k = Len(stack[t]) \/ k < Len(stack[t])
    BY <1>2 DEF ForkAt
  <1> QED
    BY <1>1, <1>2, <1>3, StackedForks, SMTT(30) DEF SameForks

\* Every step leaves at most one fork, with the mutex.
LEMMA OneForkStep ==
    ASSUME ExitTypes, ExitTypes', SortedInv, Walks, Caught, OneFork, Next
    PROVE  OneFork'
  <1>a. \A u \in Thread :
           /\ InFork(u) <=> \E k \in Nat : ForkAt(u, k)
           /\ InFork(u)' <=> \E k \in Nat : ForkAt(u, k)'
           /\ \A k \in DOMAIN stack[u] : k \in Nat
           /\ \A k \in DOMAIN stack'[u] : k \in Nat
    <2>1. ForksMean
      BY ForkMeans, Zenon
    <2>2. ForksMean'
      BY ForkMeans, PTL
    <2> QED
      BY <2>1, <2>2, Zenon DEF ForksMean
  <1>b. ASSUME SameForks, UNCHANGED g_atfork_list_mutex
        PROVE  OneFork'
    <2>1. \A u \in Thread : InFork(u)' <=> InFork(u)
      BY <1>a, <1>b, Zenon DEF SameForks
    <2>2. \A u \in Thread : \A j, k \in DOMAIN stack'[u] : ForkAt(u, j)' /\ ForkAt(u, k)' => j = k
      <3>1. \A u \in Thread, j, k \in Nat : ForkAt(u, j) /\ ForkAt(u, k) => j = k
        BY Zenon DEF OneFork, ForkAt
      <3> QED
        BY <1>a, <1>b, <3>1, Zenon DEF SameForks
    <2> QED
      BY <1>b, <2>1, <2>2, Zenon DEF OneFork
  <1>c. UNCHANGED stack => SameForks
    BY Zenon DEF SameForks, ForkAt
  <1>1. ASSUME NEW t \in Thread, NEW dso \in Dsos, CxaAtexit(t, dso)
        PROVE  OneFork'
    BY <1>1, <1>b, <1>c, Zenon DEF CxaAtexit
  <1>2. ASSUME NEW t \in Thread, NEW dso \in Dsos, NEW n \in Nat, NEW depth,
               PassStep(t, n, dso, depth)
        PROVE  OneFork'
    BY <1>2, <1>b, PassKeepsForks, Zenon DEF PassStep, InPass
  <1>3. ASSUME NEW t \in Thread, NEW dso \in Dso, RegisterAtfork(t, dso), UNCHANGED atexitVars
        PROVE  OneFork'
    BY <1>3, <1>b, <1>c, Zenon DEF RegisterAtfork
  <1>4. ASSUME NEW t \in Thread, FinalizeEnds(t)
        PROVE  OneFork'
    BY <1>4, <1>b, UnregisterKeepsForks, Unregisters, Zenon
  <1>5. ASSUME NEW t \in Thread, Exit(t)
        PROVE  OneFork'
    BY <1>5, Exits, Zenon DEF OneFork
  <1>6. ASSUME NEW t \in Thread, UNCHANGED atexitVars, Fork(t)
        PROVE  OneFork'
    <2>1. /\ ~InFork(t) /\ g_atfork_list_mutex.owner \in {None, t}
          /\ g_atfork_list_mutex' = [owner |-> t, depth |-> g_atfork_list_mutex.depth + 1]
          /\ Stacked(t, Len(stack[t]) + 1, NewFork) /\ NewFork.op = "fork"
      BY <1>6, ForkPushes, Zenon DEF NewFork
    <2>2. g_atfork_list_mutex = Unlocked /\ \A u \in Thread : ~InFork(u)
      BY <2>1, NoneAssumption DEF OneFork
    <2>3. g_atfork_list_mutex' = [owner |-> t, depth |-> 1]
      BY <2>1, <2>2 DEF Unlocked
    <2>4. Len(stack[t]) + 1 \in Nat
      BY <2>1 DEF Stacked
    <2>5. \A u \in Thread, k \in Nat : ForkAt(u, k)' <=> u = t /\ k = Len(stack[t]) + 1
      BY <1>a, <2>1, <2>2, <2>4, StackedForks
    <2>6. \A u \in Thread : InFork(u)' <=> u = t
      BY <1>a, <2>4, <2>5, Zenon
    <2>7. \A u \in Thread : \A j, k \in DOMAIN stack'[u] : ForkAt(u, j)' /\ ForkAt(u, k)' => j = k
      BY <1>a, <2>5, Zenon
    <2> QED
      BY <2>3, <2>6, <2>7, Zenon DEF OneFork
  <1>7. ASSUME NEW t \in Thread, UNCHANGED atexitVars, HandlerReturns(t) \/ CloneForFork(t)
        PROVE  OneFork'
    BY <1>7, <1>b, WalkKeepsForks, Zenon DEF HandlerReturns, CloneForFork
  <1>8. ASSUME NEW t \in Thread, UNCHANGED atexitVars, ForkReturns(t)
        PROVE  OneFork'
    <2>1. ForkAt(t, Len(stack[t])) /\ Popped(t) /\ InFork(t)
      BY <1>8, ForkPops, Zenon
    <2>2. g_atfork_list_mutex = [owner |-> t, depth |-> 1] /\ \A u \in Thread : InFork(u) => u = t
      BY <2>1, Zenon DEF OneFork
    <2>3. g_atfork_list_mutex' = Unlocked
      BY <1>8, <2>2, ForkPops, ZenonT(30)
    <2>4. \A u \in Thread, k \in Nat : ~ForkAt(u, k)'
      <3>1. \A j, k \in Nat : ForkAt(t, j) /\ ForkAt(t, k) => j = k
        BY Zenon DEF OneFork, ForkAt
      <3>2. Len(stack[t]) \in Nat
        BY <2>1, Zenon DEF Popped
      <3> QED
        BY <1>a, <2>1, <2>2, <3>1, <3>2, PoppedForks, SMTT(30)
    <2> QED
      BY <1>a, <2>3, <2>4, Zenon DEF OneFork
  <1>9. CASE ChildSteps /\ UNCHANGED atexitVars
    BY <1>9, <1>b, <1>c, Zenon DEF ChildSteps, ChildStarts, ChildHandlerReturns, ChildReturns
  <1> QED
    BY <1>1, <1>2, <1>3, <1>4, <1>5, <1>6, <1>7, <1>8, <1>9, Steps, ZenonT(30)

-----------------------------------------------------------------------------

\* The handler of fork frame f does not belong to dso.
Apart(f, dso, list) ==
    /\ f.it # None
    /\ \A i \in DOMAIN list : list[i].id = f.it => list[i].dso # dso

\* Every step keeps what holds of calls made in a fork handler.
LEMMA InHandlerStep ==
    ASSUME ExitTypes, ExitTypes', SortedInv, Walks, Caught, OneFork, InHandler, Next
    PROVE  InHandler'
  <1> DEFINE list == g_atfork_list
  <1>a. \A u \in Thread : \A j, k \in DOMAIN stack[u] :
           ForkAt(u, j) /\ j < k => Apart(stack[u][j], stack[u][k].dso, list)
    BY Zenon DEF InHandler, Apart
  <1>b. (\A u \in Thread : \A j, k \in DOMAIN stack'[u] :
           ForkAt(u, j)' /\ j < k => Apart(stack'[u][j], stack'[u][k].dso, list')) => InHandler'
    BY Zenon DEF InHandler, Apart
  <1>c. ASSUME NEW f, NEW dso, Apart(f, dso, list),
               \A k \in DOMAIN list' : \E i \in DOMAIN list : list'[k] = list[i]
        PROVE  Apart(f, dso, list')
    BY <1>c, Zenon DEF Apart
  <1>d. UNCHANGED list => \A k \in DOMAIN list' : \E i \in DOMAIN list : list'[k] = list[i]
    BY Zenon
  <1>e. ASSUME UNCHANGED stack,
               \A k \in DOMAIN list' : \E i \in DOMAIN list : list'[k] = list[i]
        PROVE  InHandler'
    BY <1>a, <1>b, <1>c, <1>e, Zenon DEF ForkAt
  <1>f. ASSUME NEW t \in Thread, Popped(t),
               \A k \in DOMAIN list' : \E i \in DOMAIN list : list'[k] = list[i]
        PROVE  InHandler'
    <2> SUFFICES ASSUME NEW u \in Thread, NEW j \in DOMAIN stack'[u], NEW k \in DOMAIN stack'[u],
                        ForkAt(u, j)', j < k
                 PROVE  Apart(stack'[u][j], stack'[u][k].dso, list')
      BY <1>b, Zenon
    <2>1. /\ j \in DOMAIN stack[u] /\ k \in DOMAIN stack[u]
          /\ stack'[u][j] = stack[u][j] /\ stack'[u][k] = stack[u][k]
      BY <1>f, SMTT(30) DEF Popped
    <2>2. ForkAt(u, j)
      BY <2>1, Zenon DEF ForkAt
    <2> QED
      BY <1>a, <1>c, <1>f, <2>1, <2>2, Zenon
  <1>g. \A u \in Thread : \A k \in DOMAIN stack[u] : k \in Nat
    BY ForkMeans, Zenon DEF ForksMean
  <1>h. ASSUME NEW t \in Thread, NEW n \in Nat, NEW frame, Stacked(t, n, frame), UNCHANGED list,
               \A j \in DOMAIN stack[t] : ForkAt(t, j) /\ j < n => Apart(stack[t][j], frame.dso, list)
        PROVE  InHandler'
    <2> SUFFICES ASSUME NEW u \in Thread, NEW j \in DOMAIN stack'[u], NEW k \in DOMAIN stack'[u],
                        ForkAt(u, j)', j < k
                 PROVE  Apart(stack'[u][j], stack'[u][k].dso, list')
      BY <1>b, Zenon
    <2>1. CASE u # t
      <3>1. stack'[u] = stack[u]
        BY <1>h, <2>1, Zenon DEF Stacked
      <3> QED
        BY <1>a, <1>h, <3>1, Zenon DEF ForkAt
    <2>2. CASE u = t
      <3>1. j \in 1 .. n - 1 /\ k \in 1 .. n
        BY <1>h, <2>2, SMTT(30) DEF Stacked
      <3>2. j \in DOMAIN stack[t] /\ stack'[t][j] = stack[t][j] /\ ForkAt(t, j)
        BY <1>h, <2>2, <3>1, SMTT(30) DEF Stacked, ForkAt
      <3>3. CASE k = n
        BY <1>h, <2>2, <3>1, <3>2, <3>3, Zenon DEF Stacked
      <3>4. CASE k # n
        <4>1. k \in DOMAIN stack[t] /\ stack'[t][k] = stack[t][k]
          BY <1>h, <3>1, <3>4 DEF Stacked
        <4> QED
          BY <1>a, <1>h, <2>2, <3>2, <4>1, ZenonT(30)
      <3> QED
        BY <3>3, <3>4, Zenon
    <2> QED
      BY <2>1, <2>2, Zenon
  <1>1. ASSUME NEW t \in Thread, NEW dso \in Dsos, CxaAtexit(t, dso)
        PROVE  InHandler'
    BY <1>1, <1>d, <1>e, Zenon DEF CxaAtexit
  <1>2. ASSUME NEW t \in Thread, NEW dso \in Dsos, NEW n \in Nat, NEW depth,
               PassStep(t, n, dso, depth)
        PROVE  InHandler'
    <2>1. PICK frame : Stacked(t, n, frame) /\ frame.dso = dso
      <3>1. \A j : Callback(dso, j).dso = dso
        BY Zenon DEF Callback
      <3>2. [op |-> "passed", dso |-> dso].dso = dso
        BY Zenon
      <3>3. CASE \E j \in Nat : Extracts(t, n, dso, depth, j)
        BY <3>1, <3>3, Zenon DEF Extracts
      <3>4. CASE Passed(t, n, dso, depth)
        BY <3>2, <3>4, ZenonT(30) DEF Passed
      <3> QED
        BY <1>2, <3>3, <3>4, Zenon DEF PassStep
    <2>2. ASSUME NEW j \in DOMAIN stack[t], ForkAt(t, j), j < n
          PROVE  Apart(stack[t][j], dso, list)
      <3>1. CASE n = Len(stack[t]) /\ Top(t).dso = dso
        <4>1. n \in DOMAIN stack[t]
          BY <2>1, <3>1, SMTT(30) DEF Stacked
        <4> QED
          BY <1>a, <2>2, <3>1, <4>1, Zenon DEF Top
      <3>2. CASE /\ n = Len(stack[t]) + 1 /\ CallsMade(t)
                 /\ \A i \in DOMAIN list :
                       InFork(t) /\ ForkFrame(t).it = list[i].id => list[i].dso # dso
        <4>1. InFork(t)
          BY <2>2, Zenon DEF InFork, ForkAt
        <4>2. ForkFrame(t) = stack[t][j]
          BY <2>2, Zenon DEF ForkFrame, ForkAt, OneFork
        <4>3. stack[t][j].it # None
          <5>1. /\ stack[t] # <<>> /\ Len(stack[t]) \in DOMAIN stack[t]
                /\ j <= Len(stack[t]) /\ Len(stack[t]) \in Nat /\ j \in Nat
            BY <2>1, <2>2, <3>2 DEF Stacked
          <5>2. CASE j = Len(stack[t])
            BY <2>2, <3>2, <5>1, <5>2, Zenon DEF CallsMade, Top, ForkAt
          <5>3. CASE j < Len(stack[t])
            BY <1>a, <2>2, <5>1, <5>3, Zenon DEF Apart
          <5> QED
            BY <5>1, <5>2, <5>3, SMTT(30)
        <4> QED
          BY <3>2, <4>1, <4>2, <4>3, Zenon DEF Apart
      <3> QED
        BY <1>2, <3>1, <3>2, Zenon DEF PassStep, InPass
    <2>3. UNCHANGED list
      BY <1>2, Zenon DEF PassStep, InPass
    <2> QED
      BY <1>h, <2>1, <2>2, <2>3, Zenon
  <1>3. ASSUME NEW t \in Thread, NEW dso \in Dso, RegisterAtfork(t, dso), UNCHANGED atexitVars
        PROVE  InHandler'
    <2> DEFINE e == [id |-> work + 1, dso |-> dso]
    <2>1. /\ e \in Entry /\ e.id = work + 1 /\ list' = Append(list, e) /\ UNCHANGED stack
          /\ list \in Seq(Entry) /\ work \in Nat
      BY <1>3, Zenon DEF RegisterAtfork, Work, Entry, ExitTypes
    <2> HIDE DEF e
    <2>2. /\ DOMAIN list = 1 .. Len(list) /\ Len(list) \in Nat
          /\ DOMAIN list' = 1 .. Len(list) + 1
          /\ \A k \in 1 .. Len(list) : list'[k] = list[k]
          /\ list'[Len(list) + 1] = e
      BY <2>1, Appended
    <2> SUFFICES ASSUME NEW u \in Thread, NEW j \in DOMAIN stack[u], NEW k \in DOMAIN stack[u],
                        ForkAt(u, j), j < k
                 PROVE  Apart(stack[u][j], stack[u][k].dso, list')
      BY <1>b, <2>1, Zenon DEF ForkAt
    <2>3. Apart(stack[u][j], stack[u][k].dso, list)
      BY <1>a, Zenon
    <2>4. stack[u][j].it \in Ids(list)
      BY <2>3, ZenonT(30) DEF Walks, Walk, Apart
    <2>5. stack[u][j].it # work + 1
      BY <2>1, <2>4, EntriesOf, SMTT(30) DEF Ids, SortedInv
    <2> QED
      BY <2>1, <2>2, <2>3, <2>5 DEF Apart
  <1>4. ASSUME NEW t \in Thread, FinalizeEnds(t)
        PROVE  InHandler'
    BY <1>4, <1>f, Unregisters, SMTT(30)
  <1>5. ASSUME NEW t \in Thread, Exit(t)
        PROVE  InHandler'
    BY <1>5, Exits, Zenon DEF InHandler
  <1>6. ASSUME NEW t \in Thread, UNCHANGED atexitVars, Fork(t)
        PROVE  InHandler'
    <2>1. Stacked(t, Len(stack[t]) + 1, NewFork) /\ UNCHANGED list /\ ~InFork(t)
      BY <1>6, ForkPushes, Zenon
    <2>2. \A j \in DOMAIN stack[t] : ~ForkAt(t, j)
      BY <2>1, Zenon DEF InFork, ForkAt
    <2>3. Len(stack[t]) + 1 \in Nat
      BY <2>1, SMTT(30) DEF Stacked
    <2> QED
      BY <1>h, <2>1, <2>2, <2>3, Zenon
  <1>7. ASSUME NEW t \in Thread, UNCHANGED atexitVars, HandlerReturns(t) \/ CloneForFork(t)
        PROVE  InHandler'
    <2>1. PICK f : Stacked(t, Len(stack[t]), f)
      BY <1>7, HandlerWalks, ForkClones, ZenonT(30)
    <2>2. ForkAt(t, Len(stack[t])) /\ UNCHANGED list
      BY <1>7, HandlerWalks, ForkClones, ZenonT(30)
    <2>3. \A j \in DOMAIN stack[t] : ForkAt(t, j) => j = Len(stack[t])
      BY <2>2, Zenon DEF OneFork, ForkAt
    <2>4. Len(stack[t]) \in Nat
      BY <2>1, Zenon DEF Stacked
    <2> QED
      BY <1>h, <2>1, <2>2, <2>3, <2>4, SMTT(30)
  <1>8. ASSUME NEW t \in Thread, UNCHANGED atexitVars, ForkReturns(t)
        PROVE  InHandler'
    BY <1>8, <1>d, <1>f, ForkPops, Zenon
  <1>9. CASE ChildSteps /\ UNCHANGED atexitVars
    BY <1>9, <1>d, <1>e, Zenon DEF ChildSteps, ChildStarts, ChildHandlerReturns, ChildReturns
  <1> QED
    BY <1>1, <1>2, <1>3, <1>4, <1>5, <1>6, <1>7, <1>8, <1>9, Steps, ZenonT(30)

-----------------------------------------------------------------------------

\* Every step keeps what a fork has called.
LEMMA WalksStep ==
    ASSUME ExitTypes, ExitTypes', SortedInv, Walks, Caught, OneFork, InHandler, Next
    PROVE  Walks'
  <1> DEFINE list == g_atfork_list
             Good(f) == Walk(f, f.phase, list) /\ \A x \in Ids(f.start) : x <= work
  <1>a. \A u \in Thread, k \in Nat : ForkAt(u, k) => Good(stack[u][k]) /\ stack[u][k] \in ForkFrames
    <2> SUFFICES ASSUME NEW u \in Thread, NEW k \in Nat, ForkAt(u, k)
                 PROVE  Good(stack[u][k]) /\ stack[u][k] \in ForkFrames
      BY Zenon
    <2>1. k \in DOMAIN stack[u] /\ stack[u][k].op = "fork"
      BY Zenon DEF ForkAt
    <2>2. stack[u][k] \in Frame
      BY <2>1, SMTT(30) DEF ExitTypes
    <2> QED
      BY <2>1, <2>2, FrameFacts, Zenon DEF Walks
  <1>b. (\A u \in Thread, k \in Nat : ForkAt(u, k)' => Good(stack[u][k])') => Walks'
    <2>1. \A u \in Thread : \A k \in DOMAIN stack'[u] : k \in Nat
      <3>1. ForksMean'
        BY ForkMeans, PTL
      <3> QED
        BY <3>1, Zenon DEF ForksMean
    <2> QED
      BY <2>1, Zenon DEF Walks
  <1>c. /\ list \in Seq(Entry) /\ Sorted(list) /\ work \in Nat
        /\ \A x \in Ids(list) : x \in Nat /\ x <= work
    BY EntriesOf, SMTT(30) DEF ExitTypes, SortedInv, Ids
  <1>d. ASSUME NEW f \in ForkFrames, Good(f), work' = work \/ work' = work + 1,
               f.it # None => f.it \in Ids(list'),
               \A x \in Ids(list') : x \in Ids(list) \/ x = work + 1
        PROVE  Good(f)'
    <2>1. Ids(f.start) \subseteq Nat
      BY EntriesOf, Zenon DEF ForkFrames, Ids
    <2>2. \A x \in Ids(list') : x \in Ids(list) \/ \A y \in Ids(f.start) : y < x
      BY <1>c, <1>d, <2>1
    <2>3. Walk(f, f.phase, list')
      BY <1>d, <2>1, <2>2, WalkOther, Zenon
    <2>4. \A x \in Ids(f.start) : x <= work'
      BY <1>c, <1>d, <2>1
    <2> QED
      BY <2>3, <2>4, Zenon
  <1>e. ASSUME NEW f \in ForkFrames, Good(f), work' = work \/ work' = work + 1, UNCHANGED list
        PROVE  Good(f)'
    <2>1. f.it # None => f.it \in Ids(list')
      BY <1>e, Zenon DEF Walk
    <2> QED
      BY <1>d, <1>e, <2>1, Zenon
  <1> HIDE DEF Good
  <1>f. ASSUME UNCHANGED <<stack, list>>, work' = work \/ work' = work + 1
        PROVE  Walks'
    BY <1>a, <1>b, <1>e, <1>f, Zenon DEF ForkAt
  <1>g. ASSUME NEW t \in Thread, NEW n \in Nat, NEW frame, Stacked(t, n, frame),
               UNCHANGED list, work' = work \/ work' = work + 1,
               frame.op = "fork" => Good(frame)'
        PROVE  Walks'
    <2> SUFFICES ASSUME NEW u \in Thread, NEW k \in Nat, ForkAt(u, k)'
                 PROVE  Good(stack[u][k])'
      BY <1>b, Zenon
    <2>1. CASE u = t /\ k = n
      <3>1. stack'[u][k] = frame
        BY <1>g, <2>1, Zenon DEF Stacked
      <3> QED
        BY <1>g, <2>1, <3>1, Zenon DEF ForkAt
    <2>2. CASE ~(u = t /\ k = n)
      <3>1. ForkAt(u, k) /\ (u = t => k < n)
        BY <1>g, <2>2, StackedForks, Zenon
      <3>2. stack'[u][k] = stack[u][k]
        BY <1>g, <2>2, <3>1 DEF Stacked, ForkAt
      <3> QED
        BY <1>a, <1>e, <1>g, <3>1, <3>2, Zenon
    <2> QED
      BY <2>1, <2>2, Zenon
  <1>1. ASSUME NEW t \in Thread, NEW dso \in Dsos, CxaAtexit(t, dso)
        PROVE  Walks'
    BY <1>1, <1>f, Zenon DEF CxaAtexit, Work
  <1>2. ASSUME NEW t \in Thread, NEW dso \in Dsos, NEW n \in Nat, NEW depth,
               PassStep(t, n, dso, depth)
        PROVE  Walks'
    <2>1. PICK frame : Stacked(t, n, frame) /\ frame.op # "fork"
      <3>1. \A j : Callback(dso, j).op # "fork"
        BY Zenon DEF Callback
      <3>2. [op |-> "passed", dso |-> dso].op # "fork"
        BY Zenon
      <3>3. CASE \E j \in Nat : Extracts(t, n, dso, depth, j)
        BY <3>1, <3>3, Zenon DEF Extracts
      <3>4. CASE Passed(t, n, dso, depth)
        BY <3>2, <3>4, Zenon DEF Passed
      <3> QED
        BY <1>2, <3>3, <3>4, Zenon DEF PassStep
    <2>2. UNCHANGED list /\ (work' = work \/ work' = work + 1)
      BY <1>2, Zenon DEF PassStep, InPass
    <2> QED
      BY <1>g, <2>1, <2>2, Zenon
  <1>3. ASSUME NEW t \in Thread, NEW dso \in Dso, RegisterAtfork(t, dso), UNCHANGED atexitVars
        PROVE  Walks'
    <2> DEFINE e == [id |-> work + 1, dso |-> dso]
    <2>1. /\ e \in Entry /\ e.id = work + 1 /\ list' = Append(list, e) /\ UNCHANGED stack
          /\ work' = work + 1
      BY <1>3, <1>c DEF RegisterAtfork, Work, Entry
    <2> HIDE DEF e
    <2>2. /\ DOMAIN list = 1 .. Len(list) /\ Len(list) \in Nat
          /\ DOMAIN list' = 1 .. Len(list) + 1
          /\ \A k \in 1 .. Len(list) : list'[k] = list[k]
          /\ list'[Len(list) + 1] = e
      BY <1>c, <2>1, Appended
    <2>3. \A x \in Ids(list') : x \in Ids(list) \/ x = work + 1
      BY <2>1, <2>2 DEF Ids
    <2>4. Ids(list) \subseteq Ids(list')
      BY <2>2 DEF Ids
    <2> SUFFICES ASSUME NEW u \in Thread, NEW k \in Nat, ForkAt(u, k)
                 PROVE  Good(stack[u][k])'
      BY <1>b, <2>1, Zenon DEF ForkAt
    <2>5. Good(stack[u][k]) /\ stack[u][k] \in ForkFrames
      BY <1>a, Zenon
    <2>6. stack[u][k].it # None => stack[u][k].it \in Ids(list')
      BY <2>4, <2>5, ZenonT(30) DEF Good, Walk
    <2>7. Good(stack[u][k])'
      BY <1>d, <2>1, <2>3, <2>5, <2>6, ZenonT(30)
    <2> QED
      BY <2>1, <2>7, Zenon
  <1>4. ASSUME NEW t \in Thread, FinalizeEnds(t)
        PROVE  Walks'
    <2>1. /\ stack[t] # <<>> /\ Popped(t) /\ UNCHANGED work
          /\ \A k \in DOMAIN list' : \E i \in DOMAIN list : list'[k] = list[i]
          /\ \A i \in DOMAIN list : list[i].dso # Top(t).dso =>
                \E k \in DOMAIN list' : list'[k] = list[i]
          /\ g_atfork_list_mutex.owner \in {None, t}
      BY <1>4, Unregisters
    <2>2. \A x \in Ids(list') : x \in Ids(list)
      BY <2>1 DEF Ids
    <2> SUFFICES ASSUME NEW u \in Thread, NEW k \in Nat, ForkAt(u, k)'
                 PROVE  Good(stack[u][k])'
      BY <1>b, Zenon
    <2>3. ForkAt(u, k) /\ (u = t => k # Len(stack[t]))
      BY <2>1, PoppedForks, Zenon
    <2>4. stack'[u][k] = stack[u][k]
      BY <2>1, <2>3, Zenon DEF Popped, ForkAt
    <2>5. Good(stack[u][k]) /\ stack[u][k] \in ForkFrames
      BY <1>a, <2>3, Zenon
    <2>6. u = t
      <3>1. InFork(u)
        BY <2>3, Zenon DEF InFork, ForkAt
      <3> QED
        BY <2>1, <3>1, NoneAssumption, SMTT(30) DEF OneFork
    <2>7. k < Len(stack[t]) /\ Len(stack[t]) \in DOMAIN stack[t] /\ k \in DOMAIN stack[t]
      BY <2>1, <2>3, <2>6 DEF Popped, ForkAt
    <2>8. \A i \in DOMAIN list : list[i].id = stack[t][k].it => list[i].dso # Top(t).dso
      BY <2>3, <2>6, <2>7, Zenon DEF InHandler, Top
    <2>9. stack[t][k].it # None => stack[t][k].it \in Ids(list)
      BY <2>5, <2>6, ZenonT(30) DEF Good, Walk
    <2>10. stack[t][k].it # None => stack[t][k].it \in Ids(list')
      BY <2>1, <2>8, <2>9, SMTT(30) DEF Ids
    <2> DEFINE f == stack[u][k]
    <2>12. f \in ForkFrames /\ Good(f) /\ (f.it # None => f.it \in Ids(list')) /\ stack'[u][k] = f
      BY <2>4, <2>5, <2>6, <2>10, Zenon
    <2> HIDE DEF f
    <2> QED
      BY <1>d, <2>1, <2>2, <2>12, Zenon
  <1>5. ASSUME NEW t \in Thread, Exit(t)
        PROVE  Walks'
    BY <1>5, Exits, Zenon DEF Walks
  <1>6. ASSUME NEW t \in Thread, UNCHANGED atexitVars, Fork(t)
        PROVE  Walks'
    <2>1. Stacked(t, Len(stack[t]) + 1, NewFork) /\ UNCHANGED list /\ work' = work + 1
      BY <1>6, ForkPushes, Zenon
    <2>2. /\ NewFork.start = list /\ NewFork.it = LastEntry(list) /\ NewFork.phase = "prepare"
          /\ NewFork.prepared = <<>> /\ NewFork.done = <<>>
      BY Zenon DEF NewFork
    <2>3. PICK g : g = NewFork
      BY Zenon
    <2>4. Walk(g, "prepare", list)
      BY <1>c, <2>2, <2>3, WalkNew, Zenon
    <2>5. Good(g)'
      <3>1. \A x \in Ids(g.start) : x <= work'
        BY <1>c, <2>1, <2>2, <2>3
      <3> QED
        BY <2>1, <2>2, <2>3, <2>4, <3>1, Zenon DEF Good
    <2>6. Len(stack[t]) + 1 \in Nat
      BY <2>1 DEF Stacked
    <2> QED
      BY <1>g, <2>1, <2>3, <2>5, <2>6, Zenon
  <1>7. ASSUME NEW t \in Thread, UNCHANGED atexitVars, HandlerReturns(t)
        PROVE  Walks'
    <2> DEFINE f == Top(t)
    <2>1. /\ f \in ForkFrames /\ f.it # None /\ ForkAt(t, Len(stack[t]))
          /\ Walk(f, f.phase, list) /\ Walked(f) \in ForkFrames
          /\ Stacked(t, Len(stack[t]), Walked(f)) /\ UNCHANGED <<list, work>>
      BY <1>7, HandlerWalks, Zenon
    <2>2. Len(stack[t]) \in Nat
      BY <2>1, Zenon DEF Stacked
    <2>3. \A x \in Ids(f.start) : x <= work
      BY <1>a, <2>1, <2>2, Zenon DEF Good, Top
    <2>4. PICK g : g = Walked(f)
      BY Zenon
    <2> HIDE DEF f
    <2>5. /\ f.start \in Seq(Entry) /\ f.prepared \in Seq(Nat) /\ f.done \in Seq(Nat)
          /\ f.phase \in {"prepare", "parent"}
      BY <2>1, Zenon DEF ForkFrames
    <2>6. g.start = f.start /\ g.phase = f.phase
      BY <2>1, <2>4, Zenon DEF Walked, ForkFrames
    <2>7. Walk(g, g.phase, list)
      <3>1. CASE f.phase = "prepare"
        <4>1. /\ g.it = Before(list, f.it) /\ g.prepared = Append(f.prepared, f.it)
              /\ g.done = f.done
          BY <2>1, <2>4, <3>1, Zenon DEF Walked, ForkFrames
        <4> QED
          BY <1>c, <2>1, <2>5, <2>6, <3>1, <4>1, WalkBack, Zenon
      <3>2. CASE f.phase = "parent"
        <4>1. /\ g.it = After(list, f.it) /\ g.prepared = f.prepared
              /\ g.done = Append(f.done, f.it)
          BY <2>1, <2>4, <3>2, Zenon DEF Walked, ForkFrames
        <4> QED
          BY <1>c, <2>1, <2>5, <2>6, <3>2, <4>1, WalkOn, Zenon
      <3> QED
        BY <2>5, <3>1, <3>2, Zenon
    <2>8. Good(g)'
      BY <2>1, <2>3, <2>6, <2>7, Zenon DEF Good
    <2> QED
      BY <1>g, <2>1, <2>2, <2>4, <2>8, Zenon
  <1>8. ASSUME NEW t \in Thread, UNCHANGED atexitVars, CloneForFork(t)
        PROVE  Walks'
    <2> DEFINE f == Top(t)
    <2>1. /\ f \in ForkFrames /\ f.it = None /\ ForkAt(t, Len(stack[t]))
          /\ Walk(f, "prepare", list)
          /\ Stacked(t, Len(stack[t]), Cloned(f)) /\ UNCHANGED <<list, work>>
      BY <1>8, ForkClones, Zenon
    <2>2. Len(stack[t]) \in Nat
      BY <2>1, Zenon DEF Stacked
    <2>3. \A x \in Ids(f.start) : x <= work
      BY <1>a, <2>1, <2>2, Zenon DEF Good, Top
    <2>4. PICK g : g = Cloned(f)
      BY Zenon
    <2> HIDE DEF f
    <2>5. /\ g.start = f.start /\ g.phase = "parent" /\ g.it = FirstEntry(list)
          /\ g.prepared = f.prepared /\ g.done = f.done
      BY <2>1, <2>4, Zenon DEF Cloned, ForkFrames
    <2>6. f.done = <<>>
      BY <2>1, ZenonT(30) DEF Walk
    <2>7. Walk(g, "parent", list)
      BY <1>c, <2>1, <2>5, <2>6, WalkTurns, Zenon
    <2>8. Good(g)'
      BY <2>1, <2>3, <2>5, <2>7, Zenon DEF Good
    <2> QED
      BY <1>g, <2>1, <2>2, <2>4, <2>8, Zenon
  <1>9. ASSUME NEW t \in Thread, UNCHANGED atexitVars, ForkReturns(t)
        PROVE  Walks'
    <2>1. Popped(t) /\ UNCHANGED <<list, work>>
      BY <1>9, ForkPops, Zenon
    <2> SUFFICES ASSUME NEW u \in Thread, NEW k \in Nat, ForkAt(u, k)'
                 PROVE  Good(stack[u][k])'
      BY <1>b, Zenon
    <2>2. ForkAt(u, k) /\ (u = t => k # Len(stack[t]))
      BY <2>1, PoppedForks, Zenon
    <2>3. stack'[u][k] = stack[u][k]
      BY <2>1, <2>2, Zenon DEF Popped, ForkAt
    <2> QED
      BY <1>a, <1>e, <2>1, <2>2, <2>3, Zenon
  <1>10. CASE ChildSteps /\ UNCHANGED atexitVars
    BY <1>10, <1>f, Zenon DEF ChildSteps, ChildStarts, ChildHandlerReturns, ChildReturns
  <1> QED
    BY <1>1, <1>2, <1>3, <1>4, <1>5, <1>6, <1>7, <1>8, <1>9, <1>10, Steps, ZenonT(30)

\* Every step keeps what the child has called.
LEMMA ChildStep ==
    ASSUME ExitTypes, SortedInv, Walks, Caught, ChildWalk, Next
    PROVE  ChildWalk'
  <1>a. UNCHANGED child => ChildWalk'
    BY Zenon DEF ChildWalk
  <1>b. g_atfork_list \in Seq(Entry) /\ Sorted(g_atfork_list)
    BY Zenon DEF ExitTypes, SortedInv
  <1>1. ASSUME NEW t \in Thread, NEW dso \in Dsos, CxaAtexit(t, dso)
        PROVE  ChildWalk'
    BY <1>1, <1>a, Zenon DEF CxaAtexit
  <1>2. ASSUME NEW t \in Thread, NEW dso \in Dsos, NEW n \in Nat, NEW depth,
               PassStep(t, n, dso, depth)
        PROVE  ChildWalk'
    BY <1>2, <1>a, Zenon DEF PassStep, InPass
  <1>3. ASSUME NEW t \in Thread, NEW dso \in Dso, RegisterAtfork(t, dso), UNCHANGED atexitVars
        PROVE  ChildWalk'
    BY <1>3, <1>a, Zenon DEF RegisterAtfork
  <1>4. ASSUME NEW t \in Thread, FinalizeEnds(t) \/ Exit(t)
        PROVE  ChildWalk'
    BY <1>4, <1>a, Unregisters, Zenon DEF Exit
  <1>5. ASSUME NEW t \in Thread, Fork(t) \/ HandlerReturns(t) \/ ForkReturns(t)
        PROVE  ChildWalk'
    BY <1>5, <1>a, Zenon DEF Fork, HandlerReturns, ForkReturns
  <1>6. ASSUME NEW t \in Thread, CloneForFork(t)
        PROVE  ChildWalk'
    <2>1. CASE child' = child
      BY <1>a, <2>1, Zenon
    <2>2. CASE child' = NewChild(Top(t))
      <3> DEFINE f == Top(t) g == child'
      <3>1. f.it = None /\ Walk(f, "prepare", g_atfork_list)
        BY <1>6, ForkClones, Zenon
      <3>2. /\ g.start = f.start /\ g.prepared = f.prepared /\ g.done = <<>>
            /\ g.at = "start" /\ g.it = None /\ g.list = g_atfork_list
        BY <2>2, Zenon DEF NewChild
      <3> HIDE DEF f, g
      <3>3. Walk(g, "start", g_atfork_list)
        BY <1>b, <3>1, <3>2, WalkTurns, Zenon
      <3> QED
        BY <1>b, <3>2, <3>3, Zenon DEF ChildWalk, g
    <2> QED
      BY <1>6, <2>1, <2>2, ForkClones, Zenon
  <1>7. CASE ChildSteps
    <2>0. CASE ChildReturns
      BY <2>0, Zenon DEF ChildReturns, ChildWalk
    <2> SUFFICES ASSUME ChildStarts \/ ChildHandlerReturns
                 PROVE  ChildWalk'
      BY <1>7, <2>0, Zenon DEF ChildSteps
    <2>1. child # None /\ child \in Child
      BY Zenon DEF ChildStarts, ChildHandlerReturns, ExitTypes
    <2>2. /\ child.list \in Seq(Entry) /\ child.start \in Seq(Entry) /\ child.done \in Seq(Nat)
          /\ Sorted(child.list) /\ Walk(child, child.at, child.list)
      BY <2>1, Zenon DEF Child, ChildWalk
    <2> DEFINE f == child g == child'
    <2>3. CASE ChildStarts
      <3>1. /\ g.start = f.start /\ g.prepared = f.prepared /\ g.done = f.done /\ g.list = f.list
            /\ g.at = "walk" /\ g.it = FirstEntry(f.list) /\ f.at = "start"
        BY <2>1, <2>3, Zenon DEF ChildStarts, Child
      <3>2. f.it = None /\ f.done = <<>>
        BY <2>2, <3>1, Zenon DEF ChildWalk, Walk
      <3> HIDE DEF f, g
      <3>3. Walk(g, "walk", f.list)
        BY <2>2, <3>1, <3>2, WalkTurns, ZenonT(30) DEF f
      <3> QED
        BY <2>2, <3>1, <3>3, Zenon DEF ChildWalk, f, g
    <2>4. CASE ChildHandlerReturns
      <3>1. /\ g.start = f.start /\ g.prepared = f.prepared /\ g.done = Append(f.done, f.it)
            /\ g.list = f.list /\ g.at = "walk" /\ g.it = After(f.list, f.it) /\ f.at = "walk"
            /\ f.it # None
        BY <2>1, <2>4, Zenon DEF ChildHandlerReturns, Child
      <3> HIDE DEF f, g
      <3>2. Walk(g, "walk", f.list)
        BY <2>2, <3>1, WalkOn, ZenonT(30) DEF f
      <3> QED
        BY <2>2, <3>1, <3>2, Zenon DEF ChildWalk, f, g
    <2> QED
      BY <2>3, <2>4, Zenon
  <1> QED
    BY <1>1, <1>2, <1>3, <1>4, <1>5, <1>6, <1>7, Steps, Zenon

-----------------------------------------------------------------------------

\* The entries a pass has to call, of the array and of what is left of it.
LEMMA FewerHits ==
    ASSUME ExitTypes, ExitTypes', NEW dso,
           \A k \in DOMAIN array' : array'[k] # None => k \in DOMAIN array /\ array'[k] = array[k]
    PROVE  Hits(dso, Len(array))' \subseteq Hits(dso, Len(array))
  <1>1. /\ array \in Seq(Entry \cup {None}) /\ array' \in Seq(Entry \cup {None})
    BY Zenon DEF ExitTypes
  <1>2. DOMAIN array = 1 .. Len(array) /\ Len(array) \in Nat
    BY <1>1
  <1> QED
    BY <1>1, <1>2 DEF Hits

\* Every step keeps what a pass has left behind it.
LEMMA CaughtStep ==
    ASSUME ExitTypes, ExitTypes', SortedInv, Walks, DepthInv', Caught, Next
    PROVE  Caught'
  <1> DEFINE Good(f) ==
                 /\ f.appends <= total_appends
                 /\ f.appends = total_appends => \A j \in Hits(f.dso, Len(array)) : j < f.i
  <1>a. \A u \in Thread : \A k \in DOMAIN stack[u] :
           stack[u][k].op = "callback" => Good(stack[u][k]) /\ stack[u][k].appends \in Nat
    <2> SUFFICES ASSUME NEW u \in Thread, NEW k \in DOMAIN stack[u], stack[u][k].op = "callback"
                 PROVE  Good(stack[u][k]) /\ stack[u][k].appends \in Nat
      BY Zenon
    <2>1. stack[u][k] \in Frame
      BY DEF ExitTypes
    <2>2. stack[u][k] \in CallFrames
      BY <2>1, FrameFacts, Zenon
    <2> QED
      BY <2>2, Zenon DEF Caught, CallFrames
  <1>b. (\A u \in Thread : \A k \in DOMAIN stack'[u] :
            stack'[u][k].op = "callback" => Good(stack[u][k])') => Caught'
    BY Zenon DEF Caught
  <1>c. total_appends \in Nat
    BY Zenon DEF ExitTypes
  <1>d. ASSUME UNCHANGED total_appends,
               \A k \in DOMAIN array' : array'[k] # None => k \in DOMAIN array /\ array'[k] = array[k],
               NEW f, Good(f)
        PROVE  Good(f)'
    <2>1. Hits(f.dso, Len(array))' \subseteq Hits(f.dso, Len(array))
      BY <1>d, FewerHits, Zenon
    <2> QED
      BY <1>d, <2>1, Zenon
  <1> HIDE DEF Good
  <1>e. UNCHANGED array =>
           \A k \in DOMAIN array' : array'[k] # None => k \in DOMAIN array /\ array'[k] = array[k]
    BY Zenon
  <1>f. ASSUME UNCHANGED stack, UNCHANGED <<array, total_appends>>
        PROVE  Caught'
    BY <1>a, <1>b, <1>d, <1>e, <1>f, Zenon
  <1>g. ASSUME NEW t \in Thread, NEW n \in Nat, NEW frame, Stacked(t, n, frame),
               UNCHANGED total_appends,
               \A k \in DOMAIN array' : array'[k] # None => k \in DOMAIN array /\ array'[k] = array[k],
               frame.op = "callback" => Good(frame)'
        PROVE  Caught'
    <2> SUFFICES ASSUME NEW u \in Thread, NEW k \in DOMAIN stack'[u], stack'[u][k].op = "callback"
                 PROVE  Good(stack[u][k])'
      BY <1>b, Zenon
    <2>1. CASE u = t /\ k = n
      <3>1. stack'[u][k] = frame
        BY <1>g, <2>1, Zenon DEF Stacked
      <3> QED
        BY <1>g, <3>1, Zenon
    <2>2. CASE ~(u = t /\ k = n)
      <3>1. k \in DOMAIN stack[u] /\ stack'[u][k] = stack[u][k]
        BY <1>g, <2>2 DEF Stacked
      <3> QED
        BY <1>a, <1>d, <1>g, <3>1, Zenon
    <2> QED
      BY <2>1, <2>2, Zenon
  <1>h. ASSUME NEW t \in Thread, Popped(t), UNCHANGED <<array, total_appends>>
        PROVE  Caught'
    <2> SUFFICES ASSUME NEW u \in Thread, NEW k \in DOMAIN stack'[u], stack'[u][k].op = "callback"
                 PROVE  Good(stack[u][k])'
      BY <1>b, Zenon
    <2>1. k \in DOMAIN stack[u] /\ stack'[u][k] = stack[u][k]
      BY <1>h DEF Popped
    <2> QED
      BY <1>a, <1>d, <1>e, <1>h, <2>1, Zenon
  <1>1. ASSUME NEW t \in Thread, NEW dso \in Dsos, CxaAtexit(t, dso)
        PROVE  Caught'
    <2>1. UNCHANGED stack /\ total_appends' = total_appends + 1
      BY <1>1, Zenon DEF CxaAtexit, AppendEntry
    <2> SUFFICES ASSUME NEW u \in Thread, NEW k \in DOMAIN stack[u], stack[u][k].op = "callback"
                 PROVE  Good(stack[u][k])'
      BY <1>b, <2>1, Zenon
    <2>2. stack[u][k].appends < total_appends' /\ stack'[u][k] = stack[u][k]
          /\ stack[u][k].appends \in Nat
      BY <1>a, <1>c, <2>1 DEF Good
    <2> QED
      BY <1>c, <2>1, <2>2 DEF Good
  <1>2. ASSUME NEW t \in Thread, NEW dso \in Dsos, NEW n \in Nat, NEW depth,
               PassStep(t, n, dso, depth)
        PROVE  Caught'
    <2>0. UNCHANGED total_appends
      BY <1>2, ZenonT(30) DEF PassStep, InPass
    <2>1. ASSUME NEW j \in Nat, Extracts(t, n, dso, depth, j)
          PROVE  Caught'
      <3>1. array' = [array EXCEPT ![j] = None] /\ j \in DOMAIN array
        BY <2>1, Zenon DEF Extracts, Hits
      <3>2. \A k \in DOMAIN array' : array'[k] # None => k \in DOMAIN array /\ array'[k] = array[k]
        BY <3>1, Zenon DEF ExitTypes
      <3>3. PICK f : f = Callback(dso, j)
        BY Zenon
      <3>4. f.appends = total_appends /\ f.dso = dso /\ f.i = j
        BY <3>3, Zenon DEF Callback
      <3>5. \A k \in Hits(dso, Len(array))' : k < j
        <4>1. \A k \in Hits(dso, Len(array))' : k \in Hits(dso, Len(array)) /\ array'[k] # None
          BY <3>2, FewerHits, Zenon DEF Hits
        <4>2. array'[j] = None
          BY <3>1, Zenon DEF ExitTypes
        <4>3. \A k \in Hits(dso, Len(array)) : k <= j /\ k \in Nat
          BY <2>1, SMTT(30) DEF Extracts, Hits, ExitTypes
        <4> QED
          BY <4>1, <4>2, <4>3, SMTT(30)
      <3>6. Good(f)'
        BY <1>c, <2>0, <3>4, <3>5 DEF Good
      <3>7. Stacked(t, n, f)
        BY <2>1, <3>3, Zenon DEF Extracts
      <3> QED
        BY <1>g, <2>0, <3>2, <3>6, <3>7, Zenon
    <2>2. ASSUME Passed(t, n, dso, depth)
          PROVE  Caught'
      <3>1. CASE UNCHANGED array
        <4>1. PICK f : Stacked(t, n, f) /\ f.op # "callback"
          <5>1. [op |-> "passed", dso |-> dso].op # "callback"
            BY Zenon
          <5> QED
            BY <2>2, <5>1, Zenon DEF Passed
        <4> QED
          BY <1>e, <1>g, <2>0, <3>1, <4>1, Zenon
      <3>2. CASE call_depth' = 0
        <4>1. Fits(Passes', 0)
          BY <3>2, Zenon DEF DepthInv
        <4>2. Passes' = {}
          BY <4>1, NoneLeft, Zenon
        <4>3. \A u \in Thread : \A k \in DOMAIN stack'[u] : k \in Nat
          <5>1. ForksMean'
            BY ForkMeans, PTL
          <5> QED
            BY <5>1, Zenon DEF ForksMean
        <4>4. \A u \in Thread : \A k \in DOMAIN stack'[u] : stack'[u][k].op # "callback"
          <5> TAKE u \in Thread
          <5> TAKE k \in DOMAIN stack'[u]
          <5>1. <<u, k>> \in Thread \X Nat /\ <<u, k>> \notin Passes'
            BY <4>2, <4>3, Zenon
          <5> QED
            BY <5>1, Zenon DEF Passes
        <4> QED
          BY <1>b, <4>4, Zenon
      <3> QED
        BY <2>2, <3>1, <3>2, Zenon DEF Passed
    <2> QED
      BY <1>2, <2>1, <2>2, Zenon DEF PassStep
  <1>3. ASSUME NEW t \in Thread, NEW dso \in Dso, RegisterAtfork(t, dso), UNCHANGED atexitVars
        PROVE  Caught'
    BY <1>3, <1>f, Zenon DEF RegisterAtfork, atexitVars
  <1>4. ASSUME NEW t \in Thread, FinalizeEnds(t)
        PROVE  Caught'
    BY <1>4, <1>h, Unregisters, ZenonT(30) DEF atexitVars
  <1>5. ASSUME NEW t \in Thread, Exit(t)
        PROVE  Caught'
    BY <1>5, Exits, Zenon DEF Caught
  <1>6. ASSUME NEW t \in Thread, UNCHANGED atexitVars, Fork(t)
        PROVE  Caught'
    <2>1. NewFork.op # "callback" /\ Stacked(t, Len(stack[t]) + 1, NewFork)
      BY <1>6, ForkPushes, Zenon DEF NewFork
    <2>2. Len(stack[t]) + 1 \in Nat
      BY <2>1 DEF Stacked
    <2>3. PICK f : f = NewFork
      BY Zenon
    <2> QED
      BY <1>6, <1>e, <1>g, <2>1, <2>2, <2>3, Zenon DEF atexitVars
  <1>7. ASSUME NEW t \in Thread, UNCHANGED atexitVars, HandlerReturns(t) \/ CloneForFork(t)
        PROVE  Caught'
    <2>1. PICK f \in ForkFrames : Stacked(t, Len(stack[t]), f)
      BY <1>7, HandlerWalks, ForkClones, Zenon
    <2>2. f.op # "callback" /\ Len(stack[t]) \in Nat
      BY <2>1, Zenon DEF ForkFrames, Stacked
    <2> QED
      BY <1>7, <1>e, <1>g, <2>1, <2>2, Zenon DEF atexitVars
  <1>8. ASSUME NEW t \in Thread, UNCHANGED atexitVars, ForkReturns(t)
        PROVE  Caught'
    BY <1>8, <1>h, ForkPops, Zenon DEF atexitVars
  <1>9. CASE ChildSteps /\ UNCHANGED atexitVars
    BY <1>9, <1>f, Zenon DEF ChildSteps, ChildStarts, ChildHandlerReturns, ChildReturns, atexitVars
  <1> QED
    BY <1>1, <1>2, <1>3, <1>4, <1>5, <1>6, <1>7, <1>8, <1>9, Steps, ZenonT(30)

-----------------------------------------------------------------------------

\* The inductive invariant holds initially and is kept by every step.
LEMMA ExitInvariant == ExitSpec => []ExitInv
  <1>1. Init => ExitInv
    <2> SUFFICES ASSUME Init PROVE ExitInv
      BY Zenon
    <2>1. \A t \in Thread : stack[t] = <<>> /\ DOMAIN stack[t] = {}
      <3>1. \A t \in Thread : stack[t] = <<>>
        BY Zenon DEF Init, AtforkInit
      <3>2. DOMAIN <<>> = {}
        OBVIOUS
      <3> QED
        BY <3>1, <3>2, Zenon
    <2>2. ExitTypes
      BY DEF Init, AtforkInit, ExitTypes, Unlocked
    <2>3. DepthInv
      <3>1. Passes = {}
        BY <2>1, Zenon DEF Passes
      <3>2. [p \in {} |-> p] \in [{} -> 1 .. 0]
        BY Zenon
      <3> QED
        BY <3>1, <3>2, Zenon DEF DepthInv, Fits, Init
    <2>4. SortedInv
      BY SMTT(30) DEF SortedInv, Sorted, Init, AtforkInit
    <2>5. OneFork
      BY <2>1, Zenon DEF OneFork, InFork, Init, AtforkInit
    <2>6. InHandler /\ Walks /\ Caught
      BY <2>1, Zenon DEF InHandler, Walks, Caught
    <2>7. ChildWalk
      BY Zenon DEF ChildWalk, Init, AtforkInit
    <2> QED
      BY <2>2, <2>3, <2>4, <2>5, <2>6, <2>7, Zenon DEF ExitInv
  <1>2. ExitInv /\ [Next]_vars => ExitInv'
    <2>1. ASSUME ExitInv, UNCHANGED vars PROVE ExitInv'
      BY <2>1, Stutters, Zenon
    <2>2. ASSUME ExitInv, Next PROVE ExitInv'
      <3> USE <2>2 DEF ExitInv
      <3>1. ExitTypes'
        BY TypesStep, Zenon
      <3>2. SortedInv' /\ DepthInv' /\ ChildWalk'
        BY SortedStep, DepthStep, ChildStep, Zenon
      <3>3. OneFork' /\ InHandler' /\ Walks'
        BY <3>1, OneForkStep, InHandlerStep, WalksStep, Zenon
      <3>4. Caught'
        BY <3>1, <3>2, CaughtStep, Zenon
      <3> QED
        BY <3>1, <3>2, <3>3, <3>4, Zenon
    <2> QED
      BY <2>1, <2>2, Zenon
  <1> QED
    BY <1>1, <1>2, PTL DEF ExitSpec

\* The frame of the one fork a thread is in.
LEMMA TheFork ==
    ASSUME ExitInv, NEW t \in Thread, InFork(t)
    PROVE  \E k \in DOMAIN stack[t] :
              /\ ForkAt(t, k) /\ ForkFrame(t) = stack[t][k] /\ ForkFrame(t) \in ForkFrames
              /\ Walk(ForkFrame(t), ForkFrame(t).phase, g_atfork_list)
  <1>1. PICK k \in DOMAIN stack[t] : stack[t][k].op = "fork"
    BY Zenon DEF InFork
  <1>2. \A j \in DOMAIN stack[t] : stack[t][j].op = "fork" => j = k
    BY <1>1, Zenon DEF ExitInv, OneFork, ForkAt
  <1>3. ForkFrame(t) = stack[t][k] /\ ForkAt(t, k)
    BY <1>1, <1>2, Zenon DEF ForkFrame, ForkAt
  <1>4. stack[t][k] \in Frame
    BY <1>1 DEF ExitInv, ExitTypes
  <1> QED
    BY <1>1, <1>3, <1>4, FrameFacts, Zenon DEF ExitInv, Walks

\* Whatever handlers and other threads register and finalize meanwhile, a fork
\* that is about to return has called both handlers of every entry that was on
\* the list when it began and still is, in the parent and in the child.
THEOREM ForkHandlersPaired == ExitSpec => []ForkPaired
  <1>1. ExitInv => ForkPaired
    <2> SUFFICES ASSUME ExitInv PROVE ForkPaired
      BY Zenon
    <2>1. ASSUME NEW t \in Forks, ForkFrame(t).phase = "parent", ForkFrame(t).it = None
          PROVE  Paired(ForkFrame(t), g_atfork_list)
      <3>1. t \in Thread /\ InFork(t)
        BY Zenon DEF Forks
      <3>2. /\ ForkFrame(t) \in ForkFrames
            /\ Walk(ForkFrame(t), ForkFrame(t).phase, g_atfork_list)
        BY <3>1, TheFork, Zenon
      <3>3. ForkFrame(t).start \in Seq(Entry)
        BY <3>2, Zenon DEF ForkFrames
      <3> QED
        BY <2>1, <3>2, <3>3, WalkPairs, Zenon
    <2>2. ASSUME child # None, child.at = "walk", child.it = None
          PROVE  Paired(child, child.list)
      <3>1. child.start \in Seq(Entry)
        BY <2>2, Zenon DEF ExitInv, ExitTypes, Child
      <3>2. Walk(child, "walk", child.list)
        BY <2>2, Zenon DEF ExitInv, ChildWalk
      <3> QED
        BY <2>2, <3>1, <3>2, WalkPairs, Zenon
    <2> QED
      BY <2>1, <2>2, Zenon DEF ForkPaired
  <1> QED
    BY <1>1, ExitInvariant, PTL

-----------------------------------------------------------------------------

\* A __cxa_finalize that is through with its callbacks has left none of its
\* library in the array, whatever was appended or finalized since it began.
THEOREM PassesComplete == ExitSpec => PassComplete
  <1> DEFINE A == \A t \in Thread, dso \in Dso \cup {NoDso} :
                     PassEnds(t, dso) => Hits(dso, Len(array))' = {}
  <1>1. ExitInv /\ ExitInv' /\ [Next]_vars => [A]_vars
    <2> SUFFICES ASSUME ExitInv, ExitInv', Next,
                        NEW t \in Thread, NEW dso \in Dso \cup {NoDso}, PassEnds(t, dso)
                 PROVE  Hits(dso, Len(array))' = {}
      BY Zenon
    <2> DEFINE n == Len(stack'[t])
    <2>0. /\ stack'[t] # <<>> /\ stack'[t] # stack[t] /\ n >= Len(stack[t])
          /\ stack'[t][n].op = "passed" /\ stack'[t][n].dso = dso
      BY DEF PassEnds
    <2> HIDE DEF n
    <2>a. ExitTypes /\ ExitTypes' /\ SortedInv /\ Walks /\ Caught
      BY Zenon DEF ExitInv
    <2>1. UNCHANGED stack => FALSE
      BY <2>0, Zenon
    <2>2. ASSUME NEW u \in Thread, NEW d \in Dsos, NEW m \in Nat, NEW depth,
                 PassStep(u, m, d, depth)
          PROVE  Hits(dso, Len(array))' = {}
      <3>1. ASSUME NEW frame, Stacked(u, m, frame)
            PROVE  u = t /\ frame.op = "passed" /\ frame.dso = dso
        BY <2>0, <3>1, Zenon DEF Stacked, n
      <3>2. ASSUME NEW j \in Nat, Extracts(u, m, d, depth, j) PROVE FALSE
        <4>1. Callback(d, j).op = "callback"
          BY Zenon DEF Callback
        <4> QED
          BY <3>1, <3>2, <4>1, Zenon DEF Extracts
      <3>3. Passed(u, m, d, depth)
        BY <2>2, <3>2, Zenon DEF PassStep
      <3>4. d = dso
        <4>1. [op |-> "passed", dso |-> d].dso = d
          BY Zenon
        <4> QED
          BY <3>1, <3>3, <4>1, Zenon DEF Passed
      <3>5. /\ Hits(dso, Len(array)) = {}
            /\ array \in Seq(Entry \cup {None}) /\ array' \in Seq(Entry \cup {None})
        BY <2>a, <3>3, <3>4, Zenon DEF Passed, ExitTypes
      <3>6. PICK at : \A k \in DOMAIN array' : array'[k] # None =>
                         at[k] \in DOMAIN array /\ array'[k] = array[at[k]]
        BY <2>2, <2>a, ArrayThins, Zenon
      <3>7. \A i \in DOMAIN array : ~(array[i] # None /\ dso \in {NoDso, array[i].dso})
        <4>1. \A i \in DOMAIN array : i <= Len(array)
          BY <3>5
        <4> QED
          BY <3>5, <4>1, Zenon DEF Hits
      <3> QED
        BY <3>6, <3>7, Zenon DEF Hits
    <2>3. ASSUME NEW u \in Thread, Popped(u) PROVE FALSE
      <3>1. u = t
        BY <2>0, <2>3, Zenon DEF Popped
      <3>2. Len(stack'[t]) = Len(stack[t]) - 1 /\ Len(stack[t]) \in Nat
        <4>1. /\ stack'[t] \in Seq(Frame)
              /\ DOMAIN stack'[t] = 1 .. Len(stack[t]) - 1 /\ Len(stack[t]) \in Nat \ {0}
          BY <2>3, <3>1, Zenon DEF Popped
        <4> QED
          BY <4>1
      <3> QED
        BY <2>0, <3>2 DEF n
    <2>4. ASSUME NEW u \in Thread, NEW m, NEW f, f.op = "fork", Stacked(u, m, f) PROVE FALSE
      BY <2>0, <2>4, Zenon DEF Stacked, n
    <2>5. ASSUME NEW u \in Thread, Fork(u) \/ HandlerReturns(u) \/ CloneForFork(u) \/ ForkReturns(u)
          PROVE  FALSE
      <3>1. NewFork.op = "fork"
        BY Zenon DEF NewFork
      <3>2. \A f \in ForkFrames : f.op = "fork"
        BY Zenon DEF ForkFrames
      <3>3. CASE Fork(u)
        BY <2>4, <2>a, <3>1, <3>3, ForkPushes, Zenon
      <3>4. CASE HandlerReturns(u)
        BY <2>4, <2>a, <3>2, <3>4, HandlerWalks, ZenonT(30)
      <3>5. CASE CloneForFork(u)
        BY <2>4, <2>a, <3>2, <3>5, ForkClones, Zenon
      <3>6. CASE ForkReturns(u)
        BY <2>3, <2>a, <3>6, ForkPops, Zenon
      <3> QED
        BY <2>5, <3>3, <3>4, <3>5, <3>6, Zenon
    <2>6. ASSUME NEW u \in Thread, FinalizeEnds(u) \/ Exit(u) PROVE FALSE
      <3>1. CASE FinalizeEnds(u)
        BY <2>3, <2>a, <3>1, Unregisters, Zenon
      <3>2. CASE Exit(u)
        BY <2>0, <3>2, Zenon DEF Exit
      <3> QED
        BY <2>6, <3>1, <3>2, Zenon
    <2>7. ASSUME NEW u, NEW d, CxaAtexit(u, d) \/ RegisterAtfork(u, d) \/ ChildSteps PROVE FALSE
      BY <2>1, <2>7, Zenon
         DEF CxaAtexit, RegisterAtfork, ChildSteps, ChildStarts, ChildHandlerReturns, ChildReturns
    <2> QED
      BY <2>2, <2>5, <2>6, <2>7, <2>a, Steps, Zenon
  <1>2. ExitSpec => [][A]_vars
    BY <1>1, ExitInvariant, PTL DEF ExitSpec
  <1> QED
    BY <1>2, Zenon DEF PassComplete

\* When __cxa_finalize returns for a library, no fork handler of the library is
\* registered, and no fork of any thread is in one.
THEOREM UnloadsClean == ExitSpec => UnloadClean
  <1> DEFINE A == \A t \in Thread :
          In(t, "passed") /\ stack'[t] = Below(stack[t]) /\ ~exited' =>
              LET dso == Top(t).dso
              IN  /\ \A i \in DOMAIN g_atfork_list' : g_atfork_list'[i].dso # dso
                  /\ \A i \in DOMAIN g_atfork_list, u \in Forks :
                        ForkFrame(u).it = g_atfork_list[i].id => g_atfork_list[i].dso # dso
  <1>1. ExitInv /\ [Next]_vars => [A]_vars
    <2> SUFFICES ASSUME ExitInv, Next, NEW t \in Thread,
                        In(t, "passed"), stack'[t] = Below(stack[t]), ~exited'
                 PROVE  /\ \A i \in DOMAIN g_atfork_list' : g_atfork_list'[i].dso # Top(t).dso
                        /\ \A i \in DOMAIN g_atfork_list, u \in Forks :
                              ForkFrame(u).it = g_atfork_list[i].id =>
                                  g_atfork_list[i].dso # Top(t).dso
      BY Zenon
    <2>a. ExitTypes /\ SortedInv /\ Walks /\ Caught /\ OneFork /\ InHandler
      BY Zenon DEF ExitInv
    <2>b. /\ stack[t] # <<>> /\ Top(t).op = "passed" /\ Len(stack[t]) \in Nat \ {0}
          /\ Len(stack'[t]) = Len(stack[t]) - 1 /\ Len(stack[t]) \in DOMAIN stack[t]
      BY <2>a, Lowered, SMTT(30) DEF In, ExitTypes
    <2>1. stack'[t] = stack[t] => FALSE
      BY <2>b, SMTT(30)
    <2>2. ASSUME NEW u \in Thread, NEW m, NEW frame, Stacked(u, m, frame),
                 m = Len(stack[u]) \/ m = Len(stack[u]) + 1
          PROVE  FALSE
      BY <2>1, <2>2, <2>b, SMTT(30) DEF Stacked
    <2>3. ASSUME NEW u \in Thread, NEW d \in Dsos, NEW m \in Nat, NEW depth,
                 PassStep(u, m, d, depth)
          PROVE  FALSE
      BY <2>2, <2>3, ZenonT(30) DEF PassStep, InPass, Extracts, Passed
    <2>4. ASSUME NEW u \in Thread, Fork(u) \/ HandlerReturns(u) \/ CloneForFork(u) \/ ForkReturns(u)
          PROVE  FALSE
      <3>1. CASE Fork(u)
        BY <2>2, <2>a, <3>1, ForkPushes, ZenonT(30)
      <3>2. CASE HandlerReturns(u)
        BY <2>2, <2>a, <3>2, HandlerWalks, ZenonT(30)
      <3>3. CASE CloneForFork(u)
        BY <2>2, <2>a, <3>3, ForkClones, ZenonT(30)
      <3>4. CASE ForkReturns(u)
        <4>1. Popped(u) /\ ForkAt(u, Len(stack[u]))
          BY <2>a, <3>4, ForkPops, Zenon
        <4>2. u # t
          BY <2>b, <4>1, Zenon DEF ForkAt, Top
        <4> QED
          BY <2>1, <4>1, <4>2, Zenon DEF Popped
      <3> QED
        BY <2>4, <3>1, <3>2, <3>3, <3>4, ZenonT(30)
    <2>5. ASSUME NEW u, NEW d, CxaAtexit(u, d) \/ RegisterAtfork(u, d) \/ ChildSteps PROVE FALSE
      BY <2>1, <2>5, Zenon
         DEF CxaAtexit, RegisterAtfork, ChildSteps, ChildStarts, ChildHandlerReturns, ChildReturns
    <2>6. \A u \in Thread : ~Exit(u)
      BY Zenon DEF Exit
    <2>7. \E u \in Thread : FinalizeEnds(u)
      BY <2>3, <2>4, <2>5, <2>6, <2>a, Steps, ZenonT(30)
    <2>8. FinalizeEnds(t)
      <3>1. PICK u \in Thread : FinalizeEnds(u)
        BY <2>7, Zenon
      <3>2. Popped(u)
        BY <2>a, <3>1, Unregisters, ZenonT(30)
      <3> QED
        BY <2>1, <3>1, <3>2, Zenon DEF Popped
    <2>9. \A i \in DOMAIN g_atfork_list' : g_atfork_list'[i].dso # Top(t).dso
      BY <2>8, <2>a, Unregisters, SMTT(30)
    <2>10. ASSUME NEW i \in DOMAIN g_atfork_list, NEW u \in Forks,
                  ForkFrame(u).it = g_atfork_list[i].id
           PROVE  g_atfork_list[i].dso # Top(t).dso
      <3>1. u \in Thread /\ InFork(u) /\ g_atfork_list_mutex.owner \in {None, t}
        BY <2>8, <2>a, Unregisters, Zenon DEF Forks
      <3>2. u = t
        BY <2>a, <3>1, NoneAssumption, SMTT(30) DEF OneFork
      <3>3. PICK k \in DOMAIN stack[t] : ForkAt(t, k) /\ ForkFrame(t) = stack[t][k]
        BY <3>1, <3>2, TheFork, Zenon
      <3>4. k < Len(stack[t])
        <4>1. k # Len(stack[t])
          BY <2>b, <3>3, Zenon DEF ForkAt, Top
        <4>2. DOMAIN stack[t] = 1 .. Len(stack[t])
          BY <2>a DEF ExitTypes
        <4> QED
          BY <2>b, <4>1, <4>2
      <3> QED
        BY <2>10, <2>a, <2>b, <3>2, <3>3, <3>4, Zenon DEF InHandler, Top
    <2> QED
      BY <2>9, <2>10, Zenon
  <1>2. ExitSpec => [][A]_vars
    BY <1>1, ExitInvariant, PTL DEF ExitSpec
  <1> QED
    BY <1>2, Zenon DEF UnloadClean

-----------------------------------------------------------------------------

\* The entries of the array are those that wait to be called.
Pending == {array[i] : i \in DOMAIN array} \ {None}

\* Every callback is called at most once, and never before a newer one that the
\* same __cxa_finalize is to call.
THEOREM ExitHandlersImplemented == ExitSpec => ImplementsExitHandlers
  <1>1. Init => Abstract!Init
    BY DEF Init, Abstract!Init
  <1>2. ExitInv /\ [Next]_vars => [Abstract!Next]_<<total_appends, Pending>>
    <2> SUFFICES ASSUME ExitInv, [Next]_vars
                 PROVE  Abstract!Next \/ UNCHANGED <<total_appends, Pending>>
      BY Zenon
    <2>a. ExitTypes /\ SortedInv /\ Walks /\ Caught
      BY Zenon DEF ExitInv
    <2>b. array \in Seq(Entry \cup {None}) /\ total_appends \in Nat
      BY <2>a, Zenon DEF ExitTypes
    <2>c. UNCHANGED <<array, total_appends>> => UNCHANGED <<total_appends, Pending>>
      BY Zenon DEF Pending
    <2>1. CASE UNCHANGED vars
      BY <2>1, <2>c, Zenon DEF vars, atexitVars
    <2>2. ASSUME NEW t \in Thread, NEW dso \in Dsos, CxaAtexit(t, dso)
          PROVE  Abstract!Next
      <3> DEFINE e == [id |-> total_appends', dso |-> dso]
      <3>1. total_appends' = total_appends + 1 /\ array' = Append(array, e)
        BY <2>2, Zenon DEF CxaAtexit, AppendEntry
      <3>2. e \in Entry /\ e # None
        <4>1. e \in Entry
          BY <2>b, <3>1, SMTT(30) DEF Entry, Dsos
        <4> QED
          BY <4>1, NoneAssumption, Zenon
      <3>3. /\ DOMAIN array = 1 .. Len(array) /\ Len(array) \in Nat
            /\ DOMAIN array' = 1 .. Len(array) + 1
            /\ \A k \in 1 .. Len(array) : array'[k] = array[k]
            /\ array'[Len(array) + 1] = e
        BY <2>b, <3>1, <3>2, Appended
      <3>4. Pending' = Pending \cup {e}
        <4> HIDE DEF e
        <4> QED
          BY <3>2, <3>3 DEF Pending
      <3> QED
        BY <3>1, <3>4, Zenon DEF Abstract!Next, Abstract!Register, Pending, Dsos
    <2>3. ASSUME NEW t \in Thread, NEW dso \in Dsos, NEW n \in Nat, NEW depth,
                 PassStep(t, n, dso, depth)
          PROVE  Abstract!Next \/ UNCHANGED <<total_appends, Pending>>
      <3>0. UNCHANGED total_appends
        BY <2>3, ZenonT(30) DEF PassStep, InPass
      <3>1. ASSUME NEW j \in Nat, Extracts(t, n, dso, depth, j)
            PROVE  Abstract!Next
        <4> DEFINE e == array[j]
        <4>1. /\ j \in DOMAIN array /\ e # None /\ dso \in {NoDso, e.dso}
              /\ \A k \in Hits(dso, Len(array)) : k <= j
              /\ array' = [array EXCEPT ![j] = None]
          BY <3>1, Zenon DEF Extracts, Hits
        <4>2. DOMAIN array = 1 .. Len(array) /\ Len(array) \in Nat
          BY <2>b
        <4>3. \A k \in DOMAIN array : array[k] # None => array[k].id \in Nat
          BY <2>b DEF Entry
        <4>4. \A k \in DOMAIN array : array[k] # None /\ dso \in {NoDso, array[k].dso} => k <= j
          BY <4>1, <4>2 DEF Hits
        <4>5. \A k \in DOMAIN array : array[k] # None /\ k <= j => array[k].id <= e.id
          BY <2>a, <4>1, <4>2, <4>3 DEF SortedInv
        <4>6. \A k \in DOMAIN array : k # j /\ array[k] # None => array[k] # e
          <5> TAKE k \in DOMAIN array
          <5> HAVE k # j /\ array[k] # None
          <5>1. k < j \/ j < k
            BY <4>1, <4>2
          <5>2. array[k].id # e.id
            BY <2>a, <4>1, <4>3, <5>1 DEF SortedInv
          <5> QED
            BY <5>2, Zenon
        <4>7. Pending' = Pending \ {e}
          BY <4>1, <4>6, Zenon DEF Pending
        <4>8. e \in Pending
          BY <4>1, Zenon DEF Pending
        <4>9. \/ \A g \in Pending : g.id <= e.id
              \/ \A g \in Pending : g.dso = e.dso => g.id <= e.id
          BY <4>1, <4>4, <4>5, Zenon DEF Pending
        <4> HIDE DEF e
        <4> QED
          BY <3>0, <4>7, <4>8, <4>9, Zenon
             DEF Abstract!Next, Abstract!Call, Abstract!Newest, Pending
      <3>2. ASSUME NEW at \in Ascending(array, {i \in DOMAIN array : array[i] # None}),
                   array' = [k \in DOMAIN at |-> array[at[k]]]
            PROVE  Pending' = Pending
        <4> DEFINE P == {i \in DOMAIN array : array[i] # None}
        <4>1. /\ DOMAIN array' = DOMAIN at
              /\ \A k \in DOMAIN at : at[k] \in P /\ array'[k] = array[at[k]]
              /\ \A p \in P : \E k \in DOMAIN at : at[k] = p
          <5>1. P \in SUBSET DOMAIN array /\ at \in Ascending(array, P)
            BY <3>2, Zenon
          <5> HIDE DEF P
          <5> QED
            BY <2>b, <3>2, <5>1, Thinned
        <4> QED
          BY <4>1 DEF Pending
      <3> QED
        BY <2>3, <2>c, <3>0, <3>1, <3>2, Zenon DEF PassStep, Passed
    <2>4. ASSUME NEW t \in Thread, FinalizeEnds(t) \/ Exit(t)
          PROVE  UNCHANGED <<total_appends, Pending>>
      <3>1. FinalizeEnds(t) => UNCHANGED <<array, total_appends>>
        BY <2>a, Unregisters, Zenon DEF atexitVars
      <3>2. Exit(t) => UNCHANGED <<array, total_appends>>
        BY Exits, Zenon
      <3> QED
        BY <2>4, <2>c, <3>1, <3>2, Zenon
    <2>5. UNCHANGED atexitVars => UNCHANGED <<total_appends, Pending>>
      BY <2>c, Zenon DEF atexitVars
    <2> QED
      BY <2>1, <2>2, <2>3, <2>4, <2>5, <2>a, Steps, Zenon
  <1> QED
    BY <1>1, <1>2, ExitInvariant, PTL DEF ExitSpec, ImplementsExitHandlers, Abstract!Spec, Pending

=============================================================================
