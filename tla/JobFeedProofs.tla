--------------------------- MODULE JobFeedProofs ---------------------------
(***************************************************************************)
(* Theorems about the two screens that show every post (JobFeed), for any  *)
(* finite set of posts and any bounds: the table is never left behind the  *)
(* list; and unless a post has vanished a tap opens no older post than the *)
(* row shows, and no row is looked up beyond the end of the list.          *)
(***************************************************************************)
EXTENDS JobFeed, LeastNumbers, FiniteSetTheorems, SequenceTheorems

-----------------------------------------------------------------------------
(* The list of a view *)

\* The posts of a view, and how many there are.
Present(v) == {p \in Posts : v[p] # "absent"}
Count(v) == Cardinality(Present(v))

LEMMA PostIsNumber ==
    ASSUME NEW e \in Entry
    PROVE  e.post \in Nat
  BY FeedAssumption DEF Entry

\* Entries with different posts can be put in order: a set that could not would have a
\* smallest such subset, and adding its oldest post to the list of the others orders it.
LEMMA CanBeSorted ==
    ASSUME NEW S, IsFiniteSet(S), S \subseteq Entry,
           \A e, f \in S : e.post = f.post => e = f
    PROVE  \E s \in SetToSeqs(S) : NewestFirst(s)
<1> DEFINE Sortable(T) == \E s \in SetToSeqs(T) : NewestFirst(s)
           Bad == {n \in Nat : \E T \in SUBSET S : Cardinality(T) = n /\ ~Sortable(T)}
<1>0. ASSUME NEW T \in SUBSET S PROVE IsFiniteSet(T) /\ Cardinality(T) \in Nat
  BY FS_Subset, FS_CardinalityType
<1>1. ASSUME Bad # {} PROVE FALSE
  <2>1. PICK n \in Bad : \A k \in Bad : n <= k
    <3>1. Bad \subseteq Nat
      OBVIOUS
    <3> HIDE DEF Bad
    <3> QED
      BY <1>1, <3>1, LeastNumber
  <2>2. PICK T \in SUBSET S : Cardinality(T) = n /\ ~Sortable(T)
    OBVIOUS
  <2>3. T # {}
    <3>1. ASSUME T = {} PROVE FALSE
      <4>1. Cardinality(T) = 0
        BY <3>1, FS_EmptySet
      <4>2. << >> \in [1 .. Cardinality(T) -> T] /\ DOMAIN << >> = {}
        BY <4>1
      <4>3. << >> \in SetToSeqs(T) /\ NewestFirst(<< >>)
        BY <4>1, <4>2 DEF SetToSeqs, NewestFirst
      <4> QED
        BY <2>2, <4>3
    <3> QED
      BY <3>1
  <2>4. PICK e \in T : \A f \in T : e.post <= f.post
    <3>1. PICK N : N = {f.post : f \in T}
      OBVIOUS
    <3>2. N \subseteq Nat /\ N # {}
      <4>1. \A f \in T : f.post \in Nat
        BY FeedAssumption DEF Entry
      <4> QED
        BY <2>3, <3>1, <4>1
    <3>3. PICK k \in N : \A j \in N : k <= j
      BY <3>2, LeastNumber
    <3> QED
      BY <3>1, <3>3
  <2>5. PICK R \in SUBSET S : R = T \ {e}
    OBVIOUS
  <2>6. Cardinality(R) = n - 1 /\ n - 1 \in Nat
    <3>1. Cardinality(R) = n - 1
      BY <1>0, <2>2, <2>5, FS_RemoveElement
    <3> QED
      BY <1>0, <3>1
  <2>7. Sortable(R)
    <3>1. n - 1 \notin Bad
      BY <2>1, <2>6
    <3> QED
      BY <2>6, <3>1
  <2>8. PICK s \in [1 .. n - 1 -> R] :
            NewestFirst(s) /\ \A i, j \in 1 .. n - 1 : i # j => s[i] # s[j]
    BY <2>6, <2>7 DEF SetToSeqs
  <2>9. PICK t : t = [i \in 1 .. n |-> IF i = n THEN e ELSE s[i]]
    OBVIOUS
  <2>10. t \in [1 .. n -> T]
    BY <2>5, <2>8, <2>9
  <2>11. \A i \in 1 .. n - 1 : s[i] \in T /\ s[i] # e /\ s[i].post > e.post
    <3>1. ASSUME NEW i \in 1 .. n - 1 PROVE s[i] \in T /\ s[i] # e /\ s[i].post > e.post
      <4>1. s[i] \in T /\ s[i] # e /\ s[i] \in S /\ e \in S
        BY <2>5, <2>8
      <4>2. e.post <= s[i].post /\ e.post # s[i].post
        BY <2>4, <4>1
      <4>3. e.post \in Nat /\ s[i].post \in Nat
        BY <4>1, FeedAssumption DEF Entry
      <4> QED
        BY <4>1, <4>2, <4>3
    <3> QED
      BY <3>1
  <2>12. /\ t[n] = e /\ \A i \in 1 .. n - 1 : t[i] = s[i]
         /\ \A i \in 1 .. n : i = n \/ i \in 1 .. n - 1
         /\ DOMAIN t = 1 .. n /\ DOMAIN s = 1 .. n - 1 /\ n \in Nat
    BY <2>6, <2>8, <2>9
  <2>13. NewestFirst(t)
    <3>1. ASSUME NEW i \in 1 .. n, NEW j \in 1 .. n, i < j PROVE t[i].post > t[j].post
      <4>1. i \in 1 .. n - 1
        BY <2>12, <3>1
      <4>2. CASE j = n
        BY <2>11, <2>12, <4>1, <4>2
      <4>3. CASE j \in 1 .. n - 1
        BY <2>8, <2>12, <3>1, <4>1, <4>3 DEF NewestFirst
      <4> QED
        BY <2>12, <4>2, <4>3
    <3> QED
      BY <2>12, <3>1 DEF NewestFirst
  <2>14. \A i, j \in 1 .. n : i # j => t[i] # t[j]
    BY <2>8, <2>11, <2>12
  <2>15. t \in SetToSeqs(T)
    BY <2>2, <2>10, <2>14 DEF SetToSeqs
  <2> QED
    BY <2>2, <2>13, <2>15
<1>2. Cardinality(S) \in Nat /\ Cardinality(S) \notin Bad
  BY <1>0, <1>1
<1> QED
  BY <1>2

\* The entries of a view are as many as its posts.
LEMMA ShownFacts ==
    ASSUME NEW v \in Views
    PROVE  /\ IsFiniteSet(Shown(v)) /\ Shown(v) \subseteq Entry
           /\ \A e, f \in Shown(v) : e.post = f.post => e = f
           /\ Count(v) \in Nat /\ Cardinality(Shown(v)) = Count(v)
<1>1. IsFiniteSet(Present(v)) /\ Count(v) \in Nat
  BY FeedAssumption, FS_Subset, FS_CardinalityType DEF Present, Count
<1>2. Shown(v) = {[post |-> p, status |-> v[p]] : p \in Present(v)}
  BY DEF Shown, Present
<1>3. Shown(v) \subseteq Entry
  BY <1>2 DEF Present, Entry, Views
<1>4. ExistsBijection(Present(v), Shown(v))
  <2>1. PICK f : f = [p \in Present(v) |-> [post |-> p, status |-> v[p]]]
    OBVIOUS
  <2>2. f \in [Present(v) -> Shown(v)]
    BY <1>2, <2>1
  <2>3. \A p, q \in Present(v) : f[p] = f[q] => p = q
    BY <2>1
  <2>4. \A e \in Shown(v) : \E p \in Present(v) : f[p] = e
    BY <1>2, <2>1
  <2> QED
    BY <2>2, <2>3, <2>4 DEF ExistsBijection, Bijection, Injection, Surjection, IsInjective
<1>5. IsFiniteSet(Shown(v)) /\ Cardinality(Shown(v)) = Count(v)
  BY <1>1, <1>4, FS_Bijection DEF Count
<1> QED
  BY <1>1, <1>2, <1>3, <1>5

LEMMA ListOfFacts ==
    ASSUME NEW v \in Views
    PROVE  ListOf(v) \in Seq(Entry) /\ NewestFirst(ListOf(v)) /\ Len(ListOf(v)) = Count(v)
<1>1. \E s \in SetToSeqs(Shown(v)) : NewestFirst(s)
  BY ShownFacts, CanBeSorted
<1>2. ListOf(v) \in SetToSeqs(Shown(v)) /\ NewestFirst(ListOf(v))
  BY <1>1 DEF ListOf
<1>3. ListOf(v) \in [1 .. Count(v) -> Entry] /\ Count(v) \in Nat
  BY <1>2, ShownFacts DEF SetToSeqs
<1> QED
  BY <1>2, <1>3

\* What the list of a view holds, and where.
LEMMA ListOfHolds ==
    ASSUME NEW v \in Views
    PROVE  /\ \A i \in 1 .. Count(v) : ListOf(v)[i].post \in Present(v)
           /\ \A p \in Present(v) : \E i \in 1 .. Count(v) : ListOf(v)[i].post = p
<1>1. ListOf(v) \in SetToSeqs(Shown(v))
  BY ShownFacts, CanBeSorted DEF ListOf
<1>2. PICK s : s = ListOf(v) /\ s \in [1 .. Count(v) -> Shown(v)]
               /\ \A i, j \in 1 .. Count(v) : i # j => s[i] # s[j]
  BY <1>1, ShownFacts DEF SetToSeqs
<1>3. \A e \in Shown(v) : e.post \in Present(v)
  BY DEF Shown, Present
<1>4. ASSUME NEW p \in Present(v) PROVE \E i \in 1 .. Count(v) : s[i].post = p
  <2>1. PICK e \in Shown(v) : e.post = p
    <3>1. p \in {q \in Posts : v[q] # "absent"} /\ [post |-> p, status |-> v[p]].post = p
      BY DEF Present
    <3> QED
      BY <3>1 DEF Shown
  <2>2. ASSUME \A i \in 1 .. Count(v) : s[i] # e PROVE FALSE
    <3>1. IsFiniteSet(Shown(v) \ {e}) /\ Cardinality(Shown(v) \ {e}) = Count(v) - 1
      BY ShownFacts, FS_RemoveElement
    <3>2. IsFiniteSet(1 .. Count(v)) /\ Cardinality(1 .. Count(v)) = Count(v) /\ Count(v) \in Nat
      BY ShownFacts, FS_Interval
    <3>3. s \in [1 .. Count(v) -> Shown(v) \ {e}]
      BY <1>2, <2>2
    <3>4. \E i, j \in 1 .. Count(v) : i # j /\ s[i] = s[j]
      BY <3>1, <3>2, <3>3, FS_PigeonHole
    <3> QED
      BY <1>2, <3>4
  <2> QED
    BY <2>1, <2>2
<1> QED
  BY <1>2, <1>3, <1>4

\* Each place of t holds a post that is no older than that in the same place of s.
NoOlder(s, t) ==
    /\ Len(s) <= Len(t)
    /\ \A i \in 1 .. Len(s) : s[i].post <= t[i].post

LEMMA NoOlderOrder ==
    ASSUME NEW s \in Seq(Entry), NEW t \in Seq(Entry), NEW u \in Seq(Entry)
    PROVE  NoOlder(s, s) /\ (NoOlder(s, t) /\ NoOlder(t, u) => NoOlder(s, u))
<1>1. Len(s) \in Nat /\ Len(t) \in Nat /\ Len(u) \in Nat
  OBVIOUS
<1>2. \A e \in Entry : e.post \in Nat
  BY FeedAssumption DEF Entry
<1>3. /\ \A i \in 1 .. Len(s) : s[i].post \in Nat
      /\ \A i \in 1 .. Len(t) : t[i].post \in Nat
      /\ \A i \in 1 .. Len(u) : u[i].post \in Nat
  BY <1>2
<1>4. NoOlder(s, s)
  BY <1>1, <1>3 DEF NoOlder
<1>5. ASSUME NoOlder(s, t), NoOlder(t, u) PROVE NoOlder(s, u)
  <2>1. Len(s) <= Len(t) /\ Len(t) <= Len(u)
    BY <1>5 DEF NoOlder
  <2>2. ASSUME NEW i \in 1 .. Len(s) PROVE s[i].post <= u[i].post
    <3>1. i \in 1 .. Len(t) /\ i \in 1 .. Len(u)
      BY <1>1, <2>1
    <3>2. s[i].post <= t[i].post /\ t[i].post <= u[i].post
      BY <1>5, <3>1 DEF NoOlder
    <3> QED
      BY <1>3, <3>1, <3>2
  <2> QED
    BY <1>1, <2>1, <2>2 DEF NoOlder
<1> QED
  BY <1>4, <1>5

\* The list of v puts no older post in any place than that of w.
Within(w, v) == NoOlder(ListOf(w), ListOf(v))

\* Posts that are added push others down: if place i held a post later than what it holds
\* now, the i posts down to it would all have to be in the i - 1 places above.
LEMMA MorePostsNoOlder ==
    ASSUME NEW w \in Views, NEW v \in Views, Present(w) \subseteq Present(v)
    PROVE  Within(w, v)
<1>1. PICK s \in Seq(Entry), t \in Seq(Entry) :
          /\ s = ListOf(w) /\ NewestFirst(s) /\ Len(s) = Count(w)
          /\ t = ListOf(v) /\ NewestFirst(t) /\ Len(t) = Count(v)
  BY ListOfFacts
<1>2. Count(w) \in Nat /\ Count(v) \in Nat /\ Count(w) <= Count(v)
  <2>1. IsFiniteSet(Present(v))
    BY FeedAssumption, FS_Subset DEF Present
  <2> QED
    BY <2>1, ShownFacts, FS_Subset DEF Count
<1>3. \A i \in 1 .. Count(w) : \E j \in 1 .. Count(v) : t[j].post = s[i].post
  <2>1. \A i \in 1 .. Count(w) : s[i].post \in Present(v)
    BY <1>1, ListOfHolds
  <2> QED
    BY <1>1, <2>1, ListOfHolds
<1>4. /\ \A i, j \in 1 .. Count(w) : i < j => s[i].post > s[j].post
      /\ \A i, j \in 1 .. Count(v) : i < j => t[i].post > t[j].post
      /\ \A i \in 1 .. Count(w) : s[i].post \in Nat
      /\ \A i \in 1 .. Count(v) : t[i].post \in Nat
  <2>1. \A e \in Entry : e.post \in Nat
    BY FeedAssumption DEF Entry
  <2>2. DOMAIN s = 1 .. Count(w) /\ DOMAIN t = 1 .. Count(v)
    BY <1>1
  <2>3. /\ \A i, j \in 1 .. Count(w) : i < j => s[i].post > s[j].post
        /\ \A i, j \in 1 .. Count(v) : i < j => t[i].post > t[j].post
    BY <1>1, <2>2 DEF NewestFirst
  <2>4. /\ \A i \in 1 .. Count(w) : s[i] \in Entry
        /\ \A i \in 1 .. Count(v) : t[i] \in Entry
    BY <1>1
  <2> QED
    BY <2>1, <2>3, <2>4
<1>5. ASSUME NEW i \in 1 .. Count(w), ~(s[i].post <= t[i].post) PROVE FALSE
  <2>1. i \in Nat /\ i > 0 /\ i - 1 \in Nat /\ i \in 1 .. Count(v)
        /\ \A k \in 1 .. i : k \in 1 .. Count(w)
    BY <1>2
  <2>2. PICK f : f = [k \in 1 .. i |-> CHOOSE j \in 1 .. Count(v) : t[j].post = s[k].post]
    OBVIOUS
  <2>3. \A k \in 1 .. i : f[k] \in 1 .. Count(v) /\ t[f[k]].post = s[k].post
    BY <1>3, <2>1, <2>2
  <2>4. ASSUME NEW k \in 1 .. i PROVE f[k] \in 1 .. i - 1
    <3>1. s[k].post >= s[i].post
      <4>1. CASE k = i
        BY <1>4, <2>1, <4>1
      <4>2. CASE k < i
        BY <1>4, <2>1, <4>2
      <4> QED
        BY <2>1, <4>1, <4>2
    <3>2. t[f[k]].post > t[i].post
      <4>1. s[i].post > t[i].post
        BY <1>4, <1>5, <2>1
      <4> QED
        BY <1>4, <2>1, <2>3, <3>1, <4>1
    <3>3. ~(i <= f[k])
      <4>1. CASE i = f[k]
        BY <1>4, <2>1, <3>2, <4>1
      <4>2. CASE i < f[k]
        <5>1. t[i].post > t[f[k]].post
          BY <1>4, <2>1, <2>3, <4>2
        <5> QED
          BY <1>4, <2>1, <2>3, <3>2, <5>1
      <4> QED
        BY <2>1, <2>3, <4>1, <4>2
    <3> QED
      BY <1>2, <2>1, <2>3, <3>3
  <2>5. \E k, l \in 1 .. i : k # l /\ f[k] = f[l]
    <3>1. IsFiniteSet(1 .. i) /\ Cardinality(1 .. i) = i
      BY <2>1, FS_Interval
    <3>2. IsFiniteSet(1 .. i - 1) /\ Cardinality(1 .. i - 1) = i - 1
      BY <2>1, FS_Interval
    <3>3. f \in [1 .. i -> 1 .. i - 1]
      BY <2>2, <2>4
    <3>4. Cardinality(1 .. i - 1) < Cardinality(1 .. i)
      BY <2>1, <3>1, <3>2
    <3> QED
      BY <3>1, <3>2, <3>3, <3>4, FS_PigeonHole
  <2>6. PICK k \in 1 .. i, l \in 1 .. i : k # l /\ s[k].post = s[l].post
    BY <2>3, <2>5
  <2>7. k < l \/ l < k
    BY <2>1, <2>6
  <2> QED
    BY <1>4, <2>1, <2>6, <2>7
<1> QED
  BY <1>1, <1>2, <1>5 DEF NoOlder, Within

LEMMA MapOrdersFacts ==
    ASSUME NEW v \in Views, NEW s \in MapOrders(v)
    PROVE  s \in Seq(Entry)
<1>1. s \in [1 .. Count(v) -> Entry] /\ Count(v) \in Nat
  BY ShownFacts DEF MapOrders, SetToSeqs
<1> QED
  BY <1>1

-----------------------------------------------------------------------------
(* The main queue *)

LEMMA CallbacksFacts ==
    ASSUME NEW n \in [Screens -> Nat], NEW v \in Views \cup {NoView}
    PROVE  /\ Callbacks(n, v) \in Seq(Block)
           /\ \A k \in DOMAIN Callbacks(n, v) :
                 Callbacks(n, v)[k].to \in Screens /\ Callbacks(n, v)[k].view = v
           /\ n["list"] > 0 => \E k \in DOMAIN Callbacks(n, v) : Callbacks(n, v)[k].to = "list"
           /\ n["list"] = 0 => \A k \in DOMAIN Callbacks(n, v) : Callbacks(n, v)[k].to = "map"
<1>1. PICK a \in Nat, b \in Nat : a = n["list"] /\ b = n["map"]
  BY DEF Screens
<1>2. PICK x \in Block, y \in Block :
          /\ x = [to |-> "list", view |-> v] /\ y = [to |-> "map", view |-> v]
          /\ x.view = v /\ y.view = v /\ x.to = "list" /\ y.to = "map"
  <2>1. \A t \in Screens : [to |-> t, view |-> v] \in [to : Screens, view : Views \cup {NoView}]
    OBVIOUS
  <2>2. \A t \in Screens : [to |-> t, view |-> v] \in Block
    BY <2>1 DEF Block
  <2> QED
    BY <2>2 DEF Screens
<1>3. PICK p \in Seq(Block), q \in Seq(Block) :
          /\ p = [i \in 1 .. a |-> x] /\ q = [i \in 1 .. b |-> y]
          /\ Len(p) = a /\ Len(q) = b
  <2>1. ASSUME NEW n1 \in Nat, NEW z \in Block
        PROVE  [i \in 1 .. n1 |-> z] \in Seq(Block) /\ Len([i \in 1 .. n1 |-> z]) = n1
    OBVIOUS
  <2> QED
    BY <2>1
<1>4. /\ Len(p \o q) = a + b /\ p \o q \in Seq(Block)
      /\ \A k \in 1 .. a + b : (p \o q)[k] = IF k <= a THEN p[k] ELSE q[k - a]
  BY <1>3
<1>5. \A k \in 1 .. a + b : (p \o q)[k] = IF k <= a THEN x ELSE y
  BY <1>3, <1>4
<1>6. Callbacks(n, v) = p \o q
  BY <1>1, <1>2, <1>3 DEF Callbacks
<1>7. DOMAIN (p \o q) = 1 .. a + b
  BY <1>4
<1>8. a > 0 => 1 \in 1 .. a + b /\ 1 <= a
  OBVIOUS
<1>9. PICK c : c = p \o q
  OBVIOUS
<1>10. /\ c \in Seq(Block) /\ DOMAIN c = 1 .. a + b
       /\ \A k \in 1 .. a + b : c[k] = IF k <= a THEN x ELSE y
  BY <1>4, <1>5, <1>7, <1>9
<1>11. \A k \in DOMAIN c : c[k].to \in Screens /\ c[k].view = v
  BY <1>2, <1>10 DEF Screens
<1>12. a > 0 => \E k \in DOMAIN c : c[k].to = "list"
  BY <1>2, <1>8, <1>10
<1>13. a = 0 => \A k \in DOMAIN c : c[k].to = "map"
  BY <1>2, <1>10
<1> QED
  BY <1>1, <1>6, <1>9, <1>10, <1>11, <1>12, <1>13

IsListSnapshot(b) == b.to = "list" /\ b.view # NoView

\* The list is that of v, or the last snapshot for the list in m is v.
OnItsWay(m, list, v) ==
    IF \A i \in 1 .. Len(m) : ~IsListSnapshot(m[i]) THEN list = ListOf(v)
    ELSE \E i \in 1 .. Len(m) :
             /\ IsListSnapshot(m[i]) /\ m[i].view = v
             /\ \A j \in 1 .. Len(m) : IsListSnapshot(m[j]) => j <= i

\* From the list over the snapshots for it in m to v no place gets an older post.
Rising(m, list, v) ==
    /\ NoOlder(list, ListOf(v))
    /\ \A i \in 1 .. Len(m) : IsListSnapshot(m[i]) =>
           /\ NoOlder(list, ListOf(m[i].view)) /\ Within(m[i].view, v)
           /\ \A j \in 1 .. Len(m) : IsListSnapshot(m[j]) /\ i <= j =>
                  Within(m[i].view, m[j].view)

Reloads(m) == \E i \in 1 .. Len(m) : m[i].to = "table"

\* Blocks are put behind those of m; snapshots for the list among them are of v.
Put(m, r, v) ==
    /\ Len(m) <= Len(r)
    /\ \A i \in 1 .. Len(m) : r[i] = m[i]
    /\ \A i \in 1 .. Len(r) : i > Len(m) /\ IsListSnapshot(r[i]) => r[i].view = v

\* The first block of m is taken; what is put behind is no snapshot for the list.
Taken(m, r) ==
    /\ Len(m) > 0 /\ Len(m) - 1 <= Len(r)
    /\ \A i \in 2 .. Len(m) : r[i - 1] = m[i]
    /\ \A i \in 1 .. Len(r) : i > Len(m) - 1 => ~IsListSnapshot(r[i])

LEMMA PutKeeps ==
    ASSUME NEW m \in Seq(Block), NEW r \in Seq(Block), NEW list \in Seq(Entry),
           NEW v \in Views, NEW w \in Views, Put(m, r, w)
    PROVE  /\ Reloads(m) => Reloads(r)
           /\ v = w /\ OnItsWay(m, list, v) => OnItsWay(r, list, w)
           /\ (\E i \in 1 .. Len(r) : i > Len(m) /\ IsListSnapshot(r[i])) => OnItsWay(r, list, w)
           /\ Rising(m, list, v) /\ Within(v, w) => Rising(r, list, w)
<1>0. /\ Len(m) \in Nat /\ Len(r) \in Nat /\ Len(list) \in Nat
      /\ \A i \in 1 .. Len(m) : i \in 1 .. Len(r) /\ r[i] = m[i]
      /\ \A i \in 1 .. Len(r) : i \in 1 .. Len(m) \/ i > Len(m)
  BY DEF Put
<1>1. Reloads(m) => Reloads(r)
  BY <1>0 DEF Reloads
<1>2. ASSUME \E i \in 1 .. Len(r) : i > Len(m) /\ IsListSnapshot(r[i])
      PROVE  OnItsWay(r, list, w)
  <2>1. PICK S : S = {i \in 1 .. Len(r) : IsListSnapshot(r[i])}
    OBVIOUS
  <2>2. PICK i \in S : \A j \in S : j <= i
    <3>1. S # {} /\ S \subseteq 1 .. Len(r)
      BY <1>2, <2>1
    <3> QED
      BY <1>0, <3>1, GreatestIndex
  <2>3. i > Len(m)
    BY <1>0, <1>2, <2>1, <2>2
  <2> QED
    BY <2>1, <2>2, <2>3 DEF Put, OnItsWay
<1>3. ASSUME v = w, OnItsWay(m, list, v), \A i \in 1 .. Len(r) : i > Len(m) => ~IsListSnapshot(r[i])
      PROVE  OnItsWay(r, list, w)
  <2>1. CASE \A i \in 1 .. Len(m) : ~IsListSnapshot(m[i])
    <3>1. \A i \in 1 .. Len(r) : ~IsListSnapshot(r[i])
      BY <1>0, <1>3, <2>1
    <3> QED
      BY <1>3, <2>1, <3>1 DEF OnItsWay
  <2>2. CASE ~(\A i \in 1 .. Len(m) : ~IsListSnapshot(m[i]))
    <3>1. PICK i \in 1 .. Len(m) : /\ IsListSnapshot(m[i]) /\ m[i].view = v
                                   /\ \A j \in 1 .. Len(m) : IsListSnapshot(m[j]) => j <= i
      BY <1>3, <2>2 DEF OnItsWay
    <3>2. \A j \in 1 .. Len(r) : IsListSnapshot(r[j]) => j <= i
      BY <1>0, <1>3, <3>1
    <3> QED
      BY <1>0, <1>3, <3>1, <3>2 DEF OnItsWay
  <2> QED
    BY <2>1, <2>2
<1>4. ASSUME Rising(m, list, v), Within(v, w)
      PROVE  Rising(r, list, w)
  <2>1. /\ ListOf(v) \in Seq(Entry) /\ ListOf(w) \in Seq(Entry) /\ Within(w, w)
        /\ \A b \in Block : IsListSnapshot(b) => ListOf(b.view) \in Seq(Entry)
    BY ListOfFacts, NoOlderOrder DEF IsListSnapshot, Block, Within
  <2>2. NoOlder(list, ListOf(w))
    BY <1>4, <2>1, NoOlderOrder DEF Rising, Within
  <2>3. ASSUME NEW i \in 1 .. Len(m), IsListSnapshot(m[i])
        PROVE  NoOlder(list, ListOf(m[i].view)) /\ Within(m[i].view, w)
    <3>1. NoOlder(list, ListOf(m[i].view)) /\ Within(m[i].view, v)
      BY <1>4, <2>3 DEF Rising
    <3>2. ListOf(m[i].view) \in Seq(Entry)
      BY <2>1, <2>3
    <3> QED
      BY <1>4, <2>1, <3>1, <3>2, NoOlderOrder DEF Within
  <2>4. \A i \in 1 .. Len(r) : IsListSnapshot(r[i]) =>
            \/ i \in 1 .. Len(m) /\ r[i] = m[i] /\ IsListSnapshot(m[i])
            \/ i > Len(m) /\ r[i].view = w
    BY <1>0 DEF Put
  <2>5. ASSUME NEW i \in 1 .. Len(r), IsListSnapshot(r[i])
        PROVE  /\ NoOlder(list, ListOf(r[i].view)) /\ Within(r[i].view, w)
               /\ \A j \in 1 .. Len(r) : IsListSnapshot(r[j]) /\ i <= j =>
                      Within(r[i].view, r[j].view)
    <3>1. NoOlder(list, ListOf(r[i].view)) /\ Within(r[i].view, w)
      BY <2>1, <2>2, <2>3, <2>4, <2>5
    <3>2. ASSUME NEW j \in 1 .. Len(r), IsListSnapshot(r[j]), i <= j
          PROVE  Within(r[i].view, r[j].view)
      <4>1. CASE j > Len(m) /\ r[j].view = w
        BY <3>1, <4>1
      <4>2. CASE j \in 1 .. Len(m) /\ r[j] = m[j] /\ IsListSnapshot(m[j])
        <5>1. ~(i > Len(m))
          BY <1>0, <3>2, <4>2
        <5>2. i \in 1 .. Len(m) /\ r[i] = m[i] /\ IsListSnapshot(m[i])
          BY <2>4, <2>5, <5>1
        <5> QED
          BY <1>4, <3>2, <4>2, <5>2 DEF Rising
      <4> QED
        BY <2>4, <3>2, <4>1, <4>2
    <3> QED
      BY <3>1, <3>2
  <2> QED
    BY <2>2, <2>5 DEF Rising
<1> QED
  BY <1>1, <1>2, <1>3, <1>4

LEMMA TakenKeeps ==
    ASSUME NEW m \in Seq(Block), NEW r \in Seq(Block), NEW list, NEW v \in Views,
           Taken(m, r), ~IsListSnapshot(m[1])
    PROVE  /\ Reloads(m) /\ m[1].to # "table" => Reloads(r)
           /\ OnItsWay(m, list, v) => OnItsWay(r, list, v)
           /\ Rising(m, list, v) => Rising(r, list, v)
<1>0. /\ Len(m) \in Nat /\ Len(r) \in Nat
      /\ \A i \in 1 .. Len(m) : i = 1 \/ (i \in 2 .. Len(m) /\ i - 1 \in 1 .. Len(r) /\ r[i - 1] = m[i])
      /\ \A i \in 1 .. Len(r) : \/ i + 1 \in 2 .. Len(m) /\ i + 1 \in 1 .. Len(m) /\ r[i] = m[i + 1]
                                \/ ~IsListSnapshot(r[i])
  BY DEF Taken
<1>1. ASSUME Reloads(m), m[1].to # "table" PROVE Reloads(r)
  BY <1>0, <1>1 DEF Reloads
<1>2. ASSUME OnItsWay(m, list, v) PROVE OnItsWay(r, list, v)
  <2>1. CASE \A i \in 1 .. Len(m) : ~IsListSnapshot(m[i])
    <3>1. \A i \in 1 .. Len(r) : ~IsListSnapshot(r[i])
      BY <1>0, <2>1
    <3> QED
      BY <1>2, <2>1, <3>1 DEF OnItsWay
  <2>2. CASE ~(\A i \in 1 .. Len(m) : ~IsListSnapshot(m[i]))
    <3>1. PICK i \in 1 .. Len(m) : /\ IsListSnapshot(m[i]) /\ m[i].view = v
                                   /\ \A j \in 1 .. Len(m) : IsListSnapshot(m[j]) => j <= i
      BY <1>2, <2>2 DEF OnItsWay
    <3>2. i - 1 \in 1 .. Len(r) /\ r[i - 1] = m[i]
      BY <1>0, <3>1
    <3>3. ASSUME NEW j \in 1 .. Len(r), IsListSnapshot(r[j]) PROVE j <= i - 1
      <4>1. j + 1 \in 1 .. Len(m) /\ r[j] = m[j + 1]
        BY <1>0, <3>3
      <4>2. j + 1 <= i
        BY <3>1, <3>3, <4>1
      <4> QED
        BY <4>2
    <3> QED
      BY <3>1, <3>2, <3>3 DEF OnItsWay
  <2> QED
    BY <2>1, <2>2
<1>3. ASSUME Rising(m, list, v) PROVE Rising(r, list, v)
  <2>1. ASSUME NEW i \in 1 .. Len(r), IsListSnapshot(r[i])
        PROVE  i + 1 \in 1 .. Len(m) /\ r[i] = m[i + 1] /\ IsListSnapshot(m[i + 1])
    BY <1>0, <2>1
  <2>2. ASSUME NEW i \in 1 .. Len(r), NEW j \in 1 .. Len(r),
               IsListSnapshot(r[i]), IsListSnapshot(r[j]), i <= j
        PROVE  Within(r[i].view, r[j].view)
    <3>1. i + 1 <= j + 1
      BY <2>2
    <3> QED
      BY <1>3, <2>1, <2>2, <3>1 DEF Rising
  <2> QED
    BY <1>3, <2>1, <2>2 DEF Rising
<1> QED
  BY <1>1, <1>2, <1>3

\* The list takes the first snapshot.
LEMMA TakenByList ==
    ASSUME NEW m \in Seq(Block), NEW r \in Seq(Block), NEW list, NEW v \in Views,
           Taken(m, r), IsListSnapshot(m[1])
    PROVE  /\ OnItsWay(m, list, v) => OnItsWay(r, ListOf(m[1].view), v)
           /\ Rising(m, list, v) => /\ Rising(r, ListOf(m[1].view), v)
                                    /\ NoOlder(list, ListOf(m[1].view))
<1>0. /\ Len(m) \in Nat /\ Len(r) \in Nat /\ 1 \in 1 .. Len(m)
      /\ \A i \in 1 .. Len(m) : i = 1 \/ (i \in 2 .. Len(m) /\ i - 1 \in 1 .. Len(r) /\ r[i - 1] = m[i])
      /\ \A i \in 1 .. Len(r) : \/ i + 1 \in 2 .. Len(m) /\ i + 1 \in 1 .. Len(m) /\ r[i] = m[i + 1]
                                \/ ~IsListSnapshot(r[i])
  BY DEF Taken
<1>1. PICK w \in Views : w = m[1].view
  <2>1. m[1] \in Block
    BY <1>0
  <2> QED
    BY <2>1 DEF IsListSnapshot, Block
<1>2. ASSUME OnItsWay(m, list, v) PROVE OnItsWay(r, ListOf(w), v)
  <2>1. PICK i \in 1 .. Len(m) : /\ IsListSnapshot(m[i]) /\ m[i].view = v
                                 /\ \A j \in 1 .. Len(m) : IsListSnapshot(m[j]) => j <= i
    BY <1>0, <1>2 DEF OnItsWay
  <2>2. \A j \in 1 .. Len(r) : IsListSnapshot(r[j]) => j + 1 \in 1 .. Len(m) /\ IsListSnapshot(m[j + 1])
    BY <1>0
  <2>3. CASE i = 1
    <3>1. \A j \in 1 .. Len(r) : ~IsListSnapshot(r[j])
      BY <2>1, <2>2, <2>3
    <3> QED
      BY <1>1, <2>1, <2>3, <3>1 DEF OnItsWay
  <2>4. CASE i # 1
    <3>1. i - 1 \in 1 .. Len(r) /\ r[i - 1] = m[i]
      BY <1>0, <2>4
    <3>2. ASSUME NEW j \in 1 .. Len(r), IsListSnapshot(r[j]) PROVE j <= i - 1
      <4>1. j + 1 <= i
        BY <2>1, <2>2, <3>2
      <4> QED
        BY <4>1
    <3> QED
      BY <2>1, <3>1, <3>2 DEF OnItsWay
  <2> QED
    BY <2>3, <2>4
<1>3. ASSUME Rising(m, list, v)
      PROVE  Rising(r, ListOf(w), v) /\ NoOlder(list, ListOf(w))
  <2>1. /\ NoOlder(list, ListOf(w)) /\ Within(w, v)
        /\ \A j \in 1 .. Len(m) : IsListSnapshot(m[j]) => Within(w, m[j].view)
    BY <1>0, <1>1, <1>3 DEF Rising
  <2>2. ASSUME NEW i \in 1 .. Len(r), IsListSnapshot(r[i])
        PROVE  i + 1 \in 1 .. Len(m) /\ r[i] = m[i + 1] /\ IsListSnapshot(m[i + 1])
    BY <1>0, <2>2
  <2>3. ASSUME NEW i \in 1 .. Len(r), NEW j \in 1 .. Len(r),
               IsListSnapshot(r[i]), IsListSnapshot(r[j]), i <= j
        PROVE  Within(r[i].view, r[j].view)
    <3>1. i + 1 <= j + 1
      BY <2>3
    <3> QED
      BY <1>3, <2>2, <2>3, <3>1 DEF Rising
  <2>4. ASSUME NEW i \in 1 .. Len(r), IsListSnapshot(r[i])
        PROVE  Within(w, r[i].view) /\ Within(r[i].view, v)
    BY <1>3, <2>1, <2>2, <2>4 DEF Rising
  <2>5. Rising(r, ListOf(w), v)
    BY <2>1, <2>3, <2>4 DEF Rising, Within
  <2> QED
    BY <2>1, <2>5
<1> QED
  BY <1>1, <1>2, <1>3

-----------------------------------------------------------------------------
(* The three kinds of step: blocks arrive in the main queue, its first block *)
(* is run, or nothing of the SDK, the queue and the list changes.            *)

Arrives ==
    /\ main' \in Seq(Block) /\ Len(main') <= MaxBlocks
    /\ view' \in Views /\ {silent', loud'} \subseteq [Screens -> Nat]
    /\ Put(main, main', view')
    /\ loud'["list"] > 0 =>
           \/ \E i \in 1 .. Len(main') : i > Len(main) /\ IsListSnapshot(main'[i])
           \/ view' = view /\ loud["list"] > 0
    /\ ~vanished' => ~vanished /\ Within(view, view')
    /\ UNCHANGED <<listVars, mapVars, crashed, astray>>

Takes ==
    /\ Running /\ main[1] \in Block /\ Taken(main, main')
    /\ main' \in Seq(Block) /\ Len(main') <= MaxBlocks
    /\ UNCHANGED <<sdkVars, fetchVars, astray, envVars>>
    /\ refresh' \in {refresh, "idle"}
    /\ \/ /\ IsListSnapshot(main[1]) /\ jobPosts' = ListOf(main[1].view)
          /\ rows' = rows /\ Reloads(main')
       \/ /\ ~IsListSnapshot(main[1]) /\ jobPosts' = jobPosts
          /\ rows' = jobPosts \/ (rows' = rows /\ main[1].to # "table")
    /\ UNCHANGED <<mapVars, crashed>> \/ MapSnapshot

Stays == UNCHANGED <<sdkVars, main, jobPosts, mapVars, envVars>>

LEMMA PutsBlocks ==
    ASSUME FeedTypeOK, NEW C \in Seq(Block), Enqueue(C), NEW v,
           \A k \in DOMAIN C : IsListSnapshot(C[k]) => C[k].view = v
    PROVE  /\ main' \in Seq(Block) /\ Len(main') <= MaxBlocks /\ Put(main, main', v)
           /\ (\E k \in DOMAIN C : IsListSnapshot(C[k])) =>
                  \E i \in 1 .. Len(main') : i > Len(main) /\ IsListSnapshot(main'[i])
<1>1. PICK m \in Seq(Block) : m = main
  BY DEF FeedTypeOK
<1>2. main' = m \o C /\ Len(m) + Len(C) <= MaxBlocks
  BY <1>1 DEF Enqueue
<1>3. /\ Len(m \o C) = Len(m) + Len(C) /\ m \o C \in Seq(Block)
      /\ Len(m) \in Nat /\ Len(C) \in Nat /\ DOMAIN C = 1 .. Len(C)
      /\ \A i \in 1 .. Len(m) : (m \o C)[i] = m[i]
      /\ \A i \in 1 .. Len(m) + Len(C) : i > Len(m) => i - Len(m) \in 1 .. Len(C)
                                                       /\ (m \o C)[i] = C[i - Len(m)]
  OBVIOUS
<1>4. Put(m, m \o C, v)
  BY <1>3 DEF Put
<1>5. ASSUME NEW k \in 1 .. Len(C), IsListSnapshot(C[k])
      PROVE  \E i \in 1 .. Len(m \o C) : i > Len(m) /\ IsListSnapshot((m \o C)[i])
  <2>1. Len(m) + k \in 1 .. Len(m) + Len(C) /\ Len(m) + k > Len(m) /\ (Len(m) + k) - Len(m) = k
    BY <1>3
  <2> QED
    BY <1>3, <1>5, <2>1
<1> QED
  BY <1>1, <1>2, <1>3, <1>4, <1>5

LEMMA TakesBlock ==
    ASSUME FeedTypeOK, main # << >>
    PROVE  /\ Head(main) = main[1] /\ main[1] \in Block
           /\ main' = Tail(main) => /\ main' \in Seq(Block) /\ Len(main') <= MaxBlocks
                                    /\ Taken(main, main')
           /\ \A b \in Block : main' = Append(Tail(main), b) /\ ~IsListSnapshot(b) =>
                  /\ main' \in Seq(Block) /\ Len(main') <= MaxBlocks
                  /\ Taken(main, main')
                  /\ b.to = "table" => Reloads(main')
<1>1. PICK m \in Seq(Block) : m = main /\ m # << >> /\ Len(m) <= MaxBlocks
  BY DEF FeedTypeOK
<1>2. PICK t \in Seq(Block) : t = Tail(m)
  BY <1>1, HeadTailProperties
<1>3. /\ Len(m) \in Nat /\ Len(m) > 0 /\ Len(t) = Len(m) - 1 /\ Head(m) = m[1] /\ m[1] \in Block
      /\ MaxBlocks \in Nat
      /\ \A i \in 1 .. Len(m) - 1 : t[i] = m[i + 1]
  BY <1>1, <1>2, FeedAssumption
<1>4. \A i \in 2 .. Len(m) : t[i - 1] = m[i]
  <2>1. \A i \in 2 .. Len(m) : i - 1 \in 1 .. Len(m) - 1 /\ (i - 1) + 1 = i
    BY <1>3
  <2> QED
    BY <1>3, <2>1
<1>5. Taken(m, t) /\ Len(t) <= MaxBlocks
  BY <1>1, <1>3, <1>4 DEF Taken
<1>6. ASSUME NEW b \in Block, ~IsListSnapshot(b)
      PROVE  /\ Append(t, b) \in Seq(Block) /\ Len(Append(t, b)) <= MaxBlocks
             /\ Taken(m, Append(t, b))
             /\ b.to = "table" => Reloads(Append(t, b))
  <2>1. PICK r \in Seq(Block) : r = Append(t, b)
    BY AppendProperties
  <2>2. /\ Len(r) = Len(m) /\ r[Len(m)] = b
        /\ \A i \in 1 .. Len(m) - 1 : r[i] = t[i]
    BY <1>3, <2>1
  <2>3. \A i \in 2 .. Len(m) : i - 1 \in 1 .. Len(m) - 1
    BY <1>3
  <2>4. Taken(m, r)
    BY <1>3, <1>4, <1>6, <2>2, <2>3 DEF Taken
  <2>5. b.to = "table" => Reloads(r)
    BY <1>3, <2>2 DEF Reloads
  <2> QED
    BY <1>1, <2>1, <2>2, <2>4, <2>5
<1> QED
  BY <1>1, <1>2, <1>3, <1>5, <1>6

LEMMA ViewChangesArrives ==
    ASSUME FeedTypeOK, NEW p \in Posts, NEW status \in Statuses \cup {"absent"},
           ViewChanges(p, status)
    PROVE  Arrives
<1>1. PICK v \in Views : v = [view EXCEPT ![p] = status] /\ view' = v /\ v # NoView
  <2>1. [view EXCEPT ![p] = status] \in Views
    BY DEF FeedTypeOK, Views
  <2>2. view' = [view EXCEPT ![p] = status]
    BY DEF ViewChanges
  <2> QED
    BY <2>1, <2>2, FeedAssumption
<1>2. loud \in [Screens -> Nat] /\ silent \in [Screens -> Nat]
  BY DEF FeedTypeOK
<1>3. PICK heard \in [Screens -> Nat] :
          heard = IF Raised(v) THEN [t \in Screens |-> Both(t)] ELSE loud
  <2>1. [t \in Screens |-> Both(t)] \in [Screens -> Nat]
    BY <1>2 DEF Both
  <2> QED
    BY <1>2, <2>1
<1>4. /\ loud' = heard /\ silent' = [t \in Screens |-> Both(t) - heard[t]]
      /\ Enqueue(Callbacks(heard, v))
  BY <1>1, <1>3 DEF ViewChanges
<1>5. silent' \in [Screens -> Nat]
  <2>1. CASE Raised(v)
    BY <1>2, <1>3, <1>4, <2>1 DEF Both
  <2>2. CASE ~Raised(v)
    BY <1>2, <1>3, <1>4, <2>2 DEF Both
  <2> QED
    BY <2>1, <2>2
<1>6. PICK C \in Seq(Block) : C = Callbacks(heard, v)
  BY CallbacksFacts
<1>7. /\ \A k \in DOMAIN C : C[k].view = v
      /\ heard["list"] > 0 => \E k \in DOMAIN C : C[k].to = "list"
  BY <1>6, CallbacksFacts
<1>8. /\ main' \in Seq(Block) /\ Len(main') <= MaxBlocks /\ Put(main, main', v)
      /\ heard["list"] > 0 => \E i \in 1 .. Len(main') : i > Len(main) /\ IsListSnapshot(main'[i])
  <2>1. Enqueue(C)
    BY <1>4, <1>6
  <2>2. heard["list"] > 0 => \E k \in DOMAIN C : IsListSnapshot(C[k])
    BY <1>1, <1>7 DEF IsListSnapshot
  <2>3. /\ main' \in Seq(Block) /\ Len(main') <= MaxBlocks /\ Put(main, main', v)
        /\ (\E k \in DOMAIN C : IsListSnapshot(C[k])) =>
               \E i \in 1 .. Len(main') : i > Len(main) /\ IsListSnapshot(main'[i])
    BY <1>7, <2>1, PutsBlocks
  <2> QED
    BY <2>2, <2>3
<1>9. ASSUME ~vanished' PROVE ~vanished /\ Within(view, view')
  <2>1. ~vanished /\ status # "absent"
    BY <1>9 DEF ViewChanges
  <2>2. Present(view) \subseteq Present(v)
    BY <1>1, <2>1 DEF Present, FeedTypeOK, Views
  <2>3. view \in Views
    BY DEF FeedTypeOK
  <2> QED
    BY <1>1, <2>1, <2>2, <2>3, MorePostsNoOlder
<1> QED
  BY <1>1, <1>3, <1>4, <1>5, <1>8, <1>9 DEF Arrives, ViewChanges

LEMMA ViewReadyArrives ==
    ASSUME FeedTypeOK, ViewReady
    PROVE  Arrives
<1>1. /\ view \in Views /\ view' = view /\ vanished' = vanished
      /\ loud \in [Screens -> Nat] /\ silent \in [Screens -> Nat]
      /\ loud' = [t \in Screens |-> loud[t] + silent[t]] /\ silent' = [t \in Screens |-> 0]
  BY DEF FeedTypeOK, ViewReady, Both, envVars
<1>2. loud' \in [Screens -> Nat] /\ silent' \in [Screens -> Nat]
  BY <1>1
<1>3. PICK C : /\ C = Callbacks(silent, view) /\ C \in Seq(Block)
               /\ \A k \in DOMAIN C : C[k].view = view
               /\ silent["list"] > 0 => \E k \in DOMAIN C : C[k].to = "list"
  <2>1. view \in Views \cup {NoView} /\ silent \in [Screens -> Nat]
    BY <1>1
  <2> QED
    BY <2>1, CallbacksFacts
<1>4. /\ main' \in Seq(Block) /\ Len(main') <= MaxBlocks /\ Put(main, main', view)
      /\ silent["list"] > 0 => \E i \in 1 .. Len(main') : i > Len(main) /\ IsListSnapshot(main'[i])
  <2>1. Enqueue(C)
    BY <1>3 DEF ViewReady
  <2>2. silent["list"] > 0 => \E k \in DOMAIN C : IsListSnapshot(C[k])
    BY <1>1, <1>3, FeedAssumption DEF IsListSnapshot
  <2> QED
    BY <1>3, <2>1, <2>2, PutsBlocks
<1>5. loud'["list"] > 0 => silent["list"] > 0 \/ loud["list"] > 0
  BY <1>1 DEF Screens
<1>6. Within(view, view)
  BY <1>1, MorePostsNoOlder
<1> QED
  BY <1>1, <1>2, <1>4, <1>5, <1>6 DEF Arrives, ViewReady

LEMMA QueryFailsArrives ==
    ASSUME FeedTypeOK, QueryFails
    PROVE  Arrives
<1>1. /\ view \in Views /\ view' = view /\ vanished' = vanished
      /\ loud' = [t \in Screens |-> 0] /\ silent' = [t \in Screens |-> 0]
      /\ [t \in Screens |-> Both(t)] \in [Screens -> Nat]
  BY DEF FeedTypeOK, QueryFails, Both
<1>2. loud' \in [Screens -> Nat] /\ silent' \in [Screens -> Nat] /\ ~(loud'["list"] > 0)
  BY <1>1 DEF Screens
<1>3. PICK C : /\ C = Callbacks([t \in Screens |-> Both(t)], NoView) /\ C \in Seq(Block)
               /\ \A k \in DOMAIN C : C[k].view = NoView
  BY <1>1, CallbacksFacts
<1>4. main' \in Seq(Block) /\ Len(main') <= MaxBlocks /\ Put(main, main', view)
  <2>1. Enqueue(C)
    BY <1>3 DEF QueryFails
  <2> QED
    BY <1>3, <2>1, PutsBlocks DEF IsListSnapshot
<1>5. Within(view, view)
  BY <1>1, MorePostsNoOlder
<1> QED
  BY <1>1, <1>2, <1>4, <1>5 DEF Arrives, QueryFails

LEMMA FetchAnsweredArrives ==
    ASSUME FeedTypeOK, NEW t \in Screens, FetchAnswered(t)
    PROVE  Arrives
<1>1. /\ view \in Views /\ view' = view /\ vanished' = vanished
      /\ loud \in [Screens -> Nat] /\ silent \in [Screens -> Nat]
      /\ main \in Seq(Block) /\ Len(main) <= MaxBlocks
  BY DEF FeedTypeOK, FetchAnswered, envVars
<1>2. Within(view, view)
  BY <1>1, MorePostsNoOlder
<1>3. CASE Raised(view)
  <2>1. /\ loud' = [loud EXCEPT ![t] = @ + 1] /\ silent' = silent
        /\ Enqueue(<<[to |-> t, view |-> view]>>)
    BY <1>3 DEF FetchAnswered, AddListener
  <2>2. PICK b \in Block : b = [to |-> t, view |-> view]
    BY <1>1 DEF Block
  <2>3. PICK C \in Seq(Block) : C = <<b>> /\ DOMAIN C = {1} /\ C[1] = b
    <3>1. <<b>> \in Seq(Block)
      OBVIOUS
    <3>2. DOMAIN <<b>> = {1} /\ <<b>>[1] = b
      OBVIOUS
    <3> QED
      BY <3>1, <3>2
  <2>4. b.view = view /\ (t = "list" => IsListSnapshot(b))
    BY <1>1, <2>2, FeedAssumption DEF IsListSnapshot
  <2>5. Enqueue(C) /\ \A k \in DOMAIN C : IsListSnapshot(C[k]) => C[k].view = view
    BY <2>1, <2>2, <2>3, <2>4
  <2>6. /\ main' \in Seq(Block) /\ Len(main') <= MaxBlocks /\ Put(main, main', view)
        /\ t = "list" => \E i \in 1 .. Len(main') : i > Len(main) /\ IsListSnapshot(main'[i])
    BY <2>3, <2>4, <2>5, PutsBlocks
  <2>7. loud' \in [Screens -> Nat] /\ (t # "list" => loud'["list"] = loud["list"])
    BY <1>1, <2>1 DEF Screens
  <2> QED
    BY <1>1, <1>2, <2>1, <2>6, <2>7 DEF Arrives, FetchAnswered
<1>4. CASE ~Raised(view)
  <2>1. loud' = loud /\ main' = main /\ silent' = [silent EXCEPT ![t] = @ + 1]
    BY <1>4 DEF FetchAnswered, AddListener
  <2>2. silent' \in [Screens -> Nat]
    BY <1>1, <2>1
  <2>3. Put(main, main, view)
    <3>1. Len(main) \in Nat
      BY <1>1
    <3> QED
      BY <3>1 DEF Put
  <2> QED
    BY <1>1, <1>2, <2>1, <2>2, <2>3 DEF Arrives, FetchAnswered
<1> QED
  BY <1>3, <1>4

LEMMA BlocksTake ==
    ASSUME FeedTypeOK, Blocks
    PROVE  Takes
<1>1. /\ Running /\ main # << >> /\ Head(main) = main[1] /\ main[1] \in Block
  BY TakesBlock DEF Blocks, ListSnapshot, ListError, Reload, EndRefreshing, MapSnapshot,
     MapError, NextBlock
<1>2. /\ Table \in Block /\ ~IsListSnapshot(Table) /\ Table.to = "table"
      /\ [to |-> "spinner", view |-> NoView] \in Block
      /\ ~IsListSnapshot([to |-> "spinner", view |-> NoView])
  BY DEF Table, Block, IsListSnapshot
<1>3. CASE ListSnapshot
  <2>1. /\ main' = Append(Tail(main), Table) /\ IsListSnapshot(main[1])
        /\ jobPosts' = ListOf(main[1].view)
    BY <1>1, <1>3 DEF ListSnapshot, NextBlock, IsListSnapshot
  <2>2. Taken(main, main') /\ main' \in Seq(Block) /\ Len(main') <= MaxBlocks /\ Reloads(main')
    BY <1>1, <1>2, <2>1, TakesBlock
  <2> QED
    BY <1>1, <1>3, <2>1, <2>2 DEF Takes, ListSnapshot
<1>4. CASE ListError
  <2>1. main' = Append(Tail(main), [to |-> "spinner", view |-> NoView]) /\ ~IsListSnapshot(main[1])
        /\ main[1].to # "table"
    BY <1>1, <1>4 DEF ListError, NextBlock, IsListSnapshot
  <2>2. Taken(main, main') /\ main' \in Seq(Block) /\ Len(main') <= MaxBlocks
    BY <1>1, <1>2, <2>1, TakesBlock
  <2> QED
    BY <1>1, <1>4, <2>1, <2>2 DEF Takes, ListError, listVars
<1>5. CASE Reload \/ EndRefreshing \/ MapSnapshot \/ MapError
  <2>1. main' = Tail(main) /\ ~IsListSnapshot(main[1])
    BY <1>1, <1>5 DEF Reload, EndRefreshing, MapSnapshot, MapError, NextBlock, IsListSnapshot
  <2>2. Taken(main, main') /\ main' \in Seq(Block) /\ Len(main') <= MaxBlocks
    BY <1>1, <2>1, TakesBlock
  <2>3. CASE Reload
    BY <1>1, <2>1, <2>2, <2>3 DEF Takes, Reload
  <2>4. CASE EndRefreshing
    BY <1>1, <2>1, <2>2, <2>4 DEF Takes, EndRefreshing, listVars, NextBlock
  <2>5. CASE MapSnapshot
    BY <1>1, <2>1, <2>2, <2>5 DEF Takes, MapSnapshot, listVars, NextBlock
  <2>6. CASE MapError
    BY <1>1, <2>1, <2>2, <2>6 DEF Takes, MapError, listVars, NextBlock
  <2> QED
    BY <1>5, <2>3, <2>4, <2>5, <2>6
<1> QED
  BY <1>3, <1>4, <1>5 DEF Blocks

\* What is left: requests, pulls and taps.
Touches ==
    \/ UNCHANGED vars
    \/ \E t \in Screens : FetchBlogPosts(t) \/ FetchFails(t)
    \/ PullToRefresh
    \/ \E i \in DOMAIN rows : CellForRow(i) \/ TapRow(i)
    \/ \E pin \in pins : TapPin(pin)

LEMMA FeedStepKinds ==
    ASSUME FeedTypeOK, [Next]_vars
    PROVE  Arrives \/ Takes \/ (Touches /\ Stays)
<1>1. Touches => Stays
  BY DEF Touches, Stays, FetchBlogPosts, FetchFails, PullToRefresh, CellForRow, TapRow, TapPin,
     vars, sdkVars, listVars, mapVars, envVars
<1> QED
  BY <1>1, ViewChangesArrives, ViewReadyArrives, QueryFailsArrives, FetchAnsweredArrives,
     BlocksTake DEF Next, Touches

-----------------------------------------------------------------------------
(* FeedTypeOK *)

\* The types of the flags and the counters.
SmallTypeOK ==
    /\ ready \in BOOLEAN /\ vanished \in BOOLEAN /\ astray \in BOOLEAN
    /\ asks \in [Screens -> Nat] /\ asked \in [Screens -> Nat]
    /\ refresh \in {"none", "idle", "spinning"}
    /\ crashed \in {"no"} \cup Screens
    /\ changes \in Nat /\ fetchFailures \in Nat /\ queryFailures \in Nat

LEMMA SmallTypeStep == SmallTypeOK /\ [Next]_vars => SmallTypeOK'
<1> SUFFICES ASSUME SmallTypeOK, [Next]_vars PROVE SmallTypeOK'
  OBVIOUS
<1> USE DEF SmallTypeOK
<1>1. CASE UNCHANGED vars
  BY <1>1 DEF vars, sdkVars, fetchVars, envVars
<1>2. ASSUME NEW p \in Posts, NEW status \in Statuses \cup {"absent"}, ViewChanges(p, status)
      PROVE  SmallTypeOK'
  BY <1>2 DEF ViewChanges, fetchVars
<1>3. CASE ViewReady
  BY <1>3 DEF ViewReady, fetchVars, envVars
<1>4. CASE QueryFails
  <2>1. ready' \in BOOLEAN
    BY <1>4 DEF QueryFails
  <2>2. /\ vanished' = vanished /\ astray' = astray
        /\ asks' = asks /\ asked' = asked /\ refresh' = refresh /\ crashed' = crashed
        /\ changes' = changes /\ fetchFailures' = fetchFailures
        /\ queryFailures' = queryFailures + 1
    BY <1>4 DEF QueryFails, fetchVars
  <2> QED
    BY <2>1, <2>2
<1>5. ASSUME NEW t \in Screens, FetchBlogPosts(t) \/ FetchFails(t) \/ FetchAnswered(t)
      PROVE  SmallTypeOK'
  <2>1. asks' \in [Screens -> Nat]
    BY <1>5 DEF FetchBlogPosts, FetchFails, FetchAnswered
  <2>2. asked' \in [Screens -> Nat]
    <3>1. CASE FetchBlogPosts(t)
      BY <3>1 DEF FetchBlogPosts
    <3>2. CASE FetchFails(t) \/ FetchAnswered(t)
      <4>1. asked[t] \in Nat /\ asked[t] > 0 /\ asked' = [asked EXCEPT ![t] = asked[t] - 1]
        BY <3>2 DEF FetchFails, FetchAnswered
      <4>2. asked[t] - 1 \in Nat
        BY <4>1
      <4> QED
        BY <4>1, <4>2
    <3> QED
      BY <1>5, <3>1, <3>2
  <2> QED
    BY <1>5, <2>1, <2>2 DEF FetchBlogPosts, FetchFails, FetchAnswered, sdkVars, envVars
<1>6. CASE PullToRefresh
  BY <1>6 DEF PullToRefresh, sdkVars, envVars, Screens
<1>7. CASE Blocks
  BY <1>7 DEF Blocks, ListSnapshot, ListError, Reload, EndRefreshing, MapSnapshot, MapError,
     sdkVars, fetchVars, envVars, Screens
<1>8. ASSUME NEW i \in DOMAIN rows, CellForRow(i) \/ TapRow(i) PROVE SmallTypeOK'
  BY <1>8 DEF CellForRow, TapRow, sdkVars, fetchVars, envVars, Screens
<1>9. ASSUME NEW pin \in pins, TapPin(pin) PROVE SmallTypeOK'
  BY <1>9 DEF TapPin, sdkVars, fetchVars, envVars, Screens
<1> QED
  BY <1>1, <1>2, <1>3, <1>4, <1>5, <1>6, <1>7, <1>8, <1>9 DEF Next

LEMMA FeedTypeInit == Init => FeedTypeOK
<1> SUFFICES ASSUME Init PROVE FeedTypeOK
  OBVIOUS
<1>1. << >> \in Seq(Block) /\ << >> \in Seq(Entry) /\ Len(<< >>) = 0 /\ NewestFirst(<< >>)
  BY EmptySeq DEF NewestFirst
<1>2. 0 <= MaxBlocks
  BY FeedAssumption
<1>3. view \in Views /\ main \in Seq(Block) /\ Len(main) <= MaxBlocks
  BY <1>1, <1>2 DEF Init
<1>4. {jobPosts, rows, mapPosts} \subseteq Seq(Entry) /\ NewestFirst(jobPosts)
  BY <1>1 DEF Init
<1>5. {silent, loud, asks, asked} \subseteq [Screens -> Nat]
  BY DEF Init
<1>6. {ready, vanished, astray} \subseteq BOOLEAN
  <2>1. ready \in BOOLEAN /\ vanished \in BOOLEAN /\ astray \in BOOLEAN
    BY Zenon DEF Init
  <2> QED
    BY <2>1
<1>7. /\ refresh \in {"none", "idle", "spinning"} /\ crashed \in {"no"} \cup Screens
      /\ pins \subseteq [tag : Nat, entry : Entry]
      /\ {changes, fetchFailures, queryFailures} \subseteq Nat
  BY DEF Init
<1> QED
  BY <1>3, <1>4, <1>5, <1>6, <1>7 DEF FeedTypeOK

\* A filled cell is an entry of the list.
LEMMA CellFacts ==
    ASSUME FeedTypeOK, NEW i \in DOMAIN rows, CellForRow(i)
    PROVE  /\ rows' \in Seq(Entry) /\ Len(rows') = Len(rows)
           /\ rows = jobPosts => rows' = rows
           /\ crashed' \in {crashed, "list"}
           /\ Len(rows) <= Len(jobPosts) => crashed' = crashed
<1>1. PICK q \in Seq(Entry), s \in Seq(Entry) : q = jobPosts /\ s = rows
  BY DEF FeedTypeOK
<1>2. /\ DOMAIN q = 1 .. Len(q) /\ DOMAIN s = 1 .. Len(s) /\ Len(q) \in Nat /\ Len(s) \in Nat
      /\ \A k \in 1 .. Len(q) : q[k] \in Entry
  OBVIOUS
<1>3. CASE i \in DOMAIN jobPosts
  <2>1. rows' = [s EXCEPT ![i] = q[i]] /\ crashed' = crashed
    BY <1>1, <1>3 DEF CellForRow
  <2>2. q[i] \in Entry /\ i \in 1 .. Len(s)
    BY <1>1, <1>2, <1>3
  <2>3. [s EXCEPT ![i] = q[i]] \in Seq(Entry) /\ Len([s EXCEPT ![i] = q[i]]) = Len(s)
    BY <2>2, ExceptSeq
  <2>4. s = q => [s EXCEPT ![i] = q[i]] = s
    OBVIOUS
  <2> QED
    BY <1>1, <2>1, <2>3, <2>4
<1>4. CASE i \notin DOMAIN jobPosts
  <2>1. rows' = rows /\ crashed' = "list"
    BY <1>4 DEF CellForRow
  <2>2. ~(Len(rows) <= Len(jobPosts))
    BY <1>1, <1>2, <1>4
  <2> QED
    BY <1>1, <2>1, <2>2
<1> QED
  BY <1>3, <1>4

\* The pins are those of the posts that the map holds.
PinsMatch ==
    \A pin \in pins : pin.tag + 1 \in DOMAIN mapPosts /\ mapPosts[pin.tag + 1] = pin.entry

LEMMA MapSnapshotFacts ==
    ASSUME FeedTypeOK, MapSnapshot
    PROVE  /\ mapPosts' \in Seq(Entry) /\ pins' \subseteq [tag : Nat, entry : Entry]
           /\ PinsMatch'
           /\ crashed' = "map" => mapPosts' = << >>
           /\ crashed' # "list"
<1>1. Head(main).view \in Views
  BY TakesBlock DEF MapSnapshot, NextBlock, Block
<1>2. PICK s \in Seq(Entry) : s = mapPosts'
  BY <1>1, MapOrdersFacts DEF MapSnapshot
<1>3. pins' = {[tag |-> i - 1, entry |-> s[i]] : i \in 1 .. Len(s)}
  BY <1>2 DEF MapSnapshot
<1>4. \A i \in 1 .. Len(s) : i - 1 \in Nat /\ (i - 1) + 1 = i /\ s[i] \in Entry
  BY <1>2
<1>5. pins' \subseteq [tag : Nat, entry : Entry]
  BY <1>3, <1>4
<1>6. PinsMatch'
  <2>1. ASSUME NEW pin \in pins' PROVE pin.tag + 1 \in DOMAIN s /\ s[pin.tag + 1] = pin.entry
    <3>1. PICK i \in 1 .. Len(s) : pin = [tag |-> i - 1, entry |-> s[i]]
      BY <1>3
    <3>2. pin.tag = i - 1 /\ pin.entry = s[i] /\ DOMAIN s = 1 .. Len(s)
      BY <3>1
    <3> QED
      BY <1>4, <3>2
  <2> QED
    BY <1>2, <2>1 DEF PinsMatch
<1> QED
  BY <1>2, <1>5, <1>6 DEF MapSnapshot

LEMMA FeedTypeStep == FeedTypeOK /\ [Next]_vars => FeedTypeOK'
<1> SUFFICES ASSUME FeedTypeOK, [Next]_vars PROVE FeedTypeOK'
  OBVIOUS
<1>1. SmallTypeOK'
  <2>1. SmallTypeOK
    BY DEF FeedTypeOK, SmallTypeOK
  <2> QED
    BY <2>1, SmallTypeStep
<1>2. /\ view' \in Views /\ silent' \in [Screens -> Nat] /\ loud' \in [Screens -> Nat]
      /\ main' \in Seq(Block) /\ Len(main') <= MaxBlocks
  <2>1. CASE Arrives
    BY <2>1 DEF Arrives
  <2>2. CASE Takes \/ Stays
    BY <2>2 DEF Takes, Stays, sdkVars, FeedTypeOK
  <2> QED
    BY <2>1, <2>2, FeedStepKinds
<1>3. jobPosts' \in Seq(Entry) /\ NewestFirst(jobPosts')
  <2>1. CASE jobPosts' = jobPosts
    BY <2>1 DEF FeedTypeOK
  <2>2. CASE Takes /\ IsListSnapshot(main[1]) /\ jobPosts' = ListOf(main[1].view)
    BY <2>2, ListOfFacts DEF Takes, IsListSnapshot, Block
  <2> QED
    BY <2>1, <2>2, FeedStepKinds DEF Arrives, Takes, Stays, listVars
<1>4. rows' \in Seq(Entry)
  <2>1. CASE rows' = rows \/ rows' = jobPosts
    BY <2>1 DEF FeedTypeOK
  <2>2. CASE Touches
    BY <2>1, <2>2, CellFacts DEF Touches, FetchBlogPosts, FetchFails, PullToRefresh, TapRow, TapPin,
       vars, listVars
  <2> QED
    BY <2>1, <2>2, FeedStepKinds DEF Arrives, Takes, listVars
<1>5. mapPosts' \in Seq(Entry) /\ pins' \subseteq [tag : Nat, entry : Entry]
  <2>1. CASE UNCHANGED mapVars
    BY <2>1 DEF FeedTypeOK, mapVars
  <2>2. CASE MapSnapshot
    BY <2>2, MapSnapshotFacts
  <2> QED
    BY <2>1, <2>2, FeedStepKinds DEF Arrives, Takes, Stays
<1> QED
  BY <1>1, <1>2, <1>3, <1>4, <1>5 DEF FeedTypeOK, SmallTypeOK

\* FeedTypeOK: the list has each post once, the newest first, whatever the snapshots brought.
THEOREM FeedTypeCorrect == Spec => []FeedTypeOK
  BY FeedTypeInit, FeedTypeStep, PTL DEF Spec

-----------------------------------------------------------------------------
(* ShownOrOnItsWay *)

LEMMA ShownIs ==
    ASSUME FeedTypeOK, FeedTypeOK'
    PROVE  /\ ReloadDue <=> Reloads(main)
           /\ ShownOrOnItsWay <=> /\ rows = jobPosts \/ Reloads(main)
                                  /\ loud["list"] > 0 => OnItsWay(main, jobPosts, view)
           /\ ShownOrOnItsWay' <=> /\ rows' = jobPosts' \/ Reloads(main')
                                   /\ loud'["list"] > 0 => OnItsWay(main', jobPosts', view')
<1>1. DOMAIN main = 1 .. Len(main) /\ DOMAIN main' = 1 .. Len(main')
  BY DEF FeedTypeOK
<1> QED
  BY <1>1 DEF ShownOrOnItsWay, ReloadDue, Reloads, OnItsWay, IsListSnapshot

\* What a tap, a pull or a request changes of the rows.
LEMMA TouchedRows ==
    ASSUME FeedTypeOK, Touches
    PROVE  /\ rows = jobPosts => rows' = rows
           /\ Len(rows') = Len(rows)
  BY CellFacts DEF Touches, FetchBlogPosts, FetchFails, PullToRefresh, TapRow, TapPin, vars, listVars

LEMMA ShownStep ==
    ASSUME FeedTypeOK, FeedTypeOK', ShownOrOnItsWay, [Next]_vars
    PROVE  ShownOrOnItsWay'
<1>0. /\ main \in Seq(Block) /\ main' \in Seq(Block) /\ jobPosts \in Seq(Entry)
      /\ view \in Views /\ view' \in Views
  BY DEF FeedTypeOK
<1>1. CASE Arrives
  <2>1. Put(main, main', view') /\ jobPosts' = jobPosts /\ rows' = rows
    BY <1>1 DEF Arrives, listVars
  <2>2. rows' = jobPosts' \/ Reloads(main')
    BY <1>0, <2>1, PutKeeps, ShownIs
  <2>3. ASSUME loud'["list"] > 0 PROVE OnItsWay(main', jobPosts', view')
    BY <1>0, <1>1, <2>1, <2>3, PutKeeps, ShownIs DEF Arrives
  <2> QED
    BY <2>2, <2>3, ShownIs
<1>2. CASE Takes
  <2>1. Taken(main, main') /\ view' = view /\ loud' = loud
    BY <1>2 DEF Takes, sdkVars
  <2>2. CASE /\ IsListSnapshot(main[1]) /\ jobPosts' = ListOf(main[1].view)
             /\ rows' = rows /\ Reloads(main')
    BY <1>0, <2>1, <2>2, TakenByList, ShownIs
  <2>3. CASE /\ ~IsListSnapshot(main[1]) /\ jobPosts' = jobPosts
             /\ rows' = jobPosts \/ (rows' = rows /\ main[1].to # "table")
    BY <1>0, <2>1, <2>3, TakenKeeps, ShownIs
  <2> QED
    BY <1>2, <2>2, <2>3 DEF Takes
<1>3. CASE Touches /\ Stays
  BY <1>3, TouchedRows, ShownIs DEF Stays, sdkVars
<1> QED
  BY <1>1, <1>2, <1>3, FeedStepKinds

\* fetchBlogPosts and the didSet of jobPosts: no snapshot that the SDK raised is lost on its
\* way to the list, and no list on its way to the rows, in whatever order blocks, requests and
\* fingers come.
THEOREM ShownCorrect == Spec => []ShownOrOnItsWay
<1>1. Init => ShownOrOnItsWay
  BY DEF Init, ShownOrOnItsWay, Screens
<1>2. FeedTypeOK /\ FeedTypeOK' /\ ShownOrOnItsWay /\ [Next]_vars => ShownOrOnItsWay'
  BY ShownStep
<1> QED
  BY <1>1, <1>2, FeedTypeCorrect, PTL DEF Spec

-----------------------------------------------------------------------------
(* TapNeverOpensOlder and RowsInRange *)

LEMMA PinsStep ==
    ASSUME FeedTypeOK, PinsMatch, [Next]_vars
    PROVE  PinsMatch'
<1>1. CASE UNCHANGED mapVars
  BY <1>1 DEF PinsMatch, mapVars
<1>2. CASE MapSnapshot
  BY <1>2, MapSnapshotFacts
<1> QED
  BY <1>1, <1>2, FeedStepKinds DEF Arrives, Takes, Stays

\* Until a post vanishes each place gets later and later posts on the way from the rows to
\* the view: so neither a row beyond the list nor an older post has been looked up.
Growing ==
    ~vanished => /\ NoOlder(rows, jobPosts)
                 /\ Rising(main, jobPosts, view)
                 /\ crashed # "list" /\ ~astray

\* A cell that is filled from the list is in the place of that of the list.
LEMMA CellNoOlder ==
    ASSUME FeedTypeOK, NoOlder(rows, jobPosts), NEW i \in DOMAIN rows, CellForRow(i)
    PROVE  NoOlder(rows', jobPosts)
<1>1. PICK q \in Seq(Entry), s \in Seq(Entry) : q = jobPosts /\ s = rows
  BY DEF FeedTypeOK
<1>2. /\ Len(q) \in Nat /\ Len(s) \in Nat /\ DOMAIN q = 1 .. Len(q) /\ DOMAIN s = 1 .. Len(s)
      /\ Len(s) <= Len(q) /\ \A k \in 1 .. Len(s) : s[k].post <= q[k].post
  BY <1>1 DEF NoOlder
<1>3. i \in DOMAIN jobPosts /\ q[i] \in Entry
  BY <1>1, <1>2
<1>4. PICK z \in Seq(Entry) : z = rows' /\ Len(z) = Len(s)
                              /\ \A k \in 1 .. Len(s) : z[k] = IF k = i THEN q[i] ELSE s[k]
  <2>1. rows' = [s EXCEPT ![i] = q[i]] /\ i \in 1 .. Len(s)
    BY <1>1, <1>2, <1>3 DEF CellForRow
  <2>2. [s EXCEPT ![i] = q[i]] \in Seq(Entry) /\ Len([s EXCEPT ![i] = q[i]]) = Len(s)
    BY <1>3, <2>1, ExceptSeq
  <2>3. \A k \in 1 .. Len(s) : [s EXCEPT ![i] = q[i]][k] = IF k = i THEN q[i] ELSE s[k]
    BY <1>2
  <2> QED
    BY <2>1, <2>2, <2>3
<1>5. q[i].post <= q[i].post
  <2>1. \A k \in Nat : k <= k
    OBVIOUS
  <2> QED
    BY <1>3, <2>1, PostIsNumber
<1> QED
  BY <1>1, <1>2, <1>4, <1>5 DEF NoOlder

LEMMA GrowingStep ==
    ASSUME FeedTypeOK, FeedTypeOK', PinsMatch, Growing, [Next]_vars
    PROVE  Growing'
<1> SUFFICES ASSUME ~vanished'
             PROVE  /\ NoOlder(rows', jobPosts')
                    /\ Rising(main', jobPosts', view')
                    /\ crashed' # "list" /\ ~astray'
  BY DEF Growing
<1>0. /\ main \in Seq(Block) /\ main' \in Seq(Block)
      /\ jobPosts \in Seq(Entry) /\ jobPosts' \in Seq(Entry)
      /\ rows \in Seq(Entry) /\ rows' \in Seq(Entry)
      /\ view \in Views /\ view' \in Views
  BY DEF FeedTypeOK
<1>1. CASE Arrives
  <2>1. /\ Put(main, main', view') /\ jobPosts' = jobPosts /\ rows' = rows
        /\ crashed' = crashed /\ astray' = astray
        /\ ~vanished /\ Within(view, view')
    BY <1>1 DEF Arrives, listVars
  <2>2. NoOlder(rows, jobPosts) /\ Rising(main, jobPosts, view) /\ crashed # "list" /\ ~astray
    BY <2>1 DEF Growing
  <2>3. Rising(main', jobPosts, view')
    BY <1>0, <2>1, <2>2, PutKeeps
  <2> QED
    BY <2>1, <2>2, <2>3
<1>2. CASE Takes
  <2>1. Taken(main, main') /\ view' = view /\ ~vanished /\ astray' = astray
    BY <1>2 DEF Takes, sdkVars, envVars
  <2>2. NoOlder(rows, jobPosts) /\ Rising(main, jobPosts, view) /\ crashed # "list" /\ ~astray
    BY <2>1 DEF Growing
  <2>3. crashed' # "list"
    BY <1>2, <2>2, MapSnapshotFacts DEF Takes
  <2>4. CASE IsListSnapshot(main[1]) /\ jobPosts' = ListOf(main[1].view) /\ rows' = rows
    <3>1. Rising(main', jobPosts', view) /\ NoOlder(jobPosts, jobPosts')
      BY <1>0, <2>1, <2>2, <2>4, TakenByList
    <3>2. NoOlder(rows', jobPosts')
      BY <1>0, <2>2, <2>4, <3>1, NoOlderOrder
    <3> QED
      BY <2>1, <2>2, <2>3, <3>1, <3>2
  <2>5. CASE /\ ~IsListSnapshot(main[1]) /\ jobPosts' = jobPosts
             /\ rows' = jobPosts \/ rows' = rows
    <3>1. Rising(main', jobPosts, view)
      BY <1>0, <2>1, <2>2, <2>5, TakenKeeps
    <3>2. NoOlder(rows', jobPosts')
      BY <1>0, <2>2, <2>5, NoOlderOrder
    <3> QED
      BY <2>1, <2>2, <2>3, <2>5, <3>1, <3>2
  <2> QED
    BY <1>2, <2>4, <2>5 DEF Takes
<1>3. CASE Touches /\ Stays
  <2>1. main' = main /\ view' = view /\ jobPosts' = jobPosts /\ ~vanished
    BY <1>3 DEF Stays, sdkVars, envVars
  <2>2. NoOlder(rows, jobPosts) /\ Rising(main, jobPosts, view) /\ crashed # "list" /\ ~astray
    BY <2>1 DEF Growing
  <2>3. ASSUME NEW i \in DOMAIN rows
        PROVE  /\ i \in DOMAIN jobPosts /\ ~(jobPosts[i].post < rows[i].post)
               /\ i \in 1 .. Len(rows)
    <3>1. PICK q \in Seq(Entry), s \in Seq(Entry) : q = jobPosts /\ s = rows
      BY <1>0
    <3>2. /\ DOMAIN q = 1 .. Len(q) /\ DOMAIN s = 1 .. Len(s) /\ Len(q) \in Nat /\ Len(s) \in Nat
          /\ Len(s) <= Len(q) /\ s[i].post <= q[i].post
      BY <2>2, <3>1 DEF NoOlder
    <3>3. i \in 1 .. Len(q) /\ i \in 1 .. Len(s)
      BY <3>1, <3>2
    <3>4. s[i].post \in Nat /\ q[i].post \in Nat
      <4>1. s[i] \in Entry /\ q[i] \in Entry
        BY <3>3
      <4> QED
        BY <4>1, PostIsNumber
    <3>5. \A k \in Nat, l \in Nat : k <= l => ~(l < k)
      OBVIOUS
    <3>6. ~(q[i].post < s[i].post)
      BY <3>2, <3>4, <3>5
    <3> QED
      BY <3>1, <3>3, <3>6
  <2>4. ASSUME NEW i \in DOMAIN rows, CellForRow(i)
        PROVE  NoOlder(rows', jobPosts) /\ crashed' # "list" /\ ~astray'
    BY <2>2, <2>3, <2>4, CellNoOlder DEF CellForRow
  <2>5. ASSUME NEW i \in DOMAIN rows, TapRow(i)
        PROVE  rows' = rows /\ crashed' # "list" /\ ~astray'
    <3>1. ~astray'
      BY <2>2, <2>3, <2>5, Zenon DEF TapRow
    <3> QED
      BY <2>2, <2>3, <2>5, <3>1 DEF TapRow, listVars
  <2>6. ASSUME NEW pin \in pins, TapPin(pin)
        PROVE  rows' = rows /\ crashed' # "list" /\ ~astray'
    <3>1. pin.tag + 1 \in DOMAIN mapPosts /\ mapPosts[pin.tag + 1] = pin.entry
      BY DEF PinsMatch
    <3>2. ~(mapPosts[pin.tag + 1].post < pin.entry.post)
      <4>1. pin \in [tag : Nat, entry : Entry]
        BY DEF FeedTypeOK
      <4>2. pin.entry.post \in Nat
        BY <4>1, PostIsNumber
      <4>3. \A k \in Nat : ~(k < k)
        OBVIOUS
      <4> QED
        BY <3>1, <4>2, <4>3
    <3>3. ~astray'
      BY <2>2, <2>6, <3>1, <3>2, Zenon DEF TapPin
    <3> QED
      BY <2>2, <2>6, <3>1, <3>3 DEF TapPin, listVars
  <2>7. NoOlder(rows', jobPosts) /\ crashed' # "list" /\ ~astray'
    BY <1>3, <2>2, <2>4, <2>5, <2>6 DEF Touches, FetchBlogPosts, FetchFails, PullToRefresh,
       vars, listVars
  <2> QED
    BY <2>1, <2>2, <2>7
<1> QED
  BY <1>1, <1>2, <1>3, FeedStepKinds

\* The map has stopped for want of a post, and does nothing after that.
MapStops == crashed = "map" => mapPosts = << >>

LEMMA MapStopsStep ==
    ASSUME FeedTypeOK, PinsMatch, MapStops, [Next]_vars
    PROVE  MapStops'
<1>1. CASE UNCHANGED <<mapVars, crashed>>
  BY <1>1 DEF MapStops, mapVars
<1>2. CASE MapSnapshot
  BY <1>2, MapSnapshotFacts DEF MapStops
<1>3. ASSUME NEW i \in DOMAIN rows, CellForRow(i) \/ TapRow(i) PROVE MapStops'
  BY <1>3 DEF CellForRow, TapRow, MapStops, mapVars
<1>4. ASSUME NEW pin \in pins, TapPin(pin) PROVE MapStops'
  BY <1>4 DEF TapPin, PinsMatch, MapStops, mapVars
<1>5. CASE Touches
  BY <1>1, <1>3, <1>4, <1>5 DEF Touches, FetchBlogPosts, FetchFails, PullToRefresh, vars
<1> QED
  BY <1>1, <1>2, <1>5, FeedStepKinds DEF Arrives, Takes

LEMMA GrowingCorrect == Spec => []Growing
<1>1. Init => PinsMatch /\ Growing
  <2> SUFFICES ASSUME Init PROVE PinsMatch /\ Growing
    OBVIOUS
  <2>1. PinsMatch
    BY DEF Init, PinsMatch
  <2>2. /\ rows = << >> /\ jobPosts = << >> /\ Len(main) = 0 /\ view \in Views
        /\ crashed # "list" /\ ~astray
    BY DEF Init
  <2>3. ListOf(view) \in Seq(Entry)
    BY <2>2, ListOfFacts
  <2>4. ASSUME NEW t \in Seq(Entry) PROVE NoOlder(<< >>, t)
    BY DEF NoOlder
  <2>5. NoOlder(rows, jobPosts) /\ NoOlder(jobPosts, ListOf(view))
    <3>1. << >> \in Seq(Entry)
      OBVIOUS
    <3>2. NoOlder(<< >>, << >>) /\ NoOlder(<< >>, ListOf(view))
      BY <2>3, <2>4, <3>1
    <3> QED
      BY <2>2, <3>2
  <2> QED
    BY <2>1, <2>2, <2>5 DEF Growing, Rising
<1>2. FeedTypeOK /\ PinsMatch /\ [Next]_vars => PinsMatch'
  BY PinsStep
<1>3. FeedTypeOK /\ FeedTypeOK' /\ PinsMatch /\ Growing /\ [Next]_vars => Growing'
  BY GrowingStep
<1> QED
  BY <1>1, <1>2, <1>3, FeedTypeCorrect, PTL DEF Spec

\* prepare of the list and of the map: as long as no post has vanished, a tapped place opens
\* what is shown there or a later post that has pushed it down, never an older one, although
\* callbacks replace the arrays behind the table while its reload waits.
THEOREM TapsCorrect == Spec => []TapNeverOpensOlder
<1>1. Growing => TapNeverOpensOlder
  BY DEF Growing, TapNeverOpensOlder
<1> QED
  BY <1>1, GrowingCorrect, PTL

\* cellForRowAt, prepare and setupAnnotations: while no post vanishes no row is looked up
\* beyond the list, and the map only stops when it is handed no post at all.
THEOREM RowsCorrect == Spec => []RowsInRange
<1>1. Init => PinsMatch /\ MapStops
  BY DEF Init, PinsMatch, MapStops
<1>2. FeedTypeOK /\ PinsMatch /\ [Next]_vars => PinsMatch'
  BY PinsStep
<1>3. FeedTypeOK /\ PinsMatch /\ MapStops /\ [Next]_vars => MapStops'
  BY MapStopsStep
<1>4. Growing /\ MapStops => RowsInRange
  BY DEF Growing, MapStops, RowsInRange
<1> QED
  BY <1>1, <1>2, <1>3, <1>4, GrowingCorrect, FeedTypeCorrect, PTL DEF Spec
=============================================================================
