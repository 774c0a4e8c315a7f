----------------------------- MODULE ToolsProofs -----------------------------
(***************************************************************************)
(* The two tools, for every input.  Listing: what is traced, what follows   *)
(* it, and what its lines say to the assembler.  Assembler: what its words   *)
(* say to the disassembler, and where its labels and branches go.           *)
(***************************************************************************)
EXTENDS Listing, Assembler, FiniteSetTheorems, Induction

----------------------------------------------------------------------------
(* Worklists. *)

\* Entries with words of a set.
Entries(J) == [word : J, how : {"entry", "branch", "fall"}, hops : Nat]

Words(list) == {list[k].word : k \in 1..Len(list)}

\* A worklist holds loaded words, each once, that are marked as visited.
Queues == [visited : SUBSET Loaded, list : Seq(Entries(Loaded))]

Tidy(q) ==
  /\ q \in Queues
  /\ Words(q.list) \subseteq q.visited
  /\ \A j, k \in 1..Len(q.list) : q.list[j].word = q.list[k].word => j = k

\* What r has that q has not are the words of W.
Grown(q, r, W) ==
  /\ Tidy(r)
  /\ r.visited = q.visited \cup (W \cap Loaded)
  /\ Words(r.list) = Words(q.list) \cup (r.visited \ q.visited)

\* The words of a list with one more.
LEMMA WordsOfAppend ==
  ASSUME NEW J, NEW list \in Seq(Entries(J)), NEW e \in Entries(J)
  PROVE  /\ Append(list, e) \in Seq(Entries(J))
         /\ Words(Append(list, e)) = Words(list) \cup {e.word}
<1> DEFINE a == Append(list, e)
<1>1. /\ a \in Seq(Entries(J))
      /\ Len(list) \in Nat
      /\ Len(a) = Len(list) + 1
      /\ \A k \in 1..Len(list) : a[k] = list[k]
      /\ a[Len(list) + 1] = e
  OBVIOUS
<1> HIDE DEF a
<1>2. 1..Len(list) + 1 = (1..Len(list)) \cup {Len(list) + 1}
  BY <1>1
<1>3. Words(a) = Words(list) \cup {e.word}
  BY <1>1, <1>2 DEF Words
<1> QED  BY <1>1, <1>3 DEF a

\* Pushing an entry.
LEMMA Push ==
  ASSUME NEW J, NEW q, Tidy(q), NEW e \in Entries(J)
  PROVE  Grown(q, wl_push(q, e), {e.word})
<1>1. /\ q.visited \subseteq Loaded
      /\ q.list \in Seq(Entries(Loaded))
      /\ q = [visited |-> q.visited, list |-> q.list]
      /\ Len(q.list) \in Nat
  BY DEF Tidy, Queues
<1>2. CASE e.word \notin Loaded \/ e.word \in q.visited
  <2>1. wl_push(q, e) = q
    BY <1>2 DEF wl_push
  <2>2. q.visited \cup ({e.word} \cap Loaded) = q.visited
    BY <1>2
  <2> QED  BY <2>1, <2>2 DEF Grown
<1>3. CASE e.word \in Loaded \ q.visited
  <2> DEFINE r == wl_push(q, e)
  <2>1. r = [visited |-> q.visited \cup {e.word}, list |-> Append(q.list, e)]
    BY <1>3 DEF wl_push
  <2>2. e \in Entries(Loaded)
    BY <1>3 DEF Entries
  <2>3. /\ r.list \in Seq(Entries(Loaded))
        /\ Words(r.list) = Words(q.list) \cup {e.word}
        /\ r.visited = q.visited \cup {e.word}
        /\ r \in Queues
    <3>1. /\ Append(q.list, e) \in Seq(Entries(Loaded))
          /\ Words(Append(q.list, e)) = Words(q.list) \cup {e.word}
      BY <1>1, <2>2, WordsOfAppend
    <3> HIDE DEF r
    <3> QED  BY <1>1, <1>3, <2>1, <3>1 DEF Queues
  <2>4. \A j, k \in 1..Len(r.list) : r.list[j].word = r.list[k].word => j = k
    <3>1. /\ Len(r.list) = Len(q.list) + 1
          /\ \A k \in 1..Len(q.list) : r.list[k] = q.list[k]
          /\ r.list[Len(q.list) + 1] = e
      BY <1>1, <2>1, <2>2
    <3>2. \A k \in 1..Len(q.list) : r.list[k].word \in q.visited
      BY <3>1 DEF Tidy, Words
    <3>3. \A k \in 1..Len(q.list) : r.list[k].word # e.word
      BY <3>2, <1>3
    <3> HIDE DEF r
    <3> QED  BY <1>1, <3>1, <3>3 DEF Tidy
  <2>5. Words(r.list) \subseteq r.visited
    BY <2>3 DEF Tidy
  <2> HIDE DEF r
  <2>6. Tidy(r)
    BY <2>3, <2>4, <2>5 DEF Tidy
  <2>7. r.visited \ q.visited = {e.word}
    BY <2>3, <1>3
  <2>8. r.visited = q.visited \cup ({e.word} \cap Loaded)
    BY <2>3, <1>3
  <2> QED  BY <2>3, <2>6, <2>7, <2>8 DEF Grown, r
<1> QED  BY <1>2, <1>3

\* Growing twice.
LEMMA GrownTwice ==
  ASSUME NEW q, NEW r, NEW s, NEW W, NEW X, q \in Queues,
         Grown(q, r, W), Grown(r, s, X)
  PROVE  Grown(q, s, W \cup X)
<1>1. /\ Tidy(s)
      /\ r.visited = q.visited \cup (W \cap Loaded)
      /\ s.visited = r.visited \cup (X \cap Loaded)
      /\ Words(r.list) = Words(q.list) \cup (r.visited \ q.visited)
      /\ Words(s.list) = Words(r.list) \cup (s.visited \ r.visited)
  BY DEF Grown
<1>2. s.visited = q.visited \cup ((W \cup X) \cap Loaded)
  BY <1>1
<1>3. Words(s.list) = Words(q.list) \cup (s.visited \ q.visited)
  BY <1>1
<1> QED  BY <1>1, <1>2, <1>3 DEF Grown

\* Pushing a sequence of entries.
LEMMA PushAll ==
  ASSUME NEW J, NEW q, Tidy(q), NEW es \in Seq(Entries(J))
  PROVE  Grown(q, Queued(q, es), Words(es))
<1> DEFINE N == Len(es)
           V == {r \in Queues : Tidy(r)}
           step == [p \in V \X (1..N) |-> wl_push(p[1], es[p[2]])]
           IsTable(f) == f = [n \in 0..N |-> IF n = 0 THEN q
                                ELSE wl_push(f[n - 1], es[n])]
           table == CHOOSE f : IsTable(f)
<1>0. /\ N \in Nat
      /\ \A n \in 1..N : es[n] \in Entries(J)
      /\ q \in V /\ q \in Queues
  BY DEF Tidy
<1>1. ASSUME NEW r \in V, NEW n \in 1..N PROVE Grown(r, wl_push(r, es[n]), {es[n].word})
  BY <1>0, Push
<1>2. step \in [V \X (1..N) -> V]
  <2>1. \A p \in V \X (1..N) : wl_push(p[1], es[p[2]]) \in V
    BY <1>1 DEF Grown, Tidy
  <2> HIDE DEF V
  <2> QED  BY <2>1
<1>3. \E f : IsTable(f)
  <2>0. PICK f : Follows(f, V, q, step, N)
    <3>1. q \in V /\ step \in Steps(V, N)
      BY <1>0, <1>2 DEF Steps
    <3> HIDE DEF step, N, V
    <3> QED  BY <1>0, <3>1, Recursion
  <2>1. /\ f \in [0..N -> V]
        /\ f[0] = q
        /\ \A n \in 1..N : f[n] = step[<<f[n - 1], n>>]
    <3> HIDE DEF step, N, V
    <3> QED  BY <2>0 DEF Follows
  <2>2. \A n \in 1..N : f[n] = wl_push(f[n - 1], es[n])
    <3> TAKE n \in 1..N
    <3>1. f[n - 1] \in V
      <4> HIDE DEF N, V
      <4> QED  BY <1>0, <2>1
    <3>2. step[<<f[n - 1], n>>] = wl_push(f[n - 1], es[n])
      <4> HIDE DEF V, N
      <4> QED  BY <3>1
    <3> HIDE DEF step, N, V
    <3> QED  BY <2>1, <3>2
  <2>3. IsTable(f)
    <3> HIDE DEF N, V
    <3> QED  BY <1>0, <2>1, <2>2
  <2> QED  BY <2>3
<1>4. /\ table[0] = q
      /\ \A n \in 0..N - 1 : table[n + 1] = wl_push(table[n], es[n + 1])
  <2>1. table = [n \in 0..N |-> IF n = 0 THEN q
                                ELSE wl_push(table[n - 1], es[n])]
    BY <1>3
  <2> HIDE DEF table, N
  <2> QED  BY <2>1, <1>0
<1>5. Queued(q, es) = table[N]
  BY DEF Queued
<1> DEFINE Pushed(n) == {es[k].word : k \in 1..n}
           Good == {n \in 0..N : Grown(q, table[n], Pushed(n))}
<1>6. 0 \in Good
  <2>1. Pushed(0) = {}
    OBVIOUS
  <2> HIDE DEF table, N, Pushed
  <2> QED  BY <1>0, <1>4, <2>1 DEF Grown
<1>7. ASSUME NEW n \in 0..N - 1, n \in Good PROVE n + 1 \in Good
  <2>1. /\ Grown(q, table[n], Pushed(n))
        /\ n + 1 \in 1..N
        /\ n + 1 \in 0..N
        /\ 1..n + 1 = (1..n) \cup {n + 1}
        /\ table[n + 1] = wl_push(table[n], es[n + 1])
    <3> HIDE DEF table, N, Pushed
    <3> QED  BY <1>0, <1>4, <1>7
  <2>2. Pushed(n + 1) = Pushed(n) \cup {es[n + 1].word}
    BY <2>1
  <2>3. table[n] \in V
    <3> HIDE DEF table
    <3> QED  BY <2>1 DEF Grown, Tidy
  <2>4. Grown(table[n], table[n + 1], {es[n + 1].word})
    <3> HIDE DEF table, N, V
    <3> QED  BY <2>1, <2>3, <1>1
  <2>5. Grown(q, table[n + 1], Pushed(n) \cup {es[n + 1].word})
    <3> HIDE DEF table, N, V, Pushed
    <3> QED  BY <1>0, <2>1, <2>4, GrownTwice
  <2> QED  BY <2>1, <2>2, <2>5
<1>8. N \in Good
  <2>1. N \in Nat /\ 0 \in Good /\ \A n \in 0..N - 1 : n \in Good => n + 1 \in Good
    <3> HIDE DEF Good, N
    <3> QED  BY <1>0, <1>6, <1>7
  <2>2. 0..N \subseteq Good
    <3> HIDE DEF Good, N
    <3> QED  BY <2>1, RangeInduction
  <2> HIDE DEF Good, N
  <2> QED  BY <2>1, <2>2
<1>9. Words(es) = Pushed(N)
  BY DEF Words
<1> HIDE DEF table, N, Pushed
<1> QED  BY <1>5, <1>8, <1>9

----------------------------------------------------------------------------
(* The entries. *)

\* Adding entries makes a sequence.
LEMMA EnteredType ==
  ASSUME NEW J, NEW es \in Seq(J), NEW more \in Seq(J)
  PROVE  Entered(es, more) \in Seq(J)
<1> DEFINE N == Len(more)
           V == Seq(J)
           added(r, n) == IF more[n] \in {r[k] : k \in 1..Len(r)} THEN r
                          ELSE Append(r, more[n])
           step == [p \in V \X (1..N) |-> added(p[1], p[2])]
           IsTable(f) == f = [n \in 0..N |-> IF n = 0 THEN es ELSE added(f[n - 1], n)]
           table == CHOOSE f : IsTable(f)
<1>0. N \in Nat /\ \A n \in 1..N : more[n] \in J
  OBVIOUS
<1>1. ASSUME NEW r \in V, NEW n \in 1..N PROVE added(r, n) \in V
  BY <1>0
<1>2. step \in Steps(V, N)
  <2>1. \A p \in V \X (1..N) : added(p[1], p[2]) \in V
    BY <1>1
  <2> HIDE DEF V, N, added
  <2> QED  BY <2>1 DEF Steps
<1>3. PICK f : Follows(f, V, es, step, N)
  <2>1. es \in V /\ N \in Nat
    BY <1>0
  <2> HIDE DEF step, N, V
  <2> QED  BY <1>2, <2>1, Recursion
<1>4. /\ f \in [0..N -> V]
      /\ f[0] = es
      /\ \A n \in 1..N : f[n] = step[<<f[n - 1], n>>]
  <2> HIDE DEF step, N, V
  <2> QED  BY <1>3 DEF Follows
<1>5. \A n \in 1..N : f[n] = added(f[n - 1], n)
  <2> TAKE n \in 1..N
  <2>1. f[n - 1] \in V
    <3> HIDE DEF N, V
    <3> QED  BY <1>0, <1>4
  <2>2. step[<<f[n - 1], n>>] = added(f[n - 1], n)
    <3> HIDE DEF V, N, added
    <3> QED  BY <2>1
  <2> HIDE DEF step, N, V, added
  <2> QED  BY <1>4, <2>2
<1>6. IsTable(f)
  <2> HIDE DEF N, V, added
  <2> QED  BY <1>0, <1>4, <1>5
<1>7. IsTable(table)
  <2> HIDE DEF added, N
  <2> QED  BY <1>6
<1>8. Entered(es, more) = table[N]
  BY DEF Entered
<1> DEFINE Good == {n \in 0..N : table[n] \in V}
<1>9. 0 \in Good
  <2>1. table[0] = es
    <3> HIDE DEF table, N, added
    <3> QED  BY <1>0, <1>7
  <2> QED  BY <1>0, <2>1
<1>10. ASSUME NEW n \in 0..N - 1, n \in Good PROVE n + 1 \in Good
  <2>1. /\ n + 1 \in 1..N /\ n + 1 \in 0..N /\ n + 1 # 0 /\ n + 1 - 1 = n
        /\ table[n] \in V
    <3> HIDE DEF table, V, N
    <3> QED  BY <1>0, <1>10
  <2>2. table[n + 1] = added(table[n], n + 1)
    <3> DEFINE k == n + 1
    <3>1. k \in 0..N /\ k # 0 /\ k - 1 = n
      <4> HIDE DEF N
      <4> QED  BY <2>1
    <3> HIDE DEF table, N, added, k
    <3>2. table[k] = added(table[k - 1], k)
      BY <1>7, <3>1
    <3> QED  BY <3>1, <3>2 DEF k
  <2>3. added(table[n], n + 1) \in V
    <3> HIDE DEF table, N, V, added
    <3> QED  BY <2>1, <1>1
  <2> HIDE DEF table, N, V, added
  <2> QED  BY <2>1, <2>2, <2>3
<1>11. 0..N \subseteq Good
  <2> HIDE DEF Good, N
  <2> QED  BY <1>0, <1>9, <1>10, RangeInduction
<1> HIDE DEF table, N
<1> QED  BY <1>0, <1>8, <1>11

\* The entries are a sequence.
LEMMA EntriesType ==
  ASSUME NEW im \in Images, NEW p, NEW modules \in SUBSET DOMAIN im,
         IsFiniteSet(DOMAIN p)
  PROVE  \E J : InitialEntries(im, p, modules) \in Seq(J)
<1> DEFINE a == [n \in 1..Cardinality(DOMAIN p) |-> Idx(p[n].P)]
           b == Ascending(modules)
           J == {a[n] : n \in 1..Cardinality(DOMAIN p)}
                  \cup {b[n] : n \in 1..Cardinality(modules)} \cup {0}
           sections == Entered(<<>>, a)
           all == Entered(sections, b)
<1>1. Cardinality(DOMAIN p) \in Nat
  BY FS_CardinalityType
<1>2. Cardinality(modules) \in Nat
  <2>1. IsFiniteSet(DOMAIN im)
    BY ImagesAssumption
  <2> QED  BY <2>1, FS_Subset, FS_CardinalityType
<1>3. a \in Seq(J)
  <2>1. \A n \in 1..Cardinality(DOMAIN p) : a[n] \in J
    OBVIOUS
  <2>2. a = [n \in 1..Cardinality(DOMAIN p) |-> a[n]]
    OBVIOUS
  <2> HIDE DEF a, J
  <2> QED  BY <1>1, <2>1, <2>2
<1>4. b \in Seq(J)
  <2>1. \A n \in 1..Cardinality(modules) : b[n] \in J
    OBVIOUS
  <2>2. b = [n \in 1..Cardinality(modules) |-> b[n]]
    <3> DEFINE c(k) == CHOOSE x \in modules :
                          Cardinality({y \in modules : y < x}) = k - 1
    <3>1. b = [k \in 1..Cardinality(modules) |-> c(k)]
      BY DEF Ascending
    <3> HIDE DEF c, b
    <3> QED  BY <3>1
  <2> HIDE DEF b, J
  <2> QED  BY <1>2, <2>1, <2>2
<1>5. sections \in Seq(J)
  <2>1. <<>> \in Seq(J)
    OBVIOUS
  <2> HIDE DEF a, J
  <2> QED  BY <1>3, <2>1, EnteredType
<1>6. all \in Seq(J)
  <2> HIDE DEF b, J, sections
  <2> QED  BY <1>4, <1>5, EnteredType
<1>7. <<0>> \in Seq(J)
  <2>1. 0 \in J
    OBVIOUS
  <2> HIDE DEF J
  <2> QED  BY <2>1
<1>8. InitialEntries(im, p, modules) \in {<<0>>, all}
  BY DEF InitialEntries
<1> HIDE DEF J, all
<1> QED  BY <1>6, <1>7, <1>8

\* The worklist a pass starts with.
LEMMA PassStarts ==
  ASSUME NEW J, entries \in Seq(J)
  PROVE  /\ Tidy(StartOfPass)
         /\ StartOfPass.visited = Words(StartOfPass.list)
<1> DEFINE q == [visited |-> {}, list |-> <<>>]
           es == [k \in 1..Len(entries) |-> Entry(entries[k], "entry", 0)]
<1>1. Tidy(q) /\ Words(q.list) = {}
  BY DEF Tidy, Queues, Words
<1>2. es \in Seq(Entries(J))
  <2>1. Len(entries) \in Nat /\ \A k \in 1..Len(entries) : entries[k] \in J
    OBVIOUS
  <2>2. \A k \in 1..Len(entries) : es[k] \in Entries(J)
    BY <2>1 DEF Entries, Entry
  <2>3. es = [k \in 1..Len(entries) |-> es[k]]
    OBVIOUS
  <2> HIDE DEF es
  <2> QED  BY <2>1, <2>2, <2>3
<1>3. StartOfPass = Queued(q, es)
  BY DEF StartOfPass
<1>4. Grown(q, StartOfPass, Words(es))
  <2> HIDE DEF q, es
  <2> QED  BY <1>1, <1>2, <1>3, PushAll
<1>5. q.visited = {}
  OBVIOUS
<1> HIDE DEF q, es
<1> QED  BY <1>1, <1>4, <1>5 DEF Grown

----------------------------------------------------------------------------
(* What follows a word. *)

\* A loaded word.
LEMMA LoadedWord ==
  ASSUME image \in Images, NEW i \in Loaded
  PROVE  /\ i \in Nat /\ i < 32768
         /\ image[i] \in Nat /\ image[i] < 65536
BY ImagesAssumption DEF Loaded

\* The words of two lists.
LEMMA WordsOfConcat ==
  ASSUME NEW J, NEW a \in Seq(Entries(J)), NEW b \in Seq(Entries(J))
  PROVE  /\ a \o b \in Seq(Entries(J))
         /\ Words(a) \subseteq Words(a \o b)
         /\ Words(b) \subseteq Words(a \o b)
<1> DEFINE c == a \o b
<1>1. /\ c \in Seq(Entries(J))
      /\ Len(a) \in Nat /\ Len(b) \in Nat
      /\ Len(c) = Len(a) + Len(b)
      /\ \A k \in 1..Len(a) : c[k] = a[k]
      /\ \A k \in 1..Len(b) : c[Len(a) + k] = b[k]
  OBVIOUS
<1>2. /\ \A k \in 1..Len(a) : k \in 1..Len(c)
      /\ \A k \in 1..Len(b) : Len(a) + k \in 1..Len(c)
  <2> HIDE DEF c
  <2> QED  BY <1>1
<1> HIDE DEF c
<1>3. Words(a) \subseteq Words(c)
  BY <1>1, <1>2 DEF Words
<1>4. Words(b) \subseteq Words(c)
  BY <1>1, <1>2 DEF Words
<1> QED  BY <1>1, <1>3, <1>4 DEF c

\* A list of one entry, or of the entry of an address that may be unknown.
To(a) == IF a = NONE THEN <<>> ELSE <<Entry(Idx(a), "branch", 0)>>

LEMMA OneEntry ==
  ASSUME NEW J, NEW j \in J, NEW how \in {"entry", "branch", "fall"}, NEW hops \in Nat
  PROVE  /\ <<Entry(j, how, hops)>> \in Seq(Entries(J))
         /\ j \in Words(<<Entry(j, how, hops)>>)
<1> DEFINE e == Entry(j, how, hops)
<1>1. e \in Entries(J) /\ e.word = j
  BY DEF Entries, Entry
<1> HIDE DEF e
<1>2. <<e>> \in Seq(Entries(J)) /\ Len(<<e>>) = 1 /\ <<e>>[1] = e
  BY <1>1
<1>3. 1 \in 1..Len(<<e>>) /\ <<e>>[1].word = j
  BY <1>1, <1>2
<1>4. j \in Words(<<e>>)
  BY <1>3 DEF Words
<1> QED  BY <1>2, <1>4 DEF e

LEMMA ToType ==
  ASSUME NEW J, NEW a, a # NONE => Idx(a) \in J
  PROVE  /\ To(a) \in Seq(Entries(J))
         /\ a # NONE => Idx(a) \in Words(To(a))
<1>1. CASE a = NONE
  BY <1>1 DEF To
<1>2. CASE a # NONE
  <2>1. Idx(a) \in J /\ "branch" \in {"entry", "branch", "fall"} /\ 0 \in Nat
    BY <1>2
  <2>2. To(a) = <<Entry(Idx(a), "branch", 0)>>
    BY <1>2 DEF To
  <2> QED  BY <2>1, <2>2, OneEntry
<1> QED  BY <1>1, <1>2

\* The jump table after a word.
LEMMA TableType ==
  ASSUME image \in Images, NEW i \in Loaded, NEW m
  PROVE  \E J : /\ {i + 1, Idx(compute_operand(i, m).ea),
                    Idx(compute_operand(i, m).callee)} \subseteq J
                /\ TableEntries(i, m) \in Seq(Entries(J))
<1> DEFINE length == IF IsBrx(image[i]) THEN Cardinality(brx_table(i, m)) ELSE 0
           J == {i + k : k \in 1..length}
                  \cup {i + 1, Idx(compute_operand(i, m).ea),
                        Idx(compute_operand(i, m).callee)}
           t == [k \in 1..length |-> Entry(i + k, "branch", 0)]
<1>1. length \in Nat
  <2>1. IsFiniteSet(Loaded) /\ brx_table(i, m) \subseteq Loaded
    BY ImagesAssumption DEF Loaded, brx_table
  <2>2. Cardinality(brx_table(i, m)) \in Nat
    BY <2>1, FS_Subset, FS_CardinalityType
  <2> QED  BY <2>2
<1>2. TableEntries(i, m) = t
  BY DEF TableEntries
<1>3. \A k \in 1..length : t[k] \in Entries(J)
  <2> HIDE DEF length
  <2> QED  BY DEF Entries, Entry
<1>4. t \in Seq(Entries(J))
  <2>1. t = [k \in 1..length |-> t[k]]
    OBVIOUS
  <2> HIDE DEF t, J, length
  <2> QED  BY <1>1, <1>3, <2>1
<1>5. {i + 1, Idx(compute_operand(i, m).ea), Idx(compute_operand(i, m).callee)}
        \subseteq J
  OBVIOUS
<1> HIDE DEF J, t
<1> QED  BY <1>2, <1>4, <1>5

\* What get_successors returns.
LEMMA Successors ==
  ASSUME image \in Images, NEW i \in Loaded, NEW hops \in Nat, NEW m, NEW J,
         {i + 1, Idx(compute_operand(i, m).ea), Idx(compute_operand(i, m).callee)}
           \subseteq J
  PROVE  /\ get_successors(i, hops, m) \in Seq(Entries(J))
         /\ /\ Valid(image[i]) /\ ~insn_ret(image[i])
            /\ ~IsBranch(image[i]) \/ goes_on(i, m)
            => i + 1 \in Words(get_successors(i, hops, m))
         /\ /\ Valid(image[i]) /\ ~insn_ret(image[i])
            /\ IsBranch(image[i]) /\ ~IsBrx(image[i])
            /\ compute_operand(i, m).ea # NONE
            => Idx(compute_operand(i, m).ea) \in Words(get_successors(i, hops, m))
<1> DEFINE w == image[i]
           o == compute_operand(i, m)
           next == <<Entry(i + 1, "fall", hops + 1)>>
           S == get_successors(i, hops, m)
<1>1. /\ next \in Seq(Entries(J))
      /\ i + 1 \in Words(next)
  <2>1. i + 1 \in J /\ "fall" \in {"entry", "branch", "fall"} /\ hops + 1 \in Nat
    OBVIOUS
  <2> QED  BY <2>1, OneEntry
<1>2. /\ To(o.ea) \in Seq(Entries(J))
      /\ o.ea # NONE => Idx(o.ea) \in Words(To(o.ea))
  <2>1. Idx(o.ea) \in J
    OBVIOUS
  <2> QED  BY <2>1, ToType
<1>3. To(o.callee) \in Seq(Entries(J))
  <2>1. Idx(o.callee) \in J
    OBVIOUS
  <2> QED  BY <2>1, ToType
<1>4. <<>> \in Seq(Entries(J))
  OBVIOUS
<1>5. S = IF ~Valid(w) \/ insn_ret(w) THEN <<>>
          ELSE IF IsBranch(w)
            THEN (IF goes_on(i, m) THEN next ELSE <<>>)
                   \o (IF IsBrx(w) THEN <<>> ELSE To(o.ea))
          ELSE IF IsCall(w) THEN next \o To(o.callee)
          ELSE next
  BY DEF get_successors, To
<1> HIDE DEF w, o, next, S
<1>6. CASE ~Valid(w) \/ insn_ret(w)
  BY <1>4, <1>5, <1>6 DEF w, S, o
<1>7. CASE Valid(w) /\ ~insn_ret(w) /\ IsBranch(w)
  <2> DEFINE a == IF goes_on(i, m) THEN next ELSE <<>>
             b == IF IsBrx(w) THEN <<>> ELSE To(o.ea)
  <2>1. a \in Seq(Entries(J)) /\ b \in Seq(Entries(J))
    BY <1>1, <1>2, <1>4
  <2>2. S = a \o b
    BY <1>5, <1>7
  <2>3. goes_on(i, m) => i + 1 \in Words(a)
    BY <1>1
  <2>4. ~IsBrx(w) /\ o.ea # NONE => Idx(o.ea) \in Words(b)
    BY <1>2
  <2> HIDE DEF a, b
  <2>5. S \in Seq(Entries(J)) /\ Words(a) \subseteq Words(S) /\ Words(b) \subseteq Words(S)
    BY <2>1, <2>2, WordsOfConcat
  <2>6. goes_on(i, m) => i + 1 \in Words(S)
    BY <2>3, <2>5
  <2>7. ~IsBrx(w) /\ o.ea # NONE => Idx(o.ea) \in Words(S)
    BY <2>4, <2>5
  <2> QED  BY <1>7, <2>5, <2>6, <2>7 DEF w, S, o
<1>8. CASE Valid(w) /\ ~insn_ret(w) /\ ~IsBranch(w)
  <2>1. S = next \/ S = next \o To(o.callee)
    BY <1>5, <1>8
  <2>2. S \in Seq(Entries(J)) /\ Words(next) \subseteq Words(S)
    BY <1>1, <1>3, <2>1, WordsOfConcat
  <2>3. i + 1 \in Words(S)
    BY <1>1, <2>2
  <2> QED  BY <1>8, <2>2, <2>3 DEF w, S, o
<1> QED  BY <1>6, <1>7, <1>8 DEF w, S, o

\* A word that ends the flow for the listing ends it for the CPU.
LEMMA ReturnsEnd ==
  ASSUME NEW w \in Nat, w < 65536, insn_ret(w), HexCode(w) = 15
  PROVE  Executed(w) \in {"RTS", "RSV", "DIT", "DITR"}
<1>1. /\ Disp(w) \in Nat
      /\ Disp(w) < 256
      /\ w # 0
      /\ ~Group1(w) /\ ~Group2(w) /\ ~Branch(w)
  BY DEF Disp, HexCode, Group1, Group2, Branch
<1> DEFINE d == Disp(w)
<1>2. CASE Sub(w) = 12 /\ d \div 32 = 1
  <2>1. Executed(w) = shc_names[1 + d \div 32]
    BY <1>1, <1>2 DEF Executed
  <2>2. shc_names[1 + d \div 32] = "DITR"
    BY <1>2 DEF shc_names
  <2> QED  BY <2>1, <2>2
<1>3. CASE Sub(w) = 1 /\ d \div 2 \in {0, 6}
  <2>1. Executed(w) = register_name(d)
    BY <1>1, <1>3 DEF Executed
  <2>2. (d % 32) \div 2 \in {0, 6}
    <3> HIDE DEF d
    <3>1. d \in {0, 1, 12, 13}
      BY <1>1, <1>3 DEF d
    <3> QED  BY <3>1
  <2>3. register_name(d) \in {"RTS", "RSV"}
    <3> HIDE DEF d
    <3>1. CASE (d % 32) \div 2 = 0
      BY <3>1 DEF register_name, srg_names
    <3>2. CASE (d % 32) \div 2 = 6
      BY <3>2 DEF register_name, srg_names
    <3> QED  BY <2>2, <3>1, <3>2
  <2> QED  BY <2>1, <2>3
<1>4. CASE Sub(w) = 4 /\ d = 1
  <2>1. Executed(w) = control_name(d % 16)
    BY <1>1, <1>4 DEF Executed
  <2>2. d % 16 = 1
    BY <1>4
  <2>3. control_name(1) = "DIT"
    BY DEF control_name, control_names
  <2> QED  BY <2>1, <2>2, <2>3
<1> QED  BY <1>2, <1>3, <1>4 DEF insn_ret

\* A branch relative to its own word.
LEMMA RelativeBranch ==
  ASSUME image \in Images, NEW i \in Loaded, NEW m, HexCode(image[i]) = 12,
         NEW target \in Loaded,
         target = IF decode_insn(image[i]).mode = "RP" THEN i + Disp(image[i])
                  ELSE i - Disp(image[i])
  PROVE  /\ Valid(image[i]) /\ ~insn_ret(image[i]) /\ IsBranch(image[i])
         /\ compute_operand(i, m).ea # NONE
         /\ Idx(compute_operand(i, m).ea) = target
<1> DEFINE w == image[i]
           d == Disp(w)
<1>1. /\ i \in Nat /\ i < 32768
      /\ w \in Nat /\ w < 65536
      /\ target \in Nat /\ target < 32768
  BY LoadedWord
<1>2. d \in Nat /\ d < 256
  BY <1>1 DEF Disp
<1>3. Branch(w) /\ ~System(w) /\ ~Group1(w) /\ ~Group2(w)
  BY DEF Branch, System, Group1, Group2
<1>4. insn_class(w) = "branch"
  BY <1>3 DEF insn_class
<1>5. ModeName(w) = IF Sub(w) >= 8 THEN "RM" ELSE "RP"
  BY <1>3 DEF ModeName
<1>6. insn_op(w) # "none"
  <2>1. insn_op(w) = group4_opnames[1 + (Sub(w) % 8)]
    BY <1>3 DEF insn_op
  <2>2. Sub(w) % 8 \in 0..7
    <3>1. Sub(w) \in Nat
      BY <1>1 DEF Sub
    <3> QED  BY <3>1
  <2>3. \A k \in 0..7 : group4_opnames[1 + k] # "none"
    BY DEF group4_opnames
  <2> QED  BY <2>1, <2>2, <2>3
<1>7. ~insn_ret(w)
  BY <1>3 DEF insn_ret
<1> DEFINE insn == decode_insn(w)
<1>8. insn.class = "branch" /\ insn.mode = ModeName(w)
  BY <1>4 DEF decode_insn
<1>9. compute_operand(i, m).ea = direct(insn, i, d)
  <2> HIDE DEF insn, w, d
  <2>1. compute_operand(i, m) = operand_of(insn, i, d, m)
    BY DEF compute_operand, insn, w, d
  <2>2. insn.mode \notin {"IL", "ILX", "IG", "IGX"}
    BY <1>5, <1>8
  <2> QED  BY <2>1, <2>2 DEF operand_of
<1>10. direct(insn, i, d) = 2 * target
  <2> HIDE DEF insn, w, d
  <2>1. CASE insn.mode = "RP"
    <3>1. target = i + d
      BY <2>1 DEF insn, w, d
    <3>2. direct(insn, i, d) = (2 * i + 2 * d) % 65536
      BY <1>8, <2>1 DEF direct
    <3> QED  BY <1>1, <1>2, <3>1, <3>2
  <2>2. CASE insn.mode = "RM"
    <3>1. target = i - d
      BY <2>2 DEF insn, w, d
    <3>2. direct(insn, i, d) = (2 * i - 2 * d) % 65536
      BY <1>8, <2>2 DEF direct
    <3> QED  BY <1>1, <1>2, <3>1, <3>2
  <2> QED  BY <1>5, <1>8, <2>1, <2>2
<1>11. Idx(2 * target) = target /\ 2 * target # NONE
  BY <1>1 DEF Idx, NONE
<1> QED  BY <1>3, <1>6, <1>7, <1>9, <1>10, <1>11 DEF Valid, IsBranch

\* The successors of a traced word are all that the CPU executes after it.
LEMMA NothingMissed ==
  ASSUME image \in Images, NEW i \in Loaded, NEW hops \in Nat, NEW m,
         ~NamedReturn(image[i])
  PROVE  CpuNext(i, m) \cap Loaded \subseteq Words(get_successors(i, hops, m))
<1> DEFINE w == image[i]
           S == Words(get_successors(i, hops, m))
<1>0. /\ Valid(w) /\ ~insn_ret(w) /\ (~IsBranch(w) \/ goes_on(i, m)) => i + 1 \in S
      /\ /\ Valid(w) /\ ~insn_ret(w) /\ IsBranch(w) /\ ~IsBrx(w)
         /\ compute_operand(i, m).ea # NONE
         => Idx(compute_operand(i, m).ea) \in S
  <2> DEFINE J == {i + 1, Idx(compute_operand(i, m).ea),
                   Idx(compute_operand(i, m).callee)}
  <2>1. J \subseteq J
    OBVIOUS
  <2> QED  BY <2>1, Successors
<1>1. w \in Nat /\ w < 65536
  BY LoadedWord
<1> DEFINE ends == Executed(w) \in {"RTS", "RSV", "DIT", "DITR"} \/ ~Valid(w)
           jumps == IsUncond(w) /\ ~IsCalled(i, m)
           target == IF decode_insn(w).mode = "RP" THEN i + Disp(w) ELSE i - Disp(w)
<1> SUFFICES ASSUME NEW x \in CpuNext(i, m), x \in Loaded PROVE x \in S
  OBVIOUS
<1>2. \/ x = i + 1 /\ ~ends /\ ~jumps
      \/ x = target /\ HexCode(w) = 12 /\ ~IsBrx(w)
  BY DEF CpuNext
<1>3. CASE x = i + 1 /\ ~ends /\ ~jumps
  <2>1. Valid(w) /\ ~insn_ret(w)
    BY <1>1, <1>3, ReturnsEnd DEF NamedReturn
  <2>2. goes_on(i, m)
    BY <1>3 DEF goes_on, IsCalled
  <2> QED  BY <1>0, <1>3, <2>1, <2>2
<1>4. CASE x = target /\ HexCode(w) = 12 /\ ~IsBrx(w)
  <2>1. /\ Valid(w) /\ ~insn_ret(w) /\ IsBranch(w)
        /\ compute_operand(i, m).ea # NONE
        /\ Idx(compute_operand(i, m).ea) = x
    BY <1>4, RelativeBranch
  <2> HIDE DEF S
  <2> QED  BY <1>0, <1>4, <2>1
<1> QED  BY <1>2, <1>3, <1>4

----------------------------------------------------------------------------
(* The invariant of the trace. *)

\* Every word the CPU may execute after a traced one has been seen.
Closed(traced, seen, m) ==
  \A i \in traced \ (m.text \cup m.slots) :
    ~NamedReturn(image[i]) => CpuNext(i, m) \cap Loaded \subseteq seen

MarksType(m) ==
  /\ DOMAIN m = {"text", "slots", "offsets", "struct"}
  /\ m.text \subseteq find_text_candidates(image)
  /\ IsFiniteSet(m.slots)
  /\ IsFiniteSet(m.offsets)

\* The cells that were counted when the pass began are among those known now,
\* and no word traced since then is one of them.
Counted ==
  \E S \in SUBSET marks.slots, O \in SUBSET marks.offsets :
    cells = Cardinality(S) + Cardinality(O) /\ code \cap S = {}

TraceInv ==
  /\ image \in Images
  /\ entries \in Seq({entries[k] : k \in 1..Len(entries)})
  /\ pass \in 1..MaxPasses
  /\ MarksType(marks)
  /\ Tidy([visited |-> visited, list |-> worklist])
  /\ code \subseteq visited
  /\ code \cap Words(worklist) = {}
  /\ visited \subseteq code \cup Words(worklist) \cup marks.slots \cup marks.struct
  /\ Closed(code, visited, marks)
  /\ Counted
  /\ stage # "trace" => /\ worklist = <<>>
                        /\ pass = MaxPasses \/ code \cap marks.slots = {}

\* The first entry of a worklist is taken off.
LEMMA Pop ==
  ASSUME NEW q, Tidy(q), q.list # <<>>
  PROVE  /\ Head(q.list) \in Entries(Loaded)
         /\ Tidy([visited |-> q.visited, list |-> Tail(q.list)])
         /\ Head(q.list).word \in Words(q.list)
         /\ Words(Tail(q.list)) = Words(q.list) \ {Head(q.list).word}
<1> DEFINE l == q.list
           t == Tail(q.list)
           V == q.visited
           r == [visited |-> V, list |-> t]
<1>1. /\ l \in Seq(Entries(Loaded)) /\ l # <<>>
      /\ q.visited \in SUBSET Loaded
      /\ Words(l) \subseteq q.visited
      /\ \A j, k \in 1..Len(l) : l[j].word = l[k].word => j = k
  BY DEF Tidy, Queues
<1>2. /\ Len(l) \in Nat /\ 1 \in 1..Len(l)
      /\ Head(l) = l[1] /\ l[1] \in Entries(Loaded)
      /\ t \in Seq(Entries(Loaded))
      /\ Len(t) = Len(l) - 1
      /\ \A k \in 1..Len(t) : t[k] = l[k + 1]
  BY <1>1
<1> HIDE DEF l, t, V
<1>3. \A k \in 1..Len(t) : k + 1 \in 1..Len(l) /\ k + 1 # 1 /\ k \in Int
  BY <1>2
<1>4. Words(t) \subseteq Words(l) \ {l[1].word}
  <2> SUFFICES ASSUME NEW k \in 1..Len(t)
               PROVE  t[k].word \in Words(l) /\ t[k].word # l[1].word
    BY DEF Words
  <2>1. k + 1 \in 1..Len(l) /\ k + 1 # 1 /\ t[k] = l[k + 1]
    BY <1>2, <1>3
  <2> QED  BY <1>1, <1>2, <2>1 DEF Words
<1>5. Words(l) \ {l[1].word} \subseteq Words(t)
  <2> SUFFICES ASSUME NEW k \in 1..Len(l), l[k].word # l[1].word
               PROVE  l[k].word \in Words(t)
    BY DEF Words
  <2>1. k # 1
    OBVIOUS
  <2>2. k - 1 \in 1..Len(t) /\ t[k - 1] = l[k]
    BY <1>2, <2>1
  <2> QED  BY <2>2 DEF Words
<1>6. \A j, k \in 1..Len(t) : t[j].word = t[k].word => j = k
  <2> SUFFICES ASSUME NEW j \in 1..Len(t), NEW k \in 1..Len(t), t[j].word = t[k].word
               PROVE  j = k
    OBVIOUS
  <2>1. j + 1 = k + 1
    BY <1>1, <1>2, <1>3
  <2> QED  BY <1>3, <2>1
<1>7. r \in Queues /\ r.list = t /\ r.visited = V
  <2>1. t \in Seq(Entries(Loaded)) /\ V \in SUBSET Loaded
    BY <1>1, <1>2 DEF V
  <2>2. r \in Queues
    BY <2>1 DEF Queues
  <2> QED  BY <2>2
<1>8. Words(t) \subseteq V
  BY <1>1, <1>4 DEF V
<1>9. Tidy(r)
  <2> HIDE DEF r
  <2> QED  BY <1>6, <1>7, <1>8 DEF Tidy
<1>10. l[1].word \in Words(l)
  BY <1>2 DEF Words
<1> QED  BY <1>2, <1>4, <1>5, <1>9, <1>10 DEF l, t, V

\* What an SPA does to the marks.
LEMMA Marked ==
  ASSUME NEW m, MarksType(m), NEW i
  PROVE  LET n == AfterSpa(i, m)
         IN  /\ MarksType(n)
             /\ n.struct = m.struct
             /\ m.slots \subseteq n.slots
             /\ m.offsets \subseteq n.offsets
             /\ m.text \subseteq n.text \cup n.slots
<1> DEFINE o == compute_operand(i, m)
           n == AfterSpa(i, m)
           x == Idx(o.ea)
           more == [m EXCEPT !.slots = @ \cup {x}, !.text = @ \ {x}]
           other == [m EXCEPT !.offsets = @ \cup {o.goff}]
<1>1. DOMAIN m = {"text", "slots", "offsets", "struct"}
  BY DEF MarksType
<1>2. /\ DOMAIN more = DOMAIN m
      /\ more.text = m.text \ {x}
      /\ more.slots = m.slots \cup {x}
      /\ more.offsets = m.offsets
      /\ more.struct = m.struct
  <2> HIDE DEF x
  <2> QED  BY <1>1
<1>3. /\ DOMAIN other = DOMAIN m
      /\ other.text = m.text
      /\ other.slots = m.slots
      /\ other.offsets = m.offsets \cup {o.goff}
      /\ other.struct = m.struct
  <2> HIDE DEF o
  <2> QED  BY <1>1
<1>4. IsFiniteSet(m.slots \cup {x}) /\ IsFiniteSet(m.offsets \cup {o.goff})
  BY FS_AddElement DEF MarksType
<1>5. n \in {m, more, other}
  <2> HIDE DEF more, other
  <2> QED  BY DEF AfterSpa, more, other
<1> HIDE DEF o, n, x, more, other
<1>6. MarksType(more) /\ MarksType(other)
  BY <1>2, <1>3, <1>4 DEF MarksType
<1> QED  BY <1>2, <1>3, <1>5, <1>6 DEF n

\* A call stays a call while the text is lost, and marks only end calls.
LEMMA CalledBefore ==
  ASSUME NEW i, NEW m, NEW n,
         m.text \subseteq find_text_candidates(image), m.struct \subseteq n.struct
  PROVE  CpuNext(i, n) \subseteq CpuNext(i, m)
<1>1. IsCalled(i, n) => IsCalled(i, m)
  BY DEF IsCalled, prev_is_spa
<1> QED  BY <1>1 DEF CpuNext

\* There are at most 255 sections.
LEMMA SectionsAreFinite ==
  ASSUME NEW im, NEW o
  PROVE  IsFiniteSet(DOMAIN discover_prt(im, o))
<1>1. DOMAIN discover_prt(im, o) \subseteq 1..255
  BY DEF discover_prt
<1>2. IsFiniteSet(1..255)
  BY 1 \in Int, 255 \in Int, FS_Interval
<1> QED  BY <1>1, <1>2, FS_Subset

\* The initial state.
LEMMA TraceInvInit == Init => TraceInv
<1> SUFFICES ASSUME Init PROVE TraceInv
  OBVIOUS
<1> DEFINE text == find_text_candidates(image) \ PrtWords(prt, image)
           modules == find_module_entries(image, text)
<1>1. /\ image \in Images
      /\ prt = discover_prt(image, opt)
      /\ marks = [text |-> text, slots |-> {}, offsets |-> {},
                  struct |-> PrtWords(prt, image)]
      /\ entries = InitialEntries(image, prt, modules)
      /\ code = {} /\ cells = 0 /\ pass = 1 /\ stage = "trace"
      /\ visited = StartOfPass.visited /\ worklist = StartOfPass.list
  BY DEF Init
<1>2. PICK J : entries \in Seq(J)
  <2>1. IsFiniteSet(DOMAIN prt)
    BY <1>1, SectionsAreFinite
  <2>2. modules \in SUBSET DOMAIN image
    BY DEF find_module_entries
  <2> HIDE DEF modules
  <2> QED  BY <1>1, <2>1, <2>2, EntriesType
<1>3. entries \in Seq({entries[k] : k \in 1..Len(entries)})
  BY <1>2
<1>4. /\ Tidy(StartOfPass)
      /\ StartOfPass.visited = Words(StartOfPass.list)
  BY <1>2, PassStarts
<1>5. Tidy([visited |-> visited, list |-> worklist]) /\ visited = Words(worklist)
  <2>1. StartOfPass = [visited |-> StartOfPass.visited, list |-> StartOfPass.list]
    BY <1>4 DEF Tidy, Queues
  <2> QED  BY <1>1, <1>4, <2>1
<1>6. pass \in 1..MaxPasses
  BY <1>1, BoundsAssumption
<1>7. MarksType(marks)
  <2>1. /\ DOMAIN marks = {"text", "slots", "offsets", "struct"}
        /\ marks.text = text /\ marks.slots = {} /\ marks.offsets = {}
    <3> HIDE DEF text
    <3> QED  BY <1>1
  <2> QED  BY <2>1, FS_EmptySet DEF MarksType
<1>8. Counted
  <2>1. {} \in SUBSET marks.slots /\ {} \in SUBSET marks.offsets /\ code \cap {} = {}
        /\ cells = Cardinality({}) + Cardinality({})
    BY <1>1, FS_EmptySet
  <2> QED  BY <2>1 DEF Counted
<1>9. Closed(code, visited, marks)
  BY <1>1 DEF Closed
<1> QED  BY <1>1, <1>3, <1>5, <1>6, <1>7, <1>8, <1>9 DEF TraceInv

\* A word is taken off the worklist.
LEMMA TraceInvTrace == TraceInv /\ Trace => TraceInv'
<1> SUFFICES ASSUME TraceInv, Trace PROVE TraceInv'
  OBVIOUS
<1> DEFINE q == [visited |-> visited, list |-> worklist]
           e == Head(worklist)
           i == e.word
           rest == [visited |-> visited, list |-> Tail(worklist)]
           untrusted == i \in marks.text /\ e.how = "fall" /\ e.hops > TrustHops
           m == AfterSpa(i, [marks EXCEPT !.text = @ \ {i}])
           es == get_successors(i, e.hops, m) \o TableEntries(i, m)
           r == Queued(rest, es)
<1>1. /\ stage = "trace" /\ stage' = stage
      /\ worklist # <<>>
      /\ image' = image /\ entries' = entries /\ pass' = pass /\ cells' = cells
      /\ IF i \in marks.slots \cup marks.struct
           THEN worklist' = Tail(worklist) /\ UNCHANGED <<visited, code, marks>>
         ELSE /\ code' = code \cup {i}
              /\ IF untrusted
                   THEN worklist' = Tail(worklist) /\ UNCHANGED <<visited, marks>>
                   ELSE worklist' = r.list /\ visited' = r.visited /\ marks' = m
  BY DEF Trace
<1>2. /\ image \in Images
      /\ entries \in Seq({entries[k] : k \in 1..Len(entries)})
      /\ pass \in 1..MaxPasses
      /\ MarksType(marks)
      /\ Tidy(q)
      /\ code \subseteq visited
      /\ code \cap Words(worklist) = {}
      /\ visited \subseteq code \cup Words(worklist) \cup marks.slots \cup marks.struct
      /\ Closed(code, visited, marks)
      /\ Counted
  BY DEF TraceInv
<1>3. /\ e \in Entries(Loaded)
      /\ i \in Loaded /\ e.hops \in Nat
      /\ Tidy(rest)
      /\ i \in Words(worklist) /\ i \notin code
      /\ i \in visited
      /\ Words(Tail(worklist)) = Words(worklist) \ {i}
  <2>1. q.list = worklist /\ q.visited = visited
    OBVIOUS
  <2>2. /\ e \in Entries(Loaded)
        /\ Tidy(rest)
        /\ i \in Words(worklist)
        /\ Words(Tail(worklist)) = Words(worklist) \ {i}
    <3> HIDE DEF q
    <3> QED  BY <1>1, <1>2, <2>1, Pop
  <2>3. i \in Loaded /\ e.hops \in Nat
    BY <2>2 DEF Entries
  <2>4. i \in visited
    BY <1>2, <2>2 DEF Tidy
  <2> QED  BY <1>2, <2>2, <2>3, <2>4
<1>4. Loaded' = Loaded
  BY <1>1 DEF Loaded
<1> HIDE DEF q, e, i, rest, untrusted, m, es, r
<1> SUFFICES /\ MarksType(marks)'
             /\ Tidy([visited |-> visited, list |-> worklist])'
             /\ code' \subseteq visited'
             /\ code' \cap Words(worklist') = {}
             /\ visited' \subseteq code' \cup Words(worklist') \cup marks'.slots
                                     \cup marks'.struct
             /\ Closed(code, visited, marks)'
             /\ Counted'
  BY <1>1, <1>2 DEF TraceInv
<1>5. MarksType(marks') => MarksType(marks)'
  BY <1>1 DEF MarksType
<1>6. Tidy([visited |-> visited', list |-> worklist'])
        => Tidy([visited |-> visited, list |-> worklist])'
  BY <1>4 DEF Tidy, Queues
<1>7. (\A j \in code' \ (marks'.text \cup marks'.slots) :
         ~NamedReturn(image[j]) => CpuNext(j, marks') \cap Loaded \subseteq visited')
        => Closed(code, visited, marks)'
  <2>1. \A j : CpuNext(j, marks)' = CpuNext(j, marks')
    BY <1>1, <1>4 DEF CpuNext, IsCalled, prev_is_spa
  <2> QED  BY <1>1, <1>4, <2>1 DEF Closed
<1>8. CASE i \in marks.slots \cup marks.struct
  <2>1. worklist' = Tail(worklist) /\ UNCHANGED <<visited, code, marks>>
    BY <1>1, <1>8
  <2>2. MarksType(marks)' /\ Tidy([visited |-> visited, list |-> worklist])'
    BY <1>2, <1>3, <1>5, <1>6, <2>1 DEF rest
  <2>3. Closed(code, visited, marks)'
    BY <1>2, <1>7, <2>1 DEF Closed
  <2>4. Counted'
    BY <1>1, <1>2, <2>1 DEF Counted
  <2>5. Words(worklist') = Words(worklist) \ {i}
    BY <1>3, <2>1
  <2> QED  BY <1>2, <1>3, <1>8, <2>1, <2>2, <2>3, <2>4, <2>5
<1>9. PICK S \in SUBSET marks.slots, O \in SUBSET marks.offsets :
        cells = Cardinality(S) + Cardinality(O) /\ code \cap S = {}
  BY <1>2 DEF Counted
<1>10. CASE i \notin marks.slots \cup marks.struct /\ untrusted
  <2>1. /\ worklist' = Tail(worklist) /\ UNCHANGED <<visited, marks>>
        /\ code' = code \cup {i}
    BY <1>1, <1>10
  <2>2. MarksType(marks)' /\ Tidy([visited |-> visited, list |-> worklist])'
    BY <1>2, <1>3, <1>5, <1>6, <2>1 DEF rest
  <2>3. i \in marks.text
    BY <1>10 DEF untrusted
  <2>4. Closed(code, visited, marks)'
    BY <1>2, <1>7, <2>1, <2>3 DEF Closed
  <2>5. Counted'
    <3>1. S \in SUBSET marks'.slots /\ O \in SUBSET marks'.offsets
          /\ cells' = Cardinality(S) + Cardinality(O) /\ code' \cap S = {}
      BY <1>1, <1>9, <1>10, <2>1
    <3> QED  BY <3>1 DEF Counted
  <2>6. Words(worklist') = Words(worklist) \ {i}
    BY <1>3, <2>1
  <2> QED  BY <1>2, <1>3, <2>1, <2>2, <2>4, <2>5, <2>6
<1>11. CASE i \notin marks.slots \cup marks.struct /\ ~untrusted
  <2>1. /\ worklist' = r.list /\ visited' = r.visited /\ marks' = m
        /\ code' = code \cup {i}
    BY <1>1, <1>11
  <2>2. /\ MarksType(m)
        /\ m.struct = marks.struct
        /\ marks.slots \subseteq m.slots
        /\ marks.offsets \subseteq m.offsets
        /\ marks.text \subseteq m.text \cup m.slots \cup {i}
    <3> DEFINE n == [marks EXCEPT !.text = @ \ {i}]
    <3>1. /\ DOMAIN n = DOMAIN marks
          /\ n.text = marks.text \ {i}
          /\ n.slots = marks.slots
          /\ n.offsets = marks.offsets
          /\ n.struct = marks.struct
      BY <1>2 DEF MarksType
    <3>2. m = AfterSpa(i, n)
      BY DEF m
    <3> HIDE DEF n
    <3>3. MarksType(n)
      BY <1>2, <3>1 DEF MarksType
    <3>4. /\ MarksType(AfterSpa(i, n))
          /\ AfterSpa(i, n).struct = n.struct
          /\ n.slots \subseteq AfterSpa(i, n).slots
          /\ n.offsets \subseteq AfterSpa(i, n).offsets
          /\ n.text \subseteq AfterSpa(i, n).text \cup AfterSpa(i, n).slots
      BY <3>3, Marked
    <3> QED  BY <3>1, <3>2, <3>4
  <2> DEFINE gs == get_successors(i, e.hops, m)
  <2>3. PICK J : /\ {i + 1, Idx(compute_operand(i, m).ea),
                     Idx(compute_operand(i, m).callee)} \subseteq J
                 /\ TableEntries(i, m) \in Seq(Entries(J))
    BY <1>2, <1>3, TableType
  <2>4. gs \in Seq(Entries(J))
    BY <1>2, <1>3, <2>3, Successors
  <2>5. es \in Seq(Entries(J)) /\ Words(gs) \subseteq Words(es)
    <3>1. es = gs \o TableEntries(i, m)
      BY DEF es
    <3> HIDE DEF gs
    <3> QED  BY <2>3, <2>4, <3>1, WordsOfConcat
  <2>6. Grown(rest, r, Words(es))
    BY <1>3, <2>5, PushAll DEF r
  <2>7. /\ Tidy(r)
        /\ r.visited = visited \cup (Words(es) \cap Loaded)
        /\ Words(r.list) = (Words(worklist) \ {i}) \cup (r.visited \ visited)
    <3>1. rest.visited = visited /\ rest.list = Tail(worklist)
      BY DEF rest
    <3> QED  BY <1>3, <2>6, <3>1 DEF Grown
  <2>8. ~NamedReturn(image[i]) => CpuNext(i, m) \cap Loaded \subseteq r.visited
    <3>1. ~NamedReturn(image[i]) => CpuNext(i, m) \cap Loaded \subseteq Words(gs)
      BY <1>2, <1>3, NothingMissed
    <3> HIDE DEF gs
    <3> QED  BY <2>5, <2>7, <3>1
  <2> HIDE DEF gs
  <2>9. MarksType(marks)' /\ Tidy([visited |-> visited, list |-> worklist])'
    <3>1. r = [visited |-> r.visited, list |-> r.list]
      BY <2>7 DEF Tidy, Queues
    <3> QED  BY <1>5, <1>6, <2>1, <2>2, <2>7, <3>1
  <2>10. Closed(code, visited, marks)'
    <3> SUFFICES ASSUME NEW j \in (code \cup {i}) \ (m.text \cup m.slots),
                        ~NamedReturn(image[j])
                 PROVE  CpuNext(j, m) \cap Loaded \subseteq r.visited
      BY <1>7, <2>1
    <3>1. CASE j = i
      BY <2>8, <3>1
    <3>2. CASE j # i
      <4>1. j \in code \ (marks.text \cup marks.slots)
        BY <2>2, <3>2
      <4>2. CpuNext(j, marks) \cap Loaded \subseteq visited
        BY <1>2, <4>1 DEF Closed
      <4>3. CpuNext(j, m) \subseteq CpuNext(j, marks)
        <5>1. marks.text \subseteq find_text_candidates(image)
              /\ marks.struct \subseteq m.struct
          BY <1>2, <2>2 DEF MarksType
        <5> QED  BY <5>1, CalledBefore
      <4> QED  BY <2>7, <4>2, <4>3
    <3> QED  BY <3>1, <3>2
  <2>11. Counted'
    <3>1. S \in SUBSET marks'.slots /\ O \in SUBSET marks'.offsets
          /\ cells' = Cardinality(S) + Cardinality(O) /\ code' \cap S = {}
      BY <1>1, <1>9, <1>11, <2>1, <2>2
    <3> QED  BY <3>1 DEF Counted
  <2>12. code' \subseteq visited'
    BY <1>2, <1>3, <2>1, <2>7
  <2>13. code' \cap Words(worklist') = {}
    BY <1>2, <1>3, <2>1, <2>7
  <2>14. visited' \subseteq code' \cup Words(worklist') \cup marks'.slots
                       \cup marks'.struct
    BY <1>2, <2>1, <2>2, <2>7
  <2> QED  BY <2>9, <2>10, <2>11, <2>12, <2>13, <2>14
<1> QED  BY <1>8, <1>10, <1>11

\* A pass ends.
LEMMA TraceInvEndPass == TraceInv /\ EndPass => TraceInv'
<1> SUFFICES ASSUME TraceInv, EndPass PROVE TraceInv'
  OBVIOUS
<1>1. /\ stage = "trace" /\ worklist = <<>>
      /\ image' = image /\ entries' = entries /\ marks' = marks
      /\ IF count_call_slots = cells \/ pass = MaxPasses
           THEN stage' = "list" /\ UNCHANGED <<visited, code, worklist, pass, cells>>
           ELSE /\ cells' = count_call_slots
                /\ pass' = pass + 1
                /\ code' = {}
                /\ visited' = StartOfPass.visited
                /\ worklist' = StartOfPass.list
                /\ stage' = stage
  BY DEF EndPass
<1>2. /\ image \in Images
      /\ entries \in Seq({entries[k] : k \in 1..Len(entries)})
      /\ pass \in 1..MaxPasses
      /\ MarksType(marks)
      /\ Tidy([visited |-> visited, list |-> worklist])
      /\ code \subseteq visited
      /\ code \cap Words(worklist) = {}
      /\ visited \subseteq code \cup Words(worklist) \cup marks.slots \cup marks.struct
      /\ Closed(code, visited, marks)
      /\ Counted
  BY DEF TraceInv
<1>3. Loaded' = Loaded
  BY <1>1 DEF Loaded
<1>4. MarksType(marks)'
  BY <1>1, <1>2 DEF MarksType
<1>5. \A j : CpuNext(j, marks)' = CpuNext(j, marks)
  BY <1>1, <1>3 DEF CpuNext, IsCalled, prev_is_spa
<1>6. PICK S \in SUBSET marks.slots, O \in SUBSET marks.offsets :
        cells = Cardinality(S) + Cardinality(O) /\ code \cap S = {}
  BY <1>2 DEF Counted
<1>7. /\ IsFiniteSet(marks.slots) /\ IsFiniteSet(marks.offsets)
      /\ count_call_slots = Cardinality(marks.slots) + Cardinality(marks.offsets)
  BY <1>2 DEF MarksType, count_call_slots
<1>8. CASE count_call_slots = cells \/ pass = MaxPasses
  <2>1. stage' = "list" /\ UNCHANGED <<visited, code, worklist, pass, cells>>
    BY <1>1, <1>8
  <2>2. pass = MaxPasses \/ code \cap marks.slots = {}
    <3>1. CASE count_call_slots = cells
      <4>1. /\ Cardinality(S) \in Nat /\ Cardinality(marks.slots) \in Nat
            /\ Cardinality(O) \in Nat /\ Cardinality(marks.offsets) \in Nat
            /\ Cardinality(S) <= Cardinality(marks.slots)
            /\ Cardinality(O) <= Cardinality(marks.offsets)
            /\ Cardinality(marks.slots) = Cardinality(S) => S = marks.slots
        BY <1>7, FS_Subset, FS_CardinalityType
      <4>2. Cardinality(S) = Cardinality(marks.slots)
        BY <1>6, <1>7, <3>1, <4>1
      <4> QED  BY <1>6, <4>1, <4>2
    <3> QED  BY <1>8, <3>1
  <2>3. Closed(code, visited, marks)'
    BY <1>1, <1>2, <1>3, <1>5, <2>1 DEF Closed
  <2>4. Tidy([visited |-> visited, list |-> worklist])'
    BY <1>2, <1>3, <2>1 DEF Tidy, Queues
  <2>5. Counted'
    BY <1>1, <1>2, <2>1 DEF Counted
  <2> QED  BY <1>1, <1>2, <1>4, <2>1, <2>2, <2>3, <2>4, <2>5 DEF TraceInv
<1>9. CASE ~(count_call_slots = cells \/ pass = MaxPasses)
  <2>1. /\ cells' = count_call_slots
        /\ pass' = pass + 1
        /\ code' = {}
        /\ visited' = StartOfPass.visited
        /\ worklist' = StartOfPass.list
        /\ stage' = "trace"
    BY <1>1, <1>9
  <2>2. pass' \in 1..MaxPasses
    <3>1. pass # MaxPasses
      BY <1>9
    <3> QED  BY <1>2, <2>1, <3>1, BoundsAssumption
  <2>3. /\ Tidy(StartOfPass)
        /\ StartOfPass.visited = Words(StartOfPass.list)
    BY <1>2, PassStarts
  <2>4. visited' = Words(worklist')
    BY <2>1, <2>3
  <2>5. Tidy([visited |-> visited, list |-> worklist])'
    <3>1. StartOfPass = [visited |-> StartOfPass.visited, list |-> StartOfPass.list]
      BY <2>3 DEF Tidy, Queues
    <3>2. Tidy([visited |-> visited', list |-> worklist'])
      BY <2>1, <2>3, <3>1
    <3> QED  BY <1>3, <3>2 DEF Tidy, Queues
  <2>6. Closed(code, visited, marks)'
    BY <2>1 DEF Closed
  <2>7. Counted'
    <3>1. /\ marks.slots \in SUBSET marks'.slots /\ marks.offsets \in SUBSET marks'.offsets
          /\ cells' = Cardinality(marks.slots) + Cardinality(marks.offsets)
          /\ code' \cap marks.slots = {}
      BY <1>1, <1>7, <2>1
    <3> QED  BY <3>1 DEF Counted
  <2> QED  BY <1>1, <1>2, <1>4, <2>1, <2>2, <2>4, <2>5, <2>6, <2>7 DEF TraceInv
<1> QED  BY <1>8, <1>9

\* The listing is made: the words of the Task Working Block become structures.
LEMMA TraceInvRender == TraceInv /\ Render => TraceInv'
<1> SUFFICES ASSUME TraceInv, Render PROVE TraceInv'
  OBVIOUS
<1> DEFINE zero == {i \in Loaded \ (code \cup marks.text) : image[i] = 0}
           twb == TaskWorkingBlock(zero, marks)
           m == [marks EXCEPT !.struct = @ \cup twb, !.text = @ \ twb]
<1>1. /\ stage = "list" /\ stage' = "assemble"
      /\ image' = image /\ entries' = entries /\ cells' = cells
      /\ visited' = visited /\ code' = code /\ worklist' = worklist /\ pass' = pass
      /\ marks' = collect_refs.marks
  BY DEF Render
<1>2. marks' = m
  BY <1>1 DEF collect_refs
<1>3. /\ image \in Images
      /\ entries \in Seq({entries[k] : k \in 1..Len(entries)})
      /\ pass \in 1..MaxPasses
      /\ MarksType(marks)
      /\ Tidy([visited |-> visited, list |-> worklist])
      /\ code \subseteq visited
      /\ code \cap Words(worklist) = {}
      /\ visited \subseteq code \cup Words(worklist) \cup marks.slots \cup marks.struct
      /\ Closed(code, visited, marks)
      /\ Counted
      /\ worklist = <<>>
      /\ pass = MaxPasses \/ code \cap marks.slots = {}
  BY <1>1 DEF TraceInv
<1>4. code \cap twb = {}
  BY DEF TaskWorkingBlock
<1>5. /\ DOMAIN m = DOMAIN marks
      /\ m.text = marks.text \ twb
      /\ m.slots = marks.slots
      /\ m.offsets = marks.offsets
      /\ m.struct = marks.struct \cup twb
  <2> HIDE DEF twb
  <2> QED  BY <1>3 DEF MarksType
<1> HIDE DEF twb, m
<1>6. Loaded' = Loaded
  BY <1>1 DEF Loaded
<1>7. MarksType(marks)'
  BY <1>1, <1>2, <1>3, <1>5 DEF MarksType
<1>8. Closed(code, visited, marks)'
  <2>1. \A j : CpuNext(j, marks)' = CpuNext(j, m)
    BY <1>1, <1>2, <1>6 DEF CpuNext, IsCalled, prev_is_spa
  <2>2. \A j : CpuNext(j, m) \subseteq CpuNext(j, marks)
    <3>1. marks.text \subseteq find_text_candidates(image) /\ marks.struct \subseteq m.struct
      BY <1>3, <1>5 DEF MarksType
    <3> QED  BY <3>1, CalledBefore
  <2>3. code \ (m.text \cup m.slots) \subseteq code \ (marks.text \cup marks.slots)
    BY <1>4, <1>5
  <2> SUFFICES ASSUME NEW j \in code \ (m.text \cup m.slots), ~NamedReturn(image[j])
               PROVE  CpuNext(j, m) \cap Loaded \subseteq visited
    BY <1>1, <1>2, <1>6, <2>1 DEF Closed
  <2>4. CpuNext(j, marks) \cap Loaded \subseteq visited
    BY <1>3, <2>3 DEF Closed
  <2> QED  BY <2>2, <2>4
<1>9. Tidy([visited |-> visited, list |-> worklist])'
  BY <1>1, <1>3, <1>6 DEF Tidy, Queues
<1>10. Counted'
  BY <1>1, <1>2, <1>3, <1>5 DEF Counted
<1>11. /\ visited' \subseteq code' \cup Words(worklist') \cup marks'.slots
                          \cup marks'.struct
       /\ pass' = MaxPasses \/ code' \cap marks'.slots = {}
  BY <1>1, <1>2, <1>3, <1>5
<1> QED  BY <1>1, <1>3, <1>7, <1>8, <1>9, <1>10, <1>11 DEF TraceInv

\* A step that leaves the trace alone once it is over.
LEMMA TraceInvStutter ==
  ASSUME TraceInv,
         UNCHANGED <<image, entries, marks, cells, visited, code, worklist, pass>>,
         stage' = stage \/ (stage = "assemble" /\ stage' = "done")
  PROVE  TraceInv'
<1>1. Loaded' = Loaded
  BY DEF Loaded
<1>2. \A j : CpuNext(j, marks)' = CpuNext(j, marks)
  BY <1>1 DEF CpuNext, IsCalled, prev_is_spa
<1>3. Closed(code, visited, marks)'
  BY <1>1, <1>2 DEF TraceInv, Closed
<1>4. MarksType(marks)' /\ Counted'
  BY DEF TraceInv, MarksType, Counted
<1>5. Tidy([visited |-> visited, list |-> worklist])'
  BY <1>1 DEF TraceInv, Tidy, Queues
<1> QED  BY <1>3, <1>4, <1>5 DEF TraceInv

LEMMA TraceInvNext == TraceInv /\ [Next]_vars => TraceInv'
<1> SUFFICES ASSUME TraceInv, [Next]_vars PROVE TraceInv'
  OBVIOUS
<1>1. CASE Trace
  BY <1>1, TraceInvTrace
<1>2. CASE EndPass
  BY <1>2, TraceInvEndPass
<1>3. CASE Render
  BY <1>3, TraceInvRender
<1>4. CASE assemble_listing
  BY <1>4, TraceInvStutter DEF assemble_listing
<1>5. CASE Done \/ UNCHANGED vars
  <2>1. /\ UNCHANGED <<image, entries, marks, cells, visited, code, worklist, pass>>
        /\ stage' = stage
    BY <1>5 DEF Done, vars
  <2> QED  BY <2>1, TraceInvStutter
<1> QED  BY <1>1, <1>2, <1>3, <1>4, <1>5 DEF Next

LEMMA TraceInvariant == Spec => []TraceInv
BY TraceInvInit, TraceInvNext, PTL DEF Spec

\* When the passes sufficed no return cell is traced, whatever the image and
\* the bounds (flow_trace, count_call_slots).
THEOREM NoCellIsTraced == Spec => []SlotsAreData
<1>1. TraceInv => SlotsAreData
  BY BoundsAssumption DEF TraceInv, SlotsAreData
<1> QED  BY <1>1, TraceInvariant, PTL

\* The trace misses no word that the CPU can reach by the words alone,
\* whatever the image (flow_trace_once, get_successors).
THEOREM NothingReachedIsMissed == Spec => []TraceIsClosed
<1>1. TraceInv => TraceIsClosed
  <2> SUFFICES ASSUME TraceInv, stage # "trace",
                      NEW i \in code \ (marks.text \cup marks.slots),
                      ~NamedReturn(image[i])
               PROVE  CpuNext(i, marks) \cap Loaded
                        \subseteq code \cup marks.slots \cup marks.struct
    BY DEF TraceIsClosed
  <2>1. CpuNext(i, marks) \cap Loaded \subseteq visited
    BY DEF TraceInv, Closed
  <2>2. Words(worklist) = {}
    BY DEF TraceInv, Words
  <2> QED  BY <2>1, <2>2 DEF TraceInv
<1> QED  BY <1>1, TraceInvariant, PTL

----------------------------------------------------------------------------
(* The three readings of a word. *)

\* The fields of a word.
LEMMA Fields ==
  ASSUME NEW w \in Nat, w < 65536
  PROVE  /\ HexCode(w) \in 0..15
         /\ Sub(w) \in 0..15
         /\ Disp(w) \in Nat /\ Disp(w) < 256
         /\ Group1(w) \/ Group2(w) \/ Branch(w) \/ System(w)
         /\ System(w) => ~Group1(w) /\ ~Group2(w) /\ ~Branch(w)
         /\ Group1(w) => ~Group2(w) /\ ~Branch(w)
         /\ Group2(w) => ~Branch(w)
<1>1. HexCode(w) \in 0..15 /\ Sub(w) \in 0..15
  BY DEF HexCode, Sub
<1>2. Disp(w) \in Nat /\ Disp(w) < 256
  BY DEF Disp
<1> QED  BY <1>1, <1>2 DEF Group1, Group2, Branch, System

\* The disassembler and the simulator print a word the same way.
LEMMA PrintedAlike ==
  ASSUME NEW w \in Nat, w < 65536
  PROVE  IF insn_op(w) = "none" THEN fprint_sym(w).op \in {"none", "???"}
         ELSE fprint_sym(w) = [op |-> insn_op(w), mode |-> ModeName(w),
                               number |-> insn_number(w)]
<1> DEFINE d == Disp(w)
           text(op, number) == [op |-> op, mode |-> ModeName(w), number |-> number]
<1>0. /\ Sub(w) \in 0..15
      /\ d \in Nat /\ d < 256
      /\ Group1(w) \/ Group2(w) \/ Branch(w) \/ System(w)
      /\ System(w) => ~Group1(w) /\ ~Group2(w) /\ ~Branch(w)
      /\ Group1(w) => ~Group2(w) /\ ~Branch(w)
      /\ Group2(w) => ~Branch(w)
  BY Fields
<1>1. CASE ~System(w)
  <2>1. insn_number(w) = d
    BY <1>1 DEF insn_number
  <2>2. fprint_sym(w)
          = text(IF Branch(w) THEN group4_opnames[1 + (Sub(w) % 8)]
                 ELSE IF Group2(w) THEN group2_opnames[1 + Sub(w)]
                 ELSE group1_opnames[1 + Sub(w)], d)
    BY <1>1 DEF fprint_sym
  <2>3. insn_op(w) = IF Branch(w) THEN group4_opnames[1 + (Sub(w) % 8)]
                     ELSE IF Group2(w) THEN group2_opnames[1 + Sub(w)]
                     ELSE group1_opnames[1 + Sub(w)]
    BY <1>0, <1>1 DEF insn_op
  <2> QED  BY <2>1, <2>2, <2>3
<1>2. CASE System(w) /\ Sub(w) = 0
  <2>1. insn_number(w) = d % 32
    BY <1>2 DEF insn_number
  <2>2. fprint_sym(w) = text(shr_names[1 + d \div 32], d % 32)
    BY <1>2 DEF fprint_sym
  <2>3. insn_op(w) = shr_names[1 + d \div 32]
    BY <1>0, <1>2 DEF insn_op
  <2> QED  BY <2>1, <2>2, <2>3
<1>3. CASE System(w) /\ Sub(w) = 12
  <2> DEFINE kind == d \div 32
  <2>1. insn_number(w) = IF kind = 1 THEN 0 ELSE d % 32
    BY <1>3 DEF insn_number
  <2>2. fprint_sym(w) = text(shc_names[1 + kind],
                             IF kind \in {3, 5, 7} THEN d
                             ELSE IF kind = 1 THEN 0 ELSE d % 32)
    BY <1>3 DEF fprint_sym
  <2>3. insn_op(w) = shc_names[1 + kind]
    BY <1>0, <1>3 DEF insn_op
  <2>4. kind \in {3, 5, 7} => shc_names[1 + kind] = "none"
    BY DEF shc_names
  <2> QED  BY <2>1, <2>2, <2>3, <2>4
<1>4. CASE System(w) /\ Sub(w) = 1
  <2>1. insn_number(w) = 0
    BY <1>4 DEF insn_number
  <2>2. fprint_sym(w) = text(IF d \div 2 < 16 THEN srg_names[1 + d \div 2]
                             ELSE "none", 0)
    BY <1>4 DEF fprint_sym
  <2>3. insn_op(w) = IF d \div 32 = 0 THEN srg_names[1 + d \div 2] ELSE "none"
    BY <1>0, <1>4 DEF insn_op
  <2>4. d \div 32 = 0 <=> d \div 2 < 16
    BY <1>0
  <2> QED  BY <2>1, <2>2, <2>3, <2>4
<1>5. CASE System(w) /\ Sub(w) = 4
  <2>1. insn_number(w) = 0
    BY <1>5 DEF insn_number
  <2>2. fprint_sym(w) = text(printed_control(w), 0)
    BY <1>5 DEF fprint_sym
  <2>3. insn_op(w) = printed_control(w)
    BY <1>0, <1>5 DEF insn_op, printed_control
  <2> QED  BY <2>1, <2>2, <2>3
<1>6. CASE System(w) /\ Sub(w) \notin {0, 1, 4, 12}
  <2>1. insn_number(w) = d
    BY <1>6 DEF insn_number
  <2>2. fprint_sym(w) = IF Sub(w) \in {14, 15} THEN text("???", d)
                        ELSE text(group3_opnames[1 + Sub(w)], d)
    BY <1>6 DEF fprint_sym
  <2>3. insn_op(w) = group3_opnames[1 + Sub(w)]
    BY <1>0, <1>6 DEF insn_op
  <2>4. Sub(w) \in {14, 15} => group3_opnames[1 + Sub(w)] = "none"
    BY DEF group3_opnames
  <2> QED  BY <2>1, <2>2, <2>3, <2>4
<1> QED  BY <1>1, <1>2, <1>3, <1>4, <1>5, <1>6

\* The instruction listed is the one executed.
LEMMA ListedAsExecuted ==
  ASSUME NEW w \in Nat, w < 65536, Valid(w)
  PROVE  insn_op(w) = Executed(w) \/ Executed(w) = "operand" \/ w = 0
<1> DEFINE d == Disp(w)
<1>0. /\ HexCode(w) \in 0..15
      /\ Sub(w) \in 0..15
      /\ d \in Nat /\ d < 256
      /\ Group1(w) \/ Group2(w) \/ Branch(w) \/ System(w)
      /\ System(w) => ~Group1(w) /\ ~Group2(w) /\ ~Branch(w)
      /\ Group1(w) => ~Group2(w) /\ ~Branch(w)
      /\ Group2(w) => ~Branch(w)
      /\ insn_op(w) # "none"
  BY Fields DEF Valid
<1>1. CASE w = 0
  BY <1>1
<1>2. CASE w # 0 /\ ~System(w)
  <2>1. HexCode(w) \notin {3, 14, 15}
    BY <1>2 DEF System
  <2> QED  BY <1>0, <1>2, <2>1 DEF Executed, insn_op
<1>3. CASE w # 0 /\ System(w) /\ HexCode(w) \in {3, 14}
  <2>1. HexCode(w) # 15
    BY <1>3
  <2>2. CASE Sub(w) \in {0, 1, 12}
    BY <1>0, <1>3, <2>1, <2>2 DEF Executed
  <2>3. CASE Sub(w) = 4
    BY <1>0, <1>3, <2>1, <2>3 DEF insn_op
  <2>4. CASE Sub(w) \notin {0, 1, 4, 12}
    <3>1. insn_op(w) = group3_opnames[1 + Sub(w)]
      BY <1>0, <1>3, <2>4 DEF insn_op
    <3>2. Executed(w) = group3_opnames[1 + Sub(w)]
      BY <1>0, <1>3, <2>1, <2>4 DEF Executed
    <3> QED  BY <3>1, <3>2
  <2> QED  BY <2>2, <2>3, <2>4
<1>4. CASE w # 0 /\ System(w) /\ HexCode(w) = 15
  <2>1. CASE Sub(w) = 0
    BY <1>0, <1>4, <2>1 DEF Executed, insn_op
  <2>2. CASE Sub(w) = 12
    BY <1>0, <1>4, <2>2 DEF Executed, insn_op
  <2>3. CASE Sub(w) = 1
    <3>1. Executed(w) = register_name(d)
      BY <1>0, <1>4, <2>3 DEF Executed
    <3>2. insn_op(w) = IF d \div 32 = 0 THEN srg_names[1 + d \div 2] ELSE "none"
      BY <1>0, <1>4, <2>3 DEF insn_op
    <3>3. d \div 32 = 0 => d % 32 = d
      BY <1>0
    <3> QED  BY <1>0, <3>1, <3>2, <3>3 DEF register_name
  <2>4. CASE Sub(w) = 4
    <3>1. Executed(w) = control_name(d % 16)
      BY <1>0, <1>4, <2>4 DEF Executed
    <3>2. insn_op(w) = control_name(d)
      BY <1>0, <1>4, <2>4 DEF insn_op
    <3>3. d \in {0, 1, 2, 3, 8}
      BY <1>0, <3>2 DEF control_name, control_names
    <3>4. d % 16 = d
      BY <3>3
    <3> QED  BY <3>1, <3>2, <3>4
  <2>5. CASE Sub(w) \notin {0, 1, 4, 12}
    <3>1. insn_op(w) = group3_opnames[1 + Sub(w)]
      BY <1>0, <1>4, <2>5 DEF insn_op
    <3>2. Executed(w) = group3_opnames[1 + Sub(w)]
      BY <1>0, <1>4, <2>5 DEF Executed
    <3> QED  BY <3>1, <3>2
  <2> QED  BY <2>1, <2>2, <2>3, <2>4, <2>5
<1> QED  BY <1>0, <1>1, <1>2, <1>3, <1>4 DEF System

\* The listings of the simulator and of the disassembler agree on every word
\* of every image (fprint_sym, decode_insn).
THEOREM ListingsAgree == Spec => []NamesAgree
<1>1. TraceInv => NamesAgree
  <2> SUFFICES ASSUME image \in Images, NEW i \in Loaded
               PROVE  LET e == decode_insn(image[i])
                          s == fprint_sym(image[i])
                      IN  IF e.op = "none" THEN s.op \in {"none", "???"}
                          ELSE s = [op |-> e.op, mode |-> e.mode, number |-> e.number]
    BY DEF TraceInv, NamesAgree
  <2>1. image[i] \in Nat /\ image[i] < 65536
    BY LoadedWord
  <2> QED  BY <2>1, PrintedAlike DEF decode_insn
<1> QED  BY <1>1, TraceInvariant, PTL

\* A word of any image that is listed as an instruction is the one the CPU
\* executes (decode_insn, one_inst).
THEOREM ListingIsExecuted == Spec => []DecodesAsExecuted
<1>1. TraceInv => DecodesAsExecuted
  <2> SUFFICES ASSUME image \in Images, NEW i \in Loaded, Valid(image[i])
               PROVE  \/ decode_insn(image[i]).op = Executed(image[i])
                      \/ Executed(image[i]) = "operand"
                      \/ image[i] = 0
    BY DEF TraceInv, DecodesAsExecuted
  <2>1. image[i] \in Nat /\ image[i] < 65536
    BY LoadedWord
  <2> QED  BY <2>1, ListedAsExecuted DEF decode_insn
<1> QED  BY <1>1, TraceInvariant, PTL

----------------------------------------------------------------------------
(* The tables of the assembler. *)

Mnemonics1 == {"LDA", "LDE", "LDX", "EOR", "LEA", "ADD", "SUB", "IOR",
               "DIV", "AND", "CPS", "CMP", "MUL", "LBL", "LBR", "LBX"}
Mnemonics2 == {"DLD", "STA", "STE", "STX", "SBL", "SBR", "DST", "ADM",
               "SPA", "STS", "FAD", "FSU", "FMU", "FDV", "TRS", "MVS"}
Mnemonics3 == {"SHR", "SRG", "ICX", "DCX", "ICL", "DCL", "CSV",
               "CLS", "LDR", "STR", "LDP", "SHC", "TES"}
Mnemonics4 == {"BCT", "BRX", "BOT", "BCF", "BAN", "BAZ", "BOF", "BRU"}
MnemonicsShr == {"SLLS", "SRCS", "SAD", "SLCD", "SLCS", "SAS", "SRLS", "SRCD"}
MnemonicsShc == {"SLLD", "DITR", "PTY", "SRLD", "NLZ"}
MnemonicsSrg == {"RTS", "XAE", "XAX", "XEX", "XAA", "CCE", "RSV", "ACE",
                 "CCA", "AEE", "CNX", "AIE", "AAE", "LNE", "CNA", "CHX"}
MnemonicsControl == {"CLM", "DIT", "RD", "WD", "STM"}

\* The names of each table.
LEMMA NamesOfTables ==
  /\ Names(group1_opnames) = Mnemonics1
  /\ Names(group2_opnames) = Mnemonics2
  /\ Names(group3_opnames) = Mnemonics3
  /\ Names(group4_opnames) = Mnemonics4
  /\ Names(shr_names) = MnemonicsShr
  /\ Names(shc_names) = MnemonicsShc
  /\ Names(srg_names) = MnemonicsSrg
  /\ {control_names[n] : n \in DOMAIN control_names} = MnemonicsControl
<1>1. Names(group1_opnames) = Mnemonics1
  BY DEF Names, group1_opnames, Mnemonics1
<1>2. Names(group2_opnames) = Mnemonics2
  BY DEF Names, group2_opnames, Mnemonics2
<1>3. Names(group3_opnames) = Mnemonics3
  BY DEF Names, group3_opnames, Mnemonics3
<1>4. Names(group4_opnames) = Mnemonics4
  BY DEF Names, group4_opnames, Mnemonics4
<1>5. Names(shr_names) = MnemonicsShr
  BY DEF Names, shr_names, MnemonicsShr
<1>6. Names(shc_names) = MnemonicsShc
  BY DEF Names, shc_names, MnemonicsShc
<1>7. Names(srg_names) = MnemonicsSrg
  BY DEF Names, srg_names, MnemonicsSrg
<1>8. {control_names[n] : n \in DOMAIN control_names} = MnemonicsControl
  BY DEF control_names, MnemonicsControl
<1> QED  BY <1>1, <1>2, <1>3, <1>4, <1>5, <1>6, <1>7, <1>8

\* No name is in two tables.
LEMMA TablesAreDisjoint ==
  LET special == MnemonicsShr \cup MnemonicsShc \cup MnemonicsSrg \cup MnemonicsControl
  IN  /\ Mnemonics1 \cap (Mnemonics2 \cup Mnemonics3 \cup Mnemonics4 \cup special) = {}
      /\ Mnemonics2 \cap (Mnemonics3 \cup Mnemonics4 \cup special) = {}
      /\ Mnemonics3 \cap (Mnemonics4 \cup special) = {}
      /\ Mnemonics4 \cap special = {}
      /\ MnemonicsShr \cap (MnemonicsShc \cup MnemonicsSrg \cup MnemonicsControl) = {}
      /\ MnemonicsShc \cap (MnemonicsSrg \cup MnemonicsControl) = {}
      /\ MnemonicsSrg \cap MnemonicsControl = {}
BY DEF Mnemonics1, Mnemonics2, Mnemonics3, Mnemonics4, MnemonicsShr, MnemonicsShc,
       MnemonicsSrg, MnemonicsControl

\* The index of a name that a table has once.
LEMMA Indexes ==
  /\ \A k \in 0..15 : Index(group1_opnames, group1_opnames[1 + k]) = k
  /\ \A k \in 0..15 : Index(group2_opnames, group2_opnames[1 + k]) = k
  /\ \A k \in 0..15 : group3_opnames[1 + k] # "none"
                        => Index(group3_opnames, group3_opnames[1 + k]) = k
  /\ \A k \in 0..7 : Index(group4_opnames, group4_opnames[1 + k]) = k
  /\ \A k \in 0..7 : Index(shr_names, shr_names[1 + k]) = k
  /\ \A k \in 0..7 : shc_names[1 + k] # "none" => Index(shc_names, shc_names[1 + k]) = k
  /\ \A k \in 0..15 : Index(srg_names, srg_names[1 + k]) = k
<1>1. \A k \in 0..15 : Index(group1_opnames, group1_opnames[1 + k]) = k
  BY DEF Index, group1_opnames
<1>2. \A k \in 0..15 : Index(group2_opnames, group2_opnames[1 + k]) = k
  BY DEF Index, group2_opnames
<1>3. \A k \in 0..15 : group3_opnames[1 + k] # "none" => Index(group3_opnames, group3_opnames[1 + k]) = k
  BY DEF Index, group3_opnames
<1>4. \A k \in 0..7 : Index(group4_opnames, group4_opnames[1 + k]) = k
  BY DEF Index, group4_opnames
<1>5. \A k \in 0..7 : Index(shr_names, shr_names[1 + k]) = k
  BY DEF Index, shr_names
<1>6. \A k \in 0..7 : shc_names[1 + k] # "none" => Index(shc_names, shc_names[1 + k]) = k
  BY DEF Index, shc_names
<1>7. \A k \in 0..15 : Index(srg_names, srg_names[1 + k]) = k
  BY DEF Index, srg_names
<1> QED  BY <1>1, <1>2, <1>3, <1>4, <1>5, <1>6, <1>7

\* The bytes of a word.
HighByte(w) == w \div 256

LEMMA Bytes ==
  ASSUME NEW w \in Nat, w < 65536
  PROVE  /\ HighByte(w) \in Nat
         /\ HexCode(w) = HighByte(w) \div 16
         /\ Sub(w) = HighByte(w) % 16
         /\ w \div 8192 = HighByte(w) \div 32
         /\ w = 256 * HighByte(w) + Disp(w)
<1> DEFINE h == HighByte(w)
<1>1. /\ h \in Nat
      /\ 256 * h <= w /\ w < 256 * h + 256
      /\ w = 256 * h + Disp(w)
      /\ Sub(w) = h % 16
  BY DEF HighByte, Disp, Sub
<1> HIDE DEF h
<1>2. HexCode(w) = h \div 16
  <2> DEFINE q == h \div 16
  <2>1. q \in Nat /\ 16 * q <= h /\ h < 16 * q + 16
    BY <1>1
  <2> HIDE DEF q
  <2>2. 4096 * q <= w /\ w < 4096 * q + 4096
    BY <1>1, <2>1
  <2>3. w \div 4096 = q
    BY <2>1, <2>2
  <2> QED  BY <2>3 DEF q, HexCode
<1>3. w \div 8192 = h \div 32
  <2> DEFINE q == h \div 32
  <2>1. q \in Nat /\ 32 * q <= h /\ h < 32 * q + 32
    BY <1>1
  <2> HIDE DEF q
  <2>2. 8192 * q <= w /\ w < 8192 * q + 8192
    BY <1>1, <2>1
  <2>3. w \div 8192 = q
    BY <2>1, <2>2
  <2> QED  BY <2>3 DEF q
<1> QED  BY <1>1, <1>2, <1>3 DEF h

\* The names of instructions with an operand are in one table and have no
\* other name.
PlainNames == Mnemonics1 \cup Mnemonics2 \cup Mnemonics3 \cup Mnemonics4

LEMMA AliasOfPlain == \A op \in PlainNames : Alias(op) = op
BY DEF Alias, PlainNames, Mnemonics1, Mnemonics2, Mnemonics3, Mnemonics4

\* The first byte of an instruction with an operand, by its table.
LEMMA HexOfPlain ==
  /\ \A op \in Mnemonics1 : opcode_hex(op) = Offset(LoadModes, group1_opnames, op)
  /\ \A op \in Mnemonics2 :
       opcode_hex(op) = [m \in DOMAIN StoreModes |->
                           StoreModes[m] + 16 + Index(group2_opnames, op)]
  /\ \A op \in Mnemonics3 : opcode_hex(op) = Offset(SystemModes, group3_opnames, op)
  /\ \A op \in Mnemonics4 : opcode_hex(op) = Offset(BranchModes, group4_opnames, op)
<1> DEFINE Special == {"RTS", "RSV", "DITR"} \cup MnemonicsControl
<1>0. /\ \A op \in PlainNames : Alias(op) = op /\ op \notin Special
      /\ Mnemonics1 \cap (Mnemonics2 \cup Mnemonics3 \cup Mnemonics4) = {}
      /\ Mnemonics2 \cap (Mnemonics3 \cup Mnemonics4) = {}
      /\ Mnemonics3 \cap Mnemonics4 = {}
  <2>1. Special \subseteq MnemonicsShc \cup MnemonicsSrg \cup MnemonicsControl
    BY DEF MnemonicsShc, MnemonicsSrg
  <2> HIDE DEF Special
  <2> QED  BY <2>1, AliasOfPlain, TablesAreDisjoint DEF PlainNames
<1>1. ASSUME NEW op \in Mnemonics1
      PROVE  opcode_hex(op) = Offset(LoadModes, group1_opnames, op)
  <2>1. /\ Alias(op) = op /\ op \notin {"RTS", "RSV", "DITR"} \cup MnemonicsControl
        /\ op \notin Mnemonics2 \cup Mnemonics3 \cup Mnemonics4
    BY <1>0 DEF PlainNames
  <2> QED  BY <2>1, NamesOfTables DEF opcode_hex
<1>2. ASSUME NEW op \in Mnemonics2
      PROVE  opcode_hex(op) = [m \in DOMAIN StoreModes |->
                                 StoreModes[m] + 16 + Index(group2_opnames, op)]
  <2>1. /\ Alias(op) = op /\ op \notin {"RTS", "RSV", "DITR"} \cup MnemonicsControl
        /\ op \notin Mnemonics1 \cup Mnemonics3 \cup Mnemonics4
    BY <1>0 DEF PlainNames
  <2> QED  BY <2>1, NamesOfTables DEF opcode_hex
<1>3. ASSUME NEW op \in Mnemonics3
      PROVE  opcode_hex(op) = Offset(SystemModes, group3_opnames, op)
  <2>1. /\ Alias(op) = op /\ op \notin {"RTS", "RSV", "DITR"} \cup MnemonicsControl
        /\ op \notin Mnemonics1 \cup Mnemonics2 \cup Mnemonics4
    BY <1>0 DEF PlainNames
  <2> QED  BY <2>1, NamesOfTables DEF opcode_hex
<1>4. ASSUME NEW op \in Mnemonics4
      PROVE  opcode_hex(op) = Offset(BranchModes, group4_opnames, op)
  <2>1. /\ Alias(op) = op /\ op \notin {"RTS", "RSV", "DITR"} \cup MnemonicsControl
        /\ op \notin Mnemonics1 \cup Mnemonics2 \cup Mnemonics3
    BY <1>0 DEF PlainNames
  <2> QED  BY <2>1, NamesOfTables DEF opcode_hex
<1> QED  BY <1>1, <1>2, <1>3, <1>4

\* The first byte of a word is the one of its mnemonic in its mode.
LEMMA FirstByte ==
  ASSUME NEW w \in Nat, w < 65536, Valid(w), insn_class(w) # "none"
  PROVE  /\ insn_op(w) \in PlainNames
         /\ opcode_hex(insn_op(w))[ModeName(w)] = HighByte(w)
<1> DEFINE h == HighByte(w)
           s == Sub(w)
           op == insn_op(w)
<1>0. /\ HexCode(w) \in 0..15
      /\ s \in 0..15
      /\ Group1(w) \/ Group2(w) \/ Branch(w) \/ System(w)
      /\ System(w) => ~Group1(w) /\ ~Group2(w) /\ ~Branch(w)
      /\ Group1(w) => ~Group2(w) /\ ~Branch(w)
      /\ Group2(w) => ~Branch(w)
      /\ op # "none"
  BY Fields DEF Valid
<1>1. /\ h \in Nat
      /\ HexCode(w) = h \div 16
      /\ s = h % 16
      /\ w \div 8192 = h \div 32
  BY Bytes
<1> DEFINE j == h \div 32
           mode == <<"DL", "P", "DG", "IL", "IGX", "ILX">>[1 + j]
<1>2. CASE Group1(w)
  <2>1. op = group1_opnames[1 + s] /\ op \in Mnemonics1
    <3>1. op = group1_opnames[1 + s]
      BY <1>0, <1>2 DEF insn_op
    <3>2. \A k \in 0..15 : group1_opnames[1 + k] \in Mnemonics1
      BY DEF group1_opnames, Mnemonics1
    <3> QED  BY <1>0, <3>1, <3>2
  <2>2. ModeName(w) = mode
    <3>1. ~System(w) /\ HexCode(w) # 12 /\ HexCode(w) # 13
      BY <1>0, <1>2 DEF Branch
    <3> QED  BY <1>1, <3>1 DEF ModeName
  <2>3. j \in 0..5 /\ h = 32 * j + s
    BY <1>1, <1>2 DEF Group1
  <2>4. mode \in DOMAIN LoadModes /\ LoadModes[mode] = 32 * j
    BY <2>3 DEF LoadModes
  <2>5. Index(group1_opnames, op) = s
    BY <1>0, <2>1, Indexes
  <2>6. opcode_hex(op)[mode] = LoadModes[mode] + Index(group1_opnames, op)
    <3> HIDE DEF mode, op
    <3> QED  BY <2>1, <2>4, HexOfPlain DEF Offset
  <2> QED  BY <2>1, <2>2, <2>3, <2>4, <2>5, <2>6 DEF PlainNames
<1>3. CASE Group2(w)
  <2>1. op = group2_opnames[1 + s] /\ op \in Mnemonics2
    <3>1. op = group2_opnames[1 + s]
      BY <1>0, <1>3 DEF insn_op
    <3>2. \A k \in 0..15 : group2_opnames[1 + k] \in Mnemonics2
      BY DEF group2_opnames, Mnemonics2
    <3> QED  BY <1>0, <3>1, <3>2
  <2>2. ModeName(w) = mode
    <3>1. ~System(w) /\ HexCode(w) # 12 /\ HexCode(w) # 13
      BY <1>0, <1>3 DEF Branch
    <3> QED  BY <1>1, <3>1 DEF ModeName
  <2>3. j \in {0, 2, 3, 4, 5} /\ h = 32 * j + 16 + s
    BY <1>1, <1>3 DEF Group2
  <2>4. mode \in DOMAIN StoreModes /\ StoreModes[mode] = 32 * j
    BY <2>3 DEF StoreModes
  <2>5. Index(group2_opnames, op) = s
    BY <1>0, <2>1, Indexes
  <2>6. opcode_hex(op)[mode] = StoreModes[mode] + 16 + Index(group2_opnames, op)
    <3> HIDE DEF mode, op
    <3> QED  BY <2>1, <2>4, HexOfPlain
  <2> QED  BY <2>1, <2>2, <2>3, <2>4, <2>5, <2>6 DEF PlainNames
<1>4. CASE Branch(w)
  <2> DEFINE kind == s % 8
  <2>1. op = group4_opnames[1 + kind] /\ op \in Mnemonics4 /\ kind \in 0..7
    <3>1. op = group4_opnames[1 + kind]
      BY <1>0, <1>4 DEF insn_op
    <3>2. \A k \in 0..7 : group4_opnames[1 + k] \in Mnemonics4
      BY DEF group4_opnames, Mnemonics4
    <3>3. kind \in 0..7
      BY <1>0
    <3> QED  BY <3>1, <3>2, <3>3
  <2>2. /\ ModeName(w) \in DOMAIN BranchModes
        /\ BranchModes[ModeName(w)] = 16 * HexCode(w) + (IF s >= 8 THEN 8 ELSE 0)
    <3>1. ModeName(w) = IF HexCode(w) = 12 THEN IF s >= 8 THEN "RM" ELSE "RP"
                        ELSE IF s >= 8 THEN "IG" ELSE "IL"
      BY <1>0, <1>4 DEF ModeName, Branch
    <3>2. HexCode(w) \in {12, 13}
      BY <1>4 DEF Branch
    <3> QED  BY <3>1, <3>2 DEF BranchModes
  <2>3. h = 16 * HexCode(w) + (IF s >= 8 THEN 8 ELSE 0) + kind
    BY <1>1
  <2>4. Index(group4_opnames, op) = kind
    BY <2>1, Indexes
  <2>5. opcode_hex(op)[ModeName(w)] = BranchModes[ModeName(w)] + Index(group4_opnames, op)
    <3> HIDE DEF op
    <3> QED  BY <2>1, <2>2, HexOfPlain DEF Offset
  <2> QED  BY <1>0, <2>1, <2>2, <2>3, <2>4, <2>5 DEF PlainNames
<1>5. CASE System(w)
  <2>0. s \notin {0, 1, 4, 12}
    BY <1>5 DEF insn_class
  <2>1. op = group3_opnames[1 + s] /\ op \in Mnemonics3
    <3>1. op = group3_opnames[1 + s]
      BY <1>0, <1>5, <2>0 DEF insn_op
    <3>2. \A k \in 0..15 : group3_opnames[1 + k] \in Mnemonics3 \cup {"none"}
      BY DEF group3_opnames, Mnemonics3
    <3> QED  BY <1>0, <3>1, <3>2
  <2>2. /\ ModeName(w) \in DOMAIN SystemModes
        /\ SystemModes[ModeName(w)] = 16 * HexCode(w)
    <3>1. ModeName(w) = IF HexCode(w) = 3 THEN "DL"
                        ELSE IF HexCode(w) = 14 THEN "PX" ELSE "P"
      <4>1. HexCode(w) # 12 /\ HexCode(w) # 13
        BY <1>5 DEF System
      <4> QED  BY <1>5, <4>1 DEF ModeName
    <3>2. HexCode(w) \in {3, 14, 15}
      BY <1>5 DEF System
    <3> QED  BY <3>1, <3>2 DEF SystemModes
  <2>3. h = 16 * HexCode(w) + s
    BY <1>1
  <2>4. Index(group3_opnames, op) = s
    BY <1>0, <2>1, Indexes
  <2>5. opcode_hex(op)[ModeName(w)] = SystemModes[ModeName(w)] + Index(group3_opnames, op)
    <3> HIDE DEF op
    <3> QED  BY <2>1, <2>2, HexOfPlain DEF Offset
  <2> QED  BY <1>0, <2>1, <2>2, <2>3, <2>4, <2>5 DEF PlainNames
<1> QED  BY <1>0, <1>2, <1>3, <1>4, <1>5

----------------------------------------------------------------------------
(* A line assembles to its word. *)

\* The word, or the word but for the bit that selects a byte.
Recovered(v, w) == v = w \/ SameButByte(v, w)

LEMMA SystemMode ==
  ASSUME NEW w \in Nat, w < 65536, System(w)
  PROVE  /\ ModeName(w) \in {"DL", "PX", "P"}
         /\ SystemModes[ModeName(w)] = 16 * HexCode(w)
         /\ ModeName(w) = "P" <=> HexCode(w) = 15
<1>1. ModeName(w) = IF HexCode(w) = 3 THEN "DL"
                    ELSE IF HexCode(w) = 14 THEN "PX" ELSE "P"
  <2>1. HexCode(w) # 12 /\ HexCode(w) # 13
    BY DEF System
  <2> QED  BY <2>1 DEF ModeName
<1>2. HexCode(w) \in {3, 14, 15}
  BY DEF System
<1> QED  BY <1>1, <1>2 DEF SystemModes

\* An instruction without address: its name and number give the word back.
LEMMA WithoutAddress ==
  ASSUME NEW w \in Nat, w < 65536, Valid(w), insn_class(w) = "none", NEW i,
         NEW l, l.op = insn_op(w), l.mode = ModeName(w),
         Value(l.operand) = insn_number(w)
  PROVE  Recovered(encode_listing_insn(i, w, l), w)
<1> DEFINE d == Disp(w)
           op == insn_op(w)
           mode == ModeName(w)
           S == SystemModes[mode]
           kind == d \div 32
           rest == d % 32
           n == insn_number(w)
           E == encode_listing_insn(i, w, l)
<1>0. /\ HexCode(w) \in 0..15
      /\ d \in Nat /\ d < 256
      /\ System(w) => ~Group1(w) /\ ~Group2(w) /\ ~Branch(w)
      /\ op # "none"
  BY Fields DEF Valid
<1>1. System(w) /\ Sub(w) \in {0, 1, 4, 12}
  BY DEF insn_class
<1>2. /\ mode \in {"DL", "PX", "P"}
      /\ S = 16 * HexCode(w)
      /\ mode = "P" <=> HexCode(w) = 15
  BY <1>1, SystemMode
<1>3. w = 256 * (16 * HexCode(w) + Sub(w)) + d
  <2>1. HighByte(w) = 16 * HexCode(w) + Sub(w) /\ w = 256 * HighByte(w) + d
    BY Bytes
  <2> QED  BY <2>1
<1>4. /\ derived_shifts = MnemonicsShr
      /\ derived_shc = MnemonicsShc \ {"DITR"}
      /\ derived_srg = MnemonicsSrg \ {"RTS"}
  BY NamesOfTables DEF derived_shifts, derived_shc, derived_srg
<1>5. kind \in 0..7 /\ rest \in 0..31
  BY <1>0
<1>6. d = 32 * kind + rest
  <2>1. kind = d \div 32 /\ rest = d % 32
    OBVIOUS
  <2> HIDE DEF kind, rest
  <2> QED  BY <1>0, <1>5, <2>1
<1>7. CASE Sub(w) = 0
  <2>1. op = shr_names[1 + kind]
    BY <1>0, <1>1, <1>7 DEF insn_op
  <2>2. op \in MnemonicsShr
    <3>1. \A k \in 0..7 : shr_names[1 + k] \in MnemonicsShr
      BY DEF shr_names, MnemonicsShr
    <3> QED  BY <1>5, <2>1, <3>1
  <2>3. op \notin derived_shc \cup derived_srg \cup {"RTS", "DITR"} \cup MnemonicsControl
    BY <1>4, <2>2, TablesAreDisjoint DEF MnemonicsShc, MnemonicsSrg
  <2>4. n = rest
    BY <1>0, <1>1, <1>7 DEF insn_number
  <2>5. E = (S + 0) * 256 + 32 * Index(shr_names, op)
              + (IF Value(l.operand) \in 0..31 THEN Value(l.operand) ELSE w % 256)
    BY <1>2, <1>4, <2>2, <2>3
    DEF encode_listing_insn, Family, Count, MnemonicsControl
  <2>6. Index(shr_names, op) = kind
    BY <1>5, <2>1, Indexes
  <2>7. Value(l.operand) = rest
    BY <2>4
  <2> HIDE DEF E, S, op, kind, rest, d, n
  <2>8. E = (S + 0) * 256 + 32 * kind + rest
    BY <1>5, <2>5, <2>6, <2>7
  <2>9. E = w
    BY <1>0, <1>2, <1>3, <1>5, <1>6, <1>7, <2>8
  <2> QED  BY <2>9 DEF Recovered, E
<1>8. CASE Sub(w) = 12 /\ kind # 1
  <2>1. op = shc_names[1 + kind]
    BY <1>0, <1>1, <1>8 DEF insn_op
  <2>2. op \in MnemonicsShc \ {"DITR"}
    <3>1. \A k \in 0..7 : k # 1 => shc_names[1 + k] \in (MnemonicsShc \ {"DITR"}) \cup {"none"}
      BY DEF shc_names, MnemonicsShc
    <3> QED  BY <1>0, <1>5, <1>8, <2>1, <3>1
  <2>3. op \notin derived_shifts \cup derived_srg \cup {"RTS", "DITR"} \cup MnemonicsControl
    BY <1>4, <2>2, TablesAreDisjoint DEF MnemonicsSrg
  <2>4. n = rest
    BY <1>0, <1>1, <1>8 DEF insn_number
  <2>5. E = (S + 12) * 256 + 32 * Index(shc_names, op)
              + (IF Value(l.operand) \in 0..31 THEN Value(l.operand) ELSE w % 256)
    BY <1>2, <1>4, <2>2, <2>3
    DEF encode_listing_insn, Family, Count, MnemonicsControl
  <2>6. Index(shc_names, op) = kind
    BY <1>0, <1>5, <2>1, Indexes
  <2>7. Value(l.operand) = rest
    BY <2>4
  <2> HIDE DEF E, S, op, kind, rest, d, n
  <2>8. E = (S + 12) * 256 + 32 * kind + rest
    BY <1>5, <2>5, <2>6, <2>7
  <2>9. E = w
    BY <1>0, <1>2, <1>3, <1>5, <1>6, <1>8, <2>8
  <2> QED  BY <2>9 DEF Recovered, E
<1>9. CASE Sub(w) = 12 /\ kind = 1
  <2>1. op = "DITR"
    <3>1. op = shc_names[1 + kind]
      BY <1>0, <1>1, <1>9 DEF insn_op
    <3> QED  BY <1>9, <3>1 DEF shc_names
  <2>2. op \notin derived_shifts \cup derived_shc \cup derived_srg \cup {"RTS"}
                    \cup MnemonicsControl
    BY <1>4, <2>1 DEF MnemonicsShr, MnemonicsSrg, MnemonicsControl
  <2>3. E = IF w - (w % 32) = opcode_hex(op)[mode] THEN w ELSE opcode_hex(op)[mode]
    BY <1>2, <2>1, <2>2 DEF encode_listing_insn, MnemonicsControl
  <2>4. opcode_hex(op)[mode] = 256 * (16 * HexCode(w) + 12) + 32
    <3>1. opcode_hex(op) = [DL |-> 15392, PX |-> 60448, P |-> 64544]
      <4>1. Alias(op) = op
        BY <2>1 DEF Alias
      <4>2. op \notin Mnemonics1 \cup Mnemonics2 \cup Mnemonics3 \cup Mnemonics4
                        \cup {"RTS", "RSV"} \cup MnemonicsControl
        BY <2>1 DEF Mnemonics1, Mnemonics2, Mnemonics3, Mnemonics4, MnemonicsControl
      <4> HIDE DEF op
      <4> QED  BY <2>1, <4>1, <4>2, NamesOfTables DEF opcode_hex
    <3>2. \/ mode = "DL" /\ HexCode(w) = 3
          \/ mode = "PX" /\ HexCode(w) = 14
          \/ mode = "P" /\ HexCode(w) = 15
      BY <1>0, <1>2 DEF SystemModes
    <3> HIDE DEF mode, op
    <3> QED  BY <3>1, <3>2
  <2> HIDE DEF E, S, op, kind, d, n
  <2>5. w % 32 = rest
    <3> DEFINE q == 8 * (16 * HexCode(w) + Sub(w)) + kind
    <3>1. Sub(w) \in Nat
      BY <1>9
    <3> HIDE DEF rest
    <3>2. q \in Nat /\ w = 32 * q + rest
      BY <1>0, <1>3, <1>5, <1>6, <3>1
    <3> HIDE DEF q
    <3> QED  BY <1>5, <3>2
  <2>6. w - (w % 32) = 256 * (16 * HexCode(w) + 12) + 32
    <3> HIDE DEF rest
    <3> QED  BY <1>0, <1>3, <1>5, <1>6, <1>9, <2>5
  <2>7. E = w
    BY <2>3, <2>4, <2>6
  <2> QED  BY <2>7 DEF Recovered, E
<1>10. CASE Sub(w) = 1
  <2> DEFINE k == d \div 2
  <2>1. kind = 0 /\ op = srg_names[1 + k]
    BY <1>0, <1>1, <1>10 DEF insn_op
  <2>2. k \in 0..15
    BY <1>0, <2>1
  <2>3. Index(srg_names, op) = k
    BY <2>1, <2>2, Indexes
  <2>4. op \in MnemonicsSrg
    <3>1. \A j \in 0..15 : srg_names[1 + j] \in MnemonicsSrg
      BY DEF srg_names, MnemonicsSrg
    <3> HIDE DEF k
    <3> QED  BY <2>1, <2>2, <3>1
  <2>5. op \notin derived_shifts \cup derived_shc \cup {"DITR"} \cup MnemonicsControl
    BY <1>4, <2>4, TablesAreDisjoint DEF MnemonicsShc
  <2>6. w \div 2 = 128 * (16 * HexCode(w) + 1) + k
    <3>1. 2 * k <= d /\ d < 2 * k + 2 /\ k \in Nat
      BY <1>0
    <3> DEFINE q == 128 * (16 * HexCode(w) + 1) + k
    <3> HIDE DEF k, d
    <3>2. q \in Nat /\ 2 * q <= w /\ w < 2 * q + 2
      BY <1>0, <1>3, <1>10, <3>1
    <3> HIDE DEF q
    <3>3. w \div 2 = q
      BY <3>2
    <3> QED  BY <3>3 DEF q
  <2>7. CASE op # "RTS"
    <3>1. E = (S + 1) * 256 + 2 * Index(srg_names, op)
      BY <1>2, <1>4, <2>4, <2>5, <2>7 DEF encode_listing_insn, MnemonicsControl
    <3> HIDE DEF E, S, op, k
    <3> DEFINE q == 128 * (16 * HexCode(w) + 1) + k
    <3>2. E = 2 * q /\ q \in Nat
      BY <1>0, <1>2, <2>2, <2>3, <3>1
    <3> HIDE DEF q
    <3>3. E \div 2 = q
      BY <3>2
    <3>4. E \div 2 = w \div 2
      BY <2>6, <3>3 DEF q
    <3> QED  BY <3>4 DEF Recovered, SameButByte, E
  <2>8. CASE op = "RTS"
    <3>1. E = IF mode = "P" THEN 61696 ELSE w
      BY <1>2, <1>4, <2>5, <2>8 DEF encode_listing_insn, MnemonicsControl
    <3>2. k = 0
      <4>1. Index(srg_names, "RTS") = 0
        <5>1. srg_names[1 + 0] = "RTS"
          BY DEF srg_names
        <5> QED  BY <5>1, Indexes
      <4> HIDE DEF k, op
      <4> QED  BY <2>3, <2>8, <4>1
    <3> HIDE DEF E, op, k, mode
    <3>3. mode = "P" => w \div 2 = 61696 \div 2
      BY <1>2, <2>6, <3>2
    <3>4. E = w \/ E \div 2 = w \div 2
      BY <3>1, <3>3
    <3> QED  BY <3>4 DEF Recovered, SameButByte, E
  <2> QED  BY <2>7, <2>8
<1>11. CASE Sub(w) = 4
  <2>1. HexCode(w) = 15 /\ op = control_name(d)
    BY <1>0, <1>1, <1>11 DEF insn_op
  <2>2. d \in DOMAIN control_names /\ op = control_names[d]
    BY <1>0, <2>1 DEF control_name
  <2>3. op \in MnemonicsControl
    BY <2>2, NamesOfTables
  <2>4. op \notin derived_shifts \cup derived_shc \cup derived_srg \cup {"RTS", "DITR"}
    BY <1>4, <2>3, TablesAreDisjoint DEF MnemonicsShc, MnemonicsSrg
  <2>5. E = opcode_hex(op)[mode]
    BY <1>2, <2>3, <2>4 DEF encode_listing_insn, MnemonicsControl
  <2>6. opcode_hex(op) = [P |-> 62464 + d]
    <3>1. Alias(op) = op
      BY <2>3 DEF Alias, MnemonicsControl
    <3>2. op \notin Mnemonics1 \cup Mnemonics2 \cup Mnemonics3 \cup Mnemonics4
                      \cup {"RTS", "RSV", "DITR"}
      BY <2>3, TablesAreDisjoint DEF MnemonicsShc, MnemonicsSrg
    <3>3. control_number(op) = d
      <4>1. \A m \in DOMAIN control_names : control_names[m] = op => m = d
        <5>1. \A j, m \in DOMAIN control_names :
                control_names[m] = control_names[j] => m = j
          BY DEF control_names
        <5> QED  BY <2>2, <5>1
      <4> HIDE DEF op, d
      <4> QED  BY <2>2, <4>1 DEF control_number
    <3> HIDE DEF op, d
    <3> QED  BY <2>3, <3>1, <3>2, <3>3, NamesOfTables DEF opcode_hex
  <2>7. E = w
    <3> HIDE DEF E, op, mode, d
    <3> QED  BY <1>0, <1>2, <1>3, <1>11, <2>1, <2>5, <2>6
  <2> QED  BY <2>7 DEF Recovered
<1> QED  BY <1>1, <1>7, <1>8, <1>9, <1>10, <1>11

\* What is printed of an operand: nothing the assembler can count with, or the
\* displacement, or the label of the word at the address that is written.
Shown(form, value) == [form |-> form, value |-> value]

LEMMA OperandShown ==
  ASSUME image \in Images, opt.given => opt.G = 0, NEW i \in Loaded, NEW c,
         insn_class(image[i]) # "none"
  PROVE  LET d == Disp(image[i])
             a == direct(decode_insn(image[i]), i, d)
             t == operand_text(i, c)
         IN  \/ t = Shown("text", 0)
             \/ t = Shown("$+X", 0)
             \/ ModeName(image[i]) \notin {"RP", "RM"} /\ t = Shown("number", d)
             \/ a # NONE /\ t = Shown("label", Idx(a))
<1> DEFINE w == image[i]
           d == Disp(w)
           insn == decode_insn(w)
           a == direct(insn, i, d)
           o == compute_operand(i, c.marks)
           t == operand_text(i, c)
           relative == insn.mode \in {"RP", "RM"}
           indirect == insn.mode \in {"IL", "ILX", "IG", "IGX"}
<1>1. /\ insn.class = insn_class(w) /\ insn.class # "none" /\ insn.mode = ModeName(w)
  BY DEF decode_insn
<1>2. insn.class \in {"mem", "sys"} => ~relative
  <2>1. Branch(w) => insn_class(w) = "branch"
    BY DEF insn_class, Branch, System
  <2>2. ~Branch(w) => ModeName(w) \notin {"RP", "RM"}
    <3>1. w \in Nat /\ w < 65536
      BY LoadedWord
    <3>2. CASE System(w)
      BY <3>1, <3>2, SystemMode
    <3>3. CASE ~System(w) /\ ~Branch(w)
      <4>1. ModeName(w) = <<"DL", "P", "DG", "IL", "IGX", "ILX">>[1 + w \div 8192]
        <5>1. HexCode(w) # 12 /\ HexCode(w) # 13
          BY <3>3 DEF Branch
        <5> QED  BY <3>3, <5>1 DEF ModeName
      <4>2. w \div 8192 \in 0..5
        <5>1. HexCode(w) \in 0..15 /\ HexCode(w) \notin {12, 13, 14, 15}
          BY <3>1, <3>3, Fields DEF Branch, System
        <5>2. w < 49152
          BY <3>1, <5>1 DEF HexCode
        <5> QED  BY <3>1, <5>2
      <4>3. \A k \in 0..5 :
              <<"DL", "P", "DG", "IL", "IGX", "ILX">>[1 + k] \notin {"RP", "RM"}
        OBVIOUS
      <4> QED  BY <4>1, <4>2, <4>3
    <3> QED  BY <3>2, <3>3
  <2> QED  BY <1>1, <2>1, <2>2
<1>3. /\ o.ea = IF indirect THEN pointed(a, c.marks) ELSE a
      /\ o.ptr = IF indirect THEN a ELSE NONE
      /\ o.goff = IF insn.mode \in {"DG", "IG", "IGX"} /\ ~opt.given THEN d ELSE NONE
  BY <1>1 DEF compute_operand, operand_of
<1>4. indirect /\ o.goff = NONE => o.ptr # NONE
  <2>1. d \in Nat /\ d < 256
    <3>1. w \in Nat /\ w < 65536
      BY LoadedWord
    <3> QED  BY <3>1, Fields
  <2>2. insn.mode \in {"IL", "ILX"} => a = d
    BY <1>1 DEF direct
  <2>3. insn.mode \in {"IG", "IGX"} /\ opt.given => a = d
    <3> HIDE DEF insn, d
    <3>1. insn.mode \in {"IG", "IGX"} /\ opt.given => a = (opt.G + d) % 65536
      BY <1>1 DEF direct
    <3> QED  BY <2>1, <3>1
  <2>4. d # NONE
    BY <2>1 DEF NONE
  <2> HIDE DEF insn, a, d, o
  <2> QED  BY <1>3, <2>2, <2>3, <2>4
<1> DEFINE lab(x) == IF Idx(x) \in c.labels THEN Shown("label", Idx(x)) ELSE Shown("text", 0)
<1>5. \/ t = Shown("$+X", 0)
      \/ ~relative /\ t = Shown("number", d)
      \/ t = (IF o.goff # NONE
                THEN IF o.goff < 32 THEN Shown("text", 0) ELSE Shown("number", o.goff)
              ELSE IF o.ptr # NONE THEN lab(o.ptr)
              ELSE IF o.ea # NONE THEN lab(o.ea)
              ELSE Shown("text", 0))
  <2>1. CASE IsBrx(w)
    <3>1. t = Shown("$+X", 0)
      <4>1. insn.class \notin {"mem", "sys"}
        BY <2>1 DEF IsBrx, insn_class, decode_insn, Branch, System
      <4> QED  BY <1>1, <2>1, <4>1 DEF operand_text, Shown
    <3> QED  BY <3>1
  <2>2. CASE ~IsBrx(w) /\ insn.class \in {"mem", "sys"} /\ insn.mode = "P"
    <3>1. t = Shown("number", d)
      BY <1>1, <2>2 DEF operand_text, Shown
    <3> QED  BY <1>2, <2>2, <3>1
  <2>3. CASE ~IsBrx(w) /\ ~(insn.class \in {"mem", "sys"} /\ insn.mode = "P")
    BY <1>1, <2>3 DEF operand_text, Shown
  <2> QED  BY <2>1, <2>2, <2>3
<1>6. relative => o.goff = NONE
  BY <1>3
<1>7. o.goff \in {d, NONE} /\ (o.ptr # NONE => o.ptr = a)
  BY <1>3
<1>8. o.goff = NONE /\ o.ptr = NONE => o.ea = a
  BY <1>3, <1>4
<1> HIDE DEF insn, a, d, o, t
<1>9. \/ t = Shown("text", 0)
      \/ t = Shown("$+X", 0)
      \/ ~relative /\ t = Shown("number", d)
      \/ a # NONE /\ t = Shown("label", Idx(a))
  BY <1>5, <1>6, <1>7, <1>8
<1> QED  BY <1>1, <1>9 DEF insn, a, d, t

\* An instruction with an operand: the first byte is the one of its name and
\* mode, and the second is what the text of the operand gives, or the column.
LEMMA WithAddress ==
  ASSUME image \in Images, opt.given => opt.G = 0, NEW i \in Loaded, NEW c,
         Valid(image[i]), insn_class(image[i]) # "none",
         NEW l, l.op = insn_op(image[i]), l.mode = ModeName(image[i]),
         l.operand = operand_text(i, c)
  PROVE  Recovered(encode_listing_insn(i, image[i], l), image[i])
<1> DEFINE w == image[i]
           d == Disp(w)
           h == HighByte(w)
           op == insn_op(w)
           mode == ModeName(w)
           a == direct(decode_insn(w), i, d)
           t == operand_text(i, c)
           v == Value(t)
           diff == IF mode = "RP" THEN v - 2 * i ELSE 2 * i - v
           with(n) == WithByte(h, w, n)
           E == encode_listing_insn(i, w, l)
           relative == mode \in {"RP", "RM"}
<1>1. /\ i \in Nat /\ i < 32768
      /\ w \in Nat /\ w < 65536
  BY LoadedWord
<1>2. /\ d \in Nat /\ d < 256
      /\ h \in Nat /\ w = 256 * h + d
      /\ w % 256 = d
  <2>1. d \in Nat /\ d < 256
    BY <1>1, Fields
  <2>2. h \in Nat /\ w = 256 * h + d
    BY <1>1, Bytes
  <2>3. w % 256 = d
    BY DEF Disp
  <2> QED  BY <2>1, <2>2, <2>3
<1>3. op \in PlainNames /\ opcode_hex(op)[mode] = h
  BY <1>1, FirstByte
<1>4. E = IF relative
            THEN with(IF t.form = "$+X" \/ v = NONE \/ diff % 2 = 1 THEN NONE
                      ELSE IF diff < 0 THEN NONE ELSE diff \div 2)
            ELSE with(IF t.form = "empty" THEN NONE ELSE v)
  <2>1. op \notin derived_shifts \cup derived_shc \cup derived_srg
                    \cup {"RTS", "DITR", "CLM", "DIT", "RD", "WD", "STM"}
    BY <1>3, NamesOfTables, TablesAreDisjoint
       DEF PlainNames, derived_shifts, derived_shc, derived_srg, MnemonicsShc,
           MnemonicsSrg, MnemonicsControl
  <2> HIDE DEF op, mode, h, t
  <2>2. l.op = op /\ l.mode = mode /\ l.operand = t
    BY DEF op, mode, t
  <2>3. CASE relative
    BY <1>3, <2>1, <2>2, <2>3 DEF encode_listing_insn, BranchDisplaced
  <2>4. CASE ~relative
    BY <1>3, <2>1, <2>2, <2>4 DEF encode_listing_insn, Displaced, Value
  <2> QED  BY <2>3, <2>4
<1>5. \/ t = Shown("text", 0)
      \/ t = Shown("$+X", 0)
      \/ ~relative /\ t = Shown("number", d)
      \/ a # NONE /\ t = Shown("label", Idx(a))
  BY OperandShown
<1>6. /\ t = Shown("text", 0) => v = NONE
      /\ t = Shown("$+X", 0) => v = NONE /\ t.form = "$+X"
      /\ t = Shown("number", d) => v = d /\ t.form = "number"
      /\ t = Shown("label", Idx(a)) => v = 2 * Idx(a) /\ t.form = "label"
  <2> HIDE DEF t, a, d
  <2> QED  BY DEF Value, eval_listing_expr, Shown, NONE
<1>7. a # NONE => a = IF mode = "RP" THEN (2 * i + 2 * d) % 65536
                      ELSE IF mode = "RM" THEN (2 * i - 2 * d) % 65536
                      ELSE d
  <2> DEFINE insn == decode_insn(w)
  <2>1. insn.mode = mode /\ a = direct(insn, i, d)
    BY DEF decode_insn
  <2>2. opt.given => (opt.G + d) % 65536 = d
    <3> HIDE DEF d
    <3> QED  BY <1>2
  <2> HIDE DEF insn, mode, a, d
  <2> QED  BY <2>1, <2>2 DEF direct
<1>8. E \in {256 * h + d, 256 * h + 2 * (d \div 2)}
  <2>1. NONE \notin 0..255 /\ d \in 0..255
    <3> HIDE DEF d
    <3> QED  BY <1>2 DEF NONE
  <2>2. with(NONE) = 256 * h + d /\ with(d) = 256 * h + d
    <3> HIDE DEF h, d, w
    <3> QED  BY <1>2, <2>1 DEF WithByte
  <2>3. with(2 * (d \div 2)) = 256 * h + 2 * (d \div 2)
    <3> HIDE DEF h, d, w
    <3>1. 2 * (d \div 2) \in 0..255
      BY <1>2
    <3> DEFINE e == 2 * (d \div 2)
    <3> HIDE DEF e
    <3>2. with(e) = 256 * h + e
      BY <1>2, <3>1 DEF e, WithByte
    <3> QED  BY <3>2 DEF e
  <2>4. CASE ~relative
    <3>1. a # NONE => a = d
      BY <1>7, <2>4
    <3>2. Idx(d) = d \div 2
      BY DEF Idx
    <3>3. \/ v = NONE
          \/ v \in {d, 2 * (d \div 2)} /\ t.form # "empty"
      <4> HIDE DEF v, t, a, d, mode
      <4> QED  BY <1>5, <1>6, <3>1, <3>2
    <3>4. E = with(IF t.form = "empty" THEN NONE ELSE v)
      <4> HIDE DEF v, t, d, E, h, w, diff
      <4> QED  BY <1>4, <2>4
    <3>5. E = with(NONE) \/ (E = with(v) /\ v \in {d, 2 * (d \div 2)})
      <4> HIDE DEF with
      <4> HIDE DEF v, t, d, E, h, w
      <4> QED  BY <3>3, <3>4
    <3> HIDE DEF v, E, h, d, w
    <3> QED  BY <2>2, <2>3, <3>5
  <2>5. CASE relative
    <3>1. v # NONE => /\ t.form = "label"
                      /\ a # NONE
                      /\ v = 2 * Idx(a)
      <4> HIDE DEF v, t, a, d, mode
      <4> QED  BY <1>5, <1>6, <2>5
    <3>2. v # NONE => diff = 2 * d \/ diff < 0
      <4> SUFFICES ASSUME v # NONE PROVE diff = 2 * d \/ diff < 0
        OBVIOUS
      <4>1. v = 2 * Idx(a) /\ a # NONE
        BY <3>1
      <4>2. CASE mode = "RP"
        <5>1. a = (2 * i + 2 * d) % 65536
          BY <1>7, <4>1, <4>2
        <5> HIDE DEF a, d, mode, v
        <5>2. v = a
          BY <1>1, <1>2, <4>1, <5>1 DEF Idx
        <5> QED  BY <1>1, <1>2, <4>2, <5>1, <5>2
      <4>3. CASE mode = "RM"
        <5>1. a = (2 * i - 2 * d) % 65536
          BY <1>7, <4>1, <4>3
        <5> HIDE DEF a, d, mode, v
        <5>2. v = a
          BY <1>1, <1>2, <4>1, <5>1 DEF Idx
        <5> QED  BY <1>1, <1>2, <4>3, <5>1, <5>2
      <4> QED  BY <2>5, <4>2, <4>3
    <3>3. E = with(NONE) \/ E = with(d)
      <4>1. diff = 2 * d => diff \div 2 = d
        <5> HIDE DEF diff, d
        <5> QED  BY <1>2
      <4> HIDE DEF diff, d, v, t, E, h, w
      <4> QED  BY <1>4, <2>5, <3>2, <4>1
    <3> HIDE DEF E, h, d, w
    <3> QED  BY <2>2, <3>3
  <2> QED  BY <2>4, <2>5
<1>9. E = w \/ E \div 2 = w \div 2
  <2> HIDE DEF E, h, d, w
  <2>1. CASE E = 256 * h + d
    BY <1>2, <2>1
  <2>2. CASE E = 256 * h + 2 * (d \div 2)
    <3> DEFINE q == 128 * h + (d \div 2)
    <3>1. /\ q \in Nat
          /\ 2 * q <= E /\ E < 2 * q + 2
          /\ 2 * q <= w /\ w < 2 * q + 2
          /\ E \in Int /\ w \in Int
      BY <1>2, <2>2
    <3> HIDE DEF q
    <3>2. E \div 2 = q /\ w \div 2 = q
      BY <3>1
    <3> QED  BY <3>2
  <2> QED  BY <1>8, <2>1, <2>2
<1> QED  BY <1>9 DEF Recovered, SameButByte

\* Where addresses are as the assembler counts them, every line that is printed
\* assembles to the word it stands for, and the column agrees with the text.
Faithful(i, l) ==
  Assembled(i, image[i], l) = [word |-> image[i], mismatch |-> FALSE]

LEMMA LineIsFaithful ==
  ASSUME image \in Images, opt.given => opt.G = 0, NEW i \in Loaded, NEW c
  PROVE  Faithful(i, Line(i, c))
<1> DEFINE w == image[i]
           l == Line(i, c)
           v == IF l.op = "word" THEN w ELSE encode_listing_insn(i, w, l)
<1>1. w \in Nat /\ w < 65536
  BY LoadedWord
<1>2. l.op = "word" \/ Recovered(encode_listing_insn(i, w, l), w)
  <2> SUFFICES ASSUME l.op # "word"
               PROVE  Recovered(encode_listing_insn(i, w, l), w)
    OBVIOUS
  <2>1. /\ Valid(w)
        /\ l = [op |-> insn_op(w), mode |-> ModeName(w), operand |-> operand_text(i, c)]
    <3>1. \/ l = [op |-> "word", mode |-> "none",
                  operand |-> [form |-> "empty", value |-> 0]]
          \/ Valid(w) /\ l = [op |-> insn_op(w), mode |-> ModeName(w),
                              operand |-> operand_text(i, c)]
      BY DEF Line
    <3> HIDE DEF l
    <3> QED  BY <3>1
  <2>2. /\ l.op = insn_op(w) /\ l.mode = ModeName(w)
        /\ l.operand = operand_text(i, c)
    <3> HIDE DEF l
    <3> QED  BY <2>1
  <2> HIDE DEF l
  <2>3. CASE insn_class(w) = "none"
    <3>1. operand_text(i, c) = IF insn_number(w) = 0 THEN Shown("empty", 0)
                               ELSE Shown("number", insn_number(w))
      <4> DEFINE insn == decode_insn(w)
      <4>1. /\ insn.class = "none" /\ insn.number = insn_number(w)
            /\ decode_insn(w) = insn
        BY <2>3 DEF decode_insn
      <4> HIDE DEF insn
      <4>2. operand_text(i, c) = IF insn.number = 0 THEN Shown("empty", 0)
                                 ELSE Shown("number", insn.number)
        <5>1. ~IsBrx(w)
          BY <1>1, <2>3, Fields DEF insn_class, IsBrx
        <5> QED  BY <4>1, <5>1 DEF operand_text, Shown
      <4> QED  BY <4>1, <4>2
    <3>2. Value(operand_text(i, c)) = insn_number(w)
      <4> DEFINE n == insn_number(w)
                 t == operand_text(i, c)
      <4> HIDE DEF n, t
      <4>1. t = IF n = 0 THEN Shown("empty", 0) ELSE Shown("number", n)
        BY <3>1 DEF n, t
      <4>2. Value(t) = n
        BY <4>1 DEF Value, eval_listing_expr, Shown
      <4> QED  BY <4>2 DEF n, t
    <3> HIDE DEF w
    <3> QED  BY <1>1, <2>1, <2>2, <2>3, <3>2, WithoutAddress
  <2>4. CASE insn_class(w) # "none"
    BY <2>1, <2>2, <2>4, WithAddress
  <2> QED  BY <2>3, <2>4
<1>3. v = w \/ SameButByte(v, w)
  BY <1>2 DEF Recovered
<1>4. Assembled(i, w, l) = [word |-> completed(v, w),
                             mismatch |-> v # w /\ ~SameButByte(v, w)]
  BY DEF Assembled
<1> HIDE DEF v, l, w
<1>5. completed(v, w) = w
  BY <1>3 DEF completed
<1>6. (v # w /\ ~SameButByte(v, w)) = FALSE
  BY <1>3
<1>7. Assembled(i, w, l) = [word |-> w, mismatch |-> FALSE]
  BY <1>4, <1>5, <1>6
<1> QED  BY <1>7 DEF Faithful, w, l

\* The listing is faithful from the moment it is printed, and the output is what
\* the assembler makes of it.
ListInv ==
  /\ stage \in {"assemble", "done"} /\ (opt.given => opt.G = 0)
       => \A i \in Loaded : Faithful(i, listing[i])
  /\ stage = "done" =>
       \A i \in Loaded : output[i] = Assembled(i, image[i], listing[i])

LEMMA ListInvNext == TraceInv /\ ListInv /\ [Next]_vars => ListInv'
<1> SUFFICES ASSUME TraceInv, ListInv, [Next]_vars PROVE ListInv'
  OBVIOUS
<1>1. ASSUME image' = image, opt' = opt, listing' = listing
      PROVE  /\ Loaded' = Loaded
             /\ (\A i \in Loaded : Faithful(i, listing[i]))'
                  <=> \A i \in Loaded : Faithful(i, listing[i])
             /\ (\A i \in Loaded : output[i] = Assembled(i, image[i], listing[i]))'
                  <=> \A i \in Loaded : output'[i] = Assembled(i, image[i], listing[i])
  BY <1>1 DEF Loaded, Faithful, Assembled, encode_listing_insn
<1>2. CASE Trace \/ EndPass
  BY <1>2 DEF Trace, EndPass, ListInv
<1>3. CASE Render
  <2> DEFINE c == collect_refs
  <2>1. /\ stage' = "assemble" /\ image' = image /\ opt' = opt
        /\ listing' = [i \in Loaded |-> Line(i, c)]
    BY <1>3 DEF Render
  <2> HIDE DEF c
  <2>2. Loaded' = Loaded
    BY <2>1 DEF Loaded
  <2> SUFFICES ASSUME opt.given => opt.G = 0, NEW i \in Loaded
               PROVE  Faithful(i, listing[i])'
    BY <2>1, <2>2 DEF ListInv
  <2>3. Faithful(i, Line(i, c))
    BY LineIsFaithful DEF TraceInv
  <2>4. listing'[i] = Line(i, c)
    BY <2>1
  <2>5. Faithful(i, listing[i])' <=> Assembled(i, image[i], Line(i, c))
                                       = [word |-> image[i], mismatch |-> FALSE]
    <3>1. Faithful(i, listing[i])' <=> Assembled(i, image'[i], listing'[i])
                                         = [word |-> image'[i], mismatch |-> FALSE]
      BY DEF Faithful, Assembled, encode_listing_insn
    <3> QED  BY <2>1, <2>4, <3>1
  <2> QED  BY <2>3, <2>5 DEF Faithful
<1>4. CASE assemble_listing
  <2>1. /\ stage = "assemble" /\ stage' = "done"
        /\ image' = image /\ opt' = opt /\ listing' = listing
        /\ output' = [i \in Loaded |-> Assembled(i, image[i], listing[i])]
    BY <1>4 DEF assemble_listing
  <2>2. \A i \in Loaded : output'[i] = Assembled(i, image[i], listing[i])
    BY <2>1
  <2> QED  BY <1>1, <2>1, <2>2 DEF ListInv
<1>5. CASE Done \/ UNCHANGED vars
  <2>1. UNCHANGED <<image, opt, stage, listing, output>>
    BY <1>5 DEF Done, vars
  <2> QED  BY <1>1, <2>1 DEF ListInv
<1> QED  BY <1>2, <1>3, <1>4, <1>5 DEF Next

\* Every image assembles from its listing to itself, and no line's text ever
\* disagrees with its column (operand_text, encode_listing_insn, assemble_listing).
THEOREM ListingRoundTrip == Spec => []RoundTrip
<1>1. Init => ListInv
  BY DEF Init, ListInv
<1>2. ListInv => RoundTrip
  BY DEF ListInv, RoundTrip, Faithful
<1> QED  BY <1>1, <1>2, TraceInvariant, ListInvNext, PTL DEF Spec

----------------------------------------------------------------------------
(* The folds of Assembler. *)

\* The operands of a line of data.
Operands == Seq(Operand)

LEMMA OperandFields ==
  ASSUME NEW v \in Operand
  PROVE  v.name \in STRING /\ v.number \in Nat /\ v.length \in Nat
BY DEF Operand

LEMMA AfterArgumentType ==
  ASSUME NEW bytes, NEW a \in Nat, NEW v \in Operand
  PROVE  AfterArgument(bytes, a, v) \in Nat
<1> DEFINE items == IF v.length = 0 THEN 1 ELSE v.length
<1>1. items \in Nat
  BY OperandFields
<1>2. AfterArgument(bytes, a, v) = IF bytes THEN a + items ELSE Even(a) + 2 * items
  BY DEF AfterArgument
<1> HIDE DEF items
<1>3. Even(a) \in Nat
  BY DEF Even
<1> QED  BY <1>1, <1>2, <1>3

\* The addresses after each operand.
Follow(t, bytes, at, args) ==
  /\ t \in [0..Len(args) -> Nat]
  /\ t[0] = at
  /\ \A n \in 1..Len(args) : t[n] = AfterArgument(bytes, t[n - 1], args[n])

LEMMA AfterEachArgument ==
  ASSUME NEW bytes, NEW at \in Nat, NEW args \in Operands
  PROVE  \E t : /\ Follow(t, bytes, at, args)
                /\ AfterArguments(bytes, at, args) = t[Len(args)]
<1> DEFINE N == Len(args)
           V == Nat
           added(r, n) == AfterArgument(bytes, r, args[n])
           step == [p \in V \X (1..N) |-> added(p[1], p[2])]
           IsTable(f) == f = [n \in 0..N |-> IF n = 0 THEN at ELSE added(f[n - 1], n)]
           table == CHOOSE f : IsTable(f)
<1>0. N \in Nat /\ \A n \in 1..N : args[n] \in Operand
  BY DEF Operands
<1>1. ASSUME NEW r \in V, NEW n \in 1..N PROVE added(r, n) \in V
  BY <1>0, AfterArgumentType
<1>2. step \in Steps(V, N)
  <2>1. \A p \in V \X (1..N) : added(p[1], p[2]) \in V
    <3> HIDE DEF V, N, added
    <3> QED  BY <1>1
  <2> HIDE DEF V, N, added
  <2> QED  BY <2>1 DEF Steps
<1>3. PICK f : Follows(f, V, at, step, N)
  <2>1. at \in V /\ N \in Nat
    BY <1>0
  <2> HIDE DEF step, N, V
  <2> QED  BY <1>2, <2>1, Recursion
<1>4. /\ f \in [0..N -> V]
      /\ f[0] = at
      /\ \A n \in 1..N : f[n] = step[<<f[n - 1], n>>]
  <2> HIDE DEF step, N, V
  <2> QED  BY <1>3 DEF Follows
<1>5. \A n \in 1..N : f[n] = added(f[n - 1], n)
  <2> TAKE n \in 1..N
  <2>1. f[n - 1] \in V
    <3> HIDE DEF N, V
    <3> QED  BY <1>0, <1>4
  <2>2. step[<<f[n - 1], n>>] = added(f[n - 1], n)
    <3> HIDE DEF V, N, added
    <3> QED  BY <2>1
  <2> HIDE DEF step, N, V, added
  <2> QED  BY <1>4, <2>2
<1>6. IsTable(f)
  <2> HIDE DEF N, V, added
  <2> QED  BY <1>0, <1>4, <1>5
<1>7. IsTable(table)
  <2> HIDE DEF added, N
  <2> QED  BY <1>6
<1>8. AfterArguments(bytes, at, args) = table[N]
  BY DEF AfterArguments
<1> DEFINE Good == {n \in 0..N : table[n] = f[n]}
<1>9. 0 \in Good
  <2> HIDE DEF table, N, added
  <2> QED  BY <1>0, <1>4, <1>7
<1>10. ASSUME NEW n \in 0..N - 1, n \in Good PROVE n + 1 \in Good
  <2> DEFINE k == n + 1
  <2>1. k \in 1..N /\ k \in 0..N /\ k # 0 /\ k - 1 = n /\ table[n] = f[n]
    <3> HIDE DEF table, N
    <3> QED  BY <1>0, <1>10
  <2> HIDE DEF k
  <2>2. table[k] = added(table[k - 1], k)
    <3> HIDE DEF table, N, added
    <3> QED  BY <1>7, <2>1
  <2>3. f[k] = added(f[k - 1], k)
    <3> HIDE DEF N, added
    <3> QED  BY <1>5, <2>1
  <2>4. table[k] = f[k]
    <3> HIDE DEF table, added
    <3> QED  BY <2>1, <2>2, <2>3
  <2> HIDE DEF table, N
  <2>5. k \in Good
    BY <2>1, <2>4
  <2> QED  BY <2>5 DEF k
<1>11. 0..N \subseteq Good
  <2> HIDE DEF Good, N
  <2> QED  BY <1>0, <1>9, <1>10, RangeInduction
<1>12. table[N] = f[N]
  <2> HIDE DEF table, N
  <2> QED  BY <1>0, <1>11
<1>13. Follow(f, bytes, at, args)
  BY <1>4, <1>5 DEF Follow
<1> HIDE DEF table, N
<1> QED  BY <1>8, <1>12, <1>13 DEF N

\* How many items the operands of DATA are.
Items(args) == AfterArguments(TRUE, 0, args)
ItemsOf(v) == IF v.length = 0 THEN 1 ELSE v.length

LEMMA ItemsType == ASSUME NEW v \in Operand PROVE ItemsOf(v) \in Nat \ {0}
BY OperandFields DEF ItemsOf

\* One operand adds its items, or twice as many to an even address.
LEMMA AfterOne ==
  ASSUME NEW a \in Nat, NEW v \in Operand
  PROVE  /\ AfterArgument(TRUE, a, v) = a + ItemsOf(v)
         /\ a % 2 = 0 => AfterArgument(FALSE, a, v) = a + 2 * ItemsOf(v)
<1>1. AfterArgument(TRUE, a, v) = a + ItemsOf(v)
  BY DEF AfterArgument, ItemsOf
<1>2. AfterArgument(FALSE, a, v) = Even(a) + 2 * ItemsOf(v)
  BY DEF AfterArgument, ItemsOf
<1>3. a % 2 = 0 => Even(a) = a
  BY DEF Even
<1> QED  BY <1>1, <1>2, <1>3

\* What the operands of DATA add to an address.
LEMMA AfterAll ==
  ASSUME NEW at \in Nat, NEW args \in Operands
  PROVE  /\ Items(args) \in Nat
         /\ AfterArguments(TRUE, at, args) = at + Items(args)
         /\ at % 2 = 0 => AfterArguments(FALSE, at, args) = at + 2 * Items(args)
         /\ AfterArguments(FALSE, at, args) \in Nat
<1> DEFINE N == Len(args)
<1>0. N \in Nat /\ \A n \in 1..N : args[n] \in Operand
  BY DEF Operands
<1>1. PICK t : Follow(t, TRUE, 0, args) /\ Items(args) = t[N]
  BY AfterEachArgument DEF Items
<1>2. PICK u : Follow(u, TRUE, at, args) /\ AfterArguments(TRUE, at, args) = u[N]
  BY AfterEachArgument
<1>3. PICK w : Follow(w, FALSE, at, args) /\ AfterArguments(FALSE, at, args) = w[N]
  BY AfterEachArgument
<1> HIDE DEF N
<1>4. /\ t \in [0..N -> Nat] /\ t[0] = 0
      /\ u \in [0..N -> Nat] /\ u[0] = at
      /\ w \in [0..N -> Nat] /\ w[0] = at
      /\ \A n \in 1..N : t[n] = AfterArgument(TRUE, t[n - 1], args[n])
      /\ \A n \in 1..N : u[n] = AfterArgument(TRUE, u[n - 1], args[n])
      /\ \A n \in 1..N : w[n] = AfterArgument(FALSE, w[n - 1], args[n])
  BY <1>1, <1>2, <1>3 DEF Follow, N
<1> DEFINE Good == {n \in 0..N : /\ u[n] = at + t[n]
                                 /\ at % 2 = 0 => w[n] = at + 2 * t[n]}
<1>5. 0 \in Good
  BY <1>0, <1>4
<1>6. ASSUME NEW n \in 0..N - 1, n \in Good PROVE n + 1 \in Good
  <2> DEFINE k == n + 1
             v == args[k]
             i == ItemsOf(v)
  <2>1. k \in 1..N /\ k \in 0..N /\ k - 1 = n /\ n \in 0..N
    BY <1>0
  <2>2. v \in Operand /\ t[n] \in Nat /\ u[n] \in Nat /\ w[n] \in Nat
    <3> HIDE DEF k
    <3> QED  BY <1>0, <1>4, <2>1
  <2>3. i \in Nat
    BY <2>2, ItemsType
  <2>4. /\ t[k] = AfterArgument(TRUE, t[n], v)
        /\ u[k] = AfterArgument(TRUE, u[n], v)
        /\ w[k] = AfterArgument(FALSE, w[n], v)
    <3> HIDE DEF k
    <3>1. /\ t[k] = AfterArgument(TRUE, t[k - 1], args[k])
          /\ u[k] = AfterArgument(TRUE, u[k - 1], args[k])
          /\ w[k] = AfterArgument(FALSE, w[k - 1], args[k])
      BY <1>4, <2>1
    <3> QED  BY <2>1, <3>1
  <2>5. /\ u[n] = at + t[n]
        /\ at % 2 = 0 => w[n] = at + 2 * t[n]
    BY <1>6
  <2> HIDE DEF v, i, k
  <2>6. /\ t[k] = t[n] + i /\ u[k] = u[n] + i
        /\ w[n] % 2 = 0 => w[k] = w[n] + 2 * i
    BY <2>2, <2>4, AfterOne DEF i
  <2>7. at % 2 = 0 => w[n] % 2 = 0
    BY <2>2, <2>5
  <2>8. u[k] = at + t[k] /\ (at % 2 = 0 => w[k] = at + 2 * t[k])
    BY <2>2, <2>3, <2>5, <2>6, <2>7
  <2>9. k \in Good
    BY <2>1, <2>8
  <2> QED  BY <2>9 DEF k
<1>7. N \in Good
  <2> HIDE DEF Good
  <2>1. 0..N \subseteq Good
    BY <1>0, <1>5, <1>6, RangeInduction
  <2> QED  BY <1>0, <2>1
<1>8. t[N] \in Nat /\ w[N] \in Nat
  BY <1>0, <1>4
<1> QED  BY <1>1, <1>2, <1>3, <1>7, <1>8

----------------------------------------------------------------------------
(* The bytes of data. *)

Codes == [bytes : Seq(Nat), at : Nat]

LEMMA CodeFields ==
  ASSUME NEW c \in Codes
  PROVE  /\ c.bytes \in Seq(Nat) /\ c.at \in Nat /\ Len(c.bytes) \in Nat
         /\ c = Code(c.bytes, c.at)
BY DEF Codes, Code

LEMMA CodeType ==
  ASSUME NEW b \in Seq(Nat), NEW a \in Nat
  PROVE  Code(b, a) \in Codes /\ Code(b, a).bytes = b /\ Code(b, a).at = a
BY DEF Codes, Code

\* Labels have natural numbers for values.
Numbers(known) == \A a \in DOMAIN known : known[a] \in Nat

LEMMA Resolution ==
  ASSUME NEW known, Numbers(known), NEW v \in Operand
  PROVE  /\ resolve_expression(v, known) \in Nat \cup {NONE}
         /\ v.name = NoName => resolve_expression(v, known) = v.number
<1>1. v.number \in Nat
  BY OperandFields
<1>2. \A a \in DOMAIN HexNames : HexNames[a] \in Nat
  BY NamesAssumption
<1> QED  BY <1>1, <1>2 DEF resolve_expression, Numbers

\* Adding bytes, and the byte that makes an address even.
LEMMA AddedBytes ==
  ASSUME NEW c \in Codes, NEW b \in Seq(Nat)
  PROVE  /\ Added(c, b) \in Codes
         /\ Len(Added(c, b).bytes) = Len(c.bytes) + Len(b)
         /\ Added(c, b).at = c.at + Len(b)
<1>1. c.bytes \in Seq(Nat) /\ c.at \in Nat
  BY CodeFields
<1>2. c.bytes \o b \in Seq(Nat) /\ Len(b) \in Nat /\ Len(c.bytes \o b) = Len(c.bytes) + Len(b)
  BY <1>1
<1>3. c.at + Len(b) \in Nat
  BY <1>1, <1>2
<1>4. Added(c, b) = Code(c.bytes \o b, c.at + Len(b))
  BY DEF Added
<1> DEFINE d == Code(c.bytes \o b, c.at + Len(b))
<1>5. d \in Codes /\ d.bytes = c.bytes \o b /\ d.at = c.at + Len(b)
  BY <1>2, <1>3, CodeType
<1> HIDE DEF d
<1> QED  BY <1>2, <1>4, <1>5 DEF d

LEMMA AlignedCode ==
  ASSUME NEW c \in Codes
  PROVE  /\ Aligned(c) \in Codes
         /\ c.at % 2 = 0 => Aligned(c) = c
<1>1. c.bytes \in Seq(Nat) /\ c.at \in Nat
  BY CodeFields
<1>2. Append(c.bytes, 0) \in Seq(Nat) /\ c.at + 1 \in Nat
  BY <1>1
<1>3. Aligned(c) = c \/ Aligned(c) = Code(Append(c.bytes, 0), c.at + 1)
  BY DEF Aligned
<1>4. Aligned(c) \in Codes
  BY <1>2, <1>3, CodeType
<1> QED  BY <1>4 DEF Aligned

LEMMA WordOfBytes ==
  ASSUME NEW w \in Nat
  PROVE  WordBytes(w) \in Seq(Nat) /\ Len(WordBytes(w)) = 2
<1>1. w \div 256 \in Nat /\ w % 256 \in Nat
  OBVIOUS
<1> QED  BY <1>1 DEF WordBytes

LEMMA ZeroBytes ==
  ASSUME NEW n \in Nat
  PROVE  Zeros(n) \in Seq(Nat) /\ Len(Zeros(n)) = n
BY DEF Zeros

\* The bytes of an operand.
LEMMA OneArgument ==
  ASSUME Numbers(labels), NEW bytes \in BOOLEAN, NEW c \in Codes, NEW v \in Operand
  PROVE  LET d == DataArgument(bytes, c, v)
             size == IF bytes THEN ItemsOf(v) ELSE 2 * ItemsOf(v)
         IN  /\ d \in Codes
             /\ bytes \/ c.at % 2 = 0 =>
                  Len(d.bytes) = Len(c.bytes) + size /\ d.at = c.at + size
<1> DEFINE n == resolve_expression(v, labels)
           value == IF n = NONE THEN 0 ELSE n
           chars == [k \in 1..v.length |-> 67]
           pairs == [k \in 1..2 * v.length |-> IF k % 2 = 1 THEN 67 ELSE 0]
           d == DataArgument(bytes, c, v)
           A == Aligned(c)
<1>1. value \in Nat
  BY Resolution
<1>2. v.length \in Nat
  BY OperandFields
<1>3. /\ chars \in Seq(Nat) /\ Len(chars) = v.length
      /\ pairs \in Seq(Nat) /\ Len(pairs) = 2 * v.length
  <2>1. chars \in Seq(Nat) /\ Len(chars) = v.length
    BY <1>2
  <2>2. 2 * v.length \in Nat
    BY <1>2
  <2>3. pairs \in [1..2 * v.length -> Nat]
    OBVIOUS
  <2>4. pairs \in Seq(Nat) /\ Len(pairs) = 2 * v.length
    <3> DEFINE m == 2 * v.length
    <3>1. m \in Nat /\ pairs = [k \in 1..m |-> IF k % 2 = 1 THEN 67 ELSE 0]
      BY <2>2
    <3> HIDE DEF pairs, m
    <3>2. pairs \in Seq(Nat) /\ Len(pairs) = m
      BY <3>1
    <3> QED  BY <3>2 DEF m
  <2> QED  BY <2>1, <2>4
<1>4. d = CASE v.length = 0 /\ bytes -> Added(c, <<value % 256>>)
            [] v.length = 0 /\ ~bytes -> Added(A, WordBytes(value % 65536))
            [] v.length > 0 /\ bytes -> Added(c, chars)
            [] v.length > 0 /\ ~bytes -> Added(A, pairs)
  BY DEF DataArgument
<1>5. A \in Codes /\ (c.at % 2 = 0 => A = c)
  BY AlignedCode
<1> HIDE DEF n, value, chars, pairs, d, A
<1>6. CASE v.length = 0 /\ bytes
  <2>1. <<value % 256>> \in Seq(Nat) /\ Len(<<value % 256>>) = 1
    BY <1>1
  <2>2. d = Added(c, <<value % 256>>)
    BY <1>4, <1>6
  <2> DEFINE b == <<value % 256>>
  <2> HIDE DEF b
  <2>4. b \in Seq(Nat) /\ Len(b) = 1 /\ d = Added(c, b)
    BY <2>1, <2>2 DEF b
  <2>3. d \in Codes /\ Len(d.bytes) = Len(c.bytes) + 1 /\ d.at = c.at + 1
    <3>1. d \in Codes /\ Len(d.bytes) = Len(c.bytes) + Len(b) /\ d.at = c.at + Len(b)
      BY <2>4, AddedBytes
    <3> QED  BY <2>4, <3>1
  <2> QED  BY <1>6, <2>3 DEF ItemsOf, d
<1>7. CASE v.length = 0 /\ ~bytes
  <2>1. value % 65536 \in Nat
    BY <1>1
  <2>2. d = Added(A, WordBytes(value % 65536))
    BY <1>4, <1>7
  <2> DEFINE b == WordBytes(value % 65536)
  <2> HIDE DEF b
  <2>5. b \in Seq(Nat) /\ Len(b) = 2
    BY <2>1, WordOfBytes DEF b
  <2>3. d \in Codes /\ Len(d.bytes) = Len(A.bytes) + 2 /\ d.at = A.at + 2
    <3>1. d = Added(A, b)
      BY <2>2 DEF b
    <3> QED  BY <1>5, <2>5, <3>1, AddedBytes
  <2>4. ItemsOf(v) = 1
    BY <1>7 DEF ItemsOf
  <2> QED  BY <1>5, <1>7, <2>3, <2>4 DEF d
<1>8. CASE v.length > 0 /\ bytes
  <2>1. d = Added(c, chars)
    BY <1>4, <1>8
  <2>2. d \in Codes /\ Len(d.bytes) = Len(c.bytes) + v.length /\ d.at = c.at + v.length
    BY <1>3, <2>1, AddedBytes
  <2>3. ItemsOf(v) = v.length
    BY <1>8 DEF ItemsOf
  <2> QED  BY <1>8, <2>2, <2>3 DEF d
<1>9. CASE v.length > 0 /\ ~bytes
  <2>1. d = Added(A, pairs)
    BY <1>4, <1>9
  <2>2. d \in Codes /\ Len(d.bytes) = Len(A.bytes) + 2 * v.length /\ d.at = A.at + 2 * v.length
    <3>1. /\ d \in Codes /\ Len(d.bytes) = Len(A.bytes) + Len(pairs)
          /\ d.at = A.at + Len(pairs)
      BY <1>3, <1>5, <2>1, AddedBytes
    <3> QED  BY <1>3, <3>1
  <2>3. ItemsOf(v) = v.length
    BY <1>9 DEF ItemsOf
  <2> QED  BY <1>5, <1>9, <2>2, <2>3 DEF d
<1> QED  BY <1>2, <1>6, <1>7, <1>8, <1>9

----------------------------------------------------------------------------
(* The words of the assembler, read back. *)

\* The place of a name in its table.
LEMMA Places ==
  /\ \A op \in Mnemonics1 : /\ Index(group1_opnames, op) \in 0..15
                            /\ group1_opnames[1 + Index(group1_opnames, op)] = op
  /\ \A op \in Mnemonics2 : /\ Index(group2_opnames, op) \in 0..15
                            /\ group2_opnames[1 + Index(group2_opnames, op)] = op
  /\ \A op \in Mnemonics3 : /\ Index(group3_opnames, op) \in 0..15
                            /\ group3_opnames[1 + Index(group3_opnames, op)] = op
  /\ \A op \in Mnemonics4 : /\ Index(group4_opnames, op) \in 0..7
                            /\ group4_opnames[1 + Index(group4_opnames, op)] = op
  /\ \A op \in MnemonicsShr : /\ Index(shr_names, op) \in 0..7
                              /\ shr_names[1 + Index(shr_names, op)] = op
  /\ \A op \in MnemonicsShc : /\ Index(shc_names, op) \in 0..7
                              /\ shc_names[1 + Index(shc_names, op)] = op
  /\ \A op \in MnemonicsSrg : /\ Index(srg_names, op) \in 0..15
                              /\ srg_names[1 + Index(srg_names, op)] = op
<1>1. /\ \A op \in Mnemonics1 : \E k \in 0..15 : group1_opnames[1 + k] = op
      /\ \A op \in Mnemonics2 : \E k \in 0..15 : group2_opnames[1 + k] = op
      /\ \A op \in Mnemonics3 : \E k \in 0..15 : group3_opnames[1 + k] = op /\ op # "none"
      /\ \A op \in Mnemonics4 : \E k \in 0..7 : group4_opnames[1 + k] = op
      /\ \A op \in MnemonicsShr : \E k \in 0..7 : shr_names[1 + k] = op
      /\ \A op \in MnemonicsShc : \E k \in 0..7 : shc_names[1 + k] = op /\ op # "none"
      /\ \A op \in MnemonicsSrg : \E k \in 0..15 : srg_names[1 + k] = op
  <2>1. /\ DOMAIN group1_opnames = 1..16 /\ DOMAIN group2_opnames = 1..16
        /\ DOMAIN group3_opnames = 1..16 /\ DOMAIN group4_opnames = 1..8
        /\ DOMAIN shr_names = 1..8 /\ DOMAIN shc_names = 1..8
        /\ DOMAIN srg_names = 1..16
    BY DEF group1_opnames, group2_opnames, group3_opnames, group4_opnames, shr_names,
           shc_names, srg_names
  <2>2. ASSUME NEW names, NEW n \in Nat, DOMAIN names = 1..n, NEW op \in Names(names)
        PROVE  \E k \in 0..n - 1 : names[1 + k] = op /\ op # "none"
    <3>1. PICK i \in 1..n : names[i] = op /\ op # "none"
      BY <2>2 DEF Names
    <3>2. i - 1 \in 0..n - 1 /\ 1 + (i - 1) = i
      OBVIOUS
    <3> QED  BY <3>1, <3>2
  <2>10. 16 \in Nat /\ 8 \in Nat /\ 16 - 1 = 15 /\ 8 - 1 = 7
    OBVIOUS
  <2>3. \A op \in Names(group1_opnames) :
          \E k \in 0..16 - 1 : group1_opnames[1 + k] = op /\ op # "none"
    BY <2>1, <2>2, <2>10, Zenon
  <2>4. \A op \in Names(group2_opnames) :
          \E k \in 0..16 - 1 : group2_opnames[1 + k] = op /\ op # "none"
    BY <2>1, <2>2, <2>10, Zenon
  <2>5. \A op \in Names(group3_opnames) :
          \E k \in 0..16 - 1 : group3_opnames[1 + k] = op /\ op # "none"
    BY <2>1, <2>2, <2>10, Zenon
  <2>6. \A op \in Names(group4_opnames) :
          \E k \in 0..8 - 1 : group4_opnames[1 + k] = op /\ op # "none"
    BY <2>1, <2>2, <2>10, Zenon
  <2>7. \A op \in Names(shr_names) :
          \E k \in 0..8 - 1 : shr_names[1 + k] = op /\ op # "none"
    BY <2>1, <2>2, <2>10, Zenon
  <2>8. \A op \in Names(shc_names) :
          \E k \in 0..8 - 1 : shc_names[1 + k] = op /\ op # "none"
    BY <2>1, <2>2, <2>10, Zenon
  <2>9. \A op \in Names(srg_names) :
          \E k \in 0..16 - 1 : srg_names[1 + k] = op /\ op # "none"
    BY <2>1, <2>2, <2>10, Zenon
  <2> QED  BY <2>3, <2>4, <2>5, <2>6, <2>7, <2>8, <2>9, <2>10, NamesOfTables
<1> QED  BY <1>1, Indexes

\* A word of two bytes.
Octets == 0..255

LEMMA OctetsAre == \A x : x \in Octets <=> x \in Nat /\ x < 256
BY DEF Octets

LEMMA TwoBytes ==
  ASSUME NEW e \in Octets, NEW d \in Octets, NEW w, w = 256 * e + d
  PROVE  /\ w \in Nat /\ w < 65536
         /\ HexCode(w) = e \div 16
         /\ Sub(w) = e % 16
         /\ Disp(w) = d
         /\ w \div 8192 = e \div 32
<1>0. e \in Nat /\ e < 256 /\ d \in Nat /\ d < 256
  BY OctetsAre
<1>1. w \in Nat /\ w < 65536
  BY <1>0
<1>2. HighByte(w) = e /\ Disp(w) = d
  BY <1>0 DEF HighByte, Disp
<1>3. /\ HexCode(w) = HighByte(w) \div 16
      /\ Sub(w) = HighByte(w) % 16
      /\ w \div 8192 = HighByte(w) \div 32
  BY <1>1, Bytes
<1> QED  BY <1>1, <1>2, <1>3

\* The disassembler reads the word of an instruction in a mode as that.
ReadsAs(w, op, mode, class, number) ==
  /\ w \in Nat /\ w < 65536
  /\ insn_op(w) = op
  /\ ModeName(w) = mode
  /\ insn_class(w) = class
  /\ Disp(w) = number
  /\ insn_number(w) = number

LEMMA LoadRead ==
  ASSUME NEW op \in Mnemonics1, NEW m \in DOMAIN LoadModes, NEW d \in Octets
  PROVE  /\ opcode_hex(op)[m] \in Octets
         /\ ReadsAs(256 * opcode_hex(op)[m] + d, op, m, "mem", d)
<1> DEFINE k == Index(group1_opnames, op)
           e == LoadModes[m] + k
           w == 256 * e + d
<1>1. opcode_hex(op)[m] = e
  BY HexOfPlain DEF Offset
<1>2. k \in 0..15 /\ group1_opnames[1 + k] = op
  BY Places
<1>3. PICK j \in 0..5 : /\ LoadModes[m] = 32 * j
                        /\ <<"DL", "P", "DG", "IL", "IGX", "ILX">>[1 + j] = m
  BY DEF LoadModes
<1> HIDE DEF k
<1>4. e = 32 * j + k /\ e \in Octets /\ e \div 16 = 2 * j /\ e % 16 = k /\ e \div 32 = j
  BY <1>2, <1>3, OctetsAre
<1> HIDE DEF e
<1> HIDE DEF w
<1>0. w = 256 * e + d
  BY DEF w
<1>5. /\ w \in Nat /\ w < 65536 /\ Disp(w) = d
      /\ HexCode(w) = 2 * j /\ Sub(w) = k /\ w \div 8192 = j
  <2>1. /\ w \in Nat /\ w < 65536 /\ HexCode(w) = e \div 16 /\ Sub(w) = e % 16
        /\ Disp(w) = d /\ w \div 8192 = e \div 32
    BY <1>0, <1>4, TwoBytes
  <2> QED  BY <1>4, <2>1
<1>6. /\ Group1(w) /\ ~Group2(w) /\ ~System(w) /\ ~Branch(w)
      /\ HexCode(w) # 12 /\ HexCode(w) # 13
  BY <1>5 DEF Group1, Group2, System, Branch
<1>7. insn_op(w) = op
  BY <1>2, <1>5, <1>6 DEF insn_op
<1>9. insn_class(w) = "mem" /\ insn_number(w) = d
  BY <1>5, <1>6 DEF insn_class, insn_number
<1>8. ModeName(w) = m
  <2>1. ModeName(w) = <<"DL", "P", "DG", "IL", "IGX", "ILX">>[1 + w \div 8192]
    BY <1>6 DEF ModeName
  <2> QED  BY <1>3, <1>5, <2>1
<1> QED  BY <1>1, <1>4, <1>5, <1>7, <1>8, <1>9 DEF ReadsAs, w

LEMMA StoreRead ==
  ASSUME NEW op \in Mnemonics2, NEW m \in DOMAIN StoreModes, NEW d \in Octets
  PROVE  /\ opcode_hex(op)[m] \in Octets
         /\ ReadsAs(256 * opcode_hex(op)[m] + d, op, m, "mem", d)
<1> DEFINE k == Index(group2_opnames, op)
           e == StoreModes[m] + 16 + k
           w == 256 * e + d
<1>1. opcode_hex(op)[m] = e
  BY HexOfPlain
<1>2. k \in 0..15 /\ group2_opnames[1 + k] = op
  BY Places
<1>3. PICK j \in {0, 2, 3, 4, 5} :
        /\ StoreModes[m] = 32 * j
        /\ <<"DL", "P", "DG", "IL", "IGX", "ILX">>[1 + j] = m
  BY DEF StoreModes
<1> HIDE DEF k
<1>4. /\ e = 32 * j + 16 + k /\ e \in Octets /\ e \div 16 = 2 * j + 1
      /\ e % 16 = k /\ e \div 32 = j
  BY <1>2, <1>3, OctetsAre
<1> HIDE DEF e
<1> HIDE DEF w
<1>0. w = 256 * e + d
  BY DEF w
<1>5. /\ w \in Nat /\ w < 65536 /\ Disp(w) = d
      /\ HexCode(w) = 2 * j + 1 /\ Sub(w) = k /\ w \div 8192 = j
  <2>1. /\ w \in Nat /\ w < 65536 /\ HexCode(w) = e \div 16 /\ Sub(w) = e % 16
        /\ Disp(w) = d /\ w \div 8192 = e \div 32
    BY <1>0, <1>4, TwoBytes
  <2> QED  BY <1>4, <2>1
<1>6. /\ ~Group1(w) /\ Group2(w) /\ ~System(w) /\ ~Branch(w)
      /\ HexCode(w) # 12 /\ HexCode(w) # 13
  BY <1>5 DEF Group1, Group2, System, Branch
<1>7. insn_op(w) = op
  BY <1>2, <1>5, <1>6 DEF insn_op
<1>9. insn_class(w) = "mem" /\ insn_number(w) = d
  BY <1>5, <1>6 DEF insn_class, insn_number
<1>8. ModeName(w) = m
  <2>1. ModeName(w) = <<"DL", "P", "DG", "IL", "IGX", "ILX">>[1 + w \div 8192]
    BY <1>6 DEF ModeName
  <2> QED  BY <1>3, <1>5, <2>1
<1> QED  BY <1>1, <1>4, <1>5, <1>7, <1>8, <1>9 DEF ReadsAs, w

\* The word of an instruction of the system, by its first byte.
LEMMA SystemRead ==
  ASSUME NEW m \in DOMAIN SystemModes, NEW k \in 0..15, NEW d \in Octets,
         NEW w, w = 256 * (SystemModes[m] + k) + d
  PROVE  /\ SystemModes[m] + k \in Octets
         /\ w \in Nat /\ w < 65536
         /\ System(w) /\ ~Group1(w) /\ ~Group2(w) /\ ~Branch(w)
         /\ ModeName(w) = m
         /\ m = "P" => HexCode(w) = 15
         /\ Sub(w) = k /\ Disp(w) = d
<1> DEFINE e == SystemModes[m] + k
<1>1. PICK h \in {3, 14, 15} :
        /\ SystemModes[m] = 16 * h
        /\ m = IF h = 3 THEN "DL" ELSE IF h = 14 THEN "PX" ELSE "P"
  BY DEF SystemModes
<1>2. e = 16 * h + k /\ e \in Octets /\ e \div 16 = h /\ e % 16 = k
  BY <1>1, OctetsAre
<1>0. w = 256 * e + d
  OBVIOUS
<1> HIDE DEF e
<1>3. w \in Nat /\ w < 65536 /\ Disp(w) = d /\ HexCode(w) = h /\ Sub(w) = k
  <2>1. /\ w \in Nat /\ w < 65536 /\ HexCode(w) = e \div 16 /\ Sub(w) = e % 16
        /\ Disp(w) = d
    BY <1>0, <1>2, TwoBytes
  <2> QED  BY <1>2, <2>1
<1>4. System(w) /\ ~Group1(w) /\ ~Group2(w) /\ ~Branch(w)
  BY <1>3 DEF Group1, Group2, System, Branch
<1>5. ModeName(w) = m
  BY <1>1, <1>3, <1>4 DEF ModeName
<1>6. m = "P" => h = 15
  BY <1>1
<1> QED  BY <1>2, <1>3, <1>4, <1>5, <1>6 DEF e

LEMMA OtherRead ==
  ASSUME NEW op \in Mnemonics3, NEW m \in DOMAIN SystemModes, NEW d \in Octets
  PROVE  LET w == 256 * opcode_hex(op)[m] + d
         IN  /\ opcode_hex(op)[m] \in Octets
             /\ w \in Nat /\ w < 65536
             /\ op \notin {"SHR", "SRG", "SHC"} => ReadsAs(w, op, m, "sys", d)
<1> DEFINE k == Index(group3_opnames, op)
           e == SystemModes[m] + k
           w == 256 * e + d
<1>1. opcode_hex(op)[m] = e
  BY HexOfPlain DEF Offset
<1>2. k \in 0..15 /\ group3_opnames[1 + k] = op
  BY Places
<1>3. op \notin {"SHR", "SRG", "SHC"} => k \notin {0, 1, 4, 12}
  <2>1. op # "none"
    BY DEF Mnemonics3
  <2>2. /\ group3_opnames[1 + 0] = "SHR" /\ group3_opnames[1 + 1] = "SRG"
        /\ group3_opnames[1 + 4] = "none" /\ group3_opnames[1 + 12] = "SHC"
    BY DEF group3_opnames
  <2> HIDE DEF k
  <2> QED  BY <1>2, <2>1, <2>2
<1> HIDE DEF k, w
<1>0. w = 256 * (SystemModes[m] + k) + d
  BY DEF w
<1>4. /\ e \in Octets /\ w \in Nat /\ w < 65536
      /\ System(w) /\ ~Group1(w) /\ ~Group2(w) /\ ~Branch(w)
      /\ ModeName(w) = m /\ Sub(w) = k /\ Disp(w) = d
  BY <1>0, <1>2, SystemRead
<1> HIDE DEF e
<1>5. ASSUME op \notin {"SHR", "SRG", "SHC"} PROVE ReadsAs(w, op, m, "sys", d)
  <2>1. Sub(w) \notin {0, 1, 4, 12}
    BY <1>3, <1>4, <1>5
  <2>2. insn_op(w) = op /\ insn_class(w) = "sys" /\ insn_number(w) = d
    BY <1>2, <1>4, <2>1 DEF insn_op, insn_class, insn_number
  <2> QED  BY <1>4, <2>2 DEF ReadsAs
<1> QED  BY <1>1, <1>4, <1>5 DEF w

LEMMA BranchRead ==
  ASSUME NEW op \in Mnemonics4, NEW m \in DOMAIN BranchModes, NEW d \in Octets
  PROVE  /\ opcode_hex(op)[m] \in Octets
         /\ ReadsAs(256 * opcode_hex(op)[m] + d, op, m, "branch", d)
<1> DEFINE k == Index(group4_opnames, op)
           e == BranchModes[m] + k
           w == 256 * e + d
<1>1. opcode_hex(op)[m] = e
  BY HexOfPlain DEF Offset
<1>2. k \in 0..7 /\ group4_opnames[1 + k] = op
  BY Places
<1>3. PICK h \in {12, 13}, b \in {0, 8} :
        /\ BranchModes[m] = 16 * h + b
        /\ m = IF h = 12 THEN IF b = 8 THEN "RM" ELSE "RP" ELSE IF b = 8 THEN "IG" ELSE "IL"
  BY DEF BranchModes
<1> HIDE DEF k
<1>4. /\ e = 16 * h + b + k /\ e \in Octets /\ e \div 16 = h
      /\ e % 16 = b + k /\ (b + k) % 8 = k /\ (b + k >= 8 <=> b = 8)
  BY <1>2, <1>3, OctetsAre
<1> HIDE DEF e
<1> HIDE DEF w
<1>0. w = 256 * e + d
  BY DEF w
<1>5. /\ w \in Nat /\ w < 65536 /\ Disp(w) = d
      /\ HexCode(w) = h /\ Sub(w) = b + k
  <2>1. /\ w \in Nat /\ w < 65536 /\ HexCode(w) = e \div 16 /\ Sub(w) = e % 16
        /\ Disp(w) = d
    BY <1>0, <1>4, TwoBytes
  <2> QED  BY <1>4, <2>1
<1>6. ~Group1(w) /\ ~Group2(w) /\ ~System(w) /\ Branch(w)
  BY <1>5 DEF Group1, Group2, System, Branch
<1>7. insn_op(w) = op /\ ModeName(w) = m /\ insn_class(w) = "branch" /\ insn_number(w) = d
  BY <1>2, <1>3, <1>4, <1>5, <1>6 DEF insn_op, ModeName, insn_class, insn_number
<1> QED  BY <1>1, <1>4, <1>5, <1>7 DEF ReadsAs, w

----------------------------------------------------------------------------
(* An instruction is assembled as it is written. *)

Aliases == {"BE", "BZ", "BL", "BLZ", "BNE", "BNZ", "BGE", "BPZ"}

\* The mnemonics, table by table.
LEMMA Opcodes ==
  /\ known_opcodes = PlainNames \cup MnemonicsShr \cup MnemonicsShc \cup MnemonicsSrg
                       \cup MnemonicsControl \cup Aliases
  /\ derived_shifts = MnemonicsShr
  /\ derived_shc = MnemonicsShc \ {"DITR"}
  /\ derived_srg = MnemonicsSrg \ {"RTS"}
BY NamesOfTables
   DEF known_opcodes, PlainNames, Aliases, derived_shifts, derived_shc, derived_srg

\* No alias has another.
LEMMA AliasesAre ==
  /\ \A op \in Aliases : Alias(op) \in Mnemonics4 /\ Alias(Alias(op)) = Alias(op)
  /\ \A op \in known_opcodes \ Aliases : Alias(op) = op
  /\ Aliases \cap (PlainNames \cup MnemonicsShr \cup MnemonicsShc \cup MnemonicsSrg
                     \cup MnemonicsControl) = {}
<1>1. \A op \in Aliases : Alias(op) \in Mnemonics4 /\ Alias(Alias(op)) = Alias(op)
  BY DEF Aliases, Alias, Mnemonics4
<1>2. \A op \in known_opcodes \ Aliases : Alias(op) = op
  BY DEF Aliases, Alias
<1>3. Aliases \cap (PlainNames \cup MnemonicsShr \cup MnemonicsShc \cup MnemonicsSrg
                     \cup MnemonicsControl) = {}
  BY DEF Aliases, PlainNames, Mnemonics1, Mnemonics2, Mnemonics3, Mnemonics4,
         MnemonicsShr, MnemonicsShc, MnemonicsSrg, MnemonicsControl
<1> QED  BY <1>1, <1>2, <1>3

LEMMA HexOfAlias ==
  ASSUME NEW op \in known_opcodes
  PROVE  opcode_hex(op) = opcode_hex(Alias(op))
<1>1. Alias(Alias(op)) = Alias(op)
  BY AliasesAre
<1> QED  BY <1>1 DEF opcode_hex

\* Two mnemonics of an alias are the same branch.
LEMMA Branches ==
  ASSUME NEW op \in known_opcodes
  PROVE  Alias(op) \in Names(group4_opnames) <=> op \in Mnemonics4 \cup Aliases
<1>1. Names(group4_opnames) = Mnemonics4
  BY NamesOfTables
<1>2. op \notin Aliases => Alias(op) = op
  BY AliasesAre
<1> QED  BY <1>1, <1>2, AliasesAre

\* The words of the instructions that have one word in each mode.
LEMMA HexOfSpecial ==
  /\ opcode_hex("RTS") = [P |-> 61696]
  /\ opcode_hex("DITR") = [DL |-> 15392, PX |-> 60448, P |-> 64544]
  /\ \A op \in MnemonicsControl : opcode_hex(op) = [P |-> 62464 + control_number(op)]
<1> DEFINE Special == {"RTS", "DITR"} \cup MnemonicsControl
<1>0. /\ \A op \in Special : Alias(op) = op /\ op \notin PlainNames
      /\ \A op \in MnemonicsControl : op \notin {"RTS", "RSV", "DITR"}
  <2>1. Special \subseteq MnemonicsShc \cup MnemonicsSrg \cup MnemonicsControl
    BY DEF MnemonicsShc, MnemonicsSrg
  <2>2. {"RTS", "RSV", "DITR"} \subseteq MnemonicsShc \cup MnemonicsSrg
    BY DEF MnemonicsShc, MnemonicsSrg
  <2> HIDE DEF Special
  <2>3. \A op \in Special : op \notin PlainNames
    BY <2>1, TablesAreDisjoint DEF PlainNames
  <2>4. \A op \in Special : Alias(op) = op
    BY <2>1, AliasesAre, Opcodes
  <2>5. \A op \in MnemonicsControl : op \notin {"RTS", "RSV", "DITR"}
    BY <2>2, TablesAreDisjoint
  <2> QED  BY <2>3, <2>4, <2>5
<1>1. \A op \in Special : /\ op \notin Names(group1_opnames)
                          /\ op \notin Names(group2_opnames)
                          /\ op \notin Names(group3_opnames)
                          /\ op \notin Names(group4_opnames)
  BY <1>0, NamesOfTables DEF PlainNames
<1>2. ASSUME NEW op \in MnemonicsControl
      PROVE  opcode_hex(op) = [P |-> 62464 + control_number(op)]
  <2>1. op \in Special
    OBVIOUS
  <2>2. /\ Alias(op) = op /\ op \notin {"RTS", "RSV", "DITR"}
        /\ op \notin Names(group1_opnames) /\ op \notin Names(group2_opnames)
        /\ op \notin Names(group3_opnames) /\ op \notin Names(group4_opnames)
        /\ op \in {control_names[n] : n \in DOMAIN control_names}
    BY <2>1, <1>0, <1>1, NamesOfTables
  <2> QED  BY <2>2 DEF opcode_hex
<1>3. opcode_hex("RTS") = [P |-> 61696]
  <2>1. "RTS" \in Special /\ "RTS" \notin MnemonicsControl
    BY DEF MnemonicsControl
  <2>2. /\ Alias("RTS") = "RTS"
        /\ "RTS" \notin Names(group1_opnames) /\ "RTS" \notin Names(group2_opnames)
        /\ "RTS" \notin Names(group3_opnames) /\ "RTS" \notin Names(group4_opnames)
        /\ "RTS" \notin {control_names[n] : n \in DOMAIN control_names}
    BY <2>1, <1>0, <1>1, NamesOfTables
  <2> QED  BY <2>2 DEF opcode_hex
<1>4. opcode_hex("DITR") = [DL |-> 15392, PX |-> 60448, P |-> 64544]
  <2>1. "DITR" \in Special /\ "DITR" \notin MnemonicsControl
    BY DEF MnemonicsControl
  <2>2. /\ Alias("DITR") = "DITR"
        /\ "DITR" \notin Names(group1_opnames) /\ "DITR" \notin Names(group2_opnames)
        /\ "DITR" \notin Names(group3_opnames) /\ "DITR" \notin Names(group4_opnames)
        /\ "DITR" \notin {control_names[n] : n \in DOMAIN control_names}
    BY <2>1, <1>0, <1>1, NamesOfTables
  <2> QED  BY <2>2 DEF opcode_hex
<1> QED  BY <1>2, <1>3, <1>4

\* The number of a control instruction.
LEMMA ControlNumbers ==
  \A op \in MnemonicsControl :
    control_number(op) \in {0, 1, 2, 3, 8} /\ control_name(control_number(op)) = op
<1> SUFFICES ASSUME NEW op \in MnemonicsControl
             PROVE  control_number(op) \in {0, 1, 2, 3, 8}
                      /\ control_name(control_number(op)) = op
  OBVIOUS
<1>1. DOMAIN control_names = {0, 1, 2, 3, 8}
  BY DEF control_names
<1>2. \E n \in DOMAIN control_names : control_names[n] = op
  BY NamesOfTables
<1>3. control_number(op) \in DOMAIN control_names /\ control_names[control_number(op)] = op
  BY <1>2 DEF control_number
<1> QED  BY <1>1, <1>3 DEF control_name

\* What is read in a word with no operand.
LEMMA SpecialRead ==
  /\ insn_op(61696) = "RTS" /\ insn_class(61696) = "none"
  /\ \A w \in {15392, 60448, 64544} : insn_op(w) = "DITR" /\ insn_class(w) = "none"
  /\ \A op \in MnemonicsControl :
       LET w == 62464 + control_number(op)
       IN  /\ w \in Nat /\ 255 < w /\ w < 65536
           /\ insn_op(w) = op /\ insn_class(w) = "none"
<1>0. 48 = SystemModes["DL"] /\ 224 = SystemModes["PX"] /\ 240 = SystemModes["P"]
  BY DEF SystemModes
<1>20. {"DL", "PX", "P"} \subseteq DOMAIN SystemModes
  BY DEF SystemModes
<1>1. insn_op(61696) = "RTS" /\ insn_class(61696) = "none"
  <2> DEFINE w == 61696
  <2>1. w = 256 * (SystemModes["P"] + 1) + 0 /\ 1 \in 0..15 /\ 0 \in Octets
    BY <1>0, OctetsAre
  <2> HIDE DEF w
  <2>2. /\ System(w) /\ ~Group1(w) /\ ~Group2(w) /\ ~Branch(w)
        /\ Sub(w) = 1 /\ Disp(w) = 0
    BY <1>20, <2>1, SystemRead
  <2>3. insn_op(w) = srg_names[1 + 0]
    BY <2>2 DEF insn_op
  <2>4. insn_class(w) = "none"
    BY <2>2 DEF insn_class
  <2> QED  BY <2>3, <2>4 DEF w, srg_names
<1>2. ASSUME NEW m \in {"DL", "PX", "P"}, NEW w, w = 256 * (SystemModes[m] + 12) + 32
      PROVE  insn_op(w) = "DITR" /\ insn_class(w) = "none"
  <2>1. m \in DOMAIN SystemModes /\ 12 \in 0..15 /\ 32 \in Octets
    BY <1>20, OctetsAre
  <2>2. /\ System(w) /\ ~Group1(w) /\ ~Group2(w) /\ ~Branch(w)
        /\ Sub(w) = 12 /\ Disp(w) = 32
    BY <1>2, <2>1, SystemRead
  <2>3. insn_op(w) = shc_names[1 + 1]
    BY <2>2 DEF insn_op
  <2>4. insn_class(w) = "none"
    BY <2>2 DEF insn_class
  <2> QED  BY <2>3, <2>4 DEF shc_names
<1>3. ASSUME NEW op \in MnemonicsControl
      PROVE  LET w == 62464 + control_number(op)
             IN  /\ w \in Nat /\ 255 < w /\ w < 65536
                 /\ insn_op(w) = op /\ insn_class(w) = "none"
  <2> DEFINE n == control_number(op)
             w == 62464 + n
  <2>1. n \in {0, 1, 2, 3, 8} /\ control_name(n) = op
    BY ControlNumbers
  <2> HIDE DEF n
  <2>2. w = 256 * (SystemModes["P"] + 4) + n /\ 4 \in 0..15 /\ n \in Octets
    BY <1>0, <2>1, OctetsAre
  <2>3. w \in Nat /\ 255 < w /\ w < 65536
    BY <2>1
  <2> HIDE DEF w
  <2>4. /\ System(w) /\ ~Group1(w) /\ ~Group2(w) /\ ~Branch(w)
        /\ HexCode(w) = 15 /\ Sub(w) = 4 /\ Disp(w) = n
    BY <1>20, <2>2, SystemRead
  <2>5. insn_op(w) = control_name(n)
    BY <2>4 DEF insn_op
  <2>6. insn_class(w) = "none"
    BY <2>4 DEF insn_class
  <2> QED  BY <2>1, <2>3, <2>5, <2>6 DEF w, n
<1>4. \A w \in {15392, 60448, 64544} : insn_op(w) = "DITR" /\ insn_class(w) = "none"
  <2>1. 15392 = 256 * (SystemModes["DL"] + 12) + 32
    BY <1>0
  <2>2. 60448 = 256 * (SystemModes["PX"] + 12) + 32
    BY <1>0
  <2>3. 64544 = 256 * (SystemModes["P"] + 12) + 32
    BY <1>0
  <2> QED  BY <1>2, <2>1, <2>2, <2>3
<1> QED  BY <1>1, <1>3, <1>4

\* The fallback is a mode the instruction has.
LEMMA FallbackMode ==
  ASSUME NEW mode \in Modes, NEW entry, Fallback(mode, entry) # "none"
  PROVE  Fallback(mode, entry) \in DOMAIN entry
BY DEF Fallback

\* The forms of an instruction with an operand.
LEMMA EncodedForms ==
  ASSUME NEW op, NEW mode, NEW v, NEW entry, entry = opcode_hex(op),
         NEW used, used = Fallback(mode, entry), Encoded(op, mode, v) # NONE
  PROVE  /\ used # "none"
         /\ \/ entry[used] > 255 /\ Encoded(op, mode, v) = entry[used]
            \/ ~(entry[used] > 255) /\ v # NONE
                 /\ Encoded(op, mode, v) = entry[used] * 256 + low_byte(v)
BY DEF Encoded

LEMMA LowBytes ==
  ASSUME NEW v \in Nat
  PROVE  /\ low_byte(v) \in Octets
         /\ v < 256 => low_byte(v) = v
<1>1. v % 256 \in Nat /\ v % 256 < 256
  OBVIOUS
<1>2. v < 256 => v % 256 = v
  OBVIOUS
<1> QED  BY <1>1, <1>2, OctetsAre DEF low_byte

\* A word reads as op, and as the operand v in the mode used.
Reads(w, op, used, v) ==
  /\ w \in Nat /\ w < 65536
  /\ op \notin {"SHR", "SRG", "SHC"} =>
       /\ insn_op(w) = op
       /\ insn_class(w) \in {"mem", "sys"} =>
            /\ ModeName(w) = used
            /\ v \in 0..255 => insn_number(w) = v

\* The instructions of the first three tables.
LEMMA PlainEncoded ==
  ASSUME NEW op \in Mnemonics1 \cup Mnemonics2 \cup Mnemonics3, NEW mode \in Modes,
         NEW v \in Nat \cup {NONE}, Encoded(op, mode, v) # NONE
  PROVE  Reads(Encoded(op, mode, v), op, Fallback(mode, opcode_hex(op)), v)
<1> DEFINE entry == opcode_hex(op)
           used == Fallback(mode, entry)
           w == Encoded(op, mode, v)
           d == low_byte(v)
<1>1. used # "none" /\ used \in DOMAIN entry
  BY EncodedForms, FallbackMode
<1>2. /\ entry[used] \in Octets
      /\ \A e \in Octets :
           \/ ReadsAs(256 * entry[used] + e, op, used, "mem", e)
           \/ /\ 256 * entry[used] + e \in Nat /\ 256 * entry[used] + e < 65536
              /\ op \notin {"SHR", "SRG", "SHC"} =>
                   ReadsAs(256 * entry[used] + e, op, used, "sys", e)
  <2>1. CASE op \in Mnemonics1
    <3>1. used \in DOMAIN LoadModes
      BY <1>1, <2>1, HexOfPlain DEF Offset
    <3>2. 0 \in Octets
      BY OctetsAre
    <3> HIDE DEF used
    <3> QED  BY <2>1, <3>1, <3>2, LoadRead
  <2>2. CASE op \in Mnemonics2
    <3>1. used \in DOMAIN StoreModes
      BY <1>1, <2>2, HexOfPlain
    <3>2. 0 \in Octets
      BY OctetsAre
    <3> HIDE DEF used
    <3> QED  BY <2>2, <3>1, <3>2, StoreRead
  <2>3. CASE op \in Mnemonics3
    <3>1. used \in DOMAIN SystemModes
      BY <1>1, <2>3, HexOfPlain DEF Offset
    <3>2. 0 \in Octets
      BY OctetsAre
    <3> HIDE DEF used
    <3> QED  BY <2>3, <3>1, <3>2, OtherRead
  <2> QED  BY <2>1, <2>2, <2>3
<1> HIDE DEF used, entry
<1>3. v # NONE /\ w = entry[used] * 256 + d
  <2>1. ~(entry[used] > 255) /\ entry[used] \in Nat
    BY <1>2, OctetsAre
  <2> QED  BY <2>1, EncodedForms DEF used, entry
<1>4. d \in Octets /\ (v \in 0..255 => d = v)
  BY <1>3, LowBytes
<1> HIDE DEF w, d
<1>5. w = 256 * entry[used] + d
  BY <1>2, <1>3, <1>4, OctetsAre
<1>6. \/ ReadsAs(w, op, used, "mem", d)
      \/ /\ w \in Nat /\ w < 65536
         /\ op \notin {"SHR", "SRG", "SHC"} => ReadsAs(w, op, used, "sys", d)
  BY <1>2, <1>4, <1>5
<1>7. Reads(w, op, used, v)
  BY <1>4, <1>6 DEF Reads, ReadsAs
<1> QED  BY <1>7 DEF w, used, entry

\* Those that have one word in a mode.
LEMMA SpecialEncoded ==
  ASSUME NEW op \in {"RTS", "DITR"} \cup MnemonicsControl, NEW mode \in Modes,
         NEW v \in Nat \cup {NONE}, Encoded(op, mode, v) # NONE
  PROVE  /\ Encoded(op, mode, v) \in Nat /\ Encoded(op, mode, v) < 65536
         /\ insn_op(Encoded(op, mode, v)) = op
         /\ insn_class(Encoded(op, mode, v)) = "none"
<1> DEFINE entry == opcode_hex(op)
           used == Fallback(mode, entry)
           w == Encoded(op, mode, v)
<1>1. used # "none" /\ used \in DOMAIN entry
  BY EncodedForms, FallbackMode
<1> HIDE DEF used
<1>2. /\ entry[used] \in Nat /\ 255 < entry[used] /\ entry[used] < 65536
      /\ insn_op(entry[used]) = op /\ insn_class(entry[used]) = "none"
  <2>1. CASE op = "RTS"
    <3>1. entry = [P |-> 61696]
      BY <2>1, HexOfSpecial
    <3>2. entry[used] = 61696
      BY <1>1, <3>1
    <3> HIDE DEF entry
    <3> QED  BY <2>1, <3>2, SpecialRead
  <2>2. CASE op = "DITR"
    <3>1. entry = [DL |-> 15392, PX |-> 60448, P |-> 64544]
      BY <2>2, HexOfSpecial
    <3>2. entry[used] \in {15392, 60448, 64544}
      BY <1>1, <3>1
    <3> HIDE DEF entry
    <3> QED  BY <2>2, <3>2, SpecialRead
  <2>3. CASE op \in MnemonicsControl
    <3>1. entry = [P |-> 62464 + control_number(op)]
      BY <2>3, HexOfSpecial
    <3>2. entry[used] = 62464 + control_number(op)
      BY <1>1, <3>1
    <3> HIDE DEF entry
    <3> QED  BY <2>3, <3>2, SpecialRead
  <2> QED  BY <2>1, <2>2, <2>3
<1>3. w = entry[used]
  <2> HIDE DEF entry
  <2> QED  BY <1>2, EncodedForms DEF used, entry
<1> HIDE DEF w, entry
<1>4. /\ w \in Nat /\ w < 65536 /\ insn_op(w) = op /\ insn_class(w) = "none"
  BY <1>2, <1>3
<1> QED  BY <1>4 DEF w

\* Branches.
LEMMA BranchEncoded ==
  ASSUME NEW op \in Mnemonics4 \cup Aliases, NEW mode \in {"RP", "RM", "IL", "IG"},
         NEW v \in Nat \cup {NONE}, Encoded(op, mode, v) # NONE
  PROVE  /\ v # NONE
         /\ ReadsAs(Encoded(op, mode, v), Alias(op), mode, "branch", low_byte(v))
<1> DEFINE entry == opcode_hex(op)
           used == Fallback(mode, entry)
           w == Encoded(op, mode, v)
           d == low_byte(v)
           a == Alias(op)
<1>0. op \in known_opcodes /\ a \in Mnemonics4 /\ Alias(a) = a
  <2>1. op \in known_opcodes
    BY Opcodes DEF PlainNames
  <2>2. op \in Mnemonics4 => op \notin Aliases
    BY AliasesAre DEF PlainNames
  <2> QED  BY <2>1, <2>2, AliasesAre
<1>1. entry = opcode_hex(a)
  BY <1>0, HexOfAlias
<1>2. DOMAIN entry = DOMAIN BranchModes /\ mode \in DOMAIN BranchModes
  <2>1. DOMAIN entry = DOMAIN BranchModes
    BY <1>0, <1>1, HexOfPlain DEF Offset
  <2>2. mode \in DOMAIN BranchModes
    BY DEF BranchModes
  <2> QED  BY <2>1, <2>2
<1> HIDE DEF entry
<1>3. used = mode
  BY <1>2 DEF Fallback
<1> HIDE DEF used, a
<1>4. 0 \in Octets
  BY OctetsAre
<1>5. entry[mode] \in Octets
  BY <1>0, <1>1, <1>2, <1>4, BranchRead
<1>6. v # NONE /\ w = entry[mode] * 256 + d
  <2>1. ~(entry[mode] > 255) /\ entry[mode] \in Nat
    BY <1>5, OctetsAre
  <2> QED  BY <1>3, <2>1, EncodedForms DEF used, entry
<1>7. d \in Octets
  BY <1>6, LowBytes
<1> HIDE DEF w, d
<1>8. w = 256 * entry[mode] + d
  BY <1>5, <1>6, <1>7, OctetsAre
<1>9. ReadsAs(w, a, mode, "branch", d)
  BY <1>0, <1>1, <1>2, <1>7, <1>8, BranchRead
<1> QED  BY <1>6, <1>9 DEF w, d, a

\* The instruction and its operand are in the word.
AsWritten(l, known, w) ==
  LET v == Resolved(l.op, l.mode, l.args[1], known)
  IN  /\ w \in Nat /\ w < 65536
      /\ l.op \notin {"SHR", "SRG", "SHC"} =>
           /\ insn_op(w) = Alias(l.op)
           /\ l.args # <<>> /\ insn_class(w) \in {"mem", "sys"} =>
                /\ ModeName(w) \in {l.mode, Fallback(l.mode, opcode_hex(l.op))}
                /\ v \in 0..255 => insn_number(w) = v

LEMMA SourceFields ==
  ASSUME NEW l \in SourceLine
  PROVE  /\ l.op \in known_opcodes \cup Directives /\ l.mode \in Modes
         /\ l.args \in Operands /\ l.label \in STRING
         /\ l.args # <<>> => l.args[1] \in Operand
         /\ \A n \in 1..Len(l.args) : l.args[n] \in Operand
<1>1. /\ l.op \in known_opcodes \cup Directives /\ l.mode \in Modes
      /\ l.args \in Seq(Operand) /\ l.label \in STRING
  BY DEF SourceLine
<1> DEFINE s == l.args
<1>2. s \in Seq(Operand)
  BY <1>1
<1> HIDE DEF s
<1>3. (s # <<>> => s[1] \in Operand) /\ \A n \in 1..Len(s) : s[n] \in Operand
  BY <1>2
<1> QED  BY <1>1, <1>3 DEF Operands, s

\* The operand of an instruction is a number, if it is known.
LEMMA OperandValue ==
  ASSUME NEW op, NEW mode, NEW known, Numbers(known), NEW v \in Operand
  PROVE  Resolved(op, mode, v, known) \in Nat \cup {NONE}
BY Resolution DEF Resolved, Numbers

\* A word that names its kind in its operand.
LEMMA KindRead ==
  ASSUME NEW m \in DOMAIN SystemModes, NEW k \in {0, 1, 12}, NEW d \in Octets,
         NEW w, w = 256 * (SystemModes[m] + k) + d
  PROVE  /\ w \in Nat /\ w < 65536 /\ insn_class(w) = "none"
         /\ k = 0 => insn_op(w) = shr_names[1 + d \div 32]
         /\ k = 12 => insn_op(w) = shc_names[1 + d \div 32]
         /\ k = 1 /\ d \div 32 = 0 => insn_op(w) = srg_names[1 + d \div 2]
<1>1. k \in 0..15
  OBVIOUS
<1>2. /\ w \in Nat /\ w < 65536
      /\ System(w) /\ ~Group1(w) /\ ~Group2(w) /\ ~Branch(w)
      /\ Sub(w) = k /\ Disp(w) = d
  BY <1>1, SystemRead
<1>3. insn_class(w) = "none"
  BY <1>2 DEF insn_class
<1>4. k = 0 => insn_op(w) = shr_names[1 + d \div 32]
  BY <1>2 DEF insn_op
<1>5. k = 12 => insn_op(w) = shc_names[1 + d \div 32]
  BY <1>2 DEF insn_op
<1>6. k = 1 /\ d \div 32 = 0 => insn_op(w) = srg_names[1 + d \div 2]
  BY <1>2 DEF insn_op
<1> QED  BY <1>2, <1>3, <1>4, <1>5, <1>6

\* A register instruction.
LEMMA RegisterAssembled ==
  ASSUME NEW l \in SourceLine, l.op \in derived_srg, NEW known,
         NEW w, w = (SystemModes[SrgMode(l)] + 1) * 256 + 2 * Index(srg_names, l.op)
  PROVE  AsWritten(l, known, w)
<1> DEFINE i == Index(srg_names, l.op)
           m == SrgMode(l)
           d == 2 * i
<1>1. i \in 0..15 /\ srg_names[1 + i] = l.op
  BY Places, Opcodes
<1>2. m \in DOMAIN SystemModes
  BY DEF SrgMode, SystemModes
<1>3. SystemModes[m] \in Nat
  BY <1>2 DEF SystemModes
<1>4. Alias(l.op) = l.op
  BY AliasesAre, Opcodes
<1>5. w = (SystemModes[m] + 1) * 256 + d
  OBVIOUS
<1> HIDE DEF i, m
<1>6. d \in Octets /\ d \div 32 = 0 /\ d \div 2 = i
  BY <1>1, OctetsAre
<1> HIDE DEF d
<1>7. w = 256 * (SystemModes[m] + 1) + d
  BY <1>3, <1>5, <1>6, OctetsAre
<1>8. w \in Nat /\ w < 65536 /\ insn_class(w) = "none" /\ insn_op(w) = srg_names[1 + d \div 2]
  BY <1>2, <1>6, <1>7, KindRead
<1>9. insn_op(w) = Alias(l.op)
  BY <1>1, <1>4, <1>6, <1>8
<1> QED  BY <1>8, <1>9 DEF AsWritten

\* A shift, of either table.
LEMMA ShiftAssembled ==
  ASSUME NEW l \in SourceLine, NEW known, NEW v \in Nat, NEW sub, NEW i \in 0..7,
         \/ sub = 0 /\ l.op \in derived_shifts /\ shr_names[1 + i] = l.op
         \/ sub = 12 /\ l.op \in derived_shc /\ shc_names[1 + i] = l.op,
         l.mode \in {"P", "PX", "DL"},
         NEW w, w = (SystemModes[l.mode] + sub) * 256 + 32 * i + (v % 32)
  PROVE  AsWritten(l, known, w)
<1> DEFINE m == l.mode
           r == v % 32
           d == 32 * i + r
<1>2. m \in DOMAIN SystemModes
  BY DEF SystemModes
<1>3. SystemModes[m] \in Nat
  BY <1>2 DEF SystemModes
<1>4. Alias(l.op) = l.op
  BY AliasesAre, Opcodes
<1>5. w = (SystemModes[m] + sub) * 256 + 32 * i + r
  OBVIOUS
<1>6. r \in Nat /\ r < 32
  OBVIOUS
<1> HIDE DEF m, r
<1>7. d \in Octets /\ d \div 32 = i
  BY <1>6, OctetsAre
<1>8. w = 256 * (SystemModes[m] + sub) + d /\ sub \in {0, 12}
  BY <1>3, <1>5, <1>6
<1> HIDE DEF d
<1>9. /\ w \in Nat /\ w < 65536 /\ insn_class(w) = "none"
      /\ sub = 0 => insn_op(w) = shr_names[1 + d \div 32]
      /\ sub = 12 => insn_op(w) = shc_names[1 + d \div 32]
  BY <1>2, <1>7, <1>8, KindRead
<1>10. insn_op(w) = Alias(l.op)
  BY <1>4, <1>7, <1>9
<1> QED  BY <1>9, <1>10 DEF AsWritten

\* The word of an instruction of the system whose operand is 0.
LEMMA ZeroRead ==
  ASSUME NEW k \in {2, 3, 5, 6}, NEW w, w = 256 * (240 + k)
  PROVE  w \in Nat /\ w < 65536 /\ insn_op(w) = group3_opnames[1 + k]
<1> DEFINE m == "P"
           d == 0
<1>1. m \in DOMAIN SystemModes /\ SystemModes[m] = 240 /\ k \in 0..15 /\ d \in Octets
  BY OctetsAre DEF SystemModes
<1>2. w = 256 * (SystemModes[m] + k) + d
  BY <1>1
<1> HIDE DEF m, d
<1>3. w \in Nat /\ w < 65536 /\ System(w) /\ ~Group1(w) /\ ~Group2(w) /\ ~Branch(w) /\ Sub(w) = k
  BY <1>1, <1>2, SystemRead
<1>4. insn_op(w) = group3_opnames[1 + k]
  BY <1>3 DEF insn_op
<1> QED  BY <1>3, <1>4

\* An instruction without operand.
LEMMA BareAssembled ==
  ASSUME NEW l \in SourceLine, NEW known, l.args = <<>>,
         NEW w, w = WithoutOperand(l.op), w # NONE
  PROVE  AsWritten(l, known, w)
<1> DEFINE C == {"CLM", "DIT", "RD", "WD", "STM"}
<1>0. C = MnemonicsControl
  BY DEF MnemonicsControl
<1>20. {"ICX", "DCX", "ICL", "DCL", "RTS"} \cup C \subseteq known_opcodes
  BY <1>0, Opcodes DEF PlainNames, Mnemonics3, MnemonicsSrg
<1>1. CASE l.op \in {"ICX", "DCX", "ICL", "DCL"}
  <2>1. PICK k \in {2, 3, 5, 6} : w = 256 * (240 + k) /\ group3_opnames[1 + k] = l.op
    BY <1>1 DEF WithoutOperand, group3_opnames
  <2>3. w \in Nat /\ w < 65536 /\ insn_op(w) = group3_opnames[1 + k]
    BY <2>1, ZeroRead
  <2>5. Alias(l.op) = l.op
    BY <1>1 DEF Alias
  <2> QED  BY <2>1, <2>3, <2>5 DEF AsWritten
<1>2. CASE l.op = "RTS"
  <2>1. w = 61696
    BY <1>2, HexOfSpecial DEF WithoutOperand
  <2>2. Alias(l.op) = l.op
    BY <1>2 DEF Alias
  <2>3. w \in Nat /\ w < 65536
    BY <2>1
  <2> QED  BY <1>2, <2>1, <2>2, <2>3, SpecialRead DEF AsWritten
<1>3. CASE l.op \in C
  <2>1. w = opcode_hex(l.op)["P"]
    BY <1>3 DEF WithoutOperand
  <2>2. opcode_hex(l.op) = [P |-> 62464 + control_number(l.op)]
    BY <1>0, <1>3, HexOfSpecial
  <2>3. w = 62464 + control_number(l.op)
    BY <2>1, <2>2
  <2>4. Alias(l.op) = l.op
    BY <1>3 DEF Alias
  <2>5. w \in Nat /\ w < 65536 /\ insn_op(w) = l.op
    BY <1>0, <1>3, <2>3, SpecialRead
  <2> QED  BY <2>4, <2>5 DEF AsWritten
<1>4. l.op \in {"ICX", "DCX", "ICL", "DCL", "RTS"} \cup C
  BY DEF WithoutOperand
<1> QED  BY <1>1, <1>2, <1>3, <1>4

LEMMA RelativeType ==
  ASSUME NEW here \in Int, NEW there \in Int
  PROVE  Relative(here, there).mode \in {"RP", "RM"} /\ Relative(here, there).value \in Nat
<1>1. CASE there >= here
  <2>1. (there - here) \div 2 \in Nat
    BY <1>1
  <2> QED  BY <1>1, <2>1 DEF Relative
<1>2. CASE ~(there >= here)
  <2>1. (here - there) \div 2 \in Nat
    BY <1>2
  <2> QED  BY <1>2, <2>1 DEF Relative
<1> QED  BY <1>1, <1>2

\* A branch, with a label or an indirection.
LEMMA BranchAssembled ==
  ASSUME NEW l \in SourceLine, l.op \in Mnemonics4 \cup Aliases, NEW known,
         NEW mode \in {"RP", "RM", "IL", "IG"}, NEW v \in Nat \cup {NONE},
         NEW w, w = Encoded(l.op, mode, v), w # NONE
  PROVE  AsWritten(l, known, w)
<1>1. ReadsAs(w, Alias(l.op), mode, "branch", low_byte(v))
  BY BranchEncoded
<1> QED  BY <1>1 DEF ReadsAs, AsWritten

\* Any other instruction with an operand.
LEMMA OtherAssembled ==
  ASSUME NEW l \in SourceLine, NEW known, Numbers(known), l.args # <<>>,
         l.op \in Mnemonics1 \cup Mnemonics2 \cup Mnemonics3 \cup {"RTS", "DITR"}
                    \cup MnemonicsControl,
         NEW v, v = Resolved(l.op, l.mode, l.args[1], known),
         NEW w, w = Encoded(l.op, l.mode, v), w # NONE
  PROVE  AsWritten(l, known, w)
<1>1. v \in Nat \cup {NONE}
  BY SourceFields, OperandValue
<1>2. l.mode \in Modes
  BY SourceFields
<1>3. Alias(l.op) = l.op
  <2>1. {"RTS", "DITR"} \subseteq MnemonicsSrg \cup MnemonicsShc
    BY DEF MnemonicsSrg, MnemonicsShc
  <2> QED  BY <2>1, AliasesAre, Opcodes DEF PlainNames
<1>4. CASE l.op \in Mnemonics1 \cup Mnemonics2 \cup Mnemonics3
  <2>1. Reads(w, l.op, Fallback(l.mode, opcode_hex(l.op)), v)
    BY <1>1, <1>2, <1>4, PlainEncoded
  <2> QED  BY <1>3, <2>1 DEF Reads, AsWritten
<1>5. CASE l.op \in {"RTS", "DITR"} \cup MnemonicsControl
  <2> DEFINE op == l.op
             mode == l.mode
  <2>2. op \in {"RTS", "DITR"} \cup MnemonicsControl /\ mode \in Modes
    BY <1>2, <1>5
  <2>3. w = Encoded(op, mode, v) /\ w # NONE
    OBVIOUS
  <2>1. w \in Nat /\ w < 65536 /\ insn_op(w) = l.op /\ insn_class(w) = "none"
    <3>1. w \in Nat /\ w < 65536 /\ insn_op(w) = op /\ insn_class(w) = "none"
      <4> HIDE DEF op, mode
      <4> QED  BY <1>1, <2>2, <2>3, SpecialEncoded
    <3> QED  BY <3>1
  <2> QED  BY <1>3, <2>1 DEF AsWritten
<1> QED  BY <1>4, <1>5

\* An instruction that is accepted is assembled as it is written.
LEMMA Assembly ==
  ASSUME NEW l \in SourceLine, l.op \in known_opcodes, NEW known, Numbers(known),
         NEW here \in Int, NEW w, w = assemble_instruction(l, known, here), w # NONE
  PROVE  AsWritten(l, known, w)
<1> DEFINE v == Resolved(l.op, l.mode, l.args[1], known)
           to == Relative(here, v)
           shift(sub, kind) ==
             IF l.mode \in {"P", "PX", "DL"} /\ v # NONE
               THEN (SystemModes[l.mode] + sub) * 256 + 32 * kind + (v % 32) ELSE NONE
           branch == Alias(l.op) \in Names(group4_opnames)
<1>0. w = CASE l.op \in derived_srg ->
                 (SystemModes[SrgMode(l)] + 1) * 256 + 2 * Index(srg_names, l.op)
            [] l.op \notin derived_srg /\ l.args = <<>> -> WithoutOperand(l.op)
            [] l.args # <<>> /\ l.op \in derived_shifts -> shift(0, Index(shr_names, l.op))
            [] l.args # <<>> /\ l.op \in derived_shc -> shift(12, Index(shc_names, l.op))
            [] l.args # <<>> /\ branch ->
                 IF l.mode = "DL"
                   THEN IF v = NONE THEN NONE ELSE Encoded(l.op, to.mode, to.value)
                 ELSE IF l.mode \in {"IL", "IG"} THEN Encoded(l.op, l.mode, v)
                 ELSE NONE
            [] OTHER -> Encoded(l.op, l.mode, v)
  BY Zenon DEF assemble_instruction
<1>1. /\ derived_shifts \cap derived_shc = {} /\ derived_srg \cap derived_shc = {}
      /\ derived_srg \cap derived_shifts = {}
      /\ branch => l.op \notin derived_srg \cup derived_shifts \cup derived_shc
      /\ branch <=> l.op \in Mnemonics4 \cup Aliases
  <2>1. branch <=> l.op \in Mnemonics4 \cup Aliases
    BY Branches
  <2> HIDE DEF branch
  <2>2. /\ derived_shifts \cap derived_shc = {} /\ derived_srg \cap derived_shc = {}
        /\ derived_srg \cap derived_shifts = {}
    BY Opcodes, TablesAreDisjoint
  <2>3. branch => l.op \notin derived_srg \cup derived_shifts \cup derived_shc
    BY <2>1, Opcodes, TablesAreDisjoint, AliasesAre
  <2> QED  BY <2>1, <2>2, <2>3
<1>2. l.args # <<>> => v \in Nat \cup {NONE}
  BY SourceFields, OperandValue
<1>3. CASE l.op \in derived_srg
  <2>1. w = (SystemModes[SrgMode(l)] + 1) * 256 + 2 * Index(srg_names, l.op)
    <3> HIDE DEF v, to, shift, branch
    <3> QED  BY <1>0, <1>1, <1>3
  <2> QED  BY <1>3, <2>1, RegisterAssembled
<1>4. CASE l.op \notin derived_srg /\ l.args = <<>>
  <2>1. w = WithoutOperand(l.op)
    <3> HIDE DEF v, to, shift, branch
    <3> QED  BY <1>0, <1>4
  <2> QED  BY <1>4, <2>1, BareAssembled
<1>5. CASE l.args # <<>> /\ l.op \in derived_shifts
  <2> DEFINE i == Index(shr_names, l.op)
  <2>1. w = shift(0, i)
    <3> HIDE DEF v, to, shift, branch
    <3> QED  BY <1>0, <1>1, <1>5
  <2>2. i \in 0..7 /\ shr_names[1 + i] = l.op
    BY <1>5, Places, Opcodes
  <2> HIDE DEF i
  <2>3. /\ l.mode \in {"P", "PX", "DL"} /\ v # NONE
        /\ w = (SystemModes[l.mode] + 0) * 256 + 32 * i + (v % 32)
    <3> HIDE DEF v
    <3> QED  BY <2>1
  <2>4. v \in Nat
    BY <1>2, <1>5, <2>3
  <2> HIDE DEF v
  <2> QED  BY <1>5, <2>2, <2>3, <2>4, ShiftAssembled, ZenonT(60)
<1>6. CASE l.args # <<>> /\ l.op \in derived_shc
  <2> DEFINE i == Index(shc_names, l.op)
  <2>1. w = shift(12, i)
    <3> HIDE DEF v, to, shift, branch
    <3> QED  BY <1>0, <1>1, <1>6
  <2>2. i \in 0..7 /\ shc_names[1 + i] = l.op
    BY <1>6, Places, Opcodes
  <2> HIDE DEF i
  <2>3. /\ l.mode \in {"P", "PX", "DL"} /\ v # NONE
        /\ w = (SystemModes[l.mode] + 12) * 256 + 32 * i + (v % 32)
    <3> HIDE DEF v
    <3> QED  BY <2>1
  <2>4. v \in Nat
    BY <1>2, <1>6, <2>3
  <2> HIDE DEF v
  <2> QED  BY <1>6, <2>2, <2>3, <2>4, ShiftAssembled, ZenonT(60)
<1>7. CASE l.args # <<>> /\ branch
  <2>1. w = IF l.mode = "DL"
              THEN IF v = NONE THEN NONE ELSE Encoded(l.op, to.mode, to.value)
            ELSE IF l.mode \in {"IL", "IG"} THEN Encoded(l.op, l.mode, v)
            ELSE NONE
    <3> HIDE DEF v, to, shift, branch
    <3> QED  BY <1>0, <1>1, <1>7
  <2>2. l.op \in Mnemonics4 \cup Aliases
    BY <1>1, <1>7
  <2>3. CASE l.mode = "DL"
    <3>1. v \in Nat /\ w = Encoded(l.op, to.mode, to.value)
      <4> HIDE DEF v, to
      <4> QED  BY <1>2, <1>7, <2>1, <2>3
    <3>2. to.mode \in {"RP", "RM"} /\ to.value \in Nat
      <4> HIDE DEF v
      <4>1. v \in Int
        BY <3>1
      <4> QED  BY <4>1, RelativeType
    <3> HIDE DEF v, to
    <3> QED  BY <2>2, <3>1, <3>2, BranchAssembled
  <2>4. CASE l.mode # "DL"
    <3>1. l.mode \in {"IL", "IG"} /\ w = Encoded(l.op, l.mode, v)
      <4> HIDE DEF v, to
      <4> QED  BY <2>1, <2>4
    <3>2. v \in Nat \cup {NONE}
      BY <1>2, <1>7
    <3> HIDE DEF v
    <3> QED  BY <2>2, <3>1, <3>2, BranchAssembled
  <2> QED  BY <2>3, <2>4
<1>8. CASE /\ l.args # <<>> /\ ~branch
           /\ l.op \notin derived_srg \cup derived_shifts \cup derived_shc
  <2>1. w = Encoded(l.op, l.mode, v)
    <3> HIDE DEF v, to, shift, branch
    <3> QED  BY <1>0, <1>8
  <2>2. l.op \in Mnemonics1 \cup Mnemonics2 \cup Mnemonics3 \cup {"RTS", "DITR"}
                   \cup MnemonicsControl
    BY <1>1, <1>8, Opcodes DEF PlainNames
  <2> QED  BY <1>8, <2>1, <2>2, OtherAssembled
<1> HIDE DEF branch
<1> QED  BY <1>3, <1>4, <1>5, <1>6, <1>7, <1>8

----------------------------------------------------------------------------
(* What each line gives. *)

\* The code after each operand.
Build(t, bytes, c, args) ==
  /\ t \in [0..Len(args) -> Codes]
  /\ t[0] = c
  /\ \A n \in 1..Len(args) : t[n] = DataArgument(bytes, t[n - 1], args[n])

LEMMA BuildEachArgument ==
  ASSUME Numbers(labels), NEW bytes \in BOOLEAN, NEW c \in Codes, NEW args \in Operands
  PROVE  \E t : Build(t, bytes, c, args) /\ DataArguments(bytes, c, args) = t[Len(args)]
<1> DEFINE N == Len(args)
           V == Codes
           added(r, n) == DataArgument(bytes, r, args[n])
           step == [p \in V \X (1..N) |-> added(p[1], p[2])]
           IsTable(f) == f = [n \in 0..N |-> IF n = 0 THEN c ELSE added(f[n - 1], n)]
           table == CHOOSE f : IsTable(f)
<1>0. N \in Nat /\ \A n \in 1..N : args[n] \in Operand
  BY DEF Operands
<1>1. ASSUME NEW r \in V, NEW n \in 1..N PROVE added(r, n) \in V
  BY <1>0, OneArgument
<1>2. step \in Steps(V, N)
  <2>1. \A p \in V \X (1..N) : added(p[1], p[2]) \in V
    <3> HIDE DEF V, N, added
    <3> QED  BY <1>1
  <2> HIDE DEF V, N, added
  <2> QED  BY <2>1 DEF Steps
<1>3. PICK f : Follows(f, V, c, step, N)
  <2>1. c \in V /\ N \in Nat
    BY <1>0
  <2> HIDE DEF step, N, V
  <2> QED  BY <1>2, <2>1, Recursion
<1>4. /\ f \in [0..N -> V]
      /\ f[0] = c
      /\ \A n \in 1..N : f[n] = step[<<f[n - 1], n>>]
  <2> HIDE DEF step, N, V
  <2> QED  BY <1>3 DEF Follows
<1>5. \A n \in 1..N : f[n] = added(f[n - 1], n)
  <2> TAKE n \in 1..N
  <2>1. f[n - 1] \in V
    <3> HIDE DEF N, V
    <3> QED  BY <1>0, <1>4
  <2>2. step[<<f[n - 1], n>>] = added(f[n - 1], n)
    <3> HIDE DEF V, N, added
    <3> QED  BY <2>1
  <2> HIDE DEF step, N, V, added
  <2> QED  BY <1>4, <2>2
<1>6. IsTable(f)
  <2> HIDE DEF N, V, added
  <2> QED  BY <1>0, <1>4, <1>5
<1>7. IsTable(table)
  <2> HIDE DEF added, N
  <2> QED  BY <1>6
<1>8. DataArguments(bytes, c, args) = table[N]
  BY DEF DataArguments
<1> DEFINE Good == {n \in 0..N : table[n] = f[n]}
<1>9. 0 \in Good
  <2> HIDE DEF table, N, added
  <2> QED  BY <1>0, <1>4, <1>7
<1>10. ASSUME NEW n \in 0..N - 1, n \in Good PROVE n + 1 \in Good
  <2> DEFINE k == n + 1
  <2>1. k \in 1..N /\ k \in 0..N /\ k # 0 /\ k - 1 = n /\ table[n] = f[n]
    <3> HIDE DEF table, N
    <3> QED  BY <1>0, <1>10
  <2> HIDE DEF k
  <2>2. table[k] = added(table[k - 1], k)
    <3> HIDE DEF table, N, added
    <3> QED  BY <1>7, <2>1
  <2>3. f[k] = added(f[k - 1], k)
    <3> HIDE DEF N, added
    <3> QED  BY <1>5, <2>1
  <2>4. table[k] = f[k]
    <3> HIDE DEF table, added
    <3> QED  BY <2>1, <2>2, <2>3
  <2> HIDE DEF table, N
  <2>5. k \in Good
    BY <2>1, <2>4
  <2> QED  BY <2>5 DEF k
<1>11. 0..N \subseteq Good
  <2> HIDE DEF Good, N
  <2> QED  BY <1>0, <1>9, <1>10, RangeInduction
<1>12. table[N] = f[N]
  <2> HIDE DEF table, N
  <2> QED  BY <1>0, <1>11
<1>13. Build(f, bytes, c, args)
  BY <1>4, <1>5 DEF Build
<1> HIDE DEF table, N
<1> QED  BY <1>8, <1>12, <1>13 DEF N

\* What the operands of DATA add to the code.
LEMMA BuiltAll ==
  ASSUME Numbers(labels), NEW bytes \in BOOLEAN, NEW c \in Codes, NEW args \in Operands
  PROVE  LET d == DataArguments(bytes, c, args)
             size == IF bytes THEN Items(args) ELSE 2 * Items(args)
         IN  /\ d \in Codes
             /\ bytes \/ c.at % 2 = 0 =>
                  Len(d.bytes) = Len(c.bytes) + size /\ d.at = c.at + size
<1> DEFINE N == Len(args)
           d == DataArguments(bytes, c, args)
<1>0. N \in Nat /\ \A n \in 1..N : args[n] \in Operand
  BY DEF Operands
<1>1. PICK t : Follow(t, TRUE, 0, args) /\ Items(args) = t[N]
  BY AfterEachArgument DEF Items
<1>2. PICK u : Build(u, bytes, c, args) /\ d = u[N]
  BY BuildEachArgument
<1> HIDE DEF N, d
<1>3. /\ t \in [0..N -> Nat] /\ t[0] = 0
      /\ u \in [0..N -> Codes] /\ u[0] = c
      /\ \A n \in 1..N : t[n] = AfterArgument(TRUE, t[n - 1], args[n])
      /\ \A n \in 1..N : u[n] = DataArgument(bytes, u[n - 1], args[n])
  BY <1>1, <1>2 DEF Follow, Build, N
<1> DEFINE wide(x) == IF bytes THEN x ELSE 2 * x
           fits == bytes \/ c.at % 2 = 0
           Good == {n \in 0..N : fits => /\ Len(u[n].bytes) = Len(c.bytes) + wide(t[n])
                                         /\ u[n].at = c.at + wide(t[n])}
<1>4. c.at \in Nat /\ Len(c.bytes) \in Nat
  BY CodeFields
<1>5. 0 \in Good
  BY <1>0, <1>3, <1>4
<1>6. ASSUME NEW n \in 0..N - 1, n \in Good PROVE n + 1 \in Good
  <2> DEFINE k == n + 1
             v == args[k]
             i == ItemsOf(v)
  <2>1. k \in 1..N /\ k \in 0..N /\ k - 1 = n /\ n \in 0..N
    BY <1>0
  <2>2. v \in Operand /\ t[n] \in Nat /\ u[n] \in Codes
    <3> HIDE DEF k
    <3> QED  BY <1>0, <1>3, <2>1
  <2>3. i \in Nat
    BY <2>2, ItemsType
  <2>4. t[k] = AfterArgument(TRUE, t[n], v) /\ u[k] = DataArgument(bytes, u[n], v)
    <3> HIDE DEF k
    <3>1. /\ t[k] = AfterArgument(TRUE, t[k - 1], args[k])
          /\ u[k] = DataArgument(bytes, u[k - 1], args[k])
      BY <1>3, <2>1
    <3> QED  BY <2>1, <3>1
  <2>5. fits => /\ Len(u[n].bytes) = Len(c.bytes) + wide(t[n])
                /\ u[n].at = c.at + wide(t[n])
    BY <1>6
  <2> HIDE DEF v, i, k
  <2>6. /\ t[k] = t[n] + i
        /\ bytes \/ u[n].at % 2 = 0 =>
             /\ Len(u[k].bytes) = Len(u[n].bytes) + wide(i)
             /\ u[k].at = u[n].at + wide(i)
    <3>1. t[k] = t[n] + i
      BY <2>2, <2>4, AfterOne DEF i
    <3> DEFINE e == DataArgument(bytes, u[n], v)
               size == IF bytes THEN ItemsOf(v) ELSE 2 * ItemsOf(v)
    <3>2. bytes \/ u[n].at % 2 = 0 =>
            Len(e.bytes) = Len(u[n].bytes) + size /\ e.at = u[n].at + size
      BY <2>2, OneArgument
    <3>3. size = wide(i)
      BY DEF i
    <3> HIDE DEF size, wide
    <3>4. u[k] = e
      BY <2>4
    <3> HIDE DEF e
    <3> QED  BY <3>1, <3>2, <3>3, <3>4
  <2>7. fits => bytes \/ u[n].at % 2 = 0
    <3>1. CASE bytes
      BY <3>1
    <3>2. CASE ~bytes
      BY <1>4, <2>2, <2>5, <3>2
    <3> QED  BY <3>1, <3>2
  <2>8. wide(t[k]) = wide(t[n]) + wide(i) /\ wide(t[n]) \in Nat /\ wide(i) \in Nat
    BY <2>2, <2>3, <2>6
  <2> HIDE DEF fits, wide
  <2>11. u[n].at \in Nat /\ Len(u[n].bytes) \in Nat
    BY <2>2, CodeFields
  <2>9. fits => /\ Len(u[k].bytes) = Len(c.bytes) + wide(t[k])
                /\ u[k].at = c.at + wide(t[k])
    <3> SUFFICES ASSUME fits
                 PROVE  /\ Len(u[k].bytes) = Len(c.bytes) + wide(t[k])
                        /\ u[k].at = c.at + wide(t[k])
      OBVIOUS
    <3>1. /\ Len(u[n].bytes) = Len(c.bytes) + wide(t[n])
          /\ u[n].at = c.at + wide(t[n])
      BY <2>5
    <3>2. /\ Len(u[k].bytes) = Len(u[n].bytes) + wide(i)
          /\ u[k].at = u[n].at + wide(i)
      BY <2>6, <2>7
    <3> DEFINE x == wide(t[n])
               y == wide(i)
    <3>3. x \in Nat /\ y \in Nat /\ wide(t[k]) = x + y
      BY <2>8
    <3> HIDE DEF x, y
    <3> QED  BY <1>4, <2>11, <3>1, <3>2, <3>3 DEF x, y
  <2>10. k \in Good
    BY <2>1, <2>9
  <2> QED  BY <2>10 DEF k
<1>7. N \in Good
  <2> HIDE DEF Good
  <2>1. 0..N \subseteq Good
    BY <1>0, <1>5, <1>6, RangeInduction
  <2> QED  BY <1>0, <2>1
<1>8. u[N] \in Codes
  BY <1>0, <1>3
<1> QED  BY <1>1, <1>2, <1>7, <1>8 DEF d

\* A line with the operand its directive takes.
HasOperand(l) == l.op \in {"ORG", "EQU", "RES", "RES,1", "TEXT"} => l.args # <<>>

Written(lines) ==
  /\ lines \in Seq(SourceLine) /\ Len(lines) \in Nat
  /\ \A i \in 1..Len(lines) : lines[i] \in SourceLine /\ HasOperand(lines[i])

LEMMA SourcesWritten == \A s \in Sources : Written(s) /\ DOMAIN s = 1..Len(s)
<1> SUFFICES ASSUME NEW s \in Sources PROVE Written(s) /\ DOMAIN s = 1..Len(s)
  OBVIOUS
<1>1. /\ s \in Seq(SourceLine)
      /\ \A i \in DOMAIN s : HasOperand(s[i])
  BY SourcesAssumption DEF HasOperand
<1>2. DOMAIN s = 1..Len(s) /\ Len(s) \in Nat /\ \A i \in 1..Len(s) : s[i] \in SourceLine
  BY <1>1
<1> QED  BY <1>1, <1>2 DEF Written

\* The mnemonics and the directives are apart.
LEMMA DirectivesAre ==
  /\ known_opcodes \cap Directives = {}
  /\ Data \cap (Sections \cup {"FIN", "END", "ORG", "EQU", "none"}) = {}
  /\ Sections \cap {"FIN", "END", "ORG", "EQU", "none"} = {}
<1>1. known_opcodes \cap Directives = {}
  BY Opcodes DEF PlainNames, Mnemonics1, Mnemonics2, Mnemonics3, Mnemonics4, MnemonicsShr,
     MnemonicsShc, MnemonicsSrg, MnemonicsControl, Aliases, Directives, Sections, Data
<1>2. /\ Data \cap (Sections \cup {"FIN", "END", "ORG", "EQU", "none"}) = {}
      /\ Sections \cap {"FIN", "END", "ORG", "EQU", "none"} = {}
  BY DEF Sections, Data
<1> QED  BY <1>1, <1>2

\* A line whose size is known and a whole number of words, and that size.
Sized(l) ==
  \/ IsInstruction(l)
  \/ l.op \in {"EQU", "none", "DATA"}
  \/ l.op = "RES" /\ l.args[1].name = NoName
  \/ l.op = "RES,1" /\ l.args[1].name = NoName /\ l.args[1].number % 2 = 0
  \/ l.op = "TEXT" /\ l.args[1].length % 2 = 0
  \/ l.op = "DATA,1" /\ Items(l.args) % 2 = 0

Size(l) ==
  IF IsInstruction(l) THEN 2
  ELSE IF l.op = "DATA" THEN 2 * Items(l.args)
  ELSE IF l.op = "DATA,1" THEN Items(l.args)
  ELSE IF l.op = "RES" THEN 2 * l.args[1].number
  ELSE IF l.op = "RES,1" THEN l.args[1].number
  ELSE IF l.op = "TEXT" THEN l.args[1].length
  ELSE 0

LEMMA Doubled == ASSUME NEW n \in Nat PROVE 2 * n \in Nat /\ (2 * n) % 2 = 0
OBVIOUS

LEMMA SizeType ==
  ASSUME NEW l \in SourceLine, HasOperand(l)
  PROVE  Size(l) \in Nat /\ (Sized(l) => Size(l) % 2 = 0)
<1>1. Items(l.args) \in Nat
  BY SourceFields, AfterAll
<1>2. l.op \in {"RES", "RES,1", "TEXT"} => l.args[1].number \in Nat /\ l.args[1].length \in Nat
  BY SourceFields, OperandFields DEF HasOperand
<1>3. IsInstruction(l) => l.op \notin {"DATA", "DATA,1", "RES", "RES,1", "TEXT"}
  BY DEF IsInstruction, Directives, Data
<1> DEFINE i == Items(l.args)
           n == l.args[1].number
           m == l.args[1].length
           s == Size(l)
<1>6. s = IF IsInstruction(l) THEN 2
          ELSE IF l.op = "DATA" THEN 2 * i
          ELSE IF l.op = "DATA,1" THEN i
          ELSE IF l.op = "RES" THEN 2 * n
          ELSE IF l.op = "RES,1" THEN n
          ELSE IF l.op = "TEXT" THEN m
          ELSE 0
  BY DEF Size
<1>7. /\ Sized(l) /\ l.op = "RES,1" => IsInstruction(l) \/ n % 2 = 0
      /\ Sized(l) /\ l.op = "TEXT" => IsInstruction(l) \/ m % 2 = 0
      /\ Sized(l) /\ l.op = "DATA,1" => IsInstruction(l) \/ i % 2 = 0
  BY DEF Sized
<1>8. i \in Nat /\ (l.op \in {"RES", "RES,1", "TEXT"} => n \in Nat /\ m \in Nat)
  BY <1>1, <1>2
<1> HIDE DEF i, n, m, s
<1>9. /\ 2 * i \in Nat /\ (2 * i) % 2 = 0
      /\ n \in Nat => 2 * n \in Nat /\ (2 * n) % 2 = 0
      /\ 2 \in Nat /\ 2 % 2 = 0 /\ 0 \in Nat /\ 0 % 2 = 0
  <2>1. 2 * i \in Nat /\ (2 * i) % 2 = 0
    BY <1>8, Doubled
  <2>2. n \in Nat => 2 * n \in Nat /\ (2 * n) % 2 = 0
    BY Doubled
  <2>3. 2 \in Nat /\ 2 % 2 = 0 /\ 0 \in Nat /\ 0 % 2 = 0
    OBVIOUS
  <2> QED  BY <2>1, <2>2, <2>3
<1> DEFINE i2 == 2 * i
           n2 == 2 * n
           half(x) == x % 2 = 0
<1>10. /\ s = IF IsInstruction(l) THEN 2
              ELSE IF l.op = "DATA" THEN i2
              ELSE IF l.op = "DATA,1" THEN i
              ELSE IF l.op = "RES" THEN n2
              ELSE IF l.op = "RES,1" THEN n
              ELSE IF l.op = "TEXT" THEN m
              ELSE 0
       /\ i2 \in Nat /\ half(i2) /\ (n \in Nat => n2 \in Nat /\ half(n2))
       /\ 2 \in Nat /\ half(2) /\ 0 \in Nat /\ half(0)
       /\ Sized(l) /\ l.op = "RES,1" => IsInstruction(l) \/ half(n)
       /\ Sized(l) /\ l.op = "TEXT" => IsInstruction(l) \/ half(m)
       /\ Sized(l) /\ l.op = "DATA,1" => IsInstruction(l) \/ half(i)
  BY <1>6, <1>7, <1>9
<1> HIDE DEF i2, n2, half
<1>4. s \in Nat
  BY <1>8, <1>10
<1>5. Sized(l) => half(s)
  BY <1>8, <1>10
<1> QED  BY <1>4, <1>5 DEF s, half

\* The line of an operand that is a number.
LEMMA CountIs ==
  ASSUME NEW l \in SourceLine, l.args # <<>>, NEW known, Numbers(known)
  PROVE  /\ CountOf(l, known) \in Nat
         /\ l.args[1].name = NoName => CountOf(l, known) = l.args[1].number
<1> DEFINE v == l.args[1]
           n == resolve_expression(v, known)
<1>1. v \in Operand /\ v.number \in Nat
  BY SourceFields, OperandFields
<1>2. n \in Nat \cup {NONE} /\ (v.name = NoName => n = v.number)
  BY <1>1, Resolution
<1>3. CountOf(l, known) = IF n = NONE THEN 1 ELSE n
  BY DEF CountOf
<1> HIDE DEF n
<1>4. \A x \in Nat : x # NONE
  BY DEF NONE
<1> QED  BY <1>1, <1>2, <1>3, <1>4

LEMMA EvenType ==
  ASSUME NEW a \in Nat
  PROVE  Even(a) \in Nat /\ (a % 2 = 0 => Even(a) = a)
BY DEF Even

\* The address after a line of the first pass.
LEMMA PassedSize ==
  ASSUME NEW l \in SourceLine, HasOperand(l), NEW at \in Nat, NEW known, Numbers(known)
  PROVE  /\ Passed(l, at, known) \in Nat
         /\ at % 2 = 0 /\ Sized(l) => Passed(l, at, known) = at + Size(l)
         /\ l.op \in Sections \cup {"FIN"} => Passed(l, at, known) = 0
<1> DEFINE p == Passed(l, at, known)
<1>1. CASE l.op \in Sections \cup {"FIN"}
  <2>1. p = 0
    BY <1>1 DEF Passed, Sections
  <2>2. ~Sized(l)
    BY <1>1 DEF Sized, IsInstruction, Directives, Sections
  <2> QED  BY <2>1, <2>2
<1>2. CASE l.op = "ORG"
  <2>1. l.args[1] \in Operand
    BY <1>2, SourceFields DEF HasOperand
  <2>2. resolve_expression(l.args[1], known) \in Nat \cup {NONE}
    BY <2>1, Resolution
  <2>3. p \in Nat
    BY <1>2, <2>2 DEF Passed, Sections
  <2>4. ~Sized(l)
    BY <1>2 DEF Sized, IsInstruction, Directives
  <2> QED  BY <1>2, <2>3, <2>4 DEF Sections
<1>3. CASE l.op = "DATA"
  <2>1. p = AfterArguments(FALSE, at, l.args)
    BY <1>3 DEF Passed, Sections
  <2>2. p \in Nat /\ (at % 2 = 0 => p = at + 2 * Items(l.args))
    BY <2>1, SourceFields, AfterAll
  <2>3. Size(l) = 2 * Items(l.args)
    BY <1>3 DEF Size, IsInstruction, Directives, Data
  <2> QED  BY <1>3, <2>2, <2>3 DEF Sections
<1>4. CASE l.op = "DATA,1"
  <2>1. p = AfterArguments(TRUE, at, l.args)
    BY <1>4 DEF Passed, Sections
  <2>2. p \in Nat /\ p = at + Items(l.args)
    <3>1. Items(l.args) \in Nat /\ p = at + Items(l.args)
      BY <2>1, SourceFields, AfterAll
    <3> QED  BY <3>1
  <2>3. Size(l) = Items(l.args)
    BY <1>4 DEF Size, IsInstruction, Directives, Data
  <2> QED  BY <1>4, <2>2, <2>3 DEF Sections
<1>5. CASE l.op \in {"RES", "RES,1"}
  <2> DEFINE n == CountOf(l, known)
             m == l.args[1].number
  <2>1. l.args # <<>>
    BY <1>5 DEF HasOperand
  <2>2. n \in Nat /\ (l.args[1].name = NoName => n = m)
    BY <2>1, CountIs
  <2>3. p = IF l.op = "RES" THEN Even(at) + 2 * n ELSE at + n
    <3>1. p = IF l.op = "RES" THEN Even(at) + reserved(n, TRUE) ELSE at + reserved(n, FALSE)
      BY <1>5 DEF Passed, Sections
    <3> QED  BY <3>1 DEF reserved
  <2>4. Size(l) = IF l.op = "RES" THEN 2 * m ELSE m
    BY <1>5 DEF Size, IsInstruction, Directives, Data
  <2>5. Sized(l) => l.args[1].name = NoName
    BY <1>5 DEF Sized, IsInstruction, Directives, Data
  <2> HIDE DEF n, m, p
  <2>6. p \in Nat /\ (at % 2 = 0 /\ Sized(l) => p = at + Size(l))
    BY <2>2, <2>3, <2>4, <2>5, EvenType
  <2> QED  BY <1>5, <2>6 DEF Sections, p
<1>6. CASE l.op = "TEXT"
  <2>1. p = at + l.args[1].length
    BY <1>6 DEF Passed, Sections
  <2>2. Size(l) = l.args[1].length
    BY <1>6 DEF Size, IsInstruction, Directives, Data
  <2>3. l.args[1].length \in Nat
    BY <1>6, SourceFields, OperandFields DEF HasOperand
  <2> QED  BY <1>6, <2>1, <2>2, <2>3 DEF Sections
<1>7. CASE l.op = "BND"
  <2>1. p = Even(at)
    BY <1>7 DEF Passed, Sections
  <2>2. ~Sized(l)
    BY <1>7 DEF Sized, IsInstruction, Directives, Data
  <2> QED  BY <1>7, <2>1, <2>2, EvenType DEF Sections
<1>8. CASE l.op \in {"EQU", "END", "none"}
  <2>1. p = at
    BY <1>8 DEF Passed, Sections
  <2>2. Size(l) = 0
    BY <1>8 DEF Size, IsInstruction, Directives
  <2> QED  BY <1>8, <2>1, <2>2 DEF Sections
<1>9. CASE IsInstruction(l)
  <2>1. l.op \notin Sections \cup Data \cup {"FIN", "END", "ORG", "EQU", "none"}
    BY <1>9 DEF IsInstruction, Directives
  <2>2. p = at + 2
    BY <2>1 DEF Passed, Data
  <2>3. Size(l) = 2
    BY <1>9 DEF Size
  <2> QED  BY <2>1, <2>2, <2>3
<1> QED  BY <1>1, <1>2, <1>3, <1>4, <1>5, <1>6, <1>7, <1>8, <1>9
         DEF IsInstruction, Directives, Data

\* The code of a line of the second pass, whose word is w.
LineCode(l, at, w) ==
  CASE IsInstruction(l) -> Code(IF w = NONE THEN <<>> ELSE WordBytes(w), at)
    [] l.op \in Data -> assemble_data(l, at)
    [] OTHER -> Code(<<>>, Passed(l, at, labels))

LEMMA CodeSize ==
  ASSUME NEW l \in SourceLine, HasOperand(l), NEW at \in Nat, Numbers(labels),
         NEW w \in Nat \cup {NONE}
  PROVE  LET c == LineCode(l, at, w)
             whole == Sized(l) /\ (IsInstruction(l) => w # NONE)
         IN  /\ c \in Codes
             /\ at % 2 = 0 /\ whole => /\ Len(c.bytes) = Size(l)
                                       /\ (c.at + Len(c.bytes)) % 2 = 0
             /\ whole /\ l.op \notin Data => c.at = at
             /\ l.op \in Sections \cup {"FIN"} => Len(c.bytes) = 0 /\ c.at = 0
<1> DEFINE c == LineCode(l, at, w)
           whole == Sized(l) /\ (IsInstruction(l) => w # NONE)
           none == Code(<<>>, at)
<1>0. <<>> \in Seq(Nat) /\ Len(<<>>) = 0
  OBVIOUS
<1>20. none \in Codes /\ Len(none.bytes) = 0 /\ none.at = at
  <2>1. none \in Codes /\ none.bytes = <<>> /\ none.at = at
    BY <1>0, CodeType
  <2> HIDE DEF none
  <2> QED  BY <1>0, <2>1
<1>1. CASE IsInstruction(l)
  <2>2. l.op \notin Data /\ l.op \notin Sections \cup {"FIN"} /\ Size(l) = 2
    BY <1>1 DEF IsInstruction, Directives, Size
  <2>1. c = Code(IF w = NONE THEN <<>> ELSE WordBytes(w), at)
    BY <1>1, <2>2 DEF LineCode
  <2>3. CASE w = NONE
    <3>1. c = none
      BY <2>1, <2>3
    <3> HIDE DEF c, none
    <3> QED  BY <1>1, <1>20, <2>2, <2>3, <3>1 DEF c
  <2>4. CASE w # NONE
    <3>1. w \in Nat
      BY <2>4
    <3> DEFINE b == WordBytes(w)
    <3>2. b \in Seq(Nat) /\ Len(b) = 2
      BY <3>1, WordOfBytes
    <3>3. c = Code(b, at)
      BY <2>1, <2>4
    <3> HIDE DEF b, c
    <3>4. c \in Codes /\ c.bytes = b /\ c.at = at
      BY <3>2, <3>3, CodeType
    <3>5. at % 2 = 0 => (at + 2) % 2 = 0
      OBVIOUS
    <3>6. Len(c.bytes) = 2
      BY <3>2, <3>4
    <3>7. at % 2 = 0 => (c.at + Len(c.bytes)) % 2 = 0
      BY <3>4, <3>5, <3>6
    <3> QED  BY <2>2, <3>4, <3>6, <3>7 DEF c
  <2> QED  BY <2>3, <2>4
<1>2. CASE l.op \in Data
  <2>0. /\ ~IsInstruction(l) /\ l.op \notin Sections \cup {"FIN"}
    BY <1>2, DirectivesAre DEF IsInstruction, Directives
  <2>1. c = assemble_data(l, at)
    BY <1>2, <2>0 DEF LineCode
  <2> HIDE DEF c, none
  <2> SUFFICES /\ c \in Codes
               /\ at % 2 = 0 /\ Sized(l) => Len(c.bytes) = Size(l) /\ c.at = at + Size(l)
    <3>1. Size(l) \in Nat /\ (Sized(l) => Size(l) % 2 = 0)
      BY SizeType
    <3> DEFINE s == Size(l)
    <3>2. at % 2 = 0 /\ s \in Nat /\ s % 2 = 0 => (at + s + s) % 2 = 0
      <4> HIDE DEF s
      <4> QED  OBVIOUS
    <3>3. at % 2 = 0 /\ Sized(l) => (c.at + Len(c.bytes)) % 2 = 0
      BY <3>1, <3>2
    <3> HIDE DEF s
    <3> QED  BY <1>2, <2>0, <3>3 DEF c
  <2>2. CASE l.op = "DATA"
    <3>1. c = DataArguments(FALSE, none, l.args)
      BY <2>1, <2>2 DEF assemble_data, none
    <3>2. Size(l) = 2 * Items(l.args)
      BY <2>0, <2>2 DEF Size
    <3>3. /\ c \in Codes
          /\ none.at % 2 = 0 => /\ Len(c.bytes) = Len(none.bytes) + 2 * Items(l.args)
                                /\ c.at = none.at + 2 * Items(l.args)
      BY <1>20, <3>1, SourceFields, BuiltAll
    <3>4. Items(l.args) \in Nat
      BY SourceFields, AfterAll
    <3> QED  BY <1>20, <3>2, <3>3, <3>4
  <2>3. CASE l.op = "DATA,1"
    <3>1. c = DataArguments(TRUE, none, l.args)
      BY <2>1, <2>3 DEF assemble_data, none
    <3>2. Size(l) = Items(l.args)
      BY <2>0, <2>3 DEF Size
    <3>3. /\ c \in Codes
          /\ Len(c.bytes) = Len(none.bytes) + Items(l.args)
          /\ c.at = none.at + Items(l.args)
      BY <1>20, <3>1, SourceFields, BuiltAll
    <3>4. Items(l.args) \in Nat
      BY SourceFields, AfterAll
    <3> QED  BY <1>20, <3>2, <3>3, <3>4
  <2>4. CASE l.op = "TEXT"
    <3> DEFINE n == l.args[1].length
               b == [k \in 1..n |-> 67]
    <3>1. n \in Nat
      BY <2>4, SourceFields, OperandFields DEF HasOperand
    <3>2. c = Added(none, b)
      BY <2>1, <2>4 DEF assemble_data, none
    <3>3. Size(l) = n
      BY <2>0, <2>4 DEF Size
    <3> HIDE DEF n
    <3>4. b \in Seq(Nat) /\ Len(b) = n
      BY <3>1
    <3> HIDE DEF b
    <3>5. /\ c \in Codes /\ Len(c.bytes) = Len(none.bytes) + Len(b)
          /\ c.at = none.at + Len(b)
      BY <1>20, <3>2, <3>4, AddedBytes
    <3> QED  BY <1>20, <3>1, <3>3, <3>4, <3>5
  <2>5. CASE l.op = "RES"
    <3> DEFINE n == CountOf(l, labels)
               b == Zeros(2 * n)
               a == Aligned(none)
    <3>1. n \in Nat /\ (l.args[1].name = NoName => n = l.args[1].number)
      BY <2>5, CountIs DEF HasOperand
    <3>2. c = Added(a, b)
      BY <2>1, <2>5 DEF assemble_data, none
    <3>3. Size(l) = 2 * l.args[1].number
      BY <2>0, <2>5 DEF Size
    <3>4. Sized(l) => l.args[1].name = NoName
      BY <2>0, <2>5 DEF Sized
    <3>5. a \in Codes /\ (none.at % 2 = 0 => a = none)
      BY <1>20, AlignedCode
    <3> HIDE DEF n
    <3>6. b \in Seq(Nat) /\ Len(b) = 2 * n
      <4>1. 2 * n \in Nat
        BY <3>1
      <4> QED  BY <4>1, ZeroBytes
    <3> HIDE DEF a, b
    <3>7. /\ c \in Codes /\ Len(c.bytes) = Len(a.bytes) + Len(b)
          /\ c.at = a.at + Len(b)
      BY <3>2, <3>5, <3>6, AddedBytes
    <3> DEFINE m == l.args[1].number
    <3>8. c \in Codes
      BY <3>7
    <3>9. ASSUME at % 2 = 0, Sized(l)
          PROVE  Len(c.bytes) = Size(l) /\ c.at = at + Size(l)
      <4>1. a = none /\ n = m /\ Size(l) = 2 * m
        BY <1>20, <3>1, <3>3, <3>4, <3>5, <3>9
      <4> HIDE DEF m
      <4>2. Len(c.bytes) = 0 + 2 * n /\ c.at = at + 2 * n
        BY <1>20, <3>6, <3>7, <4>1
      <4> QED  BY <3>1, <4>1, <4>2
    <3> QED  BY <3>8, <3>9
  <2>6. CASE l.op = "RES,1"
    <3> DEFINE n == CountOf(l, labels)
               b == Zeros(n)
    <3>1. n \in Nat /\ (l.args[1].name = NoName => n = l.args[1].number)
      BY <2>6, CountIs DEF HasOperand
    <3>2. c = Added(none, b)
      BY <2>1, <2>6 DEF assemble_data, none
    <3>3. Size(l) = l.args[1].number
      BY <2>0, <2>6 DEF Size
    <3>4. Sized(l) => l.args[1].name = NoName
      BY <2>0, <2>6 DEF Sized
    <3> HIDE DEF n
    <3>6. b \in Seq(Nat) /\ Len(b) = n
      BY <3>1, ZeroBytes
    <3> HIDE DEF b
    <3>7. /\ c \in Codes /\ Len(c.bytes) = Len(none.bytes) + Len(b)
          /\ c.at = none.at + Len(b)
      BY <1>20, <3>2, <3>6, AddedBytes
    <3> QED  BY <1>20, <3>1, <3>3, <3>4, <3>6, <3>7
  <2>7. CASE l.op = "BND"
    <3>1. c = Code(<<0>>, Even(at))
      BY <2>1, <2>7 DEF assemble_data
    <3>2. <<0>> \in Seq(Nat) /\ Even(at) \in Nat
      BY EvenType
    <3>3. c \in Codes
      BY <3>1, <3>2, CodeType
    <3>4. ~Sized(l)
      BY <2>0, <2>7 DEF Sized
    <3> QED  BY <3>3, <3>4
  <2> QED  BY <1>2, <2>2, <2>3, <2>4, <2>5, <2>6, <2>7 DEF Data
<1>3. CASE ~IsInstruction(l) /\ l.op \notin Data
  <2> DEFINE p == Passed(l, at, labels)
  <2>1. c = Code(<<>>, p)
    BY <1>3 DEF LineCode
  <2>2. /\ p \in Nat /\ (l.op \in Sections \cup {"FIN"} => p = 0)
    BY PassedSize
  <2>3. whole => p = at /\ Size(l) = 0
    <3>1. whole => l.op \in {"EQU", "none"}
      BY <1>3 DEF Sized, Data
    <3>2. l.op \in {"EQU", "none"} => p = at
      BY DEF Passed, Sections
    <3>3. l.op \in {"EQU", "none"} => Size(l) = 0
      BY <1>3 DEF Size
    <3> QED  BY <3>1, <3>2, <3>3
  <2> HIDE DEF p, c, whole
  <2>4. c \in Codes /\ c.bytes = <<>> /\ c.at = p
    BY <1>0, <2>1, <2>2, CodeType
  <2>5. Len(c.bytes) = 0
    BY <1>0, <2>4
  <2> QED  BY <2>2, <2>3, <2>4, <2>5 DEF c, whole
<1> QED  BY <1>1, <1>2, <1>3

\* The labels of lines of EQU, with numbers.
EquValues(known, lines) ==
  /\ Numbers(known)
  /\ \A a \in DOMAIN known : \E k \in 1..Len(lines) : lines[k].op = "EQU" /\ lines[k].label = a

\* The labels of any program.
LabelSets == UNION {[D -> Nat] : D \in SUBSET STRING}

LEMMA LabelSetsAre ==
  ASSUME NEW known
  PROVE  known \in LabelSets <=> /\ known = [a \in DOMAIN known |-> known[a]]
                                 /\ DOMAIN known \subseteq STRING
                                 /\ Numbers(known)
<1>1. ASSUME known \in LabelSets
      PROVE  /\ known = [a \in DOMAIN known |-> known[a]]
             /\ DOMAIN known \subseteq STRING /\ Numbers(known)
  <2>1. PICK D \in SUBSET STRING : known \in [D -> Nat]
    BY <1>1 DEF LabelSets
  <2> QED  BY <2>1 DEF Numbers
<1>2. ASSUME known = [a \in DOMAIN known |-> known[a]], DOMAIN known \subseteq STRING,
             Numbers(known)
      PROVE  known \in LabelSets
  <2>1. known \in [DOMAIN known -> Nat]
    BY <1>2 DEF Numbers
  <2> QED  BY <1>2, <2>1 DEF LabelSets
<1> QED  BY <1>1, <1>2

LEMMA NoLabels == <<>> \in LabelSets /\ DOMAIN <<>> = {}
<1>1. DOMAIN <<>> = {}
  OBVIOUS
<1>2. <<>> \in [{} -> Nat]
  OBVIOUS
<1> QED  BY <1>1, <1>2 DEF LabelSets

LEMMA BindType ==
  ASSUME NEW known \in LabelSets, NEW a \in STRING, NEW n \in Nat
  PROVE  /\ Bind(known, a, n) \in LabelSets
         /\ DOMAIN Bind(known, a, n) = DOMAIN known \cup {a}
         /\ Bind(known, a, n)[a] = n
         /\ \A b \in DOMAIN known : b # a => Bind(known, a, n)[b] = known[b]
<1>1. DOMAIN known \subseteq STRING /\ Numbers(known)
  BY LabelSetsAre
<1>2. /\ DOMAIN Bind(known, a, n) = DOMAIN known \cup {a}
      /\ Bind(known, a, n)[a] = n
      /\ \A b \in DOMAIN known : b # a => Bind(known, a, n)[b] = known[b]
  BY DEF Bind
<1>3. Bind(known, a, n) \in [DOMAIN known \cup {a} -> Nat]
  BY <1>1 DEF Bind, Numbers
<1>4. DOMAIN known \cup {a} \in SUBSET STRING
  BY <1>1
<1> QED  BY <1>2, <1>3, <1>4 DEF LabelSets

\* One definition by EQU.
LEMMA EquOne ==
  ASSUME NEW known \in LabelSets, NEW l \in SourceLine, HasOperand(l)
  PROVE  /\ Equ(known, l) \in LabelSets
         /\ DOMAIN Equ(known, l) \subseteq
              DOMAIN known \cup (IF l.op = "EQU" THEN {l.label} ELSE {})
<1> DEFINE v == resolve_expression(l.args[1], known)
<1>1. Equ(known, l) = IF l.op # "EQU" \/ l.label = NoName \/ v = NONE THEN known
                      ELSE Bind(known, l.label, v)
  BY DEF Equ
<1>2. ASSUME l.op = "EQU", v # NONE PROVE v \in Nat /\ l.label \in STRING
  <2>1. l.args[1] \in Operand
    BY <1>2, SourceFields DEF HasOperand
  <2>2. Numbers(known)
    BY LabelSetsAre
  <2>3. v \in Nat \cup {NONE}
    BY <2>1, <2>2, Resolution
  <2> QED  BY <1>2, <2>3, SourceFields
<1> HIDE DEF v
<1>3. CASE l.op # "EQU" \/ l.label = NoName \/ v = NONE
  <2>1. Equ(known, l) = known
    BY <1>1, <1>3
  <2> QED  BY <2>1
<1>4. CASE l.op = "EQU" /\ l.label # NoName /\ v # NONE
  <2>1. Equ(known, l) = Bind(known, l.label, v)
    BY <1>1, <1>4
  <2> DEFINE a == l.label
  <2>2. v \in Nat /\ a \in STRING
    BY <1>2, <1>4
  <2>3. Bind(known, a, v) \in LabelSets /\ DOMAIN Bind(known, a, v) = DOMAIN known \cup {a}
    <3> HIDE DEF a
    <3> QED  BY <2>2, BindType
  <2> QED  BY <1>4, <2>1, <2>3
<1> QED  BY <1>3, <1>4

\* The labels before the first pass.
LEMMA EquLabelsAre ==
  ASSUME NEW lines, Written(lines)
  PROVE  EquLabels(lines) \in LabelSets /\ EquValues(EquLabels(lines), lines)
<1> DEFINE N == Len(lines)
           V == LabelSets
           added(r, n) == Equ(r, lines[n])
           step == [p \in V \X (1..N) |-> added(p[1], p[2])]
           IsTable(f) == f = [n \in 0..N |-> IF n = 0 THEN <<>> ELSE added(f[n - 1], n)]
           table == CHOOSE f : IsTable(f)
<1>0. N \in Nat /\ \A n \in 1..N : lines[n] \in SourceLine /\ HasOperand(lines[n])
  BY DEF Written
<1>1. ASSUME NEW r \in V, NEW n \in 1..N PROVE added(r, n) \in V
  BY <1>0, EquOne
<1>2. step \in Steps(V, N)
  <2>1. \A p \in V \X (1..N) : added(p[1], p[2]) \in V
    <3> HIDE DEF V, N, added
    <3> QED  BY <1>1
  <2> HIDE DEF V, N, added
  <2> QED  BY <2>1 DEF Steps
<1>3. PICK f : Follows(f, V, <<>>, step, N)
  <2>1. <<>> \in V /\ N \in Nat
    BY <1>0, NoLabels
  <2> HIDE DEF step, N, V
  <2> QED  BY <1>2, <2>1, Recursion
<1>4. /\ f \in [0..N -> V]
      /\ f[0] = <<>>
      /\ \A n \in 1..N : f[n] = step[<<f[n - 1], n>>]
  <2> HIDE DEF step, N, V
  <2> QED  BY <1>3 DEF Follows
<1>5. \A n \in 1..N : f[n] = added(f[n - 1], n)
  <2> TAKE n \in 1..N
  <2>1. f[n - 1] \in V
    <3> HIDE DEF N, V
    <3> QED  BY <1>0, <1>4
  <2>2. step[<<f[n - 1], n>>] = added(f[n - 1], n)
    <3> HIDE DEF V, N, added
    <3> QED  BY <2>1
  <2> HIDE DEF step, N, V, added
  <2> QED  BY <1>4, <2>2
<1>6. IsTable(f)
  <2> HIDE DEF N, V, added
  <2> QED  BY <1>0, <1>4, <1>5
<1>7. IsTable(table)
  <2> HIDE DEF added, N
  <2> QED  BY <1>6
<1>8. EquLabels(lines) = table[N]
  BY DEF EquLabels
<1> DEFINE from(n) == {lines[k].label : k \in {j \in 1..n : lines[j].op = "EQU"}}
           Good == {n \in 0..N : table[n] = f[n] /\ DOMAIN f[n] \subseteq from(n)}
<1>9. 0 \in Good
  <2>1. table[0] = f[0]
    <3> HIDE DEF table, N, added
    <3> QED  BY <1>0, <1>4, <1>7
  <2>2. DOMAIN f[0] = {}
    <3> HIDE DEF step
    <3> QED  BY <1>4, NoLabels
  <2> HIDE DEF table, N
  <2> QED  BY <1>0, <2>1, <2>2
<1>10. ASSUME NEW n \in 0..N - 1, n \in Good PROVE n + 1 \in Good
  <2> DEFINE k == n + 1
  <2>1. /\ k \in 1..N /\ k \in 0..N /\ k # 0 /\ k - 1 = n /\ table[n] = f[n]
        /\ DOMAIN f[n] \subseteq from(n) /\ n \in 0..N
    <3> HIDE DEF table, N, from
    <3> QED  BY <1>0, <1>10
  <2>5. from(n) \cup (IF lines[k].op = "EQU" THEN {lines[k].label} ELSE {}) \subseteq from(k)
    <3>1. \A j \in 1..n : j \in 1..k
      OBVIOUS
    <3>2. k \in 1..k
      OBVIOUS
    <3> HIDE DEF k
    <3> QED  BY <3>1, <3>2
  <2> HIDE DEF k, from
  <2>2. table[k] = added(table[k - 1], k)
    <3> HIDE DEF table, N, added
    <3> QED  BY <1>7, <2>1
  <2>3. f[k] = added(f[k - 1], k)
    <3> HIDE DEF N, added
    <3> QED  BY <1>5, <2>1
  <2>4. table[k] = f[k]
    <3> HIDE DEF table, added
    <3> QED  BY <2>1, <2>2, <2>3
  <2>6. DOMAIN f[k] \subseteq from(k)
    <3>1. f[n] \in V
      <4> HIDE DEF N, V
      <4> QED  BY <1>4, <2>1
    <3>2. f[k] = Equ(f[n], lines[k])
      BY <2>1, <2>3
    <3>3. lines[k] \in SourceLine /\ HasOperand(lines[k])
      BY <1>0, <2>1
    <3> QED  BY <2>1, <2>5, <3>1, <3>2, <3>3, EquOne
  <2> HIDE DEF table, N
  <2>7. k \in Good
    BY <2>1, <2>4, <2>6 DEF from
  <2> QED  BY <2>7 DEF k
<1>11. 0..N \subseteq Good
  <2> HIDE DEF Good, N
  <2> QED  BY <1>0, <1>9, <1>10, RangeInduction
<1>12. table[N] = f[N] /\ DOMAIN f[N] \subseteq from(N)
  <2> HIDE DEF table, N
  <2> QED  BY <1>0, <1>11
<1>13. f[N] \in LabelSets
  <2> HIDE DEF N, step
  <2> QED  BY <1>0, <1>4
<1> HIDE DEF table, N
<1>14. EquLabels(lines) = f[N]
  BY <1>8, <1>12
<1>15. Numbers(f[N])
  BY <1>13, LabelSetsAre
<1> QED  BY <1>12, <1>13, <1>14, <1>15 DEF N, EquValues

----------------------------------------------------------------------------
(* Sizes of lines and of sections. *)

\* The size of the first n lines, as far as it is known.
SumsTo(t, lines) ==
  /\ t \in [0..Len(lines) -> Nat]
  /\ t[0] = 0
  /\ \A n \in 1..Len(lines) : t[n] = t[n - 1] + Size(lines[n])

Totals(lines) == CHOOSE t : SumsTo(t, lines)

LEMMA TotalsAre ==
  ASSUME NEW lines, Written(lines)
  PROVE  SumsTo(Totals(lines), lines)
<1> DEFINE N == Len(lines)
           V == Nat
           added(r, n) == r + Size(lines[n])
           step == [p \in V \X (1..N) |-> added(p[1], p[2])]
<1>0. N \in Nat /\ \A n \in 1..N : lines[n] \in SourceLine /\ HasOperand(lines[n])
  BY DEF Written
<1>1. ASSUME NEW r \in V, NEW n \in 1..N PROVE added(r, n) \in V
  <2>1. Size(lines[n]) \in Nat
    BY <1>0, SizeType
  <2> QED  BY <2>1
<1>2. step \in Steps(V, N)
  <2>1. \A p \in V \X (1..N) : added(p[1], p[2]) \in V
    <3> HIDE DEF V, N, added
    <3> QED  BY <1>1
  <2> HIDE DEF V, N, added
  <2> QED  BY <2>1 DEF Steps
<1>3. PICK f : Follows(f, V, 0, step, N)
  <2>1. 0 \in V /\ N \in Nat
    BY <1>0
  <2> HIDE DEF step, N, V
  <2> QED  BY <1>2, <2>1, Recursion
<1>4. /\ f \in [0..N -> V]
      /\ f[0] = 0
      /\ \A n \in 1..N : f[n] = step[<<f[n - 1], n>>]
  <2> HIDE DEF step, N, V
  <2> QED  BY <1>3 DEF Follows
<1>5. \A n \in 1..N : f[n] = added(f[n - 1], n)
  <2> TAKE n \in 1..N
  <2>1. f[n - 1] \in V
    <3> HIDE DEF N, V
    <3> QED  BY <1>0, <1>4
  <2>2. step[<<f[n - 1], n>>] = added(f[n - 1], n)
    <3> HIDE DEF V, N, added
    <3> QED  BY <2>1
  <2> HIDE DEF step, N, V, added
  <2> QED  BY <1>4, <2>2
<1>6. SumsTo(f, lines)
  <2> HIDE DEF step
  <2> QED  BY <1>4, <1>5 DEF SumsTo
<1> QED  BY <1>6 DEF Totals

\* A set of numbers up to a bound has a greatest element.
LEMMA Greatest ==
  ASSUME NEW n \in Nat, NEW S \in SUBSET (1..n), S # {}
  PROVE  \E m \in S : \A k \in S : k <= m
<1> DEFINE Over == {m \in Nat : \A k \in S : k <= m}
<1>1. n \in Over
  OBVIOUS
<1>2. PICK m \in Over : \A k \in Over : m <= k
  <2>1. Over \in SUBSET Nat /\ Over # {}
    BY <1>1
  <2> HIDE DEF Over
  <2> QED  BY <2>1, Minimum
<1>3. m \in S
  <2> SUFFICES ASSUME m \notin S PROVE FALSE
    OBVIOUS
  <2>1. \A k \in S : k \in Nat \ {0} /\ k <= m /\ k # m
    OBVIOUS
  <2>2. PICK k \in S : TRUE
    OBVIOUS
  <2>3. m - 1 \in Nat
    BY <2>1, <2>2
  <2>4. m - 1 \in Over
    BY <2>1, <2>3
  <2> QED  BY <1>2, <2>3, <2>4
<1> QED  BY <1>3

\* A line that opens a section, and FIN.
Opens(l) == l.op \in Sections \cup {"FIN"}

\* The line that opens the section of line i.
Opener(lines, i) ==
  LET before == {k \in 1..i : Opens(lines[k])}
  IN  IF before = {} THEN 0 ELSE CHOOSE k \in before : \A n \in before : n <= k

LEMMA OpenerIs == \A i : Opening(i) = Opener(source, i)
BY Zenon DEF Opening, Opener, Opens

LEMMA Openers ==
  ASSUME NEW lines, NEW n \in Nat
  PROVE  /\ Opener(lines, n) \in 0..n
         /\ Opener(lines, 0) = 0
         /\ n # 0 => Opener(lines, n) = IF Opens(lines[n]) THEN n ELSE Opener(lines, n - 1)
<1> DEFINE before(i) == {k \in 1..i : Opens(lines[k])}
<1>0. \A i : Opener(lines, i) = IF before(i) = {} THEN 0
                          ELSE CHOOSE k \in before(i) : \A j \in before(i) : j <= k
  BY Zenon DEF Opener
<1>1. ASSUME NEW i \in Nat, before(i) # {}
      PROVE  Opener(lines, i) \in before(i) /\ \A j \in before(i) : j <= Opener(lines, i)
  <2> DEFINE S == before(i)
  <2>1. S \in SUBSET (1..i) /\ S # {}
    BY <1>1
  <2> HIDE DEF S
  <2>2. \E k \in S : \A j \in S : j <= k
    BY <2>1, Greatest
  <2>3. Opener(lines, i) = CHOOSE k \in S : \A j \in S : j <= k
    BY <1>0, <1>1 DEF S
  <2>4. Opener(lines, i) \in S /\ \A j \in S : j <= Opener(lines, i)
    BY <2>2, <2>3
  <2> QED  BY <2>4 DEF S
<1>2. Opener(lines, n) \in 0..n
  <2>1. CASE before(n) = {}
    BY <1>0, <2>1
  <2>2. CASE before(n) # {}
    BY <1>1, <2>2
  <2> QED  BY <2>1, <2>2
<1>3. Opener(lines, 0) = 0
  <2>1. before(0) = {}
    OBVIOUS
  <2> HIDE DEF before
  <2> QED  BY <1>0, <2>1
<1>4. ASSUME n # 0, Opens(lines[n]) PROVE Opener(lines, n) = n
  <2>1. n \in before(n)
    BY <1>4
  <2>2. Opener(lines, n) \in before(n) /\ n <= Opener(lines, n)
    BY <1>1, <2>1
  <2> QED  BY <2>2
<1>5. ASSUME n # 0, ~Opens(lines[n]) PROVE Opener(lines, n) = Opener(lines, n - 1)
  <2>1. before(n) = before(n - 1)
    <3>1. \A k \in 1..n : k \in 1..n - 1 \/ k = n
      BY <1>5
    <3>2. \A k \in 1..n - 1 : k \in 1..n
      BY <1>5
    <3> QED  BY <1>5, <3>1, <3>2
  <2>2. n - 1 \in Nat
    BY <1>5
  <2>3. \A j \in before(n) : j \in Nat
    OBVIOUS
  <2> HIDE DEF before
  <2>4. CASE before(n) = {}
    BY <1>0, <2>1, <2>4
  <2>5. CASE before(n) # {}
    <3>1. /\ Opener(lines, n) \in before(n) /\ \A j \in before(n) : j <= Opener(lines, n)
          /\ Opener(lines, n - 1) \in before(n) /\ \A j \in before(n) : j <= Opener(lines, n - 1)
      BY <1>1, <2>1, <2>2, <2>5
    <3> QED  BY <2>3, <3>1
  <2> QED  BY <2>4, <2>5
<1> QED  BY <1>2, <1>3, <1>4, <1>5

\* How far line i + 1 is into its section, if that is known.
Span(lines, i) == Totals(lines)[i] - Totals(lines)[Opener(lines, i)]

\* Every line of the section of line i, up to it, has a known size.
AllSized(lines, i) == \A k \in 1..i : Opener(lines, i) < k => Sized(lines[k])

LEMMA Spans ==
  ASSUME NEW lines, Written(lines), NEW n \in 0..Len(lines)
  PROVE  /\ Span(lines, n) \in Int
         /\ n = 0 => Span(lines, n) = 0
         /\ n # 0 /\ Opens(lines[n]) => Span(lines, n) = 0
         /\ n # 0 /\ ~Opens(lines[n]) =>
              /\ Span(lines, n) = Span(lines, n - 1) + Size(lines[n])
              /\ AllSized(lines, n) <=> AllSized(lines, n - 1) /\ Sized(lines[n])
<1> DEFINE N == Len(lines)
           t == Totals(lines)
           o == Opener(lines, n)
<1>0. N \in Nat /\ n \in Nat /\ n <= N
  BY DEF Written
<1>1. t \in [0..N -> Nat] /\ t[0] = 0 /\ \A i \in 1..N : t[i] = t[i - 1] + Size(lines[i])
  BY TotalsAre DEF SumsTo
<1>2. /\ o \in 0..n /\ Opener(lines, 0) = 0
      /\ n # 0 => o = IF Opens(lines[n]) THEN n ELSE Opener(lines, n - 1)
  BY <1>0, Openers
<1>3. Span(lines, n) = t[n] - t[o]
  BY DEF Span
<1>4. n # 0 => Span(lines, n - 1) = t[n - 1] - t[Opener(lines, n - 1)]
  BY DEF Span
<1> HIDE DEF N, t, o
<1>5. t[n] \in Nat /\ t[o] \in Nat /\ o \in Nat
  BY <1>0, <1>1, <1>2
<1>6. Span(lines, n) \in Int
  BY <1>3, <1>5
<1>7. n = 0 => Span(lines, n) = 0
  BY <1>2, <1>3, <1>5
<1>8. n # 0 /\ Opens(lines[n]) => Span(lines, n) = 0
  BY <1>2, <1>3, <1>5
<1>9. ASSUME n # 0, ~Opens(lines[n])
      PROVE  /\ Span(lines, n) = Span(lines, n - 1) + Size(lines[n])
             /\ AllSized(lines, n) <=> AllSized(lines, n - 1) /\ Sized(lines[n])
  <2>1. n - 1 \in 0..N /\ n - 1 \in Nat /\ n \in 1..N
    BY <1>0, <1>9
  <2>2. o = Opener(lines, n - 1)
    BY <1>2, <1>9
  <2>3. o <= n - 1 /\ o \in 0..N
    <3>1. Opener(lines, n - 1) \in 0..n - 1
      BY <2>1, Openers
    <3> QED  BY <1>0, <2>1, <2>2, <3>1
  <2>4. t[n] = t[n - 1] + Size(lines[n]) /\ t[n - 1] \in Nat
    BY <1>1, <2>1
  <2>5. Span(lines, n) = Span(lines, n - 1) + Size(lines[n])
    <3>1. Size(lines[n]) \in Nat
      BY <2>1, SizeType DEF Written, N
    <3>2. Span(lines, n - 1) = t[n - 1] - t[o]
      BY <1>4, <1>9, <2>2
    <3> QED  BY <1>3, <1>5, <2>4, <3>1, <3>2
  <2>6. AllSized(lines, n) <=> \A k \in 1..n : o < k => Sized(lines[k])
    BY DEF AllSized, o
  <2>7. AllSized(lines, n - 1) <=> \A k \in 1..n - 1 : o < k => Sized(lines[k])
    BY <2>2 DEF AllSized
  <2>8. \A k : k \in 1..n <=> k \in 1..n - 1 \/ k = n
    BY <2>1
  <2>9. o < n
    BY <1>5, <2>1, <2>3
  <2> QED  BY <2>5, <2>6, <2>7, <2>8, <2>9
<1> QED  BY <1>6, <1>7, <1>8, <1>9

----------------------------------------------------------------------------
(* The passes. *)

AssemblerType ==
  /\ source \in Sources
  /\ phase \in 1..3
  /\ line \in 1..Len(source) + 1
  /\ address \in Nat
  /\ labels \in LabelSets
  /\ emitted \in Seq(Nat)
  /\ starts \in Seq(Nat)
  /\ words \in Seq(Nat \cup {NONE})
  /\ phase = 1 => emitted = <<>> /\ starts = <<>> /\ words = <<>>
  /\ phase # 1 => Len(starts) = line - 1 /\ Len(words) = line - 1
  /\ phase = 3 => line = Len(source) + 1

\* The line a pass is at.
LEMMA LineType ==
  ASSUME AssemblerType, line <= Len(source)
  PROVE  /\ Written(source) /\ Len(source) \in Nat
         /\ line \in 1..Len(source) /\ line - 1 \in 0..Len(source)
         /\ source[line] \in SourceLine /\ HasOperand(source[line])
<1>1. Written(source)
  BY SourcesWritten DEF AssemblerType
<1>2. Len(source) \in Nat
  BY <1>1 DEF Written
<1>3. line \in 1..Len(source)
  BY <1>2 DEF AssemblerType
<1> QED  BY <1>1, <1>2, <1>3 DEF Written

\* What the first pass adds to the labels.
LEMMA DefinedType ==
  ASSUME NEW l \in SourceLine, NEW at \in Nat, NEW known \in LabelSets
  PROVE  Defined(l, at, known) \in LabelSets
<1>1. l.label \in STRING /\ 0 \in Nat
  BY SourceFields
<1>2. \/ Defined(l, at, known) = known
      \/ Defined(l, at, known) = Bind(known, l.label, 0)
      \/ Defined(l, at, known) = Bind(known, l.label, at)
  BY DEF Defined
<1> DEFINE a == l.label
<1>3. Bind(known, a, 0) \in LabelSets /\ Bind(known, a, at) \in LabelSets
  <2>1. a \in STRING
    BY <1>1
  <2> HIDE DEF a
  <2> QED  BY <2>1, <1>1, BindType
<1> QED  BY <1>2, <1>3

\* The word of a line of the second pass.
LineWord(l, at) == IF IsInstruction(l) THEN assemble_instruction(l, labels, at) ELSE NONE

LEMMA WordType ==
  ASSUME NEW l \in SourceLine, NEW at \in Nat, Numbers(labels)
  PROVE  LineWord(l, at) \in Nat \cup {NONE}
<1> DEFINE w == assemble_instruction(l, labels, at)
<1>1. CASE IsInstruction(l) /\ w # NONE
  <2>1. l.op \in known_opcodes
    BY <1>1, SourceFields DEF IsInstruction
  <2>2. at \in Int /\ w = assemble_instruction(l, labels, at)
    OBVIOUS
  <2> HIDE DEF w
  <2>3. AsWritten(l, labels, w)
    BY <1>1, <2>1, <2>2, Assembly
  <2> QED  BY <1>1, <2>2, <2>3 DEF AsWritten, LineWord
<1>2. CASE ~(IsInstruction(l) /\ w # NONE)
  BY <1>2 DEF LineWord
<1> QED  BY <1>1, <1>2

\* A line of the second pass.
LEMMA SecondStep ==
  ASSUME second_pass
  PROVE  LET l == source[line]
             w == LineWord(l, address)
             c == LineCode(l, address, w)
         IN  /\ phase = 2 /\ line <= Len(source)
             /\ emitted' = emitted \o c.bytes
             /\ address' = c.at + Len(c.bytes)
             /\ starts' = Append(starts, Len(emitted))
             /\ words' = Append(words, w)
             /\ line' = line + 1
             /\ source' = source /\ phase' = phase /\ labels' = labels
BY Zenon DEF second_pass, LineWord, LineCode

LEMMA AssemblerTypeInit == AssemblerInit => AssemblerType
<1> SUFFICES ASSUME AssemblerInit PROVE AssemblerType
  OBVIOUS
<1>1. Written(source)
  BY SourcesWritten DEF AssemblerInit
<1>2. labels \in LabelSets
  BY <1>1, EquLabelsAre DEF AssemblerInit
<1>3. 1 \in 1..Len(source) + 1
  BY <1>1 DEF Written
<1> QED  BY <1>2, <1>3 DEF AssemblerInit, AssemblerType

LEMMA AssemblerTypeNext ==
  AssemblerType /\ [AssemblerNext]_assemblerVars => AssemblerType'
<1> SUFFICES ASSUME AssemblerType, [AssemblerNext]_assemblerVars PROVE AssemblerType'
  OBVIOUS
<1>0. Len(source) \in Nat
  BY SourcesWritten DEF AssemblerType, Written
<1>1. CASE first_pass
  <2> DEFINE l == source[line]
  <2>1. /\ phase = 1 /\ line <= Len(source)
        /\ source' = source /\ phase' = phase /\ emitted' = emitted
        /\ starts' = starts /\ words' = words
    BY <1>1 DEF first_pass
  <2>2. /\ Written(source) /\ line \in 1..Len(source)
        /\ l \in SourceLine /\ HasOperand(l)
    BY <2>1, LineType
  <2>3. \/ line' = Len(source) + 1 /\ address' = address /\ labels' = labels
        \/ /\ line' = line + 1
           /\ labels' = Defined(l, address, labels)
           /\ address' = Passed(l, address, labels)
    BY <1>1 DEF first_pass
  <2> HIDE DEF l
  <2>4. Numbers(labels)
    BY LabelSetsAre DEF AssemblerType
  <2>5. Defined(l, address, labels) \in LabelSets /\ Passed(l, address, labels) \in Nat
    BY <2>2, <2>4, DefinedType, PassedSize DEF AssemblerType
  <2>6. address' \in Nat /\ labels' \in LabelSets
    BY <2>3, <2>5 DEF AssemblerType
  <2>7. line' \in 1..Len(source) + 1
    BY <1>0, <2>2, <2>3
  <2> QED  BY <2>1, <2>6, <2>7 DEF AssemblerType
<1>2. CASE StartSecondPass
  <2>1. line' = 1 /\ phase' = 2 /\ Len(starts) = 0 /\ Len(words) = 0
    BY <1>2 DEF StartSecondPass, AssemblerType
  <2>2. line' \in 1..Len(source) + 1
    BY <1>0, <2>1
  <2> QED  BY <1>2, <2>1, <2>2 DEF StartSecondPass, AssemblerType
<1>3. CASE second_pass
  <2> DEFINE l == source[line]
             w == LineWord(l, address)
             c == LineCode(l, address, w)
  <2>1. /\ phase = 2 /\ line <= Len(source)
        /\ emitted' = emitted \o c.bytes
        /\ address' = c.at + Len(c.bytes)
        /\ starts' = Append(starts, Len(emitted))
        /\ words' = Append(words, w)
        /\ line' = line + 1
        /\ source' = source /\ phase' = phase /\ labels' = labels
    BY <1>3, SecondStep
  <2>2. line \in 1..Len(source) /\ l \in SourceLine /\ HasOperand(l)
    BY <2>1, LineType
  <2>3. Numbers(labels) /\ address \in Nat
    BY LabelSetsAre DEF AssemblerType
  <2> HIDE DEF l
  <2>4. w \in Nat \cup {NONE}
    BY <2>2, <2>3, WordType
  <2> HIDE DEF w
  <2>5. c \in Codes
    BY <2>2, <2>3, <2>4, CodeSize
  <2> HIDE DEF c
  <2>6. c.bytes \in Seq(Nat) /\ c.at \in Nat /\ Len(c.bytes) \in Nat
    BY <2>5, CodeFields
  <2>7. emitted' \in Seq(Nat) /\ Len(emitted) \in Nat
    BY <2>1, <2>6 DEF AssemblerType
  <2>8. starts' \in Seq(Nat) /\ Len(starts') = Len(starts) + 1
    BY <2>1, <2>7 DEF AssemblerType
  <2>9. words' \in Seq(Nat \cup {NONE}) /\ Len(words') = Len(words) + 1
    BY <2>1, <2>4 DEF AssemblerType
  <2>10. /\ line' \in 1..Len(source) + 1 /\ address' \in Nat
         /\ Len(starts') = line' - 1 /\ Len(words') = line' - 1
    BY <1>0, <2>1, <2>2, <2>6, <2>8, <2>9 DEF AssemblerType
  <2> QED  BY <2>1, <2>7, <2>8, <2>9, <2>10 DEF AssemblerType
<1>4. CASE Finish
  <2>1. line = Len(source) + 1
    BY <1>0, <1>4 DEF Finish, AssemblerType
  <2> QED  BY <1>4, <2>1 DEF Finish, AssemblerType
<1>5. CASE UNCHANGED assemblerVars
  BY <1>5 DEF assemblerVars, AssemblerType
<1> QED  BY <1>1, <1>2, <1>3, <1>4, <1>5 DEF AssemblerNext, Stopped

\* The label of line j is that of no other line, and not defined as a number.
PlainLabel(lines, j) ==
  /\ lines[j].label # NoName
  /\ \A k \in 1..Len(lines) : lines[k].label = lines[j].label => k = j
  /\ lines[j].op \notin {"EQU", "ORG", "FIN"} \cup Sections

\* The address of the first pass, and the labels it has met, are places in a
\* section of known size.
FirstInv ==
  /\ phase = 1 /\ line <= Len(source) /\ AllSized(source, line - 1) =>
       address = Span(source, line - 1) /\ address % 2 = 0
  /\ \A j \in 1..Len(source) :
       PlainLabel(source, j) /\ source[j].label \in DOMAIN labels =>
         /\ phase = 1 => j < line
         /\ AllSized(source, j - 1) =>
              /\ labels[source[j].label] = Span(source, j - 1)
              /\ labels[source[j].label] % 2 = 0

LEMMA FirstInvInit == AssemblerInit => FirstInv
<1> SUFFICES ASSUME AssemblerInit PROVE FirstInv
  OBVIOUS
<1>1. Written(source)
  BY SourcesWritten DEF AssemblerInit
<1>2. phase = 1 /\ line = 1 /\ address = 0 /\ line - 1 = 0 /\ 0 % 2 = 0
  BY DEF AssemblerInit
<1>3. Span(source, 0) = 0
  <2>1. 0 \in 0..Len(source)
    BY <1>1 DEF Written
  <2> QED  BY <1>1, <2>1, Spans
<1>4. ASSUME NEW j \in 1..Len(source), PlainLabel(source, j), source[j].label \in DOMAIN labels
      PROVE  FALSE
  <2>1. EquValues(labels, source)
    BY <1>1, EquLabelsAre DEF AssemblerInit
  <2>2. PICK k \in 1..Len(source) : source[k].op = "EQU" /\ source[k].label = source[j].label
    BY <1>4, <2>1 DEF EquValues
  <2> QED  BY <1>4, <2>2 DEF PlainLabel
<1> QED  BY <1>2, <1>3, <1>4 DEF FirstInv

\* The first pass keeps what it knows.
LEMMA FirstInvPass == AssemblerType /\ FirstInv /\ first_pass => FirstInv'
<1> SUFFICES ASSUME AssemblerType, FirstInv, first_pass PROVE FirstInv'
  OBVIOUS
<1> DEFINE l == source[line]
           N == Len(source)
<1>1. phase = 1 /\ line <= N /\ source' = source /\ phase' = phase
  BY DEF first_pass
<1>2. /\ Written(source) /\ N \in Nat /\ line \in 1..N /\ line - 1 \in 0..N
      /\ l \in SourceLine /\ HasOperand(l)
  BY <1>1, LineType
<1>3. \/ l.op = "END" /\ line' = N + 1 /\ labels' = labels
      \/ /\ line' = line + 1
         /\ labels' = Defined(l, address, labels)
         /\ address' = Passed(l, address, labels)
  BY DEF first_pass
<1>4. address \in Nat /\ labels \in LabelSets /\ Numbers(labels)
  BY LabelSetsAre DEF AssemblerType
<1> HIDE DEF N
<1>5. /\ AllSized(source, line - 1) => address = Span(source, line - 1) /\ address % 2 = 0
      /\ \A j \in 1..N :
           PlainLabel(source, j) /\ source[j].label \in DOMAIN labels =>
             /\ j < line
             /\ AllSized(source, j - 1) =>
                  /\ labels[source[j].label] = Span(source, j - 1)
                  /\ labels[source[j].label] % 2 = 0
  BY <1>1 DEF FirstInv, N
<1>6. ASSUME line' <= N, AllSized(source, line' - 1)
      PROVE  address' = Span(source, line' - 1) /\ address' % 2 = 0
  <2>1. line' = line + 1 /\ line' - 1 = line /\ address' = Passed(l, address, labels)
    BY <1>2, <1>3, <1>6
  <2>2. AllSized(source, line)
    BY <1>6, <2>1
  <2>3. line \in 0..Len(source) /\ line # 0
    BY <1>2 DEF N
  <2>4. CASE Opens(l)
    <3>1. Span(source, line) = 0
      BY <1>2, <2>3, <2>4, Spans
    <3>2. address' = 0
      BY <1>2, <1>4, <2>1, <2>4, PassedSize DEF Opens
    <3> QED  BY <2>1, <3>1, <3>2
  <2>5. CASE ~Opens(l)
    <3>1. /\ Span(source, line) = Span(source, line - 1) + Size(l)
          /\ AllSized(source, line - 1) /\ Sized(l)
      BY <1>2, <2>2, <2>3, <2>5, Spans
    <3>2. address = Span(source, line - 1) /\ address % 2 = 0
      BY <1>5, <3>1
    <3>3. address' = address + Size(l) /\ Size(l) \in Nat /\ Size(l) % 2 = 0
      BY <1>2, <1>4, <2>1, <3>1, <3>2, PassedSize, SizeType
    <3> DEFINE s == Size(l)
    <3>4. address' = address + s /\ s \in Nat /\ s % 2 = 0
      BY <3>3
    <3> HIDE DEF s
    <3>5. address' % 2 = 0
      BY <1>4, <3>2, <3>4
    <3> QED  BY <2>1, <3>1, <3>2, <3>3, <3>5
  <2> QED  BY <2>4, <2>5
<1>7. ASSUME NEW j \in 1..N, PlainLabel(source, j), source[j].label \in DOMAIN labels'
      PROVE  /\ j < line'
             /\ AllSized(source, j - 1) =>
                  /\ labels'[source[j].label] = Span(source, j - 1)
                  /\ labels'[source[j].label] % 2 = 0
  <2> DEFINE a == source[j].label
  <2>1. line < line' /\ j \in Nat /\ line \in Nat
    BY <1>2, <1>3
  <2>2. CASE a \in DOMAIN labels /\ labels'[a] = labels[a]
    <3>1. j < line
      BY <1>5, <1>7, <2>2
    <3> QED  BY <1>2, <1>3, <1>5, <1>7, <2>1, <2>2, <3>1
  <2>3. CASE ~(a \in DOMAIN labels /\ labels'[a] = labels[a])
    <3>1. labels' # labels
      BY <1>7, <2>3
    <3>2. labels' = Defined(l, address, labels) /\ line' = line + 1
      BY <1>3, <3>1
    <3>3. /\ l.label \in STRING /\ 0 \in Nat
      BY <1>2, SourceFields
    <3>4. PICK n \in {0, address} : labels' = Bind(labels, l.label, n)
      BY <3>1, <3>2 DEF Defined
    <3>5. l.label = a
      <4> DEFINE b == l.label
      <4>1. /\ DOMAIN labels' = DOMAIN labels \cup {b}
            /\ \A x \in DOMAIN labels : x # b => labels'[x] = labels[x]
        <5>1. b \in STRING /\ n \in Nat /\ labels' = Bind(labels, b, n)
          BY <1>4, <3>3, <3>4
        <5> HIDE DEF b
        <5> QED  BY <1>4, <5>1, BindType
      <4> QED  BY <1>7, <2>3, <4>1
    <3>6. line = j
      BY <1>2, <1>7, <3>5 DEF PlainLabel, N
    <3>7. a \notin DOMAIN labels
      <4>1. a \in DOMAIN labels => j < line
        BY <1>5, <1>7
      <4> QED  BY <2>1, <3>6, <4>1
    <3>8. labels' = Bind(labels, a, address)
      <4>1. l.op \notin {"EQU", "ORG", "FIN"} \cup Sections /\ l.label # NoName
        BY <1>7, <3>6 DEF PlainLabel
      <4> QED  BY <3>2, <3>5, <3>7, <4>1 DEF Defined
    <3>9. labels'[a] = address
      <4>1. a \in STRING
        BY <3>3, <3>5
      <4> HIDE DEF a
      <4> QED  BY <1>4, <3>8, <4>1, BindType
    <3>10. AllSized(source, j - 1) => address = Span(source, j - 1) /\ address % 2 = 0
      BY <1>5, <3>6
    <3> QED  BY <2>1, <3>2, <3>6, <3>9, <3>10
  <2> QED  BY <2>2, <2>3
<1> QED  BY <1>1, <1>6, <1>7 DEF FirstInv, N

LEMMA FirstInvNext ==
  AssemblerType /\ FirstInv /\ [AssemblerNext]_assemblerVars => FirstInv'
<1> SUFFICES ASSUME AssemblerType, FirstInv, [AssemblerNext]_assemblerVars PROVE FirstInv'
  OBVIOUS
<1>1. CASE first_pass
  BY <1>1, FirstInvPass
<1>2. CASE StartSecondPass
  BY <1>2 DEF StartSecondPass, FirstInv
<1>3. CASE second_pass
  BY <1>3 DEF second_pass, FirstInv
<1>4. CASE Finish
  BY <1>4 DEF Finish, FirstInv
<1>5. CASE UNCHANGED assemblerVars
  BY <1>5 DEF assemblerVars, FirstInv
<1> QED  BY <1>1, <1>2, <1>3, <1>4, <1>5 DEF AssemblerNext, Stopped

----------------------------------------------------------------------------
(* The second pass. *)

\* Every line of the section of line i, up to it, has a known size and gave
\* its code, or is an instruction that did or a line without code.
Whole(lines, i, given) ==
  \A k \in 1..i : Opener(lines, i) < k =>
    Sized(lines[k]) /\ (IsInstruction(lines[k]) => given[k] # NONE)
Pure(lines, i, given) ==
  \A k \in 1..i : Opener(lines, i) < k =>
    IF IsInstruction(lines[k]) THEN given[k] # NONE ELSE lines[k].op \in {"EQU", "none"}

\* Where the section of line i starts in the output.
Base(lines, i, places) ==
  IF Opener(lines, i) = 0 THEN 0 ELSE places[Opener(lines, i)]

LEMMA PureIsWhole ==
  ASSUME NEW lines, NEW i, NEW given, Pure(lines, i, given)
  PROVE  Whole(lines, i, given) /\ AllSized(lines, i)
BY DEF Pure, Whole, AllSized, Sized

LEMMA WholeIsSized ==
  ASSUME NEW lines, NEW i, NEW given, Whole(lines, i, given)
  PROVE  AllSized(lines, i)
BY DEF Whole, AllSized

\* One line more.
LEMMA WholeStep ==
  ASSUME NEW lines, NEW n \in Nat \ {0}, NEW given
  PROVE  ~Opens(lines[n]) =>
           /\ Opener(lines, n) = Opener(lines, n - 1)
           /\ Whole(lines, n, given) => /\ Whole(lines, n - 1, given) /\ Sized(lines[n])
                                        /\ IsInstruction(lines[n]) => given[n] # NONE
           /\ Pure(lines, n, given) =>
                /\ Pure(lines, n - 1, given)
                /\ IF IsInstruction(lines[n]) THEN given[n] # NONE
                   ELSE lines[n].op \in {"EQU", "none"}
<1> SUFFICES ASSUME ~Opens(lines[n])
             PROVE  /\ Opener(lines, n) = Opener(lines, n - 1)
                    /\ Whole(lines, n, given) =>
                         /\ Whole(lines, n - 1, given) /\ Sized(lines[n])
                         /\ IsInstruction(lines[n]) => given[n] # NONE
                    /\ Pure(lines, n, given) =>
                         /\ Pure(lines, n - 1, given)
                         /\ IF IsInstruction(lines[n]) THEN given[n] # NONE
                            ELSE lines[n].op \in {"EQU", "none"}
  OBVIOUS
<1> DEFINE o == Opener(lines, n)
<1>1. n - 1 \in Nat /\ n \in 1..n /\ \A k \in 1..n - 1 : k \in 1..n
  OBVIOUS
<1>2. o = Opener(lines, n - 1)
  BY Openers
<1>3. o \in 0..n - 1
  BY <1>1, <1>2, Openers
<1> HIDE DEF o
<1>4. o < n
  BY <1>3
<1>5. ASSUME Whole(lines, n, given)
      PROVE  /\ Whole(lines, n - 1, given) /\ Sized(lines[n])
             /\ IsInstruction(lines[n]) => given[n] # NONE
  <2>1. \A k \in 1..n : o < k =>
          Sized(lines[k]) /\ (IsInstruction(lines[k]) => given[k] # NONE)
    BY <1>5 DEF Whole, o
  <2> QED  BY <1>1, <1>2, <1>4, <2>1 DEF Whole
<1>6. ASSUME Pure(lines, n, given)
      PROVE  /\ Pure(lines, n - 1, given)
             /\ IF IsInstruction(lines[n]) THEN given[n] # NONE
                ELSE lines[n].op \in {"EQU", "none"}
  <2>1. \A k \in 1..n : o < k =>
          IF IsInstruction(lines[k]) THEN given[k] # NONE ELSE lines[k].op \in {"EQU", "none"}
    BY <1>6 DEF Pure, o
  <2> QED  BY <1>1, <1>2, <1>4, <2>1 DEF Pure
<1> QED  BY <1>2, <1>5, <1>6 DEF o

\* What was given before stays.
LEMMA Prefix ==
  ASSUME NEW lines, NEW n \in Nat, NEW given, NEW later, \A k \in 1..n : later[k] = given[k]
  PROVE  /\ Whole(lines, n, later) <=> Whole(lines, n, given)
         /\ Pure(lines, n, later) <=> Pure(lines, n, given)
         /\ Base(lines, n, later) = Base(lines, n, given)
<1>1. Opener(lines, n) \in 0..n
  BY Openers
<1>2. Opener(lines, n) # 0 => Opener(lines, n) \in 1..n
  BY <1>1
<1>3. Base(lines, n, later) = Base(lines, n, given)
  BY <1>2 DEF Base
<1> QED  BY <1>3 DEF Whole, Pure

\* The address of the second pass counts instructions only; the output is as
\* long as the known sizes say, and each word was made at such an address.
SecondInv ==
  /\ phase # 1 =>
       /\ Whole(source, line - 1, words) =>
            /\ address % 2 = 0
            /\ Len(emitted) = Base(source, line - 1, starts) + Span(source, line - 1)
       /\ Pure(source, line - 1, words) => address = Span(source, line - 1)
  /\ \A j \in 1..Len(starts) : Whole(source, j - 1, words) =>
       starts[j] = Base(source, j - 1, starts) + Span(source, j - 1)
  /\ \A i \in 1..Len(words) :
       IF IsInstruction(source[i])
         THEN \E here \in Nat :
                /\ words[i] = assemble_instruction(source[i], labels, here)
                /\ Pure(source, i - 1, words) => here = Span(source, i - 1) /\ here % 2 = 0
         ELSE words[i] = NONE

LEMMA SecondInvInit == AssemblerInit => SecondInv
BY DEF AssemblerInit, SecondInv

\* Nothing is written before the second pass.
LEMMA SecondInvStart ==
  AssemblerType /\ SecondInv /\ StartSecondPass => SecondInv'
<1> SUFFICES ASSUME AssemblerType, SecondInv, StartSecondPass PROVE SecondInv'
  OBVIOUS
<1>1. /\ emitted' = <<>> /\ starts' = <<>> /\ words' = <<>>
      /\ line' = 1 /\ line' - 1 = 0 /\ address' = 0 /\ source' = source
  BY DEF AssemblerType, StartSecondPass
<1>2. Len(emitted') = 0 /\ Len(starts') = 0 /\ Len(words') = 0 /\ 0 % 2 = 0
  BY <1>1
<1>3. Span(source, 0) = 0 /\ Base(source, 0, starts') = 0
  <2>1. Written(source)
    BY SourcesWritten DEF AssemblerType
  <2>2. 0 \in 0..Len(source) /\ 0 \in Nat
    BY <2>1 DEF Written
  <2>3. Opener(source, 0) = 0
    BY <2>2, Openers
  <2> QED  BY <2>1, <2>2, <2>3, Spans DEF Base
<1> QED  BY <1>1, <1>2, <1>3 DEF SecondInv

LEMMA SecondInvPass ==
  AssemblerType /\ SecondInv /\ second_pass => SecondInv'
<1> SUFFICES ASSUME AssemblerType, SecondInv, second_pass PROVE SecondInv'
  OBVIOUS
<1> DEFINE l == source[line]
           w == LineWord(l, address)
           c == LineCode(l, address, w)
           m == line - 1
           e == Len(emitted)
<1>1. /\ phase = 2 /\ line <= Len(source)
      /\ emitted' = emitted \o c.bytes
      /\ address' = c.at + Len(c.bytes)
      /\ starts' = Append(starts, e)
      /\ words' = Append(words, w)
      /\ line' = line + 1
      /\ source' = source /\ phase' = phase /\ labels' = labels
  BY SecondStep
<1>2. /\ Written(source) /\ line \in 1..Len(source) /\ m \in 0..Len(source)
      /\ line \in 0..Len(source) /\ line \in Nat \ {0} /\ m \in Nat
      /\ l \in SourceLine /\ HasOperand(l)
  BY <1>1, LineType
<1>3. Numbers(labels) /\ address \in Nat
  BY LabelSetsAre DEF AssemblerType
<1>4. w \in Nat \cup {NONE}
  <2> HIDE DEF l
  <2> QED  BY <1>2, <1>3, WordType
<1>5. w = IF IsInstruction(l) THEN assemble_instruction(l, labels, address) ELSE NONE
  BY DEF LineWord
<1> DEFINE whole == Sized(l) /\ (IsInstruction(l) => w # NONE)
<1>6. /\ c \in Codes
      /\ address % 2 = 0 /\ whole => /\ Len(c.bytes) = Size(l)
                                     /\ (c.at + Len(c.bytes)) % 2 = 0
      /\ whole /\ l.op \notin Data => c.at = address
      /\ Opens(l) => Len(c.bytes) = 0 /\ c.at = 0
  <2> HIDE DEF l, w
  <2> QED  BY <1>2, <1>3, <1>4, CodeSize DEF Opens
<1> HIDE DEF w, c, m
<1>7. /\ Len(starts) = m /\ Len(words) = m
      /\ starts' \in Seq(Nat) /\ words' \in Seq(Nat \cup {NONE}) /\ e \in Nat
      /\ Len(starts') = line /\ Len(words') = line /\ line' - 1 = line
      /\ starts'[line] = e /\ words'[line] = w
      /\ \A k \in 1..m : starts'[k] = starts[k] /\ words'[k] = words[k]
  <2>1. /\ starts \in Seq(Nat) /\ words \in Seq(Nat \cup {NONE}) /\ emitted \in Seq(Nat)
        /\ Len(starts) = m /\ Len(words) = m
    BY <1>1 DEF AssemblerType, m
  <2>2. m + 1 = line /\ line' - 1 = line
    BY <1>1, <1>2 DEF m
  <2>3. e \in Nat
    BY <2>1
  <2> HIDE DEF e
  <2>4. /\ starts' \in Seq(Nat) /\ Len(starts') = m + 1 /\ starts'[m + 1] = e
        /\ \A k \in 1..m : starts'[k] = starts[k]
    BY <1>1, <2>1, <2>3
  <2>5. /\ words' \in Seq(Nat \cup {NONE}) /\ Len(words') = m + 1 /\ words'[m + 1] = w
        /\ \A k \in 1..m : words'[k] = words[k]
    BY <1>1, <1>4, <2>1
  <2> QED  BY <2>1, <2>2, <2>3, <2>4, <2>5
<1>8. ASSUME NEW n \in 0..m
      PROVE  /\ Whole(source, n, words') <=> Whole(source, n, words)
             /\ Pure(source, n, words') <=> Pure(source, n, words)
             /\ Base(source, n, starts') = Base(source, n, starts)
  <2>1. n \in Nat /\ \A k \in 1..n : k \in 1..m
    BY <1>2
  <2> DEFINE x == words
             y == words'
             u == starts
             v == starts'
  <2>2. (\A k \in 1..n : y[k] = x[k]) /\ (\A k \in 1..n : v[k] = u[k])
    BY <1>7, <2>1
  <2> HIDE DEF x, y, u, v
  <2>3. /\ Whole(source, n, y) <=> Whole(source, n, x)
        /\ Pure(source, n, y) <=> Pure(source, n, x)
    BY <2>1, <2>2, Prefix
  <2>4. Base(source, n, v) = Base(source, n, u)
    BY <2>1, <2>2, Prefix
  <2> QED  BY <2>3, <2>4 DEF x, y, u, v
<1>9. m \in 0..m
  BY <1>2
<1>10. /\ Whole(source, m, words) =>
            /\ address % 2 = 0
            /\ e = Base(source, m, starts) + Span(source, m)
       /\ Pure(source, m, words) => address = Span(source, m)
  BY <1>1 DEF SecondInv, m
<1> DEFINE o == Opener(source, line)
<1>11. Len(emitted') = e + Len(c.bytes) /\ Len(c.bytes) \in Nat /\ c.at \in Nat
  <2>1. c.bytes \in Seq(Nat) /\ Len(c.bytes) \in Nat /\ c.at \in Nat
    BY <1>6, CodeFields
  <2>2. emitted \in Seq(Nat)
    BY DEF AssemblerType
  <2> DEFINE b == c.bytes
  <2>3. Len(emitted \o b) = Len(emitted) + Len(b)
    <3>1. b \in Seq(Nat)
      BY <2>1
    <3> HIDE DEF b
    <3> QED  BY <2>2, <3>1
  <2> QED  BY <1>1, <2>1, <2>3
<1> HIDE DEF e, l
<1>12. /\ Whole(source, line, words') =>
            /\ address' % 2 = 0
            /\ Len(emitted') = Base(source, line, starts') + Span(source, line)
       /\ Pure(source, line, words') => address' = Span(source, line)
  <2>1. CASE Opens(l)
    <3>1. o = line
      BY <1>2, <2>1, Openers DEF l
    <3>2. Base(source, line, starts') = e
      BY <1>2, <1>7, <3>1 DEF Base
    <3>3. Span(source, line) = 0
      BY <1>2, <2>1, Spans DEF l
    <3>4. Len(emitted') = e /\ address' = 0
      BY <1>1, <1>6, <1>7, <1>11, <2>1
    <3> QED  BY <1>7, <3>2, <3>3, <3>4
  <2>2. CASE ~Opens(l)
    <3> DEFINE s == Size(l)
               p == Span(source, m)
    <3>1. Span(source, line) = p + s /\ p \in Int /\ s \in Nat
      <4>1. s \in Nat
        BY <1>2, SizeType
      <4>2. p \in Int
        BY <1>2, Spans
      <4>3. Span(source, line) = p + s
        BY <1>2, <2>2, Spans DEF l, m
      <4> QED  BY <4>1, <4>2, <4>3
    <3>2. o = Opener(source, m)
      BY <1>2, <2>2, Openers DEF l, m
    <3>3. /\ Whole(source, line, words') => Whole(source, m, words') /\ whole
          /\ Pure(source, line, words') =>
               /\ Pure(source, m, words')
               /\ IF IsInstruction(l) THEN w # NONE ELSE l.op \in {"EQU", "none"}
      <4> DEFINE y == words'
      <4>1. y[line] = w
        BY <1>7
      <4> HIDE DEF y
      <4>2. /\ Whole(source, line, y) => /\ Whole(source, line - 1, y) /\ Sized(l)
                                         /\ IsInstruction(l) => y[line] # NONE
            /\ Pure(source, line, y) =>
                 /\ Pure(source, line - 1, y)
                 /\ IF IsInstruction(l) THEN y[line] # NONE ELSE l.op \in {"EQU", "none"}
        BY <1>2, <2>2, WholeStep DEF l
      <4> QED  BY <4>1, <4>2 DEF y, m
    <3>4. Base(source, line, starts') = Base(source, m, starts)
      <4>1. Base(source, line, starts') = Base(source, m, starts')
        BY <3>2 DEF Base
      <4> QED  BY <1>8, <1>9, <4>1
    <3>5. Base(source, m, starts) \in Nat
      <4>1. Opener(source, m) \in 0..m
        BY <1>2, Openers
      <4>2. Opener(source, m) # 0 => Opener(source, m) \in 1..Len(starts)
        BY <1>2, <1>7, <4>1
      <4>3. starts \in Seq(Nat)
        BY DEF AssemblerType
      <4> QED  BY <4>2, <4>3 DEF Base
    <3> HIDE DEF s, p, whole
    <3>6. ASSUME Whole(source, line, words')
          PROVE  /\ address' % 2 = 0
                 /\ Len(emitted') = Base(source, line, starts') + Span(source, line)
      <4>1. whole /\ address % 2 = 0 /\ e = Base(source, m, starts) + p
        BY <1>8, <1>9, <1>10, <3>3, <3>6 DEF p
      <4>2. Len(c.bytes) = s /\ address' % 2 = 0
        BY <1>1, <1>6, <4>1 DEF s
      <4> QED  BY <1>11, <3>1, <3>4, <3>5, <4>1, <4>2
    <3>7. ASSUME Pure(source, line, words') PROVE address' = Span(source, line)
      <4>1. address = p
        BY <1>8, <1>9, <1>10, <3>3, <3>7 DEF p
      <4>2. whole /\ l.op \notin Data /\ Whole(source, m, words)
        <5>1. Whole(source, m, words)
          <6>1. Pure(source, m, words)
            BY <1>8, <1>9, <3>3, <3>7
          <6> QED  BY <6>1, PureIsWhole
        <5>2. whole
          BY <3>3, <3>7 DEF whole, Sized
        <5>3. l.op \notin Data
          BY <3>3, <3>7 DEF IsInstruction, Directives, Data
        <5> QED  BY <5>1, <5>2, <5>3
      <4>3. address % 2 = 0
        BY <1>10, <4>2
      <4>4. c.at = address /\ Len(c.bytes) = s
        BY <1>6, <4>2, <4>3 DEF s
      <4> QED  BY <1>1, <3>1, <4>1, <4>4
    <3> QED  BY <3>6, <3>7
  <2> QED  BY <2>1, <2>2
<1>13. ASSUME NEW j \in 1..line, Whole(source, j - 1, words')
       PROVE  starts'[j] = Base(source, j - 1, starts') + Span(source, j - 1)
  <2>1. j - 1 \in 0..m
    BY <1>2 DEF m
  <2>2. Whole(source, j - 1, words) /\ Base(source, j - 1, starts') = Base(source, j - 1, starts)
    BY <1>8, <1>13, <2>1
  <2>3. CASE j = line
    <3>1. e = Base(source, m, starts) + Span(source, m)
      BY <1>10, <2>2, <2>3 DEF m
    <3> QED  BY <1>7, <2>2, <2>3, <3>1 DEF m
  <2>4. CASE j # line
    <3>1. j \in 1..m
      BY <1>2, <2>4 DEF m
    <3>2. starts[j] = Base(source, j - 1, starts) + Span(source, j - 1)
      BY <1>7, <2>2, <3>1 DEF SecondInv
    <3> QED  BY <1>7, <2>2, <3>1, <3>2
  <2> QED  BY <2>3, <2>4
<1>14. ASSUME NEW i \in 1..line
       PROVE  IF IsInstruction(source[i])
                THEN \E here \in Nat :
                       /\ words'[i] = assemble_instruction(source[i], labels, here)
                       /\ Pure(source, i - 1, words') => here = Span(source, i - 1) /\ here % 2 = 0
                ELSE words'[i] = NONE
  <2>1. i - 1 \in 0..m
    BY <1>2 DEF m
  <2>2. Pure(source, i - 1, words') <=> Pure(source, i - 1, words)
    BY <1>8, <2>1
  <2>3. CASE i = line
    <3>1. words'[i] = IF IsInstruction(source[i])
                        THEN assemble_instruction(source[i], labels, address) ELSE NONE
      BY <1>5, <1>7, <2>3 DEF l
    <3>2. Pure(source, i - 1, words') =>
            address = Span(source, i - 1) /\ address % 2 = 0
      BY <1>10, <2>2, <2>3, PureIsWhole DEF m
    <3> QED  BY <1>3, <3>1, <3>2
  <2>4. CASE i # line
    <3>1. i \in 1..m
      BY <1>2, <2>4 DEF m
    <3>2. IF IsInstruction(source[i])
            THEN \E here \in Nat :
                   /\ words[i] = assemble_instruction(source[i], labels, here)
                   /\ Pure(source, i - 1, words) => here = Span(source, i - 1) /\ here % 2 = 0
            ELSE words[i] = NONE
      BY <1>7, <3>1 DEF SecondInv
    <3>3. words'[i] = words[i]
      BY <1>7, <3>1
    <3> QED  BY <2>2, <3>2, <3>3
  <2> QED  BY <2>3, <2>4
<1> QED  BY <1>1, <1>7, <1>12, <1>13, <1>14 DEF SecondInv

LEMMA SecondInvNext ==
  AssemblerType /\ SecondInv /\ [AssemblerNext]_assemblerVars => SecondInv'
<1> SUFFICES ASSUME AssemblerType, SecondInv, [AssemblerNext]_assemblerVars PROVE SecondInv'
  OBVIOUS
<1>1. CASE first_pass
  <2>1. /\ phase = 1 /\ phase' = phase
        /\ starts' = <<>> /\ words' = <<>>
    BY <1>1 DEF first_pass, AssemblerType
  <2>2. Len(starts') = 0 /\ Len(words') = 0
    BY <2>1
  <2> QED  BY <2>1, <2>2 DEF SecondInv
<1>2. CASE StartSecondPass
  BY <1>2, SecondInvStart
<1>3. CASE second_pass
  BY <1>3, SecondInvPass
<1>4. CASE Finish
  BY <1>4 DEF Finish, SecondInv
<1>5. CASE UNCHANGED assemblerVars
  BY <1>5 DEF assemblerVars, SecondInv
<1> QED  BY <1>1, <1>2, <1>3, <1>4, <1>5 DEF AssemblerNext, Stopped

\* The inductive invariant of the assembler.
AssemblerInv == AssemblerType /\ FirstInv /\ SecondInv

LEMMA AssemblerInvariant == AssemblerSpec => []AssemblerInv
<1>1. AssemblerInit => AssemblerInv
  BY AssemblerTypeInit, FirstInvInit, SecondInvInit DEF AssemblerInv
<1>2. AssemblerInv /\ [AssemblerNext]_assemblerVars => AssemblerInv'
  BY AssemblerTypeNext, FirstInvNext, SecondInvNext DEF AssemblerInv
<1> QED  BY <1>1, <1>2, PTL DEF AssemblerSpec

\* The words of a finished program.
LEMMA FinishedWords ==
  ASSUME AssemblerInv, phase = 3
  PROVE  /\ Written(source) /\ Len(source) \in Nat /\ DOMAIN source = 1..Len(source)
         /\ DOMAIN words = 1..Len(source) /\ Len(starts) = Len(source)
         /\ Numbers(labels)
         /\ \A i \in 1..Len(source) : source[i] \in SourceLine
         /\ \A i \in 1..Len(source) : words[i] # NONE =>
              /\ IsInstruction(source[i]) /\ source[i].op \in known_opcodes
              /\ \E here \in Nat :
                   /\ words[i] = assemble_instruction(source[i], labels, here)
                   /\ Pure(source, i - 1, words) => here = Span(source, i - 1) /\ here % 2 = 0
<1>1. /\ source \in Sources /\ words \in Seq(Nat \cup {NONE}) /\ labels \in LabelSets
      /\ Len(words) = line - 1 /\ Len(starts) = line - 1 /\ line = Len(source) + 1
  BY DEF AssemblerInv, AssemblerType
<1>2. /\ Written(source) /\ DOMAIN source = 1..Len(source) /\ Len(source) \in Nat
      /\ \A i \in 1..Len(source) : source[i] \in SourceLine
  BY <1>1, SourcesWritten DEF Written
<1>3. Len(words) = Len(source) /\ Len(starts) = Len(source)
  BY <1>1, <1>2
<1>4. DOMAIN words = 1..Len(source)
  BY <1>1, <1>3
<1>5. Numbers(labels)
  BY <1>1, LabelSetsAre
<1>6. ASSUME NEW i \in 1..Len(source), words[i] # NONE
      PROVE  /\ IsInstruction(source[i]) /\ source[i].op \in known_opcodes
             /\ \E here \in Nat :
                  /\ words[i] = assemble_instruction(source[i], labels, here)
                  /\ Pure(source, i - 1, words) => here = Span(source, i - 1) /\ here % 2 = 0
  <2>1. /\ IsInstruction(source[i])
        /\ \E here \in Nat :
             /\ words[i] = assemble_instruction(source[i], labels, here)
             /\ Pure(source, i - 1, words) => here = Span(source, i - 1) /\ here % 2 = 0
    BY <1>3, <1>6 DEF AssemblerInv, SecondInv
  <2> DEFINE l == source[i]
  <2>2. l \in SourceLine
    BY <1>2
  <2>3. IsInstruction(l) => l.op \in known_opcodes
    <3> HIDE DEF l
    <3> QED  BY <2>2, SourceFields DEF IsInstruction
  <2> QED  BY <2>1, <2>3
<1> QED  BY <1>2, <1>3, <1>4, <1>5, <1>6

\* Whatever the program, an instruction of the assembler is the one written to
\* the disassembler: its mnemonic, its mode or the one fallen back to, and its
\* operand when that is a byte (assemble_instruction, opcode_hex, decode_insn).
THEOREM MnemonicsAssembled == AssemblerSpec => []AssembledAsWritten
<1>1. AssemblerInv => AssembledAsWritten
  <2> SUFFICES ASSUME AssemblerInv, phase = 3, NEW i \in DOMAIN words, words[i] # NONE,
                      source[i].op \notin {"SHR", "SRG", "SHC"}
               PROVE  LET l == source[i]
                          d == decode_insn(words[i])
                          v == Resolved(l.op, l.mode, l.args[1], labels)
                      IN  /\ d.op = Alias(l.op)
                          /\ l.args # <<>> /\ d.class \in {"mem", "sys"} =>
                               /\ d.mode \in {l.mode, Fallback(l.mode, opcode_hex(l.op))}
                               /\ v \in 0..255 => d.number = v
    BY DEF AssembledAsWritten
  <2> DEFINE l == source[i]
             w == words[i]
  <2>1. i \in 1..Len(source) /\ l \in SourceLine /\ Numbers(labels)
    BY FinishedWords
  <2>2. /\ l.op \in known_opcodes
        /\ \E here \in Nat : w = assemble_instruction(l, labels, here)
    BY <2>1, FinishedWords
  <2> HIDE DEF l, w
  <2>3. AsWritten(l, labels, w)
    <3>1. PICK here \in Nat : w = assemble_instruction(l, labels, here)
      BY <2>2
    <3>2. here \in Int /\ w # NONE
      BY DEF w
    <3> QED  BY <2>1, <2>2, <3>1, <3>2, Assembly
  <2>4. /\ decode_insn(w).op = insn_op(w) /\ decode_insn(w).class = insn_class(w)
        /\ decode_insn(w).mode = ModeName(w) /\ decode_insn(w).number = insn_number(w)
    BY DEF decode_insn
  <2>5. l.op \notin {"SHR", "SRG", "SHC"}
    BY DEF l
  <2>6. /\ insn_op(w) = Alias(l.op)
        /\ l.args # <<>> /\ insn_class(w) \in {"mem", "sys"} =>
             /\ ModeName(w) \in {l.mode, Fallback(l.mode, opcode_hex(l.op))}
             /\ Resolved(l.op, l.mode, l.args[1], labels) \in 0..255 =>
                  insn_number(w) = Resolved(l.op, l.mode, l.args[1], labels)
    BY <2>3, <2>5 DEF AsWritten
  <2> QED  BY <2>4, <2>6, Zenon DEF l, w
<1> QED  BY <1>1, AssemblerInvariant, PTL

\* The lines a property counts, as a line of the section.
LEMMA UptoIs ==
  ASSUME DOMAIN source = 1..Len(source), Len(source) \in Nat, NEW i \in 1..Len(source), NEW k
  PROVE  k \in Upto(i) <=> k \in 1..i /\ Opener(source, i) < k
<1>1. Opener(source, i) \in Nat
  <2>1. i \in Nat /\ Opener(source, i) \in 0..i
    BY Openers
  <2> QED  BY <2>1
<1>2. k \in Upto(i) <=> k \in 1..Len(source) /\ Opener(source, i) < k /\ k <= i
  BY OpenerIs DEF Upto, Lines
<1> QED  BY <1>1, <1>2

\* A label of one line only.
LEMMA NamingIs ==
  ASSUME DOMAIN source = 1..Len(source), NEW j \in 1..Len(source),
         source[j].label # NoName, Naming(source[j].label) = {j},
         source[j].op \notin {"EQU", "ORG", "FIN"} \cup Sections
  PROVE  PlainLabel(source, j)
BY DEF PlainLabel, Naming, Lines

LEMMA WholeWordsAre ==
  ASSUME NEW k, WholeWords(k)
  PROVE  Sized(source[k]) /\ (IsInstruction(source[k]) => words[k] # NONE)
<1> DEFINE l == source[k]
<1>1. CASE IsInstruction(l)
  <2>1. l.op \notin {"EQU", "none", "DATA", "RES", "RES,1", "TEXT", "DATA,1"}
    BY <1>1 DEF IsInstruction, Directives, Data
  <2> QED  BY <1>1, <2>1 DEF WholeWords, Sized
<1>2. CASE ~IsInstruction(l)
  BY <1>2 DEF WholeWords, Sized, Items
<1> QED  BY <1>1, <1>2

\* Whatever the program, the passes agree on a section of whole words: a label
\* is the place of its line in the output (first_pass, second_pass).
THEOREM LabelsKeepStep == AssemblerSpec => []LabelsInStep
<1>1. AssemblerInv => LabelsInStep
  <2> SUFFICES ASSUME AssemblerInv, phase = 3, NEW j \in Lines,
                      source[j].label # NoName, Naming(source[j].label) = {j},
                      source[j].op \notin {"EQU", "ORG", "FIN"} \cup Sections,
                      source[j].label \in DOMAIN labels,
                      \A k \in Upto(j) \ {j} : WholeWords(k)
               PROVE  LET first == IF Opening(j) = 0 THEN 0 ELSE starts[Opening(j)]
                      IN  labels[source[j].label] = starts[j] - first
    BY DEF LabelsInStep
  <2> DEFINE o == Opener(source, j)
             p == Span(source, j - 1)
             b == Base(source, j - 1, starts)
             v == labels[source[j].label]
  <2>1. /\ Written(source) /\ Len(source) \in Nat /\ DOMAIN source = 1..Len(source)
        /\ Len(starts) = Len(source) /\ j \in 1..Len(source)
    BY FinishedWords DEF Lines
  <2>2. PlainLabel(source, j)
    BY <2>1, NamingIs
  <2>3. j \in Nat \ {0} /\ j - 1 \in Nat /\ j - 1 \in 0..Len(source)
    BY <2>1
  <2>4. o = Opener(source, j - 1)
    BY <2>3, Openers DEF Opens
  <2>5. Whole(source, j - 1, words)
    <3>1. ASSUME NEW k \in 1..j - 1, o < k PROVE k \in Upto(j) \ {j}
      <4>1. k \in 1..j /\ k # j
        BY <2>3
      <4> QED  BY <2>1, <3>1, <4>1, UptoIs
    <3>2. ASSUME NEW k \in 1..j - 1, o < k
          PROVE  Sized(source[k]) /\ (IsInstruction(source[k]) => words[k] # NONE)
      BY <3>1, <3>2, WholeWordsAre
    <3> HIDE DEF o
    <3> QED  BY <2>4, <3>2 DEF Whole
  <2>6. v = p
    <3>1. AllSized(source, j - 1)
      BY <2>5, WholeIsSized
    <3> QED  BY <2>1, <2>2, <3>1 DEF AssemblerInv, FirstInv
  <2>7. starts[j] = b + p
    BY <2>1, <2>5 DEF AssemblerInv, SecondInv
  <2>8. b = IF Opening(j) = 0 THEN 0 ELSE starts[Opening(j)]
    BY <2>4, OpenerIs DEF Base
  <2>9. p \in Int /\ b \in Int
    <3>1. p \in Int
      BY <2>1, <2>3, Spans
    <3>2. o \in 0..j - 1
      BY <2>3, <2>4, Openers
    <3>3. o # 0 => o \in 1..Len(starts)
      BY <2>1, <3>2
    <3>4. starts \in Seq(Nat)
      BY DEF AssemblerInv, AssemblerType
    <3> HIDE DEF o
    <3>5. o # 0 => starts[o] \in Nat
      BY <3>3, <3>4
    <3> QED  BY <2>4, <3>1, <3>5 DEF Base
  <2> HIDE DEF p, b, v
  <2>10. v = starts[j] - b
    BY <2>6, <2>7, <2>9
  <2> QED  BY <2>8, <2>10 DEF v
<1> QED  BY <1>1, AssemblerInvariant, PTL

\* A branch with a label is relative.
LEMMA BranchWord ==
  ASSUME NEW l \in SourceLine, l.op \in known_opcodes, NEW known, Numbers(known),
         NEW here \in Int, Alias(l.op) \in Names(group4_opnames), l.mode = "DL",
         l.args # <<>>,
         NEW v, v = resolve_expression(l.args[1], known),
         NEW w, w = assemble_instruction(l, known, here), w # NONE
  PROVE  v \in Nat /\ w = Encoded(l.op, Relative(here, v).mode, Relative(here, v).value)
<1> DEFINE u == Resolved(l.op, l.mode, l.args[1], known)
           to == Relative(here, u)
           shift(sub, kind) ==
             IF l.mode \in {"P", "PX", "DL"} /\ u # NONE
               THEN (SystemModes[l.mode] + sub) * 256 + 32 * kind + (u % 32) ELSE NONE
           branch == Alias(l.op) \in Names(group4_opnames)
<1>0. w = CASE l.op \in derived_srg ->
                 (SystemModes[SrgMode(l)] + 1) * 256 + 2 * Index(srg_names, l.op)
            [] l.op \notin derived_srg /\ l.args = <<>> -> WithoutOperand(l.op)
            [] l.args # <<>> /\ l.op \in derived_shifts -> shift(0, Index(shr_names, l.op))
            [] l.args # <<>> /\ l.op \in derived_shc -> shift(12, Index(shc_names, l.op))
            [] l.args # <<>> /\ branch ->
                 IF l.mode = "DL"
                   THEN IF u = NONE THEN NONE ELSE Encoded(l.op, to.mode, to.value)
                 ELSE IF l.mode \in {"IL", "IG"} THEN Encoded(l.op, l.mode, u)
                 ELSE NONE
            [] OTHER -> Encoded(l.op, l.mode, u)
  BY Zenon DEF assemble_instruction
<1>1. branch /\ l.op \in Mnemonics4 \cup Aliases
  BY Branches
<1>2. l.op \notin derived_srg \cup derived_shifts \cup derived_shc
  BY <1>1, Opcodes, TablesAreDisjoint, AliasesAre
<1>3. u = v
  BY DEF Resolved
<1>4. v \in Nat \cup {NONE}
  BY SourceFields, Resolution
<1> HIDE DEF u, to, shift, branch
<1>5. w = IF u = NONE THEN NONE ELSE Encoded(l.op, to.mode, to.value)
  BY <1>0, <1>1, <1>2
<1>6. u # NONE /\ w = Encoded(l.op, to.mode, to.value)
  BY <1>5
<1> QED  BY <1>3, <1>4, <1>6 DEF to

\* A branch over less than 256 words.
Near(here, there) == here % 2 = 0 /\ there % 2 = 0 /\ there - here \in -510..510
Distance(w) == (IF ModeName(w) = "RP" THEN 2 ELSE -2) * Disp(w)

LEMMA BranchLands ==
  ASSUME NEW op \in Mnemonics4 \cup Aliases, NEW here \in Int, NEW there \in Int,
         Near(here, there),
         NEW w, w = Encoded(op, Relative(here, there).mode, Relative(here, there).value),
         w # NONE
  PROVE  there - here = Distance(w)
<1> DEFINE to == Relative(here, there)
           x == to.value
<1>1. /\ to.mode \in {"RP", "RM"} /\ x \in Nat /\ x < 256
      /\ there - here = (IF to.mode = "RP" THEN 2 ELSE -2) * x
  <2>1. CASE there >= here
    <3>1. to.mode = "RP" /\ x = (there - here) \div 2
      BY <2>1 DEF Relative
    <3> HIDE DEF to, x
    <3>2. x \in Nat /\ x < 256 /\ there - here = 2 * x
      BY <2>1, <3>1 DEF Near
    <3> QED  BY <3>1, <3>2
  <2>2. CASE ~(there >= here)
    <3>1. to.mode = "RM" /\ x = (here - there) \div 2
      BY <2>2 DEF Relative
    <3> HIDE DEF to, x
    <3>2. x \in Nat /\ x < 256 /\ there - here = -2 * x
      BY <2>2, <3>1 DEF Near
    <3> QED  BY <3>1, <3>2
  <2> QED  BY <2>1, <2>2
<1> HIDE DEF to
<1>2. w = Encoded(op, to.mode, x)
  BY DEF to
<1> DEFINE m == to.mode
<1> HIDE DEF x, m
<1>3. ReadsAs(w, Alias(op), m, "branch", low_byte(x))
  <2>1. m \in {"RP", "RM", "IL", "IG"} /\ w = Encoded(op, m, x) /\ x \in Nat \cup {NONE}
    BY <1>1, <1>2 DEF m
  <2> QED  BY <2>1, BranchEncoded
<1>4. ModeName(w) = m /\ Disp(w) = x
  <2>1. low_byte(x) = x
    BY <1>1, LowBytes
  <2> QED  BY <1>3, <2>1 DEF ReadsAs
<1> QED  BY <1>1, <1>4 DEF m, Distance

\* Whatever the program, a branch of a section of instructions reaches the
\* line of its label, forward and backward, within 255 words
\* (assemble_instruction with the addresses of the two passes).
THEOREM BranchesArrive == AssemblerSpec => []BranchesReachLabels
<1>1. AssemblerInv => BranchesReachLabels
  <2> SUFFICES ASSUME AssemblerInv, phase = 3, NEW i \in Lines, NEW j \in Lines,
                      BranchTo(i, j),
                      \A k \in Upto(i) \cup Upto(j) :
                        IF IsInstruction(source[k]) THEN words[k] # NONE
                        ELSE source[k].op \in {"EQU", "none"},
                      starts[j] - starts[i] \in -510..510
               PROVE  Destination(i) = starts[j]
    BY DEF BranchesReachLabels
  <2> DEFINE l == source[i]
             a == l.args[1].name
             w == words[i]
             N == Len(source)
             v == resolve_expression(l.args[1], labels)
  <2>1. /\ Written(source) /\ N \in Nat /\ DOMAIN source = 1..N
        /\ Len(starts) = N /\ i \in 1..N /\ j \in 1..N /\ Numbers(labels)
        /\ l \in SourceLine
    BY FinishedWords DEF Lines
  <2>2. /\ IsInstruction(l) /\ Alias(l.op) \in Names(group4_opnames)
        /\ l.mode = "DL" /\ l.args # <<>>
        /\ a \notin DOMAIN HexNames \cup {NoName}
        /\ Naming(a) = {j}
        /\ source[j].op \notin {"EQU", "ORG", "FIN"} \cup Sections
        /\ Opening(i) = Opening(j)
        /\ w # NONE
    BY DEF BranchTo
  <2>3. a = source[j].label
    BY <2>1, <2>2 DEF Naming
  <2>4. PlainLabel(source, j)
    <3>1. source[j].label # NoName /\ Naming(source[j].label) = {j}
      BY <2>2, <2>3
    <3> QED  BY <2>1, <2>2, <3>1, NamingIs
  <2>5. ~Opens(source[i]) /\ ~Opens(source[j])
    <3>1. ~Opens(source[j])
      BY <2>2 DEF Opens
    <3>2. ~Opens(source[i])
      BY <2>2 DEF IsInstruction, Directives, Opens
    <3> QED  BY <3>1, <3>2
  <2> DEFINE pure(n) == Pure(source, n, words)
             span(n) == Span(source, n)
             base(n) == Base(source, n, starts)
  <2>6. ASSUME NEW n \in {i, j}
        PROVE  /\ pure(n - 1) /\ Opener(source, n) = Opener(source, n - 1)
               /\ span(n - 1) \in Int
               /\ starts[n] = base(n - 1) + span(n - 1)
    <3>1. n \in 1..N /\ n \in Nat \ {0} /\ n - 1 \in 0..N /\ n - 1 \in Nat
      BY <2>1
    <3>2. pure(n)
      <4>1. ASSUME NEW k \in 1..n, Opener(source, n) < k
            PROVE  IF IsInstruction(source[k]) THEN words[k] # NONE
                   ELSE source[k].op \in {"EQU", "none"}
        <5>1. k \in Upto(n)
          BY <2>1, <3>1, <4>1, UptoIs
        <5> QED  BY <5>1
      <4> QED  BY <4>1 DEF Pure
    <3>3. pure(n - 1) /\ Opener(source, n) = Opener(source, n - 1)
      BY <2>5, <3>1, <3>2, WholeStep
    <3>4. Whole(source, n - 1, words)
      BY <3>3, PureIsWhole
    <3>5. starts[n] = base(n - 1) + span(n - 1)
      BY <2>1, <3>1, <3>4 DEF AssemblerInv, SecondInv
    <3>6. span(n - 1) \in Int
      BY <2>1, <3>1, Spans
    <3> QED  BY <3>3, <3>5, <3>6
  <2>7. base(i - 1) = base(j - 1) /\ base(i - 1) \in Nat
    <3> DEFINE o == Opener(source, i - 1)
    <3>1. o = Opener(source, j - 1)
      BY <2>2, <2>6, OpenerIs
    <3>2. i - 1 \in Nat
      BY <2>1
    <3>3. o \in 0..i - 1
      BY <3>2, Openers
    <3>4. o # 0 => o \in 1..Len(starts)
      BY <2>1, <3>3
    <3>5. starts \in Seq(Nat)
      BY DEF AssemblerInv, AssemblerType
    <3>6. base(i - 1) = IF o = 0 THEN 0 ELSE starts[o]
      BY DEF Base
    <3>7. base(j - 1) = IF o = 0 THEN 0 ELSE starts[o]
      BY <3>1 DEF Base
    <3> HIDE DEF o, base
    <3> QED  BY <3>4, <3>5, <3>6, <3>7
  <2>8. PICK here \in Nat :
          /\ w = assemble_instruction(l, labels, here)
          /\ here = span(i - 1) /\ here % 2 = 0
    <3>1. PICK n \in Nat :
            /\ words[i] = assemble_instruction(source[i], labels, n)
            /\ Pure(source, i - 1, words) => n = Span(source, i - 1) /\ n % 2 = 0
      BY <2>1, <2>2, FinishedWords, Zenon
    <3>2. Pure(source, i - 1, words)
      BY <2>6
    <3> QED  BY <3>1, <3>2, Zenon
  <2>9. l.op \in known_opcodes /\ l.op \in Mnemonics4 \cup Aliases
    BY <2>1, <2>2, FinishedWords, Branches
  <2> HIDE DEF w, v, l, span, base, pure, N
  <2>10. /\ v \in Nat
         /\ w = Encoded(l.op, Relative(here, v).mode, Relative(here, v).value)
    <3>1. here \in Int
      BY <2>8
    <3> QED  BY <2>1, <2>2, <2>8, <2>9, <3>1, BranchWord DEF v
  <2>11. v = labels[a] /\ a \in DOMAIN labels
    <3>1. v # NONE
      BY <2>10 DEF NONE
    <3> QED  BY <2>2, <3>1 DEF v, resolve_expression
  <2>12. v = span(j - 1) /\ v % 2 = 0
    <3>1. AllSized(source, j - 1)
      BY <2>6, PureIsWhole DEF pure
    <3>2. /\ labels[source[j].label] = Span(source, j - 1)
          /\ labels[source[j].label] % 2 = 0
      BY <2>1, <2>3, <2>4, <2>11, <3>1 DEF AssemblerInv, FirstInv, N
    <3> QED  BY <2>3, <2>11, <3>2 DEF span
  <2>13. /\ starts[i] = base(i - 1) + here /\ starts[j] = base(i - 1) + v
    <3>1. starts[i] = base(i - 1) + span(i - 1) /\ starts[j] = base(j - 1) + span(j - 1)
      BY <2>6
    <3> QED  BY <2>7, <2>8, <2>12, <3>1
  <2>14. v - here \in -510..510 /\ starts[j] - starts[i] = v - here
    BY <2>7, <2>8, <2>10, <2>13
  <2>15. v - here = Distance(w)
    <3> DEFINE op == l.op
    <3>1. op \in Mnemonics4 \cup Aliases /\ here \in Int /\ v \in Int
          /\ w = Encoded(op, Relative(here, v).mode, Relative(here, v).value)
      BY <2>8, <2>9, <2>10
    <3>2. Near(here, v) /\ w # NONE
      BY <2>2, <2>8, <2>12, <2>14 DEF Near
    <3> DEFINE t == v
    <3>3. t \in Int /\ Near(here, t) /\ v = t
          /\ w = Encoded(op, Relative(here, t).mode, Relative(here, t).value)
      BY <3>1, <3>2
    <3> HIDE DEF op, t
    <3>4. t - here = Distance(w)
      BY <3>1, <3>2, <3>3, BranchLands
    <3> QED  BY <3>3, <3>4
  <2>16. Destination(i) = starts[i] + Distance(w)
    BY DEF Destination, Distance, decode_insn, w
  <2> QED  BY <2>7, <2>8, <2>10, <2>13, <2>15, <2>16
<1> QED  BY <1>1, AssemblerInvariant, PTL

=============================================================================
